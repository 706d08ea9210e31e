------------------------------- MODULE MCHttp -------------------------------
(***************************************************************************)
(* Instances of Http for TLC: hits is a counter and a gauge, load a gauge. *)
(***************************************************************************)
EXTENDS Http, TLC

CONSTANTS h1, h2, w1, w2, hits, load, one, secret

Counter(n, d) == [mtype |-> "counter", id |-> n, val |-> d]
Gauge(n, s) == [mtype |-> "gauge", id |-> n, val |-> s]
Other(n) == [mtype |-> "other", id |-> n, val |-> Nil]

R(kind, items, coding, packed, signed, gzip) ==
  [kind |-> kind, items |-> items, coding |-> coding, packed |-> packed,
   signed |-> signed, gzip |-> gzip]

Mixed == {
  R("path", <<Counter(hits, 1)>>, "", 0, "no", TRUE),
  R("path", <<Gauge(load, NaN)>>, "", 0, "no", FALSE),
  R("path", <<Gauge(hits, Invalid)>>, "", 0, "no", TRUE),
  R("json", <<Counter(hits, -1)>>, "gzip", 1, "well", TRUE),
  R("json", <<Gauge(hits, Nil)>>, "", 0, "badly", FALSE),
  R("batch", <<Counter(hits, 1), Gauge(load, one), Counter(hits, 1)>>, "x-gzip", 1, "no", TRUE),
  R("batch", <<Other(load), Gauge(hits, one)>>, "gzip", 0, "well", TRUE),
  R("batch", <<Gauge(hits, one), Other(load)>>, "", 0, "no", FALSE),
  R("value", <<Gauge(load, Nil)>>, "gzip", 1, "badly", TRUE),
  R("value", <<Gauge(load, Nil)>>, "", 1, "no", FALSE),
  R("get", <<Counter(hits, Nil)>>, "", 0, "no", TRUE),
  R("list", <<>>, "", 0, "no", TRUE)}

Interchangeable == Permutations(Handlers) \cup Permutations(Writers)
=============================================================================
