----------------------------- MODULE MCPostgres -----------------------------
(***************************************************************************)
(* Instances of Postgres for TLC: two names, x that only counts in single  *)
(* updates but becomes a gauge in a JSON update, and y that batches update.*)
(***************************************************************************)
EXTENDS Postgres

CONSTANTS h1, h2, x, y, v

Counter(i, n) == [id |-> i, mtype |-> "counter", val |-> n]
Gauge(i, s) == [id |-> i, mtype |-> "gauge", val |-> s]
Unknown(i) == [id |-> i, mtype |-> "other", val |-> Nil]
R(kind, items) == [kind |-> kind, items |-> items]

Updates == {
  R("path", <<Counter(x, 1)>>),
  R("json", <<Gauge(x, v)>>),
  R("json", <<Counter(x, 1)>>),
  R("batch", <<Counter(x, 1), Gauge(y, v), Counter(x, 1)>>),
  R("batch", <<Gauge(x, Nil)>>),
  R("batch", <<Counter(y, 1), Gauge(y, v)>>),
  R("batch", <<Counter(y, 1), Unknown(y)>>)}

UpdatesAndReads == Updates \cup {R("value", <<Counter(x, 1)>>), R("list", <<>>)}
=============================================================================
