-------------------------------- MODULE Http --------------------------------
(***************************************************************************)
(* The router of cmd/server/main.go: a request passes HashRequest-         *)
(* Middleware, HashResponseMiddleware (both only with a key) and           *)
(* GzipMiddleware (middleware/hash.go, gzip.go) before its handler, and    *)
(* its answer passes them on the way back.  What concurrent requests share *)
(* is the metrics (Service) and the pool of gzip writers.                  *)
(*                                                                         *)
(* A body is what was done to it: how many times it is compressed on the   *)
(* way in; on the way out the pieces that were written, each with the      *)
(* number of the request whose handler wrote it.                           *)
(***************************************************************************)
EXTENDS Service

CONSTANTS
  Keys, NoKey, NoneKey, NoSig,  \* flag -k: a key, "", "none"; no signature
  Writers, Nobody               \* gzip.Writers; io.Discard

\* coding is the header Content-Encoding ("x-gzip" contains "gzip"), packed how
\* often the body is compressed, signed the header HashSHA256 (over the body as
\* sent), gzip whether isGzipCompatible holds of Accept-Encoding and Accept.
HttpRequestOK(r) ==
  r \in [kind : Kinds, items : Seq(Items), coding : {"", "gzip", "x-gzip"}, packed : 0..1,
         signed : {"no", "well", "badly"}, gzip : BOOLEAN]

ASSUME HttpAssumption ==
  /\ \A r \in Requests : HttpRequestOK(r)
  /\ Cardinality(Writers) >= Cardinality(Handlers)
  /\ Nobody \notin Handlers

VARIABLES
  key, pooled,   \* configuration: cfg.Key; GZIP_POOL
  pool,          \* gzipWriterPool
  writer,        \* each gzip.Writer: where it writes, its state, what it holds back
  using,         \* the writers that each handler's request has wrapped
  number,        \* history: the request's number
  rest,          \* what middleware still has to do after the handler
  header,        \* Content-Encoding and HashSHA256 as set so far
  buffer,        \* hashResponseWriter.body
  sent           \* the response on the connection

config == <<key, pooled>>
http == <<config, pool, writer, using, number, rest, header, buffer, sent>>
httpVars == <<service, http>>

Fresh(d) == [to |-> d, state |-> "fresh", held |-> <<>>]
NoHeader == [coding |-> "", sig |-> NoSig]
Nothing == [status |-> 0, header |-> NoHeader, body |-> <<>>]

HttpInit ==
  /\ ServiceInit
  /\ key \in Keys /\ pooled \in BOOLEAN
  /\ pool = {}
  /\ writer = [w \in Writers |-> Fresh(Nobody)]
  /\ using = [h \in Handlers |-> {}]
  /\ number = [h \in Handlers |-> 0]
  /\ rest = [h \in Handlers |-> <<>>]
  /\ header = [h \in Handlers |-> NoHeader]
  /\ buffer = [h \in Handlers |-> <<>>]
  /\ sent = [h \in Handlers |-> Nothing]

-----------------------------------------------------------------------------
(* A request on its way in.                                                *)

Post(r) == r.kind \in {"path", "json", "batch", "value"}

\* HashRequestMiddleware looks at the bodies of all POSTs but POST /value/.
Checked(r) == key \notin {NoKey, NoneKey} /\ Post(r) /\ r.kind # "value"

Unpacks(r) == Checked(r) /\ r.coding = "gzip"

RefusedByHash(r) == Checked(r) /\ (r.signed = "badly" \/ (Unpacks(r) /\ r.packed = 0))

\* Faulty variant: the header stays after the body was decompressed.
AfterHashKeepsHeader(r) == IF Unpacks(r) THEN [r EXCEPT !.packed = @ - 1] ELSE r

\* It decompresses a body that is declared exactly "gzip".
AfterHash(r) == IF Unpacks(r) THEN [r EXCEPT !.packed = @ - 1, !.coding = ""] ELSE r

\* GzipMiddleware decompresses one whose declaration contains "gzip".
RefusedByGzip(r) == r.coding # "" /\ r.packed = 0

AfterGzip(r) == IF r.coding # "" THEN [r EXCEPT !.packed = @ - 1, !.coding = ""] ELSE r

\* A path or a GET has nothing to parse.
Parses(r) == r.kind \in {"json", "batch", "value"} => r.packed = 0

\* AbortWithStatus(400): the header goes out, and no handler runs.
Refuse(h, r) ==
  /\ at[h] = "idle" /\ served < MaxRequests
  /\ RefusedByHash(r) \/ RefusedByGzip(AfterHash(r))
  /\ served' = served + 1
  /\ sent' = [sent EXCEPT ![h].status = 400]
  /\ req' = [req EXCEPT ![h] = r]
  /\ at' = [at EXCEPT ![h] = "refused"]
  /\ UNCHANGED <<storage, todo, result, status, blank, seen, existed, asked, config, pool,
                 writer, using, number, rest, header, buffer>>

\* Faulty variant: the writer is in the pool again before it is closed.
ReturnedEarly == <<"put", "close">>

\* The deferred function of GzipMiddleware.
Returned == IF pooled THEN <<"close", "put">> ELSE <<"close">>

\* Pool.Get gives a pooled writer or a new one, which Reset sets on the response;
\* without the pool each request makes its own.
GetWriter(h, w) ==
  /\ w \in pool \/ \A g \in Handlers : w \notin using[g]
  /\ pool' = pool \ {w}
  /\ writer' = [writer EXCEPT ![w] = Fresh(h)]
  /\ using' = [using EXCEPT ![h] = {w}]

Receive(h, r) ==
  /\ at[h] = "idle"
  /\ ~RefusedByHash(r) /\ ~RefusedByGzip(AfterHash(r))
  /\ Begin(h, r, Parses(AfterGzip(AfterHash(r))))
  /\ number' = [number EXCEPT ![h] = served']
  /\ IF r.gzip THEN \E w \in Writers : GetWriter(h, w)
     ELSE UNCHANGED <<pool, writer, using>>
  /\ rest' = [rest EXCEPT ![h] = (IF r.gzip THEN Returned ELSE <<>>)
                                 \o (IF key = NoKey THEN <<>> ELSE <<"hash">>)]
  /\ header' = [header EXCEPT ![h].coding = IF r.gzip THEN "gzip" ELSE ""]
  /\ UNCHANGED <<config, buffer, sent>>

Serve(h) == ServiceStep(h) /\ UNCHANGED http

-----------------------------------------------------------------------------
(* The answer on its way out.                                              *)

\* What a body is made of: the text that the handler of request n wrote, as it
\* is or compressed, and both ends of a compressed stream.
Text(n) == [form |-> "text", of |-> n]
Data(n) == [form |-> "data", of |-> n]
StreamHead == [form |-> "head", of |-> 0]
StreamTail == [form |-> "tail", of |-> 0]

\* What the connection has after hd and body were written: only the first write
\* sends status and headers.
Written(h, hd, body) ==
  IF sent[h].status = 0 THEN [status |-> status[h], header |-> hd, body |-> body]
  ELSE [sent[h] EXCEPT !.body = @ \o body]

\* A write below GzipMiddleware: into hashResponseWriter's buffer, or out.
Emit(d, body) ==
  IF body = <<>> \/ d = Nobody THEN UNCHANGED <<buffer, sent>>
  ELSE IF key # NoKey THEN /\ buffer' = [buffer EXCEPT ![d] = @ \o body]
                           /\ UNCHANGED sent
  ELSE /\ sent' = [sent EXCEPT ![d] = Written(d, header[d], body)]
       /\ UNCHANGED buffer

Begun(w) == IF writer[w].state = "fresh" THEN <<StreamHead>> ELSE <<>>

\* The handler writes its answer, if it has a body; a gzip.Writer begins its
\* stream with the first write, holds the data back, and takes none when closed.
WriteAnswer(h) ==
  /\ at[h] = "answer"
  /\ at' = [at EXCEPT ![h] = "returned"]
  /\ IF blank[h] THEN UNCHANGED <<writer, buffer, sent>>
     ELSE IF using[h] = {} THEN Emit(h, <<Text(number[h])>>) /\ UNCHANGED writer
     ELSE \E w \in using[h] :
       IF writer[w].state = "closed" THEN UNCHANGED <<writer, buffer, sent>>
       ELSE /\ Emit(writer[w].to, Begun(w))
            /\ writer' = [writer EXCEPT ![w].state = "open",
                                        ![w].held = Append(@, Data(number[h]))]
  /\ UNCHANGED <<storage, req, todo, result, status, blank, seen, existed, asked, served,
                 config, pool, using, number, rest, header>>

\* The next thing h's middleware does after the handler.
Now(h, what) ==
  /\ at[h] = "returned" /\ rest[h] # <<>> /\ Head(rest[h]) = what
  /\ rest' = [rest EXCEPT ![h] = Tail(@)]
  /\ UNCHANGED <<service, config, using, number>>

CloseWriter(h) ==
  /\ Now(h, "close")
  /\ \E w \in using[h] :
       IF writer[w].state = "closed" THEN UNCHANGED <<writer, buffer, sent>>
       ELSE /\ Emit(writer[w].to, Begun(w) \o writer[w].held \o <<StreamTail>>)
            /\ writer' = [writer EXCEPT ![w].state = "closed", ![w].held = <<>>]
  /\ UNCHANGED <<pool, header>>

PutWriter(h) ==
  /\ Now(h, "put")
  /\ pool' = pool \cup using[h]
  /\ UNCHANGED <<writer, header, buffer, sent>>

\* Over what the gzip middleware has written, its compressed stream included.
Signature(h) ==
  IF key = NoneKey \/ buffer[h] = <<>> THEN NoSig ELSE [by |-> key, over |-> buffer[h]]

\* Faulty variant: the buffered body goes out first.
HashResponseLate(h) ==
  /\ Now(h, "hash")
  /\ header' = [header EXCEPT ![h].sig = Signature(h)]
  /\ sent' = [sent EXCEPT ![h] = Written(h, header[h], buffer[h])]
  /\ buffer' = [buffer EXCEPT ![h] = <<>>]
  /\ UNCHANGED <<pool, writer>>

\* The signature of the buffered body is set before anything goes out.
HashResponse(h) ==
  /\ Now(h, "hash")
  /\ header' = [header EXCEPT ![h].sig = Signature(h)]
  /\ sent' = [sent EXCEPT ![h] = Written(h, header'[h], buffer[h])]
  /\ buffer' = [buffer EXCEPT ![h] = <<>>]
  /\ UNCHANGED <<pool, writer>>

\* ServeHTTP sends the header if nobody has, and the response is complete.
Response(h) == IF sent[h].status = 0 THEN Written(h, header[h], <<>>) ELSE sent[h]

Finish(h) ==
  /\ at[h] = "refused" \/ (at[h] = "returned" /\ rest[h] = <<>>)
  /\ Done(h)
  /\ using' = [using EXCEPT ![h] = {}]
  /\ number' = [number EXCEPT ![h] = 0]
  /\ header' = [header EXCEPT ![h] = NoHeader]
  /\ sent' = [sent EXCEPT ![h] = Nothing]
  /\ UNCHANGED <<config, pool, writer, rest, buffer>>

\* The garbage collector empties pools.
Collected(w) ==
  /\ w \in pool
  /\ pool' = pool \ {w}
  /\ UNCHANGED <<service, config, writer, using, number, rest, header, buffer, sent>>

-----------------------------------------------------------------------------
HttpNext ==
  \/ \E h \in Handlers :
       \/ \E r \in Requests : Refuse(h, r) \/ Receive(h, r)
       \/ Serve(h)
       \/ WriteAnswer(h) \/ CloseWriter(h) \/ PutWriter(h) \/ HashResponse(h)
       \/ Finish(h)
  \/ \E w \in Writers : Collected(w)

HttpSpec == HttpInit /\ [][HttpNext]_httpVars

-----------------------------------------------------------------------------
(* Properties.                                                             *)

\* Every variable stays in its type.
TypeOK ==
  /\ gauges \in [Names -> GaugeValues \cup {Absent}]
  /\ counters \in [Names -> Int64 \cup {Absent}]
  /\ at \in [Handlers -> {"idle", "refused", "update", "read", "list", "answer", "returned"}]
  /\ \A h \in Handlers : result[h] \subseteq [mtype : {"gauge", "counter"}, id : Names,
                                               val : GaugeValues \cup Int64]
  /\ status \in [Handlers -> {0, 200, 400, 404, 500}] /\ blank \in [Handlers -> BOOLEAN]
  /\ pool \subseteq Writers /\ using \in [Handlers -> SUBSET Writers]
  /\ \A w \in Writers : /\ writer[w].to \in Handlers \cup {Nobody}
                         /\ writer[w].state \in {"fresh", "open", "closed"}
  /\ number \in [Handlers -> 0..MaxRequests]
  /\ \A h \in Handlers : Len(rest[h]) <= 3 /\ sent[h].status \in {0, 200, 400, 404, 500}

Complete(h) == at[h] = "returned" /\ rest[h] = <<>>

\* What h's handler wrote, in the encoding that the response declares.
Own(h) ==
  LET text == IF blank[h] THEN <<>> ELSE <<Text(number[h])>>
      data == IF blank[h] THEN <<>> ELSE <<Data(number[h])>>
  IN  IF Response(h).header.coding = "gzip" THEN <<StreamHead>> \o data \o <<StreamTail>>
      ELSE text

\* A response has the status that its handler chose and the bytes that its
\* handler wrote and no others, as one complete stream if it is declared to be
\* compressed, though the gzip writers are passed from request to request
\* (gzip.go:131-163); and nothing is written to a response that is finished.
ResponseIntact ==
  \A h \in Handlers :
    /\ Complete(h) => /\ Response(h).status = status[h]
                      /\ Response(h).header.coding = IF req[h].gzip THEN "gzip" ELSE ""
                      /\ Response(h).body = Own(h)
    /\ at[h] = "idle" => sent[h] = Nothing /\ buffer[h] = <<>>

\* With a key, every response with a body carries the signature of exactly the
\* bytes that the client gets, compressed ones included: "the resulting body of
\* the response" (hash.go:89-90, 104-128). It is what hash.go promises, and not
\* what the comment at main.go:87-88 says of the order of the middlewares, "so
\* that the signature is computed of the unpacked body": in that order it is of
\* the packed one.
SignedAsSent ==
  \A h \in Handlers : Complete(h) =>
    LET r == Response(h)
    IN  r.header.sig = IF key \in {NoKey, NoneKey} \/ r.body = <<>> THEN NoSig
                       ELSE [by |-> key, over |-> r.body]

\* A request whose body is compressed if and only if it is declared to be.
WellFormed(r) == r.packed = 1 <=> r.coding # ""

\* Between the two middlewares that decompress and check bodies, a well-formed
\* request is decompressed once and reaches its handler as the client wrote it,
\* and a badly signed one reaches none, but for POST /value/, whose signature
\* nobody checks (hash.go:37-86, gzip.go:111-128). A request is badly signed if
\* its signature is not that of the body as it came over the network, compressed
\* if it was (hash.go:22-24, hash_test.go:39), main.go:87-88 notwithstanding.
Admitted ==
  \A h \in Handlers : at[h] # "idle" =>
    LET r == req[h]
        forged == key \notin {NoKey, NoneKey} /\ Post(r) /\ r.kind # "value"
                  /\ r.signed = "badly"
    IN  /\ forged => at[h] = "refused"
        /\ WellFormed(r) /\ ~forged =>
             /\ at[h] # "refused"
             /\ status[h] = 400 => \E k \in DOMAIN r.items : ~Accepted(r.items[k])
=============================================================================
