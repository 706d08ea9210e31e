----------------------------- MODULE HttpProofs -----------------------------
(***************************************************************************)
(* What Http guarantees for any handlers, writers, requests and keys: the  *)
(* metrics behave as ServiceProofs has it, a response is intact and signed *)
(* as it is sent, and only what is badly made or badly signed is refused.  *)
(***************************************************************************)
EXTENDS Http, ServiceProofs

-----------------------------------------------------------------------------
(* The invariant.                                                          *)

\* What middleware can still have to do: close a writer, put it back, sign.
Closes == {<<"close">>, <<"close", "hash">>, <<"close", "put">>, <<"close", "put", "hash">>}
Puts == {<<"put">>, <<"put", "hash">>}
Signs == {<<"hash">>, <<"close", "hash">>, <<"put", "hash">>, <<"close", "put", "hash">>}
Rests == {<<>>} \cup Closes \cup Puts \cup Signs

HttpTyped ==
  /\ pool \in SUBSET Writers /\ using \in [Handlers -> SUBSET Writers]
  /\ DOMAIN writer = Writers
  /\ \A w \in Writers : /\ writer[w].to \in Handlers \cup {Nobody}
                         /\ writer[w].state \in {"fresh", "open", "closed"}
  /\ number \in [Handlers -> 0..MaxRequests]
  /\ rest \in [Handlers -> Rests]
  /\ DOMAIN header = Handlers /\ DOMAIN buffer = Handlers /\ DOMAIN sent = Handlers

Working == {"update", "read", "list", "answer"}

\* What h's handler and gzip.Writer have written so far.
Out(h) ==
  IF at[h] # "returned" THEN <<>>
  ELSE IF ~req[h].gzip THEN IF blank[h] THEN <<>> ELSE <<Text(number[h])>>
  ELSE IF rest[h] \in Closes THEN IF blank[h] THEN <<>> ELSE <<StreamHead>>
  ELSE IF blank[h] THEN <<StreamHead, StreamTail>>
  ELSE <<StreamHead, Data(number[h]), StreamTail>>

\* The header of h's answer, before and after it is signed.
Declared(h) == [coding |-> IF req[h].gzip THEN "gzip" ELSE "", sig |-> NoSig]

Signed(h) ==
  [Declared(h) EXCEPT !.sig = IF key = NoneKey \/ Out(h) = <<>> THEN NoSig
                              ELSE [by |-> key, over |-> Out(h)]]

\* Nothing of h's is anywhere.
Clean(h) ==
  rest[h] = <<>> /\ buffer[h] = <<>> /\ header[h] = NoHeader /\ using[h] = {}

\* What h's middleware has yet to do agrees with the request and the key.
Ahead(h) ==
  /\ rest[h] \in Closes \cup Puts => req[h].gzip
  /\ rest[h] \in Signs => key # NoKey
  /\ key # NoKey /\ rest[h] # <<>> => rest[h] \in Signs
  /\ at[h] \in Working => /\ rest[h] \in Closes <=> req[h].gzip
                          /\ rest[h] \notin Puts
                          /\ rest[h] \in Signs <=> key # NoKey

\* Where what is written so far is: sent, held for its signature, or signed and sent.
Flow(h) ==
  /\ key = NoKey =>
       /\ buffer[h] = <<>> /\ header[h] = Declared(h)
       /\ sent[h] = IF Out(h) = <<>> THEN Nothing
                    ELSE [status |-> status[h], header |-> Declared(h), body |-> Out(h)]
  /\ rest[h] \in Signs =>
       buffer[h] = Out(h) /\ header[h] = Declared(h) /\ sent[h] = Nothing
  /\ key # NoKey /\ rest[h] \notin Signs =>
       /\ buffer[h] = <<>> /\ header[h] = Signed(h)
       /\ sent[h] = [status |-> status[h], header |-> Signed(h), body |-> Out(h)]

\* The writer that h has yet to close is h's, and holds back what h wrote.
HoldsBack(h) ==
  rest[h] \in Closes => \E w \in Writers :
    /\ using[h] = {w}
    /\ writer[w] = IF at[h] = "returned" /\ ~blank[h]
                   THEN [to |-> h, state |-> "open", held |-> <<Data(number[h])>>]
                   ELSE Fresh(h)

PipeOf(h) ==
  /\ at[h] = "idle" => Clean(h) /\ sent[h] = Nothing
  /\ at[h] = "refused" => Clean(h) /\ sent[h] = [Nothing EXCEPT !.status = 400]
  /\ at[h] \in Working \cup {"returned"} =>
       /\ using[h] = {} <=> ~req[h].gzip
       /\ status[h] # 0
       /\ Ahead(h) /\ Flow(h) /\ HoldsBack(h)

\* A writer that h has yet to close or put back is neither in the pool nor
\* another's.
Owns(h, w) == w \in using[h] /\ rest[h] \in Closes \cup Puts

Exclusive ==
  \A h \in Handlers, w \in Writers : Owns(h, w) =>
    w \notin pool /\ \A g \in Handlers \ {h} : ~Owns(g, w)

PipeInv == Exclusive /\ \A h \in Handlers : PipeOf(h)

-----------------------------------------------------------------------------
(* Sequences that are written out.                                         *)

LEMMA Join2 ==
  ASSUME NEW a, NEW b
  PROVE  <<a>> \o <<b>> = <<a, b>>
<1>. DEFINE S == {a, b}
<1>1. <<a>> \in Seq(S) /\ <<b>> \in Seq(S) /\ <<a, b>> \in Seq(S)
  OBVIOUS
<1>. HIDE DEF S
<1>2. /\ <<a>> \o <<b>> \in Seq(S) /\ Len(<<a>> \o <<b>>) = 2
      /\ \A i \in 1..2 : (<<a>> \o <<b>>)[i] = IF i <= 1 THEN <<a>>[i] ELSE <<b>>[i - 1]
  BY <1>1, ConcatProperties
<1>3. \A i \in 1..2 : (<<a>> \o <<b>>)[i] = <<a, b>>[i]
  BY <1>2
<1>. QED
  BY <1>1, <1>2, <1>3, SeqEqual

LEMMA Join3 ==
  ASSUME NEW a, NEW b, NEW c
  PROVE  <<a>> \o <<b, c>> = <<a, b, c>> /\ <<a, b>> \o <<c>> = <<a, b, c>>
<1>. DEFINE S == {a, b, c}
<1>1. /\ <<a>> \in Seq(S) /\ <<c>> \in Seq(S) /\ <<a, b>> \in Seq(S) /\ <<b, c>> \in Seq(S)
      /\ <<a, b, c>> \in Seq(S)
  OBVIOUS
<1>. HIDE DEF S
<1>2. /\ <<a>> \o <<b, c>> \in Seq(S) /\ Len(<<a>> \o <<b, c>>) = 3
      /\ \A i \in 1..3 : (<<a>> \o <<b, c>>)[i] = IF i <= 1 THEN <<a>>[i] ELSE <<b, c>>[i - 1]
  BY <1>1, ConcatProperties
<1>3. \A i \in 1..3 : (<<a>> \o <<b, c>>)[i] = <<a, b, c>>[i]
  BY <1>2
<1>4. /\ <<a, b>> \o <<c>> \in Seq(S) /\ Len(<<a, b>> \o <<c>>) = 3
      /\ \A i \in 1..3 : (<<a, b>> \o <<c>>)[i] = IF i <= 2 THEN <<a, b>>[i] ELSE <<c>>[i - 2]
  BY <1>1, ConcatProperties
<1>5. \A i \in 1..3 : (<<a, b>> \o <<c>>)[i] = <<a, b, c>>[i]
  BY <1>4
<1>6. Len(<<a, b, c>>) = 3
  OBVIOUS
<1>7. <<a>> \o <<b, c>> = <<a, b, c>>
  BY <1>1, <1>2, <1>3, <1>6, SeqEqual
<1>8. <<a, b>> \o <<c>> = <<a, b, c>>
  BY <1>1, <1>4, <1>5, <1>6, SeqEqual
<1>. QED
  BY <1>7, <1>8

\* With nothing.
LEMMA JoinNothing ==
  /\ \A a : <<>> \o <<a>> = <<a>> /\ <<a>> \o <<>> = <<a>> /\ <<a>> # <<>>
  /\ \A a, b : <<>> \o <<a, b>> = <<a, b>> /\ <<a, b>> # <<>>
  /\ \A a, b, c : <<a, b, c>> # <<>>
  /\ <<>> \o <<>> = <<>>
OBVIOUS

\* The lists of things to do are all different.
LEMMA RestsDiffer ==
  /\ <<>> \notin Closes \cup Puts \cup Signs
  /\ Closes \cap Puts = {} /\ <<"hash">> \notin Closes \cup Puts
  /\ <<"close">> \notin Signs /\ <<"put">> \notin Signs /\ <<"close", "put">> \notin Signs
<1>1. <<>> \notin Closes \cup Puts \cup Signs
  BY JoinNothing DEF Closes, Puts, Signs
<1>2. \A s \in Closes : s[1] = "close"
  BY DEF Closes
<1>3. \A s \in Puts : s[1] = "put"
  BY DEF Puts
<1>4. <<"hash">>[1] = "hash"
  OBVIOUS
<1>5. Closes \cap Puts = {} /\ <<"hash">> \notin Closes \cup Puts
  <2>1. "close" # "put" /\ "close" # "hash" /\ "put" # "hash"
    OBVIOUS
  <2>. QED
    BY <1>2, <1>3, <1>4, <2>1
<1>6. \A s \in Signs : s[Len(s)] = "hash"
  BY SMTT(30) DEF Signs
<1>7. /\ <<"close">>[Len(<<"close">>)] = "close" /\ <<"put">>[Len(<<"put">>)] = "put"
      /\ <<"close", "put">>[Len(<<"close", "put">>)] = "put"
  OBVIOUS
<1>8. "close" # "hash" /\ "put" # "hash"
  OBVIOUS
<1>. QED
  BY <1>1, <1>5, <1>6, <1>7, <1>8

LEMMA Tails ==
  /\ \A a : Tail(<<a>>) = <<>> /\ Head(<<a>>) = a
  /\ \A a, b : Tail(<<a, b>>) = <<b>> /\ Head(<<a, b>>) = a
  /\ \A a, b, c : Tail(<<a, b, c>>) = <<b, c>> /\ Head(<<a, b, c>>) = a
OBVIOUS

\* What is done next, and what is then left to do.
LEMMA RestNext ==
  ASSUME NEW s \in Rests
  PROVE  /\ s # <<>> => Head(s) \in {"close", "put", "hash"}
         /\ s # <<>> => (Head(s) = "close" <=> s \in Closes)
         /\ s # <<>> => (Head(s) = "put" <=> s \in Puts)
         /\ s # <<>> => (Head(s) = "hash" <=> s = <<"hash">>)
         /\ s \in Closes => /\ Tail(s) \in Rests /\ Tail(s) \notin Closes
                            /\ Tail(s) \in Signs <=> s \in Signs
                            /\ Tail(s) = <<>> \/ Tail(s) \in Puts \/ Tail(s) \in Signs
         /\ s \in Puts => /\ Tail(s) \in Rests /\ Tail(s) \notin Closes \cup Puts
                          /\ Tail(s) \in Signs <=> s \in Signs
         /\ s = <<"hash">> => Tail(s) = <<>>
         /\ s = <<"hash">> => s \in Signs /\ s \notin Closes \cup Puts
         /\ s = <<>> => s \notin Closes \cup Puts \cup Signs
         /\ s \in Closes => s \notin Puts
<1>1. /\ "close" # "put" /\ "close" # "hash" /\ "put" # "hash"
  OBVIOUS
<1>2. /\ <<>> \notin Closes \cup Puts \cup Signs
      /\ Closes \cap Puts = {} /\ <<"hash">> \notin Closes \cup Puts
      /\ <<"close">> \notin Signs /\ <<"put">> \notin Signs /\ <<"close", "put">> \notin Signs
  BY RestsDiffer
<1>3. CASE s \in {<<>>, <<"hash">>}
  <2>1. CASE s = <<>>
    BY <1>2, <2>1
  <2>2. CASE s = <<"hash">>
    <3>1. Head(s) = "hash" /\ Tail(s) = <<>>
      BY <2>2, Tails
    <3>2. s \in Signs
      BY <2>2 DEF Signs
    <3>. QED
      BY <1>1, <1>2, <2>2, <3>1, <3>2
  <2>. QED
    BY <1>3, <2>1, <2>2
<1>4. CASE s \in Puts
  <2>1. CASE s = <<"put">>
    BY <1>1, <1>2, <2>1 DEF Rests, Puts
  <2>2. CASE s = <<"put", "hash">>
    <3>1. Head(s) = "put" /\ Tail(s) = <<"hash">>
      BY <2>2
    <3>. QED
      BY <1>1, <1>2, <1>4, <2>2, <3>1 DEF Rests, Signs
  <2>. QED
    BY <1>4, <2>1, <2>2 DEF Puts
<1>5. CASE s \in Closes
  <2>1. Head(s) = "close" /\ s # <<>> /\ s \notin Puts /\ s # <<"hash">>
    BY <1>2, <1>5 DEF Closes
  <2>2. \/ s = <<"close">> /\ Tail(s) = <<>>
        \/ s = <<"close", "hash">> /\ Tail(s) = <<"hash">>
        \/ s = <<"close", "put">> /\ Tail(s) = <<"put">>
        \/ s = <<"close", "put", "hash">> /\ Tail(s) = <<"put", "hash">>
    <3>1. CASE s = <<"close">>
      BY <3>1, Tails
    <3>2. CASE s = <<"close", "hash">>
      BY <3>2, Tails
    <3>3. CASE s = <<"close", "put">>
      BY <3>3, Tails
    <3>4. CASE s = <<"close", "put", "hash">>
      BY <3>4, Tails
    <3>. QED
      BY <1>5, <3>1, <3>2, <3>3, <3>4 DEF Closes
  <2>3. /\ Tail(s) \in Rests /\ Tail(s) \notin Closes
        /\ Tail(s) \in Signs <=> s \in Signs
        /\ Tail(s) = <<>> \/ Tail(s) \in Puts \/ Tail(s) \in Signs
    BY <1>2, <2>2 DEF Rests, Puts, Signs
  <2>. QED
    BY <1>1, <1>2, <1>5, <2>1, <2>3
<1>. QED
  BY <1>3, <1>4, <1>5 DEF Rests, Signs, Puts, Closes

\* What middleware has to do when a request is received.
LEMMA RestBegins ==
  ASSUME NEW r \in Requests
  PROVE  LET s == (IF r.gzip THEN Returned ELSE <<>>)
                  \o (IF key = NoKey THEN <<>> ELSE <<"hash">>)
         IN  /\ s \in Rests /\ s \notin Puts
             /\ s \in Closes <=> r.gzip
             /\ s \in Signs <=> key # NoKey
<1>. DEFINE s == (IF r.gzip THEN Returned ELSE <<>>)
                 \o (IF key = NoKey THEN <<>> ELSE <<"hash">>)
<1>1. /\ <<"close">> \o <<"hash">> = <<"close", "hash">>
      /\ <<"close", "put">> \o <<"hash">> = <<"close", "put", "hash">>
      /\ <<"close">> \o <<>> = <<"close">> /\ <<>> \o <<"hash">> = <<"hash">>
      /\ <<>> \o <<>> = <<>>
  <2>1. <<"close">> \o <<"hash">> = <<"close", "hash">>
    BY Join2
  <2>2. <<"close", "put">> \o <<"hash">> = <<"close", "put", "hash">>
    BY Join3
  <2>3. /\ <<"close">> \o <<>> = <<"close">> /\ <<>> \o <<"hash">> = <<"hash">>
        /\ <<>> \o <<>> = <<>>
    BY JoinNothing
  <2>. QED
    BY <2>1, <2>2, <2>3
<1>2. <<"close", "put">> \o <<>> = <<"close", "put">>
  <2>1. <<"close", "put">> \in Seq({"close", "put"})
    OBVIOUS
  <2>. QED
    BY <2>1, ConcatEmptySeq
<1>3. \/ ~r.gzip /\ key = NoKey /\ s = <<>>
      \/ ~r.gzip /\ key # NoKey /\ s = <<"hash">>
      \/ r.gzip /\ key = NoKey /\ s \in {<<"close">>, <<"close", "put">>}
      \/ r.gzip /\ key # NoKey /\ s \in {<<"close", "hash">>, <<"close", "put", "hash">>}
  BY <1>1, <1>2, Zenon DEF Returned
<1>. HIDE DEF s
<1>4. /\ <<>> \notin Closes \cup Puts \cup Signs
      /\ Closes \cap Puts = {} /\ <<"hash">> \notin Closes \cup Puts
      /\ <<"close">> \notin Signs /\ <<"put">> \notin Signs /\ <<"close", "put">> \notin Signs
  BY RestsDiffer
<1>5. s \in Rests /\ s \notin Puts /\ (s \in Closes <=> r.gzip) /\ (s \in Signs <=> key # NoKey)
  BY <1>3, <1>4 DEF Rests, Closes, Signs
<1>. QED
  BY <1>5 DEF s

-----------------------------------------------------------------------------
(* The router's steps are those that ServiceProofs speaks of.              *)

LEMMA HttpMoves ==
  ASSUME [HttpNext]_httpVars
  PROVE  ServiceMoves
<1>1. ASSUME NEW h \in Handlers, NEW r \in Requests, Refuse(h, r)
      PROVE  Refused(h, r)
  BY <1>1 DEF Refuse, Refused
<1>2. ASSUME NEW h \in Handlers, NEW r \in Requests, Receive(h, r)
      PROVE  at[h] = "idle" /\ \E parses \in BOOLEAN : Begin(h, r, parses)
  <2>. DEFINE p == Parses(AfterGzip(AfterHash(r)))
  <2>1. at[h] = "idle" /\ Begin(h, r, p)
    BY <1>2 DEF Receive
  <2>2. p \in BOOLEAN
    BY DEF Parses
  <2>. HIDE DEF p
  <2>. QED
    BY <2>1, <2>2
<1>3. ASSUME NEW h \in Handlers, WriteAnswer(h)
      PROVE  Returns(h)
  BY <1>3 DEF WriteAnswer, Returns
<1>4. ASSUME NEW h \in Handlers, CloseWriter(h) \/ PutWriter(h) \/ HashResponse(h)
      PROVE  UNCHANGED service
  BY <1>4 DEF CloseWriter, PutWriter, HashResponse, Now
<1>5. ASSUME NEW h \in Handlers, Finish(h)
      PROVE  at[h] \in {"refused", "returned"} /\ Done(h)
  BY <1>5 DEF Finish
<1>6. ASSUME NEW w \in Writers, Collected(w)
      PROVE  UNCHANGED service
  BY <1>6 DEF Collected
<1>7. UNCHANGED httpVars => UNCHANGED service
  BY DEF httpVars
<1>8. \A h \in Handlers : Serve(h) => ServiceStep(h)
  BY DEF Serve
<1>. QED
  BY <1>1, <1>2, <1>3, <1>4, <1>5, <1>6, <1>7, <1>8 DEF HttpNext, ServiceMoves

\* The counters, whatever the router does.
HttpInv ==
  /\ ServiceTyped /\ StageInv
  /\ CountsUp /\ CurrentInv /\ CompleteInv

LEMMA HttpKeepsService == HttpSpec => []HttpInv
<1>1. HttpInit => HttpInv
  BY InitTyped, InitCounts, InitAnswers DEF HttpInit, HttpInv
<1>2. HttpInv /\ [HttpNext]_httpVars => HttpInv'
  BY HttpMoves, MovesTyped, MovesCount, MovesCurrent, MovesComplete DEF HttpInv
<1>. QED
  BY <1>1, <1>2, PTL DEF HttpSpec

\* However the requests that pass the router interleave, every counter holds the
\* sum of all deltas asked for, modulo 2^64, when no update is under way
\* (storage.go:40-45, 127-145).
THEOREM CountersHoldSums == HttpSpec => []SumsExact
<1>1. HttpInv => SumsExact
  BY CountsAreSums DEF HttpInv
<1>. QED
  BY <1>1, HttpKeepsService, PTL

\* Every metric in an answer has a value that memory held after the request's own
\* updates (service/metrics.go:57-88).
THEOREM AnswersAreCurrent == HttpSpec => []AnswersCurrent
<1>1. HttpInv => AnswersCurrent
  BY AnswersAreRight DEF HttpInv
<1>. QED
  BY <1>1, HttpKeepsService, PTL

\* An answer has every metric that the request has set, and the page every name
\* that was there when the listing began (service/metrics.go:62-88, 127-139).
THEOREM AnswersAreComplete == HttpSpec => []AnswersComplete
<1>1. HttpInv => AnswersComplete
  BY AnswersAreRight DEF HttpInv
<1>. QED
  BY <1>1, HttpKeepsService, PTL

-----------------------------------------------------------------------------
(* The pipeline of a response: types.                                      *)

\* The parts that a router's step changes of one request only.
OnlyOf(h) ==
  \A g \in Handlers \ {h} :
    /\ at'[g] = at[g] /\ req'[g] = req[g] /\ status'[g] = status[g] /\ blank'[g] = blank[g]
    /\ using'[g] = using[g] /\ number'[g] = number[g] /\ rest'[g] = rest[g]
    /\ header'[g] = header[g] /\ buffer'[g] = buffer[g] /\ sent'[g] = sent[g]

\* A request whose parts, and whose writer, nobody changes is where it was.
LEMMA PipeKept ==
  ASSUME NEW g \in Handlers, PipeOf(g), key' = key,
         at'[g] = at[g], req'[g] = req[g], status'[g] = status[g], blank'[g] = blank[g],
         using'[g] = using[g], number'[g] = number[g], rest'[g] = rest[g],
         header'[g] = header[g], buffer'[g] = buffer[g], sent'[g] = sent[g],
         rest[g] \in Closes => \A w \in using[g] : writer'[w] = writer[w]
  PROVE  PipeOf(g)'
<1>1. /\ Out(g)' = Out(g) /\ Declared(g)' = Declared(g) /\ (Clean(g) => Clean(g)')
      /\ (Ahead(g) => Ahead(g)')
  BY DEF Out, Declared, Clean, Ahead
<1>2. Signed(g)' = Signed(g)
  BY <1>1 DEF Signed
<1>3. Flow(g) => Flow(g)'
  BY <1>1, <1>2 DEF Flow
<1>4. HoldsBack(g) => HoldsBack(g)'
  <2>. SUFFICES ASSUME HoldsBack(g), rest'[g] \in Closes
                PROVE  \E w \in Writers :
                         /\ using'[g] = {w}
                         /\ writer'[w] = IF at'[g] = "returned" /\ ~blank'[g]
                                         THEN [to |-> g, state |-> "open",
                                               held |-> <<Data(number'[g])>>]
                                         ELSE Fresh(g)
    BY DEF HoldsBack
  <2>1. PICK w \in Writers :
          /\ using[g] = {w}
          /\ writer[w] = IF at[g] = "returned" /\ ~blank[g]
                         THEN [to |-> g, state |-> "open", held |-> <<Data(number[g])>>]
                         ELSE Fresh(g)
    BY DEF HoldsBack
  <2>2. writer'[w] = writer[w]
    BY <2>1
  <2>. QED
    BY <2>1, <2>2
<1>. QED
  BY <1>1, <1>3, <1>4 DEF PipeOf

\* What a write of h does below GzipMiddleware: o was written before it, n after it.
LEMMA EmitEffect ==
  ASSUME HttpTyped, NEW h \in Handlers, NEW o, NEW body, NEW n, Emit(h, body),
         o \o body = n, o = <<>> => n = body, body = <<>> => n = o,
         n = <<>> => o = <<>> /\ body = <<>>,
         status[h] # 0, header[h] = Declared(h),
         key = NoKey => /\ buffer[h] = <<>>
                        /\ sent[h] = IF o = <<>> THEN Nothing
                                     ELSE [status |-> status[h], header |-> Declared(h), body |-> o],
         key # NoKey => buffer[h] = o /\ sent[h] = Nothing
  PROVE  /\ DOMAIN buffer' = Handlers /\ DOMAIN sent' = Handlers
         /\ \A g \in Handlers \ {h} : buffer'[g] = buffer[g] /\ sent'[g] = sent[g]
         /\ key = NoKey =>
              /\ buffer'[h] = <<>>
              /\ sent'[h] = IF n = <<>> THEN Nothing
                            ELSE [status |-> status[h], header |-> Declared(h), body |-> n]
         /\ key # NoKey => buffer'[h] = n /\ sent'[h] = Nothing
<1>1. h # Nobody /\ DOMAIN buffer = Handlers /\ DOMAIN sent = Handlers
  BY HttpAssumption DEF HttpTyped
<1>2. CASE body = <<>>
  BY <1>1, <1>2 DEF Emit
<1>3. CASE body # <<>> /\ key # NoKey
  <2>1. buffer' = [buffer EXCEPT ![h] = @ \o body] /\ sent' = sent
    BY <1>1, <1>3 DEF Emit
  <2>2. /\ DOMAIN buffer' = Handlers /\ buffer'[h] = buffer[h] \o body
        /\ \A g \in Handlers \ {h} : buffer'[g] = buffer[g]
    BY <1>1, <2>1
  <2>. QED
    BY <1>1, <1>3, <2>1, <2>2
<1>4. CASE body # <<>> /\ key = NoKey
  <2>1. sent' = [sent EXCEPT ![h] = Written(h, header[h], body)] /\ buffer' = buffer
    BY <1>1, <1>4 DEF Emit
  <2>2. /\ DOMAIN sent' = Handlers /\ sent'[h] = Written(h, header[h], body)
        /\ \A g \in Handlers \ {h} : sent'[g] = sent[g]
    BY <1>1, <2>1
  <2>3. n # <<>>
    BY <1>4
  <2>4. sent'[h] = [status |-> status[h], header |-> Declared(h), body |-> n]
    <3>1. CASE o = <<>>
      <4>1. sent[h].status = 0
        BY <1>4, <3>1 DEF Nothing
      <4>. QED
        BY <2>2, <3>1, <4>1 DEF Written
    <3>2. CASE o # <<>>
      <4>1. sent[h] = [status |-> status[h], header |-> Declared(h), body |-> o]
        BY <1>4, <3>2
      <4>2. sent[h].status # 0 /\ sent[h].body = o
        BY <4>1
      <4>3. sent'[h] = [sent[h] EXCEPT !.body = o \o body]
        BY <2>2, <4>2 DEF Written
      <4>. QED
        BY <4>1, <4>3
    <3>. QED
      BY <3>1, <3>2
  <2>. QED
    BY <1>1, <1>4, <2>1, <2>2, <2>3, <2>4
<1>. QED
  BY <1>2, <1>3, <1>4

\* A step of h that leaves the writers alone which others have yet to close.
LEMMA PipeStep ==
  ASSUME PipeInv, NEW h \in Handlers, key' = key, OnlyOf(h), PipeOf(h)', Exclusive',
         \A g \in Handlers \ {h} : rest[g] \in Closes => \A w \in using[g] : writer'[w] = writer[w]
  PROVE  PipeInv'
<1>1. ASSUME NEW g \in Handlers \ {h}
      PROVE  PipeOf(g)'
  BY PipeKept DEF OnlyOf, PipeInv
<1>. QED
  BY <1>1 DEF PipeInv

\* Nobody gets a writer.
LEMMA ExclusiveKept ==
  ASSUME Exclusive, HttpTyped, pool' \subseteq pool, using' = using,
         \A g \in Handlers : rest'[g] \in Closes \cup Puts => rest[g] \in Closes \cup Puts
  PROVE  Exclusive'
BY DEF Exclusive, Owns

\* A request that is refused.
LEMMA RefusePipe ==
  ASSUME ServiceTyped, HttpTyped, PipeInv, NEW h \in Handlers, NEW r \in Requests, Refuse(h, r)
  PROVE  HttpTyped' /\ PipeInv'
<1>1. /\ at[h] = "idle" /\ at' = [at EXCEPT ![h] = "refused"] /\ req' = [req EXCEPT ![h] = r]
      /\ sent' = [sent EXCEPT ![h].status = 400]
      /\ UNCHANGED <<status, blank, config, pool, writer, using, number, rest, header, buffer>>
  BY DEF Refuse
<1>2. Clean(h) /\ sent[h] = Nothing
  BY <1>1 DEF PipeInv, PipeOf
<1>3. HttpTyped'
  BY <1>1 DEF HttpTyped
<1>4. /\ at'[h] = "refused" /\ Clean(h)' /\ sent'[h] = [Nothing EXCEPT !.status = 400]
      /\ \A g \in Handlers \ {h} : sent'[g] = sent[g]
  BY <1>1, <1>2 DEF HttpTyped, ServiceTyped, RequestTyped, Clean
<1>5. PipeOf(h)'
  BY <1>4 DEF PipeOf, Working
<1>6. OnlyOf(h)
  BY <1>1, <1>4 DEF OnlyOf, ServiceTyped, RequestTyped
<1>7. Exclusive' /\ key' = key
  BY <1>1, ExclusiveKept DEF PipeInv, config
<1>. QED
  BY <1>1, <1>3, <1>5, <1>6, <1>7, PipeStep

\* A handler's own steps: it writes nothing before its answer is complete.
LEMMA ServePipe ==
  ASSUME ServiceTyped, StageInv, HttpTyped, PipeInv, NEW h \in Handlers, Serve(h)
  PROVE  HttpTyped' /\ PipeInv'
<1>1. /\ ServiceStep(h) /\ UNCHANGED <<pool, writer, using, number, rest, header, buffer, sent>>
      /\ key' = key
  BY DEF Serve, http, config
<1>2. at[h] \in {"update", "read", "list"} /\ req' = req
  BY <1>1 DEF ServiceStep, UpdateMetric, ApplyNext, ReadNext, VisitGauge, GetAllCounters
<1>3. \/ at' = at
      \/ \E a \in {"read", "answer"} : at' = [at EXCEPT ![h] = a]
  BY <1>1 DEF ServiceStep, UpdateMetric, ApplyNext, ReadNext, VisitGauge, GetAllCounters, Answer
<1>4. at'[h] \in Working /\ \A g \in Handlers \ {h} : at'[g] = at[g]
  BY <1>2, <1>3 DEF ServiceTyped, RequestTyped, Working
<1>5. \/ status' = status
      \/ \E c \in {200, 400, 404, 500} : status' = [status EXCEPT ![h] = c]
  <2>1. CASE ReadNext(h)
    <3>1. req[h].kind \in {"json", "batch", "value", "get"}
      BY <2>1 DEF ReadNext, StageInv, StageOf
    <3>2. req[h].kind # "batch" => NotFound[req[h].kind] \in {200, 400, 404, 500}
      BY <3>1, StepTables
    <3>3. \/ status' = status
          \/ status' = [status EXCEPT ![h] = 200]
          \/ /\ req[h].kind # "batch"
             /\ status' = [status EXCEPT ![h] = NotFound[req[h].kind]]
      BY <2>1 DEF ReadNext, Answer
    <3>. QED
      BY <3>2, <3>3
  <2>2. CASE UpdateMetric(h)
    BY <2>2, ZenonT(30) DEF UpdateMetric, Answer
  <2>3. CASE ApplyNext(h)
    BY <2>3 DEF ApplyNext
  <2>4. CASE \E n \in Names : VisitGauge(h, n)
    BY <2>4 DEF VisitGauge
  <2>5. CASE GetAllCounters(h)
    BY <2>5 DEF GetAllCounters, Answer
  <2>. QED
    BY <1>1, <2>1, <2>2, <2>3, <2>4, <2>5 DEF ServiceStep
<1>6. /\ status[h] # 0 => status'[h] # 0
      /\ \A g \in Handlers \ {h} : status'[g] = status[g]
  BY <1>5 DEF ServiceTyped, AnswerTyped
<1>7. blank' = blank \/ \E b : blank' = [blank EXCEPT ![h] = b]
  BY <1>1 DEF ServiceStep, UpdateMetric, ApplyNext, ReadNext, VisitGauge, GetAllCounters, Answer
<1>8. OnlyOf(h)
  BY <1>1, <1>2, <1>4, <1>6, <1>7 DEF OnlyOf, ServiceTyped, AnswerTyped
<1>9. at[h] \in Working /\ at[h] # "returned" /\ at'[h] # "returned"
  BY <1>2, <1>4 DEF Working
<1>10. /\ using[h] = {} <=> ~req[h].gzip
       /\ status[h] # 0
       /\ Ahead(h) /\ Flow(h) /\ HoldsBack(h)
  BY <1>9 DEF PipeInv, PipeOf
<1>11. Out(h) = <<>> /\ Out(h)' = <<>> /\ Declared(h)' = Declared(h)
  BY <1>2, <1>9 DEF Out, Declared
<1>12. Ahead(h)' /\ (key # NoKey => rest[h] \in Signs)
  BY <1>1, <1>2, <1>4, <1>9, <1>10 DEF Ahead
<1>13. Flow(h)'
  BY <1>1, <1>10, <1>11, <1>12 DEF Flow
<1>14. HoldsBack(h)'
  BY <1>1, <1>9, <1>10 DEF HoldsBack, Fresh
<1>15. PipeOf(h)'
  <2>1. at'[h] # "idle" /\ at'[h] # "refused"
    BY <1>4 DEF Working
  <2>. QED
    BY <1>1, <1>2, <1>6, <1>10, <1>12, <1>13, <1>14, <2>1 DEF PipeOf
<1>16. Exclusive'
  BY <1>1, ExclusiveKept DEF PipeInv
<1>17. HttpTyped'
  BY <1>1 DEF HttpTyped
<1>. QED
  BY <1>1, <1>8, <1>15, <1>16, <1>17, PipeStep

\* A writer goes back to the pool.
LEMMA PutPipe ==
  ASSUME ServiceTyped, HttpTyped, PipeInv, NEW h \in Handlers, PutWriter(h)
  PROVE  HttpTyped' /\ PipeInv'
<1>1. /\ at[h] = "returned" /\ rest[h] # <<>> /\ Head(rest[h]) = "put"
      /\ rest' = [rest EXCEPT ![h] = Tail(@)] /\ pool' = pool \cup using[h]
      /\ key' = key
      /\ UNCHANGED <<at, req, status, blank, using, number, writer, header, buffer, sent>>
  BY DEF PutWriter, Now, service, request, config
<1>2. /\ rest[h] \in Puts /\ Tail(rest[h]) \in Rests /\ Tail(rest[h]) \notin Closes \cup Puts
      /\ (Tail(rest[h]) \in Signs <=> rest[h] \in Signs) /\ rest[h] \notin Closes
      /\ rest[h] # <<>>
  BY <1>1, RestNext DEF HttpTyped
<1>3. /\ rest'[h] = Tail(rest[h]) /\ \A g \in Handlers \ {h} : rest'[g] = rest[g]
  BY <1>1 DEF HttpTyped
<1>4. HttpTyped'
  BY <1>1, <1>2 DEF HttpTyped
<1>5. /\ using[h] = {} <=> ~req[h].gzip
      /\ status[h] # 0
      /\ Ahead(h) /\ Flow(h)
  BY <1>1 DEF PipeInv, PipeOf
<1>6. Out(h)' = Out(h) /\ Declared(h)' = Declared(h) /\ Signed(h)' = Signed(h)
  <2>1. Out(h)' = Out(h) /\ Declared(h)' = Declared(h)
    BY <1>1, <1>2, <1>3 DEF Out, Declared
  <2>. QED
    BY <1>1, <2>1 DEF Signed
<1>7. Ahead(h)'
  <2>1. at[h] \notin Working
    BY <1>1 DEF Working
  <2>. QED
    BY <1>1, <1>2, <1>3, <1>5, <2>1 DEF Ahead
<1>8. Flow(h)'
  BY <1>1, <1>2, <1>3, <1>5, <1>6 DEF Flow
<1>9. PipeOf(h)'
  BY <1>1, <1>2, <1>3, <1>5, <1>7, <1>8 DEF PipeOf, HoldsBack
<1>10. Exclusive'
  <2>1. \A g \in Handlers, w \in Writers : Owns(g, w)' => g # h /\ Owns(g, w)
    BY <1>1, <1>2, <1>3 DEF Owns
  <2>2. \A w \in Writers : w \in using[h] => Owns(h, w)
    BY <1>2 DEF Owns
  <2>. QED
    BY <1>1, <2>1, <2>2 DEF Exclusive, PipeInv
<1>11. OnlyOf(h)
  BY <1>1, <1>3 DEF OnlyOf
<1>. QED
  BY <1>1, <1>4, <1>9, <1>10, <1>11, PipeStep

\* The answer that was held is signed and sent.
LEMMA HashPipe ==
  ASSUME ServiceTyped, HttpTyped, PipeInv, NEW h \in Handlers, HashResponse(h)
  PROVE  HttpTyped' /\ PipeInv'
<1>1. /\ at[h] = "returned" /\ rest[h] # <<>> /\ Head(rest[h]) = "hash"
      /\ rest' = [rest EXCEPT ![h] = Tail(@)]
      /\ header' = [header EXCEPT ![h].sig = Signature(h)]
      /\ sent' = [sent EXCEPT ![h] = Written(h, header'[h], buffer[h])]
      /\ buffer' = [buffer EXCEPT ![h] = <<>>]
      /\ key' = key
      /\ UNCHANGED <<at, req, status, blank, using, number, writer, pool>>
  BY DEF HashResponse, Now, service, request, config
<1>2. /\ rest[h] = <<"hash">> /\ Tail(rest[h]) = <<>>
      /\ rest[h] \in Signs /\ rest[h] \notin Closes \cup Puts
  BY <1>1, RestNext DEF HttpTyped
<1>3. <<>> \notin Closes \cup Puts \cup Signs /\ <<>> \in Rests
  BY RestsDiffer DEF Rests
<1>4. HttpTyped'
  BY <1>1, <1>2, <1>3 DEF HttpTyped
<1>5. /\ using[h] = {} <=> ~req[h].gzip
      /\ status[h] # 0
      /\ Ahead(h) /\ Flow(h)
  BY <1>1 DEF PipeInv, PipeOf
<1>6. /\ key # NoKey /\ buffer[h] = Out(h) /\ header[h] = Declared(h) /\ sent[h] = Nothing
  BY <1>2, <1>5 DEF Ahead, Flow
<1>7. /\ rest'[h] = <<>> /\ buffer'[h] = <<>>
      /\ header'[h] = [Declared(h) EXCEPT !.sig = Signature(h)]
      /\ \A g \in Handlers \ {h} : /\ rest'[g] = rest[g] /\ buffer'[g] = buffer[g]
                                   /\ header'[g] = header[g] /\ sent'[g] = sent[g]
  BY <1>1, <1>2, <1>6 DEF HttpTyped
<1>8. header'[h] = Signed(h)
  BY <1>6, <1>7 DEF Signed, Signature
<1>9. sent'[h] = [status |-> status[h], header |-> Signed(h), body |-> Out(h)]
  <2>1. sent'[h] = Written(h, header'[h], buffer[h])
    BY <1>1 DEF HttpTyped
  <2>2. sent[h].status = 0
    BY <1>6 DEF Nothing
  <2>. QED
    BY <1>6, <1>8, <2>1, <2>2 DEF Written
<1>10. Out(h)' = Out(h) /\ Declared(h)' = Declared(h) /\ Signed(h)' = Signed(h)
  <2>1. Out(h)' = Out(h) /\ Declared(h)' = Declared(h)
    BY <1>1, <1>2, <1>3, <1>7 DEF Out, Declared
  <2>. QED
    BY <1>1, <2>1 DEF Signed
<1>11. PipeOf(h)'
  <2>1. at[h] \notin Working
    BY <1>1 DEF Working
  <2>2. Ahead(h)'
    BY <1>1, <1>3, <1>7, <2>1 DEF Ahead
  <2>3. Flow(h)'
    BY <1>1, <1>3, <1>6, <1>7, <1>8, <1>9, <1>10 DEF Flow
  <2>. QED
    BY <1>1, <1>3, <1>5, <1>7, <2>2, <2>3 DEF PipeOf, HoldsBack
<1>12. Exclusive'
  BY <1>1, <1>3, <1>7, ExclusiveKept DEF PipeInv
<1>13. OnlyOf(h)
  BY <1>1, <1>7 DEF OnlyOf
<1>. QED
  BY <1>1, <1>4, <1>11, <1>12, <1>13, PipeStep

\* The response is complete, and h is free.
LEMMA FinishPipe ==
  ASSUME ServiceTyped, HttpTyped, PipeInv, NEW h \in Handlers, Finish(h)
  PROVE  HttpTyped' /\ PipeInv'
<1>1. /\ at[h] = "refused" \/ (at[h] = "returned" /\ rest[h] = <<>>)
      /\ at' = [at EXCEPT ![h] = "idle"] /\ req' = [req EXCEPT ![h] = NoRequest]
      /\ using' = [using EXCEPT ![h] = {}] /\ number' = [number EXCEPT ![h] = 0]
      /\ header' = [header EXCEPT ![h] = NoHeader] /\ sent' = [sent EXCEPT ![h] = Nothing]
      /\ key' = key /\ UNCHANGED <<status, blank, pool, writer, rest, buffer>>
  BY DEF Finish, Done, config
<1>2. rest[h] = <<>> /\ buffer[h] = <<>>
  <2>1. CASE at[h] = "refused"
    BY <2>1 DEF PipeInv, PipeOf, Clean
  <2>2. CASE at[h] = "returned" /\ rest[h] = <<>>
    <3>1. Flow(h) /\ rest[h] \notin Signs
      BY <2>2, RestsDiffer DEF PipeInv, PipeOf
    <3>. QED
      BY <2>2, <3>1 DEF Flow
  <2>. QED
    BY <1>1, <2>1, <2>2
<1>3. HttpTyped'
  <2>1. 0 \in 0..MaxRequests
    BY ServiceAssumption
  <2>. QED
    BY <1>1, <2>1 DEF HttpTyped
<1>4. /\ at'[h] = "idle" /\ Clean(h)' /\ sent'[h] = Nothing
  BY <1>1, <1>2 DEF HttpTyped, ServiceTyped, RequestTyped, Clean
<1>5. PipeOf(h)'
  BY <1>4 DEF PipeOf, Working
<1>6. OnlyOf(h)
  <2>1. ASSUME NEW g \in Handlers \ {h}
        PROVE  /\ at'[g] = at[g] /\ req'[g] = req[g]
               /\ using'[g] = using[g] /\ number'[g] = number[g]
               /\ header'[g] = header[g] /\ sent'[g] = sent[g]
    BY <1>1 DEF ServiceTyped, RequestTyped, HttpTyped
  <2>. QED
    BY <1>1, <2>1 DEF OnlyOf
<1>7. Exclusive'
  <2>1. \A g \in Handlers, w \in Writers : Owns(g, w)' => g # h /\ Owns(g, w)
    BY <1>1, <1>4 DEF Owns, Clean, HttpTyped
  <2>. QED
    BY <1>1, <2>1 DEF Exclusive, PipeInv
<1>. QED
  BY <1>1, <1>3, <1>5, <1>6, <1>7, PipeStep

\* A pool is emptied.
LEMMA CollectedPipe ==
  ASSUME HttpTyped, PipeInv, NEW w \in Writers, Collected(w)
  PROVE  HttpTyped' /\ PipeInv'
<1>1. /\ pool' = pool \ {w} /\ key' = key
      /\ UNCHANGED <<at, req, status, blank, writer, using, number, rest, header, buffer, sent>>
  BY DEF Collected, config, service, request
<1>2. HttpTyped'
  BY <1>1 DEF HttpTyped
<1>3. Exclusive'
  BY <1>1, ExclusiveKept DEF PipeInv
<1>4. ASSUME NEW g \in Handlers
      PROVE  PipeOf(g)'
  BY <1>1, PipeKept DEF PipeInv
<1>. QED
  BY <1>2, <1>3, <1>4 DEF PipeInv

\* Neither the pool nor a new writer is one that somebody has yet to close.
LEMMA Unowned ==
  ASSUME PipeInv, NEW h \in Handlers, NEW w \in Writers, GetWriter(h, w)
  PROVE  \A g \in Handlers : ~Owns(g, w)
BY DEF GetWriter, PipeInv, Exclusive, Owns

\* A request is received.
LEMMA ReceivePipe ==
  ASSUME ServiceTyped, HttpTyped, PipeInv, ServiceTyped', NEW h \in Handlers,
         NEW r \in Requests, Receive(h, r)
  PROVE  HttpTyped' /\ PipeInv'
<1>. DEFINE s == (IF r.gzip THEN Returned ELSE <<>>) \o (IF key = NoKey THEN <<>> ELSE <<"hash">>)
            parses == Parses(AfterGzip(AfterHash(r)))
<1>1. /\ at[h] = "idle" /\ Begin(h, r, parses)
      /\ number' = [number EXCEPT ![h] = served']
      /\ IF r.gzip THEN \E w \in Writers : GetWriter(h, w) ELSE UNCHANGED <<pool, writer, using>>
      /\ rest' = [rest EXCEPT ![h] = s]
      /\ header' = [header EXCEPT ![h].coding = IF r.gzip THEN "gzip" ELSE ""]
      /\ key' = key /\ UNCHANGED <<buffer, sent>>
  BY DEF Receive, config
<1>2. /\ s \in Rests /\ s \notin Puts /\ (s \in Closes <=> r.gzip) /\ (s \in Signs <=> key # NoKey)
  BY RestBegins
<1>. HIDE DEF s, parses
<1>3. /\ req' = [req EXCEPT ![h] = r]
      /\ \/ at' = [at EXCEPT ![h] = FirstStep[r.kind]] /\ status' = [status EXCEPT ![h] = 200]
         \/ at' = [at EXCEPT ![h] = "answer"] /\ status' = [status EXCEPT ![h] = 400]
      /\ \E b : blank' = [blank EXCEPT ![h] = b]
  BY <1>1 DEF Begin, Answer
<1>4. FirstStep[r.kind] \in {"update", "read", "list"}
  BY RequestFacts, StepTables
<1>5. /\ at'[h] \in Working /\ at'[h] \notin {"idle", "refused", "returned"} /\ req'[h] = r
      /\ \A g \in Handlers \ {h} : at'[g] = at[g] /\ req'[g] = req[g]
  BY <1>3, <1>4 DEF ServiceTyped, RequestTyped, Working
<1>6. status'[h] # 0 /\ \A g \in Handlers \ {h} : status'[g] = status[g] /\ blank'[g] = blank[g]
  BY <1>3 DEF ServiceTyped, AnswerTyped
<1>7. Clean(h) /\ sent[h] = Nothing
  BY <1>1 DEF PipeInv, PipeOf
<1>8. rest'[h] = s /\ \A g \in Handlers \ {h} : rest'[g] = rest[g]
  BY <1>1 DEF HttpTyped
<1>9. /\ header'[h] = [coding |-> IF r.gzip THEN "gzip" ELSE "", sig |-> NoSig]
      /\ \A g \in Handlers \ {h} : header'[g] = header[g]
  <2>. DEFINE c == IF r.gzip THEN "gzip" ELSE ""
  <2>1. header[h] = NoHeader /\ header' = [header EXCEPT ![h].coding = c]
    BY <1>1, <1>7 DEF Clean
  <2>. HIDE DEF c
  <2>2. header'[h] = [NoHeader EXCEPT !.coding = c]
    BY <2>1 DEF HttpTyped
  <2>3. header'[h] = [coding |-> c, sig |-> NoSig]
    BY <2>2 DEF NoHeader
  <2>4. \A g \in Handlers \ {h} : header'[g] = header[g]
    BY <2>1 DEF HttpTyped
  <2>. QED
    BY <2>3, <2>4 DEF c
<1>10. \A g \in Handlers \ {h} : number'[g] = number[g]
  BY <1>1 DEF HttpTyped
<1>11. Out(h)' = <<>> /\ header'[h] = Declared(h)'
  BY <1>5, <1>9 DEF Out, Declared
<1>12. Ahead(h)'
  BY <1>1, <1>2, <1>5, <1>8 DEF Ahead
<1>13. Flow(h)'
  BY <1>1, <1>2, <1>7, <1>8, <1>11 DEF Flow, Clean
<1>14. CASE ~r.gzip
  <2>1. UNCHANGED <<pool, writer, using>>
    BY <1>1, <1>14
  <2>2. using'[h] = {} /\ rest'[h] \notin Closes
    BY <1>2, <1>7, <1>8, <1>14, <2>1 DEF Clean
  <2>3. PipeOf(h)'
    BY <1>5, <1>6, <1>12, <1>13, <1>14, <2>2 DEF PipeOf, HoldsBack
  <2>4. OnlyOf(h)
    BY <1>1, <1>5, <1>6, <1>8, <1>9, <1>10, <2>1 DEF OnlyOf
  <2>5. Exclusive'
    <3>1. \A g \in Handlers : rest'[g] \in Closes \cup Puts => rest[g] \in Closes \cup Puts
      BY <1>2, <1>8, <1>14
    <3>. QED
      BY <2>1, <3>1, ExclusiveKept DEF PipeInv
  <2>6. HttpTyped'
    <3>1. number' \in [Handlers -> 0..MaxRequests]
      BY <1>1 DEF HttpTyped, ServiceTyped, CountTyped
    <3>. QED
      BY <1>1, <1>2, <2>1, <3>1 DEF HttpTyped
  <2>. QED
    BY <1>1, <2>1, <2>3, <2>4, <2>5, <2>6, PipeStep
<1>15. CASE r.gzip
  <2>1. PICK w \in Writers : GetWriter(h, w)
    BY <1>1, <1>15
  <2>2. /\ pool' = pool \ {w} /\ writer' = [writer EXCEPT ![w] = Fresh(h)]
        /\ using' = [using EXCEPT ![h] = {w}]
    BY <2>1 DEF GetWriter
  <2>3. /\ using'[h] = {w} /\ writer'[w] = Fresh(h)
        /\ \A g \in Handlers \ {h} : using'[g] = using[g]
        /\ \A v \in Writers \ {w} : writer'[v] = writer[v]
    BY <2>2 DEF HttpTyped
  <2>4. HoldsBack(h)'
    <3>1. writer'[w] = IF at'[h] = "returned" /\ ~blank'[h]
                       THEN [to |-> h, state |-> "open", held |-> <<Data(number'[h])>>]
                       ELSE Fresh(h)
      BY <1>5, <2>3
    <3>. QED
      BY <2>3, <3>1 DEF HoldsBack, Fresh
  <2>5. PipeOf(h)'
    BY <1>5, <1>6, <1>12, <1>13, <1>15, <2>3, <2>4 DEF PipeOf
  <2>6. OnlyOf(h)
    BY <1>1, <1>5, <1>6, <1>8, <1>9, <1>10, <2>3 DEF OnlyOf
  <2>7. \A g \in Handlers : ~Owns(g, w)
    BY <2>1, Unowned
  <2>8. Exclusive'
    <3>1. \A g \in Handlers, v \in Writers :
            Owns(g, v)' => (g = h /\ v = w) \/ (g # h /\ v # w /\ Owns(g, v))
      BY <1>8, <2>3, <2>7 DEF Owns
    <3>2. ASSUME NEW g \in Handlers, NEW v \in Writers, Owns(g, v)'
          PROVE  v \notin pool' /\ \A f \in Handlers \ {g} : ~Owns(f, v)'
      BY <2>2, <3>1, <3>2 DEF PipeInv, Exclusive
    <3>. QED
      BY <3>2 DEF Exclusive
  <2>9. \A g \in Handlers \ {h} : rest[g] \in Closes => \A v \in using[g] : writer'[v] = writer[v]
    BY <2>3, <2>7 DEF Owns, HttpTyped
  <2>10. HttpTyped'
    <3>1. number' \in [Handlers -> 0..MaxRequests]
      BY <1>1 DEF HttpTyped, ServiceTyped, CountTyped
    <3>2. \A v \in Writers : /\ writer'[v].to \in Handlers \cup {Nobody}
                             /\ writer'[v].state \in {"fresh", "open", "closed"}
      BY <2>3 DEF HttpTyped, Fresh
    <3>3. DOMAIN writer' = Writers /\ pool' \in SUBSET Writers
          /\ using' \in [Handlers -> SUBSET Writers]
      BY <2>2 DEF HttpTyped
    <3>. QED
      BY <1>1, <1>2, <3>1, <3>2, <3>3 DEF HttpTyped
  <2>. QED
    BY <1>1, <2>5, <2>6, <2>8, <2>9, <2>10, PipeStep
<1>. QED
  BY <1>14, <1>15

\* A handler writes its answer: into its writer, or on.
LEMMA WriteAnswerPipe ==
  ASSUME ServiceTyped, HttpTyped, PipeInv, NEW h \in Handlers, WriteAnswer(h)
  PROVE  HttpTyped' /\ PipeInv'
<1>1. /\ at[h] = "answer" /\ at' = [at EXCEPT ![h] = "returned"] /\ key' = key
      /\ UNCHANGED <<req, status, blank, pool, using, number, rest, header>>
  BY DEF WriteAnswer, config
<1>2. /\ at'[h] = "returned" /\ \A g \in Handlers \ {h} : at'[g] = at[g]
      /\ at[h] \in Working /\ at'[h] \notin Working
  BY <1>1 DEF ServiceTyped, RequestTyped, Working
<1>3. /\ using[h] = {} <=> ~req[h].gzip
      /\ status[h] # 0
      /\ Ahead(h) /\ Flow(h) /\ HoldsBack(h)
  BY <1>2 DEF PipeInv, PipeOf
<1>4. Out(h) = <<>> /\ Declared(h)' = Declared(h)
  BY <1>1 DEF Out, Declared
<1>5. /\ rest[h] \in Closes <=> req[h].gzip
      /\ key # NoKey => rest[h] \in Signs
      /\ rest[h] \in Signs => key # NoKey
  BY <1>2, <1>3 DEF Ahead
<1>6. /\ header[h] = Declared(h)
      /\ key = NoKey => buffer[h] = <<>> /\ sent[h] = Nothing
      /\ key # NoKey => buffer[h] = <<>> /\ sent[h] = Nothing
  BY <1>3, <1>4, <1>5 DEF Flow
<1>7. Ahead(h)'
  BY <1>1, <1>2, <1>3 DEF Ahead
<1>8. Exclusive'
  BY <1>1, ExclusiveKept DEF PipeInv
<1>9. ASSUME NEW n, Out(h)' = n, DOMAIN buffer' = Handlers, DOMAIN sent' = Handlers,
             \A g \in Handlers \ {h} : buffer'[g] = buffer[g] /\ sent'[g] = sent[g],
             key = NoKey => /\ buffer'[h] = <<>>
                            /\ sent'[h] = IF n = <<>> THEN Nothing
                                          ELSE [status |-> status[h], header |-> Declared(h),
                                                body |-> n],
             key # NoKey => buffer'[h] = n /\ sent'[h] = Nothing
      PROVE  Flow(h)' /\ OnlyOf(h)
  <2>1. OnlyOf(h)
    BY <1>1, <1>2, <1>9 DEF OnlyOf
  <2>2. Flow(h)'
    BY <1>1, <1>4, <1>5, <1>6, <1>9 DEF Flow
  <2>. QED
    BY <2>1, <2>2
<1>10. CASE blank[h]
  <2>1. UNCHANGED <<writer, buffer, sent>>
    BY <1>10 DEF WriteAnswer
  <2>2. Out(h)' = <<>>
    BY <1>1, <1>2, <1>5, <1>10 DEF Out
  <2>3. Flow(h)' /\ OnlyOf(h)
    BY <1>6, <1>9, <2>1, <2>2 DEF HttpTyped
  <2>4. HoldsBack(h)'
    BY <1>1, <1>2, <1>3, <1>10, <2>1 DEF HoldsBack, Fresh
  <2>5. PipeOf(h)'
    BY <1>1, <1>2, <1>3, <1>7, <2>3, <2>4 DEF PipeOf
  <2>6. HttpTyped'
    BY <1>1, <2>1 DEF HttpTyped
  <2>. QED
    BY <1>1, <1>8, <2>1, <2>3, <2>5, <2>6, PipeStep
<1>11. CASE ~blank[h] /\ using[h] = {}
  <2>1. Emit(h, <<Text(number[h])>>) /\ writer' = writer
    BY <1>11 DEF WriteAnswer
  <2>. DEFINE n == <<Text(number[h])>>
  <2>2. <<>> \o n = n /\ n # <<>>
    BY JoinNothing
  <2>3. Out(h)' = n
    BY <1>1, <1>2, <1>3, <1>11 DEF Out, Text
  <2>. HIDE DEF n
  <2>4. /\ DOMAIN buffer' = Handlers /\ DOMAIN sent' = Handlers
        /\ \A g \in Handlers \ {h} : buffer'[g] = buffer[g] /\ sent'[g] = sent[g]
        /\ key = NoKey => /\ buffer'[h] = <<>>
                          /\ sent'[h] = IF n = <<>> THEN Nothing
                                        ELSE [status |-> status[h], header |-> Declared(h), body |-> n]
        /\ key # NoKey => buffer'[h] = n /\ sent'[h] = Nothing
    <3>1. Emit(h, n)
      BY <2>1 DEF n
    <3>. QED
      BY <1>3, <1>6, <2>2, <3>1, EmitEffect
  <2>5. Flow(h)' /\ OnlyOf(h)
    BY <1>9, <2>3, <2>4
  <2>6. rest'[h] \notin Closes
    BY <1>1, <1>3, <1>5, <1>11
  <2>7. PipeOf(h)'
    BY <1>1, <1>2, <1>3, <1>7, <2>5, <2>6 DEF PipeOf, HoldsBack
  <2>8. HttpTyped'
    BY <1>1, <2>1, <2>4 DEF HttpTyped
  <2>. QED
    BY <1>1, <1>8, <2>1, <2>5, <2>7, <2>8, PipeStep
<1>12. CASE ~blank[h] /\ using[h] # {}
  <2>1. req[h].gzip /\ rest[h] \in Closes
    BY <1>3, <1>5, <1>12
  <2>2. PICK w \in Writers : using[h] = {w} /\ writer[w] = Fresh(h)
    BY <1>1, <1>3, <2>1 DEF HoldsBack
  <2>3. writer[w].state = "fresh" /\ writer[w].to = h /\ writer[w].held = <<>>
    BY <2>2 DEF Fresh
  <2>4. /\ Emit(h, <<StreamHead>>)
        /\ writer' = [writer EXCEPT ![w].state = "open", ![w].held = Append(@, Data(number[h]))]
    BY <1>12, <2>2, <2>3 DEF WriteAnswer, Begun
  <2>5. /\ writer'[w] = [to |-> h, state |-> "open", held |-> <<Data(number[h])>>]
        /\ \A v \in Writers \ {w} : writer'[v] = writer[v]
        /\ DOMAIN writer' = Writers
    <3>. DEFINE d == Data(number[h])
    <3>1. writer' = [writer EXCEPT ![w].state = "open", ![w].held = Append(@, d)]
      BY <2>4
    <3>. HIDE DEF d
    <3>2. Append(<<>>, d) = <<d>>
      OBVIOUS
    <3>3. /\ writer'[w] = [writer[w] EXCEPT !.state = "open", !.held = Append(@, d)]
          /\ \A v \in Writers \ {w} : writer'[v] = writer[v]
          /\ DOMAIN writer' = Writers
      BY <3>1 DEF HttpTyped
    <3>4. writer'[w] = [Fresh(h) EXCEPT !.state = "open", !.held = Append(@, d)]
      BY <2>2, <3>3
    <3>5. writer'[w] = [to |-> h, state |-> "open", held |-> <<d>>]
      BY <3>2, <3>4 DEF Fresh
    <3>. QED
      BY <3>3, <3>5 DEF d
  <2>. DEFINE n == <<StreamHead>>
  <2>6. <<>> \o n = n /\ n # <<>>
    BY JoinNothing
  <2>7. Out(h)' = n
    BY <1>1, <1>2, <1>12, <2>1 DEF Out
  <2>. HIDE DEF n
  <2>8. /\ DOMAIN buffer' = Handlers /\ DOMAIN sent' = Handlers
        /\ \A g \in Handlers \ {h} : buffer'[g] = buffer[g] /\ sent'[g] = sent[g]
        /\ key = NoKey => /\ buffer'[h] = <<>>
                          /\ sent'[h] = IF n = <<>> THEN Nothing
                                        ELSE [status |-> status[h], header |-> Declared(h), body |-> n]
        /\ key # NoKey => buffer'[h] = n /\ sent'[h] = Nothing
    <3>1. Emit(h, n)
      BY <2>4 DEF n
    <3>. QED
      BY <1>3, <1>6, <2>6, <3>1, EmitEffect
  <2>9. Flow(h)' /\ OnlyOf(h)
    BY <1>9, <2>7, <2>8
  <2>10. HoldsBack(h)'
    BY <1>1, <1>2, <1>12, <2>2, <2>5 DEF HoldsBack
  <2>11. PipeOf(h)'
    BY <1>1, <1>2, <1>3, <1>7, <2>9, <2>10 DEF PipeOf
  <2>12. HttpTyped'
    <3>1. \A v \in Writers : /\ writer'[v].to \in Handlers \cup {Nobody}
                             /\ writer'[v].state \in {"fresh", "open", "closed"}
      BY <2>5 DEF HttpTyped
    <3>. QED
      BY <1>1, <2>5, <2>8, <3>1 DEF HttpTyped
  <2>13. \A g \in Handlers \ {h} : rest[g] \in Closes => \A v \in using[g] : writer'[v] = writer[v]
    <3>1. Owns(h, w)
      BY <2>1, <2>2 DEF Owns
    <3>2. \A g \in Handlers \ {h} : ~Owns(g, w)
      BY <3>1 DEF PipeInv, Exclusive
    <3>. QED
      BY <2>5, <3>2 DEF Owns, HttpTyped
  <2>. QED
    BY <1>1, <1>8, <2>9, <2>11, <2>12, <2>13, PipeStep
<1>. QED
  BY <1>10, <1>11, <1>12

\* A writer's stream is ended, and what it held back goes on.
LEMMA ClosePipe ==
  ASSUME ServiceTyped, HttpTyped, PipeInv, NEW h \in Handlers, CloseWriter(h)
  PROVE  HttpTyped' /\ PipeInv'
<1>1. /\ at[h] = "returned" /\ rest[h] # <<>> /\ Head(rest[h]) = "close"
      /\ rest' = [rest EXCEPT ![h] = Tail(@)] /\ key' = key
      /\ UNCHANGED <<at, req, status, blank, pool, using, number, header>>
  BY DEF CloseWriter, Now, service, request, config
<1>2. /\ rest[h] \in Closes /\ Tail(rest[h]) \in Rests /\ Tail(rest[h]) \notin Closes
      /\ (Tail(rest[h]) \in Signs <=> rest[h] \in Signs)
      /\ Tail(rest[h]) = <<>> \/ Tail(rest[h]) \in Puts \/ Tail(rest[h]) \in Signs
      /\ <<>> \notin Closes \cup Puts \cup Signs
  BY <1>1, RestNext, RestsDiffer DEF HttpTyped
<1>3. /\ rest'[h] = Tail(rest[h]) /\ \A g \in Handlers \ {h} : rest'[g] = rest[g]
  BY <1>1 DEF HttpTyped
<1>4. /\ using[h] = {} <=> ~req[h].gzip
      /\ status[h] # 0
      /\ Ahead(h) /\ Flow(h) /\ HoldsBack(h)
  BY <1>1 DEF PipeInv, PipeOf
<1>5. req[h].gzip /\ (key # NoKey <=> rest[h] \in Signs)
  BY <1>1, <1>2, <1>4 DEF Ahead
<1>6. Ahead(h)'
  <2>1. at[h] \notin Working
    BY <1>1 DEF Working
  <2>. QED
    BY <1>1, <1>2, <1>3, <1>5, <2>1 DEF Ahead
<1>7. PICK w \in Writers :
        /\ using[h] = {w}
        /\ writer[w] = IF ~blank[h] THEN [to |-> h, state |-> "open", held |-> <<Data(number[h])>>]
                       ELSE Fresh(h)
  BY <1>1, <1>2, <1>4 DEF HoldsBack
<1>8. writer[w].to = h /\ writer[w].state # "closed"
  <2>1. CASE blank[h]
    <3>1. writer[w] = Fresh(h)
      BY <1>7, <2>1
    <3>. QED
      BY <3>1 DEF Fresh
  <2>2. CASE ~blank[h]
    <3>. DEFINE held == <<Data(number[h])>>
    <3>1. writer[w] = [to |-> h, state |-> "open", held |-> held]
      BY <1>7, <2>2
    <3>. HIDE DEF held
    <3>. QED
      BY <3>1
  <2>. QED
    BY <2>1, <2>2
<1>. DEFINE d == Data(number[h])
            hd == StreamHead
            tl == StreamTail
            piece == Begun(w) \o writer[w].held \o <<tl>>
            before == Out(h)
            after == IF blank[h] THEN <<hd, tl>> ELSE <<hd, d, tl>>
<1>9. /\ Emit(h, piece)
      /\ writer' = [writer EXCEPT ![w].state = "closed", ![w].held = <<>>]
  BY <1>7, <1>8 DEF CloseWriter
<1>10. /\ before = IF blank[h] THEN <<>> ELSE <<hd>>
       /\ after = IF blank[h] THEN <<hd, tl>> ELSE <<hd, d, tl>>
       /\ Out(h)' = after
  BY <1>1, <1>2, <1>3, <1>5 DEF Out
<1>11. piece = IF blank[h] THEN <<hd, tl>> ELSE <<d, tl>>
  <2>1. CASE blank[h]
    <3>1. writer[w].held = <<>> /\ Begun(w) = <<hd>>
      BY <1>7, <2>1 DEF Begun, Fresh
    <3>. HIDE DEF hd, tl
    <3>2. <<hd>> \o <<>> = <<hd>> /\ <<hd>> \o <<tl>> = <<hd, tl>>
      BY JoinNothing, Join2
    <3>. QED
      BY <2>1, <3>1, <3>2
  <2>2. CASE ~blank[h]
    <3>1. writer[w].held = <<d>> /\ Begun(w) = <<>>
      BY <1>7, <2>2 DEF Begun
    <3>. HIDE DEF d, tl
    <3>2. <<>> \o <<d>> = <<d>> /\ <<d>> \o <<tl>> = <<d, tl>>
      BY JoinNothing, Join2
    <3>. QED
      BY <2>2, <3>1, <3>2
  <2>. QED
    BY <2>1, <2>2
<1>12. /\ \A w1 \in Writers : /\ writer'[w1].to \in Handlers \cup {Nobody}
                              /\ writer'[w1].state \in {"fresh", "open", "closed"}
       /\ \A v \in Writers \ {w} : writer'[v] = writer[v]
       /\ DOMAIN writer' = Writers
  <2>1. writer'[w] = [writer[w] EXCEPT !.state = "closed", !.held = <<>>]
    BY <1>9 DEF HttpTyped
  <2>2. writer'[w].to = h /\ writer'[w].state = "closed"
    <3>1. CASE blank[h]
      <4>1. writer'[w] = [Fresh(h) EXCEPT !.state = "closed", !.held = <<>>]
        BY <1>7, <2>1, <3>1
      <4>. QED
        BY <4>1 DEF Fresh
    <3>2. CASE ~blank[h]
      <4>1. writer[w] = [to |-> h, state |-> "open", held |-> <<d>>]
        BY <1>7, <3>2
      <4>. HIDE DEF d
      <4>. QED
        BY <2>1, <4>1
    <3>. QED
      BY <3>1, <3>2
  <2>3. DOMAIN writer' = Writers /\ \A v \in Writers \ {w} : writer'[v] = writer[v]
    BY <1>9 DEF HttpTyped
  <2>. QED
    BY <2>2, <2>3 DEF HttpTyped
<1>13. /\ before \o piece = after /\ piece # <<>> /\ after # <<>>
       /\ before = <<>> => after = piece
  <2>. HIDE DEF hd, tl, d, piece, before, after
  <2>1. /\ <<>> \o <<hd, tl>> = <<hd, tl>> /\ <<hd>> \o <<d, tl>> = <<hd, d, tl>>
        /\ <<hd, tl>> # <<>> /\ <<d, tl>> # <<>> /\ <<hd, d, tl>> # <<>> /\ <<hd>> # <<>>
    BY JoinNothing, Join3
  <2>. QED
    BY <1>10, <1>11, <2>1
<1>14. Declared(h)' = Declared(h) /\ header[h] = Declared(h)
  BY <1>1, <1>4, <1>5 DEF Declared, Flow
<1>15. /\ key = NoKey => /\ buffer[h] = <<>>
                         /\ sent[h] = IF before = <<>> THEN Nothing
                                      ELSE [status |-> status[h], header |-> Declared(h), body |-> before]
       /\ key # NoKey => buffer[h] = before /\ sent[h] = Nothing
  BY <1>4, <1>5 DEF Flow
<1>. HIDE DEF piece, after, before, d, hd, tl
<1>16. /\ DOMAIN buffer' = Handlers /\ DOMAIN sent' = Handlers
       /\ \A g \in Handlers \ {h} : buffer'[g] = buffer[g] /\ sent'[g] = sent[g]
       /\ key = NoKey => /\ buffer'[h] = <<>>
                         /\ sent'[h] = IF after = <<>> THEN Nothing
                                       ELSE [status |-> status[h], header |-> Declared(h), body |-> after]
       /\ key # NoKey => buffer'[h] = after /\ sent'[h] = Nothing
  <2>1. /\ Emit(h, piece) /\ before \o piece = after /\ (before = <<>> => after = piece)
        /\ (piece = <<>> => after = before) /\ (after = <<>> => before = <<>> /\ piece = <<>>)
    BY <1>9, <1>13
  <2>2. status[h] # 0 /\ header[h] = Declared(h)
    BY <1>4, <1>14
  <2>3. HttpTyped /\ h \in Handlers /\ Emit(h, piece) /\ before \o piece = after /\ (before = <<>> => after = piece)
        /\ (piece = <<>> => after = before) /\ (after = <<>> => before = <<>> /\ piece = <<>>)
        /\ status[h] # 0 /\ header[h] = Declared(h)
    BY <2>1, <2>2
  <2>4. key # NoKey => buffer[h] = before /\ sent[h] = Nothing
    BY <1>15
  <2>5. key = NoKey => buffer[h] = <<>>
    BY <1>15
  <2>6. key = NoKey => sent[h] = IF before = <<>> THEN Nothing
                                    ELSE [status |-> status[h], header |-> Declared(h), body |-> before]
    BY <1>15
  <2>7. CASE key = NoKey
    <3>1. sent' = [sent EXCEPT ![h] = Written(h, header[h], piece)] /\ buffer' = buffer
      BY <1>13, <2>3, <2>7, HttpAssumption DEF Emit
    <3>2. /\ DOMAIN sent' = Handlers /\ sent'[h] = Written(h, Declared(h), piece)
          /\ \A g \in Handlers \ {h} : sent'[g] = sent[g]
      BY <2>3, <3>1 DEF HttpTyped
    <3>3. sent'[h] = [status |-> status[h], header |-> Declared(h), body |-> after]
      <4>1. CASE before = <<>>
        <5>1. sent[h].status = 0 /\ piece = after
          BY <2>3, <2>6, <2>7, <4>1 DEF Nothing
        <5>. QED
          BY <3>2, <5>1 DEF Written
      <4>2. CASE before # <<>>
        <5>1. sent[h] = [status |-> status[h], header |-> Declared(h), body |-> before]
          BY <2>6, <2>7, <4>2
        <5>2. sent[h].status # 0 /\ sent[h].body = before
          BY <2>3, <5>1
        <5>3. sent'[h] = [sent[h] EXCEPT !.body = before \o piece]
          BY <3>2, <5>2 DEF Written
        <5>. QED
          BY <2>3, <5>1, <5>3
      <4>. QED
        BY <4>1, <4>2
    <3>. QED
      BY <1>13, <2>3, <2>5, <2>7, <3>1, <3>2, <3>3 DEF HttpTyped
  <2>8. CASE key # NoKey
    <3>1. buffer[h] = before /\ sent[h] = Nothing /\ DOMAIN buffer = Handlers /\ DOMAIN sent = Handlers
      BY <2>3, <2>4, <2>8 DEF HttpTyped
    <3>2. h # Nobody
      BY HttpAssumption
    <3>3. CASE piece = <<>>
      <4>1. buffer' = buffer /\ sent' = sent
        BY <2>3, <3>2, <3>3 DEF Emit
      <4>. QED
        BY <2>3, <2>8, <3>1, <3>3, <4>1
    <3>4. CASE piece # <<>>
      <4>1. buffer' = [buffer EXCEPT ![h] = buffer[h] \o piece] /\ sent' = sent
        BY <2>3, <2>8, <3>2, <3>4 DEF Emit
      <4>2. buffer'[h] = after /\ DOMAIN buffer' = Handlers
        BY <2>3, <3>1, <4>1
      <4>3. \A g \in Handlers \ {h} : buffer'[g] = buffer[g]
        BY <3>1, <4>1
      <4>. QED
        BY <2>8, <3>1, <4>1, <4>2, <4>3
    <3>. QED
      BY <3>3, <3>4
  <2>. QED
    BY <2>7, <2>8
<1>17. Flow(h)'
  <2>1. rest'[h] \in Signs <=> key' # NoKey
    BY <1>1, <1>2, <1>3, <1>5
  <2>2. Out(h)' = after
    BY <1>10
  <2>. QED
    BY <1>1, <1>13, <1>14, <1>16, <2>1, <2>2 DEF Flow
<1>18. PipeOf(h)'
  BY <1>1, <1>2, <1>3, <1>4, <1>6, <1>17 DEF PipeOf, HoldsBack
<1>19. OnlyOf(h)
  BY <1>1, <1>3, <1>16 DEF OnlyOf
<1>20. Exclusive'
  <2>1. \A g \in Handlers : rest'[g] \in Closes \cup Puts => rest[g] \in Closes \cup Puts
    BY <1>2, <1>3
  <2>. QED
    BY <1>1, <2>1, ExclusiveKept DEF PipeInv
<1>21. \A g \in Handlers \ {h} : rest[g] \in Closes => \A v \in using[g] : writer'[v] = writer[v]
  <2>1. Owns(h, w)
    BY <1>2, <1>7 DEF Owns
  <2>2. \A g \in Handlers \ {h} : ~Owns(g, w)
    BY <2>1 DEF PipeInv, Exclusive
  <2>. QED
    BY <1>12, <2>2 DEF Owns, HttpTyped
<1>22. HttpTyped'
  BY <1>1, <1>2, <1>12, <1>16 DEF HttpTyped
<1>. QED
  BY <1>1, <1>18, <1>19, <1>20, <1>21, <1>22, PipeStep

LEMMA MovesPipe ==
  ASSUME ServiceTyped, StageInv, ServiceTyped', HttpTyped, PipeInv, [HttpNext]_httpVars
  PROVE  HttpTyped' /\ PipeInv'
<1>1. CASE UNCHANGED httpVars
  <2>1. UNCHANGED <<at, req, status, blank, key, pool, writer, using, number, rest, header,
                    buffer, sent>>
    BY <1>1 DEF httpVars, service, request, http, config
  <2>2. HttpTyped'
    BY <2>1 DEF HttpTyped
  <2>3. Exclusive'
    BY <2>1, ExclusiveKept DEF PipeInv
  <2>4. ASSUME NEW g \in Handlers
        PROVE  PipeOf(g)'
    BY <2>1, PipeKept DEF PipeInv
  <2>. QED
    BY <2>2, <2>3, <2>4 DEF PipeInv
<1>2. ASSUME NEW h \in Handlers,
             \/ \E r \in Requests : Refuse(h, r) \/ Receive(h, r)
             \/ Serve(h)
             \/ WriteAnswer(h) \/ CloseWriter(h) \/ PutWriter(h) \/ HashResponse(h)
             \/ Finish(h)
      PROVE  HttpTyped' /\ PipeInv'
  BY <1>2, RefusePipe, ReceivePipe, ServePipe, WriteAnswerPipe, ClosePipe, PutPipe, HashPipe,
     FinishPipe
<1>3. ASSUME NEW w \in Writers, Collected(w)
      PROVE  HttpTyped' /\ PipeInv'
  BY <1>3, CollectedPipe
<1>. QED
  BY <1>1, <1>2, <1>3 DEF HttpNext

LEMMA InitPipe ==
  ASSUME HttpInit
  PROVE  HttpTyped /\ PipeInv
<1>1. /\ pool = {} /\ writer = [w \in Writers |-> Fresh(Nobody)]
      /\ using = [h \in Handlers |-> {}]
      /\ number = [h \in Handlers |-> 0]
      /\ rest = [h \in Handlers |-> <<>>]
      /\ header = [h \in Handlers |-> NoHeader]
      /\ buffer = [h \in Handlers |-> <<>>]
      /\ sent = [h \in Handlers |-> Nothing]
      /\ at = [h \in Handlers |-> "idle"]
  BY DEF HttpInit, ServiceInit
<1>2. HttpTyped
  <2>1. 0 \in 0..MaxRequests
    BY ServiceAssumption
  <2>2. \A w \in Writers : writer[w].to = Nobody /\ writer[w].state = "fresh"
    BY <1>1 DEF Fresh
  <2>3. <<>> \in Rests
    BY DEF Rests
  <2>. QED
    BY <1>1, <2>1, <2>2, <2>3 DEF HttpTyped
<1>3. Exclusive
  BY <1>1 DEF Exclusive, Owns
<1>4. \A h \in Handlers : PipeOf(h)
  BY <1>1 DEF PipeOf, Clean, Working
<1>. QED
  BY <1>2, <1>3, <1>4 DEF PipeInv

-----------------------------------------------------------------------------
(* Which requests are refused.                                             *)

\* A request with a bad signature where one is looked for.
Forged(r) == Checked(r) /\ r.signed = "badly"

AdmittedOf(h) ==
  at[h] # "idle" =>
    /\ Forged(req[h]) => at[h] = "refused"
    /\ WellFormed(req[h]) /\ ~Forged(req[h]) =>
         /\ at[h] # "refused"
         /\ status[h] = 400 => \E k \in DOMAIN req[h].items : ~Accepted(req[h].items[k])

\* Between them the two middlewares decompress a well-formed body once.
LEMMA Unpacked ==
  ASSUME NEW r \in Requests, WellFormed(r)
  PROVE  /\ RefusedByHash(r) <=> Forged(r)
         /\ ~RefusedByGzip(AfterHash(r))
         /\ Parses(AfterGzip(AfterHash(r)))
<1>1. /\ r \in [kind : Kinds, items : Seq(Items), coding : {"", "gzip", "x-gzip"}, packed : 0..1,
                signed : {"no", "well", "badly"}, gzip : BOOLEAN]
  BY HttpAssumption DEF HttpRequestOK
<1>2. r.packed = 1 <=> r.coding # ""
  BY Zenon DEF WellFormed
<1>3. r.packed = 0 \/ r.packed = 1
  <2>1. r.packed \in 0..1
    BY <1>1
  <2>. DEFINE n == r.packed
  <2>2. n \in 0..1
    BY <2>1
  <2>. HIDE DEF n
  <2>3. n = 0 \/ n = 1
    BY <2>2
  <2>. QED
    BY <2>3 DEF n
<1>4. RefusedByHash(r) <=> Forged(r)
  <2>1. "gzip" # "" /\ 0 # 1
    OBVIOUS
  <2>2. r.coding = "gzip" => r.packed # 0
    BY <1>2, <2>1, Zenon
  <2>. QED
    BY <2>2, Zenon DEF RefusedByHash, Forged, Unpacks
<1>5. CASE Unpacks(r)
  <2>1. r.packed = 1
    BY <1>2, <1>5 DEF Unpacks
  <2>2. AfterHash(r).coding = "" /\ AfterHash(r).packed = r.packed - 1
    BY <1>1, <1>5 DEF AfterHash
  <2>3. AfterGzip(AfterHash(r)) = AfterHash(r) /\ ~RefusedByGzip(AfterHash(r))
    BY <2>2 DEF AfterGzip, RefusedByGzip
  <2>4. AfterHash(r).packed = 0
    <3>1. AfterHash(r).packed = 1 - 1
      BY <2>1, <2>2
    <3>. QED
      BY <3>1
  <2>. QED
    BY <1>4, <2>3, <2>4 DEF Parses
<1>6. CASE ~Unpacks(r) /\ r.coding = ""
  <2>1. AfterHash(r) = r /\ AfterGzip(r) = r /\ r.packed = 0 /\ ~RefusedByGzip(r)
    BY <1>2, <1>3, <1>6 DEF AfterHash, AfterGzip, RefusedByGzip
  <2>. QED
    BY <1>4, <2>1 DEF Parses
<1>7. CASE ~Unpacks(r) /\ r.coding # ""
  <2>1. AfterHash(r) = r /\ r.packed = 1
    BY <1>2, <1>7 DEF AfterHash
  <2>4. ~RefusedByGzip(r)
    BY <2>1 DEF RefusedByGzip
  <2>2. AfterGzip(r).packed = r.packed - 1
    BY <1>1, <1>7 DEF AfterGzip
  <2>3. AfterGzip(r).packed = 0
    BY <2>1, <2>2
  <2>. QED
    BY <1>4, <2>1, <2>3, <2>4 DEF Parses
<1>. QED
  BY <1>5, <1>6, <1>7

\* A request whose parts nobody changes stays as it was admitted.
LEMMA AdmittedKept ==
  ASSUME NEW g \in Handlers, AdmittedOf(g), key' = key, req'[g] = req[g],
         at'[g] = at[g] \/ (at[g] # "idle" /\ at[g] # "refused" /\ at'[g] # "refused"),
         status'[g] = status[g] \/ status'[g] # 400
  PROVE  AdmittedOf(g)'
<1>1. Forged(req[g])' <=> Forged(req[g])
  BY DEF Forged, Checked
<1>2. at'[g] # "idle" => at[g] # "idle"
  OBVIOUS
<1>. DEFINE good == WellFormed(req[g])
            forged == Forged(req[g])
            bad == \E k \in DOMAIN req[g].items : ~Accepted(req[g].items[k])
<1>3. at[g] # "idle" => /\ forged => at[g] = "refused"
                        /\ good /\ ~forged => at[g] # "refused" /\ (status[g] = 400 => bad)
  BY DEF AdmittedOf
<1>4. /\ WellFormed(req[g])' <=> good
      /\ Forged(req[g])' <=> forged
      /\ bad => (\E k \in DOMAIN req[g].items : ~Accepted(req[g].items[k]))'
  BY <1>1 DEF WellFormed, Accepted
<1>. HIDE DEF good, forged, bad
<1>5. at'[g] # "idle" => /\ forged => at'[g] = "refused"
                         /\ good /\ ~forged => at'[g] # "refused" /\ (status'[g] = 400 => bad)
  BY <1>2, <1>3
<1>. QED
  BY <1>4, <1>5, Zenon DEF AdmittedOf

\* Whatever the router does, no forged request and every well-formed one
\* reaches its handler.
LEMMA MovesAdmitted ==
  ASSUME ServiceTyped, StageInv, HttpTyped, \A g \in Handlers : AdmittedOf(g), [HttpNext]_httpVars
  PROVE  \A g \in Handlers : AdmittedOf(g)'
<1>1. key' = key
  BY DEF HttpNext, Refuse, Receive, Serve, WriteAnswer, CloseWriter, PutWriter, HashResponse,
         Finish, Collected, Now, httpVars, http, config
<1>2. ASSUME UNCHANGED <<at, req, status>>, NEW g \in Handlers
      PROVE  AdmittedOf(g)'
  BY <1>1, <1>2, AdmittedKept
<1>3. ASSUME NEW h \in Handlers, NEW r \in Requests, Refuse(h, r), NEW g \in Handlers
      PROVE  AdmittedOf(g)'
  <2>1. /\ at' = [at EXCEPT ![h] = "refused"] /\ req' = [req EXCEPT ![h] = r] /\ status' = status
        /\ RefusedByHash(r) \/ RefusedByGzip(AfterHash(r))
    BY <1>3 DEF Refuse
  <2>2. CASE g # h
    <3>1. at'[g] = at[g] /\ req'[g] = req[g] /\ status'[g] = status[g]
      BY <2>1, <2>2 DEF ServiceTyped, RequestTyped
    <3>. QED
      BY <1>1, <3>1, AdmittedKept
  <2>3. CASE g = h
    <3>1. at'[h] = "refused" /\ req'[h] = r
      BY <2>1 DEF ServiceTyped, RequestTyped
    <3>2. ~(WellFormed(r) /\ ~Forged(r))
      BY <2>1, Unpacked
    <3>3. Forged(r)' <=> Forged(r)
      BY <1>1 DEF Forged, Checked
    <3>. QED
      BY <2>3, <3>1, <3>2, <3>3, Zenon DEF AdmittedOf, Forged, Checked, WellFormed
  <2>. QED
    BY <2>2, <2>3
<1>4. ASSUME NEW h \in Handlers, NEW r \in Requests, Receive(h, r), NEW g \in Handlers
      PROVE  AdmittedOf(g)'
  <2>. DEFINE parses == Parses(AfterGzip(AfterHash(r)))
  <2>1. /\ at[h] = "idle" /\ ~RefusedByHash(r) /\ Begin(h, r, parses)
    BY <1>4 DEF Receive
  <2>2. WellFormed(r) => parses
    BY Unpacked
  <2>3. ~Forged(r)
    BY <2>1 DEF RefusedByHash, Forged
  <2>. HIDE DEF parses
  <2>4. /\ req' = [req EXCEPT ![h] = r]
        /\ \/ /\ at' = [at EXCEPT ![h] = FirstStep[r.kind]] /\ status' = [status EXCEPT ![h] = 200]
           \/ /\ at' = [at EXCEPT ![h] = "answer"] /\ status' = [status EXCEPT ![h] = 400]
              /\ ~parses
    BY <2>1 DEF Begin, Answer
  <2>5. CASE g # h
    <3>1. at'[g] = at[g] /\ req'[g] = req[g] /\ status'[g] = status[g]
      BY <2>4, <2>5 DEF ServiceTyped, RequestTyped, AnswerTyped
    <3>. QED
      BY <1>1, <3>1, AdmittedKept
  <2>6. CASE g = h
    <3>1. FirstStep[r.kind] \in {"update", "read", "list"}
      BY RequestFacts, StepTables
    <3>2. at'[h] # "refused" /\ req'[h] = r
      BY <2>4, <3>1 DEF ServiceTyped, RequestTyped
    <3>3. status'[h] = 200 \/ ~parses
      BY <2>4 DEF ServiceTyped, AnswerTyped
    <3>4. 200 # 400
      OBVIOUS
    <3>5. ~Forged(r)'
      BY <1>1, <2>3 DEF Forged, Checked
    <3>6. WellFormed(r) => status'[h] # 400
      BY <2>2, <3>3, <3>4
    <3>. QED
      BY <2>6, <3>2, <3>5, <3>6, Zenon DEF AdmittedOf, WellFormed, Forged, Checked
  <2>. QED
    BY <2>5, <2>6
<1>5. ASSUME NEW h \in Handlers, Serve(h), NEW g \in Handlers
      PROVE  AdmittedOf(g)'
  <2>1. ServiceStep(h) /\ req' = req
    BY <1>5 DEF Serve, ServiceStep, UpdateMetric, ApplyNext, ReadNext, VisitGauge, GetAllCounters
  <2>2. at[h] \in {"update", "read", "list"}
    BY <2>1 DEF ServiceStep, UpdateMetric, ApplyNext, ReadNext, VisitGauge, GetAllCounters
  <2>3. \/ at' = at
        \/ \E a \in {"read", "answer"} : at' = [at EXCEPT ![h] = a]
    BY <2>1 DEF ServiceStep, UpdateMetric, ApplyNext, ReadNext, VisitGauge, GetAllCounters, Answer
  <2>4. at'[h] # "refused" /\ \A f \in Handlers \ {h} : at'[f] = at[f]
    BY <2>2, <2>3 DEF ServiceTyped, RequestTyped
  <2>5. CASE \E c \in {200, 404, 500} : status' = status \/ status' = [status EXCEPT ![h] = c]
    <3>1. status'[g] = status[g] \/ status'[g] # 400
      BY <2>5 DEF ServiceTyped, AnswerTyped
    <3>2. at'[g] = at[g] \/ (at[g] # "idle" /\ at[g] # "refused" /\ at'[g] # "refused")
      BY <2>2, <2>4
    <3>. QED
      BY <1>1, <2>1, <3>1, <3>2, AdmittedKept
  <2>6. CASE UpdateMetric(h) /\ ~Accepted(Head(req[h].items))
    <3>1. at[h] = "update" /\ status' = [status EXCEPT ![h] = 400]
      BY <2>6 DEF UpdateMetric, Answer
    <3>2. CASE g # h
      <4>1. at'[g] = at[g] /\ status'[g] = status[g]
        BY <2>4, <3>1, <3>2 DEF ServiceTyped, AnswerTyped
      <4>. QED
        BY <1>1, <2>1, <4>1, AdmittedKept
    <3>3. CASE g = h
      <4>1. req[h] \in Requests /\ req[h].kind \in {"path", "json", "batch"}
        BY <3>1 DEF StageInv, StageOf
      <4>2. 1 \in DOMAIN req[h].items /\ Head(req[h].items) = req[h].items[1]
        <5>1. req[h].items \in Seq(Items) /\ Len(req[h].items) >= 1
          BY <4>1, RequestFacts
        <5>. QED
          BY <5>1
      <4>3. ~Accepted(req[h].items[1])'
        BY <2>1, <2>6, <4>2 DEF Accepted
      <4>4. ~Forged(req[h])
        <5>1. AdmittedOf(h) /\ at[h] # "idle" /\ at[h] # "refused"
          BY <2>2
        <5>. QED
          BY <5>1 DEF AdmittedOf
      <4>5. ~Forged(req[h])'
        BY <1>1, <2>1, <4>4 DEF Forged, Checked
      <4>6. \E k \in DOMAIN req'[h].items : ~Accepted(req[h].items[k])'
        BY <2>1, <4>2, <4>3
      <4>. QED
        BY <2>4, <3>3, <4>5, <4>6, Zenon DEF AdmittedOf
    <3>. QED
      BY <3>2, <3>3
  <2>7. CASE ReadNext(h)
    <3>1. req[h].kind \in {"json", "batch", "value", "get"}
      BY <2>7 DEF ReadNext, StageInv, StageOf
    <3>2. req[h].kind # "batch" => NotFound[req[h].kind] \in {404, 500}
      BY <3>1, StepTables
    <3>3. \E c \in {200, 404, 500} : status' = status \/ status' = [status EXCEPT ![h] = c]
      BY <2>7, <3>2 DEF ReadNext, Answer
    <3>. QED
      BY <2>5, <3>3
  <2>8. CASE ~ReadNext(h) /\ ~(UpdateMetric(h) /\ ~Accepted(Head(req[h].items)))
    <3>1. \E c \in {200, 404, 500} : status' = status \/ status' = [status EXCEPT ![h] = c]
      BY <2>1, <2>8, ZenonT(30) DEF ServiceStep, UpdateMetric, ApplyNext, VisitGauge, GetAllCounters, Answer
    <3>. QED
      BY <2>5, <3>1
  <2>. QED
    BY <2>6, <2>7, <2>8
<1>6. ASSUME NEW h \in Handlers, WriteAnswer(h), NEW g \in Handlers
      PROVE  AdmittedOf(g)'
  <2>1. at[h] = "answer" /\ at' = [at EXCEPT ![h] = "returned"] /\ UNCHANGED <<req, status>>
    BY <1>6 DEF WriteAnswer
  <2>2. at'[g] = at[g] \/ (at[g] # "idle" /\ at[g] # "refused" /\ at'[g] # "refused")
    BY <2>1 DEF ServiceTyped, RequestTyped
  <2>. QED
    BY <1>1, <2>1, <2>2, AdmittedKept
<1>7. ASSUME NEW h \in Handlers, Finish(h), NEW g \in Handlers
      PROVE  AdmittedOf(g)'
  <2>1. at' = [at EXCEPT ![h] = "idle"] /\ req' = [req EXCEPT ![h] = NoRequest] /\ status' = status
    BY <1>7 DEF Finish, Done
  <2>2. CASE g # h
    <3>1. at'[g] = at[g] /\ req'[g] = req[g] /\ status'[g] = status[g]
      BY <2>1, <2>2 DEF ServiceTyped, RequestTyped
    <3>. QED
      BY <1>1, <3>1, AdmittedKept
  <2>3. CASE g = h
    <3>1. at'[g] = "idle"
      BY <2>1, <2>3 DEF ServiceTyped, RequestTyped
    <3>. QED
      BY <3>1 DEF AdmittedOf
  <2>. QED
    BY <2>2, <2>3
<1>8. ASSUME NEW h \in Handlers, CloseWriter(h) \/ PutWriter(h) \/ HashResponse(h)
      PROVE  UNCHANGED <<at, req, status>>
  BY <1>8 DEF CloseWriter, PutWriter, HashResponse, Now, service, request
<1>9. ASSUME NEW w \in Writers, Collected(w)
      PROVE  UNCHANGED <<at, req, status>>
  BY <1>9 DEF Collected, service, request
<1>10. UNCHANGED httpVars => UNCHANGED <<at, req, status>>
  BY DEF httpVars, service, request
<1>. QED
  BY <1>2, <1>3, <1>4, <1>5, <1>6, <1>7, <1>8, <1>9, <1>10 DEF HttpNext

-----------------------------------------------------------------------------
(* What is sent.                                                           *)

\* Everything that holds of a response on its way.
RouterInv ==
  /\ HttpInv
  /\ HttpTyped /\ PipeInv
  /\ \A h \in Handlers : AdmittedOf(h)

LEMMA RouterKeeps == HttpSpec => []RouterInv
<1>1. HttpInit => RouterInv
  <2>. SUFFICES ASSUME HttpInit
                PROVE  RouterInv
    OBVIOUS
  <2>1. HttpInv
    BY InitTyped, InitCounts, InitAnswers DEF HttpInit, HttpInv
  <2>2. \A h \in Handlers : at[h] = "idle"
    BY DEF HttpInit, ServiceInit
  <2>3. \A h \in Handlers : AdmittedOf(h)
    BY <2>2 DEF AdmittedOf
  <2>. QED
    BY <2>1, <2>3, InitPipe DEF RouterInv
<1>2. RouterInv /\ [HttpNext]_httpVars => RouterInv'
  <2>. SUFFICES ASSUME RouterInv, [HttpNext]_httpVars
                PROVE  RouterInv'
    OBVIOUS
  <2>1. HttpInv'
    BY HttpMoves, MovesTyped, MovesCount, MovesCurrent, MovesComplete DEF RouterInv, HttpInv
  <2>2. HttpTyped' /\ PipeInv'
    BY <2>1, MovesPipe DEF RouterInv, HttpInv
  <2>3. \A h \in Handlers : AdmittedOf(h)'
    BY MovesAdmitted DEF RouterInv, HttpInv
  <2>. QED
    BY <2>1, <2>2, <2>3 DEF RouterInv
<1>. QED
  BY <1>1, <1>2, PTL DEF HttpSpec

\* A complete response, in one record.
LEMMA ResponseIs ==
  ASSUME RouterInv, NEW h \in Handlers, Complete(h)
  PROVE  /\ Response(h) = [status |-> status[h],
                           header |-> IF key = NoKey THEN Declared(h) ELSE Signed(h),
                           body |-> Out(h)]
         /\ Out(h) = IF ~req[h].gzip THEN IF blank[h] THEN <<>> ELSE <<Text(number[h])>>
                     ELSE IF blank[h] THEN <<StreamHead, StreamTail>>
                     ELSE <<StreamHead, Data(number[h]), StreamTail>>
<1>1. at[h] = "returned" /\ rest[h] = <<>>
  BY DEF Complete
<1>2. <<>> \notin Closes \cup Puts \cup Signs
  BY RestsDiffer
<1>3. status[h] # 0 /\ Flow(h)
  BY <1>1 DEF RouterInv, PipeInv, PipeOf
<1>4. Out(h) = IF ~req[h].gzip THEN IF blank[h] THEN <<>> ELSE <<Text(number[h])>>
               ELSE IF blank[h] THEN <<StreamHead, StreamTail>>
               ELSE <<StreamHead, Data(number[h]), StreamTail>>
  BY <1>1, <1>2 DEF Out
<1>5. CASE key = NoKey
  <2>1. /\ header[h] = Declared(h)
        /\ sent[h] = IF Out(h) = <<>> THEN Nothing
                     ELSE [status |-> status[h], header |-> Declared(h), body |-> Out(h)]
    BY <1>3, <1>5 DEF Flow
  <2>2. CASE Out(h) = <<>>
    <3>1. sent[h].status = 0
      BY <2>1, <2>2 DEF Nothing
    <3>. QED
      BY <1>4, <1>5, <2>1, <2>2, <3>1 DEF Response, Written
  <2>3. CASE Out(h) # <<>>
    <3>1. sent[h] = [status |-> status[h], header |-> Declared(h), body |-> Out(h)]
      BY <2>1, <2>3
    <3>2. sent[h].status # 0
      BY <1>3, <3>1
    <3>. QED
      BY <1>4, <1>5, <3>1, <3>2 DEF Response
  <2>. QED
    BY <2>2, <2>3
<1>6. CASE key # NoKey
  <2>1. sent[h] = [status |-> status[h], header |-> Signed(h), body |-> Out(h)]
    BY <1>1, <1>2, <1>3, <1>6 DEF Flow
  <2>2. sent[h].status # 0
    BY <1>3, <2>1
  <2>. QED
    BY <1>4, <1>6, <2>1, <2>2 DEF Response
<1>. QED
  BY <1>5, <1>6

\* The coding that the response declares is the one the request asked for.
LEMMA CodingIs ==
  ASSUME RouterInv, NEW h \in Handlers, Complete(h)
  PROVE  Response(h).header.coding = IF req[h].gzip THEN "gzip" ELSE ""
<1>1. Declared(h).coding = IF req[h].gzip THEN "gzip" ELSE ""
  BY DEF Declared
<1>2. Signed(h).coding = Declared(h).coding
  BY DEF Signed, Declared
<1>3. Response(h).header = IF key = NoKey THEN Declared(h) ELSE Signed(h)
  BY ResponseIs
<1>. QED
  BY <1>1, <1>2, <1>3

\* A response carries what its own handler wrote and nothing of another request's,
\* in one stream that is begun and ended, though gzip writers are passed from
\* request to request through the pool (gzip.go:131-163).
THEOREM ResponsesAreIntact == HttpSpec => []ResponseIntact
<1>1. ASSUME RouterInv
      PROVE  ResponseIntact
  <2>1. ASSUME NEW h \in Handlers, Complete(h)
        PROVE  /\ Response(h).status = status[h]
               /\ Response(h).header.coding = IF req[h].gzip THEN "gzip" ELSE ""
               /\ Response(h).body = Own(h)
    <3>. DEFINE d == Data(number[h])
                text == <<Text(number[h])>>
                hd == StreamHead
                tl == StreamTail
    <3>1. Response(h).status = status[h] /\ Response(h).body = Out(h)
      BY <1>1, <2>1, ResponseIs
    <3>2. Response(h).header.coding = IF req[h].gzip THEN "gzip" ELSE ""
      BY <1>1, <2>1, CodingIs
    <3>3. Out(h) = IF ~req[h].gzip THEN IF blank[h] THEN <<>> ELSE text
                   ELSE IF blank[h] THEN <<hd, tl>> ELSE <<hd, d, tl>>
      BY <1>1, <2>1, ResponseIs
    <3>4. Own(h) = IF Response(h).header.coding = "gzip"
                   THEN <<hd>> \o (IF blank[h] THEN <<>> ELSE <<d>>) \o <<tl>>
                   ELSE IF blank[h] THEN <<>> ELSE text
      BY DEF Own
    <3>5. Response(h).header.coding = "gzip" <=> req[h].gzip
      BY <3>2
    <3>. HIDE DEF d, text, hd, tl
    <3>6. /\ <<hd>> \o <<>> = <<hd>> /\ <<hd>> \o <<tl>> = <<hd, tl>>
          /\ <<hd>> \o <<d>> = <<hd, d>> /\ <<hd, d>> \o <<tl>> = <<hd, d, tl>>
      <4>1. <<hd>> \o <<>> = <<hd>>
        BY JoinNothing
      <4>2. <<hd>> \o <<tl>> = <<hd, tl>> /\ <<hd>> \o <<d>> = <<hd, d>>
        BY Join2
      <4>3. <<hd, d>> \o <<tl>> = <<hd, d, tl>>
        BY Join3
      <4>. QED
        BY <4>1, <4>2, <4>3
    <3>7. Own(h) = Out(h)
      <4>1. CASE req[h].gzip /\ blank[h]
        BY <3>3, <3>4, <3>5, <3>6, <4>1
      <4>2. CASE req[h].gzip /\ ~blank[h]
        BY <3>3, <3>4, <3>5, <3>6, <4>2
      <4>3. CASE ~req[h].gzip
        BY <3>3, <3>4, <3>5, <4>3
      <4>. QED
        BY <4>1, <4>2, <4>3
    <3>. QED
      BY <3>1, <3>2, <3>7
  <2>2. ASSUME NEW h \in Handlers, at[h] = "idle"
        PROVE  sent[h] = Nothing /\ buffer[h] = <<>>
    BY <1>1, <2>2 DEF RouterInv, PipeInv, PipeOf, Clean
  <2>. QED
    BY <2>1, <2>2 DEF ResponseIntact
<1>. QED
  BY <1>1, RouterKeeps, PTL

\* With a key, a response carries the signature of exactly the bytes that are
\* sent (hash.go:104-128): of the compressed body, where main.go:87-88 says that
\* it is of the unpacked one.
THEOREM ResponsesAreSigned == HttpSpec => []SignedAsSent
<1>1. ASSUME RouterInv
      PROVE  SignedAsSent
  <2>1. ASSUME NEW h \in Handlers, Complete(h)
        PROVE  Response(h).header.sig =
                 IF key \in {NoKey, NoneKey} \/ Response(h).body = <<>> THEN NoSig
                 ELSE [by |-> key, over |-> Response(h).body]
    <3>1. /\ Response(h).header = IF key = NoKey THEN Declared(h) ELSE Signed(h)
          /\ Response(h).body = Out(h)
      BY <1>1, <2>1, ResponseIs
    <3>2. Declared(h).sig = NoSig
      BY DEF Declared
    <3>3. Signed(h).sig = IF key = NoneKey \/ Out(h) = <<>> THEN NoSig
                          ELSE [by |-> key, over |-> Out(h)]
      BY DEF Signed, Declared
    <3>. QED
      BY <3>1, <3>2, <3>3
  <2>. QED
    BY <2>1 DEF SignedAsSent
<1>. QED
  BY <1>1, RouterKeeps, PTL

\* A badly signed request reaches no handler, and a well-formed one reaches its
\* handler as the client wrote it (hash.go:37-86, gzip.go:111-128).
THEOREM OnlyBadOnesAreRefused == HttpSpec => []Admitted
<1>1. ASSUME RouterInv
      PROVE  Admitted
  <2>1. ASSUME NEW h \in Handlers
        PROVE  AdmittedOf(h)
    BY <1>1 DEF RouterInv
  <2>. QED
    BY <2>1, Zenon DEF Admitted, AdmittedOf, Forged, Checked
<1>. QED
  BY <1>1, RouterKeeps, PTL

\* Every variable of the router and of the metrics stays in its type.
THEOREM HttpTypes == HttpSpec => []TypeOK
<1>1. ASSUME RouterInv
      PROVE  TypeOK
  <2>1. ServiceTyped /\ HttpTyped /\ PipeInv
    BY <1>1 DEF RouterInv, HttpInv
  <2>2. \A h \in Handlers : Len(rest[h]) <= 3
    <3>1. \A s \in Rests : Len(s) <= 3
      <4>1. /\ Len(<<>>) <= 3 /\ Len(<<"close">>) <= 3 /\ Len(<<"put">>) <= 3 /\ Len(<<"hash">>) <= 3
        OBVIOUS
      <4>2. /\ Len(<<"close", "hash">>) <= 3 /\ Len(<<"close", "put">>) <= 3
            /\ Len(<<"put", "hash">>) <= 3 /\ Len(<<"close", "put", "hash">>) <= 3
        OBVIOUS
      <4>. QED
        BY <4>1, <4>2, Zenon DEF Rests, Closes, Puts, Signs
    <3>. QED
      BY <2>1, <3>1 DEF HttpTyped
  <2>3. ASSUME NEW h \in Handlers
        PROVE  sent[h].status \in {0, 200, 400, 404, 500}
    <3>1. status[h] \in {0, 200, 400, 404, 500} /\ at[h] \in Stages /\ PipeOf(h)
      BY <2>1 DEF ServiceTyped, AnswerTyped, RequestTyped, PipeInv
    <3>2. Nothing.status = 0
      BY DEF Nothing
    <3>3. CASE at[h] = "idle"
      BY <3>1, <3>2, <3>3 DEF PipeOf
    <3>4. CASE at[h] = "refused"
      <4>1. sent[h] = [Nothing EXCEPT !.status = 400]
        BY <3>1, <3>4 DEF PipeOf
      <4>. QED
        BY <4>1 DEF Nothing
    <3>5. CASE at[h] \notin {"idle", "refused"}
      <4>1. Flow(h)
        BY <3>1, <3>5 DEF PipeOf, Working, Stages
      <4>2. sent[h].status = 0 \/ sent[h].status = status[h]
        BY <3>2, <4>1 DEF Flow
      <4>. QED
        BY <3>1, <4>2
    <3>. QED
      BY <3>3, <3>4, <3>5
  <2>. QED
    BY <2>1, <2>2, <2>3
       DEF TypeOK, ServiceTyped, StorageTyped, RequestTyped, AnswerTyped, HttpTyped, Stages, Shown
<1>. QED
  BY <1>1, RouterKeeps, PTL
=============================================================================
