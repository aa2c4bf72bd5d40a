-------------------------- MODULE ClientSessionProofs --------------------------
(***************************************************************************)
(* One connection, for batches of any size: what is logged at its end is    *)
(* what the peer was given, and a stream that says it is complete is whole. *)
(***************************************************************************)
EXTENDS ClientSession, FiniteSetTheorems, TLAPS

Answered == Batches \cup {"voices", "single"}

\* The units that end a reply which is no failure.
Last == {"refusal", "voices", "audio", "results", "complete"}

NotAnswered == \A n \in DOMAIN wire : wire[n].what \notin Last

\* The first n chunks, and nothing else.
Streamed(n) ==
    /\ Len(wire) = n
    /\ \A i \in 1..n : wire[i] = Unit("chunk", IF results[i] THEN 1 ELSE 0)

\* Which requests come where.
KindInv ==
    /\ IF pc = "receive" THEN req = NoRequest ELSE req \in Requests
    /\ pc = "refuse" => req.kind \in Refusable
    /\ pc = "decide" => req.kind \in Refusable \cup Answered
    /\ pc = "synthesize" => req.kind \in Batches \cup {"single"}
    /\ pc = "chunk" => req.kind = "stream" /\ Len(results) > 0
    /\ pc = "answer" => req.kind \in Answered /\ Len(results) = req.items
    /\ pc = "decide" \/ req.kind \notin Batches => results = <<>>
    /\ pc \notin {"receive", "done"} =>
          scope = (req.kind \notin BadFrames \cup {"hangup"})

\* What was sent before the reply is complete.
WireInv ==
    /\ pc \in {"receive", "decide", "refuse"} => wire = <<>>
    /\ pc \in {"synthesize", "answer"} =>
          IF req.kind = "stream" THEN Streamed(Len(results)) ELSE wire = <<>>
    /\ pc = "chunk" => Streamed(Len(results) - 1)

\* How it ended, and what was sent then.
Outcome ==
    \/ end = Silent /\ req.kind = "hangup" /\ wire = <<>>
    \/ /\ end = [status |-> "ok", ok |-> Final.ok]
       /\ req.kind \in Answered /\ wire = Reply /\ Len(results) = req.items
       /\ wire[Len(wire)] = Final
    \/ end.status = "denied" /\ req.kind \in Refusable /\ wire = Reply
    \/ end.status = "error" /\ req.kind # "hangup" /\ NotAnswered

EndInv ==
    /\ pc \in {"receive", "decide", "synthesize", "chunk", "answer"} => end = Silent
    /\ pc = "refuse" => end = [status |-> "denied", ok |-> 0]
    /\ pc = "report" => end.status = "error" /\ req.kind # "hangup" /\ NotAnswered
    /\ pc \in {"close", "done"} => Outcome

LogInv ==
    IF pc # "done" \/ end = Silent THEN log = <<>>
    ELSE log = <<[status |-> end.status, ok |-> end.ok,
                  traced |-> (req.kind \notin BadFrames)]>>

IInv == TypeOK /\ KindInv /\ WireInv /\ EndInv /\ LogInv

-------------------------------------------------------------------------------
LEMMA CountBound ==
    ASSUME TypeOK
    PROVE  Count(results) \in 0..MaxItems
  <1>1. results \in Seq(BOOLEAN) /\ Len(results) \in Nat /\ Len(results) <= MaxItems
    BY ItemsAssumption DEF TypeOK, Requests, NoRequest, Batches
  <1> DEFINE S == 1..Len(results)
             T == {i \in DOMAIN results : results[i]}
  <1>2. IsFiniteSet(S) /\ Cardinality(S) = Len(results)
    BY <1>1, FS_Interval
  <1>3. T \in SUBSET S
    BY <1>1
  <1>4. IsFiniteSet(T) /\ Cardinality(T) <= Cardinality(S)
    BY <1>2, <1>3, FS_Subset
  <1>5. Cardinality(T) \in Nat
    BY <1>4, FS_CardinalityType
  <1> QED
    BY <1>1, <1>2, <1>4, <1>5, ItemsAssumption DEF Count

LEMMA FinalIsUnit ==
    ASSUME TypeOK, req.kind \in Answered
    PROVE  /\ Final \in Units
           /\ Final.what \in Last /\ (Final.what = "complete" <=> req.kind = "stream")
           /\ Final.ok \in 0..MaxItems + 1
           /\ req.kind = "stream" => Final = Unit("complete", Count(results))
  <1>1. Count(results) \in 0..MaxItems
    BY CountBound
  <1>2. 0 \in 0..MaxItems + 1 /\ 1 \in 0..MaxItems + 1
        /\ Count(results) \in 0..MaxItems + 1
    BY <1>1, ItemsAssumption
  <1>3. CASE req.kind = "voices"
    BY <1>2, <1>3 DEF Final, Unit, Units, Frames, Last
  <1>4. CASE req.kind = "single"
    BY <1>2, <1>4 DEF Final, Unit, Units, Frames, Last
  <1>5. CASE req.kind = "batch"
    BY <1>2, <1>5 DEF Final, Unit, Units, Frames, Last
  <1>6. CASE req.kind = "stream"
    BY <1>2, <1>6 DEF Final, Unit, Units, Lines, Last
  <1> QED
    BY <1>3, <1>4, <1>5, <1>6 DEF Answered, Batches

\* A reply is what was streamed so far, and then its final unit.
LEMMA StreamReply ==
    ASSUME TypeOK, req.kind = "stream", Streamed(Len(results))
    PROVE  Reply = Append(wire, Final)
  <1>1. /\ results \in Seq(BOOLEAN) /\ wire \in Seq(Units)
        /\ DOMAIN results = 1..Len(results) /\ DOMAIN wire = 1..Len(wire)
    BY DEF TypeOK
  <1>2. wire = [i \in 1..Len(wire) |-> wire[i]]
    BY <1>1
  <1>3. wire = [i \in DOMAIN results |-> Unit("chunk", IF results[i] THEN 1 ELSE 0)]
    BY <1>1, <1>2 DEF Streamed
  <1>4. Final = Unit("complete", Count(results))
    BY FinalIsUnit DEF Answered, Batches
  <1> QED
    BY <1>3, <1>4 DEF Reply, Refusable, BadFrames

LEMMA PlainReply ==
    ASSUME req.kind \in Answered, req.kind # "stream"
    PROVE  Reply = <<Final>>
  BY DEF Reply, Answered, Batches, Refusable, BadFrames

LEMMA RefusalReply ==
    ASSUME req.kind \in Refusable
    PROVE  Reply = <<Unit("refusal", 0)>>
  BY DEF Reply, Refusable, BadFrames

\* A reply that is no failure ends in a unit that says so.
LEMMA ReplyEnds ==
    ASSUME TypeOK, req.kind \in Answered \cup Refusable
    PROVE  \E n \in DOMAIN Reply : Reply[n].what \in Last
  <1>1. CASE req.kind \in Refusable
    <2>1. Reply = <<Unit("refusal", 0)>>
      BY <1>1, RefusalReply
    <2> QED
      BY <2>1 DEF Unit, Last
  <1>2. CASE req.kind \in Answered /\ req.kind # "stream"
    <2>1. Reply = <<Final>> /\ Final.what \in Last
      BY <1>2, PlainReply, FinalIsUnit
    <2> QED
      BY <2>1
  <1>3. CASE req.kind = "stream"
    <2> DEFINE C == [i \in DOMAIN results |-> Unit("chunk", IF results[i] THEN 1 ELSE 0)]
               F == Unit("complete", Count(results))
    <2>1. DOMAIN results = 1..Len(results) /\ Len(results) \in Nat
      BY DEF TypeOK
    <2>2. C \in Seq(Units)
      <3>1. \A i \in 1..Len(results) : Unit("chunk", IF results[i] THEN 1 ELSE 0) \in Units
        BY ItemsAssumption DEF Unit, Units, Lines
      <3> QED
        BY <2>1, <3>1
    <2>3. Reply = Append(C, F)
      BY <1>3 DEF Reply, Refusable, BadFrames
    <2> HIDE DEF C, F
    <2>4. Len(C) + 1 \in DOMAIN Append(C, F) /\ Append(C, F)[Len(C) + 1] = F
      BY <2>2
    <2>5. F.what \in Last
      BY DEF F, Unit, Last
    <2> QED
      BY <2>3, <2>4, <2>5
  <1> QED
    BY <1>1, <1>2, <1>3

-------------------------------------------------------------------------------
(* One lemma per action; what a failed send may leave is the same for all.    *)

LEMMA Unfinished ==
    ASSUME TypeOK, NotAnswered, NEW u \in Units,
           NotSent(u) \/ (Sent(u) /\ u.what \notin Last)
    PROVE  wire' \in Seq(Units) /\ reset' \in BOOLEAN /\ NotAnswered'
  <1>1. Unit("part", 0) \in Units /\ Unit("part", 0).what \notin Last
    BY ItemsAssumption DEF Unit, Units, Last
  <1>2. wire \in Seq(Units) /\ reset \in BOOLEAN
    BY DEF TypeOK
  <1>3. ASSUME NEW v \in Units, v.what \notin Last, wire' = Append(wire, v)
        PROVE  wire' \in Seq(Units) /\ NotAnswered'
    <2>1. /\ wire' \in Seq(Units) /\ Len(wire') = Len(wire) + 1
          /\ \A n \in 1..Len(wire) : wire'[n] = wire[n]
          /\ wire'[Len(wire) + 1] = v
      BY <1>2, <1>3
    <2>2. Len(wire) \in Nat /\ DOMAIN wire' = 1..Len(wire) + 1 /\ DOMAIN wire = 1..Len(wire)
      BY <1>2, <2>1
    <2>3. ASSUME NEW n \in 1..Len(wire) + 1 PROVE wire'[n].what \notin Last
      <3>1. CASE n = Len(wire) + 1
        BY <1>3, <2>1, <3>1
      <3>2. CASE n \in 1..Len(wire)
        BY <2>1, <2>2, <3>2 DEF NotAnswered
      <3> QED
        BY <2>2, <3>1, <3>2
    <2> QED
      BY <2>1, <2>2, <2>3 DEF NotAnswered
  <1>4. CASE UNCHANGED wire
    BY <1>2, <1>4 DEF NotAnswered, NotSent, Sent
  <1> QED
    BY <1>1, <1>2, <1>3, <1>4 DEF NotSent, Sent

LEMMA NothingSent == wire = <<>> => NotAnswered
  BY DEF NotAnswered

LEMMA StreamedOnly ==
    ASSUME TypeOK, NEW n \in Nat, Streamed(n)
    PROVE  NotAnswered
  <1>1. DOMAIN wire = 1..n
    BY DEF TypeOK, Streamed
  <1> QED
    BY <1>1 DEF Streamed, NotAnswered, Unit, Last

LEMMA InitInv == Init => IInv
  <1> SUFFICES ASSUME Init PROVE IInv
    OBVIOUS
  <1>1. TypeOK
    <2>1. Silent \in [status : {"none", "ok", "denied", "error"}, ok : 0..(MaxItems + 1)]
      BY ItemsAssumption DEF Silent
    <2>2. Len(results) <= req.items
      BY DEF Init, NoRequest
    <2>3. req \in Requests \cup {NoRequest} /\ results \in Seq(BOOLEAN)
      BY DEF Init
    <2>4. wire \in Seq(Units)
      BY DEF Init
    <2>5. log \in Seq([status : {"ok", "denied", "error"}, ok : 0..(MaxItems + 1),
                     traced : BOOLEAN])
      BY DEF Init
    <2>6. pc = "receive" /\ reset \in BOOLEAN /\ scope \in BOOLEAN /\ end = Silent
      BY DEF Init
    <2> QED
      BY <2>1, <2>2, <2>3, <2>4, <2>5, <2>6 DEF TypeOK
  <1>2. KindInv /\ WireInv /\ EndInv /\ LogInv
    BY DEF Init, KindInv, WireInv, EndInv, LogInv, NoRequest, Batches
  <1> QED
    BY <1>1, <1>2 DEF IInv

LEMMA ReceiveStep ==
    ASSUME IInv, NEW r \in Requests, Receive(r)
    PROVE  IInv'
  <1> USE DEF IInv
  <1>1. /\ pc = "receive" /\ req' = r /\ UNCHANGED <<results, wire, reset, log>>
        /\ scope' = (r.kind \notin BadFrames \cup {"hangup"})
    BY DEF Receive
  <1>2. results = <<>> /\ wire = <<>> /\ end = Silent /\ log = <<>>
    BY <1>1 DEF KindInv, WireInv, EndInv, LogInv, NoRequest, Batches
  <1>3. \/ r.kind \in BadFrames /\ pc' = "report" /\ end' = [status |-> "error", ok |-> 0]
        \/ r.kind = "hangup" /\ pc' = "close" /\ end' = end
        \/ r.kind \in Refusable \cup Answered /\ pc' = "decide" /\ end' = end
    <2>1. r.kind \in BadFrames \cup Refusable \cup {"hangup"} \cup Answered
      BY DEF Requests, Answered
    <2> QED
      BY <2>1 DEF Receive, Raise, BadFrames
  <1>4. r.items \in Nat
    BY ItemsAssumption DEF Requests
  <1>5. TypeOK'
    BY <1>1, <1>2, <1>3, <1>4, ItemsAssumption DEF TypeOK, Silent
  <1>6. KindInv'
    BY <1>1, <1>2, <1>3 DEF KindInv, Refusable, Answered, Batches, BadFrames
  <1>7. WireInv' /\ LogInv'
    BY <1>1, <1>2, <1>3 DEF WireInv, LogInv
  <1>8. EndInv'
    <2>1. NotAnswered'
      BY <1>1, <1>2 DEF NotAnswered
    <2> QED
      BY <1>1, <1>2, <1>3, <2>1 DEF EndInv, Outcome, BadFrames
  <1> QED
    BY <1>5, <1>6, <1>7, <1>8

LEMMA DecideStep ==
    ASSUME IInv, Decide
    PROVE  IInv'
  <1> USE DEF IInv
  <1>1. /\ pc = "decide" /\ UNCHANGED <<req, results, wire, reset, scope, log>>
        /\ req.kind \in Refusable \cup Answered /\ results = <<>> /\ wire = <<>>
        /\ end = Silent /\ log = <<>> /\ req \in Requests
    BY DEF Decide, KindInv, WireInv, EndInv, LogInv
  <1>2. \/ /\ req.kind \in Refusable /\ pc' = "refuse"
           /\ end' = [status |-> "denied", ok |-> 0]
        \/ req.kind = "voices" /\ pc' = "answer" /\ end' = end
        \/ req.kind \in Batches \cup {"single"} /\ pc' = "synthesize" /\ end' = end
    BY <1>1 DEF Decide, Answered, Refusable
  <1>3. TypeOK'
    BY <1>1, <1>2, ItemsAssumption DEF TypeOK
  <1>4. KindInv'
    <2>1. req.kind = "voices" => req.items = 0
      BY <1>1 DEF Requests, Batches
    <2> QED
      BY <1>1, <1>2, <2>1 DEF KindInv, Answered, Refusable, Batches
  <1>5. WireInv' /\ LogInv' /\ EndInv'
    <2>1. Streamed(0)'
      BY <1>1 DEF Streamed
    <2>2. Len(results') = 0
      BY <1>1
    <2> QED
      BY <1>1, <1>2, <2>1, <2>2 DEF WireInv, LogInv, EndInv
  <1> QED
    BY <1>3, <1>4, <1>5

LEMMA RefuseStep ==
    ASSUME IInv, Refuse
    PROVE  IInv'
  <1> USE DEF IInv
  <1>1. /\ pc = "refuse" /\ UNCHANGED <<req, results, scope, log>>
        /\ req.kind \in Refusable /\ wire = <<>> /\ log = <<>> /\ req \in Requests
        /\ end = [status |-> "denied", ok |-> 0]
    BY DEF Refuse, KindInv, WireInv, EndInv, LogInv
  <1>2. Unit("refusal", 0) \in Units
    BY ItemsAssumption DEF Unit, Units, Frames
  <1>3. CASE Sent(Unit("refusal", 0)) /\ pc' = "close" /\ UNCHANGED end
    <2>1. wire' = <<Unit("refusal", 0)>> /\ reset' = reset
      BY <1>1, <1>3 DEF Sent
    <2>2. wire' = Reply'
      BY <1>1, <2>1, RefusalReply DEF Reply
    <2>3. TypeOK'
      BY <1>1, <1>2, <1>3, <2>1 DEF TypeOK
    <2> QED
      BY <1>1, <1>3, <2>2, <2>3 DEF KindInv, WireInv, EndInv, LogInv, Outcome, Refusable
  <1>4. CASE NotSent(Unit("refusal", 0)) /\ Raise
    <2>1. wire' \in Seq(Units) /\ reset' \in BOOLEAN /\ NotAnswered'
      BY <1>1, <1>2, <1>4, NothingSent, Unfinished
    <2>2. TypeOK'
      BY <1>1, <1>4, <2>1, ItemsAssumption DEF TypeOK, Raise
    <2> QED
      BY <1>1, <1>4, <2>1, <2>2 DEF KindInv, WireInv, EndInv, LogInv, Raise, Refusable
  <1> QED
    BY <1>3, <1>4 DEF Refuse

LEMMA SynthesizeStep ==
    ASSUME IInv, NEW ok \in BOOLEAN, Synthesize(ok)
    PROVE  IInv'
  <1> USE DEF IInv
  <1>1. /\ pc = "synthesize" /\ UNCHANGED <<req, results, wire, reset, scope, log>>
        /\ req.kind = "single" /\ wire = <<>> /\ log = <<>> /\ req \in Requests
        /\ results = <<>> /\ end = Silent
    BY DEF Synthesize, KindInv, WireInv, EndInv, LogInv, Batches
  <1>2. \/ pc' = "answer" /\ end' = end
        \/ pc' = "report" /\ end' = [status |-> "error", ok |-> 0]
    BY DEF Synthesize, Raise
  <1>3. req.items = 0
    BY <1>1 DEF Requests, Batches
  <1>4. TypeOK'
    BY <1>1, <1>2, ItemsAssumption DEF TypeOK
  <1>5. NotAnswered'
    BY <1>1 DEF NotAnswered
  <1> QED
    BY <1>1, <1>2, <1>3, <1>4, <1>5
       DEF KindInv, WireInv, EndInv, LogInv, Answered, Batches

LEMMA SynthesizeItemStep ==
    ASSUME IInv, NEW ok \in BOOLEAN, SynthesizeItem(ok)
    PROVE  IInv'
  <1> USE DEF IInv
  <1>1. /\ pc = "synthesize" /\ UNCHANGED <<req, wire, reset, scope, end, log>>
        /\ req.kind \in Batches /\ req \in Requests /\ Len(results) < req.items
        /\ results' = Append(results, ok)
        /\ pc' = IF req.kind = "stream" THEN "chunk" ELSE "synthesize"
        /\ end = Silent /\ log = <<>>
    BY DEF SynthesizeItem, KindInv, EndInv, LogInv
  <1>2. results \in Seq(BOOLEAN) /\ Len(results) \in Nat /\ req.items \in Nat
    BY <1>1, ItemsAssumption DEF TypeOK, Requests
  <1>3. /\ results' \in Seq(BOOLEAN) /\ Len(results') = Len(results) + 1
        /\ \A i \in 1..Len(results) : results'[i] = results[i]
    BY <1>1, <1>2
  <1>4. TypeOK'
    BY <1>1, <1>2, <1>3 DEF TypeOK
  <1>5. KindInv'
    BY <1>1, <1>2, <1>3 DEF KindInv, Batches
  <1>6. Streamed(Len(results)) => Streamed(Len(results) - 1)'
    BY <1>1, <1>2, <1>3 DEF Streamed
  <1> QED
    BY <1>1, <1>4, <1>5, <1>6 DEF WireInv, EndInv, LogInv

LEMMA EndOfBatchStep ==
    ASSUME IInv, EndOfBatch
    PROVE  IInv'
  <1> USE DEF IInv
  <1>1. /\ pc = "synthesize" /\ UNCHANGED <<req, results, wire, reset, scope, end, log>>
        /\ req.kind \in Batches /\ Len(results) = req.items /\ pc' = "answer"
    BY DEF EndOfBatch
  <1>2. TypeOK'
    BY <1>1 DEF TypeOK
  <1>3. Streamed(Len(results)) => Streamed(Len(results))'
    BY <1>1 DEF Streamed
  <1> QED
    BY <1>1, <1>2, <1>3 DEF KindInv, WireInv, EndInv, LogInv, Answered

LEMMA SendChunkStep ==
    ASSUME IInv, SendChunk
    PROVE  IInv'
  <1> USE DEF IInv
  <1>1. /\ pc = "chunk" /\ UNCHANGED <<req, results, scope, log>>
        /\ req.kind = "stream" /\ req \in Requests /\ Len(results) > 0
        /\ Streamed(Len(results) - 1) /\ end = Silent /\ log = <<>>
    BY DEF SendChunk, KindInv, WireInv, EndInv, LogInv
  <1>2. Chunk \in Units /\ Chunk.what \notin Last
    BY ItemsAssumption DEF Chunk, Unit, Units, Lines, Last
  <1>3. Len(results) \in Nat /\ wire \in Seq(Units)
    BY DEF TypeOK
  <1>4. NotAnswered
    BY <1>1, <1>3, StreamedOnly
  <1>5. wire' \in Seq(Units) /\ reset' \in BOOLEAN /\ NotAnswered'
    BY <1>2, <1>4, Unfinished DEF SendChunk
  <1>6. CASE Sent(Chunk) /\ pc' = "synthesize" /\ UNCHANGED end
    <2>1. TypeOK'
      BY <1>1, <1>5, <1>6 DEF TypeOK
    <2>2. Streamed(Len(results))'
      <3>1. /\ Len(wire') = Len(wire) + 1 /\ wire'[Len(wire) + 1] = Chunk
            /\ \A i \in 1..Len(wire) : wire'[i] = wire[i]
        BY <1>3, <1>6 DEF Sent
      <3>2. Len(wire) = Len(results) - 1
        BY <1>1 DEF Streamed
      <3>3. Chunk = Unit("chunk", IF results[Len(results)] THEN 1 ELSE 0)
        BY DEF Chunk
      <3>4. ASSUME NEW i \in 1..Len(results)
            PROVE  wire'[i] = Unit("chunk", IF results[i] THEN 1 ELSE 0)
        <4>1. CASE i = Len(results)
          BY <1>3, <3>1, <3>2, <3>3, <4>1
        <4>2. CASE i # Len(results)
          <5>1. i \in 1..Len(results) - 1
            BY <1>3, <4>2
          <5> QED
            BY <1>1, <3>1, <3>2, <5>1 DEF Streamed
        <4> QED
          BY <4>1, <4>2
      <3> QED
        BY <1>1, <1>3, <3>1, <3>2, <3>4 DEF Streamed
    <2> QED
      BY <1>1, <1>6, <2>1, <2>2 DEF KindInv, WireInv, EndInv, LogInv, Batches
  <1>7. CASE NotSent(Chunk) /\ Raise
    <2>1. TypeOK'
      BY <1>1, <1>5, <1>7, ItemsAssumption DEF TypeOK, Raise
    <2> QED
      BY <1>1, <1>5, <1>7, <2>1 DEF KindInv, WireInv, EndInv, LogInv, Raise, Batches
  <1> QED
    BY <1>6, <1>7 DEF SendChunk

LEMMA AnswerStep ==
    ASSUME IInv, Answer
    PROVE  IInv'
  <1> USE DEF IInv
  <1>1. /\ pc = "answer" /\ UNCHANGED <<req, results, scope, log>>
        /\ req.kind \in Answered /\ req \in Requests /\ Len(results) = req.items
        /\ end = Silent /\ log = <<>> /\ wire \in Seq(Units)
        /\ req.kind \notin Batches => results = <<>>
        /\ IF req.kind = "stream" THEN Streamed(Len(results)) ELSE wire = <<>>
    BY DEF Answer, KindInv, WireInv, EndInv, LogInv, TypeOK
  <1>2. Final \in Units /\ Final.ok \in 0..MaxItems + 1
    BY <1>1, FinalIsUnit
  <1>3. CASE Sent(Final) /\ pc' = "close" /\ end' = [status |-> "ok", ok |-> Final.ok]
    <2>1. wire' = Append(wire, Final) /\ reset' = reset /\ wire' \in Seq(Units)
      BY <1>1, <1>2, <1>3 DEF Sent
    <2>2. wire' = Reply
      <3>1. CASE req.kind = "stream"
        BY <1>1, <2>1, <3>1, StreamReply
      <3>2. CASE req.kind # "stream"
        BY <1>1, <2>1, <3>2, PlainReply
      <3> QED
        BY <3>1, <3>2
    <2>3. Reply' = Reply /\ Final' = Final
      BY <1>1 DEF Reply, Final
    <2>4. TypeOK'
      BY <1>1, <1>2, <1>3, <2>1 DEF TypeOK
    <2>5. wire'[Len(wire')] = Final
      BY <1>1, <1>2, <2>1
    <2>6. Outcome'
      BY <1>1, <1>3, <2>2, <2>3, <2>5 DEF Outcome
    <2> QED
      BY <1>1, <1>3, <2>4, <2>6 DEF KindInv, WireInv, EndInv, LogInv
  <1>4. CASE NotSent(Final) /\ Raise
    <2>1. NotAnswered
      <3>1. Len(results) \in Nat
        BY DEF TypeOK
      <3> QED
        BY <1>1, <3>1, NothingSent, StreamedOnly
    <2>2. wire' \in Seq(Units) /\ reset' \in BOOLEAN /\ NotAnswered'
      BY <1>2, <1>4, <2>1, Unfinished
    <2>3. TypeOK'
      BY <1>1, <1>4, <2>2, ItemsAssumption DEF TypeOK, Raise
    <2> QED
      BY <1>1, <1>4, <2>2, <2>3
         DEF KindInv, WireInv, EndInv, LogInv, Raise, Answered, Batches
  <1> QED
    BY <1>3, <1>4 DEF Answer

LEMMA ReportStep ==
    ASSUME IInv, Report
    PROVE  IInv'
  <1> USE DEF IInv
  <1>1. /\ pc = "report" /\ UNCHANGED <<req, results, scope, end, log>> /\ pc' = "close"
        /\ end.status = "error" /\ req.kind # "hangup" /\ NotAnswered /\ log = <<>>
    BY DEF Report, EndInv, LogInv
  <1>2. Unit("error", 0) \in Units /\ Unit("error", 0).what \notin Last
    BY ItemsAssumption DEF Unit, Units, Frames, Last
  <1>3. wire' \in Seq(Units) /\ reset' \in BOOLEAN /\ NotAnswered'
    BY <1>1, <1>2, Unfinished DEF Report
  <1>4. TypeOK'
    BY <1>1, <1>3 DEF TypeOK
  <1> QED
    BY <1>1, <1>3, <1>4 DEF KindInv, WireInv, EndInv, LogInv, Outcome

LEMMA CloseStep ==
    ASSUME IInv, Close
    PROVE  IInv'
  <1> USE DEF IInv
  <1>1. /\ pc = "close" /\ pc' = "done" /\ UNCHANGED <<req, results, wire, reset, end>>
        /\ scope' = FALSE /\ log = <<>> /\ Outcome
        /\ scope = (req.kind \notin BadFrames \cup {"hangup"})
    BY DEF Close, KindInv, EndInv, LogInv
  <1>2. Outcome'
    <2>1. Reply' = Reply /\ Final' = Final /\ NotAnswered' = NotAnswered
      BY <1>1 DEF Reply, Final, NotAnswered
    <2> QED
      BY <1>1, <2>1 DEF Outcome
  <1>3. CASE end = Silent
    BY <1>1, <1>2, <1>3 DEF Close, TypeOK, KindInv, WireInv, EndInv, LogInv
  <1>4. CASE end # Silent
    <2>1. req.kind # "hangup" /\ end.status # "none"
      BY <1>1, <1>4 DEF Outcome, Answered, Batches, Refusable
    <2>2. log' = <<[status |-> end.status, ok |-> end.ok,
                    traced |-> (req.kind \notin BadFrames)]>>
      BY <1>1, <1>4, <2>1 DEF Close
    <2>3. TypeOK'
      <3>1. end.status \in {"ok", "denied", "error"} /\ end.ok \in 0..MaxItems + 1
        BY <2>1 DEF TypeOK
      <3>2. log' \in Seq([status : {"ok", "denied", "error"}, ok : 0..MaxItems + 1,
                          traced : BOOLEAN])
        BY <2>2, <3>1
      <3> QED
        BY <1>1, <3>2 DEF TypeOK
    <2> QED
      BY <1>1, <1>2, <1>4, <2>2, <2>3 DEF KindInv, WireInv, EndInv, LogInv
  <1> QED
    BY <1>3, <1>4

LEMMA NextInv == IInv /\ [Next]_vars => IInv'
  <1> SUFFICES ASSUME IInv, [Next]_vars PROVE IInv'
    OBVIOUS
  <1>1. CASE UNCHANGED vars
    <2>1. Reply' = Reply /\ Final' = Final /\ NotAnswered' = NotAnswered
      BY <1>1 DEF vars, Reply, Final, NotAnswered
    <2>2. \A n : Streamed(n)' = Streamed(n)
      BY <1>1 DEF vars, Streamed
    <2>3. Outcome' = Outcome
      BY <1>1, <2>1 DEF vars, Outcome
    <2> QED
      BY <1>1, <2>1, <2>2, <2>3 DEF vars, IInv, TypeOK, KindInv, WireInv, EndInv, LogInv
  <1>2. CASE Handle
    BY <1>2, ReceiveStep, DecideStep, RefuseStep, SynthesizeStep, SynthesizeItemStep,
       EndOfBatchStep, SendChunkStep, AnswerStep, ReportStep, CloseStep DEF Handle
  <1> QED
    BY <1>1, <1>2 DEF Next, Done

\* The invariant of a connection from which the theorems below follow.
THEOREM Invariance == Safety => []IInv
  BY InitInv, NextInv, PTL DEF Safety

(* The locals of handle_client keep their types, and a batch never has more   *)
(* results than items.                                                        *)
THEOREM TypeCorrect == Safety => []TypeOK
  <1>1. IInv => TypeOK
    BY DEF IInv
  <1> QED
    BY <1>1, Invariance, PTL

(* Whatever is requested and whichever sends fail, the end line says "ok" or  *)
(* "denied" exactly when the peer was given the whole reply, is traced to its *)
(* request, and is missing for a port probe only.                             *)
THEOREM LogIsTrue == Safety => []EndTellsTruth
  <1>1. IInv => EndTellsTruth
    <2> SUFFICES ASSUME IInv, pc = "done" PROVE EndTellsTruth
      BY DEF EndTellsTruth
    <2> USE DEF IInv
    <2>1. Outcome
      BY DEF EndInv
    <2>2. CASE end = Silent /\ req.kind = "hangup" /\ wire = <<>>
      BY <2>2 DEF EndTellsTruth, LogInv
    <2>3. CASE end # Silent
      <3>1. /\ Len(log) = 1 /\ log[1].status = end.status /\ log[1].ok = end.ok
            /\ log[1].traced = (req.kind \notin BadFrames)
        BY <2>3 DEF LogInv
      <3>2. CASE /\ end = [status |-> "ok", ok |-> Final.ok] /\ req.kind \in Answered
                 /\ wire = Reply /\ Len(results) = req.items
                 /\ wire[Len(wire)] = Final
        <4>1. wire[Len(wire)].ok = Final.ok
          BY <3>2
        <4>2. req.kind \notin Refusable \cup BadFrames \cup {"hangup"}
          BY <3>2 DEF Answered, Batches, Refusable, BadFrames
        <4> QED
          BY <3>1, <3>2, <4>1, <4>2 DEF EndTellsTruth
      <3>3. CASE end.status = "denied" /\ req.kind \in Refusable /\ wire = Reply
        BY <3>1, <3>3 DEF EndTellsTruth, Refusable
      <3>4. CASE end.status = "error" /\ req.kind # "hangup" /\ NotAnswered
        <4>1. req.kind \in Answered \cup Refusable => wire # Reply
          BY <3>4, ReplyEnds DEF NotAnswered
        <4>2. req.kind \in Answered \cup Refusable \cup BadFrames
          BY <3>4 DEF KindInv, Requests, Answered
        <4> QED
          BY <3>1, <3>4, <4>1, <4>2 DEF EndTellsTruth
      <3> QED
        BY <2>1, <2>3, <3>2, <3>3, <3>4 DEF Outcome
    <2> QED
      BY <2>1, <2>2, <2>3 DEF Outcome, Silent
  <1> QED
    BY <1>1, Invariance, PTL

(* A stream that was told to be complete has one chunk for each item, in      *)
(* order, and counts the successful ones, for batches of any size.            *)
THEOREM StreamsAreWhole == Safety => []StreamIsWhole
  <1>1. IInv => StreamIsWhole
    <2> SUFFICES ASSUME IInv PROVE StreamIsWhole
      OBVIOUS
    <2> USE DEF IInv
    <2>1. CASE NotAnswered
      BY <2>1 DEF NotAnswered, StreamIsWhole, Last
    <2>2. CASE /\ end = [status |-> "ok", ok |-> Final.ok] /\ req.kind \in Answered
               /\ wire = Reply /\ Len(results) = req.items /\ wire[Len(wire)] = Final
      <3>1. CASE req.kind = "stream"
        <4> DEFINE C == [i \in DOMAIN results |->
                           Unit("chunk", IF results[i] THEN 1 ELSE 0)]
                   F == Unit("complete", Count(results))
        <4>1. DOMAIN results = 1..Len(results) /\ Len(results) \in Nat
          BY DEF TypeOK
        <4>2. C \in Seq(Units) /\ Len(C) = Len(results)
          <5>1. \A i \in 1..Len(results) :
                   Unit("chunk", IF results[i] THEN 1 ELSE 0) \in Units
            BY ItemsAssumption DEF Unit, Units, Lines
          <5> QED
            BY <4>1, <5>1
        <4>3. wire = Append(C, F)
          BY <2>2, <3>1 DEF Reply, Refusable, BadFrames
        <4>4. \A i \in 1..Len(results) :
                 C[i] = Unit("chunk", IF results[i] THEN 1 ELSE 0)
          BY <4>1
        <4> HIDE DEF C
        <4>5. /\ DOMAIN wire = 1..Len(results) + 1 /\ Len(wire) = Len(results) + 1
              /\ wire[Len(results) + 1] = F
              /\ \A i \in 1..Len(results) : wire[i] = C[i]
          BY <4>1, <4>2, <4>3
        <4>6. F.ok = Count(results)
          BY DEF Unit
        <4>7. ASSUME NEW n \in DOMAIN wire, wire[n].what = "complete"
              PROVE  n = Len(results) + 1
          <5>1. n \notin 1..Len(results)
            <6>1. ASSUME n \in 1..Len(results) PROVE FALSE
              <7>1. wire[n] = Unit("chunk", IF results[n] THEN 1 ELSE 0)
                BY <4>4, <4>5, <6>1
              <7> QED
                BY <4>7, <7>1 DEF Unit
            <6> QED
              BY <6>1
          <5> QED
            BY <4>1, <4>5, <5>1
        <4> QED
          BY <2>2, <4>4, <4>5, <4>6, <4>7 DEF StreamIsWhole
      <3>2. CASE req.kind # "stream"
        <4>1. wire = <<Final>> /\ Final.what # "complete"
          BY <2>2, <3>2, PlainReply, FinalIsUnit
        <4> QED
          BY <4>1 DEF StreamIsWhole
      <3> QED
        BY <3>1, <3>2
    <2>3. CASE req.kind \in Refusable /\ wire = Reply
      <3>1. wire = <<Unit("refusal", 0)>>
        BY <2>3, RefusalReply
      <3> QED
        BY <3>1 DEF Unit, StreamIsWhole
    <2>4. Outcome => StreamIsWhole
      BY <2>1, <2>2, <2>3, NothingSent DEF Outcome
    <2>5. CASE pc \in {"close", "done"}
      BY <2>4, <2>5 DEF EndInv
    <2>6. CASE pc \notin {"close", "done"}
      <3>1. Len(results) \in Nat
        BY DEF TypeOK
      <3>2. NotAnswered
        <4>1. CASE pc \in {"receive", "decide", "refuse"}
          BY <4>1, NothingSent DEF WireInv
        <4>2. CASE pc \in {"synthesize", "answer"}
          BY <3>1, <4>2, NothingSent, StreamedOnly DEF WireInv
        <4>3. CASE pc = "chunk"
          BY <3>1, <4>3, StreamedOnly DEF WireInv, KindInv
        <4>4. CASE pc = "report"
          BY <4>4 DEF EndInv
        <4> QED
          BY <2>6, <4>1, <4>2, <4>3, <4>4 DEF TypeOK
      <3> QED
        BY <2>1, <3>2
    <2> QED
      BY <2>5, <2>6
  <1> QED
    BY <1>1, Invariance, PTL

-------------------------------------------------------------------------------
(* Progress, as far as it can be said without fairness *)

\* How many steps the handler has left at most: a chunk costs two.
StepsLeft ==
    CASE pc = "receive"    -> 2 * MaxItems + 7
      [] pc = "decide"     -> 2 * req.items + 6
      [] pc = "synthesize" -> 2 * (req.items - Len(results)) + 5
      [] pc = "chunk"      -> 2 * (req.items - Len(results)) + 6
      [] pc \in {"answer", "refuse"} -> 3
      [] pc = "report"     -> 2
      [] pc = "close"      -> 1
      [] OTHER             -> 0

LEMMA StepCounts ==
    ASSUME IInv, Handle
    PROVE  StepsLeft' < StepsLeft
  <1>1. MaxItems \in Nat
    BY ItemsAssumption
  <1>2. /\ req.items \in Nat /\ Len(results) \in Nat /\ Len(results) <= req.items
        /\ results \in Seq(BOOLEAN)
        /\ pc = "decide" => results = <<>>
    BY <1>1 DEF IInv, TypeOK, KindInv, Requests, NoRequest
  <1>3. ASSUME NEW r \in Requests, Receive(r) PROVE StepsLeft' < StepsLeft
    <2>1. r.items \in 0..MaxItems
      BY <1>1 DEF Requests
    <2>2. /\ pc = "receive" /\ req' = r /\ pc' \in {"report", "close", "decide"}
      BY <1>3 DEF Receive, Raise
    <2> QED
      BY <1>1, <2>1, <2>2 DEF StepsLeft
  <1>4. CASE Decide
    <2>1. /\ pc = "decide" /\ pc' \in {"refuse", "answer", "synthesize"}
          /\ req' = req /\ results' = <<>>
      BY <1>2, <1>4 DEF Decide
    <2> QED
      BY <1>2, <2>1 DEF StepsLeft
  <1>5. ASSUME NEW ok \in BOOLEAN, SynthesizeItem(ok) PROVE StepsLeft' < StepsLeft
    <2>1. /\ pc = "synthesize" /\ pc' \in {"chunk", "synthesize"} /\ req' = req
          /\ results' = Append(results, ok) /\ Len(results) < req.items
      BY <1>5 DEF SynthesizeItem
    <2>2. Len(results') = Len(results) + 1
      BY <1>2, <2>1
    <2> QED
      BY <1>2, <2>1, <2>2 DEF StepsLeft
  <1>6. CASE SendChunk
    <2>1. /\ pc = "chunk" /\ pc' \in {"synthesize", "report"}
          /\ req' = req /\ results' = results
      BY <1>6 DEF SendChunk, Raise
    <2> QED
      BY <1>2, <2>1 DEF StepsLeft
  <1>7. CASE EndOfBatch \/ \E ok \in BOOLEAN : Synthesize(ok)
    <2>1. pc = "synthesize" /\ pc' \in {"answer", "report"}
      BY <1>7 DEF EndOfBatch, Synthesize, Raise
    <2> QED
      BY <1>2, <2>1 DEF StepsLeft
  <1>8. CASE Refuse \/ Answer \/ Report \/ Close
    <2>1. \/ pc \in {"refuse", "answer"} /\ pc' \in {"close", "report"}
          \/ pc = "report" /\ pc' = "close"
          \/ pc = "close" /\ pc' = "done"
      BY <1>8 DEF Refuse, Answer, Report, Close, Raise
    <2> QED
      BY <2>1 DEF StepsLeft
  <1> QED
    BY <1>3, <1>4, <1>5, <1>6, <1>7, <1>8 DEF Handle

(* A connection is over after at most 2 * MaxItems + 7 steps of its handler,  *)
(* whatever is requested and whichever sends and syntheses fail: each step    *)
(* leaves fewer, and none is left only at the end.                            *)
THEOREM SessionsAreBounded ==
    Safety => /\ [](StepsLeft \in 0..(2 * MaxItems + 7) /\ (StepsLeft = 0 <=> pc = "done"))
              /\ [][StepsLeft' < StepsLeft]_vars
  <1>1. ASSUME IInv
        PROVE  StepsLeft \in 0..(2 * MaxItems + 7) /\ (StepsLeft = 0 <=> pc = "done")
    <2>1. MaxItems \in Nat
      BY ItemsAssumption
    <2>2. /\ req.items \in 0..MaxItems /\ Len(results) \in 0..req.items
          /\ pc \in {"receive", "decide", "refuse", "synthesize", "chunk", "answer",
                     "report", "close", "done"}
      BY <1>1, <2>1 DEF IInv, TypeOK, KindInv, Requests, NoRequest
    <2> DEFINE m == MaxItems
               n == req.items
               k == Len(results)
    <2>3. /\ m \in Nat /\ n \in 0..m /\ k \in 0..n
          /\ n - k \in 0..m
      BY <2>1, <2>2
    <2>4. StepsLeft = CASE pc = "receive"    -> 2 * m + 7
                        [] pc = "decide"     -> 2 * n + 6
                        [] pc = "synthesize" -> 2 * (n - k) + 5
                        [] pc = "chunk"      -> 2 * (n - k) + 6
                        [] pc \in {"answer", "refuse"} -> 3
                        [] pc = "report"     -> 2
                        [] pc = "close"      -> 1
                        [] OTHER             -> 0
      BY DEF StepsLeft
    <2> HIDE DEF m, n, k
    <2>5. 2 * m + 7 \in Nat /\ 2 * n + 6 \in 1..(2 * m + 7)
          /\ 2 * (n - k) + 5 \in 1..(2 * m + 7) /\ 2 * (n - k) + 6 \in 1..(2 * m + 7)
          /\ 2 * m + 7 >= 3
      BY <2>3
    <2>6. StepsLeft \in 0..(2 * m + 7) /\ (StepsLeft = 0 <=> pc = "done")
      BY <2>2, <2>4, <2>5
    <2> QED
      BY <2>6 DEF m
  <1>2. IInv => StepsLeft \in 0..(2 * MaxItems + 7) /\ (StepsLeft = 0 <=> pc = "done")
    BY <1>1
  <1>3. IInv /\ [Next]_vars => [StepsLeft' < StepsLeft]_vars
    BY StepCounts DEF Next, Done
  <1> QED
    BY <1>2, <1>3, Invariance, PTL DEF Safety
===============================================================================
