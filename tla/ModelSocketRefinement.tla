------------------------ MODULE ModelSocketRefinement -------------------------
(***************************************************************************)
(* ModelSocket implements SpeechCalls: every result RemoteEngine reports is *)
(* accounted for by what relay answered to that very call.                  *)
(***************************************************************************)
EXTENDS ModelSocketProofs

\* Posts of c whose busy answer its thread has consumed.
HeardBusy(c) ==
    {n \in 1..MaxPosts : \E h \in heard[c] : h.to[2] = n /\ h.v = "busy"}

\* Relay answers a post once, after it was made.
SaidInv ==
    \A c \in Calls : \A s \in said[c] :
        /\ s[1] <= posted[c]
        /\ pending # <<>> /\ lock = c => s[1] < posted[c]

\* Every attempt begun after the first was paid for with a busy answer.
AskedInv ==
    \A c \in Calls : pc[c] # "done" => Cardinality(HeardBusy(c)) >= attempt[c]

RInv == IInv /\ SaidInv /\ AskedInv

LEMMA HeardBusyFinite ==
    ASSUME NEW c \in Calls
    PROVE  /\ IsFiniteSet(HeardBusy(c))
           /\ Cardinality(HeardBusy(c)) \in Nat
  <1>1. HeardBusy(c) \subseteq 1..MaxPosts
    BY DEF HeardBusy
  <1>2. IsFiniteSet(1..MaxPosts)
    BY FS_Interval, Limits
  <1> QED
    BY <1>1, <1>2, FS_Subset, FS_CardinalityType

\* The busy answer about to be consumed is a new one.
LEMMA OneMoreBusy ==
    ASSUME IInv, NEW c \in Calls, pc[c] = "recv"
    PROVE  Cardinality(HeardBusy(c) \cup {posted[c]})
             = Cardinality(HeardBusy(c)) + 1
  <1>1. posted[c] \notin HeardBusy(c)
    <2> SUFFICES ASSUME NEW h \in heard[c], h.to[2] = posted[c]
                 PROVE  FALSE
      BY DEF HeardBusy
    <2>1. HeardOK(c, h) /\ posted[c] \in Nat
      BY Limits DEF IInv, HeardInv, TypeOK
    <2> QED
      BY <2>1 DEF HeardOK
  <1> QED
    BY <1>1, HeardBusyFinite, FS_AddElement

LEMMA HeardBusyKept ==
    ASSUME heard' = heard
    PROVE  \A d \in Calls : HeardBusy(d)' = HeardBusy(d)
  BY DEF HeardBusy

-------------------------------------------------------------------------------
LEMMA InitRInv == Init => RInv
  <1> SUFFICES ASSUME Init PROVE RInv
    OBVIOUS
  <1>1. SaidInv
    BY DEF Init, SaidInv
  <1>2. AskedInv
    BY HeardBusyFinite DEF Init, AskedInv
  <1> QED
    BY <1>1, <1>2, InitInv DEF RInv

\* Steps after which everything SaidInv speaks of is as it was, or dropped.
LEMMA SaidKept ==
    ASSUME SaidInv, said' = said, posted' = posted,
           pending' = <<>> \/ (pending' = pending /\ lock' = lock)
    PROVE  SaidInv'
  BY DEF SaidInv

\* Steps in which no thread hears or begins another attempt.
LEMMA AskedKept ==
    ASSUME AskedInv, heard' = heard, attempt' = attempt,
           \A d \in Calls : pc'[d] # "done" => pc[d] # "done"
    PROVE  AskedInv'
  BY HeardBusyKept DEF AskedInv

\* What consuming the reply on the connection adds to what was heard.
LEMMA HearBusy ==
    ASSUME IInv, NEW c \in Calls, pc[c] = "recv", inbox # <<>>, Hear(c)
    PROVE  /\ \A d \in Calls : d # c => HeardBusy(d)' = HeardBusy(d)
           /\ inbox[1].v = "busy" =>
                 HeardBusy(c)' = HeardBusy(c) \cup {posted[c]}
  <1> DEFINE r == [to |-> inbox[1].to, at |-> posted[c], v |-> inbox[1].v]
  <1>1. /\ Head(inbox) = inbox[1] /\ inbox[1] \in Replies
        /\ inbox[1].to = <<c, posted[c]>>
    BY OwnReply
  <1>2. heard' = [heard EXCEPT ![c] = @ \cup {r}]
    BY <1>1 DEF Hear
  <1>3. \A d \in Calls : d # c => heard'[d] = heard[d]
    BY <1>2 DEF IInv, TypeOK
  <1>4. heard'[c] = heard[c] \cup {r}
    BY <1>2 DEF IInv, TypeOK
  <1>5. r.to[2] = posted[c] /\ r.v = inbox[1].v /\ posted[c] \in 1..MaxPosts
    BY <1>1 DEF Replies, Tags
  <1> HIDE DEF r
  <1>6. ASSUME inbox[1].v = "busy"
        PROVE  HeardBusy(c)' = HeardBusy(c) \cup {posted[c]}
    <2>1. HeardBusy(c)' = {n \in 1..MaxPosts :
             \E h \in heard[c] \cup {r} : h.to[2] = n /\ h.v = "busy"}
      BY <1>4 DEF HeardBusy
    <2> QED
      BY <1>5, <1>6, <2>1 DEF HeardBusy
  <1> QED
    BY <1>3, <1>6 DEF HeardBusy

LEMMA CallStepRInv ==
    ASSUME RInv, NEW c \in Calls, Begin(c) \/ Step(c)
    PROVE  SaidInv' /\ AskedInv'
  <1> USE DEF RInv
  <1>1. CASE Begin(c) \/ Wake(c)
    <2>1. /\ UNCHANGED <<said, posted, pending, lock, heard, attempt>>
          /\ \A d \in Calls : pc'[d] # "done" => pc[d] # "done"
      BY <1>1 DEF Begin, Wake, connVars, history, IInv, TypeOK
    <2> QED
      BY <2>1, SaidKept, AskedKept
  <1>2. CASE Acquire(c)
    <2>1. pending = <<>>
      BY <1>2, CallsAssumption DEF Acquire, IInv, PendingInv
    <2>2. /\ UNCHANGED <<said, posted, pending, heard, attempt>>
          /\ \A d \in Calls : pc'[d] # "done" => pc[d] # "done"
      BY <1>2 DEF Acquire, connVars, IInv, TypeOK
    <2> QED
      BY <2>1, <2>2, SaidKept, AskedKept
  <1>3. CASE Send(c)
    <2>1. /\ UNCHANGED <<said, lock, heard, attempt>> /\ lock = c
          /\ \A d \in Calls : pc'[d] # "done" => pc[d] # "done"
          /\ \A d \in Calls : d # c => posted'[d] = posted[d]
          /\ posted'[c] = posted[c] + 1 /\ posted[c] \in Nat
      BY <1>3, Exclusive, Limits DEF Send, IInv, TypeOK
    <2>2. SaidInv'
      <3> SUFFICES ASSUME NEW d \in Calls, NEW s \in said'[d]
                   PROVE  SaidInv!(d)!(s)'
        BY DEF SaidInv
      <3>1. s[1] <= posted[d] /\ s[1] \in Nat
        BY <2>1, Limits DEF SaidInv, IInv, TypeOK
      <3> QED
        BY <2>1, <3>1
    <2> QED
      BY <2>1, <2>2, AskedKept
  <1>4. CASE SendFails(c) \/ RecvFails(c)
    <2>1. /\ UNCHANGED <<said, posted, heard, attempt>> /\ pending' = <<>>
          /\ \A d \in Calls : pc'[d] # "done" => pc[d] # "done"
      BY <1>4 DEF SendFails, RecvFails, FailedTry, DropConnection, Finish,
                  history, IInv, TypeOK
    <2> QED
      BY <2>1, SaidKept, AskedKept
  <1>5. CASE SendRefused(c)
    <2>1. pending = <<>>
      BY <1>5, Exclusive DEF SendRefused, IInv, PendingInv
    <2>2. /\ UNCHANGED <<said, posted, pending, heard, attempt>>
          /\ \A d \in Calls : pc'[d] # "done" => pc[d] # "done"
      BY <1>5 DEF SendRefused, Finish, connVars, history, IInv, TypeOK
    <2> QED
      BY <2>1, <2>2, SaidKept, AskedKept
  <1>6. CASE RecvBroken(c)
    <2>1. /\ pending = <<>> /\ pending' = pending
          /\ UNCHANGED <<said, posted, attempt>>
      BY <1>6, OwnReply DEF RecvBroken
    <2>2. /\ pc'[c] = "done"
          /\ \A d \in Calls : d # c => pc'[d] = pc[d]
      BY <1>6 DEF RecvBroken, Finish, IInv, TypeOK
    <2>3. \A d \in Calls : d # c => HeardBusy(d)' = HeardBusy(d)
      BY <1>6, HearBusy DEF RecvBroken
    <2> QED
      BY <2>1, <2>2, <2>3, SaidKept DEF AskedInv
  <1>7. CASE RecvReply(c)
    <2>1. pc[c] = "recv" /\ inbox # <<>> /\ Hear(c) /\ Head(inbox) = inbox[1]
      BY <1>7, OwnReply DEF RecvReply
    <2>2. pending' = <<>> /\ UNCHANGED <<said, posted>>
      BY <1>7, OwnReply DEF RecvReply, DropConnection
    <2>3. /\ \A d \in Calls : d # c => pc'[d] = pc[d] /\ attempt'[d] = attempt[d]
          /\ \/ pc'[c] = "done"
             \/ inbox[1].v = "busy" /\ attempt'[c] = attempt[c] + 1
      BY <1>7, <2>1 DEF RecvReply, Judge, AskAgain, Finish, IInv, TypeOK
    <2>4. AskedInv'
      <3> SUFFICES ASSUME NEW d \in Calls, pc'[d] # "done"
                   PROVE  Cardinality(HeardBusy(d)') >= attempt'[d]
        BY DEF AskedInv
      <3>1. CASE d # c
        BY <2>1, <2>3, <3>1, HearBusy DEF AskedInv
      <3>2. CASE d = c
        <4>1. Cardinality(HeardBusy(c)') = Cardinality(HeardBusy(c)) + 1
          BY <2>1, <2>3, <3>2, HearBusy, OneMoreBusy
        <4>2. /\ Cardinality(HeardBusy(c)) >= attempt[c]
              /\ Cardinality(HeardBusy(c)) \in Nat /\ attempt[c] \in Nat
          BY <2>1, HeardBusyFinite, Limits DEF AskedInv, IInv, TypeOK
        <4> QED
          BY <2>3, <3>2, <4>1, <4>2
      <3> QED
        BY <3>1, <3>2
    <2> QED
      BY <2>2, <2>4, SaidKept
  <1> QED
    BY <1>1, <1>2, <1>3, <1>4, <1>5, <1>6, <1>7 DEF Step

\* Relay answers the request of the thread that holds the lock.
LEMMA ServedPost ==
    ASSUME IInv, NEW v \in Verdicts, NEW last \in BOOLEAN, Serve(v, last)
    PROVE  /\ lock \in Calls /\ pc[lock] = "recv" /\ pending' = <<>>
           /\ posted[lock] \in 1..MaxPosts
           /\ said' = [said EXCEPT ![lock] = @ \cup {<<posted[lock], v>>}]
  <1>1. pending \in Seq(Tags) /\ Len(pending) = 1
    BY DEF IInv, TypeOK, PendingInv, Serve
  <1>2. /\ lock \in Calls /\ pc[lock] = "recv"
        /\ Head(pending) = <<lock, posted[lock]>> /\ Tail(pending) = <<>>
        /\ <<lock, posted[lock]>> \in Tags
    BY <1>1, Singleton DEF IInv, PendingInv, Serve
  <1>3. Head(pending)[1] = lock /\ Head(pending)[2] = posted[lock]
    BY <1>2
  <1>4. /\ said' = [said EXCEPT ![Head(pending)[1]] =
                                @ \cup {<<Head(pending)[2], v>>}]
        /\ pending' = Tail(pending)
    BY DEF Serve
  <1>5. posted[lock] \in 1..MaxPosts
    BY <1>2 DEF Tags
  <1> QED
    BY <1>2, <1>3, <1>4, <1>5

LEMMA NextRInv == RInv /\ [Next]_vars => RInv'
  <1> SUFFICES ASSUME RInv, [Next]_vars PROVE RInv'
    OBVIOUS
  <1>1. IInv'
    BY NextInv DEF RInv
  <1>2. ASSUME NEW c \in Calls, Begin(c) \/ Step(c)
        PROVE  SaidInv' /\ AskedInv'
    BY <1>2, CallStepRInv
  <1>3. ASSUME NEW v \in Verdicts, NEW last \in BOOLEAN, Serve(v, last)
        PROVE  SaidInv' /\ AskedInv'
    <2>1. /\ UNCHANGED <<posted, lock, heard, attempt, pc>>
          /\ pending # <<>>
      BY <1>3 DEF Serve, threadVars
    <2>2. SaidInv'
      <3> SUFFICES ASSUME NEW d \in Calls, NEW s \in said'[d]
                   PROVE  s[1] <= posted[d]
        BY <1>3, <2>1, ServedPost DEF SaidInv, RInv
      <3>1. CASE s \in said[d]
        BY <3>1 DEF SaidInv, RInv
      <3>2. CASE s \notin said[d]
        <4>1. d = lock /\ s = <<posted[lock], v>> /\ posted[lock] \in 1..MaxPosts
          BY <1>3, <3>2, ServedPost DEF RInv, IInv, TypeOK
        <4> QED
          BY <4>1, Limits
      <3> QED
        BY <3>1, <3>2
    <2> QED
      BY <2>1, <2>2, AskedKept DEF RInv
  <1>4. CASE PeerClose
    <2>1. /\ UNCHANGED <<posted, said, heard, attempt, pc>>
          /\ pending' = <<>>
      BY <1>4 DEF PeerClose, threadVars, history
    <2>2. SaidInv'
      BY <2>1, SaidKept DEF RInv
    <2>3. AskedInv'
      BY <2>1, AskedKept DEF RInv
    <2> QED
      BY <1>1, <2>2, <2>3 DEF RInv
  <1>5. CASE UNCHANGED vars
    <2>1. UNCHANGED <<posted, said, heard, attempt, pc, pending, lock>>
      BY <1>5 DEF vars, connVars, threadVars, history
    <2>2. SaidInv'
      BY <2>1, SaidKept DEF RInv
    <2>3. AskedInv'
      BY <2>1, AskedKept DEF RInv
    <2> QED
      BY <1>1, <2>2, <2>3 DEF RInv
  <1> QED
    BY <1>1, <1>2, <1>3, <1>4, <1>5 DEF Next, Relay, AllDone, RInv
-------------------------------------------------------------------------------
(* Every step is a step of SpeechCalls, or leaves its variables alone *)

AbsUnchanged == UNCHANGED Abstract!vars

\* The abstract variables depend on pc, outcome and said alone.
LEMMA AbsKept ==
    ASSUME said' = said,
           \A d \in Calls : Phase(d)' = Phase(d) /\ Result(d)' = Result(d)
    PROVE  AbsUnchanged
  BY DEF AbsUnchanged, Abstract!vars

\* A thread that ends with a result its answers justify is Finish.
LEMMA AbsFinish ==
    ASSUME RInv, NEW c \in Calls, pc[c] \in {"send", "recv"}, said' = said,
           NEW o \in Outcomes \ {"none"}, Finish(c, o),
           NEW r, r = IF o \in {"unreachable", "escaped"} THEN "failed" ELSE o,
           Abstract!Justified(said[c], r)
    PROVE  Abstract!Next
  <1>1. Phase(c) = "running" /\ Phase(c)' = "done" /\ Result(c)' = r
    BY DEF Phase, Result, Finish, RInv, IInv, TypeOK
  <1>2. \A d \in Calls : d # c =>
          Phase(d)' = Phase(d) /\ Result(d)' = Result(d)
    BY DEF Phase, Result, Finish, RInv, IInv, TypeOK
  <1>3. r \in Abstract!Results \ {"none"}
    BY DEF Abstract!Results, Outcomes
  <1>4. Abstract!Finish(c, r)
    BY <1>1, <1>2 DEF Abstract!Finish
  <1> QED
    BY <1>3, <1>4 DEF Abstract!Next

\* The cardinality of the instance of FiniteSets inside SpeechCalls.
LEMMA SameCardinality ==
    ASSUME NEW S
    PROVE  Abstract!Cardinality(S) = Cardinality(S)
  BY Zenon DEF Abstract!Cardinality, Cardinality,
               Abstract!IsFiniteSet, IsFiniteSet

\* The end of RecvReply: relay's own verdict, as often as it takes.
LEMMA ReplyJustified ==
    ASSUME RInv, NEW c \in Calls, RecvReply(c), ~AskAgain(c, inbox[1].v),
           NEW r, r = IF inbox[1].v = "ok" THEN "audio" ELSE inbox[1].v
    PROVE  Abstract!Justified(said[c], r)
  <1>1. /\ pc[c] = "recv" /\ inbox # <<>> /\ Hear(c)
        /\ inbox[1].v \in Whole /\ inbox[1].to = <<c, posted[c]>>
        /\ inbox[1].to \in Tags
        /\ <<posted[c], inbox[1].v>> \in said[c]
    BY OwnReply DEF RecvReply, RInv, Replies
  <1>2. posted[c] \in 1..MaxPosts
    BY <1>1 DEF Tags
  <1>3. r = "audio" => \E n \in 1..MaxPosts : <<n, "ok">> \in said[c]
    BY <1>1, <1>2 DEF Whole
  <1>4. r = "refused" => \E n \in 1..MaxPosts : <<n, "refused">> \in said[c]
    BY <1>1, <1>2 DEF Whole
  <1>5. ASSUME r = "busy"
        PROVE  Cardinality(Abstract!BusyPosts(said[c])) >= MaxAttempts
    <2>1. inbox[1].v = "busy" /\ attempt[c] + 1 >= MaxAttempts
      BY <1>1, <1>5, Limits DEF Whole, AskAgain, RInv, IInv, TypeOK
    <2>2. HeardBusy(c) \cup {posted[c]} \subseteq Abstract!BusyPosts(said[c])
      <3>1. ASSUME NEW n \in HeardBusy(c)
            PROVE  <<n, "busy">> \in said[c]
        BY DEF HeardBusy, RInv, IInv, HeardInv, HeardOK
      <3>2. HeardBusy(c) \subseteq 1..MaxPosts
        BY DEF HeardBusy
      <3> QED
        BY <1>1, <1>2, <2>1, <3>1, <3>2 DEF Abstract!BusyPosts
    <2>3. IsFiniteSet(Abstract!BusyPosts(said[c]))
      <3>1. Abstract!BusyPosts(said[c]) \subseteq 1..MaxPosts
        BY DEF Abstract!BusyPosts
      <3> QED
        BY <3>1, FS_Interval, FS_Subset, Limits
    <2>4. /\ Cardinality(HeardBusy(c) \cup {posted[c]})
                <= Cardinality(Abstract!BusyPosts(said[c]))
          /\ Cardinality(Abstract!BusyPosts(said[c])) \in Nat
      BY <2>2, <2>3, FS_Subset, FS_CardinalityType
    <2>5. /\ Cardinality(HeardBusy(c) \cup {posted[c]})
               = Cardinality(HeardBusy(c)) + 1
          /\ Cardinality(HeardBusy(c)) \in Nat
          /\ Cardinality(HeardBusy(c)) >= attempt[c]
      BY <1>1, OneMoreBusy, HeardBusyFinite DEF RInv, AskedInv
    <2>6. attempt[c] \in Nat
      BY Limits DEF RInv, IInv, TypeOK
    <2>7. Cardinality(HeardBusy(c)) + 1 >= MaxAttempts
      BY <2>1, <2>5, <2>6, Limits
    <2> QED
      BY <2>4, <2>5, <2>7, Limits
  <1> QED
    BY <1>3, <1>4, <1>5, SameCardinality DEF Abstract!Justified

LEMMA AbsCallStep ==
    ASSUME RInv, NEW c \in Calls, Begin(c) \/ Step(c)
    PROVE  Abstract!Next \/ AbsUnchanged
  <1> USE DEF RInv
  <1>1. CASE Begin(c)
    <2>1. /\ Phase(c) = "idle" /\ Phase(c)' = "running" /\ said' = said
          /\ \A d \in Calls : d # c => Phase(d)' = Phase(d)
          /\ \A d \in Calls : Result(d)' = Result(d)
      BY <1>1 DEF Begin, Phase, Result, history, IInv, TypeOK
    <2>2. Abstract!Start(c)
      BY <2>1 DEF Abstract!Start
    <2> QED
      BY <2>2 DEF Abstract!Next
  <1>2. CASE Wake(c) \/ Acquire(c) \/ Send(c)
    <2>1. /\ said' = said
          /\ \A d \in Calls : Phase(d)' = Phase(d) /\ Result(d)' = Result(d)
      BY <1>2 DEF Wake, Acquire, Send, Phase, Result, history, IInv, TypeOK
    <2> QED
      BY <2>1, AbsKept
  <1>3. CASE SendFails(c) \/ RecvFails(c)
    <2>1. /\ said' = said /\ FailedTry(c) /\ pc[c] \in {"send", "recv"}
      BY <1>3 DEF SendFails, RecvFails, history
    <2>2. CASE MoreTries(c)
      <3>1. \A d \in Calls : Phase(d)' = Phase(d) /\ Result(d)' = Result(d)
        BY <2>1, <2>2 DEF FailedTry, Phase, Result, IInv, TypeOK
      <3> QED
        BY <2>1, <3>1, AbsKept
    <2>3. CASE ~MoreTries(c)
      <3>1. Finish(c, "unreachable")
        BY <2>1, <2>3 DEF FailedTry
      <3> QED
        BY <2>1, <3>1, AbsFinish DEF Outcomes, Abstract!Justified
    <2> QED
      BY <2>2, <2>3
  <1>4. CASE SendRefused(c) \/ RecvBroken(c)
    BY <1>4, AbsFinish
       DEF SendRefused, RecvBroken, history, Outcomes, Abstract!Justified
  <1>5. CASE RecvReply(c)
    <2> DEFINE v == inbox[1].v
    <2>1. /\ pc[c] = "recv" /\ Judge(c, v) /\ v \in Whole /\ said' = said
      BY <1>5, OwnReply DEF RecvReply
    <2> HIDE DEF v
    <2>2. CASE AskAgain(c, v)
      <3>1. \A d \in Calls : Phase(d)' = Phase(d) /\ Result(d)' = Result(d)
        BY <2>1, <2>2 DEF Judge, Phase, Result, IInv, TypeOK
      <3> QED
        BY <2>1, <3>1, AbsKept
    <2>3. CASE ~AskAgain(c, v)
      <3> DEFINE o == IF v = "ok" THEN "audio" ELSE v
      <3>1. Finish(c, o)
        BY <2>1, <2>3 DEF Judge
      <3>2. Abstract!Justified(said[c], o)
        BY <1>5, <2>3, ReplyJustified DEF v
      <3>3. o \in {"audio", "busy", "refused"}
        BY <2>1 DEF Whole
      <3> HIDE DEF o
      <3> QED
        BY <2>1, <3>1, <3>2, <3>3, AbsFinish DEF Outcomes
    <2> QED
      BY <2>2, <2>3
  <1> QED
    BY <1>1, <1>2, <1>3, <1>4, <1>5 DEF Step

LEMMA AbsNext == RInv /\ [Next]_vars => [Abstract!Next]_(Abstract!vars)
  <1> SUFFICES ASSUME RInv, [Next]_vars
               PROVE  Abstract!Next \/ AbsUnchanged
    BY DEF AbsUnchanged
  <1>1. ASSUME NEW c \in Calls, Begin(c) \/ Step(c)
        PROVE  Abstract!Next \/ AbsUnchanged
    BY <1>1, AbsCallStep
  <1>2. ASSUME NEW v \in Verdicts, NEW last \in BOOLEAN, Serve(v, last)
        PROVE  Abstract!Next
    <2> DEFINE n == posted[lock]
    <2>1. /\ lock \in Calls /\ pc[lock] = "recv" /\ n \in 1..MaxPosts
          /\ said' = [said EXCEPT ![lock] = @ \cup {<<n, v>>}]
      BY <1>2, ServedPost DEF RInv
    <2>2. \A w \in Verdicts : <<n, w>> \notin said[lock]
      BY <1>2, <2>1, Limits DEF Serve, RInv, SaidInv
    <2>3. Phase(lock) = "running"
      BY <2>1 DEF Phase
    <2>4. \A d \in Calls : Phase(d)' = Phase(d) /\ Result(d)' = Result(d)
      BY <1>2 DEF Serve, threadVars, Phase, Result
    <2> HIDE DEF n
    <2>5. Abstract!Say(lock, n, v)
      BY <2>1, <2>2, <2>3, <2>4 DEF Abstract!Say, Abstract!Verdicts, Verdicts,
         Whole, Broken
    <2> QED
      BY <2>1, <2>5 DEF Abstract!Next, Abstract!Verdicts, Verdicts, Whole, Broken
  <1>3. CASE PeerClose \/ UNCHANGED vars
    <2>1. UNCHANGED <<pc, outcome, said>>
      BY <1>3 DEF PeerClose, vars, threadVars, history
    <2>2. \A d \in Calls : Phase(d)' = Phase(d) /\ Result(d)' = Result(d)
      BY <2>1 DEF Phase, Result
    <2> QED
      BY <2>1, <2>2, AbsKept
  <1> QED
    BY <1>1, <1>2, <1>3 DEF Next, Relay, AllDone

(* RemoteEngine keeps the promise of SpeechCalls: audio, a refusal or a busy *)
(* report is always backed by relay's answers to that call's own requests,   *)
(* whatever the interleaving of threads, drops, late answers and retries.    *)
THEOREM Refinement == Safety => Abstract!Safety
  <1>1. Init => RInv
    BY InitRInv
  <1>2. RInv /\ [Next]_vars => RInv'
    BY NextRInv
  <1>3. Init => Abstract!Init
    BY DEF Init, Abstract!Init, Phase, Result
  <1>4. RInv /\ [Next]_vars => [Abstract!Next]_(Abstract!vars)
    BY AbsNext
  <1> QED
    BY <1>1, <1>2, <1>3, <1>4, PTL DEF Safety, Abstract!Safety
===============================================================================
