-------------------------- MODULE ModelSocketProofs ---------------------------
(***************************************************************************)
(* Theorems about ModelSocket, for any finite set of calls and any limits. *)
(* IInv is inductive; the invariants the runs check follow from it.         *)
(***************************************************************************)
EXTENDS ModelSocket, FiniteSetTheorems, SequenceTheorems, TLAPS

-------------------------------------------------------------------------------
(* The inductive invariant, in named parts *)

\* The thread inside open() is the one that owns the lock.
LockInv == \A c \in Calls : lock = c <=> pc[c] \in {"send", "recv"}

\* A request nobody has answered belongs to a thread that waits for it.
PendingInv ==
    pending # <<>> =>
        /\ lock \in Calls /\ pc[lock] = "recv"
        /\ Len(pending) = 1 /\ pending[1] = <<lock, posted[lock]>>
        /\ inbox = <<>>

\* A reply that waits was given by relay; a reader finds only its own.
InboxInv ==
    inbox # <<>> =>
        /\ Len(inbox) = 1 /\ pending = <<>>
        /\ <<inbox[1].to[2], inbox[1].v>> \in said[inbox[1].to[1]]
        /\ lock \in Calls /\ pc[lock] = "recv" =>
              inbox[1].to = <<lock, posted[lock]>>

IdleInv == http = "idle" => pending = <<>> /\ inbox = <<>>

\* Posts used up by the attempts and tries so far.
BudgetInv ==
    \A c \in Calls :
        /\ pc[c] \in {"idle", "acquire", "backoff"} =>
              posted[c] <= attempt[c] * Tries
        /\ pc[c] = "send" => posted[c] <= attempt[c] * Tries + try[c]
        /\ pc[c] = "recv" => posted[c] <= attempt[c] * Tries + try[c] + 1
        /\ posted[c] <= attempt[c] * Tries + Tries

\* What a thread has heard is its own, and older than what it waits for.
HeardOK(c, h) ==
    /\ h.to = <<c, h.at>>
    /\ <<h.to[2], h.v>> \in said[c]
    /\ h.to[2] <= posted[c]
    /\ pc[c] = "recv" => h.to[2] < posted[c]
    /\ pc[c] # "done" => h.v = "busy"
    /\ h.to[2] < posted[c] => h.v = "busy"

HeardInv == \A c \in Calls : \A h \in heard[c] : HeardOK(c, h)

\* A second try runs on a connection this open() dials.
DialInv ==
    \A c \in Calls :
        /\ pc[c] = "send" /\ try[c] > 0 => sock = "none"
        /\ pc[c] = "recv" /\ try[c] > 0 => dialled[c]
        /\ outcome[c] # "none" <=> pc[c] = "done"
        /\ outcome[c] = "unreachable" => dialled[c]

IInv == /\ TypeOK /\ LockInv /\ PendingInv /\ InboxInv /\ IdleInv
        /\ BudgetInv /\ HeardInv /\ DialInv

-------------------------------------------------------------------------------
(* Arithmetic of the retry budget *)

\* An attempt's share of the posts fits below the bound of the whole call.
LEMMA BudgetFits ==
    ASSUME NEW a \in 0..(MaxAttempts - 1)
    PROVE  /\ a * Tries \in Nat
           /\ (a + 1) * Tries = a * Tries + Tries
           /\ a * Tries + Tries <= MaxPosts
           /\ MaxPosts \in Nat
  <1>1. /\ MaxAttempts \in Nat /\ MaxAttempts >= 1
        /\ Tries \in Nat /\ Tries >= 2 /\ a \in Nat /\ a + 1 <= MaxAttempts
    BY LimitAssumption
  <1>2. a * Tries \in Nat /\ MaxAttempts * Tries \in Nat
    BY <1>1
  <1>3. (a + 1) * Tries = a * Tries + Tries
    BY <1>1
  <1>4. PICK d \in Nat : MaxAttempts = (a + 1) + d
    <2>1. MaxAttempts - (a + 1) \in Nat
      BY <1>1
    <2> QED BY <2>1, <1>1
  <1>5. MaxAttempts * Tries = (a + 1) * Tries + d * Tries
    BY <1>1, <1>4
  <1>6. d * Tries \in Nat
    BY <1>1
  <1> QED
    BY <1>1, <1>2, <1>3, <1>5, <1>6 DEF MaxPosts

\* Constants the provers keep asking about.
LEMMA Limits ==
    /\ MaxAttempts \in Nat /\ MaxAttempts >= 1
    /\ Tries \in Nat /\ Tries >= 2
    /\ MaxPosts \in Nat
  <1>1. 0 \in 0..(MaxAttempts - 1)
    BY LimitAssumption
  <1> QED
    BY <1>1, BudgetFits, LimitAssumption

\* Whoever is still asking has at least one post left.
LEMMA RoomToPost ==
    ASSUME TypeOK, BudgetInv, NEW c \in Calls, pc[c] = "send"
    PROVE  posted[c] + 1 \in 1..MaxPosts
  <1>1. attempt[c] \in 0..(MaxAttempts - 1) /\ try[c] \in 0..(Tries - 1)
    BY DEF TypeOK
  <1>2. posted[c] \in 0..MaxPosts
    BY DEF TypeOK
  <1>3. posted[c] <= attempt[c] * Tries + try[c]
    BY DEF BudgetInv
  <1>4. attempt[c] * Tries \in Nat /\ attempt[c] * Tries + Tries <= MaxPosts
    BY <1>1, BudgetFits
  <1> QED
    BY <1>1, <1>2, <1>3, <1>4, Limits
-------------------------------------------------------------------------------
(* Facts the step lemmas share *)

\* The thread inside open() holds the lock, and no other thread is inside.
LEMMA Exclusive ==
    ASSUME LockInv, NEW c \in Calls, pc[c] \in {"send", "recv"}
    PROVE  /\ lock = c
           /\ \A d \in Calls : d # c => pc[d] \notin {"send", "recv"}
  BY DEF LockInv

\* The one element of a sequence of one element.
LEMMA Singleton ==
    ASSUME NEW S, NEW s \in Seq(S), Len(s) = 1
    PROVE  /\ s[1] \in S /\ Head(s) = s[1]
           /\ Tail(s) \in Seq(S) /\ Tail(s) = <<>>
  <1>1. Tail(s) \in Seq(S) /\ Len(Tail(s)) = 0
    OBVIOUS
  <1>2. Tail(s) = <<>>
    BY <1>1, EmptySeq
  <1>3. s[1] \in S /\ Head(s) = s[1]
    OBVIOUS
  <1> QED
    BY <1>1, <1>2, <1>3

\* What the reader of the connection finds is the answer to its latest post.
LEMMA OwnReply ==
    ASSUME IInv, NEW c \in Calls, pc[c] = "recv", inbox # <<>>
    PROVE  /\ Head(inbox) = inbox[1] /\ Tail(inbox) = <<>>
           /\ pending = <<>>
           /\ inbox[1] \in Replies
           /\ inbox[1].to = <<c, posted[c]>>
           /\ <<posted[c], inbox[1].v>> \in said[c]
  <1>1. inbox \in Seq(Replies) /\ Len(inbox) = 1 /\ pending = <<>>
    BY DEF IInv, TypeOK, InboxInv
  <1>2. inbox[1].to = <<c, posted[c]>>
    BY Exclusive DEF IInv, InboxInv
  <1>3. <<inbox[1].to[2], inbox[1].v>> \in said[inbox[1].to[1]]
    BY DEF IInv, InboxInv
  <1>4. Head(inbox) = inbox[1] /\ Tail(inbox) = <<>> /\ inbox[1] \in Replies
    BY <1>1, Singleton
  <1> QED
    BY <1>1, <1>2, <1>3, <1>4

\* What was heard stays right when a step leaves it, and its post, alone.
LEMMA HeardKept ==
    ASSUME HeardInv, UNCHANGED <<heard, posted, said>>,
           \A d \in Calls : pc'[d] # "done" => pc[d] # "done",
           \A d \in Calls : pc'[d] = "recv" => pc[d] = "recv"
    PROVE  HeardInv'
  <1> SUFFICES ASSUME NEW d \in Calls, NEW h \in heard'[d]
               PROVE  HeardOK(d, h)'
    BY DEF HeardInv
  <1>1. HeardOK(d, h)
    BY DEF HeardInv
  <1> QED
    BY <1>1 DEF HeardOK

-------------------------------------------------------------------------------
(* Every step preserves the invariant *)

LEMMA BeginStep ==
    ASSUME IInv, NEW c \in Calls, Begin(c)
    PROVE  IInv'
  <1> USE DEF IInv, Begin, connVars, history
  <1>1. TypeOK'
    BY DEF TypeOK
  <1>2. LockInv'
    BY DEF LockInv, TypeOK
  <1>3. PendingInv' /\ InboxInv' /\ IdleInv'
    BY DEF PendingInv, InboxInv, IdleInv, LockInv, TypeOK
  <1>4. BudgetInv'
    BY DEF BudgetInv, TypeOK
  <1>5. HeardInv'
    BY HeardKept DEF TypeOK
  <1>6. DialInv'
    BY DEF DialInv, TypeOK
  <1> QED
    BY <1>1, <1>2, <1>3, <1>4, <1>5, <1>6

LEMMA WakeStep ==
    ASSUME IInv, NEW c \in Calls, Wake(c)
    PROVE  IInv'
  <1> USE DEF IInv, Wake, connVars, history
  <1>1. TypeOK'
    BY DEF TypeOK
  <1>2. LockInv'
    BY DEF LockInv, TypeOK
  <1>3. PendingInv' /\ InboxInv' /\ IdleInv'
    BY DEF PendingInv, InboxInv, IdleInv, LockInv, TypeOK
  <1>4. BudgetInv'
    BY DEF BudgetInv, TypeOK
  <1>5. HeardInv'
    BY HeardKept DEF TypeOK
  <1>6. DialInv'
    BY DEF DialInv, TypeOK
  <1> QED
    BY <1>1, <1>2, <1>3, <1>4, <1>5, <1>6

LEMMA AcquireStep ==
    ASSUME IInv, NEW c \in Calls, Acquire(c)
    PROVE  IInv'
  <1> USE DEF IInv, Acquire, connVars
  <1>1. TypeOK'
    BY Limits DEF TypeOK
  <1>2. LockInv'
    BY CallsAssumption DEF LockInv, TypeOK
  <1>3. pending = <<>>
    BY CallsAssumption DEF PendingInv, LockInv
  <1>4. PendingInv' /\ InboxInv' /\ IdleInv'
    BY <1>3 DEF PendingInv, InboxInv, IdleInv, TypeOK
  <1>5. BudgetInv'
    BY Limits DEF BudgetInv, TypeOK
  <1>6. HeardInv'
    BY HeardKept DEF TypeOK
  <1>7. DialInv'
    BY DEF DialInv, TypeOK
  <1> QED
    BY <1>1, <1>2, <1>4, <1>5, <1>6, <1>7

LEMMA SendStep ==
    ASSUME IInv, NEW c \in Calls, Send(c)
    PROVE  IInv'
  <1> USE DEF IInv, Send, Dial, CanRequest
  <1>1. posted[c] + 1 \in 1..MaxPosts
    BY RoomToPost
  <1>2. pending = <<>> /\ inbox = <<>> /\ inbox' = <<>>
    BY DEF IdleInv
  <1>3. <<c, posted[c] + 1>> \in Tags
    BY <1>1 DEF Tags
  <1>4. /\ pending' \in Seq(Tags) /\ Len(pending') = 1
        /\ pending'[1] = <<c, posted[c] + 1>>
    BY <1>2, <1>3 DEF TypeOK
  <1>5. TypeOK'
    <2>1. posted' \in [Calls -> 0..MaxPosts]
      BY <1>1, Limits DEF TypeOK
    <2> QED
      BY <1>4, <2>1 DEF TypeOK
  <1>6. LockInv'
    BY DEF LockInv, TypeOK
  <1>7. PendingInv'
    BY <1>2, <1>4, Exclusive DEF PendingInv, TypeOK
  <1>8. InboxInv' /\ IdleInv'
    BY <1>2 DEF InboxInv, IdleInv
  <1>9. BudgetInv'
    <2> SUFFICES ASSUME NEW d \in Calls
                 PROVE  BudgetInv!(d)'
      BY DEF BudgetInv
    <2>1. CASE d # c
      BY <2>1 DEF BudgetInv, TypeOK
    <2>2. CASE d = c
      <3>1. /\ posted[c] <= attempt[c] * Tries + try[c]
            /\ try[c] \in 0..(Tries - 1) /\ posted[c] \in 0..MaxPosts
            /\ attempt[c] * Tries \in Nat
        BY BudgetFits DEF BudgetInv, TypeOK
      <3>2. posted'[c] = posted[c] + 1 /\ pc'[c] = "recv"
        BY DEF TypeOK
      <3> QED
        BY <2>2, <3>1, <3>2, Limits
    <2> QED
      BY <2>1, <2>2
  <1>10. HeardInv'
    <2> SUFFICES ASSUME NEW d \in Calls, NEW h \in heard'[d]
                 PROVE  HeardOK(d, h)'
      BY DEF HeardInv
    <2>1. HeardOK(d, h) /\ h.to[2] \in 1..MaxPosts /\ posted[d] \in Nat
      BY Limits DEF HeardInv, TypeOK, Tags
    <2>2. said' = said /\ (pc'[d] # "done" <=> pc[d] # "done")
      BY DEF TypeOK
    <2>3. CASE d # c
      <3>1. posted'[d] = posted[d] /\ pc'[d] = pc[d]
        BY <2>3 DEF TypeOK
      <3> QED
        BY <2>1, <2>2, <3>1 DEF HeardOK
    <2>4. CASE d = c
      <3>1. posted'[d] = posted[d] + 1 /\ h.v = "busy"
        BY <2>1, <2>4 DEF HeardOK, TypeOK
      <3>2. h.to[2] < posted'[d]
        BY <2>1, <3>1, Limits DEF HeardOK
      <3>3. h.to[2] <= posted'[d]
        BY <2>1, <3>2, <3>1, Limits
      <3> QED
        BY <2>1, <2>2, <3>1, <3>2, <3>3 DEF HeardOK
    <2> QED
      BY <2>3, <2>4
  <1>11. DialInv'
    BY Exclusive DEF DialInv, TypeOK
  <1> QED
    BY <1>5, <1>6, <1>7, <1>8, <1>9, <1>10, <1>11

\* A thread that leaves open() for good.
LEMMA FinishLock ==
    ASSUME IInv, NEW c \in Calls, pc[c] \in {"send", "recv"},
           NEW o, Finish(c, o)
    PROVE  LockInv'
  BY Exclusive, CallsAssumption DEF Finish, LockInv, IInv, TypeOK

LEMMA FailedTryStep ==
    ASSUME IInv, NEW c \in Calls, pc[c] \in {"send", "recv"}, FailedTry(c),
           UNCHANGED <<posted, said, heard>>,
           dialled' = IF pc[c] = "send"
                      THEN [dialled EXCEPT ![c] = @ \/ sock = "none"]
                      ELSE dialled
    PROVE  IInv'
  <1> USE DEF IInv, FailedTry, DropConnection, MoreTries
  <1>1. /\ try[c] \in 0..(Tries - 1) /\ attempt[c] \in 0..(MaxAttempts - 1)
        /\ posted[c] \in Nat
    BY Limits DEF TypeOK
  <1>2. TypeOK'
    <2>1. /\ dialled' \in [Calls -> BOOLEAN] /\ attempt' = attempt
          /\ pending' \in Seq(Tags) /\ inbox' \in Seq(Replies)
      BY DEF TypeOK
    <2>2. /\ lock' \in Calls \cup {NoCall}
          /\ outcome' \in [Calls -> Outcomes]
      BY DEF TypeOK, Finish, Outcomes
    <2>3. pc' \in [Calls -> {"idle", "acquire", "send", "recv", "backoff",
                            "done"}]
      BY DEF TypeOK, Finish
    <2>4. try' \in [Calls -> 0..(Tries - 1)]
      <3>1. CASE try[c] + 1 < Tries
        <4>1. try[c] + 1 \in 0..(Tries - 1)
          BY <1>1, <3>1, Limits
        <4> QED
          BY <3>1, <4>1 DEF TypeOK
      <3>2. CASE ~(try[c] + 1 < Tries)
        BY <3>2 DEF TypeOK
      <3> QED
        BY <3>1, <3>2
    <2> QED
      BY <2>1, <2>2, <2>3, <2>4 DEF TypeOK
  <1>3. LockInv'
    <2>1. CASE try[c] + 1 < Tries
      BY <2>1 DEF LockInv, TypeOK
    <2>2. CASE ~(try[c] + 1 < Tries)
      BY <2>2, FinishLock
    <2> QED
      BY <2>1, <2>2
  <1>4. PendingInv' /\ InboxInv' /\ IdleInv'
    BY DEF PendingInv, InboxInv, IdleInv
  <1>5. BudgetInv'
    <2> SUFFICES ASSUME NEW d \in Calls
                 PROVE  BudgetInv!(d)'
      BY DEF BudgetInv
    <2>1. attempt' = attempt /\ posted' = posted
      OBVIOUS
    <2>2. CASE d # c
      <3>1. pc'[d] = pc[d] /\ try'[d] = try[d]
        BY <2>2 DEF Finish, TypeOK
      <3> QED
        BY <2>1, <3>1 DEF BudgetInv
    <2>3. CASE d = c
      <3>1. \/ pc'[c] = "send" /\ try'[c] = try[c] + 1
            \/ pc'[c] = "done"
        BY DEF Finish, TypeOK
      <3>2. attempt[c] * Tries \in Nat
        BY <1>1, BudgetFits
      <3>3. \/ posted[c] <= attempt[c] * Tries + try[c]
            \/ posted[c] <= attempt[c] * Tries + try[c] + 1
        BY DEF BudgetInv
      <3>4. posted[c] <= attempt[c] * Tries + try[c] + 1
        BY <1>1, <3>2, <3>3, Limits
      <3>5. posted[c] <= attempt[c] * Tries + Tries
        BY DEF BudgetInv
      <3> QED
        BY <1>1, <2>1, <2>3, <3>1, <3>2, <3>4, <3>5
    <2> QED
      BY <2>2, <2>3
  <1>6. HeardInv'
    BY HeardKept DEF Finish, TypeOK
  <1>7. DialInv'
    <2> SUFFICES ASSUME NEW d \in Calls
                 PROVE  DialInv!(d)'
      BY DEF DialInv
    <2>1. CASE d # c
      <3>1. /\ pc'[d] = pc[d] /\ try'[d] = try[d]
            /\ outcome'[d] = outcome[d] /\ dialled'[d] = dialled[d]
        BY <2>1 DEF Finish, TypeOK
      <3>2. pc[d] \notin {"send", "recv"}
        BY <2>1, Exclusive
      <3> QED
        BY <3>1, <3>2 DEF DialInv
    <2>2. CASE d = c /\ try[c] + 1 < Tries
      BY <2>2 DEF DialInv, TypeOK
    <2>3. CASE d = c /\ ~(try[c] + 1 < Tries)
      <3>1. try[c] > 0
        BY <1>1, <2>3, Limits
      <3>2. dialled'[c]
        BY <3>1 DEF DialInv, TypeOK
      <3>3. outcome'[c] = "unreachable" /\ pc'[c] = "done"
        BY <2>3 DEF Finish, TypeOK
      <3> QED
        BY <2>3, <3>2, <3>3
    <2> QED
      BY <2>1, <2>2, <2>3
  <1> QED
    BY <1>2, <1>3, <1>4, <1>5, <1>6, <1>7

LEMMA SendFailsStep ==
    ASSUME IInv, NEW c \in Calls, SendFails(c)
    PROVE  IInv'
  BY FailedTryStep DEF SendFails, Dial

LEMMA RecvFailsStep ==
    ASSUME IInv, NEW c \in Calls, RecvFails(c)
    PROVE  IInv'
  BY FailedTryStep DEF RecvFails, history

LEMMA SendRefusedStep ==
    ASSUME IInv, NEW c \in Calls, SendRefused(c)
    PROVE  IInv'
  <1> USE DEF IInv, SendRefused, Finish, connVars, history
  <1>1. TypeOK'
    BY DEF TypeOK, Outcomes
  <1>2. LockInv'
    BY FinishLock
  <1>3. PendingInv' /\ InboxInv' /\ IdleInv'
    BY Exclusive, CallsAssumption DEF PendingInv, InboxInv, IdleInv, TypeOK
  <1>4. BudgetInv'
    BY DEF BudgetInv, TypeOK
  <1>5. HeardInv'
    BY HeardKept DEF TypeOK
  <1>6. DialInv'
    BY DEF DialInv, TypeOK
  <1> QED
    BY <1>1, <1>2, <1>3, <1>4, <1>5, <1>6

\* Consuming the reply on the connection keeps what was heard in order.
LEMMA HearStep ==
    ASSUME IInv, NEW c \in Calls, pc[c] = "recv", inbox # <<>>, Hear(c),
           UNCHANGED <<posted, said>>,
           \A d \in Calls : d # c => pc'[d] = pc[d],
           pc'[c] # "recv", pc'[c] # "done" => inbox[1].v = "busy"
    PROVE  /\ HeardInv'
           /\ heard' \in [Calls -> SUBSET [to : Tags, at : 0..MaxPosts, v : Verdicts]]
  <1> DEFINE r == [to |-> inbox[1].to, at |-> posted[c], v |-> inbox[1].v]
  <1>1. /\ Head(inbox) = inbox[1] /\ inbox[1] \in Replies
        /\ r.to = <<c, posted[c]>> /\ r.v = inbox[1].v
        /\ <<posted[c], r.v>> \in said[c]
    BY OwnReply
  <1>2. /\ r \in [to : Tags, at : 0..MaxPosts, v : Verdicts]
        /\ r.to = <<c, r.at>> /\ r.to[2] = posted[c]
    BY <1>1 DEF Replies, IInv, TypeOK
  <1>3. heard' = [heard EXCEPT ![c] = @ \cup {r}]
    BY <1>1 DEF Hear
  <1>4. heard' \in [Calls -> SUBSET [to : Tags, at : 0..MaxPosts, v : Verdicts]]
    BY <1>2, <1>3 DEF IInv, TypeOK
  <1>5. posted[c] \in Nat
    BY Limits DEF IInv, TypeOK
  <1> HIDE DEF r
  <1>6. ASSUME NEW d \in Calls, NEW h \in heard'[d]
        PROVE  HeardOK(d, h)'
    <2>1. CASE h \in heard[d]
      <3>1. HeardOK(d, h)
        BY <2>1 DEF IInv, HeardInv
      <3>2. pc'[d] = "recv" => pc[d] = "recv"
        OBVIOUS
      <3>3. h.v = "busy" \/ pc'[d] = "done"
        BY <3>1 DEF HeardOK
      <3> QED
        BY <3>1, <3>2, <3>3 DEF HeardOK
    <2>2. CASE h \notin heard[d]
      <3>1. d = c /\ h = r
        BY <1>3, <2>2 DEF IInv, TypeOK
      <3> QED
        BY <1>1, <1>2, <1>5, <3>1 DEF HeardOK
    <2> QED
      BY <2>1, <2>2
  <1> QED
    BY <1>4, <1>6 DEF HeardInv

LEMMA RecvBrokenStep ==
    ASSUME IInv, NEW c \in Calls, RecvBroken(c)
    PROVE  IInv'
  <1> USE DEF IInv, RecvBroken, Finish
  <1>1. Tail(inbox) = <<>> /\ pending = <<>>
    BY OwnReply
  <1>2. HeardInv' /\ heard' \in [Calls -> SUBSET [to : Tags, at : 0..MaxPosts, v : Verdicts]]
    BY HearStep DEF TypeOK
  <1>3. TypeOK'
    <2>1. inbox' \in Seq(Replies)
      BY <1>1, EmptySeq DEF TypeOK
    <2> QED
      BY <1>2, <2>1 DEF TypeOK, Outcomes
  <1>4. LockInv'
    BY FinishLock
  <1>5. PendingInv'
    BY <1>1 DEF PendingInv
  <1>6. InboxInv'
    BY <1>1, CallsAssumption DEF InboxInv
  <1>7. IdleInv'
    BY <1>1 DEF IdleInv
  <1>8. BudgetInv'
    BY DEF BudgetInv, TypeOK
  <1>9. DialInv'
    BY DEF DialInv, TypeOK
  <1> QED
    BY <1>2, <1>3, <1>4, <1>5, <1>6, <1>7, <1>8, <1>9

LEMMA PeerCloseStep ==
    ASSUME IInv, PeerClose
    PROVE  IInv'
  <1> USE DEF IInv, PeerClose, threadVars, history
  <1>1. TypeOK'
    BY DEF TypeOK
  <1>2. LockInv' /\ PendingInv' /\ InboxInv' /\ IdleInv'
    BY DEF LockInv, PendingInv, InboxInv, IdleInv
  <1>3. BudgetInv'
    BY DEF BudgetInv
  <1>4. HeardInv'
    BY HeardKept
  <1>5. DialInv'
    BY DEF DialInv
  <1> QED
    BY <1>1, <1>2, <1>3, <1>4, <1>5

LEMMA RecvReplyStep ==
    ASSUME IInv, NEW c \in Calls, RecvReply(c)
    PROVE  IInv'
  <1> DEFINE v == Head(inbox).v
  <1>1. /\ Tail(inbox) = <<>> /\ pending = <<>>
        /\ Head(inbox) = inbox[1] /\ v \in Whole
    BY OwnReply DEF RecvReply
  <1>2. Judge(c, v) /\ pc[c] = "recv" /\ inbox # <<>> /\ Hear(c)
    BY DEF RecvReply
  <1>3. UNCHANGED <<try, posted, dialled, said>>
    BY DEF RecvReply
  <1>4. /\ pending' = <<>> /\ inbox' = <<>> /\ http' = "idle"
        /\ sock' \in {"none", sock}
    BY <1>1 DEF RecvReply, DropConnection
  <1>5. /\ attempt[c] \in 0..(MaxAttempts - 1) /\ posted[c] \in Nat
        /\ attempt[c] * Tries \in Nat
        /\ (attempt[c] + 1) * Tries = attempt[c] * Tries + Tries
    BY BudgetFits, Limits DEF IInv, TypeOK
  <1> HIDE DEF v
  \* What the two ways out of Judge have in common with the other threads.
  <1>6. \A d \in Calls : d # c =>
          /\ pc'[d] = pc[d] /\ outcome'[d] = outcome[d]
          /\ attempt'[d] = attempt[d]
    BY <1>2 DEF Judge, Finish, IInv, TypeOK
  <1>7. \/ /\ v = "busy" /\ attempt[c] + 1 < MaxAttempts
           /\ pc'[c] = "backoff" /\ attempt'[c] = attempt[c] + 1
           /\ outcome'[c] = outcome[c]
        \/ /\ pc'[c] = "done" /\ attempt'[c] = attempt[c]
           /\ outcome'[c] \in {"audio", "busy", "refused"}
    BY <1>1, <1>2 DEF Judge, AskAgain, Finish, Whole, IInv, TypeOK
  <1>8. /\ pc' = [pc EXCEPT ![c] = pc'[c]]
        /\ attempt' = [attempt EXCEPT ![c] = attempt'[c]]
        /\ outcome' = [outcome EXCEPT ![c] = outcome'[c]]
        /\ lock' = NoCall
    BY <1>2 DEF Judge, Finish, IInv, TypeOK
  <1>9. HeardInv' /\ heard' \in [Calls -> SUBSET [to : Tags, at : 0..MaxPosts, v : Verdicts]]
    <2>1. pc'[c] # "recv" /\ (pc'[c] # "done" => inbox[1].v = "busy")
      BY <1>1, <1>7 DEF v
    <2> QED
      BY <1>2, <1>3, <1>6, <2>1, HearStep
  <1>10. TypeOK'
    <2>1. attempt'[c] \in 0..(MaxAttempts - 1)
      BY <1>5, <1>7, Limits
    <2>2. /\ pending' \in Seq(Tags) /\ inbox' \in Seq(Replies)
          /\ sock' \in {"none", "open", "closed"}
      BY <1>4, EmptySeq DEF IInv, TypeOK
    <2>3. /\ pc' \in [Calls -> {"idle", "acquire", "send", "recv",
                                "backoff", "done"}]
          /\ outcome' \in [Calls -> Outcomes]
      <3>1. pc'[c] \in {"backoff", "done"} /\ outcome'[c] \in Outcomes
        BY <1>7 DEF IInv, TypeOK, Outcomes
      <3>2. pc' \in [Calls -> {"idle", "acquire", "send", "recv", "backoff", "done"}]
        BY <1>8, <3>1 DEF IInv, TypeOK
      <3>3. outcome' \in [Calls -> Outcomes]
        BY <1>8, <3>1 DEF IInv, TypeOK
      <3> QED
        BY <3>2, <3>3
    <2>4. attempt' \in [Calls -> 0..(MaxAttempts - 1)]
      BY <1>8, <2>1 DEF IInv, TypeOK
    <2> QED
      BY <1>3, <1>4, <1>8, <1>9, <2>2, <2>3, <2>4 DEF IInv, TypeOK
  <1>11. LockInv'
    BY <1>2, <1>6, <1>7, <1>8, Exclusive, CallsAssumption DEF IInv, LockInv
  <1>12. PendingInv' /\ InboxInv' /\ IdleInv'
    BY <1>4 DEF PendingInv, InboxInv, IdleInv
  <1>13. BudgetInv'
    <2> SUFFICES ASSUME NEW d \in Calls
                 PROVE  BudgetInv!(d)'
      BY DEF BudgetInv
    <2>1. CASE d # c
      BY <1>3, <1>6, <2>1 DEF IInv, BudgetInv
    <2>2. CASE d = c
      <3>1. posted[c] <= attempt[c] * Tries + Tries
        BY DEF IInv, BudgetInv
      <3>2. CASE pc'[c] = "backoff"
        <4>1. attempt'[c] * Tries = attempt[c] * Tries + Tries
          BY <1>5, <1>7, <3>2
        <4>2. /\ posted'[c] <= attempt'[c] * Tries
              /\ posted'[c] <= attempt'[c] * Tries + Tries
          BY <1>3, <1>5, <3>1, <4>1, Limits
        <4> QED
          BY <2>2, <3>2, <4>2
      <3>3. CASE pc'[c] = "done"
        <4>1. posted'[c] <= attempt'[c] * Tries + Tries
          BY <1>3, <1>7, <3>1, <3>3
        <4> QED
          BY <2>2, <3>3, <4>1
      <3> QED
        BY <1>7, <3>2, <3>3
    <2> QED
      BY <2>1, <2>2
  <1>14. DialInv'
    <2> SUFFICES ASSUME NEW d \in Calls
                 PROVE  DialInv!(d)'
      BY DEF DialInv
    <2>1. CASE d # c
      BY <1>2, <1>3, <1>6, <2>1, Exclusive DEF IInv, DialInv
    <2>2. CASE d = c
      BY <1>2, <1>3, <1>7, <2>2 DEF IInv, DialInv
    <2> QED
      BY <2>1, <2>2
  <1> QED
    BY <1>9, <1>10, <1>11, <1>12, <1>13, <1>14 DEF IInv

LEMMA ServeStep ==
    ASSUME IInv, NEW v \in Verdicts, NEW last \in BOOLEAN, Serve(v, last)
    PROVE  IInv'
  <1> DEFINE n == posted[lock]
             r == [to |-> <<lock, n>>, v |-> v, last |-> last]
  <1>1. /\ lock \in Calls /\ pc[lock] = "recv" /\ inbox = <<>>
        /\ Head(pending) = <<lock, n>> /\ Tail(pending) = <<>>
        /\ <<lock, n>> \in Tags
    <2>1. pending \in Seq(Tags) /\ Len(pending) = 1
      BY DEF IInv, TypeOK, PendingInv, Serve
    <2> QED
      BY <2>1, Singleton DEF IInv, PendingInv, Serve
  <1>2. n \in 1..MaxPosts /\ r \in Replies
    BY <1>1 DEF Tags, Replies
  <1>3. /\ pending' = <<>> /\ inbox' = Append(inbox, r)
        /\ said' = [said EXCEPT ![lock] = @ \cup {<<n, v>>}]
    <2>1. Head(pending)[1] = lock /\ Head(pending)[2] = n
      BY <1>1
    <2>2. /\ inbox' = Append(inbox, [to |-> Head(pending), v |-> v,
                                    last |-> last])
          /\ said' = [said EXCEPT ![Head(pending)[1]] =
                                    @ \cup {<<Head(pending)[2], v>>}]
          /\ pending' = Tail(pending)
      BY DEF Serve
    <2> QED
      BY <1>1, <2>1, <2>2
  <1>4. inbox' \in Seq(Replies) /\ Len(inbox') = 1 /\ inbox'[1] = r
    BY <1>1, <1>2, <1>3 DEF IInv, TypeOK
  <1>5. /\ UNCHANGED <<lock, http, pc, attempt, try, outcome>>
        /\ UNCHANGED <<posted, dialled, heard>>
        /\ sock = "open" /\ sock' \in {"open", "closed"}
    BY DEF Serve, threadVars
  <1>6. \A d \in Calls : said[d] \subseteq said'[d]
    BY <1>3 DEF IInv, TypeOK
  <1>7. <<n, v>> \in said'[lock]
    BY <1>1, <1>3 DEF IInv, TypeOK
  <1> HIDE DEF n, r
  <1>8. TypeOK'
    <2>1. said' \in [Calls -> SUBSET ((1..MaxPosts) \X Verdicts)]
      BY <1>1, <1>2, <1>3 DEF IInv, TypeOK
    <2>2. pending' \in Seq(Tags)
      BY <1>3, EmptySeq
    <2> QED
      BY <1>4, <1>5, <2>1, <2>2 DEF IInv, TypeOK
  <1>9. LockInv' /\ PendingInv'
    BY <1>3, <1>5 DEF IInv, LockInv, PendingInv
  <1>10. InboxInv'
    BY <1>3, <1>4, <1>5, <1>7 DEF InboxInv, n, r
  <1>11. IdleInv'
    <2>1. http = "sent"
      BY DEF IInv, IdleInv, Serve, TypeOK
    <2> QED
      BY <1>5, <2>1 DEF IdleInv
  <1>12. BudgetInv'
    BY <1>5 DEF IInv, BudgetInv
  <1>13. HeardInv'
    BY <1>5, <1>6 DEF IInv, HeardInv, HeardOK
  <1>14. DialInv'
    BY <1>5, Exclusive DEF IInv, DialInv
  <1> QED
    BY <1>8, <1>9, <1>10, <1>11, <1>12, <1>13, <1>14 DEF IInv

-------------------------------------------------------------------------------
(* The invariant, and the properties it carries *)

LEMMA InitInv == Init => IInv
  <1> SUFFICES ASSUME Init PROVE IInv
    OBVIOUS
  <1>1. TypeOK
    BY Limits, EmptySeq DEF Init, TypeOK, Outcomes
  <1>2. LockInv /\ PendingInv /\ InboxInv /\ IdleInv
    BY CallsAssumption DEF Init, LockInv, PendingInv, InboxInv, IdleInv
  <1>3. BudgetInv
    BY Limits DEF Init, BudgetInv
  <1>4. HeardInv /\ DialInv
    BY DEF Init, HeardInv, DialInv
  <1> QED
    BY <1>1, <1>2, <1>3, <1>4 DEF IInv

LEMMA NextInv == IInv /\ [Next]_vars => IInv'
  <1> SUFFICES ASSUME IInv, [Next]_vars PROVE IInv'
    OBVIOUS
  <1>1. ASSUME NEW c \in Calls, Begin(c) PROVE IInv'
    BY <1>1, BeginStep
  <1>2. ASSUME NEW c \in Calls, Step(c) PROVE IInv'
    <2>1. CASE Acquire(c)
      BY <2>1, AcquireStep
    <2>2. CASE Send(c)
      BY <2>2, SendStep
    <2>3. CASE SendFails(c)
      BY <2>3, SendFailsStep
    <2>4. CASE SendRefused(c)
      BY <2>4, SendRefusedStep
    <2>5. CASE RecvFails(c)
      BY <2>5, RecvFailsStep
    <2>6. CASE RecvBroken(c)
      BY <2>6, RecvBrokenStep
    <2>7. CASE RecvReply(c)
      BY <2>7, RecvReplyStep
    <2>8. CASE Wake(c)
      BY <2>8, WakeStep
    <2> QED
      BY <1>2, <2>1, <2>2, <2>3, <2>4, <2>5, <2>6, <2>7, <2>8 DEF Step
  <1>3. CASE Relay
    BY <1>3, ServeStep, PeerCloseStep DEF Relay
  <1>4. CASE UNCHANGED vars
    <2> USE <1>4 DEF IInv, vars, connVars, threadVars, history
    <2>1. TypeOK' /\ LockInv' /\ PendingInv' /\ InboxInv' /\ IdleInv'
      BY DEF TypeOK, LockInv, PendingInv, InboxInv, IdleInv
    <2>2. BudgetInv' /\ DialInv'
      BY DEF BudgetInv, DialInv
    <2>3. HeardInv'
      BY HeardKept
    <2> QED
      BY <2>1, <2>2, <2>3
  <1> QED
    BY <1>1, <1>2, <1>3, <1>4 DEF Next, AllDone

\* The invariant of the shared connection from which the theorems below follow.
THEOREM Invariance == Safety => []IInv
  <1>1. Init => IInv
    BY InitInv
  <1>2. IInv /\ [Next]_vars => IInv'
    BY NextInv
  <1> QED
    BY <1>1, <1>2, PTL DEF Safety

(* The types of the model hold in every reachable state; with it, no call   *)
(* ever makes more than MaxAttempts * Tries posts.                           *)
THEOREM TypeCorrect == Safety => []TypeOK
  <1>1. IInv => TypeOK
    BY DEF IInv
  <1> QED
    BY <1>1, Invariance, PTL

(* No cross-talk on the shared connection: UnixSocketOpener.open never hands *)
(* a thread the answer to another call, or to an abandoned try of its own:   *)
(* each reply it takes is to the request it made last.                       *)
THEOREM NoCrossTalk == Safety => []OwnAnswer
  <1>1. IInv => OwnAnswer
    <2> SUFFICES ASSUME IInv, NEW c \in Calls, NEW h \in heard[c]
                 PROVE  h.to = <<c, h.at>> /\ <<h.at, h.v>> \in said[c]
      BY DEF OwnAnswer
    <2>1. h.to = <<c, h.at>> /\ <<h.to[2], h.v>> \in said[c]
      BY DEF IInv, HeardInv, HeardOK
    <2>2. h.to[2] = h.at
      BY <2>1
    <2> QED
      BY <2>1, <2>2
  <1> QED
    BY <1>1, Invariance, PTL

(* The shared connection never carries two exchanges.                        *)
THEOREM SingleExchange == Safety => []OneExchange
  <1>1. ASSUME IInv PROVE OneExchange
    <2>1. pending \in Seq(Tags) /\ inbox \in Seq(Replies)
      BY <1>1 DEF IInv, TypeOK
    <2>2. Len(pending) + Len(inbox) <= 1
      <3>1. CASE pending # <<>>
        <4>1. Len(pending) = 1 /\ Len(inbox) = 0
          BY <1>1, <3>1 DEF IInv, PendingInv
        <4> QED
          BY <4>1
      <3>2. CASE pending = <<>> /\ inbox # <<>>
        <4>1. Len(pending) = 0 /\ Len(inbox) = 1
          BY <1>1, <3>2 DEF IInv, InboxInv
        <4> QED
          BY <4>1
      <3>3. CASE pending = <<>> /\ inbox = <<>>
        <4>1. Len(pending) = 0 /\ Len(inbox) = 0
          BY <3>3
        <4> QED
          BY <4>1
      <3> QED
        BY <3>1, <3>2, <3>3
    <2>3. ASSUME NEW c \in Calls, pc[c] = "recv"
          PROVE  /\ lock = c
                 /\ \A i \in DOMAIN pending : pending[i] = <<c, posted[c]>>
                 /\ \A i \in DOMAIN inbox : inbox[i].to = <<c, posted[c]>>
      <3>1. lock = c
        BY <1>1, <2>3, Exclusive DEF IInv
      <3>2. ASSUME NEW i \in DOMAIN pending
            PROVE  pending[i] = <<c, posted[c]>>
        <4>1. pending # <<>> /\ i \in 1..Len(pending)
          BY <2>1, <3>2
        <4>2. Len(pending) = 1 /\ pending[1] = <<c, posted[c]>>
          BY <1>1, <3>1, <4>1 DEF IInv, PendingInv
        <4>3. i = 1
          BY <4>1, <4>2
        <4> QED
          BY <4>2, <4>3
      <3>3. ASSUME NEW i \in DOMAIN inbox
            PROVE  inbox[i].to = <<c, posted[c]>>
        BY <1>1, <2>1, <2>3, <3>1, <3>3 DEF IInv, InboxInv
      <3> QED
        BY <3>1, <3>2, <3>3
    <2> QED
      BY <1>1, <2>2, <2>3 DEF OneExchange, IInv, IdleInv
  <1> QED
    BY <1>1, Invariance, PTL

(* Re-sending never goes beyond Tries posts per attempt begun.               *)
THEOREM BoundedPosts == Safety => []PostBound
  <1>1. ASSUME IInv PROVE PostBound
    <2> SUFFICES ASSUME NEW c \in Calls
                 PROVE  posted[c] <= (attempt[c] + 1) * Tries
      BY DEF PostBound
    <2>1. attempt[c] \in 0..(MaxAttempts - 1)
      BY <1>1 DEF IInv, TypeOK
    <2> QED
      BY <1>1, <2>1, BudgetFits DEF IInv, BudgetInv
  <1> QED
    BY <1>1, Invariance, PTL

(* A request is posted again after a whole answer only if that was "busy".   *)
THEOREM OnlyBusyIsRetried == Safety => []RetryOnlyBusy
  <1>1. IInv => RetryOnlyBusy
    BY DEF IInv, HeardInv, HeardOK, RetryOnlyBusy
  <1> QED
    BY <1>1, Invariance, PTL

(* "unreachable" is reported only after a connection of the call's own.      *)
THEOREM ReplacedOnce == Safety => []FreshBeforeUnreachable
  <1>1. IInv => FreshBeforeUnreachable
    BY DEF IInv, DialInv, FreshBeforeUnreachable
  <1> QED
    BY <1>1, Invariance, PTL

-------------------------------------------------------------------------------
(* Progress, as far as it can be said without fairness *)

\* An attempt takes a backoff (or the beginning), the lock, and two steps a try.
AttemptSteps == 2 * Tries + 2

InAttempt(c) == CASE pc[c] \in {"idle", "backoff"} -> 2 * Tries + 2
                  [] pc[c] = "acquire" -> 2 * Tries + 1
                  [] pc[c] = "send"    -> 2 * (Tries - try[c])
                  [] OTHER             -> 2 * (Tries - try[c]) - 1

\* How many steps a call has left at most.
StepsLeft(c) == IF pc[c] = "done" THEN 0
                ELSE (MaxAttempts - 1 - attempt[c]) * AttemptSteps + InAttempt(c)

\* The thread of c has a step of its own to take.
CanMove(c) == \/ pc[c] \in {"backoff", "send"}
              \/ pc[c] = "acquire" /\ lock = NoCall
              \/ pc[c] = "recv" /\ (inbox = <<>> \/ Head(inbox).v \in Broken \cup Whole)

LEMMA AttemptsLeft ==
    ASSUME NEW a \in 0..(MaxAttempts - 1)
    PROVE  /\ AttemptSteps \in Nat
           /\ (MaxAttempts - 1 - a) * AttemptSteps \in Nat
           /\ (MaxAttempts - 1 - a) * AttemptSteps + AttemptSteps
                 <= MaxAttempts * AttemptSteps
           /\ a + 1 < MaxAttempts =>
                 (MaxAttempts - 1 - (a + 1)) * AttemptSteps + AttemptSteps
                    = (MaxAttempts - 1 - a) * AttemptSteps
  <1> DEFINE d == MaxAttempts - 1 - a
             w == AttemptSteps
  <1>1. MaxAttempts \in Nat /\ Tries \in Nat /\ d \in Nat /\ a \in Nat
    BY Limits
  <1>2. w \in Nat
    BY <1>1 DEF AttemptSteps
  <1> HIDE DEF w
  <1>3. d * w \in Nat /\ a * w \in Nat
    BY <1>1, <1>2
  <1>4. MaxAttempts * w = d * w + w + a * w
    <2>1. MaxAttempts = d + 1 + a
      BY <1>1
    <2> HIDE DEF d
    <2> QED
      BY <1>1, <1>2, <2>1
  <1>5. (MaxAttempts - 1 - (a + 1)) * w + w = d * w
    <2>1. MaxAttempts - 1 - (a + 1) = d - 1
      BY <1>1
    <2> HIDE DEF d
    <2> QED
      BY <1>1, <1>2, <2>1
  <1> QED
    BY <1>2, <1>3, <1>4, <1>5 DEF w

LEMMA StepsBounded ==
    ASSUME TypeOK, NEW c \in Calls
    PROVE  StepsLeft(c) \in 0..(MaxAttempts * AttemptSteps)
  <1>1. /\ attempt[c] \in 0..(MaxAttempts - 1) /\ try[c] \in 0..(Tries - 1)
        /\ pc[c] \in {"idle", "acquire", "send", "recv", "backoff", "done"}
    BY DEF TypeOK
  <1>2. InAttempt(c) \in 1..AttemptSteps
    BY <1>1, Limits DEF InAttempt, AttemptSteps
  <1> DEFINE later == (MaxAttempts - 1 - attempt[c]) * AttemptSteps
             all == MaxAttempts * AttemptSteps
  <1>3. AttemptSteps \in Nat /\ later \in Nat /\ later + AttemptSteps <= all /\ all \in Nat
    BY <1>1, AttemptsLeft, Limits
  <1>4. StepsLeft(c) = IF pc[c] = "done" THEN 0 ELSE later + InAttempt(c)
    BY DEF StepsLeft
  <1> HIDE DEF later, all
  <1>5. StepsLeft(c) \in 0..all
    BY <1>2, <1>3, <1>4
  <1> QED
    BY <1>5 DEF all

\* A step that stays within the attempt.
LEMMA SameAttempt ==
    ASSUME TypeOK, NEW c \in Calls, pc[c] # "done", attempt' = attempt,
           pc'[c] = "done" \/ (InAttempt(c)' \in Nat /\ InAttempt(c)' < InAttempt(c))
    PROVE  StepsLeft(c)' < StepsLeft(c)
  <1>1. attempt[c] \in 0..(MaxAttempts - 1) /\ try[c] \in 0..(Tries - 1)
        /\ pc[c] \in {"idle", "acquire", "send", "recv", "backoff"}
    BY DEF TypeOK
  <1>2. InAttempt(c) \in Nat \ {0}
    BY <1>1, Limits DEF InAttempt
  <1>3. (MaxAttempts - 1 - attempt[c]) * AttemptSteps \in Nat
    BY <1>1, AttemptsLeft
  <1> QED
    BY <1>2, <1>3 DEF StepsLeft

LEMMA StepCounts ==
    ASSUME TypeOK, NEW c \in Calls, Begin(c) \/ Step(c)
    PROVE  StepsLeft(c)' < StepsLeft(c)
  <1> USE DEF threadVars
  <1>1. /\ attempt[c] \in 0..(MaxAttempts - 1) /\ try[c] \in 0..(Tries - 1)
        /\ attempt \in [Calls -> 0..(MaxAttempts - 1)] /\ try \in [Calls -> 0..(Tries - 1)]
        /\ pc \in [Calls -> {"idle", "acquire", "send", "recv", "backoff", "done"}]
        /\ Tries \in Nat /\ Tries >= 2
    BY Limits DEF TypeOK
  <1>2. CASE Begin(c) \/ Wake(c)
    <2>1. pc[c] \in {"idle", "backoff"} /\ pc'[c] = "acquire" /\ attempt' = attempt
      BY <1>1, <1>2 DEF Begin, Wake
    <2> QED
      BY <1>1, <2>1, SameAttempt DEF InAttempt
  <1>3. CASE Acquire(c)
    <2>1. /\ pc[c] = "acquire" /\ pc'[c] = "send" /\ try'[c] = 0 /\ attempt' = attempt
      BY <1>1, <1>3 DEF Acquire
    <2> QED
      BY <1>1, <2>1, SameAttempt DEF InAttempt
  <1>4. CASE Send(c)
    <2>1. /\ pc[c] = "send" /\ pc'[c] = "recv" /\ try' = try /\ attempt' = attempt
      BY <1>1, <1>4 DEF Send
    <2> QED
      BY <1>1, <2>1, SameAttempt DEF InAttempt
  <1>5. CASE SendFails(c) \/ RecvFails(c)
    <2>1. /\ pc[c] \in {"send", "recv"} /\ attempt' = attempt
          /\ \/ pc'[c] = "done"
             \/ pc'[c] = "send" /\ try'[c] = try[c] + 1 /\ try[c] + 1 < Tries
      BY <1>1, <1>5 DEF SendFails, RecvFails, FailedTry, MoreTries, Finish
    <2> QED
      BY <1>1, <2>1, SameAttempt DEF InAttempt
  <1>6. CASE SendRefused(c) \/ RecvBroken(c)
    <2>1. pc[c] \in {"send", "recv"} /\ attempt' = attempt /\ pc'[c] = "done"
      BY <1>1, <1>6 DEF SendRefused, RecvBroken, Finish
    <2> QED
      BY <2>1, SameAttempt
  <1>7. CASE RecvReply(c)
    <2>1. pc[c] = "recv" /\ Judge(c, Head(inbox).v)
      BY <1>7 DEF RecvReply
    <2>2. CASE ~AskAgain(c, Head(inbox).v)
      <3>1. pc'[c] = "done" /\ attempt' = attempt
        BY <1>1, <2>1, <2>2 DEF Judge, Finish
      <3> QED
        BY <2>1, <3>1, SameAttempt
    <2>3. CASE AskAgain(c, Head(inbox).v)
      <3>1. /\ pc'[c] = "backoff" /\ attempt'[c] = attempt[c] + 1
            /\ attempt[c] + 1 < MaxAttempts
        BY <1>1, <2>1, <2>3 DEF Judge, AskAgain
      <3>2. InAttempt(c)' = AttemptSteps
        BY <3>1 DEF InAttempt, AttemptSteps
      <3>3. InAttempt(c) \in Nat \ {0}
        BY <1>1, <2>1 DEF InAttempt
      <3>4. /\ (MaxAttempts - 1 - attempt[c]) * AttemptSteps \in Nat
            /\ (MaxAttempts - 1 - attempt'[c]) * AttemptSteps + AttemptSteps
                  = (MaxAttempts - 1 - attempt[c]) * AttemptSteps
        BY <1>1, <3>1, AttemptsLeft
      <3> QED
        BY <2>1, <3>1, <3>2, <3>3, <3>4 DEF StepsLeft
    <2> QED
      BY <2>2, <2>3
  <1> QED
    BY <1>2, <1>3, <1>4, <1>5, <1>6, <1>7 DEF Step

\* Nobody else gives a call more to do.
LEMMA OthersLeaveIt ==
    ASSUME TypeOK, [Next]_vars, NEW c \in Calls, ~Begin(c), ~Step(c)
    PROVE  StepsLeft(c)' = StepsLeft(c)
  <1> SUFFICES pc'[c] = pc[c] /\ attempt'[c] = attempt[c] /\ try'[c] = try[c]
    BY DEF StepsLeft, InAttempt
  <1> USE DEF TypeOK, threadVars
  <1>1. ASSUME NEW d \in Calls, d # c, Begin(d) \/ Step(d)
        PROVE  pc'[c] = pc[c] /\ attempt'[c] = attempt[c] /\ try'[c] = try[c]
    <2>1. CASE Begin(d) \/ Wake(d)
      BY <1>1, <2>1 DEF Begin, Wake
    <2>2. CASE Acquire(d) \/ Send(d)
      BY <1>1, <2>2 DEF Acquire, Send
    <2>3. CASE SendFails(d) \/ RecvFails(d)
      BY <1>1, <2>3 DEF SendFails, RecvFails, FailedTry, Finish
    <2>4. CASE SendRefused(d) \/ RecvBroken(d)
      BY <1>1, <2>4 DEF SendRefused, RecvBroken, Finish
    <2>5. CASE RecvReply(d)
      BY <1>1, <2>5 DEF RecvReply, Judge, Finish
    <2> QED
      BY <1>1, <2>1, <2>2, <2>3, <2>4, <2>5 DEF Step
  <1>2. CASE Relay
    BY <1>2 DEF Relay, Serve, PeerClose
  <1>3. CASE UNCHANGED vars
    BY <1>3 DEF vars
  <1> QED
    BY <1>1, <1>2, <1>3 DEF Next, AllDone

(* A call takes at most MaxAttempts * (2 * Tries + 2) steps, however relay    *)
(* answers and whoever else uses the connection: each of its own steps leaves *)
(* it fewer, and no step of another call or of relay gives it more.           *)
THEOREM CallsAreBounded ==
    Safety => /\ [](\A c \in Calls : StepsLeft(c) \in 0..(MaxAttempts * AttemptSteps))
              /\ [][\A c \in Calls :
                      \/ StepsLeft(c)' < StepsLeft(c)
                      \/ ~Begin(c) /\ ~Step(c) /\ StepsLeft(c)' = StepsLeft(c)]_vars
  <1>1. TypeOK => \A c \in Calls : StepsLeft(c) \in 0..(MaxAttempts * AttemptSteps)
    BY StepsBounded
  <1>2. TypeOK /\ [Next]_vars =>
           [\A c \in Calls :
              \/ StepsLeft(c)' < StepsLeft(c)
              \/ ~Begin(c) /\ ~Step(c) /\ StepsLeft(c)' = StepsLeft(c)]_vars
    BY StepCounts, OthersLeaveIt
  <1> QED
    BY <1>1, <1>2, TypeCorrect, PTL DEF Safety

(* No call is ever stuck: it can take a step, or waits for the lock while the *)
(* call that holds it can take one, for any number of calls.                  *)
THEOREM NobodyIsStuck ==
    Safety => [](\A c \in Calls : pc[c] \notin {"idle", "done"} =>
                    \/ CanMove(c)
                    \/ pc[c] = "acquire" /\ lock \in Calls \ {c} /\ CanMove(lock))
  <1>1. ASSUME IInv, NEW c \in Calls, pc[c] \notin {"idle", "done"}
        PROVE  \/ CanMove(c)
               \/ pc[c] = "acquire" /\ lock \in Calls \ {c} /\ CanMove(lock)
    <2>1. /\ pc[c] \in {"acquire", "send", "recv", "backoff"}
          /\ lock \in Calls \cup {NoCall} /\ inbox \in Seq(Replies)
      BY <1>1 DEF IInv, TypeOK
    <2>2. inbox = <<>> \/ Head(inbox).v \in Broken \cup Whole
      <3>1. inbox # <<>> => Head(inbox) \in Replies
        BY <2>1
      <3> QED
        BY <3>1 DEF Replies, Verdicts
    <2>3. CASE pc[c] = "acquire" /\ lock \in Calls
      <3>1. pc[lock] \in {"send", "recv"} /\ lock # c
        BY <1>1, <2>3 DEF IInv, LockInv
      <3> QED
        BY <2>2, <2>3, <3>1 DEF CanMove
    <2>4. CASE ~(pc[c] = "acquire" /\ lock \in Calls)
      BY <2>1, <2>2, <2>4 DEF CanMove
    <2> QED
      BY <2>3, <2>4
  <1>2. IInv => \A c \in Calls : pc[c] \notin {"idle", "done"} =>
                    \/ CanMove(c)
                    \/ pc[c] = "acquire" /\ lock \in Calls \ {c} /\ CanMove(lock)
    BY <1>1
  <1> QED
    BY <1>2, Invariance, PTL
===============================================================================
