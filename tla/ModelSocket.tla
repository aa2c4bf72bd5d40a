----------------------------- MODULE ModelSocket ------------------------------
(***************************************************************************)
(* The one kept-alive HTTP/1.1 connection to relay's model.sock and the     *)
(* calls that share it: UnixSocketOpener.open (pinned_transport.py), as     *)
(* RemoteEngine._call_speech_endpoint (relaytts_daemon.py) drives it.       *)
(*                                                                          *)
(* A call is one invocation of _call_speech_endpoint, made by the handler   *)
(* thread of one client.  It asks at most MaxAttempts times, sleeping when  *)
(* the remote is busy; every ask is an open() that takes the lock and tries *)
(* the exchange at most Tries times, dropping the connection between tries. *)
(* The relay end of the socket is the environment: it answers, answers      *)
(* badly, closes, stops listening, or stays silent until a timeout.         *)
(***************************************************************************)
EXTENDS Naturals, Sequences, FiniteSets

CONSTANTS Calls,        \* invocations of _call_speech_endpoint
          NoCall,       \* the lock is free
          MaxAttempts,  \* RemoteEngine._MAX_ATTEMPTS
          Tries         \* range(2) in UnixSocketOpener.open

ASSUME CallsAssumption == NoCall \notin Calls /\ IsFiniteSet(Calls)
\* One try could not replace a connection the peer closed.
ASSUME LimitAssumption == MaxAttempts \in Nat \ {0} /\ Tries \in Nat \ {0, 1}

VARIABLES
    lock,      \* owner of UnixSocketOpener._lock
    sock,      \* "none": _conn is None; "closed": the peer has closed its end
    http,      \* http.client's state: "sent" between a request and its reply
    pending,   \* requests on the connection that relay has not answered
    inbox,     \* replies on the connection that the daemon has not consumed
    pc,        \* where the thread of call c stands
    attempt,   \* loop index of _call_speech_endpoint
    try,       \* loop index of open()
    outcome,   \* what _call_speech_endpoint returned or raised
    posted,    \* history: how many times call c was put on the wire
    dialled,   \* history: this open() has tried a connection of its own
    said,      \* history: <<n, v>> when relay gave verdict v on post n of c
    heard      \* history: [to, at, v] for each reply the thread of c consumed:
               \* the post it answers, the latest one at that moment, the verdict

threadVars == <<pc, attempt, try, outcome>>
connVars   == <<sock, http, pending, inbox>>
history    == <<posted, dialled, said, heard>>
vars       == <<lock, connVars, threadVars, history>>

MaxPosts == MaxAttempts * Tries

\* A whole reply: a body under 400, a retryable status (429, 503), any other
\* status.  "cut": the body ends early.  "garbled": the head does not parse
\* in a way open() catches (LineTooLong, too many headers, unknown protocol).
Whole    == {"ok", "busy", "refused"}
Broken   == {"cut", "garbled"}
Verdicts == Whole \cup Broken

Tags     == Calls \X (1..MaxPosts)
Replies  == [to : Tags, v : Verdicts, last : BOOLEAN]
Outcomes == {"none", "audio", "refused", "busy", "unreachable", "escaped"}

Init ==
    /\ lock    = NoCall
    /\ sock    = "none"
    /\ http    = "idle"
    /\ pending = <<>>
    /\ inbox   = <<>>
    /\ pc      = [c \in Calls |-> "idle"]
    /\ attempt = [c \in Calls |-> 0]
    /\ try     = [c \in Calls |-> 0]
    /\ outcome = [c \in Calls |-> "none"]
    /\ posted  = [c \in Calls |-> 0]
    /\ dialled = [c \in Calls |-> FALSE]
    /\ said    = [c \in Calls |-> {}]
    /\ heard   = [c \in Calls |-> {}]

-------------------------------------------------------------------------------
(* The threads of the daemon *)

Begin(c) ==
    /\ pc[c] = "idle"
    /\ pc' = [pc EXCEPT ![c] = "acquire"]
    /\ UNCHANGED <<lock, connVars, attempt, try, outcome, history>>

\* Mutant: open() without `with self._lock`.
AcquireUnlocked(c) ==
    /\ pc[c] = "acquire"
    /\ lock' = c
    /\ pc' = [pc EXCEPT ![c] = "send"]
    /\ try' = [try EXCEPT ![c] = 0]
    /\ dialled' = [dialled EXCEPT ![c] = FALSE]
    /\ UNCHANGED <<connVars, attempt, outcome, posted, said, heard>>

\* Enter open(): the lock, then the first try.
Acquire(c) ==
    /\ pc[c] = "acquire"
    /\ lock = NoCall
    /\ lock' = c
    /\ pc' = [pc EXCEPT ![c] = "send"]
    /\ try' = [try EXCEPT ![c] = 0]
    /\ dialled' = [dialled EXCEPT ![c] = FALSE]
    /\ UNCHANGED <<connVars, attempt, outcome, posted, said, heard>>

\* The call is over: open() lets go of the lock and nothing asks again.
Finish(c, o) ==
    /\ pc' = [pc EXCEPT ![c] = "done"]
    /\ outcome' = [outcome EXCEPT ![c] = o]
    /\ lock' = NoCall

\* Mutant: a failed exchange is forgotten, the connection it ran on is kept.
KeepConnection ==
    /\ http' = "idle"
    /\ UNCHANGED <<sock, pending, inbox>>

DropConnection ==
    /\ sock' = "none"
    /\ http' = "idle"
    /\ pending' = <<>>
    /\ inbox' = <<>>

\* Mutant: one try too many.
MoreTriesOffByOne(c) == try[c] < Tries

MoreTries(c) == try[c] + 1 < Tries

\* The except clause of open() and the else of its for loop.
FailedTry(c) ==
    /\ DropConnection
    /\ IF MoreTries(c)
       THEN /\ try' = [try EXCEPT ![c] = @ + 1]
            /\ pc' = [pc EXCEPT ![c] = "send"]
            /\ UNCHANGED <<lock, outcome>>
       ELSE Finish(c, "unreachable") /\ UNCHANGED try
    /\ UNCHANGED attempt

\* http.client refuses a second request while it waits for a reply.
CanRequest == http = "idle"

\* The kept connection, or without one a new connect() to the socket.
Dial(c) == dialled' = [dialled EXCEPT ![c] = @ \/ sock = "none"]

\* conn.request on the kept connection, or on one dialled now.
Send(c) ==
    /\ pc[c] = "send"
    /\ CanRequest
    /\ sock # "closed"
    /\ sock' = "open"
    /\ http' = "sent"
    /\ posted' = [posted EXCEPT ![c] = @ + 1]
    /\ pending' = Append(pending, <<c, posted[c] + 1>>)
    /\ Dial(c)
    /\ pc' = [pc EXCEPT ![c] = "recv"]
    /\ UNCHANGED <<lock, inbox, attempt, try, outcome, said, heard>>

\* Nobody listens, the peer has closed, or the send times out: an OSError.
SendFails(c) ==
    /\ pc[c] = "send"
    /\ CanRequest
    /\ FailedTry(c)
    /\ Dial(c)
    /\ UNCHANGED <<posted, said, heard>>

\* CannotSendRequest is neither an OSError nor a BadStatusLine: it leaves
\* open() and _call_speech_endpoint, and the connection stays as it is.
SendRefused(c) ==
    /\ pc[c] = "send"
    /\ ~CanRequest
    /\ Finish(c, "escaped")
    /\ UNCHANGED <<connVars, attempt, try, history>>

\* Mutant: no timeout on the connection, only a disconnect ends the wait.
RecvFailsNoTimeout(c) ==
    /\ pc[c] = "recv"
    /\ inbox = <<>>
    /\ sock = "closed"
    /\ FailedTry(c)
    /\ UNCHANGED history

\* A timeout, a disconnect or a bad status line instead of a reply.
RecvFails(c) ==
    /\ pc[c] = "recv"
    /\ inbox = <<>>
    /\ FailedTry(c)
    /\ UNCHANGED history

Hear(c) == heard' = [heard EXCEPT ![c] = @ \cup
                       {[to |-> Head(inbox).to, at |-> posted[c], v |-> Head(inbox).v]}]

\* A reply open() cannot read: IncompleteRead once the head is through, or an
\* error in the head, after which http.client still waits for this reply and
\* what is left of it stays unread.
RecvBroken(c) ==
    /\ pc[c] = "recv"
    /\ inbox # <<>> /\ Head(inbox).v \in Broken
    /\ Hear(c)
    /\ Finish(c, "escaped")
    /\ IF Head(inbox).v = "cut"
       THEN http' = "idle" /\ inbox' = Tail(inbox)
       ELSE UNCHANGED <<http, inbox>>
    /\ UNCHANGED <<sock, pending, attempt, try, posted, dialled, said>>

\* Mutants: the last attempt does not count; every error is worth asking
\* again; a busy remote is given up on one attempt early.
AskAgainForever(c, v) == v = "busy" /\ attempt[c] < MaxAttempts
AskAgainAnyError(c, v) == v # "ok" /\ attempt[c] + 1 < MaxAttempts
AskAgainOnceLess(c, v) == v = "busy" /\ attempt[c] + 2 < MaxAttempts

\* _call_speech_endpoint asks again only on 429 or 503, and not for ever.
AskAgain(c, v) == v = "busy" /\ attempt[c] + 1 < MaxAttempts

\* The rest of _call_speech_endpoint once open() has a whole reply.
Judge(c, v) ==
    IF AskAgain(c, v)
    THEN /\ pc' = [pc EXCEPT ![c] = "backoff"]
         /\ attempt' = [attempt EXCEPT ![c] = @ + 1]
         /\ lock' = NoCall
         /\ UNCHANGED outcome
    ELSE /\ Finish(c, IF v = "ok" THEN "audio" ELSE v)
         /\ UNCHANGED attempt

\* A reply read to its end; a peer that will close costs us the connection.
RecvReply(c) ==
    /\ pc[c] = "recv"
    /\ inbox # <<>> /\ Head(inbox).v \in Whole
    /\ Hear(c)
    /\ IF Head(inbox).last
       THEN DropConnection
       ELSE http' = "idle" /\ inbox' = Tail(inbox) /\ UNCHANGED <<sock, pending>>
    /\ Judge(c, Head(inbox).v)
    /\ UNCHANGED <<try, posted, dialled, said>>

\* time.sleep in _call_speech_endpoint ends.
Wake(c) ==
    /\ pc[c] = "backoff"
    /\ pc' = [pc EXCEPT ![c] = "acquire"]
    /\ UNCHANGED <<lock, connVars, attempt, try, outcome, history>>

-------------------------------------------------------------------------------
(* The relay end of the socket (external) *)

\* Relay answers the oldest request; a cut reply closes the connection.
Serve(v, last) ==
    /\ sock = "open" /\ pending # <<>>
    /\ LET tag == Head(pending)
       IN /\ inbox' = Append(inbox, [to |-> tag, v |-> v, last |-> last])
          /\ said' = [said EXCEPT ![tag[1]] = @ \cup {<<tag[2], v>>}]
    /\ pending' = Tail(pending)
    /\ sock' = IF v = "cut" THEN "closed" ELSE "open"
    /\ UNCHANGED <<lock, http, threadVars, posted, dialled, heard>>

\* Relay closes an idle connection, or stops; what it sent can still be read.
PeerClose ==
    /\ sock = "open"
    /\ sock' = "closed"
    /\ pending' = <<>>
    /\ UNCHANGED <<lock, http, inbox, threadVars, history>>

-------------------------------------------------------------------------------
Step(c) == \/ Acquire(c)
           \/ Send(c)
           \/ SendFails(c)
           \/ SendRefused(c)
           \/ RecvFails(c)
           \/ RecvBroken(c)
           \/ RecvReply(c)
           \/ Wake(c)

Relay == \/ \E v \in Verdicts, last \in BOOLEAN : Serve(v, last)
         \/ PeerClose

\* Every call has returned; a relay that has nothing to do may stay silent.
AllDone == (\A c \in Calls : pc[c] = "done") /\ UNCHANGED vars

Next == \/ \E c \in Calls : Begin(c) \/ Step(c)
        \/ Relay
        \/ AllDone

Safety == Init /\ [][Next]_vars

\* A thread that can move does: the lock is released by every path through
\* open(), every wait on the socket is bounded by settimeout, and sleep ends.
Fairness == \A c \in Calls : WF_vars(Step(c))

Spec == Safety /\ Fairness

-------------------------------------------------------------------------------
TypeOK ==
    /\ lock \in Calls \cup {NoCall}
    /\ sock \in {"none", "open", "closed"}
    /\ http \in {"idle", "sent"}
    /\ pending \in Seq(Tags)
    /\ inbox \in Seq(Replies)
    /\ pc \in [Calls -> {"idle", "acquire", "send", "recv", "backoff", "done"}]
    /\ attempt \in [Calls -> 0..(MaxAttempts - 1)]
    /\ try \in [Calls -> 0..(Tries - 1)]
    /\ outcome \in [Calls -> Outcomes]
    /\ posted \in [Calls -> 0..MaxPosts]
    /\ dialled \in [Calls -> BOOLEAN]
    /\ said \in [Calls -> SUBSET ((1..MaxPosts) \X Verdicts)]
    /\ heard \in [Calls -> SUBSET [to : Tags, at : 0..MaxPosts, v : Verdicts]]

(* No cross-talk: every reply a thread consumes answers the request it made  *)
(* last, and relay really gave that verdict on it.  A late answer, to another*)
(* client's text or to an abandoned try of this very call, is never taken.   *)
OwnAnswer ==
    \A c \in Calls : \A h \in heard[c] :
        h.to = <<c, h.at>> /\ <<h.at, h.v>> \in said[c]

(* The shared connection never carries two exchanges: the request or reply   *)
(* on it is the latest post of the call that holds the lock, and an idle     *)
(* http.client has nothing left to read.                                     *)
OneExchange ==
    /\ Len(pending) + Len(inbox) <= 1
    /\ http = "idle" => pending = <<>> /\ inbox = <<>>
    /\ \A c \in Calls : pc[c] = "recv" =>
          /\ lock = c
          /\ \A i \in DOMAIN pending : pending[i] = <<c, posted[c]>>
          /\ \A i \in DOMAIN inbox : inbox[i].to = <<c, posted[c]>>

(* Re-sending is bounded across both loops: an open() that keeps failing is  *)
(* never multiplied beyond Tries posts for each attempt already begun.       *)
PostBound == \A c \in Calls : posted[c] <= (attempt[c] + 1) * Tries

(* "Every other status is reported on the first try": a request that got a   *)
(* whole answer is posted again only when that answer was busy.              *)
RetryOnlyBusy ==
    \A c \in Calls : \A h \in heard[c] :
        h.to[2] < posted[c] => h.v = "busy"

(* A kept connection the peer closed is replaced before the call gives up:   *)
(* "unreachable" is only reported after a connection dialled by that open(). *)
FreshBeforeUnreachable ==
    \A c \in Calls : outcome[c] = "unreachable" => dialled[c]

(* Every call ends, whatever relay does and whoever holds the lock.          *)
CallEnds == \A c \in Calls : pc[c] = "acquire" ~> pc[c] = "done"

(* The calls implement SpeechCalls: a result is accounted for by verdicts    *)
(* relay gave on this call's own requests.                                   *)
Phase(c)  == CASE pc[c] = "idle" -> "idle"
               [] pc[c] = "done" -> "done"
               [] OTHER -> "running"
Result(c) == IF outcome[c] \in {"unreachable", "escaped"}
             THEN "failed" ELSE outcome[c]

Abstract == INSTANCE SpeechCalls WITH
              phase  <- [c \in Calls |-> Phase(c)],
              result <- [c \in Calls |-> Result(c)]
Implements == Abstract!Spec

(* Stated by the class comment of UnixSocketOpener: a connection that no     *)
(* longer works is replaced once before giving up.  A call that failed       *)
(* without one byte of an answer must have tried a connection of its own.    *)
ReplacedBeforeGivingUp ==
    \A c \in Calls :
        outcome[c] \in {"unreachable", "escaped"} /\ heard[c] = {} => dialled[c]
===============================================================================
