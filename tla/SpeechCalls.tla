----------------------------- MODULE SpeechCalls ------------------------------
(***************************************************************************)
(* What RemoteEngine promises the daemon about one synthesis call, with    *)
(* no socket, lock or retry in sight.  A call runs, the remote gives        *)
(* verdicts on the requests made for THAT call, and the call ends once,     *)
(* with a result one of those verdicts accounts for, or with a failure.     *)
(***************************************************************************)
EXTENDS Naturals, FiniteSets

CONSTANTS Calls,        \* synthesis calls, one per span the daemon renders
          MaxAttempts,  \* how often a busy remote is asked before giving up
          MaxPosts      \* requests one call may put on the wire

VARIABLES phase,    \* phase[c]   : "idle", "running" or "done"
          result,   \* result[c]  : how the call ended
          said      \* said[c]    : <<n, v>> for each verdict v given on post n

vars == <<phase, result, said>>

Verdicts == {"ok", "busy", "refused", "cut", "garbled"}
Results  == {"none", "audio", "refused", "busy", "failed"}

BusyPosts(answers) == {n \in 1..MaxPosts : <<n, "busy">> \in answers}

\* A result the remote's own verdicts on this call account for.
Justified(answers, r) ==
    /\ r = "audio"   => \E n \in 1..MaxPosts : <<n, "ok">> \in answers
    /\ r = "refused" => \E n \in 1..MaxPosts : <<n, "refused">> \in answers
    /\ r = "busy"    => Cardinality(BusyPosts(answers)) >= MaxAttempts

Init == /\ phase  = [c \in Calls |-> "idle"]
        /\ result = [c \in Calls |-> "none"]
        /\ said   = [c \in Calls |-> {}]

Start(c) == /\ phase[c] = "idle"
            /\ phase' = [phase EXCEPT ![c] = "running"]
            /\ UNCHANGED <<result, said>>

\* The remote answers one more of the call's requests.
Say(c, n, v) == /\ phase[c] = "running"
                /\ \A w \in Verdicts : <<n, w>> \notin said[c]
                /\ said' = [said EXCEPT ![c] = @ \cup {<<n, v>>}]
                /\ UNCHANGED <<phase, result>>

Finish(c, r) == /\ phase[c] = "running"
                /\ Justified(said[c], r)
                /\ phase'  = [phase EXCEPT ![c] = "done"]
                /\ result' = [result EXCEPT ![c] = r]
                /\ UNCHANGED said

Next == \E c \in Calls :
           \/ Start(c)
           \/ \E n \in 1..MaxPosts, v \in Verdicts : Say(c, n, v)
           \/ \E r \in Results \ {"none"} : Finish(c, r)

Safety == Init /\ [][Next]_vars

Spec == Safety /\ \A c \in Calls :
                     WF_vars(\E r \in Results \ {"none"} : Finish(c, r))
===============================================================================
