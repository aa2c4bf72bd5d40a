------------------------------ MODULE Supervisor ------------------------------
(***************************************************************************)
(* daemon_wrapper.sh, the daemons it starts one after another, and the      *)
(* launch identity each of them must establish before it serves anything    *)
(* (relay_bridge.establish_launch_identity, called first thing by main).    *)
(*                                                                          *)
(* Daemon n is the n-th python the wrapper has spawned.  A signal to the    *)
(* shell is `pending` until bash runs its trap: at the next command, at     *)
(* once inside `wait`, and only after `sleep` when it is sleeping.          *)
(***************************************************************************)
EXTENDS Naturals

CONSTANTS MaxSpawns,  \* bound on the daemons one wrapper starts
          MaxSignals  \* bound on the signals sent to the wrapper

ASSUME SpawnAssumption ==
    MaxSpawns \in Nat \ {0} /\ MaxSignals \in Nat

VARIABLES
    wrapper,   \* where the shell stands
    child,     \* $child; 0 is ""
    term,      \* $term
    code,      \* how the daemon last waited for ended; "signal": wait was cut
    pending,   \* a TERM or INT the shell has not handled yet
    spawns,    \* daemons started so far
    daemon,    \* what each daemon is doing, or how it ended
    pipe,      \* fd 3, which the shell holds open for every daemon; or "none"
    bound,     \* history: the daemons whose Hello relay accepted
    signals    \* history: how often the wrapper has been told to stop

shellVars == <<wrapper, child, term, code, pending>>
vars == <<shellVars, spawns, daemon, pipe, bound, signals>>

Daemons == 1..MaxSpawns
Alive == {"starting", "greeting", "loading", "serving"}
\* Exit 0, exit 78, any other exit, and an end by a signal from outside.
Ends == {"quit", "refused", "crashed", "killed"}

Init ==
    /\ wrapper = "spawn"
    /\ child = 0
    /\ term = FALSE
    /\ code = "none"
    /\ pending = FALSE
    /\ spawns = 0
    /\ daemon = [d \in Daemons |-> "unborn"]
    /\ pipe \in {"secret", "none"}
    /\ bound = {}
    /\ signals = 0

\* Relay launched the wrapper, with the secret on fd 3.
FromRelay == pipe # "none"

\* SIGTERM or SIGKILL to these daemons: python handles neither.
Killed(ds) == [d \in Daemons |->
                 IF d \in ds /\ daemon[d] \in Alive THEN "killed" ELSE daemon[d]]

-------------------------------------------------------------------------------
(* The shell *)

\* bash runs a pending trap before it goes on, but not in the middle of sleep.
Ready(at) == wrapper = at /\ ~pending

\* `python ... &`
Spawn ==
    /\ Ready("spawn") /\ spawns < MaxSpawns
    /\ spawns' = spawns + 1
    /\ daemon' = [daemon EXCEPT ![spawns + 1] = "starting"]
    /\ wrapper' = "record"
    /\ UNCHANGED <<child, term, code, pending, pipe, bound, signals>>

\* Mutant: $child is the pid after the one that was started.
RecordAhead ==
    /\ Ready("record")
    /\ child' = spawns + 1
    /\ wrapper' = "wait"
    /\ UNCHANGED <<term, code, pending, spawns, daemon, pipe, bound, signals>>

\* `child=$!`
Record ==
    /\ Ready("record")
    /\ child' = spawns
    /\ wrapper' = "wait"
    /\ UNCHANGED <<term, code, pending, spawns, daemon, pipe, bound, signals>>

\* `wait "$child"; code=$?`
Reap ==
    /\ Ready("wait") /\ daemon[child] \in Ends
    /\ code' = daemon[child]
    /\ wrapper' = "judge"
    /\ UNCHANGED <<child, term, pending, spawns, daemon, pipe, bound, signals>>

\* Mutant: exit 78 is an exit like any other.
JudgeAnyFailure ==
    /\ Ready("judge")
    /\ wrapper' = IF term \/ code = "quit" THEN "exited" ELSE "sleep"
    /\ UNCHANGED <<child, term, code, pending, spawns, daemon, pipe, bound,
                   signals>>

\* Mutant: the loop ends on any exit.
JudgeGivesUp ==
    /\ Ready("judge")
    /\ wrapper' = "exited"
    /\ UNCHANGED <<child, term, code, pending, spawns, daemon, pipe, bound,
                   signals>>

\* The two tests after wait: exit 78, a stop signal and a clean exit end the
\* loop; anything else is respawned after a pause.
Judge ==
    /\ Ready("judge")
    /\ wrapper' = IF code = "refused" \/ term \/ code = "quit"
                  THEN "exited" ELSE "sleep"
    /\ UNCHANGED <<child, term, code, pending, spawns, daemon, pipe, bound,
                   signals>>

\* `sleep 2` runs to its end, or dies of a signal to the whole group.
EndSleep ==
    /\ wrapper = "sleep"
    /\ wrapper' = "spawn"
    /\ UNCHANGED <<child, term, code, pending, spawns, daemon, pipe, bound,
                   signals>>

\* Mutant: `trap : TERM INT`.
TrapIgnores ==
    /\ pending /\ wrapper \in {"spawn", "record", "wait", "judge"}
    /\ pending' = FALSE
    /\ IF wrapper = "wait"
       THEN wrapper' = "judge" /\ code' = "signal"
       ELSE UNCHANGED <<wrapper, code>>
    /\ UNCHANGED <<term, daemon, child, spawns, pipe, bound, signals>>

\* Mutant: the signal is noted, and not forwarded.
TrapKeepsChild ==
    /\ pending /\ wrapper \in {"spawn", "record", "wait", "judge"}
    /\ pending' = FALSE
    /\ term' = TRUE
    /\ IF wrapper = "wait"
       THEN wrapper' = "judge" /\ code' = "signal"
       ELSE UNCHANGED <<wrapper, code>>
    /\ UNCHANGED <<daemon, child, spawns, pipe, bound, signals>>

\* shutdown(): note the signal and forward it to the child the shell knows of.
Trap ==
    /\ pending /\ wrapper \in {"spawn", "record", "wait", "judge"}
    /\ pending' = FALSE
    /\ term' = TRUE
    /\ daemon' = Killed({child})
    /\ IF wrapper = "wait"
       THEN wrapper' = "judge" /\ code' = "signal"
       ELSE UNCHANGED <<wrapper, code>>
    /\ UNCHANGED <<child, spawns, pipe, bound, signals>>

Shell == Spawn \/ Record \/ Reap \/ Judge \/ EndSleep \/ Trap

-------------------------------------------------------------------------------
(* A daemon *)

\* Its main thread moves from one of these states to another.
Goes(d, from, to) == daemon[d] = from /\ daemon' = [daemon EXCEPT ![d] = to]

\* Mutant: a launch pipe with nothing left in it is taken for standalone mode.
ReadSecretLeniently(d) ==
    /\ Goes(d, "starting", IF pipe = "secret" THEN "greeting" ELSE "loading")
    /\ pipe' = IF pipe = "secret" THEN "drained" ELSE pipe
    /\ UNCHANGED <<shellVars, spawns, bound, signals>>

\* read_launch_secret: to EOF, for good.  What is left of a drained pipe is no
\* secret, so establish_relay_identity exits with 78.
ReadSecret(d) ==
    /\ CASE pipe = "none"    -> Goes(d, "starting", "loading")
         [] pipe = "secret"  -> Goes(d, "starting", "greeting")
         [] pipe = "drained" -> Goes(d, "starting", "refused")
    /\ pipe' = IF pipe = "secret" THEN "drained" ELSE pipe
    /\ UNCHANGED <<shellVars, spawns, bound, signals>>

\* send_hello: relay accepts the secret ...
Hello(d) ==
    /\ Goes(d, "greeting", "loading")
    /\ bound' = bound \cup {d}
    /\ UNCHANGED <<shellVars, spawns, pipe, signals>>

\* ... or refuses it, answers nonsense, or does not answer in time: exit 78.
HelloFails(d) ==
    /\ Goes(d, "greeting", "refused")
    /\ UNCHANGED <<shellVars, spawns, pipe, bound, signals>>

\* Config() and start(): it serves.
Serve(d) ==
    /\ Goes(d, "loading", "serving")
    /\ UNCHANGED <<shellVars, spawns, pipe, bound, signals>>

\* A bad config or a taken port at start-up, or any crash later on.
Crash(d) ==
    /\ \E at \in Alive : Goes(d, at, "crashed")
    /\ UNCHANGED <<shellVars, spawns, pipe, bound, signals>>

\* The accept loop ends by itself, on a socket error or an idle timeout given
\* in "$@", and main returns: exit 0.
Quit(d) ==
    /\ Goes(d, "serving", "quit")
    /\ UNCHANGED <<shellVars, spawns, pipe, bound, signals>>

Boot(d) == ReadSecret(d) \/ Hello(d) \/ HelloFails(d) \/ Serve(d)

-------------------------------------------------------------------------------
(* Whoever stops the service (external) *)

\* TERM to the wrapper alone, or Ctrl-C: bash starts background jobs with INT
\* ignored, so only the shell sees it.
SignalShell ==
    /\ wrapper \notin {"exited", "killed"}
    /\ signals < MaxSignals
    /\ signals' = signals + 1
    /\ pending' = TRUE
    /\ UNCHANGED <<wrapper, child, term, code, spawns, daemon, pipe, bound>>

\* relay stops the service: TERM to the group ...
SignalGroup ==
    /\ FromRelay /\ wrapper \notin {"exited", "killed"}
    /\ signals < MaxSignals
    /\ signals' = signals + 1
    /\ pending' = TRUE
    /\ daemon' = Killed(Daemons)
    /\ UNCHANGED <<wrapper, child, term, code, spawns, pipe, bound>>

\* ... and, a second later, KILL.
KillGroup ==
    /\ FromRelay /\ signals > 0 /\ wrapper \notin {"exited", "killed"}
    /\ wrapper' = "killed"
    /\ daemon' = Killed(Daemons)
    /\ UNCHANGED <<child, term, code, pending, spawns, pipe, bound, signals>>

-------------------------------------------------------------------------------
\* The wrapper is gone, or has used up the bound.
Over == /\ \/ wrapper \in {"exited", "killed"}
           \/ Ready("spawn") /\ spawns = MaxSpawns
        /\ UNCHANGED vars

Next == \/ Shell
        \/ \E d \in Daemons : Boot(d) \/ Crash(d) \/ Quit(d)
        \/ SignalShell \/ SignalGroup \/ KillGroup
        \/ Over

Safety == Init /\ [][Next]_vars

\* The shell runs on, and a daemon gets through its start-up or ends: every
\* step of it is bounded (Hello has a timeout, EOF follows the secret).
Spec == Safety /\ WF_vars(Shell) /\ \A d \in Daemons : WF_vars(Boot(d))

-------------------------------------------------------------------------------
TypeOK ==
    /\ wrapper \in {"spawn", "record", "wait", "judge", "sleep", "exited", "killed"}
    /\ child \in 0..spawns
    /\ term \in BOOLEAN
    /\ code \in Ends \cup {"none", "signal"}
    /\ pending \in BOOLEAN
    /\ spawns \in 0..MaxSpawns
    /\ daemon \in [Daemons -> Alive \cup Ends \cup {"unborn"}]
    /\ pipe \in {"none", "secret", "drained"}
    /\ bound \in SUBSET Daemons
    /\ signals \in 0..MaxSignals

Living == {d \in Daemons : daemon[d] \in Alive}

(* Two daemons never contend for the port, the launch pipe or voices.json:   *)
(* the only one that can be alive is the one spawned last.                   *)
OneDaemon == Living \subseteq {spawns}

(* A wrapper that ends by itself leaves no daemon behind, at whatever moment *)
(* it is told to stop.                                                       *)
NoOrphans == wrapper = "exited" => Living = {}

(* "Once relay has launched us, the daemon never runs without the identity   *)
(* relay believes it has": only the process whose Hello was accepted serves, *)
(* and relay accepts one secret once.                                        *)
ServesBound ==
    FromRelay => \A d \in Daemons :
        daemon[d] \in {"loading", "serving"} => bound = {d}

(* A refusal is final: after an exit 78 nothing is spawned any more.         *)
RefusalIsFinal == \A d \in Daemons : daemon[d] = "refused" => spawns = d

(* A crash is never the end of it in silence: a daemon that crashed is        *)
(* followed by one that serves, as long as the wrapper is not told to stop and *)
(* has spawns left.  Where relay handed over a secret, this only says that the *)
(* wrapper otherwise exits, which relay sees; it need not heal (SelfHeals).    *)
CrashIsAnswered ==
    \A d \in Daemons :
        (daemon[d] = "crashed" /\ spawns = d) ~>
            \/ \E e \in Daemons : e > d /\ daemon[e] = "serving"
            \/ FromRelay /\ wrapper = "exited"
            \/ signals > 0 \/ spawns = MaxSpawns

(* "Restart it so TTS self-heals instead of staying dead until the next Relay *)
(* launch" (daemon_wrapper.sh): a daemon that crashed is followed by one that *)
(* serves, whoever launched the wrapper, as long as nobody stops it.          *)
SelfHeals ==
    \A d \in Daemons :
        (daemon[d] = "crashed" /\ spawns = d) ~>
            \/ \E e \in Daemons : e > d /\ daemon[e] = "serving"
            \/ signals > 0 \/ spawns = MaxSpawns
===============================================================================
