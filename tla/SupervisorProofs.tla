--------------------------- MODULE SupervisorProofs ---------------------------
(***************************************************************************)
(* The supervisor, for any number of respawns and signals: one daemon at a  *)
(* time, none left behind, none without its identity, none after a refusal. *)
(***************************************************************************)
EXTENDS Supervisor, TLAPS

\* The daemons come one after another: all but the last have ended, and the
\* last one too unless the shell has just forked it or waits for it.
TurnInv ==
    /\ \A d \in Daemons : (d > spawns) <=> (daemon[d] = "unborn")
    /\ \A d \in Daemons : d < spawns => daemon[d] \in Ends \ {"refused"}
    /\ wrapper \notin {"record", "wait"} =>
          \A d \in Daemons : d <= spawns => daemon[d] \in Ends
    /\ wrapper = "record" => spawns > 0
    /\ wrapper \in {"wait", "judge"} => child = spawns /\ spawns > 0

\* What the shell knows of the daemon it waited for.
CodeInv ==
    /\ wrapper = "judge" =>
          \/ code = daemon[child]
          \/ code = "signal" /\ term
    /\ wrapper \in {"sleep", "spawn"} =>
          \A d \in Daemons : daemon[d] # "refused"

\* Who has drained the pipe, and whom relay believes.
SecretInv ==
    FromRelay =>
        /\ pipe \in {"secret", "drained"}
        /\ pipe = "secret" => /\ bound = {}
                              /\ \A d \in Daemons :
                                    daemon[d] \notin {"greeting", "loading", "serving"}
        /\ \A d \in Daemons : daemon[d] = "greeting" => bound = {}
        /\ \A d \in Daemons : daemon[d] \in {"loading", "serving"} => bound = {d}

SupInv == TypeOK /\ TurnInv /\ CodeInv /\ SecretInv

LEMMA SupInit == Init => SupInv
  <1> SUFFICES ASSUME Init PROVE SupInv
    OBVIOUS
  <1> USE SpawnAssumption DEF Init
  <1>1. TypeOK
    <2>1. pipe \in {"none", "secret", "drained"}
      OBVIOUS
    <2>2. daemon \in [Daemons -> Alive \cup Ends \cup {"unborn"}]
      OBVIOUS
    <2>3. child \in 0..spawns /\ spawns \in 0..MaxSpawns /\ signals \in 0..MaxSignals
      OBVIOUS
    <2> QED
      BY <2>1, <2>2, <2>3 DEF TypeOK
  <1>2. TurnInv /\ CodeInv
    BY DEF TurnInv, CodeInv, Daemons
  <1>3. SecretInv
    BY DEF SecretInv, FromRelay
  <1> QED
    BY <1>1, <1>2, <1>3 DEF SupInv

\* A signal to a set of daemons ends those of them that live.
LEMMA KilledState ==
    ASSUME NEW ds, daemon \in [Daemons -> Alive \cup Ends \cup {"unborn"}],
           daemon' = Killed(ds)
    PROVE  /\ daemon' \in [Daemons -> Alive \cup Ends \cup {"unborn"}]
           /\ \A d \in Daemons :
                 \/ daemon'[d] = daemon[d]
                 \/ daemon[d] \in Alive /\ daemon'[d] = "killed"
           /\ \A d \in Daemons : d \in ds => daemon'[d] \notin Alive
  BY DEF Killed, Alive, Ends

LEMMA SpawnStep == SupInv /\ Spawn => SupInv'
  <1> SUFFICES ASSUME SupInv, Spawn PROVE SupInv'
    OBVIOUS
  <1> USE SpawnAssumption DEF SupInv, Spawn, Ready
  <1>1. TypeOK'
    BY DEF TypeOK, Daemons, Alive
  <1>2. TurnInv'
    BY DEF TypeOK, TurnInv, CodeInv, Daemons, Ends
  <1>3. CodeInv'
    BY DEF CodeInv
  <1>4. SecretInv'
    BY DEF TypeOK, SecretInv, FromRelay, Daemons
  <1> QED
    BY <1>1, <1>2, <1>3, <1>4

LEMMA ShellStep == SupInv /\ (Record \/ Reap \/ Judge \/ EndSleep) => SupInv'
  <1> SUFFICES ASSUME SupInv, Record \/ Reap \/ Judge \/ EndSleep PROVE SupInv'
    OBVIOUS
  <1> USE SpawnAssumption DEF SupInv, Ready
  <1>1. UNCHANGED <<spawns, daemon, pipe, bound, signals>>
    BY DEF Record, Reap, Judge, EndSleep
  <1>2. SecretInv'
    BY <1>1 DEF SecretInv, FromRelay
  <1>3. CASE Record
    BY <1>1, <1>2, <1>3 DEF Record, TypeOK, TurnInv, CodeInv
  <1>4. CASE Reap
    <2>1. child \in Daemons
      BY <1>4 DEF Reap, TypeOK, TurnInv, Daemons
    <2>2. TypeOK'
      BY <1>1, <1>4 DEF Reap, TypeOK
    <2>3. TurnInv'
      BY <1>1, <1>4, <2>1 DEF Reap, TypeOK, TurnInv, Daemons
    <2>4. CodeInv'
      BY <1>1, <1>4 DEF Reap, CodeInv
    <2> QED
      BY <1>2, <2>2, <2>3, <2>4
  <1>5. CASE Judge
    <2>1. TypeOK'
      BY <1>1, <1>5 DEF Judge, TypeOK
    <2>2. TurnInv'
      BY <1>1, <1>5 DEF Judge, TurnInv
    <2>3. ASSUME wrapper' \in {"sleep", "spawn"}, NEW d \in Daemons
          PROVE  daemon[d] # "refused"
      <3>1. code # "refused" /\ ~term /\ code = daemon[child] /\ child = spawns
        BY <1>5, <2>3 DEF Judge, CodeInv, TurnInv
      <3>2. CASE d < spawns
        BY <3>2 DEF TurnInv
      <3>3. CASE d > spawns
        BY <3>3 DEF TurnInv
      <3> QED
        BY <3>1, <3>2, <3>3 DEF TypeOK, Daemons
    <2>4. CodeInv'
      BY <1>1, <1>5, <2>3 DEF Judge, CodeInv
    <2> QED
      BY <1>2, <2>1, <2>2, <2>4
  <1>6. CASE EndSleep
    BY <1>1, <1>2, <1>6 DEF EndSleep, TypeOK, TurnInv, CodeInv
  <1> QED
    BY <1>3, <1>4, <1>5, <1>6

\* A signal changes which daemons live, and nothing that TurnInv forbids.
LEMMA SignalStep ==
    ASSUME SupInv, Trap \/ SignalShell \/ SignalGroup \/ KillGroup
    PROVE  SupInv'
  <1> USE SpawnAssumption DEF SupInv
  <1>1. UNCHANGED <<child, spawns, pipe, bound>>
    BY DEF Trap, SignalShell, SignalGroup, KillGroup
  <1>2. /\ daemon' \in [Daemons -> Alive \cup Ends \cup {"unborn"}]
        /\ \A d \in Daemons :
              \/ daemon'[d] = daemon[d]
              \/ daemon[d] \in Alive /\ daemon'[d] = "killed"
    <2>1. daemon \in [Daemons -> Alive \cup Ends \cup {"unborn"}]
      BY DEF TypeOK
    <2>2. daemon' = daemon \/ \E ds \in {{child}, Daemons} : daemon' = Killed(ds)
      BY DEF Trap, SignalShell, SignalGroup, KillGroup
    <2>3. CASE daemon' = daemon
      BY <2>1, <2>3
    <2>4. CASE \E ds \in {{child}, Daemons} : daemon' = Killed(ds)
      <3>1. PICK ds \in {{child}, Daemons} : daemon' = Killed(ds)
        BY <2>4
      <3> QED
        BY <2>1, <3>1, KilledState
    <2> QED
      BY <2>2, <2>3, <2>4
  <1>3. TypeOK'
    <2>1. signals' \in 0..MaxSignals
      BY DEF TypeOK, Trap, SignalShell, SignalGroup, KillGroup
    <2>2. /\ term' \in BOOLEAN /\ pending' \in BOOLEAN
          /\ code' \in Ends \cup {"none", "signal"}
          /\ wrapper' \in {"spawn", "record", "wait", "judge", "sleep",
                           "exited", "killed"}
      <3>1. CASE Trap
        BY <3>1 DEF TypeOK, Trap
      <3>2. CASE SignalShell \/ SignalGroup
        BY <3>2 DEF TypeOK, SignalShell, SignalGroup
      <3>3. CASE KillGroup
        BY <3>3 DEF TypeOK, KillGroup
      <3> QED
        BY <3>1, <3>2, <3>3
    <2> QED
      BY <1>1, <1>2, <2>1, <2>2 DEF TypeOK
  <1>4. SecretInv'
    BY <1>1, <1>2 DEF SecretInv, FromRelay
  <1>5. /\ \A d \in Daemons : (d > spawns) <=> (daemon'[d] = "unborn")
        /\ \A d \in Daemons : d < spawns => daemon'[d] \in Ends \ {"refused"}
        /\ \A d \in Daemons : daemon[d] \in Ends => daemon'[d] = daemon[d]
        /\ \A d \in Daemons : daemon[d] # "refused" => daemon'[d] # "refused"
    BY <1>2 DEF TurnInv, Alive, Ends
  <1>6. CASE SignalShell \/ SignalGroup
    <2>1. UNCHANGED <<wrapper, term, code>>
      BY <1>6 DEF SignalShell, SignalGroup
    <2>2. TurnInv'
      BY <1>1, <1>5, <2>1 DEF TurnInv
    <2>3. CodeInv'
      <3>1. wrapper = "judge" => daemon'[child] = daemon[child]
        BY <1>5 DEF TurnInv, TypeOK, Daemons
      <3> QED
        BY <1>1, <1>5, <2>1, <3>1 DEF CodeInv
    <2> QED
      BY <1>3, <1>4, <2>2, <2>3
  <1>7. CASE KillGroup
    <2>1. \A d \in Daemons : daemon'[d] \notin Alive
      BY <1>7, KilledState DEF KillGroup, TypeOK
    <2>2. \A d \in Daemons : d <= spawns => daemon'[d] \in Ends
      <3>1. ASSUME NEW d \in Daemons, d <= spawns PROVE daemon'[d] \in Ends
        <4>1. daemon[d] # "unborn"
          BY <3>1 DEF TurnInv, TypeOK, Daemons
        <4> QED
          BY <1>2, <2>1, <3>1, <4>1 DEF Alive, Ends
      <3> QED
        BY <3>1
    <2>3. wrapper' = "killed"
      BY <1>7 DEF KillGroup
    <2>4. TurnInv' /\ CodeInv'
      BY <1>1, <1>5, <2>2, <2>3 DEF TurnInv, CodeInv
    <2> QED
      BY <1>3, <1>4, <2>4
  <1>8. CASE Trap
    <2>1. CASE wrapper = "wait"
      <3>1. wrapper' = "judge" /\ code' = "signal" /\ term'
        BY <1>8, <2>1 DEF Trap
      <3>2. child = spawns /\ child \in Daemons
        BY <2>1 DEF TurnInv, TypeOK, Daemons
      <3>3. daemon'[child] \notin Alive
        BY <1>8, <3>2, KilledState DEF Trap, TypeOK
      <3>4. \A d \in Daemons : d <= spawns => daemon'[d] \in Ends
        <4>1. ASSUME NEW d \in Daemons, d <= spawns PROVE daemon'[d] \in Ends
          <5>1. CASE d < spawns
            BY <1>5, <5>1
          <5>2. CASE d = spawns
            <6>1. daemon'[d] # "unborn" /\ daemon'[d] \notin Alive
              BY <1>5, <3>2, <3>3, <5>2 DEF TypeOK, Daemons
            <6> QED
              BY <1>2, <6>1
          <5> QED
            BY <4>1, <5>1, <5>2 DEF TypeOK, Daemons
        <4> QED
          BY <4>1
      <3>5. TurnInv' /\ CodeInv'
        BY <1>1, <1>5, <2>1, <3>1, <3>2, <3>4 DEF TurnInv, CodeInv
      <3> QED
        BY <1>3, <1>4, <3>5
    <2>2. CASE wrapper # "wait"
      <3>1. UNCHANGED <<wrapper, code>> /\ term'
        BY <1>8, <2>2 DEF Trap
      <3>2. TurnInv'
        BY <1>1, <1>5, <3>1 DEF TurnInv
      <3>3. wrapper = "judge" => daemon'[child] = daemon[child]
        BY <1>5 DEF TurnInv, TypeOK, Daemons
      <3>4. CodeInv'
        BY <1>1, <1>5, <3>1, <3>3 DEF CodeInv
      <3> QED
        BY <1>3, <1>4, <3>2, <3>4
    <2> QED
      BY <2>1, <2>2
  <1> QED
    BY <1>6, <1>7, <1>8

LEMMA DaemonStep ==
    ASSUME SupInv, NEW d \in Daemons, Boot(d) \/ Crash(d) \/ Quit(d)
    PROVE  SupInv'
  <1> USE SpawnAssumption DEF SupInv
  <1>1. UNCHANGED <<shellVars, spawns, signals>>
    BY DEF Boot, ReadSecret, Hello, HelloFails, Serve, Crash, Quit
  <1>2. PICK to \in (Alive \cup Ends) \ {"starting", "unborn"} :
           /\ daemon[d] \in Alive
           /\ daemon' = [daemon EXCEPT ![d] = to]
    <2>1. \E from \in Alive, to \in (Alive \cup Ends) \ {"starting", "unborn"} :
             Goes(d, from, to)
      <3>1. CASE ReadSecret(d)
        BY <3>1 DEF ReadSecret, Alive, Ends, TypeOK
      <3>2. CASE Hello(d) \/ HelloFails(d) \/ Serve(d) \/ Crash(d) \/ Quit(d)
        BY <3>2 DEF Hello, HelloFails, Serve, Crash, Quit, Alive, Ends
      <3> QED
        BY <3>1, <3>2 DEF Boot
    <2> QED
      BY <2>1 DEF Goes
  <1>3. d = spawns /\ spawns \in Nat /\ wrapper \in {"record", "wait"}
    <2>1. d >= spawns /\ d <= spawns
      BY <1>2 DEF TurnInv, TypeOK, Daemons, Alive, Ends
    <2> QED
      BY <1>2, <2>1 DEF TurnInv, TypeOK, Daemons, Alive, Ends
  <1>4. TypeOK'
    <2>1. pipe' \in {"none", "secret", "drained"} /\ bound' \in SUBSET Daemons
      BY DEF TypeOK, Boot, ReadSecret, Hello, HelloFails, Serve, Crash, Quit
    <2> QED
      BY <1>1, <1>2, <2>1 DEF TypeOK, shellVars
  <1>5. TurnInv'
    BY <1>1, <1>2, <1>3 DEF TurnInv, TypeOK, shellVars, Daemons, Alive, Ends
  <1>6. CodeInv'
    BY <1>1, <1>3 DEF CodeInv, shellVars
  <1>7. \A e \in Daemons : e # d => daemon'[e] = daemon[e] /\ daemon[e] \notin Alive
    <2>1. ASSUME NEW e \in Daemons, e # d PROVE daemon[e] \notin Alive
      BY <1>3, <2>1 DEF TurnInv, Daemons, Alive, Ends
    <2> QED
      BY <1>2, <2>1 DEF TypeOK
  <1>8. SecretInv'
    <2>1. CASE ReadSecret(d)
      BY <2>1, <1>7 DEF ReadSecret, Goes, SecretInv, FromRelay, TypeOK, Alive
    <2>2. CASE Hello(d)
      BY <2>2, <1>7 DEF Hello, Goes, SecretInv, FromRelay, TypeOK, Alive
    <2>3. CASE HelloFails(d)
      BY <2>3, <1>7 DEF HelloFails, Goes, SecretInv, FromRelay, TypeOK, Alive
    <2>4. CASE Serve(d)
      BY <2>4, <1>7 DEF Serve, Goes, SecretInv, FromRelay, TypeOK, Alive
    <2>5. CASE Crash(d) \/ Quit(d)
      BY <2>5, <1>7 DEF Crash, Quit, Goes, SecretInv, FromRelay, TypeOK, Alive
    <2> QED
      BY <2>1, <2>2, <2>3, <2>4, <2>5 DEF Boot
  <1> QED
    BY <1>4, <1>5, <1>6, <1>8

LEMMA SupNext == SupInv /\ [Next]_vars => SupInv'
  <1> SUFFICES ASSUME SupInv, [Next]_vars PROVE SupInv'
    OBVIOUS
  <1>1. CASE UNCHANGED vars
    BY <1>1 DEF vars, shellVars, SupInv, TypeOK, TurnInv, CodeInv, SecretInv,
                FromRelay
  <1> QED
    BY <1>1, SpawnStep, ShellStep, SignalStep, DaemonStep DEF Next, Shell, Over

\* The invariant from which the theorems below follow.
THEOREM Supervised == Safety => []SupInv
  BY SupInit, SupNext, PTL DEF Safety

(* TypeOK of Supervisor, for every bound.                                    *)
THEOREM TypeCorrect == Safety => []TypeOK
  <1>1. SupInv => TypeOK
    BY DEF SupInv
  <1> QED
    BY <1>1, Supervised, PTL

(* The shell never has two daemons running: daemon_wrapper.sh spawns only    *)
(* after wait has told it that the last one ended, or it has been killed.    *)
THEOREM OneAtATime == Safety => []OneDaemon
  <1>1. SupInv => OneDaemon
    BY DEF SupInv, TypeOK, TurnInv, OneDaemon, Living, Daemons, Alive, Ends
  <1> QED
    BY <1>1, Supervised, PTL

(* However the loop of daemon_wrapper.sh ends, no daemon outlives it.        *)
THEOREM NobodyLeft == Safety => []NoOrphans
  <1>1. SupInv => NoOrphans
    BY DEF SupInv, TypeOK, TurnInv, NoOrphans, Living, Daemons, Alive, Ends
  <1> QED
    BY <1>1, Supervised, PTL

(* establish_relay_identity fails closed across respawns: what serves is the *)
(* one process whose Hello relay accepted.                                   *)
THEOREM NeverAnonymous == Safety => []ServesBound
  <1>1. SupInv => ServesBound
    BY DEF SupInv, SecretInv, ServesBound
  <1> QED
    BY <1>1, Supervised, PTL

(* After exit 78 the wrapper spawns nothing more.                            *)
THEOREM RefusalEndsIt == Safety => []RefusalIsFinal
  <1>1. SupInv => RefusalIsFinal
    BY DEF SupInv, TypeOK, TurnInv, RefusalIsFinal, Daemons, Ends
  <1> QED
    BY <1>1, Supervised, PTL

-------------------------------------------------------------------------------
(* What the promise CrashIsAnswered rests on besides fairness, and how far    *)
(* the wrapper keeps its word that a stop signal ends the loop.               *)

\* Why the loop has ended.
GaveUp ==
    wrapper = "exited" =>
        \/ term /\ signals > 0
        \/ spawns \in Daemons /\ daemon[spawns] \in {"quit", "refused"}

\* A stop signal that has been handled is one that was sent, and ends the loop.
TermInv ==
    /\ term \/ pending => signals > 0
    /\ term => wrapper # "sleep"

LEMMA JudgeGivesUpRightly == SupInv /\ TermInv /\ Judge => GaveUp'
  <1> SUFFICES ASSUME SupInv, TermInv, Judge, wrapper' = "exited"
               PROVE  \/ term /\ signals > 0
                      \/ spawns \in Daemons /\ daemon[spawns] \in {"quit", "refused"}
    BY DEF GaveUp, Judge
  <1>1. code = "refused" \/ term \/ code = "quit"
    BY DEF Judge
  <1>2. /\ child = spawns /\ spawns > 0 /\ spawns \in 0..MaxSpawns
        /\ code = daemon[child] \/ (code = "signal" /\ term)
    BY DEF SupInv, TypeOK, TurnInv, CodeInv, Judge, Ready
  <1>3. spawns \in Daemons
    BY <1>2, SpawnAssumption DEF Daemons
  <1> QED
    BY <1>1, <1>2, <1>3 DEF TermInv

\* A daemon that has ended has ended.
LEMMA EndsStay ==
    ASSUME SupInv, NEW d \in Daemons,
           \/ Trap \/ SignalGroup \/ KillGroup
           \/ \E e \in Daemons : Boot(e) \/ Crash(e) \/ Quit(e)
    PROVE  daemon[d] \in {"quit", "refused"} => daemon'[d] = daemon[d]
  <1>1. daemon \in [Daemons -> Alive \cup Ends \cup {"unborn"}]
    BY DEF SupInv, TypeOK
  <1>2. ASSUME NEW ds, daemon' = Killed(ds)
        PROVE  daemon[d] \in {"quit", "refused"} => daemon'[d] = daemon[d]
    BY <1>1, <1>2, KilledState DEF Alive
  <1>3. CASE Trap \/ SignalGroup \/ KillGroup
    BY <1>2, <1>3 DEF Trap, SignalGroup, KillGroup
  <1>4. ASSUME NEW e \in Daemons, Boot(e) \/ Crash(e) \/ Quit(e)
        PROVE  daemon[d] \in {"quit", "refused"} => daemon'[d] = daemon[d]
    <2>1. \E at \in Alive, to \in Alive \cup Ends : Goes(e, at, to)
      <3>1. pipe \in {"none", "secret", "drained"}
        BY DEF SupInv, TypeOK
      <3>2. CASE ReadSecret(e)
        BY <3>1, <3>2 DEF ReadSecret, Goes, Alive, Ends
      <3>3. CASE Hello(e) \/ HelloFails(e) \/ Serve(e) \/ Crash(e) \/ Quit(e)
        BY <3>3 DEF Hello, HelloFails, Serve, Crash, Quit, Goes, Alive, Ends
      <3> QED
        BY <1>4, <3>2, <3>3 DEF Boot
    <2> QED
      BY <1>1, <2>1 DEF Goes, Alive
  <1> QED
    BY <1>3, <1>4

\* Once the loop has ended, no step of a daemon or of a signal brings it back.
LEMMA LoopNext == SupInv /\ GaveUp /\ TermInv /\ [Next]_vars => GaveUp' /\ TermInv'
  <1> SUFFICES ASSUME SupInv, GaveUp, TermInv, [Next]_vars PROVE GaveUp' /\ TermInv'
    OBVIOUS
  <1> USE DEF shellVars
  <1>0. signals \in Nat
    BY SpawnAssumption DEF SupInv, TypeOK
  <1>1. CASE Judge
    BY <1>1, JudgeGivesUpRightly DEF Judge, Ready, TermInv
  <1>2. CASE Spawn \/ Record \/ Reap \/ EndSleep
    BY <1>2 DEF Spawn, Record, Reap, EndSleep, Ready, GaveUp, TermInv
  <1>3. CASE Trap
    BY <1>3 DEF Trap, GaveUp, TermInv
  <1>4. CASE SignalShell \/ SignalGroup \/ KillGroup
    BY <1>0, <1>4 DEF SignalShell, SignalGroup, KillGroup, GaveUp, TermInv
  <1>5. CASE \E d \in Daemons : Boot(d) \/ Crash(d) \/ Quit(d)
    <2>1. UNCHANGED <<wrapper, term, pending, spawns, signals>>
      BY <1>5 DEF Boot, ReadSecret, Hello, HelloFails, Serve, Crash, Quit
    <2>2. \A d \in Daemons : daemon[d] \in {"quit", "refused"} => daemon'[d] = daemon[d]
      BY <1>5, EndsStay
    <2> QED
      BY <2>1, <2>2 DEF GaveUp, TermInv
  <1>6. CASE UNCHANGED vars
    BY <1>6 DEF vars, GaveUp, TermInv
  <1> QED
    BY <1>1, <1>2, <1>3, <1>4, <1>5, <1>6 DEF Next, Shell, Over

(* "Only an unexpected exit (crash) triggers a respawn; a clean exit or a     *)
(* stop signal ends the loop" (daemon_wrapper.sh), and nothing else does: the *)
(* wrapper never exits after a crash or a kill unless it was told to stop.    *)
THEOREM GivesUpRightly == Safety => []GaveUp
  <1>1. Init => GaveUp /\ TermInv
    BY DEF Init, GaveUp, TermInv
  <1> QED
    BY <1>1, LoopNext, Supervised, PTL DEF Safety

\* The daemons that can still be spawned once the trap has run.
StillToCome == IF wrapper = "spawn" THEN 1 ELSE 0

(* A stop signal handled between two daemons, when the pause is over, lets    *)
(* the shell spawn one more, which it waits for; never a second one, however  *)
(* that one ends.                                                             *)
THEOREM OneMoreAtMost ==
    Safety => [][term => /\ term'
                         /\ StillToCome' + (spawns' - spawns) <= StillToCome]_vars
  <1>1. Init => GaveUp /\ TermInv
    BY DEF Init, GaveUp, TermInv
  <1>2. ASSUME SupInv, TermInv, term, [Next]_vars
        PROVE  term' /\ StillToCome' + (spawns' - spawns) <= StillToCome
    <2> USE <1>2 DEF StillToCome, shellVars
    <2>0. spawns \in Nat
      BY SpawnAssumption DEF SupInv, TypeOK
    <2>1. CASE Spawn
      BY <2>0, <2>1 DEF Spawn, Ready
    <2>2. CASE Record \/ Reap \/ Judge \/ EndSleep
      <3>1. /\ UNCHANGED <<term, spawns>>
            /\ wrapper' \in {"wait", "judge", "exited", "sleep", "spawn"}
            /\ wrapper' = "spawn" => wrapper = "sleep"
        BY <2>2 DEF Record, Reap, Judge, EndSleep
      <3>2. wrapper' # "spawn"
        BY <3>1 DEF TermInv
      <3> QED
        BY <2>0, <3>1, <3>2
    <2>3. CASE Trap
      BY <2>0, <2>3 DEF Trap
    <2>4. CASE SignalShell \/ SignalGroup \/ KillGroup
      <3>1. /\ UNCHANGED <<term, spawns>>
            /\ wrapper' \in {wrapper, "killed"}
        BY <2>4 DEF SignalShell, SignalGroup, KillGroup
      <3> QED
        BY <2>0, <3>1
    <2>5. CASE \E d \in Daemons : Boot(d) \/ Crash(d) \/ Quit(d)
      <3>1. UNCHANGED <<wrapper, term, spawns>>
        BY <2>5 DEF Boot, ReadSecret, Hello, HelloFails, Serve, Crash, Quit
      <3> QED
        BY <2>0, <3>1
    <2>6. CASE UNCHANGED vars
      BY <2>0, <2>6 DEF vars
    <2> QED
      BY <2>1, <2>2, <2>3, <2>4, <2>5, <2>6 DEF Next, Shell, Over
  <1>3. SupInv /\ TermInv /\ [Next]_vars =>
          [term => /\ term'
                   /\ StillToCome' + (spawns' - spawns) <= StillToCome]_vars
    BY <1>2
  <1> QED
    BY <1>1, <1>3, LoopNext, Supervised, PTL DEF Safety
===============================================================================
