--------------------------- MODULE LogWindowProofs ----------------------------
(***************************************************************************)
(* The end of the debug window, for any number of concurrent calls of       *)
(* Logger.log: it is announced at most once, and after the announcement no  *)
(* new call writes a debug line.                                            *)
(***************************************************************************)
EXTENDS LogWindow, TLAPS

LockInv == \A c \in Calls : lock = c <=> pc[c] \in {"close", "lower", "unlock"}

\* The call that closed the window and has not said so yet.
Owes(c) == expired[c] /\ pc[c] \in {"close", "lower", "unlock", "warn"}

OwesInv ==
    /\ \A c, d \in Calls : Owes(c) /\ Owes(d) => c = d
    /\ \A c \in Calls : Owes(c) => warnings = 0
    /\ \A c \in Calls : pc[c] \in {"close", "lower", "warn"} => expired[c]

WindowInv ==
    /\ warnings \in {0, 1}
    /\ window => warnings = 0
    /\ \A c \in Calls : window /\ Owes(c) => pc[c] = "close"

LevelInv ==
    /\ warnings = 1 => level = "info"
    /\ \A c \in Calls : Owes(c) /\ pc[c] \in {"unlock", "warn"} => level = "info"

LateInv ==
    \A c \in Calls :
        /\ late[c] => warnings = 1
        /\ late[c] /\ want[c] = "debug" => pc[c] # "write" /\ result[c] # "written"
        /\ pc[c] # "done" => result[c] = "none"

IInv == TypeOK /\ LockInv /\ OwesInv /\ WindowInv /\ LevelInv /\ LateInv

\* Steps that leave the window, its lock and its announcement alone.
LEMMA PlainStep ==
    ASSUME IInv, NEW c \in Calls,
           \/ Check(c) \/ Clock(c) \/ Filter(c) \/ Write(c)
           \/ \E l \in Levels : Begin(c, l)
    PROVE  IInv'
  <1> USE DEF IInv, shared, Goto, Return, Check, Clock, Filter, Write, Begin
  <1>1. TypeOK'
    <2>1. CASE Check(c) \/ Write(c)
      BY <2>1 DEF TypeOK, Points
    <2>2. CASE Clock(c)
      BY <2>2 DEF TypeOK, Points
    <2>3. CASE Filter(c)
      BY <2>3 DEF TypeOK, Points
    <2>4. ASSUME NEW l \in Levels, Begin(c, l) PROVE TypeOK'
      BY <2>4 DEF TypeOK, Points
    <2> QED
      BY <2>1, <2>2, <2>3, <2>4
  <1>2. /\ UNCHANGED <<window, level, elapsed, lock, expired, warnings>>
        /\ \A d \in Calls : d # c => pc'[d] = pc[d] /\ late'[d] = late[d]
                               /\ want'[d] = want[d] /\ result'[d] = result[d]
        /\ pc[c] \in {"idle", "check", "clock", "filter", "write"}
        /\ pc'[c] \in {"check", "clock", "lock", "filter", "write", "done"}
    BY DEF TypeOK
  <1>3. \A d \in Calls : Owes(d)' = Owes(d) /\ (Owes(d) => d # c)
    BY <1>2 DEF Owes
  <1>4. LockInv'
    BY <1>2 DEF LockInv
  <1>5. OwesInv' /\ WindowInv' /\ LevelInv'
    BY <1>2, <1>3 DEF OwesInv, WindowInv, LevelInv
  <1>6. LateInv'
    <2>1. ASSUME NEW d \in Calls, d # c PROVE LateInv!(d)'
      BY <1>2, <2>1 DEF LateInv
    <2>2. LateInv!(c)'
      BY DEF LateInv, LevelInv, WindowInv, TypeOK, Rank, Levels
    <2> QED
      BY <2>1, <2>2 DEF LateInv
  <1> QED
    BY <1>1, <1>4, <1>5, <1>6

LEMMA TakeLockStep ==
    ASSUME IInv, NEW c \in Calls, TakeLock(c)
    PROVE  IInv'
  <1> USE DEF IInv, TakeLock, Goto
  <1>1. TypeOK'
    BY DEF TypeOK, Points
  <1>2. /\ UNCHANGED <<window, level, want, result, warnings, late>>
        /\ \A d \in Calls : d # c => pc'[d] = pc[d] /\ expired'[d] = expired[d]
        /\ pc'[c] = IF window THEN "close" ELSE "unlock"
        /\ expired'[c] = window /\ lock' = c /\ pc[c] = "lock"
    BY DEF TypeOK
  <1>3. \A d \in Calls : pc[d] \notin {"close", "lower", "unlock"}
    BY LogAssumption DEF LockInv
  <1>4. window => \A d \in Calls : ~Owes(d)
    BY <1>3 DEF WindowInv
  <1>5. \A d \in Calls : d # c => Owes(d)' = Owes(d)
    BY <1>2 DEF Owes
  <1>6. Owes(c)' <=> window
    BY <1>2 DEF Owes
  <1>7. LockInv'
    BY <1>2, <1>3 DEF LockInv
  <1>8. OwesInv' /\ WindowInv' /\ LevelInv'
    BY <1>2, <1>4, <1>5, <1>6 DEF OwesInv, WindowInv, LevelInv
  <1>9. LateInv'
    BY <1>2 DEF LateInv
  <1> QED
    BY <1>1, <1>7, <1>8, <1>9

\* Steps of the call that holds the lock, or has just let go of it.
LEMMA ClosingStep ==
    ASSUME IInv, NEW c \in Calls,
           CloseWindow(c) \/ LowerLevel(c) \/ Unlock(c) \/ Warn(c)
    PROVE  IInv'
  <1> USE DEF IInv, CloseWindow, LowerLevel, Unlock, Warn, Goto, shared
  <1>1. TypeOK'
    <2>1. "info" \in Levels
      BY DEF Levels, Rank
    <2>2. CASE CloseWindow(c) \/ LowerLevel(c)
      BY <2>1, <2>2 DEF TypeOK, Points, LevelAfter
    <2>3. CASE Unlock(c) \/ Warn(c)
      BY <2>3 DEF TypeOK, Points
    <2> QED
      BY <2>2, <2>3
  <1>2. /\ UNCHANGED <<want, expired, result, late>>
        /\ \A d \in Calls : d # c => pc'[d] = pc[d]
        /\ pc[c] \in {"close", "lower", "unlock", "warn"}
        /\ \/ /\ pc[c] = "close" /\ pc'[c] = "lower" /\ ~window'
              /\ UNCHANGED <<level, lock, warnings>>
           \/ /\ pc[c] = "lower" /\ pc'[c] = "unlock" /\ level' = "info"
              /\ UNCHANGED <<window, lock, warnings>>
           \/ /\ pc[c] = "unlock" /\ lock' = NoCall
              /\ pc'[c] = IF expired[c] THEN "warn" ELSE "filter"
              /\ UNCHANGED <<window, level, warnings>>
           \/ /\ pc[c] = "warn" /\ pc'[c] = "filter" /\ warnings' = warnings + 1
              /\ UNCHANGED <<window, level, lock>>
    BY DEF TypeOK, LevelAfter
  <1>3. \A d \in Calls : d # c => Owes(d)' = Owes(d)
    BY <1>2 DEF Owes
  <1>4. \A d \in Calls : d # c /\ Owes(c) => ~Owes(d)
    BY DEF OwesInv
  <1>5. LockInv'
    BY <1>2, LogAssumption DEF LockInv, TypeOK
  <1>6. OwesInv'
    <2>1. Owes(c)' => Owes(c)
      BY <1>2 DEF Owes
    <2>2. CASE pc[c] = "warn"
      <3>1. Owes(c) /\ ~Owes(c)' /\ \A d \in Calls : ~Owes(d)'
        BY <1>2, <1>3, <1>4, <2>2 DEF Owes, OwesInv
      <3> QED
        BY <1>2, <3>1, <2>2 DEF OwesInv
    <2>3. CASE pc[c] # "warn"
      <3>1. warnings' = warnings
        BY <1>2, <2>3
      <3> QED
        BY <1>2, <1>3, <2>1, <2>3, <3>1 DEF OwesInv
    <2> QED
      BY <2>2, <2>3
  <1>7. WindowInv'
    BY <1>2, <1>3, <1>4 DEF WindowInv, OwesInv, Owes
  <1>8. LevelInv'
    BY <1>2, <1>3, <1>4 DEF LevelInv, WindowInv, OwesInv, Owes
  <1>9. LateInv'
    BY <1>2 DEF LateInv, WindowInv, OwesInv, Owes
  <1> QED
    BY <1>1, <1>5, <1>6, <1>7, <1>8, <1>9

LEMMA InitInv == Init => IInv
  <1> SUFFICES ASSUME Init PROVE IInv
    OBVIOUS
  <1>1. TypeOK
    BY LogAssumption DEF Init, TypeOK, Points, Levels, Rank
  <1> QED
    BY <1>1, LogAssumption DEF Init, IInv, LockInv, OwesInv, Owes, WindowInv,
                               LevelInv, LateInv

LEMMA NextInv == IInv /\ [Next]_vars => IInv'
  <1> SUFFICES ASSUME IInv, [Next]_vars PROVE IInv'
    OBVIOUS
  <1>1. CASE Elapse
    BY <1>1 DEF Elapse, IInv, TypeOK, LockInv, OwesInv, Owes, WindowInv,
                LevelInv, LateInv
  <1>2. CASE UNCHANGED vars
    BY <1>2 DEF vars, shared, IInv, TypeOK, LockInv, OwesInv, Owes, WindowInv,
                LevelInv, LateInv
  <1> QED
    BY <1>1, <1>2, PlainStep, TakeLockStep, ClosingStep DEF Next, Step, AllDone

\* The invariant of Logger.log from which the theorems below follow.
THEOREM Invariance == Safety => []IInv
  BY InitInv, NextInv, PTL DEF Safety

(* The end of the debug window is announced at most once, however many       *)
(* threads find it over at the same time: _start is read again under _lock.  *)
THEOREM OneWarning == Safety => []AtMostOneWarning
  <1>1. IInv => AtMostOneWarning
    BY DEF IInv, WindowInv, AtMostOneWarning
  <1> QED
    BY <1>1, Invariance, PTL

(* No call that begins after the announcement writes a debug line.           *)
THEOREM DebugIsOver == Safety => []DebugEnds
  <1>1. IInv => DebugEnds
    BY DEF IInv, LateInv, DebugEnds
  <1> QED
    BY <1>1, Invariance, PTL

(* The fields and locals of Logger.log keep their types.                     *)
THEOREM TypeCorrect == Safety => []TypeOK
  <1>1. IInv => TypeOK
    BY DEF IInv
  <1> QED
    BY <1>1, Invariance, PTL

-------------------------------------------------------------------------------
\* The level is that of the start until the window has been closed on the clock.
FilterInv ==
    /\ StartLevel # "debug" => ~window /\ level = StartLevel
    /\ level \in {StartLevel, "info"}
    /\ level # StartLevel => elapsed /\ ~window
    /\ StartLevel = "debug" /\ ~window => elapsed
    /\ \A c \in Calls : /\ pc[c] \in {"lock", "close", "lower"} => elapsed
                        /\ pc[c] = "lower" => ~window /\ StartLevel = "debug"
                        /\ pc[c] = "close" => StartLevel = "debug"
                        /\ pc[c] = "clock" => StartLevel = "debug" /\ ~late[c]
    /\ Filtering

LEMMA FilterStep ==
    ASSUME IInv, FilterInv, NEW c \in Calls, Filter(c)
    PROVE  FilterInv'
  <1> USE DEF Filter, Goto, Return, shared
  <1>1. /\ UNCHANGED <<window, level, elapsed, want, late>>
        /\ pc[c] = "filter" /\ pc' = [pc EXCEPT ![c] = pc'[c]]
        /\ pc'[c] \in {"write", "done"}
        /\ \A d \in Calls : d # c => result'[d] = result[d]
        /\ result'[c] \in {result[c], "dropped"}
        /\ result'[c] # result[c] => Rank[want[c]] > Rank[level]
    BY DEF IInv, TypeOK
  <1>2. result[c] = "none"
    BY <1>1 DEF IInv, LateInv
  <1>3. ASSUME result'[c] = "dropped"
        PROVE  /\ Rank[want[c]] > Rank[StartLevel] \/ want[c] = "debug"
               /\ StartLevel = "debug" => elapsed /\ ~window
    <2>1. Rank[want[c]] > Rank[level] /\ want[c] \in Levels
      BY <1>1, <1>2, <1>3 DEF IInv, TypeOK
    <2>2. CASE level = StartLevel
      BY <2>1, <2>2 DEF Levels, Rank
    <2>3. CASE level = "info" /\ level # StartLevel
      BY <2>1, <2>3 DEF FilterInv, Levels, Rank
    <2> QED
      BY <2>2, <2>3 DEF FilterInv
  <1>4. Filtering'
    BY <1>1, <1>3 DEF FilterInv, Filtering
  <1>5. \A d \in Calls : pc'[d] \in {"clock", "lock", "close", "lower"} => pc'[d] = pc[d]
    BY <1>1 DEF IInv, TypeOK
  <1> QED
    BY <1>1, <1>4, <1>5 DEF FilterInv

\* Steps that filter no line.
LEMMA OtherStep ==
    ASSUME IInv, FilterInv, NEW c \in Calls,
           \/ Check(c) \/ Clock(c) \/ TakeLock(c) \/ CloseWindow(c)
           \/ LowerLevel(c) \/ Unlock(c) \/ Warn(c) \/ Write(c)
           \/ \E l \in Levels : Begin(c, l)
    PROVE  FilterInv'
  <1> USE DEF shared, Goto, Return
  <1>1. \A d \in Calls : d # c => pc'[d] = pc[d] /\ want'[d] = want[d]
                                  /\ result'[d] = result[d] /\ late'[d] = late[d]
    BY DEF Check, Clock, TakeLock, CloseWindow, LowerLevel, Unlock, Warn,
           Write, Begin, IInv, TypeOK
  <1>2. result'[c] # "dropped"
    BY DEF Check, Clock, TakeLock, CloseWindow, LowerLevel, Unlock, Warn,
           Write, Begin, IInv, TypeOK, LateInv
  <1>3. elapsed' = elapsed
    BY DEF Check, Clock, TakeLock, CloseWindow, LowerLevel, Unlock, Warn,
           Write, Begin
  <1>4. window' => window
    BY DEF Check, Clock, TakeLock, CloseWindow, LowerLevel, Unlock, Warn,
           Write, Begin
  <1>5. \/ level' = level
        \/ level' = "info" /\ pc[c] = "lower"
    BY DEF Check, Clock, TakeLock, CloseWindow, LowerLevel, Unlock, Warn,
           Write, Begin, LevelAfter
  <1>6. /\ pc'[c] = "lock" => elapsed
        /\ pc'[c] = "close" => window /\ pc[c] = "lock"
        /\ pc'[c] = "lower" => ~window' /\ pc[c] = "close"
    BY DEF Check, Clock, TakeLock, CloseWindow, LowerLevel, Unlock, Warn,
           Write, Begin, IInv, TypeOK
  <1>7. pc'[c] = "clock" => StartLevel = "debug" /\ ~late'[c]
    BY DEF Check, Clock, TakeLock, CloseWindow, LowerLevel, Unlock, Warn,
           Write, Begin, IInv, TypeOK, LateInv, WindowInv, FilterInv
  <1>8. result'[c] = "lost" => StartLevel = "debug" /\ elapsed /\ ~window /\ ~late'[c]
    BY DEF Check, Clock, TakeLock, CloseWindow, LowerLevel, Unlock, Warn,
           Write, Begin, IInv, TypeOK, LateInv, FilterInv
  <1>9. Filtering'
    BY <1>1, <1>2, <1>3, <1>4, <1>8 DEF FilterInv, Filtering
  <1>10. ~window' /\ window => elapsed
    BY DEF Check, Clock, TakeLock, CloseWindow, LowerLevel, Unlock, Warn,
           Write, Begin, FilterInv
  <1> QED
    BY <1>1, <1>3, <1>4, <1>5, <1>6, <1>7, <1>9, <1>10 DEF FilterInv

LEMMA FilterNext == IInv /\ FilterInv /\ [Next]_vars => FilterInv'
  <1> SUFFICES ASSUME IInv, FilterInv, [Next]_vars PROVE FilterInv'
    OBVIOUS
  <1>1. CASE Elapse
    BY <1>1 DEF Elapse, FilterInv, Filtering
  <1>2. CASE UNCHANGED vars
    BY <1>2 DEF vars, shared, FilterInv, Filtering
  <1> QED
    BY <1>1, <1>2, FilterStep, OtherStep DEF Next, Step, AllDone

(* The filter of Logger.log drops debug lines and those the start level hides, *)
(* at debug level none before the 30 minutes are over.  A line is lost         *)
(* otherwise, whatever its level, only when the window of debug level is being *)
(* closed, and only by a call that began before the end was announced.         *)
THEOREM OnlyDebugIsDropped == Safety => []Filtering
  <1>1. Init => FilterInv
    BY DEF Init, FilterInv, Filtering
  <1>2. FilterInv => Filtering
    BY DEF FilterInv
  <1> QED
    BY <1>1, <1>2, FilterNext, Invariance, PTL DEF Safety

-------------------------------------------------------------------------------
(* What the promise EndIsLogged rests on besides fairness.                   *)

\* A closed window has been announced, or one call is about to.
Aloud ==
    StartLevel = "debug" /\ ~window => warnings = 1 \/ \E c \in Calls : Owes(c)

LEMMA AloudStep ==
    ASSUME IInv, Aloud, NEW c \in Calls,
           Step(c) \/ \E l \in Levels : Begin(c, l)
    PROVE  Aloud'
  <1> USE DEF Goto, Return, shared, IInv
  <1>1. CASE Check(c) \/ Clock(c) \/ Filter(c) \/ Write(c) \/ \E l \in Levels : Begin(c, l)
    <2>1. /\ UNCHANGED <<window, warnings, expired>>
          /\ \A d \in Calls : d # c => pc'[d] = pc[d]
          /\ pc[c] \in {"idle", "check", "clock", "filter", "write"}
      BY <1>1 DEF Check, Clock, Filter, Write, Begin, TypeOK
    <2>2. \A d \in Calls : Owes(d) => Owes(d)'
      BY <2>1 DEF Owes
    <2> QED
      BY <2>1, <2>2 DEF Aloud
  <1>2. CASE TakeLock(c)
    <2>1. /\ UNCHANGED <<window, warnings>>
          /\ \A d \in Calls : d # c => pc'[d] = pc[d] /\ expired'[d] = expired[d]
          /\ pc[c] = "lock"
      BY <1>2 DEF TakeLock, TypeOK
    <2>2. \A d \in Calls : Owes(d) => Owes(d)'
      BY <2>1 DEF Owes
    <2> QED
      BY <2>1, <2>2 DEF Aloud
  <1>3. CASE CloseWindow(c)
    <2>1. pc'[c] = "lower" /\ expired'[c]
      BY <1>3 DEF CloseWindow, TypeOK, OwesInv
    <2> QED
      BY <2>1 DEF Aloud, Owes
  <1>4. CASE LowerLevel(c) \/ Unlock(c)
    <2>1. /\ UNCHANGED <<window, warnings, expired>>
          /\ \A d \in Calls : d # c => pc'[d] = pc[d]
          /\ expired[c] => pc'[c] \in {"unlock", "warn"}
      BY <1>4 DEF LowerLevel, Unlock, TypeOK
    <2>2. \A d \in Calls : Owes(d) => Owes(d)'
      BY <2>1 DEF Owes
    <2> QED
      BY <2>1, <2>2 DEF Aloud
  <1>5. CASE Warn(c)
    <2>1. Owes(c)
      BY <1>5 DEF Warn, Owes, OwesInv
    <2>2. warnings' = 1
      BY <1>5, <2>1 DEF Warn, OwesInv
    <2> QED
      BY <2>2 DEF Aloud
  <1> QED
    BY <1>1, <1>2, <1>3, <1>4, <1>5 DEF Step

LEMMA AloudNext == IInv /\ Aloud /\ [Next]_vars => Aloud'
  <1> SUFFICES ASSUME IInv, Aloud, [Next]_vars PROVE Aloud'
    OBVIOUS
  <1>1. CASE Elapse \/ UNCHANGED vars
    BY <1>1 DEF Elapse, vars, shared, Aloud, Owes
  <1> QED
    BY <1>1, AloudStep DEF Next, AllDone

AnnouncedAtRest ==
    /\ StartLevel = "debug" /\ ~window
    /\ \A c \in Calls : pc[c] \in {"idle", "done"}
    => warnings = 1

(* Debug logging never ends in silence: once the window is closed, the line   *)
(* that says so is in the log or owed by a call still under way, so that it   *)
(* is there whenever no call is, whichever of the racing calls closed it.     *)
THEOREM EndIsAnnounced == Safety => [](Aloud /\ AnnouncedAtRest)
  <1>1. Init => Aloud
    BY DEF Init, Aloud
  <1>2. Aloud => AnnouncedAtRest
    BY DEF Aloud, Owes, AnnouncedAtRest
  <1> QED
    BY <1>1, <1>2, AloudNext, Invariance, PTL DEF Safety

\* How many steps a call has left at most.
StepsLeft(c) ==
    CASE pc[c] = "idle"   -> 10
      [] pc[c] = "check"  -> 9
      [] pc[c] = "clock"  -> 8
      [] pc[c] = "lock"   -> 7
      [] pc[c] = "close"  -> 6
      [] pc[c] = "lower"  -> 5
      [] pc[c] = "unlock" -> 4
      [] pc[c] = "warn"   -> 3
      [] pc[c] = "filter" -> 2
      [] pc[c] = "write"  -> 1
      [] OTHER            -> 0

\* Taking _lock is the only step a call may have to wait for; then its owner
\* stands where it does not wait.
CanMove(c) == pc[c] # "lock" \/ lock = NoCall
NotStuck(c) == CanMove(c) \/ (lock \in Calls /\ pc[lock] \in {"close", "lower", "unlock"})

LEMMA StepCounts ==
    ASSUME TypeOK, NEW c \in Calls, Step(c) \/ \E l \in Levels : Begin(c, l)
    PROVE  /\ StepsLeft(c)' < StepsLeft(c)
           /\ \A d \in Calls : d # c => StepsLeft(d)' = StepsLeft(d)
  <1> USE DEF Goto, Return, TypeOK
  <1>1. \A d \in Calls : d # c => pc'[d] = pc[d]
    BY DEF Step, Begin, Check, Clock, TakeLock, CloseWindow, LowerLevel, Unlock, Warn,
           Filter, Write
  <1>2. \/ pc[c] = "idle" /\ pc'[c] = "check"
        \/ pc[c] = "check" /\ pc'[c] \in {"clock", "filter"}
        \/ pc[c] = "clock" /\ pc'[c] \in {"lock", "filter", "done"}
        \/ pc[c] = "lock" /\ pc'[c] \in {"close", "unlock"}
        \/ pc[c] = "close" /\ pc'[c] = "lower"
        \/ pc[c] = "lower" /\ pc'[c] = "unlock"
        \/ pc[c] = "unlock" /\ pc'[c] \in {"warn", "filter"}
        \/ pc[c] = "warn" /\ pc'[c] = "filter"
        \/ pc[c] = "filter" /\ pc'[c] \in {"write", "done"}
        \/ pc[c] = "write" /\ pc'[c] = "done"
    BY DEF Step, Begin, Check, Clock, TakeLock, CloseWindow, LowerLevel, Unlock, Warn,
           Filter, Write
  <1> QED
    BY <1>1, <1>2 DEF StepsLeft

(* A call of Logger.log is over after at most ten steps of its own, whatever  *)
(* the others do, and when it has to wait for _lock, the owner does not: no   *)
(* call can hang the thread that logs.                                        *)
THEOREM CallsAreBounded ==
    Safety => /\ []\A c \in Calls : NotStuck(c) /\ (StepsLeft(c) = 0 <=> pc[c] = "done")
              /\ [][\/ \E c \in Calls :
                          /\ StepsLeft(c)' < StepsLeft(c)
                          /\ \A d \in Calls : d # c => StepsLeft(d)' = StepsLeft(d)
                    \/ Elapse]_vars
  <1>1. IInv => \A c \in Calls : NotStuck(c) /\ (StepsLeft(c) = 0 <=> pc[c] = "done")
    <2> SUFFICES ASSUME IInv, NEW c \in Calls
                 PROVE  NotStuck(c) /\ (StepsLeft(c) = 0 <=> pc[c] = "done")
      OBVIOUS
    <2>1. NotStuck(c)
      BY DEF IInv, TypeOK, LockInv, NotStuck, CanMove
    <2>2. pc[c] \in Points
      BY DEF IInv, TypeOK
    <2>3. StepsLeft(c) = 0 <=> pc[c] = "done"
      BY <2>2 DEF Points, StepsLeft
    <2> QED
      BY <2>1, <2>3
  <1>2. IInv /\ [Next]_vars =>
          [\/ \E c \in Calls : /\ StepsLeft(c)' < StepsLeft(c)
                               /\ \A d \in Calls : d # c => StepsLeft(d)' = StepsLeft(d)
           \/ Elapse]_vars
    BY StepCounts DEF Next, AllDone, IInv
  <1> QED
    BY <1>1, <1>2, Invariance, PTL DEF Safety
===============================================================================
