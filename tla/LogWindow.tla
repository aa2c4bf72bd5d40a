------------------------------ MODULE LogWindow -------------------------------
(***************************************************************************)
(* Logger.log (log_line.py), called by every thread of the daemon: level    *)
(* filtering, and the debug window, which the first call after 30 minutes   *)
(* ends with one warning.  A call is one invocation of Logger.log; its      *)
(* steps are the reads and writes of the shared fields _start and _level,   *)
(* only some of them under _lock.                                           *)
(***************************************************************************)
EXTENDS Naturals

CONSTANTS Calls,      \* invocations of Logger.log
          NoCall,     \* the lock is free
          StartLevel  \* RELAY_LOG_LEVEL

Rank == [error |-> 0, warn |-> 1, info |-> 2, debug |-> 3]
Levels == DOMAIN Rank

ASSUME LogAssumption == NoCall \notin Calls /\ StartLevel \in Levels

VARIABLES
    window,   \* _start is not None: the debug window is open
    level,    \* _level
    elapsed,  \* the 30 minutes are over
    lock,     \* owner of _lock
    pc,       \* where each call stands
    want,     \* the level of the caller's line
    expired,  \* the local `expired`
    result,   \* what became of the caller's line
    warnings, \* history: "debug logging ended" lines written
    late      \* history: the call began after such a line was written

shared == <<window, level, elapsed, lock>>
vars == <<shared, pc, want, expired, result, warnings, late>>

Init ==
    /\ window   = (StartLevel = "debug")
    /\ level    = StartLevel
    /\ elapsed  = FALSE
    /\ lock     = NoCall
    /\ pc       = [c \in Calls |-> "idle"]
    /\ want     = [c \in Calls |-> "info"]
    /\ expired  = [c \in Calls |-> FALSE]
    /\ result   = [c \in Calls |-> "none"]
    /\ warnings = 0
    /\ late     = [c \in Calls |-> FALSE]

Goto(c, there) == pc' = [pc EXCEPT ![c] = there]

Return(c, r) == Goto(c, "done") /\ result' = [result EXCEPT ![c] = r]

\* The window closes on the clock; nothing in the daemon acts on it yet.
Elapse == /\ ~elapsed
          /\ elapsed' = TRUE
          /\ UNCHANGED <<window, level, lock, pc, want, expired, result,
                         warnings, late>>

Begin(c, l) ==
    /\ pc[c] = "idle"
    /\ Goto(c, "check")
    /\ want' = [want EXCEPT ![c] = l]
    /\ late' = [late EXCEPT ![c] = warnings > 0]
    /\ UNCHANGED <<shared, expired, result, warnings>>

\* `self._start is not None`
Check(c) ==
    /\ pc[c] = "check"
    /\ Goto(c, IF window THEN "clock" ELSE "filter")
    /\ UNCHANGED <<shared, want, expired, result, warnings, late>>

\* `self._monotonic() - self._start >= DEBUG_WINDOW_S` reads _start again; on
\* None it raises, and the except of log() swallows the error and the line.
Clock(c) ==
    /\ pc[c] = "clock"
    /\ IF window
       THEN Goto(c, IF elapsed THEN "lock" ELSE "filter") /\ UNCHANGED result
       ELSE Return(c, "lost")
    /\ UNCHANGED <<shared, want, expired, warnings, late>>

\* Mutant: nobody looks again under the lock.
TakeLockBlindly(c) ==
    /\ pc[c] = "lock" /\ lock = NoCall
    /\ lock' = c
    /\ expired' = [expired EXCEPT ![c] = TRUE]
    /\ Goto(c, "close")
    /\ UNCHANGED <<window, level, elapsed, want, result, warnings, late>>

\* `with self._lock: expired = self._start is not None`
TakeLock(c) ==
    /\ pc[c] = "lock" /\ lock = NoCall
    /\ lock' = c
    /\ expired' = [expired EXCEPT ![c] = window]
    /\ Goto(c, IF window THEN "close" ELSE "unlock")
    /\ UNCHANGED <<window, level, elapsed, want, result, warnings, late>>

\* `self._start = None`
CloseWindow(c) ==
    /\ pc[c] = "close"
    /\ window' = FALSE
    /\ Goto(c, "lower")
    /\ UNCHANGED <<level, elapsed, lock, want, expired, result, warnings, late>>

\* Mutants: the level stays, drops too far, or is one _LEVELS does not know.
LevelStays == StartLevel
LevelTooLow == "error"
LevelUnknown == "notice"

\* `self._level = "info"`
LevelAfter == "info"

LowerLevel(c) ==
    /\ pc[c] = "lower"
    /\ level' = LevelAfter
    /\ Goto(c, "unlock")
    /\ UNCHANGED <<window, elapsed, lock, want, expired, result, warnings, late>>

\* Mutant: the call that ended the window forgets to say so.
UnlockSilently(c) ==
    /\ pc[c] = "unlock"
    /\ lock' = NoCall
    /\ Goto(c, "filter")
    /\ UNCHANGED <<window, level, elapsed, want, expired, result, warnings, late>>

Unlock(c) ==
    /\ pc[c] = "unlock"
    /\ lock' = NoCall
    /\ Goto(c, IF expired[c] THEN "warn" ELSE "filter")
    /\ UNCHANGED <<window, level, elapsed, want, expired, result, warnings, late>>

Warn(c) ==
    /\ pc[c] = "warn"
    /\ warnings' = warnings + 1
    /\ Goto(c, "filter")
    /\ UNCHANGED <<shared, want, expired, result, late>>

\* `_LEVELS[level] > _LEVELS[self._level]`
Filter(c) ==
    /\ pc[c] = "filter"
    /\ IF Rank[want[c]] > Rank[level]
       THEN Return(c, "dropped")
       ELSE Goto(c, "write") /\ UNCHANGED result
    /\ UNCHANGED <<shared, want, expired, warnings, late>>

Write(c) ==
    /\ pc[c] = "write"
    /\ Return(c, "written")
    /\ UNCHANGED <<shared, want, expired, warnings, late>>

Step(c) == \/ Check(c) \/ Clock(c) \/ TakeLock(c) \/ CloseWindow(c)
           \/ LowerLevel(c) \/ Unlock(c) \/ Warn(c) \/ Filter(c) \/ Write(c)

AllDone == (\A c \in Calls : pc[c] = "done") /\ UNCHANGED vars

Next == \/ Elapse
        \/ \E c \in Calls : Step(c) \/ \E l \in Levels : Begin(c, l)
        \/ AllDone

Safety == Init /\ [][Next]_vars

\* A call that has begun runs on; _lock is never held across a blocking call.
Spec == Safety /\ \A c \in Calls : WF_vars(Step(c))

-------------------------------------------------------------------------------
Points == {"idle", "check", "clock", "lock", "close", "lower", "unlock",
           "warn", "filter", "write", "done"}

TypeOK ==
    /\ window \in BOOLEAN /\ elapsed \in BOOLEAN
    /\ level \in Levels
    /\ lock \in Calls \cup {NoCall}
    /\ pc \in [Calls -> Points]
    /\ want \in [Calls -> Levels]
    /\ expired \in [Calls -> BOOLEAN]
    /\ result \in [Calls -> {"none", "written", "dropped", "lost"}]
    /\ warnings \in Nat
    /\ late \in [Calls -> BOOLEAN]

(* However many calls find the window over at once, one of them says so.     *)
AtMostOneWarning == warnings <= 1

(* Debug logging has ended once its end is in the log: no call that begins   *)
(* after that line writes a debug line.                                      *)
DebugEnds ==
    \A c \in Calls :
        late[c] /\ want[c] = "debug" => result[c] # "written"

(* A line is filtered only if it is a debug line, or one the start level      *)
(* hides; at debug level only once the window has been closed.  The race to   *)
(* end the window loses lines besides, of any level (Clock), but only of      *)
(* calls that began before the announcement, and only when there was a window.*)
Filtering ==
    \A c \in Calls :
        /\ result[c] = "dropped" =>
              /\ Rank[want[c]] > Rank[StartLevel] \/ want[c] = "debug"
              /\ StartLevel = "debug" => elapsed /\ ~window
        /\ result[c] = "lost" =>
              StartLevel = "debug" /\ elapsed /\ ~window /\ ~late[c]

(* A call that finds the window over gets the warning into the log.           *)
EndIsLogged == \A c \in Calls : pc[c] = "lock" ~> warnings = 1
===============================================================================
