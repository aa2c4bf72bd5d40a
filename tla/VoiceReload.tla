----------------------------- MODULE VoiceReload ------------------------------
(***************************************************************************)
(* voices.json and the daemon's copy of it (relaytts_daemon.py): Config     *)
(* loads the file, RelayTTSDaemon.start registers the editor with relay,    *)
(* stamps the file and starts the watcher, and from then on relay's         *)
(* settings UI (external) edits the file while handler threads resolve      *)
(* voices.                                                                  *)
(*                                                                          *)
(* A version of the file is an index into `versions`; its index is also its *)
(* mtime, so that two writes never share one.  Version 0 is "no file".      *)
(* Reading a file that is there may fail: the code then goes on as if it    *)
(* were empty.                                                              *)
(***************************************************************************)
EXTENDS Naturals, Sequences

CONSTANTS Builtin,      \* ids of config.yaml's voices
          Dynamic,      \* ids voices.json may define
          Default,      \* default_voice
          Unknown,      \* an id nobody defines
          Readers,      \* handler threads
          MaxVersions,  \* bound on the versions of the file
          MayRestore    \* may an older file come back with its old mtime?

ASSUME VoicesAssumption ==
    /\ Unknown \notin Builtin \cup Dynamic
    /\ Default \in Builtin \cup Dynamic
    /\ MaxVersions \in Nat \ {0}
    /\ MayRestore \in BOOLEAN

VARIABLES
    versions,  \* history: what each version of the file holds
    disk,      \* the version at custom_voices_path
    restored,  \* history: an older version has come back
    pc,        \* how far the main thread has come
    watcher,   \* where the thread of _voices_watch stands
    holding,   \* what _read_dynamic returned, before the swap
    stamp,     \* _voices_mtime
    polled,    \* history: the watcher itself has set the stamp
    reg,       \* Config._reg: what it was built from, and its ids
    answer     \* what each reader's last resolve() gave

fileVars   == <<versions, disk, restored>>
watchVars  == <<watcher, holding, stamp, polled>>
vars       == <<fileVars, pc, watchVars, reg, answer>>

\* "odd" parses as JSON but is not an object, or nests a wrong type: the code
\* raises.  "torn" does not parse, as after half of an in-place write.
Contents == [kind : {"ok"}, ids : SUBSET Dynamic]
                \cup [kind : {"torn", "odd"}, ids : {{}}]

Absent == [kind |-> "missing", ids |-> {}]
Content(v) == IF v = 0 THEN Absent ELSE versions[v]

\* What one call of _read_dynamic came to: the version it opened, and whether
\* it got to read it (that there is no file is an answer, too).
Got(v, ok) == [ver |-> v, read |-> ok]

Init ==
    /\ versions \in {<<>>} \cup {<<k>> : k \in Contents}
    /\ disk = Len(versions)
    /\ restored = FALSE
    /\ pc = "seed"
    /\ watcher = "off"
    /\ holding = Got(0, TRUE)
    /\ stamp = 0
    /\ polled = FALSE
    /\ reg = [ver |-> 0, read |-> TRUE, ids |-> {}]
    /\ answer = [r \in Readers |-> "none"]

-------------------------------------------------------------------------------
(* The file (external: relay's settings UI, or an operator) *)

Put(k) == /\ Len(versions) < MaxVersions
          /\ versions' = Append(versions, k)
          /\ disk' = Len(versions) + 1
          /\ UNCHANGED restored

Edit(k) == Put(k) /\ UNCHANGED <<pc, watchVars, reg, answer>>

Remove == /\ disk # 0
          /\ disk' = 0
          /\ UNCHANGED <<versions, restored, pc, watchVars, reg, answer>>

Restore(v) == /\ MayRestore /\ disk # v
              /\ disk' = v
              /\ restored' = TRUE
              /\ UNCHANGED <<versions, pc, watchVars, reg, answer>>

-------------------------------------------------------------------------------
(* The registry *)

\* Mutant: an entry that _normalize_custom refuses is merged all the same.
MergedUnchecked(k) == Builtin \cup k.ids \cup {Unknown}

\* The ids reload_custom merges: every built-in voice, and what the file adds.
Merged(k) == Builtin \cup k.ids

Snapshot(g) == [ver |-> g.ver, read |-> g.read,
                ids |-> Merged(IF g.read THEN Content(g.ver) ELSE Absent)]

-------------------------------------------------------------------------------
(* The main thread: Config.__init__, then start() *)

\* _seed_custom_file: is there a file?
Seed ==
    /\ pc = "seed"
    /\ pc' = IF disk = 0 THEN "write" ELSE "load"
    /\ UNCHANGED <<fileVars, watchVars, reg, answer>>

\* If not, an empty one is written, also over one that has come since; a
\* directory that cannot be written is only logged.
WriteSeed ==
    /\ pc = "write"
    /\ pc' = "load"
    /\ Put([kind |-> "ok", ids |-> {}]) \/ UNCHANGED fileVars
    /\ UNCHANGED <<watchVars, reg, answer>>

\* _read_dynamic on the file that is there: what it returns.  An "odd" file
\* raises, and an OSError on a file, good or not, is caught.
Returns(g) == \/ g = Got(disk, TRUE) /\ Content(disk).kind # "odd"
              \/ g = Got(disk, FALSE) /\ disk # 0

Raises == Content(disk).kind = "odd"

\* The first reload_custom, and the check of default_voice.  What
\* _read_dynamic does not catch ends the daemon before it serves anything.
Load ==
    /\ pc = "load"
    /\ \/ Raises /\ pc' = "crashed" /\ UNCHANGED reg
       \/ \E ok \in BOOLEAN :
             /\ Returns(Got(disk, ok))
             /\ reg' = Snapshot(Got(disk, ok))
             /\ pc' = IF Default \in reg'.ids THEN "bridge" ELSE "refused"
    /\ UNCHANGED <<fileVars, watchVars, answer>>

\* _start_bridge: relay knows the file's path now; status polls begin.
StartBridge ==
    /\ pc = "bridge"
    /\ pc' = "stamp"
    /\ UNCHANGED <<fileVars, watchVars, reg, answer>>

\* getmtime in start(), None when there is no file, and the watcher's thread.
StampAndWatch ==
    /\ pc = "stamp"
    /\ pc' = "serving"
    /\ stamp' = disk
    /\ watcher' = "poll"
    /\ UNCHANGED <<fileVars, holding, polled, reg, answer>>

Main == Seed \/ WriteSeed \/ Load \/ StartBridge \/ StampAndWatch

-------------------------------------------------------------------------------
(* _voices_watch *)

\* Mutant: only a newer file counts as changed.
ChangedIfNewer == disk # 0 /\ disk > stamp

Changed == disk # 0 /\ disk # stamp

Poll ==
    /\ watcher = "poll" /\ Changed
    /\ stamp' = disk
    /\ polled' = TRUE
    /\ watcher' = "read"
    /\ UNCHANGED <<fileVars, pc, holding, reg, answer>>

\* _read_dynamic, called by reload_custom.  When it raises, the watcher logs it
\* and sleeps, with the stamp already taken and the registry as it was.
Read ==
    /\ watcher = "read"
    /\ \/ Raises /\ watcher' = "poll" /\ UNCHANGED holding
       \/ \E ok \in BOOLEAN :
             /\ Returns(Got(disk, ok))
             /\ watcher' = "swap" /\ holding' = Got(disk, ok)
    /\ UNCHANGED <<fileVars, pc, stamp, polled, reg, answer>>

\* Mutant: the stamp is taken again when the file has been read.
StampedSwap ==
    /\ watcher = "swap"
    /\ reg' = Snapshot(holding)
    /\ stamp' = disk
    /\ watcher' = "poll"
    /\ UNCHANGED <<fileVars, pc, holding, polled, answer>>

\* Mutant: a reload replaces the built-in voices instead of adding to them.
SwapReplaces ==
    /\ watcher = "swap"
    /\ reg' = [Snapshot(holding) EXCEPT !.ids = @ \ Builtin]
    /\ watcher' = "poll"
    /\ UNCHANGED <<fileVars, pc, holding, stamp, polled, answer>>

\* The end of reload_custom: one assignment publishes the new registry.
Swap ==
    /\ watcher = "swap"
    /\ reg' = Snapshot(holding)
    /\ watcher' = "poll"
    /\ UNCHANGED <<fileVars, pc, holding, stamp, polled, answer>>

Watch == Poll \/ Read \/ Swap

-------------------------------------------------------------------------------
(* Handler threads *)

\* resolve() on a voice the caller names: one snapshot, with the fallback.
Resolve(r, id) ==
    /\ pc = "serving"
    /\ answer' = [answer EXCEPT ![r] =
                    CASE id \in reg.ids      -> "voice"
                      [] id \notin reg.ids /\ Default \in reg.ids -> "default"
                      [] OTHER               -> "keyerror"]
    /\ UNCHANGED <<fileVars, pc, watchVars, reg>>

\* A voice that is a list or an object cannot be looked up in aliases.
ResolveRaises(r) ==
    /\ pc = "serving"
    /\ answer' = [answer EXCEPT ![r] = "typeerror"]
    /\ UNCHANGED <<fileVars, pc, watchVars, reg>>

-------------------------------------------------------------------------------
Editor == \/ \E k \in Contents : Edit(k)
          \/ Remove
          \/ \E v \in 1..Len(versions) : Restore(v)

ReaderStep(r) == \/ \E id \in Builtin \cup Dynamic \cup {Unknown} : Resolve(r, id)
                 \/ ResolveRaises(r)

\* A daemon that refused to start, or died on the file it found, is gone.
Stopped == pc \in {"refused", "crashed"} /\ UNCHANGED vars

Next == Editor \/ Main \/ Watch \/ (\E r \in Readers : ReaderStep(r)) \/ Stopped

Safety == Init /\ [][Next]_vars

\* The main thread and the watcher keep running; nobody has to edit or ask.
Spec == Safety /\ WF_vars(Main) /\ WF_vars(Watch)

-------------------------------------------------------------------------------
Ids == Builtin \cup Dynamic

TypeOK ==
    /\ versions \in Seq(Contents) /\ Len(versions) <= MaxVersions
    /\ disk \in 0..Len(versions)
    /\ restored \in BOOLEAN
    /\ pc \in {"seed", "write", "load", "bridge", "stamp", "serving", "refused",
              "crashed"}
    /\ watcher \in {"off", "poll", "read", "swap"}
    /\ holding \in [ver : 0..Len(versions), read : BOOLEAN]
    /\ stamp \in 0..Len(versions)
    /\ polled \in BOOLEAN
    /\ reg \in [ver : 0..Len(versions), read : BOOLEAN, ids : SUBSET Ids]
    /\ answer \in [Readers -> {"none", "voice", "default", "keyerror", "typeerror"}]

\* The registry holds this version; or it holds the built-in voices alone, for
\* the one time this version was opened it could not be read.
Serves(v) == reg.ver = v /\ reg.read
CouldNotRead(v) == reg.ver = v /\ ~reg.read

(* No edit goes by in silence: once the watcher has taken a stamp, a watcher  *)
(* at rest that sees no change has tried the very file that is there.  It     *)
(* serves it, or the log says why not: "custom voices unreadable, ignoring"   *)
(* (an OSError, after which the built-in voices are all there is) or "custom  *)
(* voices reload failed" (an odd shape).  The order stat, then read, leaves   *)
(* no edit in between unseen.  (The mtime tells nothing once an older file    *)
(* has come back with its own.)                                               *)
NoSilentStaleness ==
    polled /\ watcher = "poll" /\ disk # 0 /\ stamp = disk /\ ~restored
        => Serves(disk) \/ CouldNotRead(disk) \/ Content(disk).kind = "odd"

(* While the watcher runs, a parsable file that differs from the stamp is     *)
(* loaded or replaced, also when an older file comes back with its old mtime; *)
(* unless the read that follows its stamp fails, for there is no second one.  *)
CaughtUp ==
    \A v \in 1..MaxVersions :
        (watcher = "poll" /\ disk = v /\ stamp # v /\ Content(v).kind = "ok") ~>
            \/ Serves(v) \/ disk # v
            \/ watcher = "poll" /\ stamp = v /\ CouldNotRead(v)

(* "Anything unknown falls back to the default voice, so old clients and      *)
(* stale preferences never error" (Config.resolve): as long as default_voice  *)
(* is a voice of config.yaml no id makes it raise, whatever voices.json says. *)
NeverErrors == \A r \in Readers : answer[r] # "keyerror"

===============================================================================
