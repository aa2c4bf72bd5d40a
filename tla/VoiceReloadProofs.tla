-------------------------- MODULE VoiceReloadProofs ---------------------------
(***************************************************************************)
(* Hot reload, for any voices, any number of readers and any number of      *)
(* edits: a watcher that sees no change serves the file that is there, and  *)
(* a built-in default voice always resolves.                                *)
(***************************************************************************)
EXTENDS VoiceReload, TLAPS

\* Until an older version comes back, the file is the newest one or none.
FileInv == /\ versions \in Seq(Contents)
           /\ disk \in {0, Len(versions)}
           /\ stamp \in 0..Len(versions)

\* The watcher runs from StampAndWatch on.
PhaseInv == /\ watcher = "off" => ~polled
            /\ pc \in {"seed", "write", "load", "bridge", "stamp"} => watcher = "off"

\* Between stat and swap: what was read is what is there, or the stamp is old.
ReadInv ==
    /\ watcher \in {"read", "swap"} => stamp # 0
    /\ watcher = "swap" /\ stamp = disk => holding.ver = disk

RestInv ==
    polled /\ watcher = "poll" /\ disk # 0 /\ stamp = disk
        => reg.ver = disk \/ Content(disk).kind = "odd"

SyncInv == FileInv /\ PhaseInv /\ ReadInv /\ RestInv

\* A new version is one the stamp cannot be.
LEMMA PutStep ==
    ASSUME SyncInv, NEW k \in Contents, Put(k)
    PROVE  /\ disk' # stamp /\ disk' # 0
           /\ versions' \in Seq(Contents) /\ disk' = Len(versions')
           /\ Len(versions') = Len(versions) + 1 /\ Len(versions) \in Nat
  <1>1. versions \in Seq(Contents) /\ stamp \in 0..Len(versions)
    BY DEF SyncInv, FileInv
  <1>2. versions' = Append(versions, k) /\ disk' = Len(versions) + 1
    BY DEF Put
  <1>3. /\ versions' \in Seq(Contents) /\ Len(versions') = Len(versions) + 1
        /\ Len(versions) \in Nat
    BY <1>1, <1>2
  <1> QED
    BY <1>1, <1>2, <1>3

LEMMA EditorStep ==
    ASSUME SyncInv, ~restored', Editor
    PROVE  SyncInv'
  <1>1. ASSUME NEW k \in Contents, Edit(k) PROVE SyncInv'
    <2>1. UNCHANGED <<pc, watcher, holding, stamp, polled, reg>>
      BY <1>1 DEF Edit, watchVars
    <2>2. /\ disk' # stamp' /\ disk' = Len(versions') /\ disk' # 0
          /\ versions' \in Seq(Contents) /\ stamp' \in 0..Len(versions')
      BY <1>1, <2>1, PutStep DEF Edit, SyncInv, FileInv
    <2> QED
      BY <2>1, <2>2 DEF SyncInv, FileInv, PhaseInv, ReadInv, RestInv
  <1>2. CASE Remove
    BY <1>2 DEF Remove, watchVars, SyncInv, FileInv, PhaseInv, ReadInv, RestInv
  <1> QED
    BY <1>1, <1>2 DEF Editor, Restore

LEMMA MainStep ==
    ASSUME SyncInv, Main
    PROVE  SyncInv'
  <1> USE DEF SyncInv, watchVars
  <1>0. CASE Seed
    BY <1>0 DEF Seed, fileVars, FileInv, PhaseInv, ReadInv, RestInv
  <1>1. CASE WriteSeed
    <2>1. /\ UNCHANGED <<watcher, holding, stamp, polled, reg>>
          /\ watcher = "off" /\ pc' = "load" /\ ~polled
      BY <1>1 DEF WriteSeed, PhaseInv
    <2>2. CASE UNCHANGED fileVars
      BY <2>1, <2>2 DEF fileVars, FileInv, PhaseInv, ReadInv, RestInv
    <2>3. CASE Put([kind |-> "ok", ids |-> {}])
      <3>1. [kind |-> "ok", ids |-> {}] \in Contents
        BY DEF Contents
      <3>2. /\ disk' = Len(versions') /\ versions' \in Seq(Contents)
            /\ stamp' \in 0..Len(versions')
        BY <2>1, <2>3, <3>1, PutStep DEF FileInv
      <3> QED
        BY <2>1, <3>2 DEF FileInv, PhaseInv, ReadInv, RestInv
    <2> QED
      BY <1>1, <2>2, <2>3 DEF WriteSeed
  <1>2. CASE Load
    BY <1>2 DEF Load, fileVars, FileInv, PhaseInv, ReadInv, RestInv
  <1>3. CASE StartBridge
    BY <1>3 DEF StartBridge, fileVars, FileInv, PhaseInv, ReadInv, RestInv,
                Content
  <1>4. CASE StampAndWatch
    <2>1. ~polled' /\ watcher' = "poll" /\ pc' = "serving"
      BY <1>4 DEF StampAndWatch, PhaseInv
    <2>2. FileInv'
      BY <1>4 DEF StampAndWatch, fileVars, FileInv
    <2> QED
      BY <2>1, <2>2 DEF PhaseInv, ReadInv, RestInv
  <1> QED
    BY <1>0, <1>1, <1>2, <1>3, <1>4 DEF Main

LEMMA WatchStep ==
    ASSUME SyncInv, Watch
    PROVE  SyncInv'
  <1> USE DEF SyncInv, fileVars, FileInv, PhaseInv
  <1>1. CASE Poll
    BY <1>1 DEF Poll, Changed, ReadInv, RestInv
  <1>2. CASE Read
    <2>1. /\ UNCHANGED <<versions, disk, stamp, polled, reg, pc>>
          /\ watcher = "read" /\ stamp # 0
      BY <1>2 DEF Read, ReadInv
    <2>2. Content(disk)' = Content(disk)
      BY <2>1 DEF Content
    <2>3. CASE Raises /\ watcher' = "poll" /\ UNCHANGED holding
      BY <2>1, <2>2, <2>3 DEF Raises, ReadInv, RestInv
    <2>4. ASSUME NEW ok \in BOOLEAN, watcher' = "swap", holding' = Got(disk, ok)
          PROVE  SyncInv'
      BY <2>1, <2>4 DEF Got, ReadInv, RestInv
    <2> QED
      BY <1>2, <2>3, <2>4 DEF Read
  <1>3. CASE Swap
    BY <1>3 DEF Swap, ReadInv, RestInv, Snapshot
  <1> QED
    BY <1>1, <1>2, <1>3 DEF Watch

\* What Read hands on.
LEMMA ReadStep ==
    ASSUME Read
    PROVE  /\ UNCHANGED <<versions, disk, restored, pc, stamp, polled, reg, answer>>
           /\ \/ watcher' = "poll" /\ UNCHANGED holding
              \/ /\ watcher' = "swap" /\ holding'.ver = disk
                 /\ holding' = Got(disk, holding'.read) /\ holding'.read \in BOOLEAN
                 /\ holding'.read => Content(disk).kind # "odd"
  <1>1. UNCHANGED <<versions, disk, restored, pc, stamp, polled, reg, answer>>
    BY DEF Read, fileVars
  <1>2. ASSUME NEW ok \in BOOLEAN, Returns(Got(disk, ok)), holding' = Got(disk, ok)
        PROVE  /\ holding'.ver = disk /\ holding'.read = ok
               /\ ok => Content(disk).kind # "odd"
    BY <1>2 DEF Returns, Got
  <1> QED
    BY <1>1, <1>2 DEF Read

LEMMA QuietStep ==
    ASSUME SyncInv, UNCHANGED <<fileVars, pc, watchVars, reg>>
    PROVE  SyncInv'
  BY DEF SyncInv, fileVars, watchVars, FileInv, PhaseInv, ReadInv, RestInv,
         Content

LEMMA SyncInit == Init => SyncInv
  <1> SUFFICES ASSUME Init PROVE SyncInv
    OBVIOUS
  <1>1. versions \in Seq(Contents)
    <2>1. CASE versions = <<>>
      BY <2>1
    <2>2. CASE \E k \in Contents : versions = <<k>>
      <3>1. PICK k \in Contents : versions = <<k>>
        BY <2>2
      <3>2. <<k>> \in Seq(Contents)
        OBVIOUS
      <3> QED
        BY <3>1, <3>2
    <2> QED
      BY <2>1, <2>2 DEF Init
  <1>2. /\ disk = Len(versions) /\ stamp = 0 /\ Len(versions) \in Nat
        /\ watcher = "off" /\ ~polled
    BY <1>1 DEF Init
  <1> QED
    BY <1>1, <1>2 DEF SyncInv, FileInv, PhaseInv, ReadInv, RestInv

LEMMA SyncNext == SyncInv /\ ~restored' /\ [Next]_vars => SyncInv'
  <1> SUFFICES ASSUME SyncInv, ~restored', [Next]_vars PROVE SyncInv'
    OBVIOUS
  <1>1. ASSUME NEW r \in Readers, ReaderStep(r) PROVE SyncInv'
    <2>1. UNCHANGED <<fileVars, pc, watchVars, reg>>
      BY <1>1 DEF ReaderStep, Resolve, ResolveRaises
    <2> QED
      BY <2>1, QuietStep
  <1>2. CASE UNCHANGED vars
    BY <1>2, QuietStep DEF vars
  <1> QED
    BY <1>1, <1>2, EditorStep, MainStep, WatchStep DEF Next, Stopped

\* What has come back stays so.
LEMMA RestoredStays == [Next]_vars /\ ~restored' => ~restored
  <1> SUFFICES ASSUME [Next]_vars PROVE restored' = restored \/ restored' = TRUE
    OBVIOUS
  <1> USE DEF fileVars
  <1>1. CASE Editor
    BY <1>1 DEF Editor, Edit, Put, Remove, Restore
  <1>2. CASE Main
    BY <1>2 DEF Main, Seed, WriteSeed, Put, Load, StartBridge, StampAndWatch
  <1>3. CASE Watch
    BY <1>3 DEF Watch, Poll, Read, Swap
  <1>4. ASSUME NEW r \in Readers, ReaderStep(r) PROVE restored' = restored
    BY <1>4 DEF ReaderStep, Resolve, ResolveRaises
  <1> QED
    BY <1>1, <1>2, <1>3, <1>4 DEF Next, Stopped, vars

\* SyncInv holds until an older file comes back with its mtime.
FreshInv == ~restored => SyncInv

(* As long as no file has come back with an old mtime, a watcher at rest that *)
(* sees no change has opened the file that is there: it serves it, or could   *)
(* not read it, or refused it.  It stamps before it reads.                    *)
THEOREM NeverStale == Safety => []NoSilentStaleness
  <1>1. Init => FreshInv
    BY SyncInit DEF FreshInv
  <1>2. FreshInv /\ [Next]_vars => FreshInv'
    BY RestoredStays, SyncNext DEF FreshInv
  <1>3. FreshInv => NoSilentStaleness
    BY DEF FreshInv, SyncInv, FileInv, RestInv, NoSilentStaleness, Serves,
           CouldNotRead
  <1> QED
    BY <1>1, <1>2, <1>3, PTL DEF Safety

-------------------------------------------------------------------------------
\* From the first load on, no registry is without the built-in voices.
PaletteInv ==
    /\ pc \notin {"seed", "write", "load"} => pc = "crashed" \/ Builtin \subseteq reg.ids
    /\ answer \in [Readers -> {"none", "voice", "default", "keyerror", "typeerror"}]
    /\ NeverErrors

LEMMA LoadedIds == \A g : Builtin \subseteq Snapshot(g).ids
  BY DEF Snapshot, Merged

LEMMA PaletteNext ==
    ASSUME Default \in Builtin, PaletteInv, [Next]_vars
    PROVE  PaletteInv'
  <1> USE DEF PaletteInv, NeverErrors, fileVars, watchVars
  <1>1. CASE Editor
    BY <1>1 DEF Editor, Edit, Put, Remove, Restore
  <1>2. CASE Main
    <2>1. CASE Load
      BY <2>1, LoadedIds DEF Load
    <2>2. CASE Seed \/ WriteSeed \/ StartBridge \/ StampAndWatch
      BY <2>2 DEF Seed, WriteSeed, Put, StartBridge, StampAndWatch
    <2> QED
      BY <1>2, <2>1, <2>2 DEF Main
  <1>3. CASE Watch
    <2>1. CASE Swap
      BY <2>1, LoadedIds DEF Swap
    <2>2. CASE Poll \/ Read
      BY <2>2 DEF Poll, Read
    <2> QED
      BY <1>3, <2>1, <2>2 DEF Watch
  <1>4. ASSUME NEW r \in Readers, ReaderStep(r) PROVE PaletteInv'
    <2>1. ASSUME NEW id, Resolve(r, id) PROVE PaletteInv'
      <3>1. Default \in reg.ids
        BY <2>1 DEF Resolve
      <3>2. /\ UNCHANGED <<pc, reg>>
            /\ \/ answer' = [answer EXCEPT ![r] = "voice"]
               \/ answer' = [answer EXCEPT ![r] = "default"]
        BY <2>1, <3>1 DEF Resolve
      <3> QED
        BY <3>2
    <2>2. CASE ResolveRaises(r)
      BY <2>2 DEF ResolveRaises
    <2> QED
      BY <1>4, <2>1, <2>2 DEF ReaderStep
  <1>5. CASE UNCHANGED vars
    BY <1>5 DEF vars
  <1> QED
    BY <1>1, <1>2, <1>3, <1>4, <1>5 DEF Next, Stopped

(* A default_voice that config.yaml itself defines always resolves, whatever  *)
(* is written to voices.json and however often: no id makes resolve() raise.  *)
THEOREM DefaultResolves ==
    ASSUME Default \in Builtin
    PROVE  Safety => []NeverErrors
  <1>1. Init => PaletteInv
    BY DEF Init, PaletteInv, NeverErrors
  <1>2. PaletteInv /\ [Next]_vars => PaletteInv'
    BY PaletteNext
  <1>3. PaletteInv => NeverErrors
    BY DEF PaletteInv
  <1> QED
    BY <1>1, <1>2, <1>3, PTL DEF Safety

-------------------------------------------------------------------------------
LEMMA ContentTypes ==
    ASSUME versions \in Seq(Contents), NEW v \in 0..Len(versions), NEW ok \in BOOLEAN
    PROVE  Snapshot(Got(v, ok)) \in
             [ver : 0..Len(versions), read : BOOLEAN, ids : SUBSET Ids]
  <1>1. Content(v).ids \subseteq Dynamic
    <2>1. CASE v = 0
      BY <2>1 DEF Content, Absent
    <2>2. CASE v # 0
      <3>1. v \in 1..Len(versions) /\ versions[v] \in Contents
        BY <2>2
      <3> QED
        BY <2>2, <3>1 DEF Content, Contents
    <2> QED
      BY <2>1, <2>2
  <1> QED
    BY <1>1 DEF Snapshot, Got, Absent, Merged, Ids

\* A new version lies within the bound, and what is known keeps its version.
LEMMA PutTypes ==
    ASSUME TypeOK, NEW k \in Contents, Put(k)
    PROVE  /\ versions' \in Seq(Contents) /\ Len(versions') <= MaxVersions
           /\ disk' \in 0..Len(versions') /\ restored' \in BOOLEAN
           /\ 0..Len(versions) \subseteq 0..Len(versions')
  <1>1. versions \in Seq(Contents) /\ Len(versions) \in Nat
    BY DEF TypeOK
  <1>2. versions' \in Seq(Contents) /\ Len(versions') = Len(versions) + 1
    BY <1>1 DEF Put
  <1> QED
    BY <1>1, <1>2, VoicesAssumption DEF Put, TypeOK

LEMMA EditorTypes == ASSUME TypeOK, Editor PROVE TypeOK'
  <1> USE DEF watchVars
  <1>1. ASSUME NEW k \in Contents, Edit(k) PROVE TypeOK'
    <2>1. Put(k) /\ UNCHANGED <<pc, watcher, holding, stamp, polled, reg, answer>>
      BY <1>1 DEF Edit
    <2>2. /\ holding \in [ver : 0..Len(versions'), read : BOOLEAN]
          /\ stamp \in 0..Len(versions')
          /\ reg \in [ver : 0..Len(versions'), read : BOOLEAN, ids : SUBSET Ids]
      BY <2>1, PutTypes DEF TypeOK
    <2> QED
      BY <2>1, <2>2, PutTypes DEF TypeOK
  <1>2. CASE Remove
    BY <1>2 DEF Remove, TypeOK
  <1>3. ASSUME NEW v \in 1..Len(versions), Restore(v) PROVE TypeOK'
    <2>1. v \in 0..Len(versions)
      BY DEF TypeOK
    <2> QED
      BY <1>3, <2>1 DEF Restore, TypeOK
  <1> QED
    BY <1>1, <1>2, <1>3 DEF Editor

LEMMA MainTypes == ASSUME TypeOK, Main PROVE TypeOK'
  <1> USE DEF watchVars, fileVars
  <1>0. CASE Seed
    BY <1>0 DEF Seed, TypeOK
  <1>1. CASE WriteSeed
    <2>1. /\ UNCHANGED <<watcher, holding, stamp, polled, reg, answer>>
          /\ pc' = "load"
      BY <1>1 DEF WriteSeed
    <2>2. CASE UNCHANGED fileVars
      BY <2>1, <2>2 DEF TypeOK
    <2>3. CASE Put([kind |-> "ok", ids |-> {}])
      <3>1. [kind |-> "ok", ids |-> {}] \in Contents
        BY DEF Contents
      <3>2. /\ holding \in [ver : 0..Len(versions'), read : BOOLEAN]
          /\ stamp \in 0..Len(versions')
            /\ reg \in [ver : 0..Len(versions'), read : BOOLEAN, ids : SUBSET Ids]
        BY <2>3, <3>1, PutTypes DEF TypeOK
      <3> QED
        BY <2>1, <2>3, <3>1, <3>2, PutTypes DEF TypeOK
    <2> QED
      BY <1>1, <2>2, <2>3 DEF WriteSeed
  <1>2. CASE Load
    <2>1. \A ok \in BOOLEAN : Snapshot(Got(disk, ok)) \in
             [ver : 0..Len(versions), read : BOOLEAN, ids : SUBSET Ids]
      BY ContentTypes DEF TypeOK
    <2> QED
      BY <1>2, <2>1 DEF Load, TypeOK
  <1>3. CASE StartBridge \/ StampAndWatch
    BY <1>3 DEF StartBridge, StampAndWatch, TypeOK
  <1> QED
    BY <1>0, <1>1, <1>2, <1>3 DEF Main

LEMMA WatchTypes == ASSUME TypeOK, Watch PROVE TypeOK'
  <1> USE DEF fileVars
  <1>0. CASE Poll
    BY <1>0 DEF Poll, TypeOK
  <1>1. CASE Read
    <2>1. disk \in 0..Len(versions)
      BY DEF TypeOK
    <2>2. holding' \in [ver : 0..Len(versions), read : BOOLEAN]
      BY <1>1, <2>1, ReadStep DEF Got, TypeOK
    <2> QED
      BY <1>1, <2>2, ReadStep DEF TypeOK
  <1>2. CASE Swap
    <2>1. holding = Got(holding.ver, holding.read)
      BY DEF Got, TypeOK
    <2>2. /\ holding.ver \in 0..Len(versions) /\ holding.read \in BOOLEAN
          /\ versions \in Seq(Contents)
      BY DEF TypeOK
    <2>3. Snapshot(Got(holding.ver, holding.read)) \in
             [ver : 0..Len(versions), read : BOOLEAN, ids : SUBSET Ids]
      BY <2>2, ContentTypes
    <2>4. Snapshot(holding) \in
             [ver : 0..Len(versions), read : BOOLEAN, ids : SUBSET Ids]
      BY <2>1, <2>3
    <2> QED
      BY <1>2, <2>4 DEF Swap, TypeOK
  <1> QED
    BY <1>0, <1>1, <1>2 DEF Watch

(* The registry never holds an id that neither config.yaml nor voices.json    *)
(* defines, and every version it was built from is one that was there.        *)
THEOREM TypeCorrect == Safety => []TypeOK
  <1>1. Init => TypeOK
    <2> SUFFICES ASSUME Init PROVE TypeOK
      OBVIOUS
    <2>1. versions \in Seq(Contents) /\ Len(versions) <= 1
      <3>1. CASE versions = <<>>
        BY <3>1
      <3>2. ASSUME NEW k \in Contents, versions = <<k>>
            PROVE  versions \in Seq(Contents) /\ Len(versions) <= 1
        <4>1. <<k>> \in Seq(Contents) /\ Len(<<k>>) = 1
          OBVIOUS
        <4> QED
          BY <3>2, <4>1
      <3> QED
        BY <3>1, <3>2 DEF Init
    <2>2. Len(versions) \in Nat
      BY <2>1
    <2>3. Len(versions) <= MaxVersions /\ disk \in 0..Len(versions)
      BY <2>1, <2>2, VoicesAssumption DEF Init
    <2>4. 0 \in 0..Len(versions)
      BY <2>2
    <2>5. /\ reg \in [ver : 0..Len(versions), read : BOOLEAN, ids : SUBSET Ids]
          /\ holding \in [ver : 0..Len(versions), read : BOOLEAN]
      BY <2>4 DEF Init, Got
    <2> QED
      BY <2>1, <2>3, <2>4, <2>5 DEF Init, TypeOK
  <1>2. TypeOK /\ [Next]_vars => TypeOK'
    <2> SUFFICES ASSUME TypeOK, [Next]_vars PROVE TypeOK'
      OBVIOUS
    <2>1. ASSUME NEW r \in Readers, ReaderStep(r) PROVE TypeOK'
      BY <2>1 DEF ReaderStep, Resolve, ResolveRaises, fileVars, watchVars, TypeOK
    <2>2. CASE UNCHANGED vars
      BY <2>2 DEF vars, fileVars, watchVars, TypeOK
    <2> QED
      BY <2>1, <2>2, EditorTypes, MainTypes, WatchTypes DEF Next, Stopped
  <1> QED
    BY <1>1, <1>2, PTL DEF Safety

-------------------------------------------------------------------------------
(* What is served, and in which order                                         *)

\* What the watcher carries is a version it may publish, and what is published
\* is all of one version, or no more than config.yaml when it could not be read.
ServedInv ==
    /\ pc \in {"bridge", "stamp", "serving", "refused"} =>
          reg = Snapshot(reg) /\ (reg.read => Content(reg.ver).kind # "odd")
    /\ watcher = "swap" => (holding.read => Content(holding.ver).kind # "odd")
    /\ watcher # "off" => pc = "serving"
    /\ pc \in {"seed", "write", "load"} => reg.ver = 0

\* A new version changes no old one.
LEMMA OldContents ==
    ASSUME TypeOK, NEW k \in Contents, Put(k), NEW v \in 0..Len(versions)
    PROVE  Content(v)' = Content(v)
  <1>1. versions \in Seq(Contents) /\ versions' = Append(versions, k)
    BY DEF TypeOK, Put
  <1>2. CASE v = 0
    BY <1>2 DEF Content
  <1>3. CASE v # 0
    <2>1. v \in 1..Len(versions)
      BY <1>1, <1>3
    <2>2. versions'[v] = versions[v]
      BY <1>1, <2>1
    <2> QED
      BY <1>3, <2>2 DEF Content
  <1> QED
    BY <1>2, <1>3

LEMMA ServedNext == TypeOK /\ ServedInv /\ [Next]_vars => ServedInv'
  <1> SUFFICES ASSUME TypeOK, ServedInv, [Next]_vars PROVE ServedInv'
    OBVIOUS
  <1> USE DEF fileVars, watchVars
  <1>1. ASSUME UNCHANGED <<watcher, holding, reg>>,
               \/ pc' = pc
               \/ pc \in {"seed", "write"} /\ pc' \in {"write", "load"},
               \A v \in 0..Len(versions) : Content(v)' = Content(v)
        PROVE  ServedInv'
    <2>1. reg.ver \in 0..Len(versions) /\ holding.ver \in 0..Len(versions)
      BY DEF TypeOK
    <2>2. /\ Content(reg.ver)' = Content(reg.ver)
          /\ Content(holding.ver)' = Content(holding.ver)
          /\ Snapshot(reg)' = Snapshot(reg)
      <3>1. \A v : v = reg.ver => v = reg.ver' /\ v \in 0..Len(versions)
        BY <1>1, <2>1
      <3>2. \A v : v = holding.ver => v = holding.ver' /\ v \in 0..Len(versions)
        BY <1>1, <2>1
      <3> QED
        BY <1>1, <2>1, <3>1, <3>2 DEF Snapshot, Content
    <2> QED
      BY <1>1, <2>2 DEF ServedInv
  <1>2. UNCHANGED versions => \A v : Content(v)' = Content(v)
    BY DEF Content
  <1>3. CASE Editor
    <2>1. /\ UNCHANGED <<watcher, holding, reg, pc>>
          /\ UNCHANGED versions \/ \E k \in Contents : Put(k)
      BY <1>3 DEF Editor, Edit, Remove, Restore
    <2> QED
      BY <1>1, <1>2, <2>1, OldContents
  <1>4. CASE Seed \/ WriteSeed
    <2>1. /\ UNCHANGED <<watcher, holding, reg>>
          /\ pc \in {"seed", "write"} /\ pc' \in {"write", "load"}
          /\ UNCHANGED versions \/ \E k \in Contents : Put(k)
      BY <1>4 DEF Seed, WriteSeed, Contents
    <2> QED
      BY <1>1, <1>2, <2>1, OldContents
  <1>5. CASE Load
    <2>1. UNCHANGED <<versions, watcher, holding>> /\ pc = "load" /\ watcher = "off"
      BY <1>5 DEF Load, ServedInv, TypeOK
    <2>2. CASE Raises /\ pc' = "crashed" /\ UNCHANGED reg
      BY <2>1, <2>2 DEF ServedInv
    <2>3. ASSUME NEW ok \in BOOLEAN, Returns(Got(disk, ok)),
                 reg' = Snapshot(Got(disk, ok)), pc' \in {"bridge", "refused"}
          PROVE  ServedInv'
      <3>1. reg'.ver = disk /\ reg'.read = ok /\ (ok => Content(disk).kind # "odd")
        BY <2>3 DEF Returns, Snapshot, Got
      <3>2. reg' = [ver |-> disk, read |-> ok,
                    ids |-> Merged(IF ok THEN Content(disk) ELSE Absent)]
        BY <2>3 DEF Snapshot, Got
      <3> QED
        BY <2>1, <2>3, <3>1, <3>2 DEF ServedInv, Snapshot, Content, Merged
    <2> QED
      BY <1>5, <2>2, <2>3 DEF Load
  <1>6. CASE StartBridge \/ StampAndWatch
    <2>1. /\ UNCHANGED <<versions, reg, holding>> /\ pc \in {"bridge", "stamp"}
          /\ \/ pc' = "stamp" /\ watcher' = watcher
             \/ pc' = "serving" /\ watcher' = "poll"
          /\ watcher = "off"
      BY <1>6 DEF StartBridge, StampAndWatch, ServedInv
    <2> QED
      BY <2>1 DEF ServedInv, Snapshot, Content, Merged
  <1>7. CASE Poll \/ Read
    <2>1. /\ UNCHANGED <<versions, reg, pc>> /\ watcher # "off" /\ watcher' # "off"
          /\ watcher' = "swap" =>
                (holding'.read => Content(holding'.ver).kind # "odd")
      BY <1>7, ReadStep DEF Poll, Read, ServedInv
    <2> QED
      BY <2>1 DEF ServedInv, Snapshot, Content, Merged
  <1>8. CASE Swap
    <2>1. /\ UNCHANGED <<versions, pc, holding>> /\ pc = "serving" /\ watcher' = "poll"
          /\ reg' = Snapshot(holding)
          /\ holding.read => Content(holding.ver).kind # "odd"
      BY <1>8 DEF Swap, ServedInv
    <2>2. reg'.ver = holding.ver /\ reg'.read = holding.read
      BY <2>1 DEF Snapshot
    <2> QED
      BY <2>1, <2>2 DEF ServedInv, Snapshot, Content, Merged
  <1>9. CASE (\E r \in Readers : ReaderStep(r)) \/ UNCHANGED vars
    <2>1. UNCHANGED <<versions, watcher, holding, reg, pc>>
      BY <1>9 DEF ReaderStep, Resolve, ResolveRaises, vars
    <2> QED
      BY <1>1, <1>2, <2>1
  <1> QED
    BY <1>3, <1>4, <1>5, <1>6, <1>7, <1>8, <1>9 DEF Next, Main, Watch, Stopped

(* One assignment publishes a registry: from the first load on, what a reader *)
(* sees is the built-in voices and all of one version of voices.json, never of*)
(* one whose shape makes _read_dynamic raise; or, when a file that was there  *)
(* could not be read, the built-in voices and nothing else.                   *)
THEOREM OneVersionServed ==
    Safety => [](pc \in {"bridge", "stamp", "serving", "refused"} =>
                    reg = Snapshot(reg) /\ (reg.read => Content(reg.ver).kind # "odd"))
  <1>1. Init => ServedInv
    BY DEF Init, ServedInv
  <1>2. ServedInv => (pc \in {"bridge", "stamp", "serving", "refused"} =>
                         reg = Snapshot(reg) /\ (reg.read => Content(reg.ver).kind # "odd"))
    BY DEF ServedInv
  <1> QED
    BY <1>1, <1>2, ServedNext, TypeCorrect, PTL DEF Safety

\* Until an older file comes back, what the watcher carries is not older than
\* what is served.
ForwardInv ==
    ~restored => /\ disk \in {0, Len(versions)}
                 /\ watcher = "swap" /\ holding.ver # 0 => holding.ver >= reg.ver
                 /\ pc \in {"seed", "write", "load"} => reg.ver = 0

LEMMA ForwardNext ==
    ASSUME TypeOK, ServedInv, ForwardInv, [Next]_vars
    PROVE  /\ ForwardInv'
           /\ ~restored' /\ reg'.ver # 0 => reg'.ver >= reg.ver
  <1> SUFFICES ASSUME ~restored'
               PROVE  /\ ForwardInv'
                      /\ reg'.ver # 0 => reg'.ver >= reg.ver
    BY DEF ForwardInv
  <1> USE DEF fileVars, watchVars
  <1>1. /\ ~restored /\ disk \in {0, Len(versions)} /\ Len(versions) \in Nat
        /\ reg.ver \in 0..Len(versions) /\ holding.ver \in 0..Len(versions)
        /\ watcher = "swap" /\ holding.ver # 0 => holding.ver >= reg.ver
        /\ pc \in {"seed", "write", "load"} => reg.ver = 0
    BY RestoredStays DEF ForwardInv, TypeOK
  <1>2. ASSUME NEW k \in Contents, Put(k)
        PROVE  disk' = Len(versions')
    <2>1. versions \in Seq(Contents) /\ versions' = Append(versions, k)
      BY <1>2 DEF TypeOK, Put
    <2>2. Len(versions') = Len(versions) + 1
      BY <2>1
    <2> QED
      BY <1>2, <2>2 DEF Put
  <1>3. CASE Editor
    <2>1. /\ UNCHANGED <<watcher, holding, reg, pc>>
          /\ \/ \E k \in Contents : Put(k)
             \/ disk' = 0 \/ restored'
      BY <1>3 DEF Editor, Edit, Remove, Restore
    <2> QED
      BY <1>1, <1>2, <2>1 DEF ForwardInv
  <1>4. CASE Seed \/ WriteSeed
    <2>1. /\ UNCHANGED <<watcher, holding, reg>>
          /\ pc \in {"seed", "write"} /\ pc' \in {"write", "load"}
          /\ UNCHANGED <<disk, versions>> \/ \E k \in Contents : Put(k)
      BY <1>4 DEF Seed, WriteSeed, Contents
    <2> QED
      BY <1>1, <1>2, <2>1 DEF ForwardInv
  <1>5. CASE Load
    <2>1. /\ UNCHANGED <<disk, versions, watcher, holding>> /\ pc = "load"
          /\ pc' \notin {"seed", "write", "load"} /\ watcher # "swap" /\ reg.ver = 0
      BY <1>1, <1>5 DEF Load, ServedInv
    <2>2. reg' = reg \/ reg'.ver = disk
      <3>1. \A ok : Snapshot(Got(disk, ok)).ver = disk
        BY DEF Snapshot, Got
      <3> QED
        BY <1>5, <3>1 DEF Load
    <2> QED
      BY <1>1, <2>1, <2>2 DEF ForwardInv
  <1>6. CASE StartBridge \/ StampAndWatch
    BY <1>1, <1>6 DEF StartBridge, StampAndWatch, ForwardInv
  <1>7. CASE Poll \/ Read
    <2>1. /\ UNCHANGED <<versions, disk, reg, pc>>
          /\ watcher' = "swap" => holding'.ver = disk
      BY <1>7, ReadStep DEF Poll
    <2> QED
      BY <1>1, <2>1 DEF ForwardInv
  <1>8. CASE Swap
    <2>1. /\ UNCHANGED <<versions, disk, pc>> /\ watcher = "swap" /\ watcher' = "poll"
          /\ reg'.ver = holding.ver /\ pc = "serving"
      BY <1>8 DEF Swap, Snapshot, ServedInv
    <2> QED
      BY <1>1, <2>1 DEF ForwardInv
  <1>9. CASE (\E r \in Readers : ReaderStep(r)) \/ UNCHANGED vars
    <2>1. UNCHANGED <<versions, disk, watcher, holding, reg, pc>>
      BY <1>9 DEF ReaderStep, Resolve, ResolveRaises, vars
    <2> QED
      BY <1>1, <2>1 DEF ForwardInv
  <1> QED
    BY <1>3, <1>4, <1>5, <1>6, <1>7, <1>8, <1>9 DEF Next, Main, Watch, Stopped

(* The palette never goes back: as long as no older file returns, a reload    *)
(* replaces a version by a newer one, or by none when the file went missing   *)
(* between stat and read, however edits and polls interleave.                 *)
THEOREM NeverBack ==
    Safety => [][~restored' /\ reg'.ver # 0 => reg'.ver >= reg.ver]_vars
  <1>1. Init => ServedInv /\ ForwardInv
    BY DEF Init, ServedInv, ForwardInv
  <1>2. TypeOK /\ ServedInv /\ ForwardInv /\ [Next]_vars => ForwardInv'
    BY ForwardNext
  <1>3. TypeOK /\ ServedInv /\ ForwardInv /\ [Next]_vars =>
          [~restored' /\ reg'.ver # 0 => reg'.ver >= reg.ver]_vars
    BY ForwardNext
  <1> QED
    BY <1>1, <1>2, <1>3, ServedNext, TypeCorrect, PTL DEF Safety

-------------------------------------------------------------------------------
(* What the promise CaughtUp rests on besides fairness.                       *)

\* How many steps the watcher is at most away from having dealt with the file
\* that is there: a version that came too late for its stat takes a second turn.
TurnsLeft ==
    CASE watcher = "poll" -> IF Changed THEN 3 ELSE 0
      [] watcher = "read" -> IF Changed THEN 5 ELSE 2
      [] watcher = "swap" -> IF Changed THEN 4 ELSE 1
      [] OTHER            -> 0

DealtWith ==
    TurnsLeft = 0 /\ polled /\ disk # 0 /\ ~restored
        => \/ Serves(disk) \/ CouldNotRead(disk)
           \/ Content(disk).kind = "odd"

LEMMA WatchCounts == ASSUME Watch PROVE TurnsLeft' < TurnsLeft
  <1> USE DEF fileVars, Changed, TurnsLeft
  <1>1. CASE Poll
    BY <1>1 DEF Poll
  <1>2. CASE Read
    BY <1>2 DEF Read
  <1>3. CASE Swap
    BY <1>3 DEF Swap
  <1> QED
    BY <1>1, <1>2, <1>3 DEF Watch

\* Start-up and readers give the watcher nothing to do.
LEMMA OthersCount ==
    ASSUME ServedInv, Main \/ (\E r \in Readers : ReaderStep(r)) \/ UNCHANGED vars
    PROVE  TurnsLeft' = TurnsLeft
  <1> USE DEF fileVars, watchVars, Changed, TurnsLeft
  <1>1. CASE Seed \/ WriteSeed \/ Load \/ StartBridge
    <2>1. watcher = "off" /\ watcher' = "off"
      BY <1>1 DEF Seed, WriteSeed, Load, StartBridge, ServedInv
    <2> QED
      BY <2>1
  <1>2. CASE StampAndWatch
    BY <1>2 DEF StampAndWatch, ServedInv
  <1>3. CASE \E r \in Readers : ReaderStep(r)
    BY <1>3 DEF ReaderStep, Resolve, ResolveRaises
  <1>4. CASE UNCHANGED vars
    BY <1>4 DEF vars
  <1> QED
    BY <1>1, <1>2, <1>3, <1>4 DEF Main

(* An edit is opened after at most five steps of the watcher, unless the file *)
(* is edited again, and then served, or refused as odd, or given up because   *)
(* it could not be read: only an edit gives the watcher more to do, and when  *)
(* nothing is left to do the file that is there has had its turn, unless none *)
(* was changed since the start or an older one came back.                     *)
THEOREM CatchesUp ==
    Safety => /\ [](TurnsLeft \in 0..5 /\ DealtWith)
              /\ [][~Editor => /\ TurnsLeft' <= TurnsLeft
                               /\ Watch => TurnsLeft' < TurnsLeft]_vars
  <1>1. TurnsLeft \in 0..5
    BY DEF TurnsLeft
  <1>2. ASSUME TypeOK, FreshInv PROVE DealtWith
    <2> SUFFICES ASSUME TurnsLeft = 0, polled, disk # 0, ~restored
                 PROVE  reg.ver = disk \/ Content(disk).kind = "odd"
      BY <1>2 DEF DealtWith, Serves, CouldNotRead, TypeOK
    <2>1. watcher \in {"off", "poll", "read", "swap"}
      BY <1>2 DEF TypeOK
    <2>2. watcher # "off"
      BY <1>2 DEF FreshInv, SyncInv, PhaseInv
    <2>3. watcher = "poll" /\ ~Changed
      BY <2>1, <2>2 DEF TurnsLeft
    <2> QED
      BY <1>2, <2>3 DEF FreshInv, SyncInv, RestInv, Changed
  <1>3. ASSUME ServedInv, [Next]_vars, ~Editor
        PROVE  TurnsLeft' <= TurnsLeft /\ (Watch => TurnsLeft' < TurnsLeft)
    <2>1. TurnsLeft \in 0..5 /\ TurnsLeft' \in 0..5
      BY DEF TurnsLeft
    <2>2. Watch => TurnsLeft' < TurnsLeft
      BY WatchCounts
    <2>3. ~Watch => TurnsLeft' = TurnsLeft
      BY <1>3, OthersCount DEF Next, Stopped
    <2> QED
      BY <2>1, <2>2, <2>3
  <1>4. TypeOK /\ FreshInv => TurnsLeft \in 0..5 /\ DealtWith
    BY <1>1, <1>2
  <1>5. ServedInv /\ [Next]_vars =>
          [~Editor => /\ TurnsLeft' <= TurnsLeft
                      /\ Watch => TurnsLeft' < TurnsLeft]_vars
    BY <1>3
  <1>6. Init => FreshInv /\ ServedInv
    BY SyncInit DEF Init, FreshInv, ServedInv
  <1>7. FreshInv /\ [Next]_vars => FreshInv'
    BY RestoredStays, SyncNext DEF FreshInv
  <1> QED
    BY <1>4, <1>5, <1>6, <1>7, ServedNext, TypeCorrect, PTL DEF Safety
===============================================================================
