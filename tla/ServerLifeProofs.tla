---------------------------- MODULE ServerLifeProofs ----------------------------
(***************************************************************************)
(* The life of daemon processes, for any number of daemons, starts and      *)
(* directories: what a sweep clears up and what it spares, what an orderly  *)
(* end leaves behind, and how many connections come too late.               *)
(***************************************************************************)
EXTENDS ServerLife, TLAPS, FiniteSetTheorems

Sweeping == {"sweep", "remove"}

\* The connection that came late was the last: the loop is over.
LateInv ==
    \A d \in Daemons :
        late[d] # 0 => /\ late[d] = 1 /\ ~running[d]
                       /\ pc[d] \in {"loop", "stop", "rmdir", "close"}

\* How far a process has come with its directory and its socket.
StageInv ==
    \A d \in Daemons :
        /\ pc[d] \in Sweeping \cup {"down", "mkdir"} => mine[d] = NoDir
        /\ pc[d] \in {"bind", "listen", "chmod", "register", "rmdir"} => mine[d] # NoDir
        /\ bridged[d] => /\ mine[d] # NoDir
                         /\ pc[d] \in {"tcp", "loop", "accept", "stop", "rmdir", "close"}
        /\ pc[d] = "bind" => sock[mine[d]] = "none"
        /\ pc[d] = "listen" => sock[mine[d]] = "bound"

\* A directory has one owner, and a socket that listens a live one.
OwnInv ==
    /\ \A d \in Daemons : mine[d] # NoDir => path[mine[d]] # "never"
    /\ \A d, e \in Daemons : mine[d] = mine[e] /\ mine[d] # NoDir => d = e
    /\ \A x \in Dirs : sock[x] # "none" => path[x] # "never"
    /\ \A x \in Dirs : sock[x] = "listening" => Owned(x)

\* What a sweep knows, it knows while it lasts.
SweepInv ==
    \A d \in Daemons :
        /\ pc[d] \notin Sweeping => todo[d] = {}
        /\ (pc[d] = "remove") <=> (stale[d] # NoDir)
        /\ pc[d] \notin Sweeping \cup {"mkdir"} => listed[d] = Unlisted

\* A directory that was dead stays dead, and the sweep has still to come to it.
DeadInv ==
    \A d \in Daemons, x \in Dirs :
        listed[d][x] = "dead" =>
            \/ path[x] = "gone"
            \/ /\ path[x] = "there" /\ ~Owned(x) /\ sock[x] # "listening"
               /\ (x \in todo[d]) \/ (stale[d] = x)

\* A status server that was up is so until it is closed for good.
UpInv ==
    \A d \in Daemons, x \in Dirs :
        listed[d][x] = "up" =>
            /\ path[x] # "never" /\ sock[x] \in {"listening", "closed"}
            /\ stale[d] = x /\ path[x] = "there" => sock[x] # "listening" \/ crowded[d]

IInv == /\ TypeOK /\ LateInv /\ StageInv /\ OwnInv /\ SweepInv /\ DeadInv /\ UpInv
        /\ OrderlyEndCleansUp

LEMMA NoDirIsNone == NoDir \notin Dirs
  BY LifeAssumption DEF NoDir, Dirs

LEMMA InitInv == Init => IInv
  <1> SUFFICES ASSUME Init PROVE IInv
    OBVIOUS
  <1> USE LifeAssumption DEF Init
  <1>1. TypeOK
    BY DEF TypeOK, Unlisted
  <1>2. LateInv /\ StageInv /\ SweepInv /\ OrderlyEndCleansUp
    BY DEF LateInv, StageInv, SweepInv, OrderlyEndCleansUp, Sweeping
  <1>3. OwnInv
    BY DEF OwnInv
  <1>4. DeadInv /\ UpInv
    BY DEF DeadInv, UpInv, Unlisted
  <1> QED
    BY <1>1, <1>2, <1>3, <1>4 DEF IInv

LEMMA StartStep ==
    ASSUME IInv, NEW d \in Daemons, Start(d)
    PROVE  IInv'
  <1> USE NoDirIsNone DEF IInv, Start, Goto, fileVars, sweepVars, serveVars
  <1> DEFINE Look == [x \in Dirs |->
                CASE x \in Listing /\ ~Owned(x)            -> "dead"
                  [] x \in Listing /\ sock[x] = "listening" -> "up"
                  [] OTHER                                  -> "unsure"]
  <1>1. \/ /\ todo' = [todo EXCEPT ![d] = Listing]
           /\ listed' = [listed EXCEPT ![d] = Look]
        \/ UNCHANGED <<todo, listed>>
    OBVIOUS
  <1>2. Look \in [Dirs -> {"dead", "up", "unsure"}]
    OBVIOUS
  <1>3. \A x \in Dirs : /\ Look[x] = "dead" => x \in Listing /\ ~Owned(x)
                        /\ Look[x] = "up" => x \in Listing /\ sock[x] = "listening"
    OBVIOUS
  <1> HIDE DEF Look
  <1>4. TypeOK'
    <2>1. listed' \in [Daemons -> [Dirs -> {"dead", "up", "unsure"}]]
      BY <1>1, <1>2 DEF TypeOK
    <2>2. todo' \in [Daemons -> SUBSET Dirs]
      <3>1. Listing \in SUBSET Dirs
        BY DEF Listing
      <3>2. CASE todo' = [todo EXCEPT ![d] = Listing]
        BY <3>1, <3>2 DEF TypeOK
      <3>3. CASE UNCHANGED todo
        BY <3>3 DEF TypeOK
      <3> QED
        BY <1>1, <3>2, <3>3
    <2>3. starts' \in 0..MaxStarts
      BY LifeAssumption DEF TypeOK
    <2> QED
      BY <2>1, <2>2, <2>3 DEF TypeOK
  <1>5. LateInv'
    BY DEF LateInv, TypeOK
  <1>6. StageInv'
    BY DEF StageInv, TypeOK, Sweeping
  <1>7. OwnInv'
    BY DEF OwnInv, StageInv, Owned, TypeOK, Sweeping
  <1>8. SweepInv'
    BY DEF SweepInv, TypeOK, Sweeping
  <1>9. \A x \in Dirs : Owned(x)' <=> Owned(x)
    BY DEF Owned, StageInv, TypeOK
  <1>10. DeadInv'
    <2> HIDE DEF Start
    <2> SUFFICES ASSUME NEW e \in Daemons, NEW x \in Dirs, listed'[e][x] = "dead"
                 PROVE  \/ path[x] = "gone"
                        \/ /\ path[x] = "there" /\ ~Owned(x) /\ sock[x] # "listening"
                           /\ (x \in todo'[e]) \/ (stale'[e] = x)
      BY <1>9 DEF DeadInv, Start
    <2>0. listed[d][x] = "unsure" /\ UNCHANGED stale
      BY DEF Start, SweepInv, Unlisted, Sweeping
    <2>1. CASE listed' = [listed EXCEPT ![d] = Look] /\ e = d
      <3>1. x \in Listing /\ ~Owned(x)
        BY <2>1, <1>3 DEF TypeOK
      <3>2. sock[x] # "listening"
        BY <3>1 DEF OwnInv
      <3>3. todo' = [todo EXCEPT ![d] = Listing] \/ UNCHANGED listed
        BY <1>1
      <3>4. CASE UNCHANGED listed
        BY <2>0, <2>1, <3>4
      <3> QED
        BY <2>1, <3>1, <3>2, <3>3, <3>4 DEF Listing, TypeOK
    <2>2. CASE listed'[e] = listed[e]
      <3>1. e # d
        BY <2>0, <2>2
      <3>2. todo'[e] = todo[e]
        BY <1>1, <3>1 DEF TypeOK
      <3> QED
        BY <2>0, <2>2, <3>2 DEF DeadInv
    <2> QED
      BY <1>1, <2>1, <2>2 DEF TypeOK
  <1>11. UpInv'
    <2> HIDE DEF Start
    <2> SUFFICES ASSUME NEW e \in Daemons, NEW x \in Dirs, listed'[e][x] = "up"
                 PROVE  /\ path[x] # "never" /\ sock[x] \in {"listening", "closed"}
                        /\ stale[e] = x /\ path[x] = "there"
                              => sock[x] # "listening" \/ crowded[e]
      BY DEF UpInv, Start
    <2>1. CASE listed' = [listed EXCEPT ![d] = Look] /\ e = d
      <3>1. x \in Listing /\ sock[x] = "listening"
        BY <2>1, <1>3 DEF TypeOK
      <3>2. stale[d] = NoDir
        BY DEF Start, SweepInv
      <3> QED
        BY <2>1, <3>1, <3>2 DEF Listing
    <2>2. CASE listed'[e] = listed[e]
      BY <2>2 DEF UpInv
    <2> QED
      BY <1>1, <2>1, <2>2 DEF TypeOK
  <1>12. OrderlyEndCleansUp'
    BY DEF OrderlyEndCleansUp, TypeOK, StageInv
  <1> QED
    BY <1>4, <1>5, <1>6, <1>7, <1>8, <1>10, <1>11, <1>12

LEMMA ProbeStep ==
    ASSUME IInv, NEW d \in Daemons, NEW x \in Dirs, Probe(d, x)
    PROVE  IInv'
  <1> USE NoDirIsNone DEF IInv, Probe, Goto, fileVars, sweepVars, serveVars
  <1>1. TypeOK'
    <2>1. stale' \in [Daemons -> Dirs \cup {NoDir}]
      BY DEF TypeOK
    <2>2. todo' \in [Daemons -> SUBSET Dirs]
      BY DEF TypeOK
    <2> QED
      BY <2>1, <2>2 DEF TypeOK
  <1>2. LateInv'
    BY DEF LateInv, TypeOK
  <1>3. StageInv'
    BY DEF StageInv, TypeOK, Sweeping
  <1>4. OwnInv'
    BY DEF OwnInv, StageInv, Owned, TypeOK, Sweeping
  <1>5. SweepInv'
    BY DEF SweepInv, TypeOK, Sweeping
  <1>6. DeadInv'
    <2> SUFFICES ASSUME NEW e \in Daemons, NEW y \in Dirs, listed[e][y] = "dead"
                 PROVE  \/ path[y] = "gone"
                        \/ /\ path[y] = "there" /\ ~Owned(y)' /\ sock[y] # "listening"
                           /\ (y \in todo'[e]) \/ (stale'[e] = y)
      BY DEF DeadInv
    <2>1. Owned(y)' <=> Owned(y)
      BY DEF Owned, TypeOK
    <2>2. CASE e = d /\ y = x
      BY <2>1, <2>2 DEF DeadInv, Refuses, TypeOK
    <2>3. CASE e = d /\ y # x
      BY <2>1, <2>3 DEF DeadInv, SweepInv, TypeOK
    <2>4. CASE e # d
      BY <2>1, <2>4 DEF DeadInv, TypeOK
    <2> QED
      BY <2>2, <2>3, <2>4
  <1>7. UpInv'
    <2> SUFFICES ASSUME NEW e \in Daemons, NEW y \in Dirs, listed[e][y] = "up"
                 PROVE  /\ path[y] # "never" /\ sock[y] \in {"listening", "closed"}
                        /\ stale'[e] = y /\ path[y] = "there"
                              => sock[y] # "listening" \/ crowded'[e]
      BY DEF UpInv
    <2>1. \/ stale'[e] = stale[e] /\ crowded'[e] = crowded[e]
          \/ stale'[e] = x /\ (Refuses(x) \/ crowded'[e])
      BY DEF TypeOK
    <2> QED
      BY <2>1 DEF UpInv, Refuses
  <1>8. OrderlyEndCleansUp'
    BY DEF OrderlyEndCleansUp, TypeOK, StageInv
  <1> QED
    BY <1>1, <1>2, <1>3, <1>4, <1>5, <1>6, <1>7, <1>8

LEMMA RemoveStep ==
    ASSUME IInv, NEW d \in Daemons, Remove(d)
    PROVE  IInv'
  <1> USE NoDirIsNone DEF IInv, Remove, Goto, fileVars, sweepVars, serveVars
  <1>1. TypeOK'
    BY DEF TypeOK
  <1>2. LateInv'
    BY DEF LateInv, TypeOK
  <1>3. StageInv'
    BY DEF StageInv, TypeOK, Sweeping
  <1>4. OwnInv'
    BY DEF OwnInv, StageInv, Owned, TypeOK, Sweeping
  <1>5. SweepInv'
    BY DEF SweepInv, TypeOK, Sweeping
  <1>6. DeadInv'
    BY DEF DeadInv, TypeOK, Owned, OwnInv, SweepInv, StageInv, Sweeping
  <1>7. UpInv'
    BY DEF UpInv, TypeOK, OwnInv, StageInv, SweepInv, Sweeping
  <1>8. OrderlyEndCleansUp'
    BY DEF OrderlyEndCleansUp, TypeOK, StageInv
  <1> QED
    BY <1>1, <1>2, <1>3, <1>4, <1>5, <1>6, <1>7, <1>8

LEMMA SweepDoneStep ==
    ASSUME IInv, NEW d \in Daemons, SweepDone(d)
    PROVE  IInv'
  <1> USE NoDirIsNone DEF IInv, SweepDone, Goto, fileVars, sweepVars, serveVars
  <1>1. TypeOK'
    BY DEF TypeOK
  <1>2. LateInv'
    BY DEF LateInv, TypeOK
  <1>3. StageInv'
    BY DEF StageInv, TypeOK, Sweeping
  <1>4. OwnInv'
    BY DEF OwnInv, StageInv, Owned, TypeOK, Sweeping
  <1>5. SweepInv'
    BY DEF SweepInv, TypeOK, Sweeping
  <1>6. DeadInv'
    BY DEF DeadInv, TypeOK, Owned, OwnInv, SweepInv, StageInv, Sweeping
  <1>7. UpInv'
    BY DEF UpInv, TypeOK, OwnInv, StageInv, SweepInv, Sweeping
  <1>8. OrderlyEndCleansUp'
    BY DEF OrderlyEndCleansUp, TypeOK, StageInv
  <1> QED
    BY <1>1, <1>2, <1>3, <1>4, <1>5, <1>6, <1>7, <1>8

LEMMA MakeDirStep ==
    ASSUME IInv, NEW d \in Daemons, MakeDir(d)
    PROVE  IInv'
  <1> USE NoDirIsNone DEF IInv, sweepVars, serveVars
  <1>1. /\ pc[d] = "mkdir" /\ mine[d] = NoDir
        /\ listed' = [listed EXCEPT ![d] = Unlisted]
        /\ UNCHANGED <<sock, todo, stale, crowded, serveVars, bridged, port, starts>>
    BY DEF MakeDir, StageInv
  <1>2. \/ \E x \in Dirs : /\ path[x] = "never"
                           /\ path' = [path EXCEPT ![x] = "there"]
                           /\ mine' = [mine EXCEPT ![d] = x]
                           /\ pc' = [pc EXCEPT ![d] = "bind"]
        \/ pc' = [pc EXCEPT ![d] = "tcp"] /\ UNCHANGED <<path, mine>>
    BY DEF MakeDir, Goto
  <1>3. TypeOK'
    <2>1. listed' \in [Daemons -> [Dirs -> {"dead", "up", "unsure"}]]
      BY <1>1 DEF TypeOK, Unlisted
    <2>2. path' \in [Dirs -> {"never", "there", "gone"}]
      <3>1. \/ \E x \in Dirs : path' = [path EXCEPT ![x] = "there"]
            \/ path' = path
        BY <1>2
      <3> QED
        BY <3>1 DEF TypeOK
    <2>3. mine' \in [Daemons -> Dirs \cup {NoDir}]
      BY <1>2 DEF TypeOK
    <2> QED
      BY <1>1, <1>2, <2>1, <2>2, <2>3 DEF TypeOK
  <1>4. LateInv'
    BY <1>1, <1>2 DEF LateInv, TypeOK
  <1>5. StageInv'
    <2>1. CASE UNCHANGED mine
      BY <1>1, <1>2, <2>1 DEF StageInv, TypeOK, Sweeping
    <2>2. ASSUME NEW x \in Dirs, path[x] = "never", mine' = [mine EXCEPT ![d] = x],
                 pc' = [pc EXCEPT ![d] = "bind"]
          PROVE  StageInv'
      <3>1. sock[x] = "none"
        BY <2>2 DEF OwnInv
      <3> QED
        BY <1>1, <2>2, <3>1 DEF StageInv, TypeOK, Sweeping
    <2> QED
      BY <1>2, <2>1, <2>2
  <1>6. \A x \in Dirs : path[x] # "never" => path'[x] = path[x]
    BY <1>2 DEF TypeOK
  <1>7. \A x \in Dirs : path[x] # "never" => (Owned(x)' <=> Owned(x))
    <2> SUFFICES ASSUME NEW x \in Dirs, path[x] # "never" PROVE Owned(x)' <=> Owned(x)
      OBVIOUS
    <2>1. mine[d] # x /\ mine'[d] # x
      BY <1>1, <1>2 DEF TypeOK
    <2>2. \A e \in Daemons : e # d => mine'[e] = mine[e] /\ pc'[e] = pc[e]
      BY <1>2 DEF TypeOK
    <2> QED
      BY <2>1, <2>2 DEF Owned
  <1>8. OwnInv'
    <2>1. \A e \in Daemons : mine'[e] # NoDir => path'[mine'[e]] # "never"
      BY <1>1, <1>2 DEF OwnInv, TypeOK
    <2>2. \A e, f \in Daemons : mine'[e] = mine'[f] /\ mine'[e] # NoDir => e = f
      BY <1>1, <1>2 DEF OwnInv, TypeOK
    <2>3. \A x \in Dirs : sock[x] # "none" => path'[x] # "never"
      BY <1>6 DEF OwnInv
    <2>4. \A x \in Dirs : sock[x] = "listening" => Owned(x)'
      BY <1>7 DEF OwnInv
    <2> QED
      BY <1>1, <2>1, <2>2, <2>3, <2>4 DEF OwnInv
  <1>9. SweepInv'
    BY <1>1, <1>2 DEF SweepInv, TypeOK, Sweeping
  <1>10. \A e \in Daemons, x \in Dirs :
            listed'[e][x] # "unsure" => listed'[e][x] = listed[e][x]
    BY <1>1 DEF TypeOK, Unlisted
  <1>11. DeadInv'
    BY <1>1, <1>6, <1>7, <1>10 DEF DeadInv
  <1>12. UpInv'
    BY <1>1, <1>6, <1>10 DEF UpInv
  <1>13. OrderlyEndCleansUp'
    BY <1>1, <1>2, <1>6 DEF OrderlyEndCleansUp, TypeOK, OwnInv, StageInv
  <1> QED
    BY <1>3, <1>4, <1>5, <1>8, <1>9, <1>11, <1>12, <1>13

\* The socket of the own directory is made, listens, or is given up.
LEMMA SocketStep ==
    ASSUME IInv, NEW d \in Daemons, BindSocket(d) \/ Listen(d) \/ Chmod(d)
    PROVE  IInv'
  <1> USE NoDirIsNone DEF IInv, BindSocket, Listen, Chmod, Goto, fileVars, sweepVars,
                          serveVars
  <1>1. TypeOK'
    BY DEF TypeOK
  <1>2. LateInv' /\ OrderlyEndCleansUp'
    <2>1. LateInv'
      BY DEF LateInv, TypeOK
    <2>2. OrderlyEndCleansUp'
      BY DEF OrderlyEndCleansUp, TypeOK
    <2> QED
      BY <2>1, <2>2
  <1>3. SweepInv' /\ StageInv'
    <2>1. SweepInv'
      BY DEF SweepInv, TypeOK, Sweeping
    <2>2. StageInv'
      BY DEF StageInv, OwnInv, TypeOK, Sweeping
    <2> QED
      BY <2>1, <2>2
  <1>4. OwnInv'
    <2>1. UNCHANGED <<path, mine>> /\ mine[d] \in Dirs /\ pc'[d] # "down"
      BY DEF StageInv, TypeOK
    <2>2. \A x \in Dirs : sock'[x] = sock[x] \/ (x = mine[d] /\ Owned(x)')
      BY <2>1 DEF Owned, TypeOK
    <2>3. \A x \in Dirs : Owned(x) => Owned(x)'
      BY <2>1 DEF Owned, TypeOK
    <2> QED
      BY <2>1, <2>2, <2>3 DEF OwnInv
  <1>5. DeadInv'
    BY DEF DeadInv, TypeOK, Owned, OwnInv, StageInv
  <1>6. UpInv'
    BY DEF UpInv, TypeOK, OwnInv, StageInv
  <1> QED
    BY <1>1, <1>2, <1>3, <1>4, <1>5, <1>6

LEMMA RegisterStep ==
    ASSUME IInv, NEW d \in Daemons, Register(d)
    PROVE  IInv'
  <1> USE NoDirIsNone DEF IInv, Register, Goto, fileVars, sweepVars, serveVars
  <1>1. TypeOK'
    BY DEF TypeOK
  <1>2. LateInv'
    BY DEF LateInv, TypeOK
  <1>3. StageInv'
    BY DEF StageInv, TypeOK, Sweeping
  <1>4. OwnInv'
    BY DEF OwnInv, StageInv, Owned, TypeOK, Sweeping
  <1>5. SweepInv'
    BY DEF SweepInv, TypeOK, Sweeping
  <1>6. DeadInv'
    BY DEF DeadInv, TypeOK, Owned, OwnInv, SweepInv, StageInv, Sweeping
  <1>7. UpInv'
    BY DEF UpInv, TypeOK, OwnInv, StageInv, SweepInv, Sweeping
  <1>8. OrderlyEndCleansUp'
    BY DEF OrderlyEndCleansUp, TypeOK, StageInv
  <1> QED
    BY <1>1, <1>2, <1>3, <1>4, <1>5, <1>6, <1>7, <1>8

\* The accept loop and the idle monitor touch no directory.
LEMMA ServeStep ==
    ASSUME IInv, NEW d \in Daemons,
           \/ Loop(d) \/ Accept(d) \/ LeaveLoop(d) \/ Activity(d)
           \/ CheckIdle(d) \/ ClearRunning(d)
    PROVE  IInv'
  <1> USE DEF IInv, Goto, fileVars, sweepVars, serveVars
  <1>1. UNCHANGED <<path, sock, mine, bridged, sweepVars, port, starts>>
    BY DEF Loop, Accept, LeaveLoop, Activity, CheckIdle, ClearRunning
  <1>2. \/ UNCHANGED pc
        \/ /\ pc[d] \in {"loop", "accept"}
           /\ \E there \in {"loop", "accept", "stop"} : pc' = [pc EXCEPT ![d] = there]
    BY DEF Loop, Accept, LeaveLoop, Activity, CheckIdle, ClearRunning
  <1>3. TypeOK'
    <2>1. pc' \in [Daemons -> {"down", "sweep", "remove", "mkdir", "bind", "listen",
                               "chmod", "register", "tcp", "loop", "accept", "stop",
                               "rmdir", "close"}]
      BY <1>2 DEF TypeOK
    <2>2. /\ running' \in [Daemons -> BOOLEAN] /\ quiet' \in [Daemons -> BOOLEAN]
          /\ monitor' \in [Daemons -> {"off", "poll", "decided"}]
      BY DEF TypeOK, Loop, Accept, LeaveLoop, Activity, CheckIdle, ClearRunning
    <2>3. late' \in [Daemons -> Nat]
      BY DEF TypeOK, Loop, Accept, LeaveLoop, Activity, CheckIdle, ClearRunning
    <2> QED
      BY <1>1, <2>1, <2>2, <2>3 DEF TypeOK
  <1>4. LateInv'
    BY DEF LateInv, TypeOK, Loop, Accept, LeaveLoop, Activity, CheckIdle, ClearRunning
  <1>5. StageInv' /\ SweepInv' /\ OrderlyEndCleansUp'
    BY <1>1, <1>2 DEF StageInv, SweepInv, OrderlyEndCleansUp, TypeOK, Sweeping
  <1>6. \A x \in Dirs : Owned(x)' <=> Owned(x)
    BY <1>1, <1>2 DEF Owned, TypeOK
  <1>7. OwnInv' /\ DeadInv' /\ UpInv'
    BY <1>1, <1>6 DEF OwnInv, DeadInv, UpInv
  <1> QED
    BY <1>3, <1>4, <1>5, <1>7

LEMMA StopBridgeStep ==
    ASSUME IInv, NEW d \in Daemons, StopBridge(d)
    PROVE  IInv'
  <1> USE NoDirIsNone DEF IInv, StopBridge, Goto, fileVars, sweepVars, serveVars
  <1>1. TypeOK'
    BY DEF TypeOK
  <1>2. LateInv'
    BY DEF LateInv, TypeOK
  <1>3. StageInv'
    BY DEF StageInv, OwnInv, TypeOK, Sweeping
  <1>4. OwnInv'
    BY DEF OwnInv, StageInv, Owned, TypeOK, Sweeping
  <1>5. SweepInv'
    BY DEF SweepInv, TypeOK, Sweeping
  <1>6. DeadInv'
    BY DEF DeadInv, TypeOK, Owned, OwnInv, SweepInv, StageInv, Sweeping
  <1>7. UpInv'
    BY DEF UpInv, TypeOK, OwnInv, StageInv, SweepInv, Sweeping
  <1>8. OrderlyEndCleansUp'
    BY DEF OrderlyEndCleansUp, TypeOK, StageInv
  <1> QED
    BY <1>1, <1>2, <1>3, <1>4, <1>5, <1>6, <1>7, <1>8

LEMMA RemoveDirStep ==
    ASSUME IInv, NEW d \in Daemons, RemoveDir(d)
    PROVE  IInv'
  <1> USE NoDirIsNone DEF IInv, RemoveDir, Goto, fileVars, sweepVars, serveVars
  <1>1. TypeOK'
    BY DEF TypeOK
  <1>2. LateInv'
    BY DEF LateInv, TypeOK
  <1>3. StageInv'
    BY DEF StageInv, TypeOK, Sweeping
  <1>4. OwnInv'
    BY DEF OwnInv, StageInv, Owned, TypeOK, Sweeping
  <1>5. SweepInv'
    BY DEF SweepInv, TypeOK, Sweeping
  <1>6. DeadInv'
    BY DEF DeadInv, TypeOK, Owned, OwnInv, SweepInv, StageInv, Sweeping
  <1>7. UpInv'
    BY DEF UpInv, TypeOK, OwnInv, StageInv, SweepInv, Sweeping
  <1>8. OrderlyEndCleansUp'
    BY DEF OrderlyEndCleansUp, TypeOK, StageInv
  <1> QED
    BY <1>1, <1>2, <1>3, <1>4, <1>5, <1>6, <1>7, <1>8

\* The end of a process, however it comes.
LEMMA GoneStep ==
    ASSUME IInv, NEW d \in Daemons, pc[d] # "down", Gone(d), UNCHANGED <<path, starts>>
    PROVE  IInv'
  <1> USE NoDirIsNone DEF IInv, Gone, Goto
  <1>1. TypeOK'
    BY LifeAssumption DEF TypeOK, Unlisted
  <1>2. LateInv'
    BY DEF LateInv, TypeOK
  <1>3. StageInv'
    BY DEF StageInv, OwnInv, TypeOK, Sweeping
  <1>4. \A x \in Dirs : /\ sock'[x] = "listening" => sock[x] = "listening" /\ x # mine[d]
                        /\ Owned(x)' <=> Owned(x) /\ x # mine[d]
    BY DEF Owned, OwnInv, TypeOK
  <1>5. OwnInv'
    BY <1>4 DEF OwnInv, TypeOK
  <1>6. SweepInv'
    BY DEF SweepInv, TypeOK, Sweeping
  <1>7. \A e \in Daemons, x \in Dirs :
            listed'[e][x] # "unsure" => e # d /\ listed'[e][x] = listed[e][x]
    BY DEF TypeOK, Unlisted
  <1>8. DeadInv'
    BY <1>4, <1>7 DEF DeadInv, TypeOK
  <1>9. UpInv'
    BY <1>4, <1>7 DEF UpInv, TypeOK
  <1>10. OrderlyEndCleansUp'
    BY DEF OrderlyEndCleansUp, TypeOK
  <1> QED
    BY <1>1, <1>2, <1>3, <1>5, <1>6, <1>8, <1>9, <1>10

LEMMA TcpBindStep ==
    ASSUME IInv, NEW d \in Daemons, TcpBind(d)
    PROVE  IInv'
  <1>1. CASE port = NoOne
    <2> USE <1>1 DEF IInv, TcpBind, Goto, sweepVars
    <2>1. TypeOK'
      BY DEF TypeOK
    <2>2. LateInv' /\ StageInv' /\ SweepInv'
      <3>1. LateInv'
        BY DEF LateInv, TypeOK
      <3>2. StageInv'
        BY DEF StageInv, TypeOK, Sweeping
      <3>3. SweepInv'
        BY DEF SweepInv, TypeOK, Sweeping
      <3> QED
        BY <3>1, <3>2, <3>3
    <2>3. OwnInv' /\ DeadInv' /\ UpInv'
      BY DEF OwnInv, DeadInv, UpInv, Owned, TypeOK
    <2>4. OrderlyEndCleansUp'
      BY DEF OrderlyEndCleansUp, TypeOK
    <2> QED
      BY <2>1, <2>2, <2>3, <2>4
  <1>2. CASE port # NoOne
    BY <1>2, GoneStep DEF TcpBind
  <1> QED
    BY <1>1, <1>2

LEMMA NextInv == IInv /\ [Next]_vars => IInv'
  <1> SUFFICES ASSUME IInv, [Next]_vars PROVE IInv'
    OBVIOUS
  <1>1. CASE UNCHANGED vars
    BY <1>1 DEF vars, localVars, sweepVars, serveVars, IInv, TypeOK, LateInv, StageInv,
                OwnInv, Owned, SweepInv, DeadInv, UpInv, OrderlyEndCleansUp
  <1>2. ASSUME NEW d \in Daemons,
               \/ Start(d) \/ Main(d) \/ Monitor(d)
               \/ LeaveLoop(d) \/ Activity(d) \/ Crash(d)
        PROVE  IInv'
    <2>1. CASE Bridge(d)
      BY <2>1, ProbeStep, RemoveStep, SweepDoneStep, MakeDirStep, SocketStep,
         RegisterStep DEF Bridge
    <2>2. CASE TcpBind(d) \/ Loop(d) \/ Accept(d) \/ StopBridge(d) \/ RemoveDir(d)
      BY <2>2, TcpBindStep, ServeStep, StopBridgeStep, RemoveDirStep
    <2>3. CASE End(d) \/ Crash(d)
      BY <2>3, GoneStep DEF End, Crash
    <2>4. CASE Start(d) \/ Monitor(d) \/ LeaveLoop(d) \/ Activity(d)
      BY <2>4, StartStep, ServeStep DEF Monitor
    <2> QED
      BY <1>2, <2>1, <2>2, <2>3, <2>4 DEF Main
  <1> QED
    BY <1>1, <1>2 DEF Next

\* The invariant from which the theorems below follow.
THEOREM Invariance == Safety => []IInv
  BY InitInv, NextInv, PTL DEF Safety

(* TypeOK of ServerLife, for any number of daemons and directories.          *)
THEOREM TypeCorrect == Safety => []TypeOK
  <1>1. IInv => TypeOK
    BY DEF IInv
  <1> QED
    BY <1>1, Invariance, PTL

(* _sweep_stale_bridge_dirs leaves nothing behind that was dead when it       *)
(* listed it, whatever other daemons and their sweeps do meanwhile.           *)
THEOREM LeaksAreCleared == Safety => []SweepLeavesNoDead
  <1>1. IInv => SweepLeavesNoDead
    BY NoDirIsNone DEF IInv, DeadInv, SweepInv, SweepLeavesNoDead, Sweeping
  <1> QED
    BY <1>1, Invariance, PTL

(* _sweep_stale_bridge_dirs condemns a status server that was up when it      *)
(* listed its directory, and is up and reachable still, only when the backlog *)
(* was full at its probe and the kernel refused.                              *)
THEOREM ListenersAreSpared == Safety => []SweepSparesListeners
  <1>1. IInv => SweepSparesListeners
    BY DEF IInv, UpInv, SweepSparesListeners
  <1> QED
    BY <1>1, Invariance, PTL

(* stop() of a daemon relay accepted leaves no directory behind.              *)
THEOREM EndIsClean == Safety => []OrderlyEndCleansUp
  <1>1. IInv => OrderlyEndCleansUp
    BY DEF IInv
  <1> QED
    BY <1>1, Invariance, PTL

(* At most the one connection that accept() waited for is accepted after the  *)
(* idle monitor has cleared `running`.                                        *)
THEOREM LateIsLast == Safety => []OneLateConnection
  <1>1. IInv => OneLateConnection
    <2> SUFFICES ASSUME IInv, NEW d \in Daemons PROVE late[d] <= 1
      BY DEF OneLateConnection
    <2>1. late[d] = 0 \/ late[d] = 1
      BY DEF IInv, LateInv
    <2> QED
      BY <2>1
  <1> QED
    BY <1>1, Invariance, PTL

-------------------------------------------------------------------------------
(* What the promises StartupEnds and IdleEnds rest on besides fairness.      *)

\* How many steps the main thread is at most away from its accept loop.
StartupLeft(d) ==
    CASE pc[d] = "sweep"    -> 2 * Cardinality(todo[d]) + 7
      [] pc[d] = "remove"   -> 2 * Cardinality(todo[d]) + 8
      [] pc[d] = "mkdir"    -> 6
      [] pc[d] = "bind"     -> 5
      [] pc[d] = "listen"   -> 4
      [] pc[d] = "chmod"    -> 3
      [] pc[d] = "register" -> 2
      [] pc[d] = "tcp"      -> 1
      [] OTHER              -> 0

\* The same for the end of the process, once `running` is cleared.
EndLeft(d) ==
    CASE pc[d] = "accept" -> 5
      [] pc[d] = "loop"   -> 4
      [] pc[d] = "stop"   -> 3
      [] pc[d] = "rmdir"  -> 2
      [] pc[d] = "close"  -> 1
      [] OTHER            -> 0

Serving == {"accept", "loop", "stop", "rmdir", "close"}
Starting(d) == pc[d] \notin Serving \cup {"down"}

\* Only a process that has come to serve is told to stop.
StopInv ==
    \A d \in Daemons : /\ ~running[d] => ~Starting(d)
                       /\ monitor[d] # "off" => pc[d] \in Serving

LEMMA TodoCounts ==
    ASSUME TypeOK, NEW d \in Daemons
    PROVE  /\ IsFiniteSet(todo[d])
           /\ Cardinality(todo[d]) \in 0..MaxDirs
           /\ \A x \in todo[d] : Cardinality(todo[d] \ {x}) = Cardinality(todo[d]) - 1
  <1>1. IsFiniteSet(Dirs) /\ Cardinality(Dirs) = MaxDirs
    <2>1. IsFiniteSet(1..MaxDirs) /\ Cardinality(1..MaxDirs) = MaxDirs
      BY LifeAssumption, FS_Interval
    <2> QED
      BY <2>1 DEF Dirs
  <1>2. todo[d] \subseteq Dirs
    BY DEF TypeOK
  <1>3. IsFiniteSet(todo[d]) /\ Cardinality(todo[d]) <= MaxDirs
    BY <1>1, <1>2, FS_Subset
  <1>4. Cardinality(todo[d]) \in Nat
    BY <1>3, FS_CardinalityType
  <1>5. \A x \in todo[d] : Cardinality(todo[d] \ {x}) = Cardinality(todo[d]) - 1
    BY <1>3, FS_RemoveElement
  <1> QED
    BY <1>3, <1>4, <1>5, LifeAssumption

\* A step of one daemon leaves the main threads of the others alone.
LEMMA OthersWait ==
    ASSUME TypeOK, NEW d \in Daemons,
           \/ Start(d) \/ Main(d) \/ Monitor(d) \/ LeaveLoop(d) \/ Activity(d) \/ Crash(d)
    PROVE  \A e \in Daemons :
              e # d => /\ pc'[e] = pc[e] /\ todo'[e] = todo[e]
                       /\ running'[e] = running[e] /\ monitor'[e] = monitor[e]
  <1> USE DEF TypeOK, Goto, Gone, fileVars, sweepVars, serveVars
  <1>1. CASE Start(d)
    BY <1>1 DEF Start
  <1>2. CASE Bridge(d)
    BY <1>2 DEF Bridge, Probe, Remove, SweepDone, MakeDir, BindSocket, Listen, Chmod,
                Register
  <1>3. CASE TcpBind(d) \/ Loop(d) \/ Accept(d) \/ StopBridge(d) \/ RemoveDir(d)
    BY <1>3 DEF TcpBind, Loop, Accept, StopBridge, RemoveDir
  <1>4. CASE End(d) \/ Crash(d)
    BY <1>4 DEF End, Crash
  <1>5. CASE Monitor(d) \/ LeaveLoop(d) \/ Activity(d)
    BY <1>5 DEF Monitor, CheckIdle, ClearRunning, LeaveLoop, Activity
  <1> QED
    BY <1>1, <1>2, <1>3, <1>4, <1>5 DEF Main

\* Where the own main thread goes.
LEMMA OwnPath ==
    ASSUME TypeOK, NEW d \in Daemons, Main(d)
    PROVE  \/ /\ pc[d] = "sweep" /\ pc'[d] \in {"sweep", "remove"}
              /\ \E x \in todo[d] : todo'[d] = todo[d] \ {x}
           \/ pc[d] = "sweep" /\ pc'[d] = "mkdir"
           \/ pc[d] = "remove" /\ pc'[d] = "sweep" /\ todo'[d] = todo[d]
           \/ pc[d] = "mkdir" /\ pc'[d] \in {"bind", "tcp"}
           \/ pc[d] = "bind" /\ pc'[d] \in {"listen", "tcp"}
           \/ pc[d] = "listen" /\ pc'[d] = "chmod"
           \/ pc[d] = "chmod" /\ pc'[d] \in {"register", "tcp"}
           \/ pc[d] = "register" /\ pc'[d] = "tcp"
           \/ pc[d] = "tcp" /\ pc'[d] \in {"loop", "down"}
           \/ pc[d] = "loop" /\ running[d] /\ pc'[d] = "accept"
           \/ pc[d] = "loop" /\ ~running[d] /\ pc'[d] = "stop"
           \/ pc[d] = "accept" /\ pc'[d] = "loop"
           \/ pc[d] = "stop" /\ pc'[d] \in {"rmdir", "close"}
           \/ pc[d] = "rmdir" /\ pc'[d] = "close"
           \/ pc[d] = "close" /\ pc'[d] = "down"
  <1> USE DEF TypeOK, Goto, fileVars, sweepVars, serveVars
  <1>1. ASSUME NEW x \in Dirs, Probe(d, x)
        PROVE  /\ pc[d] = "sweep" /\ pc'[d] \in {"sweep", "remove"}
               /\ \E y \in todo[d] : todo'[d] = todo[d] \ {y}
    BY <1>1 DEF Probe
  <1>2. CASE Remove(d) \/ SweepDone(d) \/ Listen(d) \/ Register(d)
    BY <1>2 DEF Remove, SweepDone, Listen, Register
  <1>3. CASE MakeDir(d) \/ BindSocket(d) \/ Chmod(d)
    BY <1>3 DEF MakeDir, BindSocket, Chmod
  <1>4. CASE TcpBind(d)
    BY <1>4 DEF TcpBind, Gone
  <1>5. CASE Loop(d) \/ Accept(d) \/ StopBridge(d) \/ RemoveDir(d)
    BY <1>5 DEF Loop, Accept, StopBridge, RemoveDir
  <1>6. CASE End(d)
    BY <1>6 DEF End, Gone
  <1> QED
    BY <1>1, <1>2, <1>3, <1>4, <1>5, <1>6 DEF Main, Bridge

LEMMA StartupCounts ==
    ASSUME TypeOK, NEW d \in Daemons, Starting(d), Main(d)
    PROVE  StartupLeft(d)' < StartupLeft(d) /\ StartupLeft(d)' <= StartupLeft(d)
  <1>1. Cardinality(todo[d]) \in Nat
    BY TodoCounts, LifeAssumption
  <1>2. CASE \E x \in todo[d] : todo'[d] = todo[d] \ {x} /\ pc[d] = "sweep"
                                /\ pc'[d] \in {"sweep", "remove"}
    <2>1. Cardinality(todo'[d]) = Cardinality(todo[d]) - 1
      BY <1>2, TodoCounts
    <2> QED
      BY <1>1, <1>2, <2>1 DEF StartupLeft
  <1>3. CASE pc[d] = "remove" /\ pc'[d] = "sweep" /\ todo'[d] = todo[d]
    BY <1>1, <1>3 DEF StartupLeft
  <1>4. CASE pc[d] = "sweep" /\ pc'[d] = "mkdir"
    BY <1>1, <1>4 DEF StartupLeft
  <1>5. CASE pc[d] \in {"mkdir", "bind", "listen", "chmod", "register", "tcp"}
    BY <1>5, OwnPath DEF StartupLeft
  <1> QED
    BY <1>2, <1>3, <1>4, <1>5, OwnPath DEF Starting, Serving

(* The start-up of a process takes at most 2 * MaxDirs + 8 steps of its main  *)
(* thread, whatever lies in the temporary directory, whatever relay answers,  *)
(* and whatever the other daemons and their sweeps do meanwhile: no step of   *)
(* another process ever sets it back.                                         *)
THEOREM StartupIsBounded ==
    Safety => /\ []\A d \in Daemons : /\ StartupLeft(d) \in 0..(2 * MaxDirs + 8)
                                      /\ StartupLeft(d) = 0 <=> ~Starting(d)
              /\ [][\A d \in Daemons :
                      Starting(d) => /\ StartupLeft(d)' <= StartupLeft(d)
                                     /\ Main(d) => StartupLeft(d)' < StartupLeft(d)]_vars
  <1>1. TypeOK => \A d \in Daemons : /\ StartupLeft(d) \in 0..(2 * MaxDirs + 8)
                                     /\ StartupLeft(d) = 0 <=> ~Starting(d)
    <2> SUFFICES ASSUME TypeOK, NEW d \in Daemons
                 PROVE  /\ StartupLeft(d) \in 0..(2 * MaxDirs + 8)
                        /\ StartupLeft(d) = 0 <=> ~Starting(d)
      OBVIOUS
    <2>1. Cardinality(todo[d]) \in 0..MaxDirs /\ MaxDirs \in Nat
      BY TodoCounts, LifeAssumption
    <2>2. pc[d] \in {"down", "sweep", "remove", "mkdir", "bind", "listen", "chmod",
                     "register", "tcp", "loop", "accept", "stop", "rmdir", "close"}
      BY DEF TypeOK
    <2> QED
      BY <2>1, <2>2 DEF StartupLeft, Starting, Serving
  <1>2. ASSUME TypeOK, [Next]_vars, NEW d \in Daemons, Starting(d)
        PROVE  /\ StartupLeft(d)' <= StartupLeft(d)
               /\ Main(d) => StartupLeft(d)' < StartupLeft(d)
    <2>1. StartupLeft(d) \in Nat
      BY <1>1, <1>2, LifeAssumption
    <2>2. ASSUME pc'[d] = pc[d], todo'[d] = todo[d]
          PROVE  StartupLeft(d)' = StartupLeft(d)
      BY <2>2 DEF StartupLeft
    <2>3. CASE UNCHANGED vars
      BY <2>1, <2>2, <2>3, <1>2, StartupCounts DEF vars, localVars, sweepVars
    <2>4. ASSUME NEW e \in Daemons, e # d,
                 \/ Start(e) \/ Main(e) \/ Monitor(e)
                 \/ LeaveLoop(e) \/ Activity(e) \/ Crash(e)
          PROVE  StartupLeft(d)' <= StartupLeft(d)
      BY <1>2, <2>1, <2>2, <2>4, OthersWait
    <2>5. CASE Main(d)
      BY <1>2, <2>5, StartupCounts
    <2>6. CASE Start(d) \/ Monitor(d) \/ LeaveLoop(d) \/ Activity(d)
      <3>1. pc[d] \notin {"down", "loop", "accept"}
        BY <1>2 DEF Starting, Serving
      <3>2. pc'[d] = pc[d] /\ todo'[d] = todo[d]
        BY <2>6, <3>1 DEF Start, Monitor, CheckIdle, ClearRunning, LeaveLoop, Activity,
                          sweepVars
      <3> QED
        BY <2>1, <2>2, <3>2, <1>2, StartupCounts
    <2>7. CASE Crash(d)
      <3>1. pc'[d] = "down"
        BY <1>2, <2>7 DEF Crash, Gone, Goto, TypeOK
      <3>2. StartupLeft(d)' = 0 /\ StartupLeft(d) # 0
        BY <3>1, <1>1, <1>2 DEF StartupLeft
      <3> QED
        BY <2>1, <3>2
    <2>8. Main(d) => StartupLeft(d)' < StartupLeft(d)
      BY <1>2, StartupCounts
    <2> QED
      BY <1>2, <2>3, <2>4, <2>5, <2>6, <2>7, <2>8 DEF Next
  <1>3. IInv /\ [Next]_vars =>
          [\A d \in Daemons : Starting(d) =>
              /\ StartupLeft(d)' <= StartupLeft(d)
              /\ Main(d) => StartupLeft(d)' < StartupLeft(d)]_vars
    BY <1>2 DEF IInv
  <1> QED
    BY <1>1, <1>3, Invariance, TypeCorrect, PTL DEF Safety

LEMMA StopNext == IInv /\ StopInv /\ [Next]_vars => StopInv'
  <1> SUFFICES ASSUME IInv, StopInv, [Next]_vars PROVE StopInv'
    OBVIOUS
  <1> USE DEF Starting, Serving
  <1>1. CASE UNCHANGED vars
    BY <1>1 DEF vars, localVars, serveVars, StopInv
  <1>2. ASSUME NEW d \in Daemons,
               \/ Start(d) \/ Main(d) \/ Monitor(d)
               \/ LeaveLoop(d) \/ Activity(d) \/ Crash(d)
        PROVE  StopInv'
    <2>1. \A e \in Daemons : e # d =>
              /\ ~running'[e] => pc'[e] \in Serving \cup {"down"}
              /\ monitor'[e] # "off" => pc'[e] \in Serving
      BY <1>2, OthersWait DEF IInv, StopInv
    <2>2. /\ ~running'[d] => pc'[d] \in Serving \cup {"down"}
          /\ monitor'[d] # "off" => pc'[d] \in Serving
      <3> USE DEF IInv, TypeOK, StopInv, Goto, serveVars
      <3>1. CASE Start(d)
        BY <3>1 DEF Start
      <3>2. CASE Bridge(d)
        <4>1. /\ Starting(d) /\ UNCHANGED <<running, monitor>>
          BY <3>2 DEF Bridge, Probe, Remove, SweepDone, MakeDir, BindSocket, Listen,
                      Chmod, Register
        <4> QED
          BY <4>1
      <3>3. CASE TcpBind(d)
        BY <3>3 DEF TcpBind, Gone
      <3>4. CASE Loop(d) \/ Accept(d) \/ LeaveLoop(d) \/ Activity(d) \/ Monitor(d)
        BY <3>4 DEF Loop, Accept, LeaveLoop, Activity, Monitor, CheckIdle, ClearRunning
      <3>5. CASE StopBridge(d) \/ RemoveDir(d)
        BY <3>5 DEF StopBridge, RemoveDir
      <3>6. CASE End(d) \/ Crash(d)
        BY <3>6 DEF End, Crash, Gone
      <3> QED
        BY <1>2, <3>1, <3>2, <3>3, <3>4, <3>5, <3>6 DEF Main
    <2> QED
      BY <2>1, <2>2 DEF StopInv
  <1> QED
    BY <1>1, <1>2 DEF Next

LEMMA EndCounts ==
    ASSUME TypeOK, NEW d \in Daemons, ~running[d], pc[d] \in Serving, Main(d) \/ LeaveLoop(d)
    PROVE  EndLeft(d)' < EndLeft(d)
  <1>1. CASE Main(d)
    BY <1>1, OwnPath DEF EndLeft, Serving
  <1>2. CASE LeaveLoop(d)
    BY <1>2 DEF LeaveLoop, Goto, TypeOK, EndLeft
  <1> QED
    BY <1>1, <1>2

(* Once the idle monitor, or stop(), has cleared `running`, the process ends  *)
(* after at most five steps of its main thread, with whatever comes in or is  *)
(* still open meanwhile, and nothing sets `running` again.                    *)
THEOREM EndIsNear ==
    Safety => /\ []\A d \in Daemons : ~running[d] => /\ pc[d] \in Serving \cup {"down"}
                                                     /\ EndLeft(d) = 0 <=> pc[d] = "down"
              /\ [][\A d \in Daemons : ~running[d] /\ pc[d] # "down" =>
                      /\ EndLeft(d)' <= EndLeft(d) /\ ~running'[d]
                      /\ Main(d) \/ LeaveLoop(d) => EndLeft(d)' < EndLeft(d)]_vars
  <1>1. Init => StopInv
    BY DEF Init, StopInv, Starting
  <1>2. StopInv => \A d \in Daemons : ~running[d] => /\ pc[d] \in Serving \cup {"down"}
                                                     /\ EndLeft(d) = 0 <=> pc[d] = "down"
    BY DEF StopInv, Starting, Serving, EndLeft
  <1>3. ASSUME IInv, StopInv, [Next]_vars, NEW d \in Daemons, ~running[d], pc[d] # "down"
        PROVE  /\ EndLeft(d)' <= EndLeft(d) /\ ~running'[d]
               /\ Main(d) \/ LeaveLoop(d) => EndLeft(d)' < EndLeft(d)
    <2>1. TypeOK /\ pc[d] \in Serving
      BY <1>3 DEF IInv, StopInv, Starting
    <2>2. EndLeft(d) \in 0..5 /\ EndLeft(d)' \in 0..5
      BY DEF EndLeft
    <2>3. pc'[d] = pc[d] => EndLeft(d)' = EndLeft(d)
      BY DEF EndLeft
    <2>4. Main(d) \/ LeaveLoop(d) => EndLeft(d)' < EndLeft(d)
      BY <1>3, <2>1, EndCounts
    <2>5. CASE UNCHANGED vars
      BY <1>3, <2>2, <2>3, <2>4, <2>5 DEF vars, localVars, serveVars
    <2>6. ASSUME NEW e \in Daemons, e # d,
                 \/ Start(e) \/ Main(e) \/ Monitor(e)
                 \/ LeaveLoop(e) \/ Activity(e) \/ Crash(e)
          PROVE  EndLeft(d)' <= EndLeft(d) /\ ~running'[d]
      BY <1>3, <2>1, <2>2, <2>3, <2>6, OthersWait
    <2>7. CASE Main(d) \/ LeaveLoop(d)
      <3>1. ~running'[d]
        <4> USE <1>3, <2>1 DEF TypeOK, Serving, serveVars
        <4>1. CASE Bridge(d) \/ TcpBind(d)
          BY <4>1 DEF Bridge, Probe, Remove, SweepDone, MakeDir, BindSocket, Listen,
                      Chmod, Register, TcpBind
        <4>2. CASE Loop(d) \/ Accept(d) \/ LeaveLoop(d) \/ StopBridge(d) \/ RemoveDir(d)
          BY <4>2 DEF Loop, Accept, LeaveLoop, StopBridge, RemoveDir
        <4>3. CASE End(d)
          BY <4>3 DEF End, Gone
        <4> QED
          BY <2>7, <4>1, <4>2, <4>3 DEF Main
      <3> QED
        BY <2>2, <2>4, <2>7, <3>1
    <2>8. CASE Start(d) \/ Monitor(d) \/ Activity(d)
      <3>1. pc'[d] = pc[d] /\ ~running'[d]
        BY <1>3, <2>1, <2>8 DEF Start, Monitor, CheckIdle, ClearRunning, Activity, TypeOK,
                                serveVars
      <3> QED
        BY <2>2, <2>3, <2>4, <3>1
    <2>9. CASE Crash(d)
      <3>1. pc'[d] = "down" /\ ~running'[d]
        BY <2>1, <2>9 DEF Crash, Gone, Goto, TypeOK
      <3>2. EndLeft(d)' = 0
        BY <3>1 DEF EndLeft
      <3> QED
        BY <2>2, <2>4, <3>1, <3>2
    <2> QED
      BY <1>3, <2>4, <2>5, <2>6, <2>7, <2>8, <2>9 DEF Next
  <1>4. IInv /\ StopInv /\ [Next]_vars =>
          [\A d \in Daemons : ~running[d] /\ pc[d] # "down" =>
              /\ EndLeft(d)' <= EndLeft(d) /\ ~running'[d]
              /\ Main(d) \/ LeaveLoop(d) => EndLeft(d)' < EndLeft(d)]_vars
    BY <1>3
  <1> QED
    BY <1>1, <1>2, <1>4, StopNext, Invariance, PTL DEF Safety
===============================================================================
