------------------------------ MODULE ServerLife -------------------------------
(***************************************************************************)
(* The life of a daemon process, and what daemons of one machine share: the *)
(* temporary directory, where each keeps the socket of its status server    *)
(* (RelayBridge, _UnixHTTPServer and _sweep_stale_bridge_dirs in            *)
(* relay_bridge.py), and port 9997 (RelayTTSDaemon.start, stop and          *)
(* idle_monitor in relaytts_daemon.py).  A supervisor may start a process   *)
(* again after it has ended; two supervisors may run daemons side by side.  *)
(*                                                                          *)
(* A signal, or Ctrl-C before the accept loop, ends a process without any   *)
(* of its clean-up: Crash.                                                  *)
(***************************************************************************)
EXTENDS Naturals, FiniteSets

CONSTANTS Daemons,    \* process slots; each runs one process at a time
          NoOne,
          Idle,       \* the daemons run with --idle-timeout
          MaxStarts,  \* bound on the processes started, over all slots
          MaxDirs     \* bound on the directories made

ASSUME LifeAssumption ==
    /\ NoOne \notin Daemons
    /\ Idle \subseteq Daemons
    /\ MaxStarts \in Nat
    /\ MaxDirs \in Nat

\* The directories, numbered as they are made; mkdtemp gives each a new name.
Dirs == 1..MaxDirs
NoDir == 0

VARIABLES
    path,     \* per name: is there a directory of that name?
    sock,     \* per name: the socket made in it; "bound" refuses connections
    pc,       \* where the main thread stands
    mine,     \* RelayBridge._dir
    bridged,  \* is RelayTTSDaemon._bridge set?
    todo,     \* the names the sweep has still to look at
    stale,    \* the name it has judged stale and is about to remove
    listed,   \* history: what each name was when the sweep under way listed it
    crowded,  \* history: it judged that name so because of a full backlog
    port,     \* the process that listens on 9997
    running,  \* RelayTTSDaemon.running
    quiet,    \* the last request is longer ago than the idle timeout
    monitor,  \* where the thread of idle_monitor stands
    late,     \* history: connections accepted after `running` was cleared
    starts

fileVars   == <<path, sock, mine>>
sweepVars  == <<todo, stale, listed, crowded>>
serveVars  == <<running, quiet, monitor, late>>
localVars  == <<mine, sweepVars, serveVars, bridged>>
vars == <<path, sock, localVars, pc, port, starts>>

Unlisted == [x \in Dirs |-> "unsure"]

Init ==
    /\ path = [x \in Dirs |-> "never"]
    /\ sock = [x \in Dirs |-> "none"]
    /\ pc = [d \in Daemons |-> "down"]
    /\ mine = [d \in Daemons |-> NoDir]
    /\ bridged = [d \in Daemons |-> FALSE]
    /\ todo = [d \in Daemons |-> {}]
    /\ stale = [d \in Daemons |-> NoDir]
    /\ listed = [d \in Daemons |-> Unlisted]
    /\ crowded = [d \in Daemons |-> FALSE]
    /\ port = NoOne
    /\ running = [d \in Daemons |-> FALSE]
    /\ quiet = [d \in Daemons |-> FALSE]
    /\ monitor = [d \in Daemons |-> "off"]
    /\ late = [d \in Daemons |-> 0]
    /\ starts = 0

Goto(d, there) == pc' = [pc EXCEPT ![d] = there]

\* The process is gone, its memory and its sockets; its directory stays.
Gone(d) ==
    /\ Goto(d, "down")
    /\ sock' = [x \in Dirs |-> IF x = mine[d] /\ sock[x] # "none"
                                 THEN "closed" ELSE sock[x]]
    /\ port' = IF port = d THEN NoOne ELSE port
    /\ mine' = [mine EXCEPT ![d] = NoDir]
    /\ bridged' = [bridged EXCEPT ![d] = FALSE]
    /\ todo' = [todo EXCEPT ![d] = {}]
    /\ stale' = [stale EXCEPT ![d] = NoDir]
    /\ listed' = [listed EXCEPT ![d] = Unlisted]
    /\ crowded' = [crowded EXCEPT ![d] = FALSE]
    /\ running' = [running EXCEPT ![d] = FALSE]
    /\ quiet' = [quiet EXCEPT ![d] = FALSE]
    /\ monitor' = [monitor EXCEPT ![d] = "off"]
    /\ late' = [late EXCEPT ![d] = 0]

Owned(x) == \E d \in Daemons : pc[d] # "down" /\ mine[d] = x

-------------------------------------------------------------------------------
(* _sweep_stale_bridge_dirs *)

Listing == {x \in Dirs : path[x] = "there"}

\* start(), and listdir when relay has launched this process.
Start(d) ==
    /\ pc[d] = "down" /\ starts < MaxStarts
    /\ starts' = starts + 1
    /\ running' = [running EXCEPT ![d] = TRUE]
    /\ \/ /\ Goto(d, "sweep")
          /\ todo' = [todo EXCEPT ![d] = Listing]
          /\ listed' = [listed EXCEPT ![d] = [x \in Dirs |->
                CASE x \in Listing /\ ~Owned(x)            -> "dead"
                  [] x \in Listing /\ sock[x] = "listening" -> "up"
                  [] OTHER                                  -> "unsure"]]
       \/ Goto(d, "tcp") /\ UNCHANGED <<todo, listed>>
    /\ UNCHANGED <<fileVars, stale, crowded, quiet, monitor, late, bridged, port>>

\* Mutant: a refused connection is inconclusive too.
RefusesIfNoSocket(x) == path[x] # "there" \/ sock[x] = "none"

\* Mutant: every OSError counts, also that of a connect() that timed out.
RefusesIfBusy(x) == TRUE

\* Does connect() always fail with FileNotFoundError or ConnectionRefusedError?
Refuses(x) == path[x] # "there" \/ sock[x] # "listening"

\* One turn of the loop: connect() and its verdict.  On macOS a socket that
\* listens refuses too, while its backlog is full.
Probe(d, x) ==
    /\ pc[d] = "sweep" /\ x \in todo[d]
    /\ todo' = [todo EXCEPT ![d] = @ \ {x}]
    /\ \/ ~Refuses(x) /\ UNCHANGED <<pc, stale, crowded>>
       \/ /\ Goto(d, "remove")
          /\ stale' = [stale EXCEPT ![d] = x]
          /\ crowded' = [crowded EXCEPT ![d] = ~Refuses(x)]
    /\ UNCHANGED <<fileVars, listed, serveVars, bridged, port, starts>>

\* rmtree, after the verdict.
Remove(d) ==
    /\ pc[d] = "remove"
    /\ path' = [path EXCEPT ![stale[d]] = "gone"]
    /\ stale' = [stale EXCEPT ![d] = NoDir]
    /\ crowded' = [crowded EXCEPT ![d] = FALSE]
    /\ Goto(d, "sweep")
    /\ UNCHANGED <<sock, mine, todo, listed, serveVars, bridged, port, starts>>

SweepDone(d) ==
    /\ pc[d] = "sweep" /\ todo[d] = {}
    /\ Goto(d, "mkdir")
    /\ UNCHANGED <<fileVars, sweepVars, serveVars, bridged, port, starts>>

-------------------------------------------------------------------------------
(* RelayBridge.start.  What it raises, _start_bridge logs and goes on. *)

\* mkdtemp
MakeDir(d) ==
    /\ pc[d] = "mkdir"
    /\ listed' = [listed EXCEPT ![d] = Unlisted]
    /\ \/ \E x \in Dirs : /\ path[x] = "never" /\ \A y \in 1..(x-1) : path[y] # "never"
                          /\ path' = [path EXCEPT ![x] = "there"]
                          /\ mine' = [mine EXCEPT ![d] = x]
                          /\ Goto(d, "bind")
       \/ Goto(d, "tcp") /\ UNCHANGED <<path, mine>>
    /\ UNCHANGED <<sock, todo, stale, crowded, serveVars, bridged, port, starts>>

\* _UnixHTTPServer binds its socket, which needs the directory, ...
BindSocket(d) ==
    /\ pc[d] = "bind"
    /\ IF path[mine[d]] = "there"
       THEN sock' = [sock EXCEPT ![mine[d]] = "bound"] /\ Goto(d, "listen")
       ELSE UNCHANGED sock /\ Goto(d, "tcp")
    /\ UNCHANGED <<path, mine, sweepVars, serveVars, bridged, port, starts>>

\* ... and listens in a second call, which does not.
Listen(d) ==
    /\ pc[d] = "listen"
    /\ sock' = [sock EXCEPT ![mine[d]] = "listening"]
    /\ Goto(d, "chmod")
    /\ UNCHANGED <<path, mine, sweepVars, serveVars, bridged, port, starts>>

\* chmod of the path; when that raises, nothing holds the server any more.
Chmod(d) ==
    /\ pc[d] = "chmod"
    /\ IF path[mine[d]] = "there"
       THEN UNCHANGED sock /\ Goto(d, "register")
       ELSE sock' = [sock EXCEPT ![mine[d]] = "closed"] /\ Goto(d, "tcp")
    /\ UNCHANGED <<path, mine, sweepVars, serveVars, bridged, port, starts>>

\* Mutant: no time limit, and relay may never answer.
RegisterPatiently(d) ==
    /\ pc[d] = "register"
    /\ \/ bridged' = [bridged EXCEPT ![d] = TRUE] /\ Goto(d, "tcp")
       \/ UNCHANGED bridged /\ Goto(d, "waiting")
    /\ UNCHANGED <<fileVars, sweepVars, serveVars, port, starts>>

\* _register: relay (external) accepts, or refuses or does not answer in time;
\* then the status server runs on, with nobody left to stop it.
Register(d) ==
    /\ pc[d] = "register"
    /\ bridged' \in {[bridged EXCEPT ![d] = ok] : ok \in BOOLEAN}
    /\ Goto(d, "tcp")
    /\ UNCHANGED <<fileVars, sweepVars, serveVars, port, starts>>

-------------------------------------------------------------------------------
(* RelayTTSDaemon.start: the listener, the idle monitor, the accept loop *)

\* A port that is taken raises out of start(), before the try that stops.
TcpBind(d) ==
    /\ pc[d] = "tcp"
    /\ IF port = NoOne
       THEN /\ port' = d
            /\ Goto(d, "loop")
            /\ monitor' = [monitor EXCEPT ![d] = IF d \in Idle THEN "poll" ELSE "off"]
            /\ UNCHANGED <<sock, mine, sweepVars, running, quiet, late, bridged>>
       ELSE Gone(d)
    /\ UNCHANGED <<path, starts>>

\* Mutant: the loop runs for ever.
LoopForever(d) ==
    /\ pc[d] = "loop"
    /\ Goto(d, "accept")
    /\ UNCHANGED <<fileVars, sweepVars, serveVars, bridged, port, starts>>

\* while self.running
Loop(d) ==
    /\ pc[d] = "loop"
    /\ Goto(d, IF running[d] THEN "accept" ELSE "stop")
    /\ UNCHANGED <<fileVars, sweepVars, serveVars, bridged, port, starts>>

\* accept() gives a connection, or its second is over.
Accept(d) ==
    /\ pc[d] = "accept"
    /\ Goto(d, "loop")
    /\ \/ UNCHANGED late
       \/ ~running[d] /\ late' = [late EXCEPT ![d] = @ + 1]
    /\ UNCHANGED <<fileVars, sweepVars, running, quiet, monitor, bridged, port, starts>>

\* Any other error of accept, or Ctrl-C: the finally clause.
LeaveLoop(d) ==
    /\ pc[d] \in {"loop", "accept"}
    /\ Goto(d, "stop")
    /\ UNCHANGED <<fileVars, sweepVars, serveVars, bridged, port, starts>>

\* A request arrives on some connection (update_activity), or none does for
\* longer than the timeout, which not every daemon has.
Activity(d) ==
    /\ port = d /\ d \in Idle
    /\ quiet' = [quiet EXCEPT ![d] = ~@]
    /\ UNCHANGED <<fileVars, sweepVars, running, monitor, late, pc, bridged,
                   port, starts>>

\* Mutant: the monitor looks once.
CheckIdleOnce(d) ==
    /\ monitor[d] = "poll" /\ pc[d] # "down"
    /\ monitor' = [monitor EXCEPT ![d] = IF running[d] /\ quiet[d] THEN "decided" ELSE "off"]
    /\ UNCHANGED <<fileVars, sweepVars, running, quiet, late, pc, bridged, port, starts>>

\* idle_monitor: the check, and then, whatever arrives in between, the flag.
CheckIdle(d) ==
    /\ monitor[d] = "poll" /\ pc[d] # "down"
    /\ \/ ~running[d] /\ monitor' = [monitor EXCEPT ![d] = "off"]
       \/ running[d] /\ quiet[d] /\ monitor' = [monitor EXCEPT ![d] = "decided"]
    /\ UNCHANGED <<fileVars, sweepVars, running, quiet, late, pc, bridged, port, starts>>

\* Mutant: the monitor sleeps on instead of leaving its loop.
SleepOn(d) ==
    /\ monitor[d] = "decided" /\ pc[d] # "down"
    /\ running' = [running EXCEPT ![d] = FALSE]
    /\ monitor' = [monitor EXCEPT ![d] = "asleep"]
    /\ UNCHANGED <<fileVars, sweepVars, quiet, late, pc, bridged, port, starts>>

ClearRunning(d) ==
    /\ monitor[d] = "decided" /\ pc[d] # "down"
    /\ running' = [running EXCEPT ![d] = FALSE]
    /\ monitor' = [monitor EXCEPT ![d] = "off"]
    /\ UNCHANGED <<fileVars, sweepVars, quiet, late, pc, bridged, port, starts>>

-------------------------------------------------------------------------------
(* stop() *)

\* RelayBridge.stop, when start() kept the bridge: no more status server, ...
StopBridge(d) ==
    /\ pc[d] = "stop"
    /\ running' = [running EXCEPT ![d] = FALSE]
    /\ IF bridged[d]
       THEN sock' = [sock EXCEPT ![mine[d]] = "closed"] /\ Goto(d, "rmdir")
       ELSE UNCHANGED sock /\ Goto(d, "close")
    /\ UNCHANGED <<path, mine, sweepVars, quiet, monitor, late, bridged, port, starts>>

\* Mutant: the directory is forgotten.
KeepDir(d) ==
    /\ pc[d] = "rmdir"
    /\ Goto(d, "close")
    /\ UNCHANGED <<fileVars, sweepVars, serveVars, bridged, port, starts>>

\* ... and no more directory.
RemoveDir(d) ==
    /\ pc[d] = "rmdir"
    /\ path' = [path EXCEPT ![mine[d]] = "gone"]
    /\ Goto(d, "close")
    /\ UNCHANGED <<sock, mine, sweepVars, serveVars, bridged, port, starts>>

\* The listener closes and the process ends, whatever its sessions are doing.
End(d) ==
    /\ pc[d] = "close"
    /\ Gone(d)
    /\ UNCHANGED <<path, starts>>

Crash(d) ==
    /\ pc[d] # "down"
    /\ Gone(d)
    /\ UNCHANGED <<path, starts>>

-------------------------------------------------------------------------------
Bridge(d) == \/ \E x \in Dirs : Probe(d, x)
             \/ Remove(d) \/ SweepDone(d) \/ MakeDir(d) \/ BindSocket(d)
             \/ Listen(d) \/ Chmod(d) \/ Register(d)

Main(d) == \/ Bridge(d) \/ TcpBind(d) \/ Loop(d) \/ Accept(d)
           \/ StopBridge(d) \/ RemoveDir(d) \/ End(d)

Monitor(d) == CheckIdle(d) \/ ClearRunning(d)

Next == \E d \in Daemons : \/ Start(d) \/ Main(d) \/ Monitor(d)
                           \/ LeaveLoop(d) \/ Activity(d) \/ Crash(d)

Safety == Init /\ [][Next]_vars

\* Every call of the main thread returns in time: probes 0.2 s, accept 1 s,
\* the exchange with relay 5 s a read.  The monitor polls every 30 s.
Spec == Safety /\ \A d \in Daemons : WF_vars(Main(d)) /\ WF_vars(Monitor(d))

-------------------------------------------------------------------------------
TypeOK ==
    /\ path \in [Dirs -> {"never", "there", "gone"}]
    /\ sock \in [Dirs -> {"none", "bound", "listening", "closed"}]
    /\ pc \in [Daemons -> {"down", "sweep", "remove", "mkdir", "bind", "listen",
                           "chmod", "register", "tcp", "loop", "accept", "stop",
                           "rmdir", "close"}]
    /\ mine \in [Daemons -> Dirs \cup {NoDir}]
    /\ bridged \in [Daemons -> BOOLEAN]
    /\ todo \in [Daemons -> SUBSET Dirs]
    /\ stale \in [Daemons -> Dirs \cup {NoDir}]
    /\ listed \in [Daemons -> [Dirs -> {"dead", "up", "unsure"}]]
    /\ crowded \in [Daemons -> BOOLEAN]
    /\ port \in Daemons \cup {NoOne}
    /\ running \in [Daemons -> BOOLEAN]
    /\ quiet \in [Daemons -> BOOLEAN]
    /\ monitor \in [Daemons -> {"off", "poll", "decided"}]
    /\ late \in [Daemons -> Nat]
    /\ starts \in 0..MaxStarts

(* A sweep clears up every leak: what crashes left behind when it listed the *)
(* directory, wherever they struck, is gone before the daemon makes its own. *)
SweepLeavesNoDead ==
    \A d \in Daemons, x \in Dirs :
        listed[d][x] = "dead" /\ pc[d] = "mkdir" => path[x] = "gone"

(* A status server that was up when the sweep listed its directory, and is up *)
(* and reachable still, is condemned for one reason only: its backlog was     *)
(* full at the probe and the kernel refused (ListenersAreReachable).  No      *)
(* crash, sweep or end of another daemon makes the sweep take it for dead.    *)
SweepSparesListeners ==
    \A d \in Daemons, x \in Dirs :
        stale[d] = x /\ listed[d][x] = "up" /\ path[x] = "there"
            => sock[x] # "listening" \/ crowded[d]

(* A daemon that relay accepted and that comes to its orderly end, also     *)
(* after an error of accept, leaves no directory behind, whoever swept in    *)
(* the meantime.                                                            *)
OrderlyEndCleansUp ==
    \A d \in Daemons : pc[d] = "close" /\ bridged[d] => path[mine[d]] = "gone"

(* Once `running` is cleared, at most one more connection is accepted, the   *)
(* one accept() was waiting for: the idle shutdown cuts off at most that one *)
(* besides those it found open.                                              *)
OneLateConnection == \A d \in Daemons : late[d] <= 1

(* A process always comes to serve, or ends: no peer in the temporary        *)
(* directory and no relay keeps it from its port.                            *)
StartupEnds == \A d \in Daemons : pc[d] = "sweep" ~> pc[d] \in {"loop", "down"}

(* A daemon with an idle timeout ends once it is idle, unless it gets a      *)
(* request; a peer that keeps its connection open does not hold it up.       *)
IdleEnds ==
    \A d \in Idle : (port = d /\ quiet[d]) ~> (pc[d] = "down" \/ ~quiet[d])

(* _sweep_stale_bridge_dirs: "anything else (no socket, or a connection it   *)
(* refuses) means it's safe to remove": a daemon whose status server is up   *)
(* has the path to it.  It loses it to a probe between bind and listen, or   *)
(* to one that finds the backlog full on a kernel that then refuses.         *)
ListenersAreReachable ==
    \A x \in Dirs : sock[x] = "listening" => path[x] = "there"
===============================================================================
