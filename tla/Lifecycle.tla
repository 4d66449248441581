----------------------------- MODULE Lifecycle -----------------------------
(***************************************************************************)
(* Starting and stopping the service (src/tdm service.py, "process         *)
(* management", and the commands of __main__.py that call it).             *)
(*                                                                         *)
(* The processes of `tdm _serve` and `tdm catch` share queue.json and the  *)
(* three files that name the running service; the commands `serve`,        *)
(* `catch`, `stop` and `add` know of a service only what those files and   *)
(* its answers tell.  What a process keeps of its queue is which downloads *)
(* it has: it is written to queue.json as a whole, and read once.          *)
(***************************************************************************)
EXTENDS Naturals, FiniteSets

CONSTANTS
  Clients,      \* terminals, each of which runs one command at a time
  Pids,         \* processes, numbered in the order they are started
  Ids,          \* downloads
  MaxCommands,  \* bound on serve, catch and stop commands
  Faults        \* what else may happen, see the ASSUME

(* "kill": a process is killed.  "slowstart": it takes longer to start than  *)
(* the five seconds `serve` waits, and "slowstop": longer to stop than the   *)
(* ten seconds `stop` waits (a read of engine.py has 30).  "slowend": once   *)
(* it serves no more, it takes longer to save and to clear its files than    *)
(* another one to read queue.json and name itself.                           *)
ASSUME LifecycleAssumption ==
  /\ Pids \subseteq Nat \ {0}
  /\ MaxCommands \in Nat
  /\ Faults \subseteq {"kill", "slowstart", "slowstop", "slowend"}

Starting == {"new", "loaded", "port", "token"}
Answering == {"up", "stopping", "quitting"}
Clearing == {"saved", "unport", "untoken"}
Ending == {"stopping", "quitting", "closed"} \cup Clearing
Holding == {"loaded", "port", "token", "closed"} \cup Answering
Stages == {"none", "gone"} \cup Starting \cup Answering \cup Ending

(* service.port, service.token, service.pid, each by the process that wrote  *)
(* it; 0 where there is none.                                                *)
Files == [port : Pids \cup {0}, token : Pids \cup {0}, pid : Pids \cup {0}]
NoFiles == [port |-> 0, token |-> 0, pid |-> 0]

VARIABLES
  proc,      \* the processes: where they are, their kind, their queue
  file,      \* the files that name the service
  disk,      \* the downloads in queue.json
  accepted,  \* the downloads whose POST was answered 201
  cl,        \* the terminals: command, where it is, endpoint it has read
  said,      \* what the last command of a terminal has printed
  commands

vars == <<proc, file, disk, accepted, cl, said, commands>>
idle == [op |-> "none", pc |-> "idle", ep |-> NoFiles]

Init ==
  /\ proc = [p \in Pids |-> [st |-> "none", mode |-> "serve", mem |-> {}]]
  /\ file = NoFiles /\ disk = {} /\ accepted = {}
  /\ cl = [c \in Clients |-> idle] /\ said = [c \in Clients |-> "nothing"]
  /\ commands = 0

St(p) == proc[p].st
In(stages) == {p \in Pids : St(p) \in stages}
Move(p, st) == proc' = [proc EXCEPT ![p].st = st]

(* read_endpoint gives None unless there are a port and a token. *)
Named(ep) == ep.port # 0 /\ ep.token # 0

(* The process that answers requests to an endpoint, with its own token. *)
Reached(ep) == {p \in In(Answering) : ep.port = p /\ ep.token = p}

-----------------------------------------------------------------------------
(* run_service and run_catch *)

(* Mutant of Boot: the queue of the process before is not read. *)
BootEmpty(p) ==
  /\ St(p) = "new"
  /\ "slowend" \in Faults \/ In({"closed"} \cup Clearing) = {}
  /\ Move(p, "loaded")
  /\ UNCHANGED <<file, disk, accepted, cl, said, commands>>

(* The queue is read and the port bound; that of catch mode is fixed, and    *)
(* fails when it is taken.  Without "slowend" a process that serves no more  *)
(* has ended by then.  `serve` starts an interpreter before this; `catch`    *)
(* does not (869-876), but until the socket is closed its test has waited    *)
(* for two seconds (657-659), and then only three unlinks are left.          *)
Boot(p) ==
  /\ St(p) = "new"
  /\ "slowend" \in Faults \/ In({"closed"} \cup Clearing) = {}
  /\ LET taken == proc[p].mode = "catch" /\ \E q \in In(Holding) : proc[q].mode = "catch"
     IN  proc' = [proc EXCEPT ![p].st = IF taken THEN "gone" ELSE "loaded", ![p].mem = disk]
  /\ UNCHANGED <<file, disk, accepted, cl, said, commands>>

(* The three files are written in this order, and then requests answered. *)
WriteFile(p) ==
  /\ \/ St(p) = "loaded" /\ Move(p, "port") /\ file' = [file EXCEPT !.port = p]
     \/ St(p) = "port" /\ Move(p, "token") /\ file' = [file EXCEPT !.token = p]
     \/ St(p) = "token" /\ Move(p, "up") /\ file' = [file EXCEPT !.pid = p]
  /\ UNCHANGED <<disk, accepted, cl, said, commands>>

(* The queue is stopped and saved, then the server; the main thread saves    *)
(* once more.  After Ctrl-C in catch mode the main thread does it alone.     *)
StopQueue(p) ==
  /\ St(p) = "stopping" /\ Move(p, "closed")
  /\ disk' = proc[p].mem
  /\ UNCHANGED <<file, accepted, cl, said, commands>>

(* Mutant of LastSave: the process clears the files that name it first. *)
LastSaveCleared(p) ==
  \/ /\ St(p) = "closed" /\ file # NoFiles
     /\ file' = NoFiles /\ UNCHANGED <<proc, disk, accepted, cl, said, commands>>
  \/ /\ St(p) \in {"closed", "quitting"} /\ Move(p, "saved")
     /\ disk' = proc[p].mem
     /\ UNCHANGED <<file, accepted, cl, said, commands>>

LastSave(p) ==
  /\ St(p) \in {"closed", "quitting"} /\ Move(p, "saved")
  /\ disk' = proc[p].mem
  /\ UNCHANGED <<file, accepted, cl, said, commands>>

(* _clear_state_files by the process, whoever's they are by now. *)
ClearOwn(p) ==
  /\ \/ St(p) = "saved" /\ Move(p, "unport") /\ file' = [file EXCEPT !.port = 0]
     \/ St(p) = "unport" /\ Move(p, "untoken") /\ file' = [file EXCEPT !.token = 0]
     \/ St(p) = "untoken" /\ Move(p, "gone") /\ file' = [file EXCEPT !.pid = 0]
  /\ UNCHANGED <<disk, accepted, cl, said, commands>>

Quit(p) ==
  /\ St(p) = "up" /\ proc[p].mode = "catch" /\ Move(p, "quitting")
  /\ UNCHANGED <<file, disk, accepted, cl, said, commands>>

(* SIGTERM stops a service like a request does, once its handler is there;   *)
(* it ends any other process.                                                *)
Terminated(p) ==
  [proc EXCEPT ![p].st =
     IF @ \in {"none", "gone"} \/ (proc[p].mode = "serve" /\ @ \in Ending) THEN @
     ELSE IF proc[p].mode = "serve" /\ @ = "up" THEN "stopping" ELSE "gone"]

Signal(p) ==
  /\ St(p) = "up" /\ proc' = Terminated(p)
  /\ UNCHANGED <<file, disk, accepted, cl, said, commands>>

Kill(p) ==
  /\ "kill" \in Faults /\ St(p) \notin {"none", "gone"} /\ Move(p, "gone")
  /\ UNCHANGED <<file, disk, accepted, cl, said, commands>>

-----------------------------------------------------------------------------
(* Commands *)

(* tdm add: the download is in queue.json before it is answered. *)
Add(d) ==
  /\ d \notin accepted
  /\ \E p \in Reached(file) :
       /\ proc' = [proc EXCEPT ![p].mem = @ \cup {d}]
       /\ disk' = proc[p].mem \cup {d}
  /\ accepted' = accepted \cup {d}
  /\ UNCHANGED <<file, cl, said, commands>>

Goto(c, pc) == cl' = [cl EXCEPT ![c].pc = pc]
Says(c, answer) == cl' = [cl EXCEPT ![c] = idle] /\ said' = [said EXCEPT ![c] = answer]

(* A command is not begun when the bound on processes is reached. *)
Begin(c, op) ==
  /\ cl[c].pc = "idle" /\ commands < MaxCommands
  /\ Cardinality(In({"none"})) > Cardinality({b \in Clients : cl[b].pc = "read"})
  /\ cl' = [cl EXCEPT ![c] = [op |-> op, pc |-> "read", ep |-> file]]
  /\ said' = [said EXCEPT ![c] = "nothing"]
  /\ commands' = commands + 1
  /\ UNCHANGED <<proc, file, disk, accepted>>

(* Mutant of Healthy: a service that shuts down says so. *)
HealthyIfUp(ep) == Named(ep) /\ Reached(ep) \cap In({"up"}) # {}

(* A request before the server serves waits for it, and may time out. *)
Healthy(ep) == Named(ep) /\ Reached(ep) # {}
Late(ep) == "slowstart" \notin Faults /\ \E p \in In({"token"}) : ep.port = p /\ ep.token = p

(* Mutant of AlreadyRunning: the files are cleared before the test. *)
AlreadyRunningCleared(c) ==
  /\ cl[c].op \in {"serve", "catch"} /\ cl[c].pc = "read" /\ Healthy(cl[c].ep)
  /\ file' = NoFiles /\ Says(c, "already running")
  /\ UNCHANGED <<proc, disk, accepted, commands>>

AlreadyRunning(c) ==
  /\ cl[c].op \in {"serve", "catch"} /\ cl[c].pc = "read" /\ Healthy(cl[c].ep)
  /\ Says(c, "already running")
  /\ UNCHANGED <<proc, file, disk, accepted, commands>>

(* No healthy service: the files are cleared and the process started. *)
Launch(c) ==
  /\ cl[c].op \in {"serve", "catch"} /\ cl[c].pc = "read"
  /\ ~Healthy(cl[c].ep) /\ ~Late(cl[c].ep)
  /\ \E p \in In({"none"}) :
       /\ \A q \in In({"none"}) : p <= q
       /\ proc' = [proc EXCEPT ![p].st = "new", ![p].mode = cl[c].op]
  /\ file' = NoFiles /\ Goto(c, "wait")
  /\ UNCHANGED <<disk, accepted, said, commands>>

(* An endpoint appears, or none does in five seconds.  Whoever runs `catch`  *)
(* sees as well whether it has come up.                                      *)
Launched(c) ==
  /\ cl[c].pc = "wait" /\ cl[c].op \in {"serve", "catch"}
  /\ \/ Named(file) /\ Says(c, "started")
     \/ /\ ~Named(file)
        /\ "slowstart" \in Faults \/ In(Starting) = {}
        /\ Says(c, "did not start")
  /\ UNCHANGED <<proc, file, disk, accepted, commands>>

NotRunning(c) ==
  /\ cl[c].op = "stop" /\ cl[c].pc = "read" /\ ~Named(cl[c].ep)
  /\ Says(c, "not running")
  /\ UNCHANGED <<proc, file, disk, accepted, commands>>

(* POST /shutdown; that nobody answers is ignored. *)
PostShutdown(c) ==
  /\ cl[c].op = "stop" /\ cl[c].pc = "read" /\ Named(cl[c].ep) /\ ~Late(cl[c].ep)
  /\ proc' = [p \in Pids |-> IF p \in Reached(cl[c].ep) /\ St(p) = "up"
                             THEN [proc[p] EXCEPT !.st = "stopping"] ELSE proc[p]]
  /\ Goto(c, "wait")
  /\ UNCHANGED <<file, disk, accepted, said, commands>>

(* Mutant of StopEnds: the wait has no deadline. *)
StopEndsInTime(c) ==
  /\ cl[c].op = "stop" /\ cl[c].pc = "wait" /\ file.port = 0
  /\ file' = NoFiles /\ Says(c, "stopped")
  /\ UNCHANGED <<proc, disk, accepted, commands>>

(* service.port has vanished, or has not in ten seconds: then the process    *)
(* whose pid is on file is sent SIGTERM (on Windows it is killed).  The files *)
(* are cleared either way.                                                   *)
StopEnds(c) ==
  /\ cl[c].op = "stop" /\ cl[c].pc = "wait"
  /\ \/ file.port = 0 /\ UNCHANGED proc
     \/ /\ file.port # 0
        /\ "slowstop" \in Faults \/ In(Starting \cup Ending) = {}
        /\ proc' = IF file.pid = 0 THEN proc ELSE Terminated(file.pid)
  /\ file' = NoFiles /\ Says(c, "stopped")
  /\ UNCHANGED <<disk, accepted, commands>>

-----------------------------------------------------------------------------
ProcessStep(p) == Boot(p) \/ WriteFile(p) \/ StopQueue(p) \/ LastSave(p) \/ ClearOwn(p)
CommandStep(c) ==
  AlreadyRunning(c) \/ Launch(c) \/ Launched(c) \/ NotRunning(c) \/ PostShutdown(c) \/ StopEnds(c)

Next ==
  \/ \E p \in Pids : ProcessStep(p) \/ Quit(p) \/ Signal(p) \/ Kill(p)
  \/ \E c \in Clients :
       CommandStep(c) \/ \E op \in {"serve", "catch", "stop"} : Begin(c, op)
  \/ \E d \in Ids : Add(d)

Spec == Init /\ [][Next]_vars

(* Processes and commands run; users, signals and kills are not owed. *)
FairSpec ==
  /\ Spec
  /\ \A p \in Pids : WF_vars(ProcessStep(p))
  /\ \A c \in Clients : WF_vars(CommandStep(c))

-----------------------------------------------------------------------------
(* Properties *)

TypeOK ==
  /\ proc \in [Pids -> [st : Stages, mode : {"serve", "catch"}, mem : SUBSET Ids]]
  /\ file \in Files /\ disk \subseteq Ids /\ accepted \subseteq Ids
  /\ cl \in [Clients -> [op : {"none", "serve", "catch", "stop"}, pc : {"idle", "read", "wait"},
                         ep : Files]]
  /\ said \in [Clients -> {"nothing", "already running", "started", "did not start",
                           "not running", "stopped"}]
  /\ commands \in 0..MaxCommands

(* A process that has read queue.json and will write it again. *)
Owners == In(Holding)

(* "serve is idempotent ... instead of starting a second one"                *)
(* (README.md:89-90): no two processes keep the same queue.json.             *)
OneOwner == \A p, q \in Owners : p = q

(* "The queue ... survive[s] stop / a crash / Ctrl-C" (README.md:93-94): a   *)
(* download that was accepted is in queue.json, whichever process wrote it.  *)
AcceptedKept == accepted \subseteq disk

(* `stop` has printed "stopped": no process will write queue.json any more.  *)
StoppedIsStopped == \A c \in Clients : said[c] = "stopped" => Owners = {}

(* A service that runs is the one the files name: commands reach it, and     *)
(* `stop` can end it (service.py:602-609, 940-968).                          *)
NoOrphan == \A p \in In({"up"}) : file = [port |-> p, token |-> p, pid |-> p]

(* Every command prints its answer, whatever dies meanwhile. *)
CommandsEnd == \A c \in Clients : cl[c].pc # "idle" ~> cl[c].pc = "idle"
=============================================================================
