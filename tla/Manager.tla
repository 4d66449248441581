------------------------------ MODULE Manager ------------------------------
(***************************************************************************)
(* The download queue of the service (src/tdm service.py, class Manager).  *)
(*                                                                         *)
(* Request threads, the scheduler thread and the pool's workers change the *)
(* records of the downloads under one lock and save them to queue.json.    *)
(* An action is one critical section, or one step taken outside the lock.  *)
(* engine.download() is what Engine is about: here a call of it probes,    *)
(* then ends by return, by Cancelled (only once its event is set), or by   *)
(* an exception, of the kinds _run() tells apart.                          *)
(***************************************************************************)
EXTENDS Naturals, Sequences, FiniteSets

CONSTANTS
  Ids,            \* downloads, numbered in the order they are added
  Hosts, HostOf,  \* HostOf[d]: the host of d's URL
  MaxConcurrent,  \* max_concurrent
  KeepTerminal,   \* _KEEP_TERMINAL
  MaxCalls,       \* bound on pause, resume, cancel and rebind calls
  MaxStops,       \* bound on shutdown() calls
  MaxCrashes,     \* bound on kills of the process
  MaxFailures     \* bound on writes of queue.json that raise

ASSUME QueueAssumption ==
  /\ Ids \subseteq Nat
  /\ HostOf \in [Ids -> Hosts]
  /\ MaxConcurrent \in Nat \ {0}
  /\ KeepTerminal \in Nat \ {0}
  /\ MaxCalls \in Nat /\ MaxStops \in Nat /\ MaxCrashes \in Nat /\ MaxFailures \in Nat

Terminal == {"done", "error", "cancelled"}
States == {"queued", "running", "paused"} \cup Terminal
Errors == {"none", "final", "transient"}

(* A record of _downloads.  `ev` says whether its cancel_event is set; it is *)
(* replaced only while no call of engine.download() holds it.                *)
Downloads ==
  [state : States \cup {"absent"}, mode : {"none", "pause", "cancel"}, ev : BOOLEAN,
   demoted : BOOLEAN, named : BOOLEAN, error : Errors]
Record(state, named, error) ==
  [state |-> state, mode |-> "none", ev |-> FALSE, demoted |-> FALSE,
   named |-> named, error |-> error]
Absent == Record("absent", FALSE, "none")

(* A call of _run(): `capped` says whether it was given the demoted host's   *)
(* connections, st where it is.                                              *)
Stages == {"probe", "fetch", "failed", "cancelled", "cleanup", "pausing"}
Runs == [id : Ids, capped : BOOLEAN, st : Stages]

Entries == [state : States, named : BOOLEAN, error : Errors]

VARIABLES
  dl, order,   \* _downloads: the records, and which was inserted before which
  caps,        \* _host_caps: the demoted hosts
  tasks, runs, \* the pool: submitted calls of _run(), and those a thread executes
  scheduler,   \* whether the scheduler thread lives
  phase,       \* of the process
  disk,        \* queue.json
  asked,       \* the last request carried out on d
  calls, stops, crashes, failures

bounds == <<calls, stops, crashes, failures>>
vars == <<dl, order, caps, tasks, runs, scheduler, phase, disk, asked, bounds>>

Init ==
  /\ dl = [d \in Ids |-> Absent] /\ order = {} /\ caps = {}
  /\ tasks = <<>> /\ runs = {} /\ scheduler = TRUE
  /\ phase = "up" /\ disk = [order |-> {}, entry |-> <<>>]
  /\ asked = [d \in Ids |-> "none"]
  /\ calls = 0 /\ stops = 0 /\ crashes = 0 /\ failures = 0

Serving == phase # "off"
Running == {d \in Ids : dl[d].state = "running"}

-----------------------------------------------------------------------------
(* queue.json *)

(* A dict or list is kept as the pairs <<d, e>> of which d comes before e.   *)
Ended(recs, d) == recs[d].state \in Terminal

(* Mutant of Keep: the limit applies to all downloads. *)
KeepNewest(recs, ids) ==
  {d \in Ids : /\ recs[d].state # "absent"
               /\ Cardinality({e \in Ids : <<d, e>> \in ids}) < KeepTerminal}

(* _keep: of the ended downloads the last ones. *)
Keep(recs, ids) ==
  {d \in Ids :
     /\ recs[d].state # "absent"
     /\ Ended(recs, d) =>
          Cardinality({e \in Ids : <<d, e>> \in ids /\ Ended(recs, e)}) < KeepTerminal}

(* The list in the file: its order, the active ones first, and its entries. *)
Saved(recs, ids) ==
  LET kept == Keep(recs, ids) IN
  [order |-> {p \in kept \X kept :
                \/ ~Ended(recs, p[1]) /\ Ended(recs, p[2])
                \/ p \in ids /\ (Ended(recs, p[1]) <=> Ended(recs, p[2]))},
   entry |-> [d \in kept |-> [state |-> recs[d].state, named |-> recs[d].named,
                              error |-> recs[d].error]]]

(* The records become recs, and _persist_locked saves them.  When the write  *)
(* raises, they stay changed and the file does not; ok says which it was.    *)
Persist(recs, ids, ok) ==
  /\ dl' = recs /\ order' = ids
  /\ IF ok
     THEN disk' = Saved(recs, ids) /\ UNCHANGED failures
     ELSE failures < MaxFailures /\ failures' = failures + 1 /\ UNCHANGED disk

Write(recs, ids) == \E ok \in BOOLEAN : Persist(recs, ids, ok)

-----------------------------------------------------------------------------
(* Requests *)

Known == {d \in Ids : dl[d].state # "absent"}

Add(d) ==
  /\ Serving /\ dl[d].state = "absent" /\ asked[d] = "none"
  /\ \A e \in Ids : e < d => dl[e].state # "absent" \/ asked[e] # "none"
  /\ Write([dl EXCEPT ![d] = Record("queued", FALSE, "none")], order \cup (Known \X {d}))
  /\ asked' = [asked EXCEPT ![d] = "add"]
  /\ UNCHANGED <<caps, tasks, runs, scheduler, phase, calls, stops, crashes>>

(* A request of kind `what` is carried out on d. *)
Accept(what, d) ==
  /\ Serving /\ calls < MaxCalls
  /\ calls' = calls + 1
  /\ asked' = [asked EXCEPT ![d] = what]
  /\ UNCHANGED <<caps, tasks, runs, scheduler, phase, stops, crashes>>

(* A running download is only told to stop; the records change when it does. *)
Tell(mode, d) ==
  /\ dl[d].state = "running"
  /\ dl' = [dl EXCEPT ![d].mode = mode, ![d].ev = TRUE]
  /\ UNCHANGED <<order, disk, failures>>

Pause(d) ==
  /\ \/ Tell("pause", d)
     \/ dl[d].state = "queued" /\ Write([dl EXCEPT ![d].state = "paused"], order)
  /\ Accept("pause", d)

Requeued(d) == [dl EXCEPT ![d] = Record("queued", dl[d].named, "none")]

(* Mutant of Resume: a download that is not stalled can be resumed. *)
ResumeAny(d) ==
  /\ dl[d].state \notin {"absent", "done", "cancelled"}
  /\ Write(Requeued(d), order)
  /\ Accept("resume", d)

Resume(d) ==
  /\ dl[d].state \in {"paused", "error"}
  /\ Write(Requeued(d), order)
  /\ Accept("resume", d)

(* A fresh URL for a stalled download; it needs the file name and its        *)
(* sidecar, without which the call raises and changes nothing.               *)
Rebind(d) ==
  /\ dl[d].state \in {"paused", "error"} /\ dl[d].named
  /\ Write(Requeued(d), order)
  /\ Accept("rebind", d)

(* Mutant of Cancel: an unknown id is not refused. *)
CancelUnknown(d) ==
  /\ \/ Tell("cancel", d)
     \/ /\ dl[d].state \notin Terminal \cup {"running"}
        /\ Write([dl EXCEPT ![d].state = "cancelled"], order)
  /\ Accept("cancel", d)

Cancel(d) ==
  /\ \/ Tell("cancel", d)
     \/ /\ dl[d].state \in {"queued", "paused"}
        /\ Write([dl EXCEPT ![d].state = "cancelled"], order)
  /\ Accept("cancel", d)

-----------------------------------------------------------------------------
(* The scheduler and the pool *)

IsQueued(d) == dl[d].state = "queued"

(* Mutant of FirstQueued: the newest one. *)
NewestQueued(d) == IsQueued(d) /\ \A e \in Ids : <<d, e>> \in order => ~IsQueued(e)

FirstQueued(d) == IsQueued(d) /\ \A e \in Ids : <<e, d>> \in order => ~IsQueued(e)

(* Mutant of Schedule: it counts what threads execute, not what it started. *)
ScheduleByThreads ==
  /\ scheduler
  /\ Cardinality(runs) < MaxConcurrent
  /\ \E d \in Ids, ok \in BOOLEAN :
       /\ FirstQueued(d)
       /\ Persist([dl EXCEPT ![d].state = "running"], order, ok)
       /\ tasks' = IF ok THEN Append(tasks, d) ELSE tasks
       /\ scheduler' = ok
  /\ UNCHANGED <<caps, runs, phase, asked, calls, stops, crashes>>

(* One turn of the scheduler's loop.  It has no handler: a write that raises *)
(* ends the thread, before the download it marked is submitted.              *)
Schedule ==
  /\ scheduler
  /\ Cardinality(Running) < MaxConcurrent
  /\ \E d \in Ids, ok \in BOOLEAN :
       /\ FirstQueued(d)
       /\ Persist([dl EXCEPT ![d].state = "running"], order, ok)
       /\ tasks' = IF ok THEN Append(tasks, d) ELSE tasks
       /\ scheduler' = ok
  /\ UNCHANGED <<caps, runs, phase, asked, calls, stops, crashes>>

(* Mutant of Start: tasks submitted before a stop are left in the pool. *)
StartWhileUp ==
  /\ phase = "up"
  /\ tasks # <<>> /\ Cardinality(runs) < MaxConcurrent
  /\ runs' = runs \cup {[id |-> Head(tasks), capped |-> HostOf[Head(tasks)] \in caps,
                         st |-> "probe"]}
  /\ tasks' = Tail(tasks)
  /\ UNCHANGED <<dl, order, caps, scheduler, phase, disk, asked, bounds>>

(* A thread takes a task; the connections are chosen now, outside the lock.  *)
Start ==
  /\ tasks # <<>> /\ Cardinality(runs) < MaxConcurrent
  /\ runs' = runs \cup {[id |-> Head(tasks), capped |-> HostOf[Head(tasks)] \in caps,
                         st |-> "probe"]}
  /\ tasks' = Tail(tasks)
  /\ UNCHANGED <<dl, order, caps, scheduler, phase, disk, asked, bounds>>

Goto(r, st) == runs' = (runs \ {r}) \cup {[r EXCEPT !.st = st]}

(* on_probed: the name is saved; when that raises, the download has failed.  *)
Probed(r) ==
  /\ r.st = "probe"
  /\ \E ok \in BOOLEAN :
       /\ Persist([dl EXCEPT ![r.id].named = TRUE], order, ok)
       /\ Goto(r, IF ok THEN "fetch" ELSE "failed")
  /\ UNCHANGED <<caps, tasks, scheduler, phase, asked, calls, stops, crashes>>

(* The call is over, and its record becomes rec. *)
Leave(r, rec) ==
  /\ runs' = runs \ {r}
  /\ Write([dl EXCEPT ![r.id] = rec], order)
  /\ UNCHANGED <<tasks, scheduler, phase, asked, calls, stops, crashes>>

Done(r) ==
  /\ r.st = "fetch"
  /\ Leave(r, [dl[r.id] EXCEPT !.state = "done", !.named = TRUE])
  /\ UNCHANGED caps

(* InsufficientSpace, ValueError *)
FailsForGood(r) ==
  /\ r.st \in {"probe", "fetch"}
  /\ Leave(r, [dl[r.id] EXCEPT !.state = "error", !.error = "final"])
  /\ UNCHANGED caps

(* Mutant of Retried: always. *)
RetriedAlways(r) == TRUE

(* Any other exception demotes the host and retries, once per host and once  *)
(* per download; a request to stop it stays set.                             *)
Retried(r) == HostOf[r.id] \notin caps /\ ~dl[r.id].demoted

Fails(r) ==
  /\ r.st \in {"probe", "fetch", "failed"}
  /\ IF Retried(r)
     THEN /\ caps' = caps \cup {HostOf[r.id]}
          /\ Leave(r, [dl[r.id] EXCEPT !.state = "queued", !.demoted = TRUE])
     ELSE /\ Leave(r, [dl[r.id] EXCEPT !.state = "error", !.error = "transient"])
          /\ UNCHANGED caps

(* The engine raises Cancelled. *)
Stopped(r) ==
  /\ r.st = "fetch" /\ dl[r.id].ev
  /\ Goto(r, "cancelled")
  /\ UNCHANGED <<dl, order, caps, tasks, scheduler, phase, disk, asked, bounds>>

(* _on_cancelled reads the mode before it takes the lock; the files of a     *)
(* cancelled download are deleted in between.                                *)
ReadMode(r) ==
  /\ r.st = "cancelled"
  /\ Goto(r, IF dl[r.id].mode = "cancel" THEN "cleanup" ELSE "pausing")
  /\ UNCHANGED <<dl, order, caps, tasks, scheduler, phase, disk, asked, bounds>>

OnCancelled(r) ==
  /\ \/ r.st = "cleanup"
        /\ Leave(r, [dl[r.id] EXCEPT !.state = "cancelled", !.mode = "none"])
     \/ r.st = "pausing"
        /\ Leave(r, [dl[r.id] EXCEPT !.state = "paused", !.mode = "none", !.ev = FALSE])
  /\ UNCHANGED caps

-----------------------------------------------------------------------------
(* The process *)

(* shutdown(), to the wait for the pool. *)
Shutdown ==
  /\ phase \in {"up", "stopping"} /\ stops < MaxStops
  /\ stops' = stops + 1
  /\ scheduler' = FALSE /\ phase' = "stopping"
  /\ dl' = [d \in Ids |-> IF d \in Running THEN [dl[d] EXCEPT !.mode = "pause", !.ev = TRUE]
                          ELSE dl[d]]
  /\ UNCHANGED <<order, caps, tasks, runs, disk, asked, calls, crashes, failures>>

(* Mutant of ShutdownEnds: the pool is not waited for. *)
ShutdownAtOnce ==
  /\ phase = "stopping"
  /\ \E ok \in BOOLEAN : Persist(dl, order, ok) /\ phase' = IF ok THEN "stopped" ELSE "up"
  /\ UNCHANGED <<caps, tasks, runs, scheduler, asked, calls, stops, crashes>>

(* The pool has no task left.  A last write that raises leaves the process   *)
(* serving, without a scheduler.                                             *)
ShutdownEnds ==
  /\ phase = "stopping" /\ tasks = <<>> /\ runs = {}
  /\ \E ok \in BOOLEAN : Persist(dl, order, ok) /\ phase' = IF ok THEN "stopped" ELSE "up"
  /\ UNCHANGED <<caps, tasks, runs, scheduler, asked, calls, stops, crashes>>

(* The process is gone, and its memory: after a shutdown, or killed. *)
Exit ==
  /\ Serving
  /\ \/ phase = "stopped" /\ UNCHANGED crashes
     \/ crashes < MaxCrashes /\ crashes' = crashes + 1
  /\ phase' = "off" /\ scheduler' = FALSE
  /\ dl' = [d \in Ids |-> Absent] /\ order' = {} /\ caps' = {}
  /\ tasks' = <<>> /\ runs' = {}
  /\ UNCHANGED <<disk, asked, calls, stops, failures>>

OnDisk(d) == d \in DOMAIN disk.entry

(* _load: what was running or paused is queued again. *)
Loaded(e) ==
  Record(IF e.state \in {"running", "paused"} THEN "queued" ELSE e.state, e.named, e.error)

Restart ==
  /\ phase = "off"
  /\ dl' = [d \in Ids |-> IF OnDisk(d) THEN Loaded(disk.entry[d]) ELSE Absent]
  /\ order' = disk.order
  /\ phase' = "up" /\ scheduler' = TRUE
  /\ UNCHANGED <<caps, tasks, runs, disk, asked, bounds>>

RunStep(r) ==
  \/ Probed(r) \/ Done(r) \/ FailsForGood(r) \/ Fails(r)
  \/ Stopped(r) \/ ReadMode(r) \/ OnCancelled(r)

Next ==
  \/ \E d \in Ids : Add(d) \/ Pause(d) \/ Resume(d) \/ Rebind(d) \/ Cancel(d)
  \/ Schedule \/ Start \/ \E r \in runs : RunStep(r)
  \/ Shutdown \/ ShutdownEnds \/ Exit \/ Restart

Spec == Init /\ [][Next]_vars

(* The scheduler wakes at least every half second, the pool's threads run,   *)
(* and a call of engine.download() ends (Engine's RunEnds).                  *)
FairSpec ==
  /\ Spec
  /\ WF_vars(Schedule) /\ WF_vars(Start) /\ WF_vars(ShutdownEnds)
  /\ \A d \in Ids : WF_vars(\E r \in runs : r.id = d /\ RunStep(r))

-----------------------------------------------------------------------------
(* Properties *)

(* before puts the members of S in a row. *)
Orders(before, S) ==
  /\ before \subseteq S \X S
  /\ \A d \in S : <<d, d>> \notin before
  /\ \A d, e, f \in S : <<d, e>> \in before /\ <<e, f>> \in before => <<d, f>> \in before
  /\ \A d, e \in S : d = e \/ <<d, e>> \in before \/ <<e, d>> \in before

(* The variables have their types; dict and file hold what is in them in one *)
(* row, whatever is appended, pruned, sorted active first and loaded again.  *)
TypeOK ==
  /\ dl \in [Ids -> Downloads] /\ caps \subseteq Hosts
  /\ tasks \in Seq(Ids) /\ runs \subseteq Runs
  /\ scheduler \in BOOLEAN /\ phase \in {"up", "stopping", "stopped", "off"}
  /\ DOMAIN disk.entry \subseteq Ids /\ disk.entry \in [DOMAIN disk.entry -> Entries]
  /\ asked \in [Ids -> {"none", "add", "pause", "resume", "rebind", "cancel"}]
  /\ Orders(order, Known) /\ Orders(disk.order, DOMAIN disk.entry)
  /\ calls \in 0..MaxCalls /\ stops \in 0..MaxStops
  /\ crashes \in 0..MaxCrashes /\ failures \in 0..MaxFailures

Submitted == {tasks[i] : i \in DOMAIN tasks}
Executed == {r.id : r \in runs}

(* One call of engine.download() per download, whatever is paused, resumed,  *)
(* demoted and requeued while calls end: two of them would share the files   *)
(* and the event.  And a record says "running" only while it has one, or     *)
(* for ever once the scheduler died over a failed write (service.py:260-261).*)
OneRunPerDownload ==
  /\ \A i, j \in DOMAIN tasks : tasks[i] = tasks[j] => i = j
  /\ \A r, q \in runs : r.id = q.id => r = q
  /\ Submitted \cap Executed = {}
  /\ Submitted \cup Executed \subseteq Running
  /\ scheduler \/ failures = 0 => Running = Submitted \cup Executed

(* "Up to 3 downloads run concurrently" (README.md:90-91), and none of them  *)
(* waits for a thread of the pool for longer than another takes to leave it. *)
AtMostMaxConcurrent == Cardinality(Running) <= MaxConcurrent

(* A graceful stop leaves nothing running, and a file that is up to date     *)
(* with every request answered meanwhile.                                    *)
StopIsClean ==
  phase = "stopped" => Running = {} /\ runs = {} /\ disk = Saved(dl, order)

(* What each download has come to: in the process's memory while it lives,   *)
(* in the file when it does not.                                             *)
StageOf(state) == IF state \in {"queued", "running", "paused"} THEN "pending" ELSE state
Stage ==
  [d \in Ids |->
     IF Serving
     THEN IF dl[d].state = "absent" THEN "unknown" ELSE StageOf(dl[d].state)
     ELSE IF OnDisk(d) THEN StageOf(disk.entry[d].state) ELSE "unknown"]

Promise == INSTANCE Queue WITH stage <- Stage

(* The manager keeps Queue's promise: no accepted download is forgotten and  *)
(* none that is done or cancelled comes back, whatever is stopped, killed    *)
(* and restarted when (README.md:93-96).                                     *)
KeepsThePromise == Promise!Spec

(* "The rest queue in FIFO order" (README.md:91): a download nobody has      *)
(* touched since it was added is not overtaken by one added later, restarts  *)
(* and demotions included.                                                   *)
NotOvertaken ==
  [][\A d, e \in Ids :
       /\ dl[d].state = "queued" /\ dl'[d].state = "running"
       /\ dl[e].state = "queued" /\ asked[e] = "add"
       => d <= e]_vars

(* A download that is queued or running comes to rest: one that fails is     *)
(* retried once, not for ever, and no request makes it wait on another.      *)
Settles ==
  \A d \in Ids :
    dl[d].state \in {"queued", "running"} /\ phase = "up" ~>
      dl[d].state \notin {"queued", "running"} \/ phase # "up"

(* shutdown() ends: no requeue and no pending task keeps the pool busy. *)
StopEnds == phase = "stopping" ~> phase # "stopping"

(* A download whose last accepted request was to cancel it is not kept for   *)
(* a later resume (service.py:316-330).                                      *)
CancelHonoured ==
  [][\A d \in Ids :
       dl[d].state = "running" /\ dl'[d].state = "paused" => asked[d] # "cancel"]_vars

(* A download that fails has been retried with its host's two connections    *)
(* "before it's marked error" (README.md:91-93).                             *)
RetriedBeforeError ==
  [][\A r \in runs :
       dl'[r.id].error = "transient" /\ dl[r.id].error # "transient" => r.capped]_vars
=============================================================================
