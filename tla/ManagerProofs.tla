---------------------------- MODULE ManagerProofs ----------------------------
(* The queue of the service, for every number of downloads, hosts, threads,  *)
(* requests, stops, kills and failing writes: one engine call per download,  *)
(* at most max_concurrent of them, and none overtaken that was added before. *)
EXTENDS Manager, FiniteSetTheorems, SequenceTheorems, TLAPS

Types ==
  /\ dl \in [Ids -> Downloads]
  /\ tasks \in Seq(Ids) /\ runs \subseteq Runs
  /\ scheduler \in BOOLEAN /\ phase \in {"up", "stopping", "stopped", "off"}
  /\ DOMAIN disk.entry \subseteq Ids /\ disk.entry \in [DOMAIN disk.entry -> Entries]
  /\ failures \in Nat

(* Only a process that is up schedules, and one that has stopped or is gone  *)
(* has an empty pool.                                                        *)
Quiet ==
  /\ phase # "up" => ~scheduler
  /\ phase \in {"stopped", "off"} => tasks = <<>> /\ runs = {}

FewRun == IsFiniteSet(Running) /\ AtMostMaxConcurrent

Inv == Types /\ Quiet /\ OneRunPerDownload /\ FewRun

-----------------------------------------------------------------------------
(* What a save writes. *)

LEMMA SavedEntries ==
  ASSUME NEW recs \in [Ids -> Downloads], NEW ids
  PROVE  LET entry == Saved(recs, ids).entry IN
         /\ DOMAIN entry \subseteq Ids /\ entry \in [DOMAIN entry -> Entries]
         /\ \A d \in DOMAIN entry : recs[d].state # "absent" /\ entry[d].state = recs[d].state
         /\ \A d \in Ids : recs[d].state \in {"queued", "running", "paused"} => d \in DOMAIN entry
<1> DEFINE kept == Keep(recs, ids)
           entry == Saved(recs, ids).entry
<1>1. entry = [d \in kept |-> [state |-> recs[d].state, named |-> recs[d].named,
                               error |-> recs[d].error]]
  BY DEF Saved
<1>2. /\ kept \subseteq Ids /\ \A d \in kept : recs[d].state # "absent"
      /\ \A d \in Ids : recs[d].state \in {"queued", "running", "paused"} => d \in kept
  BY DEF Keep, Ended, Terminal
<1> HIDE DEF kept, entry
<1>3. \A d \in kept : [state |-> recs[d].state, named |-> recs[d].named,
                       error |-> recs[d].error] \in Entries
  BY <1>2 DEF Downloads, Entries
<1>4. DOMAIN entry = kept /\ entry \in [kept -> Entries]
  BY <1>1, <1>3
<1> QED BY <1>1, <1>2, <1>4 DEF entry

LEMMA Persisted ==
  ASSUME Types, NEW recs \in [Ids -> Downloads], NEW ids, NEW ok \in BOOLEAN,
         Persist(recs, ids, ok)
  PROVE  /\ dl' = recs /\ failures' \in Nat /\ (failures' = 0 => ok /\ failures = 0)
         /\ DOMAIN disk'.entry \subseteq Ids /\ disk'.entry \in [DOMAIN disk'.entry -> Entries]
<1>1. CASE ok
  BY <1>1, SavedEntries DEF Persist, Types
<1>2. CASE ~ok
  BY <1>2 DEF Persist, Types
<1> QED BY <1>1, <1>2

LEMMA Written ==
  ASSUME Types, NEW recs \in [Ids -> Downloads], NEW ids, Write(recs, ids)
  PROVE  /\ dl' = recs /\ failures' \in Nat /\ (failures' = 0 => failures = 0)
         /\ DOMAIN disk'.entry \subseteq Ids /\ disk'.entry \in [DOMAIN disk'.entry -> Entries]
BY Persisted DEF Write

(* Records. *)
LEMMA RecordTyped ==
  ASSUME NEW state \in States \cup {"absent"}, NEW named \in BOOLEAN, NEW error \in Errors
  PROVE  Record(state, named, error) \in Downloads /\ Record(state, named, error).state = state
BY DEF Record, Downloads

LEMMA Restated ==
  ASSUME dl \in [Ids -> Downloads], NEW d \in Ids, NEW rec \in Downloads
  PROVE  /\ [dl EXCEPT ![d] = rec] \in [Ids -> Downloads]
         /\ [dl EXCEPT ![d] = rec][d] = rec
         /\ \A e \in Ids \ {d} : [dl EXCEPT ![d] = rec][e] = dl[e]
OBVIOUS

-----------------------------------------------------------------------------
(* Steps that neither start nor end a call. *)

LEMMA NoCallChanges ==
  ASSUME Inv, Types', Running' = Running, UNCHANGED <<tasks, runs>>,
         scheduler' => scheduler, failures' = 0 => failures = 0
  PROVE  OneRunPerDownload' /\ FewRun'
<1>1. Submitted' = Submitted /\ Executed' = Executed
  BY DEF Submitted, Executed
<1> QED BY <1>1 DEF Inv, OneRunPerDownload, FewRun, AtMostMaxConcurrent

(* A request changes one record, which is not and does not become "running". *)
LEMMA RequestKeeps ==
  ASSUME Inv, NEW d \in Ids, NEW rec \in Downloads, rec.state # "running", dl[d].state # "running",
         NEW ids, Write([dl EXCEPT ![d] = rec], ids),
         UNCHANGED <<tasks, runs, scheduler, phase>>
  PROVE  Inv'
<1> DEFINE recs == [dl EXCEPT ![d] = rec]
<1>0. Types /\ recs \in [Ids -> Downloads]
  BY Restated DEF Inv, Types
<1> HIDE DEF recs
<1>1. dl' = recs /\ Types' /\ (failures' = 0 => failures = 0)
  <2>1. Write(recs, ids)
    BY DEF recs
  <2>2. /\ dl' = recs /\ failures' \in Nat /\ (failures' = 0 => failures = 0)
        /\ DOMAIN disk'.entry \subseteq Ids /\ disk'.entry \in [DOMAIN disk'.entry -> Entries]
    BY <1>0, <2>1, Written
  <2> QED BY <1>0, <2>2 DEF Types
<1> USE DEF recs
<1>2. Running' = Running
  BY <1>1 DEF Running, Inv, Types
<1>3. OneRunPerDownload' /\ FewRun'
  BY <1>1, <1>2, NoCallChanges
<1> QED BY <1>1, <1>3 DEF Inv, Quiet

LEMMA TellKeeps ==
  ASSUME Inv, NEW d \in Ids, NEW mode \in {"pause", "cancel"}, Tell(mode, d),
         UNCHANGED <<tasks, runs, scheduler, phase>>
  PROVE  Inv'
<1> DEFINE rec == [dl[d] EXCEPT !.mode = mode, !.ev = TRUE]
<1>1. rec \in Downloads /\ rec.state = dl[d].state
  BY DEF Inv, Types, Downloads
<1>2. dl' = [dl EXCEPT ![d] = rec] /\ UNCHANGED <<disk, failures>>
  BY DEF Tell, Inv, Types
<1> HIDE DEF rec
<1>3. Types'
  BY <1>1, <1>2 DEF Inv, Types
<1>4. Running' = Running
  BY <1>1, <1>2 DEF Running, Inv, Types
<1>5. OneRunPerDownload' /\ FewRun'
  BY <1>2, <1>3, <1>4, NoCallChanges
<1> QED BY <1>3, <1>5 DEF Inv, Quiet

LEMMA Requests ==
  ASSUME Inv, NEW d \in Ids, Add(d) \/ Pause(d) \/ Resume(d) \/ Rebind(d) \/ Cancel(d)
  PROVE  Inv'
<1>0. dl \in [Ids -> Downloads] /\ dl[d] \in Downloads
  BY DEF Inv, Types
<1>1. CASE Add(d)
  <2>1. Record("queued", FALSE, "none") \in Downloads /\ Record("queued", FALSE, "none").state = "queued"
    BY RecordTyped DEF States, Errors
  <2> QED BY <1>1, <2>1, RequestKeeps DEF Add
<1>2. CASE Pause(d)
  <2> DEFINE rec == [dl[d] EXCEPT !.state = "paused"]
  <2>1. rec \in Downloads /\ rec.state = "paused" /\ [dl EXCEPT ![d].state = "paused"] = [dl EXCEPT ![d] = rec]
    BY <1>0 DEF Downloads, States
  <2>2. UNCHANGED <<tasks, runs, scheduler, phase>>
    BY <1>2 DEF Pause, Accept
  <2> HIDE DEF rec
  <2>3. CASE Tell("pause", d)
    BY <2>2, <2>3, TellKeeps
  <2>4. CASE dl[d].state = "queued" /\ Write([dl EXCEPT ![d].state = "paused"], order)
    BY <2>1, <2>2, <2>4, RequestKeeps
  <2> QED BY <1>2, <2>3, <2>4 DEF Pause
<1>3. CASE Resume(d) \/ Rebind(d)
  <2> DEFINE rec == Record("queued", dl[d].named, "none")
  <2>1. rec \in Downloads /\ rec.state = "queued"
    BY <1>0, RecordTyped DEF Downloads, States, Errors
  <2> HIDE DEF rec
  <2>2. Write([dl EXCEPT ![d] = rec], order) /\ dl[d].state # "running"
        /\ UNCHANGED <<tasks, runs, scheduler, phase>>
    BY <1>3 DEF Resume, Rebind, Requeued, Accept, rec
  <2> QED BY <2>1, <2>2, RequestKeeps
<1>4. CASE Cancel(d)
  <2> DEFINE rec == [dl[d] EXCEPT !.state = "cancelled"]
  <2>1. rec \in Downloads /\ rec.state = "cancelled" /\ [dl EXCEPT ![d].state = "cancelled"] = [dl EXCEPT ![d] = rec]
    BY <1>0 DEF Downloads, States, Terminal
  <2>2. UNCHANGED <<tasks, runs, scheduler, phase>>
    BY <1>4 DEF Cancel, Accept
  <2> HIDE DEF rec
  <2>3. CASE Tell("cancel", d)
    BY <2>2, <2>3, TellKeeps
  <2>4. CASE dl[d].state \in {"queued", "paused"} /\ Write([dl EXCEPT ![d].state = "cancelled"], order)
    BY <2>1, <2>2, <2>4, RequestKeeps
  <2> QED BY <1>4, <2>3, <2>4 DEF Cancel
<1> QED BY <1>1, <1>2, <1>3, <1>4

-----------------------------------------------------------------------------
(* The scheduler and the pool. *)

LEMMA ScheduleKeeps ==
  ASSUME Inv, Schedule
  PROVE  Inv'
<1>1. PICK d \in Ids, ok \in BOOLEAN :
        /\ dl[d].state = "queued"
        /\ Persist([dl EXCEPT ![d].state = "running"], order, ok)
        /\ tasks' = IF ok THEN Append(tasks, d) ELSE tasks
        /\ scheduler' = ok
  BY DEF Schedule, FirstQueued, IsQueued
<1>2. scheduler /\ phase = "up" /\ phase' = "up" /\ runs' = runs /\ Cardinality(Running) < MaxConcurrent
  BY DEF Schedule, Inv, Types, Quiet
<1> DEFINE recs == [dl EXCEPT ![d].state = "running"]
<1>3. /\ recs \in [Ids -> Downloads] /\ recs[d].state = "running"
      /\ \A e \in Ids \ {d} : recs[e] = dl[e]
  BY DEF Inv, Types, Downloads, States
<1> HIDE DEF recs
<1>4. /\ dl' = recs /\ failures' \in Nat /\ (failures' = 0 => ok /\ failures = 0)
      /\ DOMAIN disk'.entry \subseteq Ids /\ disk'.entry \in [DOMAIN disk'.entry -> Entries]
  <2>1. Types /\ Persist(recs, order, ok)
    BY <1>1 DEF Inv, recs
  <2> QED BY <1>3, <2>1, Persisted
<1>5. Types'
  <2>1. tasks' \in Seq(Ids)
    BY <1>1 DEF Inv, Types
  <2> QED BY <1>1, <1>2, <1>3, <1>4, <2>1 DEF Inv, Types
<1>6. Quiet'
  BY <1>2 DEF Quiet
<1>7. Running' = Running \cup {d} /\ d \notin Running
  BY <1>1, <1>3, <1>4 DEF Running
<1>8. FewRun'
  <2>1. IsFiniteSet(Running') /\ Cardinality(Running') = Cardinality(Running) + 1
    BY <1>7, FS_AddElement DEF Inv, FewRun
  <2>2. Cardinality(Running) \in Nat
    BY FS_CardinalityType DEF Inv, FewRun
  <2> QED BY <1>2, <2>1, <2>2, QueueAssumption DEF FewRun, AtMostMaxConcurrent
<1>9. OneRunPerDownload'
  <2>1. d \notin Submitted /\ d \notin Executed /\ Executed' = Executed
    BY <1>2, <1>7 DEF Inv, OneRunPerDownload, Executed
  <2>2. CASE ok
    <3>1. /\ DOMAIN tasks = 1..Len(tasks) /\ DOMAIN tasks' = 1..(Len(tasks) + 1) /\ Len(tasks) \in Nat
          /\ tasks'[Len(tasks) + 1] = d /\ \A i \in 1..Len(tasks) : tasks'[i] = tasks[i]
      BY <1>1, <2>2 DEF Inv, Types
    <3>2. Submitted' = Submitted \cup {d}
      BY <3>1 DEF Submitted
    <3>3. \A i, j \in DOMAIN tasks' : tasks'[i] = tasks'[j] => i = j
      <4> SUFFICES ASSUME NEW i \in DOMAIN tasks', NEW j \in DOMAIN tasks', tasks'[i] = tasks'[j]
                   PROVE  i = j
        OBVIOUS
      <4>1. \A k \in 1..Len(tasks) : tasks[k] # d
        BY <2>1, <3>1 DEF Submitted
      <4>2. CASE i \in DOMAIN tasks /\ j \in DOMAIN tasks
        BY <3>1, <4>2 DEF Inv, OneRunPerDownload
      <4> QED BY <3>1, <4>1, <4>2
    <3> QED BY <1>2, <1>7, <2>1, <3>2, <3>3 DEF Inv, OneRunPerDownload
  <2>3. CASE ~ok
    <3>1. tasks' = tasks /\ Submitted' = Submitted /\ ~scheduler' /\ failures' # 0
      BY <1>1, <1>4, <2>3 DEF Submitted
    <3> QED BY <1>2, <1>7, <2>1, <3>1 DEF Inv, OneRunPerDownload
  <2> QED BY <2>2, <2>3
<1> QED BY <1>5, <1>6, <1>8, <1>9 DEF Inv

LEMMA StartKeeps ==
  ASSUME Inv, Start
  PROVE  Inv'
<1> DEFINE h == Head(tasks)
           r == [id |-> h, capped |-> HostOf[h] \in caps, st |-> "probe"]
<1>1. /\ tasks \in Seq(Ids) /\ tasks # <<>> /\ tasks' = Tail(tasks) /\ runs' = runs \cup {r}
      /\ UNCHANGED <<dl, scheduler, phase, disk, failures>>
  BY DEF Start, bounds, Inv, Types
<1>2. /\ h \in Ids /\ Tail(tasks) \in Seq(Ids) /\ h = tasks[1]
      /\ DOMAIN tasks = 1..Len(tasks) /\ Len(tasks) \in Nat \ {0}
      /\ DOMAIN tasks' = 1..(Len(tasks) - 1) /\ \A i \in DOMAIN tasks' : tasks'[i] = tasks[i + 1]
  BY <1>1
<1>3. r \in Runs /\ r.id = h
  BY <1>2 DEF Runs, Stages
<1> HIDE DEF h, r
<1>4. Types'
  BY <1>1, <1>2, <1>3 DEF Inv, Types
<1>5. Quiet'
  BY <1>1 DEF Inv, Quiet
<1>6. Running' = Running
  BY <1>1 DEF Running
<1>7. h \notin Submitted' /\ Submitted = Submitted' \cup {h}
  <2>1. \A i \in DOMAIN tasks' : i + 1 \in DOMAIN tasks /\ tasks'[i] # h
    BY <1>2 DEF Inv, OneRunPerDownload
  <2>2. \A i \in DOMAIN tasks : i = 1 \/ (i - 1 \in DOMAIN tasks' /\ tasks'[i - 1] = tasks[i])
    BY <1>2
  <2> QED BY <1>2, <2>1, <2>2 DEF Submitted
<1>8. Executed' = Executed \cup {h} /\ h \notin Executed
  BY <1>1, <1>3, <1>7 DEF Executed, Inv, OneRunPerDownload
<1>9. \A i, j \in DOMAIN tasks' : tasks'[i] = tasks'[j] => i = j
  <2> SUFFICES ASSUME NEW i \in DOMAIN tasks', NEW j \in DOMAIN tasks', tasks'[i] = tasks'[j]
               PROVE  i = j
    OBVIOUS
  <2>1. i + 1 \in DOMAIN tasks /\ j + 1 \in DOMAIN tasks /\ tasks[i + 1] = tasks[j + 1]
    BY <1>2
  <2>2. i + 1 = j + 1
    BY <2>1 DEF Inv, OneRunPerDownload
  <2> QED BY <1>2, <2>2
<1>10. \A q, p \in runs' : q.id = p.id => q = p
  BY <1>1, <1>3, <1>8 DEF Executed, Inv, OneRunPerDownload
<1>11. OneRunPerDownload'
  BY <1>1, <1>6, <1>7, <1>8, <1>9, <1>10 DEF Inv, OneRunPerDownload
<1> QED BY <1>4, <1>5, <1>6, <1>11 DEF Inv, FewRun, AtMostMaxConcurrent

-----------------------------------------------------------------------------
(* A call of _run(). *)

(* It goes on: the download it belongs to is the same.                       *)
LEMMA GotoKeeps ==
  ASSUME Inv, NEW r \in runs, NEW st \in Stages, Goto(r, st), Types', Running' = Running,
         UNCHANGED <<tasks, scheduler, phase>>, failures' = 0 => failures = 0
  PROVE  Inv'
<1> DEFINE s == [r EXCEPT !.st = st]
<1>1. runs' = (runs \ {r}) \cup {s} /\ s.id = r.id
  BY DEF Goto, Inv, Types, Runs
<1> HIDE DEF s
<1>2. Submitted' = Submitted /\ Executed' = Executed
  BY <1>1 DEF Submitted, Executed
<1>3. \A p, q \in runs' : p.id = q.id => p = q
  BY <1>1 DEF Inv, OneRunPerDownload
<1>4. OneRunPerDownload'
  BY <1>2, <1>3 DEF Inv, OneRunPerDownload
<1>5. Quiet'
  BY DEF Inv, Quiet
<1> QED BY <1>4, <1>5 DEF Inv, FewRun, AtMostMaxConcurrent

LEMMA GotoTyped ==
  ASSUME Types, NEW r \in runs, NEW st \in Stages, Goto(r, st)
  PROVE  runs' \subseteq Runs
BY DEF Goto, Types, Runs

(* It ends, and its download is no longer running.                           *)
LEMMA LeaveKeeps ==
  ASSUME Inv, NEW r \in runs, NEW rec \in Downloads, rec.state # "running", Leave(r, rec)
  PROVE  Inv'
<1> DEFINE d == r.id
           recs == [dl EXCEPT ![d] = rec]
<1>1. d \in Ids /\ d \in Executed /\ Types
  BY DEF Inv, Types, Runs, Executed
<1>2. /\ recs \in [Ids -> Downloads] /\ recs[d] = rec /\ \A e \in Ids \ {d} : recs[e] = dl[e]
  BY <1>1, Restated DEF Types
<1>3. Write(recs, order) /\ runs' = runs \ {r} /\ UNCHANGED <<tasks, scheduler, phase>>
  BY DEF Leave
<1> HIDE DEF recs
<1>4. /\ dl' = recs /\ failures' \in Nat /\ (failures' = 0 => failures = 0)
      /\ DOMAIN disk'.entry \subseteq Ids /\ disk'.entry \in [DOMAIN disk'.entry -> Entries]
  BY <1>1, <1>2, <1>3, Written
<1>5. Types'
  BY <1>1, <1>2, <1>3, <1>4 DEF Types
<1>6. Running' = Running \ {d}
  BY <1>2, <1>4 DEF Running
<1>7. Submitted' = Submitted /\ d \notin Submitted
  BY <1>1, <1>3 DEF Submitted, Inv, OneRunPerDownload
<1>8. Executed' = Executed \ {d} /\ \A p, q \in runs' : p.id = q.id => p = q
  BY <1>3 DEF Executed, Inv, OneRunPerDownload
<1> HIDE DEF d
<1>9. OneRunPerDownload'
  BY <1>3, <1>4, <1>6, <1>7, <1>8 DEF Inv, OneRunPerDownload
<1>10. FewRun'
  <2>1. IsFiniteSet(Running) /\ Running' \subseteq Running
    BY <1>6 DEF Inv, FewRun
  <2>2. IsFiniteSet(Running') /\ Cardinality(Running') <= Cardinality(Running)
    BY <2>1, FS_Subset
  <2>3. Cardinality(Running) \in Nat /\ Cardinality(Running') \in Nat
    BY <2>1, <2>2, FS_CardinalityType
  <2> QED BY <2>2, <2>3, QueueAssumption DEF Inv, FewRun, AtMostMaxConcurrent
<1> QED BY <1>3, <1>5, <1>9, <1>10 DEF Inv, Quiet

LEMMA RunStepKeeps ==
  ASSUME Inv, NEW r \in runs, RunStep(r)
  PROVE  Inv'
<1>1. Types /\ r \in Runs /\ r.id \in Ids /\ dl[r.id] \in Downloads
  BY DEF Inv, Types, Runs
<1>2. CASE Probed(r)
  <2>1. PICK ok \in BOOLEAN :
          /\ Persist([dl EXCEPT ![r.id].named = TRUE], order, ok)
          /\ Goto(r, IF ok THEN "fetch" ELSE "failed")
    BY <1>2 DEF Probed
  <2> DEFINE recs == [dl EXCEPT ![r.id].named = TRUE]
             st == IF ok THEN "fetch" ELSE "failed"
  <2>2. recs \in [Ids -> Downloads] /\ \A e \in Ids : recs[e].state = dl[e].state
    BY <1>1 DEF Types, Downloads
  <2>3. st \in Stages
    BY DEF Stages
  <2>4. Persist(recs, order, ok) /\ Goto(r, st)
    BY <2>1
  <2> HIDE DEF recs, st
  <2>5. /\ dl' = recs /\ failures' \in Nat /\ (failures' = 0 => failures = 0)
        /\ DOMAIN disk'.entry \subseteq Ids /\ disk'.entry \in [DOMAIN disk'.entry -> Entries]
    BY <1>1, <2>2, <2>4, Persisted
  <2>6. UNCHANGED <<tasks, scheduler, phase>>
    BY <1>2 DEF Probed
  <2>7. runs' \subseteq Runs
    BY <1>1, <2>3, <2>4, GotoTyped
  <2>8. Types'
    BY <1>1, <2>2, <2>5, <2>6, <2>7 DEF Types
  <2>9. Running' = Running
    BY <2>2, <2>5 DEF Running
  <2> QED BY <2>3, <2>4, <2>5, <2>6, <2>8, <2>9, GotoKeeps
<1>3. CASE Done(r)
  <2> DEFINE rec == [dl[r.id] EXCEPT !.state = "done", !.named = TRUE]
  <2>1. rec \in Downloads /\ rec.state # "running"
    BY <1>1 DEF Downloads, States, Terminal
  <2> QED BY <1>3, <2>1, LeaveKeeps DEF Done
<1>4. CASE FailsForGood(r)
  <2> DEFINE rec == [dl[r.id] EXCEPT !.state = "error", !.error = "final"]
  <2>1. rec \in Downloads /\ rec.state # "running"
    BY <1>1 DEF Downloads, States, Terminal, Errors
  <2> QED BY <1>4, <2>1, LeaveKeeps DEF FailsForGood
<1>5. CASE Fails(r)
  <2> DEFINE again == [dl[r.id] EXCEPT !.state = "queued", !.demoted = TRUE]
             rec == [dl[r.id] EXCEPT !.state = "error", !.error = "transient"]
  <2>1. again \in Downloads /\ again.state # "running"
    BY <1>1 DEF Downloads, States
  <2>2. rec \in Downloads /\ rec.state # "running"
    BY <1>1 DEF Downloads, States, Terminal, Errors
  <2>3. Leave(r, again) \/ Leave(r, rec)
    BY <1>5 DEF Fails
  <2> HIDE DEF again, rec
  <2> QED BY <2>1, <2>2, <2>3, LeaveKeeps
<1>6. CASE Stopped(r) \/ ReadMode(r)
  <2>1. PICK st \in Stages : Goto(r, st)
    BY <1>6 DEF Stopped, ReadMode, Stages
  <2>2. UNCHANGED <<dl, tasks, scheduler, phase, disk, failures>>
    BY <1>6 DEF Stopped, ReadMode, bounds
  <2>3. runs' \subseteq Runs
    BY <1>1, <2>1, GotoTyped
  <2>4. Types' /\ Running' = Running
    BY <1>1, <2>2, <2>3 DEF Types, Running
  <2> QED BY <2>1, <2>2, <2>4, GotoKeeps
<1>7. CASE OnCancelled(r)
  <2> DEFINE gone == [dl[r.id] EXCEPT !.state = "cancelled", !.mode = "none"]
             kept == [dl[r.id] EXCEPT !.state = "paused", !.mode = "none", !.ev = FALSE]
  <2>1. gone \in Downloads /\ gone.state # "running"
    BY <1>1 DEF Downloads, States, Terminal
  <2>2. kept \in Downloads /\ kept.state # "running"
    BY <1>1 DEF Downloads, States
  <2>3. Leave(r, gone) \/ Leave(r, kept)
    BY <1>7 DEF OnCancelled
  <2> HIDE DEF gone, kept
  <2> QED BY <2>1, <2>2, <2>3, LeaveKeeps
<1> QED BY <1>2, <1>3, <1>4, <1>5, <1>6, <1>7 DEF RunStep

-----------------------------------------------------------------------------
(* The process. *)

LEMMA ShutdownKeeps ==
  ASSUME Inv, Shutdown \/ ShutdownEnds
  PROVE  Inv'
<1>1. CASE Shutdown
  <2>1. /\ \A d \in Ids : dl'[d] \in Downloads /\ dl'[d].state = dl[d].state
        /\ dl' = [d \in Ids |-> dl'[d]]
    BY <1>1 DEF Shutdown, Inv, Types, Downloads
  <2>2. /\ ~scheduler' /\ scheduler' \in BOOLEAN /\ phase' = "stopping"
        /\ UNCHANGED <<tasks, runs, disk, failures>>
    BY <1>1 DEF Shutdown
  <2>3. Types' /\ Quiet'
    BY <2>1, <2>2 DEF Inv, Types, Quiet
  <2>4. Running' = Running
    BY <2>1 DEF Running
  <2> QED BY <2>2, <2>3, <2>4, NoCallChanges DEF Inv
<1>2. CASE ShutdownEnds
  <2>1. PICK ok \in BOOLEAN : Persist(dl, order, ok) /\ phase' = IF ok THEN "stopped" ELSE "up"
    BY <1>2 DEF ShutdownEnds
  <2>2. /\ dl' = dl /\ failures' \in Nat /\ (failures' = 0 => failures = 0)
        /\ DOMAIN disk'.entry \subseteq Ids /\ disk'.entry \in [DOMAIN disk'.entry -> Entries]
    BY <2>1, Persisted DEF Inv, Types
  <2>3. tasks = <<>> /\ runs = {} /\ ~scheduler /\ UNCHANGED <<tasks, runs, scheduler>>
    BY <1>2 DEF ShutdownEnds, Inv, Quiet
  <2>4. Types' /\ Quiet'
    BY <2>1, <2>2, <2>3 DEF Inv, Types, Quiet
  <2>5. Running' = Running
    BY <2>2 DEF Running
  <2> QED BY <2>2, <2>3, <2>4, <2>5, NoCallChanges DEF Inv
<1> QED BY <1>1, <1>2

(* No record says "running" in a process that has just started or ended.     *)
LEMMA FreshKeeps ==
  ASSUME Types', Quiet', Running' = {}, tasks' = <<>>, runs' = {}
  PROVE  Inv'
<1>1. Submitted' = {} /\ Executed' = {}
  BY DEF Submitted, Executed
<1>2. OneRunPerDownload'
  BY <1>1 DEF OneRunPerDownload
<1>3. IsFiniteSet(Running') /\ Cardinality(Running') = 0
  BY FS_EmptySet
<1> QED BY <1>2, <1>3, QueueAssumption DEF Inv, FewRun, AtMostMaxConcurrent

LEMMA ProcessKeeps ==
  ASSUME Inv, Exit \/ Restart
  PROVE  Inv'
<1>0. Absent \in Downloads /\ Absent.state = "absent"
  BY RecordTyped DEF Absent, Errors
<1>1. CASE Exit
  <2>1. /\ phase' = "off" /\ scheduler' = FALSE /\ dl' = [d \in Ids |-> Absent]
        /\ tasks' = <<>> /\ runs' = {} /\ UNCHANGED <<disk, failures>>
    BY <1>1 DEF Exit
  <2>2. dl' \in [Ids -> Downloads] /\ \A d \in Ids : dl'[d] = Absent
    BY <1>0, <2>1
  <2>3. <<>> \in Seq(Ids) /\ {} \subseteq Runs
    BY EmptySeq
  <2>4. Types'
    BY <2>1, <2>2, <2>3 DEF Inv, Types
  <2>5. Quiet'
    BY <2>1 DEF Quiet
  <2>6. Running' = {}
    BY <1>0, <2>2 DEF Running
  <2> QED BY <2>1, <2>4, <2>5, <2>6, FreshKeeps
<1>2. CASE Restart
  <2>1. /\ phase = "off" /\ phase' = "up" /\ scheduler' = TRUE
        /\ dl' = [d \in Ids |-> IF OnDisk(d) THEN Loaded(disk.entry[d]) ELSE Absent]
        /\ UNCHANGED <<tasks, runs, disk, failures>>
    BY <1>2 DEF Restart, bounds
  <2>2. tasks = <<>> /\ runs = {}
    BY <2>1 DEF Inv, Quiet
  <2>3. \A d \in Ids : OnDisk(d) =>
          Loaded(disk.entry[d]) \in Downloads /\ Loaded(disk.entry[d]).state # "running"
    <3> SUFFICES ASSUME NEW d \in Ids, OnDisk(d)
                 PROVE  Loaded(disk.entry[d]) \in Downloads /\ Loaded(disk.entry[d]).state # "running"
      OBVIOUS
    <3> DEFINE e == disk.entry[d]
               state == IF e.state \in {"running", "paused"} THEN "queued" ELSE e.state
    <3>1. e \in Entries
      BY DEF OnDisk, Inv, Types
    <3>2. state \in States /\ state # "running" /\ e.named \in BOOLEAN /\ e.error \in Errors
      BY <3>1 DEF Entries, States
    <3>3. Loaded(e) = Record(state, e.named, e.error)
      BY DEF Loaded
    <3> HIDE DEF e, state
    <3>4. Loaded(e) \in Downloads /\ Loaded(e).state = state
      BY <3>2, <3>3, RecordTyped
    <3> QED BY <3>2, <3>4 DEF e
  <2>4. \A d \in Ids : dl'[d] \in Downloads /\ dl'[d].state # "running"
    BY <1>0, <2>1, <2>3
  <2>5. Types' /\ Quiet'
    BY <2>1, <2>2, <2>4 DEF Inv, Types, Quiet
  <2>6. Running' = {}
    BY <2>4 DEF Running
  <2> QED BY <2>1, <2>2, <2>5, <2>6, FreshKeeps
<1> QED BY <1>1, <1>2

-----------------------------------------------------------------------------

LEMMA InvInit == Init => Inv
<1> SUFFICES ASSUME Init PROVE Inv
  OBVIOUS
<1>0. Absent \in Downloads /\ Absent.state = "absent"
  BY RecordTyped DEF Absent, Errors
<1>1. DOMAIN disk.entry = {} /\ disk.entry \in [{} -> Entries]
  BY DEF Init
<1>2. Types /\ Quiet
  BY <1>0, <1>1 DEF Init, Types, Quiet
<1>3. Running = {} /\ Submitted = {} /\ Executed = {}
  BY <1>0 DEF Init, Running, Submitted, Executed
<1>4. IsFiniteSet(Running) /\ Cardinality(Running) = 0
  BY <1>3, FS_EmptySet
<1>5. OneRunPerDownload
  BY <1>3 DEF Init, OneRunPerDownload
<1> QED BY <1>2, <1>4, <1>5, QueueAssumption DEF Inv, FewRun, AtMostMaxConcurrent

LEMMA InvStep == Inv /\ [Next]_vars => Inv'
<1> SUFFICES ASSUME Inv, [Next]_vars PROVE Inv'
  OBVIOUS
<1>1. CASE Next
  BY <1>1, Requests, ScheduleKeeps, StartKeeps, RunStepKeeps, ShutdownKeeps, ProcessKeeps DEF Next
<1>2. CASE UNCHANGED vars
  <2>1. UNCHANGED <<dl, tasks, runs, scheduler, phase, disk, failures>>
    BY <1>2 DEF vars, bounds
  <2>2. Types' /\ Quiet' /\ Running' = Running
    BY <2>1 DEF Inv, Types, Quiet, Running
  <2> QED BY <2>1, <2>2, NoCallChanges DEF Inv
<1> QED BY <1>1, <1>2

(* However requests, ends of calls, demotions, failing writes, stops, kills  *)
(* and restarts interleave, a download has one call of engine.download()     *)
(* (service.py:252-264), and every record that says "running" has one unless *)
(* the scheduler died over a failed write.                                   *)
THEOREM OneCallEach == Spec => []OneRunPerDownload
<1>1. Inv => OneRunPerDownload
  BY DEF Inv
<1> QED BY <1>1, InvInit, InvStep, PTL DEF Spec

(* Never more than max_concurrent downloads are running (README.md:90-91).   *)
THEOREM LimitKept == Spec => []AtMostMaxConcurrent
<1>1. Inv => AtMostMaxConcurrent
  BY DEF Inv, FewRun
<1> QED BY <1>1, InvInit, InvStep, PTL DEF Spec

-----------------------------------------------------------------------------
(* What is counted, and the last request of each download. *)

Requested == {"none", "add", "pause", "resume", "rebind", "cancel"}

Bounded ==
  /\ caps \subseteq Hosts /\ asked \in [Ids -> Requested]
  /\ calls \in 0..MaxCalls /\ stops \in 0..MaxStops
  /\ crashes \in 0..MaxCrashes /\ failures \in 0..MaxFailures

LEMMA FailuresBounded ==
  ASSUME failures \in 0..MaxFailures, NEW recs, NEW ids,
         Write(recs, ids) \/ \E ok \in BOOLEAN : Persist(recs, ids, ok)
  PROVE  failures' \in 0..MaxFailures
<1>1. PICK ok \in BOOLEAN : Persist(recs, ids, ok)
  BY DEF Write
<1> QED BY <1>1, QueueAssumption DEF Persist

LEMMA RequestBounded ==
  ASSUME Bounded, NEW d \in Ids, Add(d) \/ Pause(d) \/ Resume(d) \/ Rebind(d) \/ Cancel(d)
  PROVE  Bounded'
<1>1. /\ UNCHANGED <<caps, stops, crashes>>
      /\ \E what \in Requested : asked' = [asked EXCEPT ![d] = what]
      /\ calls' = calls \/ (calls < MaxCalls /\ calls' = calls + 1)
  BY DEF Add, Pause, Resume, Rebind, Cancel, Accept, Requested
<1>2. failures' = failures \/ \E recs, ids : Write(recs, ids)
  BY DEF Add, Pause, Resume, Rebind, Cancel, Tell
<1>3. failures' \in 0..MaxFailures
  BY <1>2, FailuresBounded DEF Bounded
<1>4. calls' \in 0..MaxCalls
  BY <1>1, QueueAssumption DEF Bounded
<1> QED BY <1>1, <1>3, <1>4 DEF Bounded

LEMMA RunStepBounded ==
  ASSUME Types, Bounded, NEW r \in runs, RunStep(r)
  PROVE  Bounded'
<1>1. HostOf[r.id] \in Hosts
  BY QueueAssumption DEF Types, Runs
<1>2. caps' = caps \/ caps' = caps \cup {HostOf[r.id]}
  BY DEF RunStep, Probed, Done, FailsForGood, Fails, Stopped, ReadMode, OnCancelled
<1>3. UNCHANGED <<asked, calls, stops, crashes>>
  BY DEF RunStep, Probed, Done, FailsForGood, Fails, Stopped, ReadMode, OnCancelled, Leave, bounds
<1>4. failures' = failures \/ \E recs, ids : Write(recs, ids) \/ \E ok \in BOOLEAN : Persist(recs, ids, ok)
  BY DEF RunStep, Probed, Done, FailsForGood, Fails, Stopped, ReadMode, OnCancelled, Leave, bounds
<1>5. failures' \in 0..MaxFailures
  BY <1>4, FailuresBounded DEF Bounded
<1> QED BY <1>1, <1>2, <1>3, <1>5 DEF Bounded

LEMMA BoundedStep ==
  ASSUME Types, Bounded, [Next]_vars
  PROVE  Bounded'
<1>1. CASE \E d \in Ids : Add(d) \/ Pause(d) \/ Resume(d) \/ Rebind(d) \/ Cancel(d)
  BY <1>1, RequestBounded
<1>2. CASE \E r \in runs : RunStep(r)
  BY <1>2, RunStepBounded
<1>3. CASE Schedule \/ ShutdownEnds
  <2>1. UNCHANGED <<caps, asked, calls, stops, crashes>>
    BY <1>3 DEF Schedule, ShutdownEnds
  <2>2. \E recs, ids : \E ok \in BOOLEAN : Persist(recs, ids, ok)
    BY <1>3 DEF Schedule, ShutdownEnds
  <2>3. failures' \in 0..MaxFailures
    BY <2>2, FailuresBounded DEF Bounded
  <2> QED BY <2>1, <2>3 DEF Bounded
<1>4. CASE Start \/ Restart \/ UNCHANGED vars
  BY <1>4 DEF Start, Restart, vars, bounds, Bounded
<1>5. CASE Shutdown
  <2>1. stops' = stops + 1 /\ stops < MaxStops
    BY <1>5 DEF Shutdown
  <2>2. stops' \in 0..MaxStops
    BY <2>1, QueueAssumption DEF Bounded
  <2> QED BY <1>5, <2>2 DEF Shutdown, Bounded
<1>6. CASE Exit
  <2>1. crashes' = crashes \/ (crashes < MaxCrashes /\ crashes' = crashes + 1)
    BY <1>6 DEF Exit
  <2>2. crashes' \in 0..MaxCrashes
    BY <2>1, QueueAssumption DEF Bounded
  <2> QED BY <1>6, <2>2 DEF Exit, Bounded
<1> QED BY <1>1, <1>2, <1>3, <1>4, <1>5, <1>6 DEF Next

-----------------------------------------------------------------------------
(* The row the downloads stand in. *)

(* The file's list is a row when the dict is, and active ones keep theirs.   *)
LEMMA SavedPairs ==
  ASSUME NEW recs \in [Ids -> Downloads], NEW ids
  PROVE  LET file == Saved(recs, ids)
             kept == DOMAIN file.entry IN
         /\ kept \subseteq {d \in Ids : recs[d].state # "absent"}
         /\ file.order \subseteq kept \X kept
         /\ \A d, e \in kept :
              <<d, e>> \in file.order <=>
                \/ ~Ended(recs, d) /\ Ended(recs, e)
                \/ <<d, e>> \in ids /\ (Ended(recs, d) <=> Ended(recs, e))
<1> DEFINE kept == Keep(recs, ids)
           before == {p \in kept \X kept :
                        \/ ~Ended(recs, p[1]) /\ Ended(recs, p[2])
                        \/ p \in ids /\ (Ended(recs, p[1]) <=> Ended(recs, p[2]))}
<1>1. kept \subseteq {d \in Ids : recs[d].state # "absent"}
  BY DEF Keep
<1>2. DOMAIN Saved(recs, ids).entry = kept /\ Saved(recs, ids).order = before
  BY DEF Saved
<1> HIDE DEF kept
<1>3. \A d, e \in kept :
        <<d, e>> \in before <=>
          \/ ~Ended(recs, d) /\ Ended(recs, e)
          \/ <<d, e>> \in ids /\ (Ended(recs, d) <=> Ended(recs, e))
  OBVIOUS
<1> QED BY <1>1, <1>2, <1>3

LEMMA SavedInARow ==
  ASSUME NEW recs \in [Ids -> Downloads], NEW ids,
         Orders(ids, {d \in Ids : recs[d].state # "absent"})
  PROVE  Orders(Saved(recs, ids).order, DOMAIN Saved(recs, ids).entry)
<1> DEFINE known == {d \in Ids : recs[d].state # "absent"}
           kept == DOMAIN Saved(recs, ids).entry
           before == Saved(recs, ids).order
           end(d) == Ended(recs, d)
<1>1. /\ kept \subseteq known /\ before \subseteq kept \X kept
      /\ \A d, e \in kept :
           <<d, e>> \in before <=>
             (~end(d) /\ end(e)) \/ (<<d, e>> \in ids /\ (end(d) <=> end(e)))
  BY SavedPairs
<1>2. /\ \A d \in kept : <<d, d>> \notin ids
      /\ \A d, e, f \in kept : <<d, e>> \in ids /\ <<e, f>> \in ids => <<d, f>> \in ids
      /\ \A d, e \in kept : d = e \/ <<d, e>> \in ids \/ <<e, d>> \in ids
  BY <1>1 DEF Orders
<1> HIDE DEF known, kept, before, end
<1>3. \A d \in kept : <<d, d>> \notin before
  BY <1>1, <1>2
<1>4. ASSUME NEW d \in kept, NEW e \in kept, NEW f \in kept,
             <<d, e>> \in before, <<e, f>> \in before
      PROVE  <<d, f>> \in before
  BY <1>1, <1>2, <1>4
<1>5. \A d, e \in kept : d = e \/ <<d, e>> \in before \/ <<e, d>> \in before
  BY <1>1, <1>2
<1>6. Orders(before, kept)
  BY <1>1, <1>3, <1>4, <1>5 DEF Orders
<1> QED BY <1>6 DEF before, kept

(* What is added stands last. *)
LEMMA AppendedInARow ==
  ASSUME NEW before, NEW S, Orders(before, S), NEW d, d \notin S
  PROVE  Orders(before \cup (S \X {d}), S \cup {d})
<1> DEFINE T == S \cup {d}
           after == before \cup (S \X {d})
<1>1. /\ after \subseteq T \X T
      /\ \A x, y : <<x, y>> \in after <=> <<x, y>> \in before \/ (x \in S /\ y = d)
      /\ \A x, y : <<x, y>> \in before => x \in S /\ y \in S
  BY DEF Orders
<1> HIDE DEF after
<1>2. \A x \in T : <<x, x>> \notin after
  BY <1>1 DEF Orders
<1>3. ASSUME NEW x \in T, NEW y \in T, NEW z \in T, <<x, y>> \in after, <<y, z>> \in after
      PROVE  <<x, z>> \in after
  BY <1>1, <1>3 DEF Orders
<1>4. \A x, y \in T : x = y \/ <<x, y>> \in after \/ <<y, x>> \in after
  BY <1>1 DEF Orders
<1>5. Orders(after, T)
  BY <1>1, <1>2, <1>3, <1>4 DEF Orders
<1> QED BY <1>5 DEF after

-----------------------------------------------------------------------------
(* A download nobody has touched stands before all that were added after it, *)
(* in the dict and in the file.                                              *)

Pending == {"queued", "running", "paused"}

Rows == Orders(order, Known) /\ Orders(disk.order, DOMAIN disk.entry)

(* The downloads are added in the order of their numbers, each once. *)
AddedInTurn ==
  /\ \A d \in Known \cup DOMAIN disk.entry : asked[d] # "none"
  /\ \A d, e \in Ids : e < d /\ asked[d] # "none" => asked[e] # "none"

InTurn ==
  /\ \A d, e \in Known :
       dl[e].state \in Pending /\ asked[e] = "add" /\ e < d => <<e, d>> \in order
  /\ \A d, e \in DOMAIN disk.entry :
       disk.entry[e].state \in Pending /\ asked[e] = "add" /\ e < d => <<e, d>> \in disk.order

RowInv == Inv /\ Bounded /\ Rows /\ AddedInTurn /\ InTurn

(* What every step does to the dict but one that adds a download, ends the   *)
(* process or starts it: no download comes, goes or moves, none that nobody  *)
(* touches comes back, and the first one queued is started.                  *)
Stays ==
  /\ dl' \in [Ids -> Downloads] /\ order' = order
  /\ disk' = disk \/ disk' = Saved(dl', order)
  /\ \A e \in Ids :
       /\ dl'[e].state = "absent" <=> dl[e].state = "absent"
       /\ asked'[e] = "none" <=> asked[e] = "none"
       /\ asked'[e] = "add" => asked[e] = "add"
       /\ asked'[e] = "add" /\ dl'[e].state \in Pending => dl[e].state \in Pending
       /\ dl'[e].state = "running" => dl[e].state = "running" \/ FirstQueued(e)

LEMMA StaysKeeps ==
  ASSUME RowInv, Inv', Bounded', Stays
  PROVE  RowInv'
<1>0. Types /\ Types'
  BY DEF RowInv, Inv
<1>1. Known' = Known
  BY DEF Stays, Known
<1>2. CASE disk' = disk
  <2>1. Rows'
    BY <1>1, <1>2 DEF RowInv, Rows, Stays
  <2>2. AddedInTurn'
    BY <1>0, <1>1, <1>2 DEF RowInv, AddedInTurn, Stays, Known, Types
  <2>3. InTurn'
    BY <1>0, <1>1, <1>2 DEF RowInv, InTurn, Stays, Known, Types
  <2> QED BY <2>1, <2>2, <2>3 DEF RowInv
<1>3. CASE disk' = Saved(dl', order)
  <2>1. Known' = {d \in Ids : dl'[d].state # "absent"}
    BY DEF Known
  <2>2. Orders(order, Known')
    BY <1>1 DEF RowInv, Rows
  <2>3. Orders(disk'.order, DOMAIN disk'.entry)
    BY <1>3, <2>1, <2>2, SavedInARow DEF Stays
  <2>4. Rows'
    BY <2>2, <2>3 DEF Rows, Stays
  <2>5. DOMAIN disk'.entry \subseteq Known'
    BY <1>3, <2>1, SavedPairs DEF Stays
  <2>6. AddedInTurn'
    BY <1>1, <2>5 DEF RowInv, AddedInTurn, Stays, Known
  <2>7. \A d, e \in Known' :
          dl'[e].state \in Pending /\ asked'[e] = "add" /\ e < d => <<e, d>> \in order
    BY <1>1 DEF RowInv, InTurn, Stays, Known
  <2>8. ASSUME NEW d \in DOMAIN disk'.entry, NEW e \in DOMAIN disk'.entry,
               disk'.entry[e].state \in Pending, asked'[e] = "add", e < d
        PROVE  <<e, d>> \in disk'.order
    <3>1. /\ d \in Known' /\ e \in Ids /\ dl'[e].state = disk'.entry[e].state
      BY <1>3, <2>5, SavedEntries DEF Stays
    <3>2. <<e, d>> \in order /\ ~Ended(dl', e)
      BY <2>7, <2>8, <3>1 DEF Known, Ended, Terminal, Pending
    <3> QED BY <1>3, <3>2, SavedPairs DEF Stays
  <2>9. InTurn'
    BY <2>7, <2>8 DEF InTurn, Stays
  <2> QED BY <2>4, <2>6, <2>9 DEF RowInv
<1> QED BY <1>2, <1>3 DEF Stays

(* One record changes, at most. *)
LEMMA RecordStays ==
  ASSUME Types, NEW d \in Ids, NEW rec \in Downloads,
         rec.state # "absent", dl[d].state # "absent",
         dl' = [dl EXCEPT ![d] = rec], order' = order,
         disk' = disk \/ disk' = Saved(dl', order),
         \A e \in Ids : asked'[e] = "none" <=> asked[e] = "none",
         \A e \in Ids : asked'[e] = "add" => asked[e] = "add",
         asked'[d] = "add" /\ rec.state \in Pending => dl[d].state \in Pending,
         rec.state = "running" => dl[d].state = "running" \/ FirstQueued(d)
  PROVE  Stays
<1>1. dl' \in [Ids -> Downloads] /\ dl'[d] = rec /\ \A e \in Ids \ {d} : dl'[e] = dl[e]
  BY Restated DEF Types
<1> SUFFICES ASSUME NEW e \in Ids
             PROVE  /\ dl'[e].state = "absent" <=> dl[e].state = "absent"
                    /\ asked'[e] = "add" /\ dl'[e].state \in Pending => dl[e].state \in Pending
                    /\ dl'[e].state = "running" => dl[e].state = "running" \/ FirstQueued(e)
  BY <1>1 DEF Stays
<1>2. CASE e = d
  BY <1>1, <1>2
<1>3. CASE e # d
  BY <1>1, <1>3
<1> QED BY <1>2, <1>3

LEMMA WriteSaves ==
  ASSUME NEW recs, NEW ids, Write(recs, ids) \/ \E ok \in BOOLEAN : Persist(recs, ids, ok)
  PROVE  dl' = recs /\ order' = ids /\ (disk' = disk \/ disk' = Saved(recs, ids))
BY DEF Write, Persist

(* A request other than to add a download. *)
LEMMA RequestStays ==
  ASSUME RowInv, NEW d \in Ids, Pause(d) \/ Resume(d) \/ Rebind(d) \/ Cancel(d)
  PROVE  Stays
<1>1. Types /\ dl \in [Ids -> Downloads] /\ dl[d] \in Downloads /\ asked \in [Ids -> Requested]
  BY DEF RowInv, Inv, Types, Bounded
<1>2. dl[d].state # "absent"
  BY DEF Pause, Resume, Rebind, Cancel, Tell
<1>3. asked[d] # "none"
  BY <1>2 DEF RowInv, AddedInTurn, Known
<1>4. PICK what \in {"pause", "resume", "rebind", "cancel"} : asked' = [asked EXCEPT ![d] = what]
  BY DEF Pause, Resume, Rebind, Cancel, Accept
<1>5. /\ \A e \in Ids : asked'[e] = "none" <=> asked[e] = "none"
      /\ \A e \in Ids : asked'[e] = "add" => asked[e] = "add"
      /\ asked'[d] # "add"
  BY <1>1, <1>3, <1>4
<1>6. CASE Tell("pause", d) \/ Tell("cancel", d)
  <2>1. PICK mode \in {"pause", "cancel"} : Tell(mode, d)
    BY <1>6
  <2> DEFINE rec == [dl[d] EXCEPT !.mode = mode, !.ev = TRUE]
  <2>2. rec \in Downloads /\ rec.state = dl[d].state
    BY <1>1 DEF Downloads
  <2>3. dl' = [dl EXCEPT ![d] = rec] /\ order' = order /\ disk' = disk
    BY <1>1, <2>1 DEF Tell
  <2> HIDE DEF rec
  <2> QED BY <1>1, <1>2, <1>5, <2>2, <2>3, RecordStays
<1>7. ASSUME NEW rec \in Downloads, rec.state \in {"queued", "paused", "cancelled"},
             Write([dl EXCEPT ![d] = rec], order)
      PROVE  Stays
  <2>1. /\ dl' = [dl EXCEPT ![d] = rec] /\ order' = order
        /\ disk' = disk \/ disk' = Saved(dl', order)
    BY <1>7, WriteSaves
  <2> QED BY <1>1, <1>2, <1>5, <1>7, <2>1, RecordStays
<1>8. CASE Write([dl EXCEPT ![d].state = "paused"], order)
  <2> DEFINE rec == [dl[d] EXCEPT !.state = "paused"]
  <2>1. rec \in Downloads /\ rec.state = "paused" /\ [dl EXCEPT ![d].state = "paused"] = [dl EXCEPT ![d] = rec]
    BY <1>1 DEF Downloads, States
  <2> HIDE DEF rec
  <2> QED BY <1>7, <1>8, <2>1
<1>9. CASE Write([dl EXCEPT ![d].state = "cancelled"], order)
  <2> DEFINE rec == [dl[d] EXCEPT !.state = "cancelled"]
  <2>1. rec \in Downloads /\ rec.state = "cancelled" /\ [dl EXCEPT ![d].state = "cancelled"] = [dl EXCEPT ![d] = rec]
    BY <1>1 DEF Downloads, States, Terminal
  <2> HIDE DEF rec
  <2> QED BY <1>7, <1>9, <2>1
<1>10. CASE Write(Requeued(d), order)
  <2> DEFINE rec == Record("queued", dl[d].named, "none")
  <2>1. rec \in Downloads /\ rec.state = "queued"
    BY <1>1, RecordTyped DEF Downloads, States, Errors
  <2>2. Write([dl EXCEPT ![d] = rec], order)
    BY <1>10 DEF Requeued
  <2> HIDE DEF rec
  <2> QED BY <1>7, <2>1, <2>2
<1> QED BY <1>6, <1>8, <1>9, <1>10 DEF Pause, Resume, Rebind, Cancel

LEMMA ScheduleStays ==
  ASSUME RowInv, Schedule
  PROVE  Stays
<1>1. PICK d \in Ids, ok \in BOOLEAN :
        FirstQueued(d) /\ Persist([dl EXCEPT ![d].state = "running"], order, ok)
  BY DEF Schedule
<1>2. Types /\ dl[d] \in Downloads /\ dl[d].state = "queued" /\ asked' = asked
  BY <1>1 DEF RowInv, Inv, Types, Schedule, FirstQueued, IsQueued
<1> DEFINE rec == [dl[d] EXCEPT !.state = "running"]
<1>3. rec \in Downloads /\ rec.state = "running" /\ [dl EXCEPT ![d].state = "running"] = [dl EXCEPT ![d] = rec]
  BY <1>2 DEF Types, Downloads, States
<1> HIDE DEF rec
<1>4. /\ dl' = [dl EXCEPT ![d] = rec] /\ order' = order
      /\ disk' = disk \/ disk' = Saved(dl', order)
  BY <1>1, <1>3, WriteSaves
<1>5. dl[d].state \in Pending
  BY <1>2 DEF Pending
<1> QED BY <1>1, <1>2, <1>3, <1>4, <1>5, RecordStays

(* A call goes on or ends: its download was running. *)
LEMMA RunStepStays ==
  ASSUME RowInv, NEW r \in runs, RunStep(r)
  PROVE  Stays
<1> DEFINE d == r.id
<1>1. Types /\ dl \in [Ids -> Downloads] /\ d \in Ids /\ dl[d] \in Downloads
  BY DEF RowInv, Inv, Types, Runs
<1>2. dl[d].state = "running"
  BY <1>1 DEF RowInv, Inv, OneRunPerDownload, Executed, Running
<1>3. asked' = asked
  BY DEF RunStep, Probed, Done, FailsForGood, Fails, Stopped, ReadMode, OnCancelled, Leave, bounds
<1> HIDE DEF d
<1>4. ASSUME NEW rec \in Downloads, rec.state # "absent",
             \/ Write([dl EXCEPT ![d] = rec], order)
             \/ \E ok \in BOOLEAN : Persist([dl EXCEPT ![d] = rec], order, ok)
      PROVE  Stays
  <2> DEFINE recs == [dl EXCEPT ![d] = rec]
  <2>0. Write(recs, order) \/ \E ok \in BOOLEAN : Persist(recs, order, ok)
    BY <1>4
  <2> HIDE DEF recs
  <2>1. dl' = recs /\ order' = order /\ (disk' = disk \/ disk' = Saved(recs, order))
    BY <2>0, WriteSaves
  <2> USE DEF recs
  <2>2. dl[d].state \in Pending
    BY <1>2 DEF Pending
  <2> QED BY <1>1, <1>2, <1>3, <1>4, <2>1, <2>2, RecordStays
<1>5. CASE Probed(r)
  <2> DEFINE rec == [dl[d] EXCEPT !.named = TRUE]
  <2>1. rec \in Downloads /\ rec.state = dl[d].state /\ [dl EXCEPT ![d].named = TRUE] = [dl EXCEPT ![d] = rec]
    BY <1>1 DEF Downloads
  <2>2. \E ok \in BOOLEAN : Persist([dl EXCEPT ![d].named = TRUE], order, ok)
    BY <1>5 DEF Probed, d
  <2> HIDE DEF rec
  <2> QED BY <1>2, <1>4, <2>1, <2>2
<1>6. ASSUME NEW rec \in Downloads, rec.state # "absent", Leave(r, rec) PROVE Stays
  BY <1>4, <1>6 DEF Leave, d
<1>7. CASE Done(r)
  <2> DEFINE rec == [dl[d] EXCEPT !.state = "done", !.named = TRUE]
  <2>1. rec \in Downloads /\ rec.state # "absent"
    BY <1>1 DEF Downloads, States, Terminal
  <2>2. Leave(r, rec)
    BY <1>7 DEF Done, d
  <2> QED BY <1>6, <2>1, <2>2
<1>8. CASE FailsForGood(r)
  <2> DEFINE rec == [dl[d] EXCEPT !.state = "error", !.error = "final"]
  <2>1. rec \in Downloads /\ rec.state # "absent"
    BY <1>1 DEF Downloads, States, Terminal, Errors
  <2>2. Leave(r, rec)
    BY <1>8 DEF FailsForGood, d
  <2> QED BY <1>6, <2>1, <2>2
<1>9. CASE Fails(r)
  <2> DEFINE again == [dl[d] EXCEPT !.state = "queued", !.demoted = TRUE]
             rec == [dl[d] EXCEPT !.state = "error", !.error = "transient"]
  <2>1. again \in Downloads /\ again.state # "absent"
    BY <1>1 DEF Downloads, States
  <2>2. rec \in Downloads /\ rec.state # "absent"
    BY <1>1 DEF Downloads, States, Terminal, Errors
  <2>3. Leave(r, again) \/ Leave(r, rec)
    BY <1>9 DEF Fails, d
  <2> HIDE DEF again, rec
  <2> QED BY <1>6, <2>1, <2>2, <2>3
<1>10. CASE OnCancelled(r)
  <2> DEFINE gone == [dl[d] EXCEPT !.state = "cancelled", !.mode = "none"]
             kept == [dl[d] EXCEPT !.state = "paused", !.mode = "none", !.ev = FALSE]
  <2>1. gone \in Downloads /\ gone.state # "absent"
    BY <1>1 DEF Downloads, States, Terminal
  <2>2. kept \in Downloads /\ kept.state # "absent"
    BY <1>1 DEF Downloads, States
  <2>3. Leave(r, gone) \/ Leave(r, kept)
    BY <1>10 DEF OnCancelled, d
  <2> HIDE DEF gone, kept
  <2> QED BY <1>6, <2>1, <2>2, <2>3
<1>11. CASE Stopped(r) \/ ReadMode(r)
  BY <1>1, <1>11 DEF Stopped, ReadMode, bounds, Stays
<1> QED BY <1>5, <1>7, <1>8, <1>9, <1>10, <1>11 DEF RunStep

LEMMA OthersStay ==
  ASSUME RowInv, Start \/ Shutdown \/ ShutdownEnds \/ UNCHANGED vars
  PROVE  Stays
<1>1. Types /\ dl \in [Ids -> Downloads]
  BY DEF RowInv, Inv, Types
<1>2. CASE Start \/ UNCHANGED vars
  BY <1>1, <1>2 DEF Start, vars, bounds, Stays
<1>3. CASE Shutdown
  <2>1. /\ \A d \in Ids : dl'[d] \in Downloads /\ dl'[d].state = dl[d].state
        /\ dl' = [d \in Ids |-> dl'[d]]
    BY <1>1, <1>3 DEF Shutdown, Downloads
  <2>2. order' = order /\ disk' = disk /\ asked' = asked
    BY <1>3 DEF Shutdown
  <2> QED BY <2>1, <2>2 DEF Stays
<1>4. CASE ShutdownEnds
  <2>1. \E ok \in BOOLEAN : Persist(dl, order, ok)
    BY <1>4 DEF ShutdownEnds
  <2>2. dl' = dl /\ order' = order /\ (disk' = disk \/ disk' = Saved(dl, order))
    BY <2>1, WriteSaves
  <2>3. asked' = asked
    BY <1>4 DEF ShutdownEnds
  <2> QED BY <1>1, <2>2, <2>3 DEF Stays
<1> QED BY <1>2, <1>3, <1>4

(* The three steps that change which downloads are known. *)
LEMMA AddKeepsRows ==
  ASSUME RowInv, Inv', Bounded', NEW d \in Ids, Add(d)
  PROVE  RowInv'
<1> DEFINE rec == Record("queued", FALSE, "none")
           recs == [dl EXCEPT ![d] = rec]
           row == order \cup (Known \X {d})
<1>1. /\ Types /\ Known \subseteq Ids /\ DOMAIN disk.entry \subseteq Ids /\ Ids \subseteq Nat
      /\ asked \in [Ids -> Requested]
  BY QueueAssumption DEF RowInv, Inv, Types, Bounded, Known
<1>2. /\ dl[d].state = "absent" /\ asked[d] = "none" /\ Write(recs, row)
      /\ asked' = [asked EXCEPT ![d] = "add"]
      /\ \A e \in Ids : e < d => dl[e].state # "absent" \/ asked[e] # "none"
  BY DEF Add
<1>3. rec \in Downloads /\ rec.state = "queued"
  BY RecordTyped DEF States, Errors
<1>4. recs \in [Ids -> Downloads] /\ recs[d] = rec /\ \A e \in Ids \ {d} : recs[e] = dl[e]
  BY <1>1, <1>3, Restated DEF Types
<1> HIDE DEF rec, recs, row
<1>5. dl' = recs /\ order' = row /\ (disk' = disk \/ disk' = Saved(recs, row))
  BY <1>2, WriteSaves
<1>6. Known' = Known \cup {d} /\ d \notin Known
  BY <1>2, <1>3, <1>4, <1>5 DEF Known
<1>7. Known' = {e \in Ids : recs[e].state # "absent"}
  BY <1>5 DEF Known
<1>8. Orders(row, Known')
  BY <1>6, AppendedInARow DEF RowInv, Rows, row
<1>9. Orders(disk'.order, DOMAIN disk'.entry) /\ DOMAIN disk'.entry \subseteq Known' \cup DOMAIN disk.entry
  <2>1. CASE disk' = disk
    BY <2>1 DEF RowInv, Rows
  <2>2. CASE disk' = Saved(recs, row)
    BY <1>4, <1>7, <1>8, <2>2, SavedInARow, SavedPairs
  <2> QED BY <1>5, <2>1, <2>2
<1>10. AddedInTurn'
  <2>1. \A e \in Ids : e < d => asked[e] # "none"
    BY <1>2 DEF RowInv, AddedInTurn, Known
  <2>2. \A e \in Known' \cup DOMAIN disk'.entry : asked'[e] # "none"
    BY <1>1, <1>2, <1>6, <1>9 DEF RowInv, AddedInTurn
  <2>3. \A x, e \in Ids : e < x /\ asked'[x] # "none" => asked'[e] # "none"
    BY <1>1, <1>2, <2>1 DEF RowInv, AddedInTurn
  <2> QED BY <2>2, <2>3 DEF AddedInTurn
<1>11. ASSUME NEW x \in Known', NEW e \in Known',
              recs[e].state \in Pending, asked'[e] = "add", e < x
       PROVE  <<e, x>> \in row
  <2>1. CASE x = d
    BY <1>1, <1>6, <1>11, <2>1 DEF row
  <2>2. CASE x # d /\ e = d
    BY <1>1, <1>2, <1>6, <1>11, <2>2 DEF RowInv, AddedInTurn
  <2>3. CASE x # d /\ e # d
    BY <1>1, <1>2, <1>4, <1>6, <1>11, <2>3 DEF RowInv, InTurn, row
  <2> QED BY <2>1, <2>2, <2>3
<1>12. ASSUME NEW x \in DOMAIN disk'.entry, NEW e \in DOMAIN disk'.entry,
              disk'.entry[e].state \in Pending, asked'[e] = "add", e < x
       PROVE  <<e, x>> \in disk'.order
  <2>1. CASE disk' = disk
    <3>1. d \notin DOMAIN disk.entry
      BY <1>2 DEF RowInv, AddedInTurn
    <3> QED BY <1>1, <1>2, <1>12, <2>1, <3>1 DEF RowInv, InTurn
  <2>2. CASE disk' = Saved(recs, row)
    <3>1. x \in Known' /\ e \in Known' /\ recs[e].state = disk'.entry[e].state
      BY <1>4, <1>7, <1>12, <2>2, SavedEntries, SavedPairs
    <3>2. <<e, x>> \in row /\ ~Ended(recs, e)
      BY <1>11, <1>12, <3>1 DEF Ended, Terminal, Pending
    <3> QED BY <1>4, <1>12, <2>2, <3>2, SavedPairs
  <2> QED BY <1>5, <2>1, <2>2
<1>13. Rows' /\ InTurn'
  BY <1>5, <1>8, <1>9, <1>11, <1>12 DEF Rows, InTurn
<1> QED BY <1>10, <1>13 DEF RowInv

LEMMA ExitKeepsRows ==
  ASSUME RowInv, Inv', Bounded', Exit
  PROVE  RowInv'
<1>1. dl' = [d \in Ids |-> Absent] /\ order' = {} /\ disk' = disk /\ asked' = asked
  BY DEF Exit
<1>2. Absent.state = "absent"
  BY RecordTyped DEF Absent, Errors
<1>3. Known' = {}
  BY <1>1, <1>2 DEF Known
<1>4. Rows'
  BY <1>1, <1>3 DEF RowInv, Rows, Orders
<1>5. AddedInTurn' /\ InTurn'
  BY <1>1, <1>3 DEF RowInv, AddedInTurn, InTurn
<1> QED BY <1>4, <1>5 DEF RowInv

LEMMA RestartKeepsRows ==
  ASSUME RowInv, Inv', Bounded', Restart
  PROVE  RowInv'
<1>1. /\ dl' = [d \in Ids |-> IF OnDisk(d) THEN Loaded(disk.entry[d]) ELSE Absent]
      /\ order' = disk.order /\ disk' = disk /\ asked' = asked
  BY DEF Restart, bounds
<1>2. DOMAIN disk.entry \subseteq Ids /\ \A d \in DOMAIN disk.entry : disk.entry[d] \in Entries
  BY DEF RowInv, Inv, Types
<1>3. Absent.state = "absent"
  BY RecordTyped DEF Absent, Errors
<1>4. ASSUME NEW d \in DOMAIN disk.entry
      PROVE  /\ dl'[d].state # "absent"
             /\ dl'[d].state \in Pending => disk.entry[d].state \in Pending
  <2>1. dl'[d] = Loaded(disk.entry[d]) /\ disk.entry[d].state \in States
    BY <1>1, <1>2 DEF OnDisk, Entries
  <2> QED BY <2>1 DEF Loaded, Record, Pending, States, Terminal
<1>5. Known' = DOMAIN disk.entry
  BY <1>1, <1>2, <1>3, <1>4 DEF Known, OnDisk
<1>6. Rows'
  BY <1>1, <1>5 DEF RowInv, Rows
<1>7. AddedInTurn' /\ InTurn'
  BY <1>1, <1>4, <1>5 DEF RowInv, AddedInTurn, InTurn
<1> QED BY <1>6, <1>7 DEF RowInv

-----------------------------------------------------------------------------

LEMMA RowInvInit == Init => RowInv
<1> SUFFICES ASSUME Init PROVE RowInv
  OBVIOUS
<1>1. Inv
  BY InvInit
<1>2. /\ dl = [d \in Ids |-> Absent] /\ order = {} /\ disk.order = {} /\ DOMAIN disk.entry = {}
      /\ asked = [d \in Ids |-> "none"]
  BY DEF Init
<1>3. Known = {}
  BY <1>2, RecordTyped DEF Known, Absent, Errors
<1>4. Bounded
  BY QueueAssumption DEF Init, Bounded, Requested
<1>5. Rows
  BY <1>2, <1>3 DEF Rows, Orders
<1>6. AddedInTurn /\ InTurn
  BY <1>2, <1>3 DEF AddedInTurn, InTurn
<1> QED BY <1>1, <1>4, <1>5, <1>6 DEF RowInv

(* Every step is one of the four kinds. *)
LEMMA StepKinds ==
  ASSUME RowInv, [Next]_vars
  PROVE  Stays \/ (\E d \in Ids : Add(d)) \/ Exit \/ Restart
BY RequestStays, ScheduleStays, RunStepStays, OthersStay DEF Next

LEMMA RowInvStep == RowInv /\ [Next]_vars => RowInv'
<1> SUFFICES ASSUME RowInv, [Next]_vars PROVE RowInv'
  OBVIOUS
<1>1. Inv' /\ Bounded'
  BY InvStep, BoundedStep DEF RowInv, Inv
<1> QED BY <1>1, StepKinds, StaysKeeps, AddKeepsRows, ExitKeepsRows, RestartKeepsRows

(* The queue's variables have their types; the dict and queue.json each hold *)
(* their downloads in one row, though a save prunes, sorts and may fail, and *)
(* a restart loads what an earlier save wrote (service.py:362-376, 184-206). *)
THEOREM Typed == Spec => []TypeOK
<1>1. RowInv => TypeOK
  BY DEF RowInv, Inv, Types, Bounded, Rows, Requested, TypeOK
<1> QED BY <1>1, RowInvInit, RowInvStep, PTL DEF Spec

(* A step starts no download while one waits that was added before it and    *)
(* that nobody has touched: first come, first served (README.md:91).         *)
LEMMA StartsTheFirst ==
  ASSUME RowInv, [Next]_vars, NEW d \in Ids, NEW e \in Ids,
         dl[d].state = "queued", dl'[d].state = "running",
         dl[e].state = "queued", asked[e] = "add"
  PROVE  d <= e
<1>1. Stays
  <2>1. CASE \E x \in Ids : Add(x)
    <3>1. PICK x \in Ids : Add(x)
      BY <2>1
    <3> DEFINE rec == Record("queued", FALSE, "none")
               recs == [dl EXCEPT ![x] = rec]
               row == order \cup (Known \X {x})
    <3>2. rec \in Downloads /\ rec.state = "queued"
      BY RecordTyped DEF States, Errors
    <3>3. recs[d].state = "queued"
      BY <3>2, Restated DEF RowInv, Inv, Types
    <3>4. Write(recs, row)
      BY <3>1 DEF Add
    <3> HIDE DEF recs, row
    <3>5. dl' = recs
      BY <3>4, WriteSaves
    <3> QED BY <3>3, <3>5
  <2>2. CASE Exit
    <3>1. dl'[d] = Absent
      BY <2>2 DEF Exit
    <3> QED BY <3>1 DEF Absent, Record
  <2>3. CASE Restart
    <3>1. dl'[d] = IF OnDisk(d) THEN Loaded(disk.entry[d]) ELSE Absent
      BY <2>3 DEF Restart
    <3>2. Absent.state = "absent" /\ \A x \in DOMAIN disk.entry : Loaded(disk.entry[x]).state # "running"
      BY DEF Absent, Loaded, Record
    <3> QED BY <3>1, <3>2 DEF OnDisk
  <2> QED BY <2>1, <2>2, <2>3, StepKinds
<1>2. FirstQueued(d)
  BY <1>1 DEF Stays
<1>3. <<e, d>> \notin order
  BY <1>2 DEF FirstQueued, IsQueued
<1>4. d \in Known /\ e \in Known /\ dl[e].state \in Pending
  BY DEF Known, Pending
<1>5. ~(e < d)
  BY <1>3, <1>4 DEF RowInv, InTurn
<1> QED BY <1>5, QueueAssumption

(* "The rest queue in FIFO order", over stops, kills, restarts, retries and  *)
(* writes that fail.                                                         *)
THEOREM FirstComeFirstServed == Spec => NotOvertaken
<1> DEFINE Turn == \A d, e \in Ids :
                     /\ dl[d].state = "queued" /\ dl'[d].state = "running"
                     /\ dl[e].state = "queued" /\ asked[e] = "add"
                     => d <= e
<1>1. RowInv /\ [Next]_vars => [Turn]_vars
  BY StartsTheFirst
<1>2. Spec => [][Turn]_vars
  BY <1>1, RowInvInit, RowInvStep, PTL DEF Spec
<1> QED BY <1>2 DEF NotOvertaken
=============================================================================
