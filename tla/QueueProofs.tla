----------------------------- MODULE QueueProofs -----------------------------
(* While queue.json can be written, the manager implements Queue and a       *)
(* graceful stop is clean, for every number of downloads, hosts, threads,    *)
(* requests, stops and kills.                                                *)
EXTENDS ManagerProofs

(* What the file says of a download is what the records say of it, but for   *)
(* what a restart mends; only ended downloads may be missing from it.        *)
Faithful ==
  Serving =>
    /\ \A d \in DOMAIN disk.entry :
         dl[d].state # "absent" /\ StageOf(disk.entry[d].state) = StageOf(dl[d].state)
    /\ \A d \in Ids : dl[d].state \in {"queued", "running", "paused"} => OnDisk(d)

(* A save brings the file up to date with the records.                       *)
LEMMA SavedFaithful ==
  ASSUME NEW recs \in [Ids -> Downloads], NEW ids, dl' = recs, disk' = Saved(recs, ids)
  PROVE  Faithful'
<1> DEFINE entry == disk'.entry
<1>1. /\ DOMAIN entry \subseteq Ids
      /\ \A d \in DOMAIN entry : recs[d].state # "absent" /\ entry[d].state = recs[d].state
      /\ \A d \in Ids : recs[d].state \in {"queued", "running", "paused"} => d \in DOMAIN entry
  BY SavedEntries
<1> QED BY <1>1 DEF Faithful, OnDisk, StageOf

(* Nothing fails to be written.                                              *)
LEMMA WrittenOut ==
  ASSUME MaxFailures = 0, failures \in Nat, NEW recs, NEW ids, NEW ok \in BOOLEAN,
         Persist(recs, ids, ok)
  PROVE  ok /\ dl' = recs /\ order' = ids /\ disk' = Saved(recs, ids) /\ failures' = failures
BY DEF Persist

(* A step of the process that restates no record keeps the file faithful.    *)
LEMMA SameStates ==
  ASSUME Faithful, \A d \in Ids : dl'[d].state = dl[d].state, UNCHANGED disk, Serving,
         DOMAIN disk.entry \subseteq Ids
  PROVE  Faithful'
BY DEF Faithful, OnDisk, StageOf

-----------------------------------------------------------------------------
(* What a step of a living process does to the records: nothing that a stage *)
(* shows, or a save of records of which one or none has changed its stage.   *)

(* The stage of d in records recs.                                           *)
StageIn(recs, d) == IF recs[d].state = "absent" THEN "unknown" ELSE StageOf(recs[d].state)

(* Queue lets a download go from one stage to the other.                     *)
Allowed(old, new) ==
  \/ new = old
  \/ old = "unknown" /\ new = "pending"
  \/ old = "pending" /\ new \in {"done", "error", "cancelled"}
  \/ old = "error" /\ new = "pending"

(* The step rewrites the record of d to rec and saves.                       *)
Rewrites(d, rec) ==
  /\ rec \in Downloads
  /\ dl' = [dl EXCEPT ![d] = rec] /\ disk' = Saved(dl', order')
  /\ Serving'
  /\ Allowed(StageIn(dl, d), StageIn(dl', d))

(* The step changes no record's state, whether it saves or not.              *)
Restates ==
  /\ dl' \in [Ids -> Downloads]
  /\ \A d \in Ids : dl'[d].state = dl[d].state
  /\ disk' = disk \/ disk' = Saved(dl', order')
  /\ Serving'

StageValue == {"unknown", "pending", "done", "error", "cancelled"}

LEMMA StageValues ==
  ASSUME dl \in [Ids -> Downloads], NEW d \in Ids
  PROVE  StageIn(dl, d) \in StageValue
BY DEF Downloads, States, Terminal, StageIn, StageOf, StageValue

LEMMA RewriteStep ==
  ASSUME Types, Serving, Types', NEW d \in Ids, NEW rec, Rewrites(d, rec)
  PROVE  Faithful' /\ [Promise!Next]_Stage
<1>1. dl' \in [Ids -> Downloads] /\ \A e \in Ids \ {d} : dl'[e] = dl[e]
  BY DEF Rewrites, Types
<1>2. Faithful'
  BY <1>1, SavedFaithful DEF Rewrites
<1>3. Serving'
  BY DEF Rewrites, Serving
<1>4. Stage = [e \in Ids |-> StageIn(dl, e)] /\ Stage' = [e \in Ids |-> StageIn(dl', e)]
  BY <1>3 DEF Stage, StageIn
<1> DEFINE old == StageIn(dl, d)
           new == StageIn(dl', d)
<1>5. \A e \in Ids \ {d} : StageIn(dl', e) = StageIn(dl, e)
  BY <1>1 DEF StageIn
<1>6. Allowed(old, new)
  BY DEF Rewrites
<1> HIDE DEF old, new
<1>7. Stage[d] = old /\ Stage' = [Stage EXCEPT ![d] = new]
  BY <1>4, <1>5 DEF old, new
<1>8. CASE new = old
  BY <1>2, <1>4, <1>5, <1>8 DEF old, new
<1>9. CASE new # old
  BY <1>2, <1>6, <1>7, <1>9
     DEF Allowed, Promise!Next, Promise!Accepted, Promise!Ended, Promise!Again, Promise!Ends
<1> QED BY <1>2, <1>8, <1>9

LEMMA RestateStep ==
  ASSUME Types, Faithful, Serving, Restates
  PROVE  Faithful' /\ [Promise!Next]_Stage
<1>1. Faithful'
  BY SameStates, SavedFaithful DEF Restates, Types
<1>2. Stage = [e \in Ids |-> StageIn(dl, e)] /\ Stage' = [e \in Ids |-> StageIn(dl', e)]
  BY DEF Stage, StageIn, Restates
<1>3. \A e \in Ids : StageIn(dl', e) = StageIn(dl, e)
  BY DEF StageIn, Restates
<1> QED BY <1>1, <1>2, <1>3

(* The records become [dl EXCEPT ![d] = rec] and are saved.                  *)
LEMMA WriteRewrites ==
  ASSUME MaxFailures = 0, Types, NEW d \in Ids, NEW rec \in Downloads, NEW ids,
         Write([dl EXCEPT ![d] = rec], ids), Serving',
         Allowed(StageIn(dl, d),
                 IF rec.state = "absent" THEN "unknown" ELSE StageOf(rec.state))
  PROVE  Rewrites(d, rec) /\ failures' = failures
<1> DEFINE recs == [dl EXCEPT ![d] = rec]
<1>1. recs[d] = rec
  BY Restated DEF Types
<1> HIDE DEF recs
<1>2. PICK ok \in BOOLEAN : Persist(recs, ids, ok)
  BY DEF Write, recs
<1>3. dl' = recs /\ order' = ids /\ disk' = Saved(recs, ids) /\ failures' = failures
  BY <1>2, WrittenOut DEF Types
<1>4. StageIn(dl', d) = IF rec.state = "absent" THEN "unknown" ELSE StageOf(rec.state)
  BY <1>1, <1>3 DEF StageIn
<1> QED BY <1>3, <1>4 DEF Rewrites, recs

-----------------------------------------------------------------------------
(* Every action of a living process, but its end. *)

(* Nothing has failed to be written.                                         *)
Healthy == Inv /\ Faithful /\ failures = 0

LEMMA TellRestates ==
  ASSUME Types, Serving, NEW d \in Ids, NEW mode \in {"pause", "cancel"}, Tell(mode, d), phase' = phase
  PROVE  Restates /\ failures' = failures
<1> DEFINE rec == [dl[d] EXCEPT !.mode = mode, !.ev = TRUE]
<1>1. rec \in Downloads /\ rec.state = dl[d].state
  BY DEF Types, Downloads
<1>2. dl' = [dl EXCEPT ![d] = rec] /\ UNCHANGED <<disk, failures>>
  BY DEF Tell, Types
<1> HIDE DEF rec
<1> QED BY <1>1, <1>2 DEF Restates, Types, Serving

LEMMA RequestStep ==
  ASSUME MaxFailures = 0, Types, NEW d \in Ids,
         Add(d) \/ Pause(d) \/ Resume(d) \/ Rebind(d) \/ Cancel(d)
  PROVE  /\ Serving /\ failures' = failures /\ phase' = phase
         /\ (\E rec \in Downloads : Rewrites(d, rec)) \/ (Restates /\ dl[d].state = "running")
<1>0. dl \in [Ids -> Downloads] /\ dl[d] \in Downloads
  BY DEF Types
<1>1. Serving /\ phase' = phase /\ Serving'
  BY DEF Add, Pause, Resume, Rebind, Cancel, Accept, Serving
<1>2. CASE Add(d)
  <2> DEFINE rec == Record("queued", FALSE, "none")
  <2>1. rec \in Downloads /\ rec.state = "queued"
    BY RecordTyped DEF States, Errors
  <2>2. Write([dl EXCEPT ![d] = rec], order \cup (Known \X {d})) /\ dl[d].state = "absent"
    BY <1>2 DEF Add
  <2> HIDE DEF rec
  <2>3. Allowed(StageIn(dl, d), IF rec.state = "absent" THEN "unknown" ELSE StageOf(rec.state))
    BY <2>1, <2>2 DEF Allowed, StageIn, StageOf
  <2> QED BY <1>1, <2>1, <2>2, <2>3, WriteRewrites
<1>3. CASE Pause(d)
  <2> DEFINE rec == [dl[d] EXCEPT !.state = "paused"]
  <2>1. rec \in Downloads /\ rec.state = "paused" /\ [dl EXCEPT ![d].state = "paused"] = [dl EXCEPT ![d] = rec]
    BY <1>0 DEF Downloads, States
  <2> HIDE DEF rec
  <2>2. CASE Tell("pause", d)
    BY <1>1, <2>2, TellRestates DEF Tell
  <2>3. CASE dl[d].state = "queued" /\ Write([dl EXCEPT ![d].state = "paused"], order)
    <3>1. Allowed(StageIn(dl, d), IF rec.state = "absent" THEN "unknown" ELSE StageOf(rec.state))
      BY <2>1, <2>3 DEF Allowed, StageIn, StageOf
    <3> QED BY <1>1, <2>1, <2>3, <3>1, WriteRewrites
  <2> QED BY <1>3, <2>2, <2>3 DEF Pause
<1>4. CASE Resume(d) \/ Rebind(d)
  <2> DEFINE rec == Record("queued", dl[d].named, "none")
  <2>1. rec \in Downloads /\ rec.state = "queued"
    BY <1>0, RecordTyped DEF Downloads, States, Errors
  <2> HIDE DEF rec
  <2>2. Write([dl EXCEPT ![d] = rec], order) /\ dl[d].state \in {"paused", "error"}
    BY <1>4 DEF Resume, Rebind, Requeued, rec
  <2>3. Allowed(StageIn(dl, d), IF rec.state = "absent" THEN "unknown" ELSE StageOf(rec.state))
    BY <2>1, <2>2 DEF Allowed, StageIn, StageOf
  <2> QED BY <1>1, <2>1, <2>2, <2>3, WriteRewrites
<1>5. CASE Cancel(d)
  <2> DEFINE rec == [dl[d] EXCEPT !.state = "cancelled"]
  <2>1. rec \in Downloads /\ rec.state = "cancelled" /\ [dl EXCEPT ![d].state = "cancelled"] = [dl EXCEPT ![d] = rec]
    BY <1>0 DEF Downloads, States, Terminal
  <2> HIDE DEF rec
  <2>2. CASE Tell("cancel", d)
    BY <1>1, <2>2, TellRestates DEF Tell
  <2>3. CASE dl[d].state \in {"queued", "paused"} /\ Write([dl EXCEPT ![d].state = "cancelled"], order)
    <3>1. Allowed(StageIn(dl, d), IF rec.state = "absent" THEN "unknown" ELSE StageOf(rec.state))
      BY <2>1, <2>3 DEF Allowed, StageIn, StageOf
    <3> QED BY <1>1, <2>1, <2>3, <3>1, WriteRewrites
  <2> QED BY <1>5, <2>2, <2>3 DEF Cancel
<1> QED BY <1>2, <1>3, <1>4, <1>5

LEMMA PoolStep ==
  ASSUME MaxFailures = 0, Types, Quiet, Schedule \/ Start
  PROVE  /\ Serving /\ failures' = failures /\ phase' = phase /\ phase # "stopped"
         /\ (\E d \in Ids, rec \in Downloads : Rewrites(d, rec)) \/ Restates
<1>1. CASE Schedule
  <2>1. PICK d \in Ids, ok \in BOOLEAN :
          dl[d].state = "queued" /\ Persist([dl EXCEPT ![d].state = "running"], order, ok)
    BY <1>1 DEF Schedule, FirstQueued, IsQueued
  <2> DEFINE rec == [dl[d] EXCEPT !.state = "running"]
  <2>2. rec \in Downloads /\ rec.state = "running" /\ [dl EXCEPT ![d].state = "running"] = [dl EXCEPT ![d] = rec]
    BY DEF Types, Downloads, States
  <2> HIDE DEF rec
  <2>3. phase' = phase /\ phase = "up" /\ Serving /\ Serving'
    BY <1>1 DEF Schedule, Quiet, Types, Serving
  <2>4. Allowed(StageIn(dl, d), IF rec.state = "absent" THEN "unknown" ELSE StageOf(rec.state))
    BY <2>1, <2>2 DEF Allowed, StageIn, StageOf
  <2>5. Write([dl EXCEPT ![d] = rec], order)
    BY <2>1, <2>2 DEF Write
  <2> QED BY <2>2, <2>3, <2>4, <2>5, WriteRewrites
<1>2. CASE Start
  <2>1. UNCHANGED <<dl, phase, disk, failures>> /\ tasks # <<>>
    BY <1>2 DEF Start, bounds
  <2> QED BY <2>1 DEF Restates, Types, Quiet, Serving
<1> QED BY <1>1, <1>2

(* A call that ends leaves its download pending, or ends it.                 *)
LEMMA LeaveStep ==
  ASSUME MaxFailures = 0, Types, Quiet, NEW r \in runs, dl[r.id].state = "running",
         NEW rec \in Downloads, rec.state \in {"queued", "paused", "done", "error", "cancelled"},
         Leave(r, rec)
  PROVE  /\ Serving /\ failures' = failures /\ phase' = phase /\ phase # "stopped"
         /\ \E d \in Ids : Rewrites(d, rec)
<1>1. r.id \in Ids /\ phase' = phase /\ phase \notin {"stopped", "off"} /\ Serving /\ Serving'
  BY DEF Leave, Types, Runs, Quiet, Serving
<1>2. Allowed(StageIn(dl, r.id), IF rec.state = "absent" THEN "unknown" ELSE StageOf(rec.state))
  BY DEF Allowed, StageIn, StageOf
<1>3. Write([dl EXCEPT ![r.id] = rec], order)
  BY DEF Leave
<1> QED BY <1>1, <1>2, <1>3, WriteRewrites

LEMMA CallStep ==
  ASSUME MaxFailures = 0, Inv, NEW r \in runs, RunStep(r)
  PROVE  /\ Serving /\ failures' = failures /\ phase' = phase /\ phase # "stopped"
         /\ (\E d \in Ids, rec \in Downloads : Rewrites(d, rec)) \/ Restates
<1>1. /\ Types /\ Quiet /\ r.id \in Ids /\ dl[r.id] \in Downloads
      /\ dl[r.id].state = "running" /\ phase \notin {"stopped", "off"}
  BY DEF Inv, Types, Quiet, Runs, OneRunPerDownload, Executed, Running
<1>2. CASE Probed(r)
  <2> DEFINE rec == [dl[r.id] EXCEPT !.named = TRUE]
  <2>1. rec \in Downloads /\ rec.state = "running" /\ [dl EXCEPT ![r.id].named = TRUE] = [dl EXCEPT ![r.id] = rec]
    BY <1>1 DEF Types, Downloads
  <2> HIDE DEF rec
  <2>2. Write([dl EXCEPT ![r.id] = rec], order) /\ phase' = phase /\ Serving /\ Serving'
    BY <1>1, <1>2, <2>1 DEF Probed, Write, Serving
  <2>3. Allowed(StageIn(dl, r.id), IF rec.state = "absent" THEN "unknown" ELSE StageOf(rec.state))
    BY <1>1, <2>1 DEF Allowed, StageIn, StageOf
  <2> QED BY <1>1, <2>1, <2>2, <2>3, WriteRewrites
<1>3. CASE Done(r)
  <2> DEFINE rec == [dl[r.id] EXCEPT !.state = "done", !.named = TRUE]
  <2>1. rec \in Downloads /\ rec.state = "done"
    BY <1>1 DEF Downloads, States, Terminal
  <2> QED BY <1>1, <1>3, <2>1, LeaveStep DEF Done
<1>4. CASE FailsForGood(r)
  <2> DEFINE rec == [dl[r.id] EXCEPT !.state = "error", !.error = "final"]
  <2>1. rec \in Downloads /\ rec.state = "error"
    BY <1>1 DEF Downloads, States, Terminal, Errors
  <2> QED BY <1>1, <1>4, <2>1, LeaveStep DEF FailsForGood
<1>5. CASE Fails(r)
  <2> DEFINE again == [dl[r.id] EXCEPT !.state = "queued", !.demoted = TRUE]
             rec == [dl[r.id] EXCEPT !.state = "error", !.error = "transient"]
  <2>1. again \in Downloads /\ again.state = "queued"
    BY <1>1 DEF Downloads, States
  <2>2. rec \in Downloads /\ rec.state = "error"
    BY <1>1 DEF Downloads, States, Terminal, Errors
  <2>3. Leave(r, again) \/ Leave(r, rec)
    BY <1>5 DEF Fails
  <2> HIDE DEF again, rec
  <2> QED BY <1>1, <2>1, <2>2, <2>3, LeaveStep
<1>6. CASE Stopped(r) \/ ReadMode(r)
  <2>1. UNCHANGED <<dl, phase, disk, failures>>
    BY <1>6 DEF Stopped, ReadMode, bounds
  <2> QED BY <1>1, <2>1 DEF Restates, Types, Serving
<1>7. CASE OnCancelled(r)
  <2> DEFINE gone == [dl[r.id] EXCEPT !.state = "cancelled", !.mode = "none"]
             kept == [dl[r.id] EXCEPT !.state = "paused", !.mode = "none", !.ev = FALSE]
  <2>1. gone \in Downloads /\ gone.state = "cancelled"
    BY <1>1 DEF Downloads, States, Terminal
  <2>2. kept \in Downloads /\ kept.state = "paused"
    BY <1>1 DEF Downloads, States
  <2>3. Leave(r, gone) \/ Leave(r, kept)
    BY <1>7 DEF OnCancelled
  <2> HIDE DEF gone, kept
  <2> QED BY <1>1, <2>1, <2>2, <2>3, LeaveStep
<1> QED BY <1>2, <1>3, <1>4, <1>5, <1>6, <1>7 DEF RunStep

LEMMA ShutdownStep ==
  ASSUME MaxFailures = 0, Types, Shutdown \/ ShutdownEnds
  PROVE  /\ Serving /\ failures' = failures /\ Restates
         /\ phase' = "stopped" => disk' = Saved(dl', order')
<1>1. CASE Shutdown
  <2>1. \A d \in Ids : dl'[d] \in Downloads /\ dl'[d].state = dl[d].state
    BY <1>1 DEF Shutdown, Types, Downloads
  <2>2. dl' = [d \in Ids |-> dl'[d]]
    BY <1>1 DEF Shutdown
  <2>3. UNCHANGED <<disk, failures>> /\ phase' = "stopping" /\ phase \in {"up", "stopping"}
    BY <1>1 DEF Shutdown
  <2> QED BY <2>1, <2>2, <2>3 DEF Restates, Serving
<1>2. CASE ShutdownEnds
  <2>1. PICK ok \in BOOLEAN : Persist(dl, order, ok) /\ phase' = IF ok THEN "stopped" ELSE "up"
    BY <1>2 DEF ShutdownEnds
  <2>2. dl' = dl /\ order' = order /\ disk' = Saved(dl, order) /\ failures' = failures
    BY <2>1, WrittenOut DEF Types
  <2> QED BY <1>2, <2>1, <2>2 DEF ShutdownEnds, Restates, Types, Serving
<1> QED BY <1>1, <1>2

-----------------------------------------------------------------------------
(* The end of the process, and the next one. *)

(* What the file no longer says had ended.                                   *)
LEMMA ExitStep ==
  ASSUME Types, Faithful, Exit
  PROVE  failures' = failures /\ Faithful' /\ Promise!Next
<1>1. Serving /\ phase' = "off" /\ ~Serving' /\ UNCHANGED <<disk, failures>>
  BY DEF Exit, Serving
<1>2. Faithful'
  BY <1>1 DEF Faithful
<1> DEFINE lost == {d \in Ids : Stage[d] \in Promise!Ends /\ ~OnDisk(d)}
<1>3. Stage = [d \in Ids |-> StageIn(dl, d)]
  BY <1>1 DEF Stage, StageIn
<1>4. Stage' = [d \in Ids |-> IF OnDisk(d) THEN StageOf(disk.entry[d].state) ELSE "unknown"]
  BY <1>1 DEF Stage, OnDisk
<1>5. \A d \in Ids : Stage'[d] = IF d \in lost THEN "unknown" ELSE Stage[d]
  <2> TAKE d \in Ids
  <2>1. CASE OnDisk(d)
    BY <1>1, <1>3, <1>4, <2>1 DEF Faithful, OnDisk, StageIn
  <2>2. CASE ~OnDisk(d)
    <3>1. dl[d].state \notin {"queued", "running", "paused"} /\ dl[d] \in Downloads
      BY <1>1, <2>2 DEF Faithful, Types
    <3>2. Stage[d] = "unknown" \/ Stage[d] \in Promise!Ends
      BY <1>3, <3>1 DEF StageIn, StageOf, Downloads, States, Terminal, Promise!Ends
    <3> QED BY <1>4, <2>2, <3>2
  <2> QED BY <2>1, <2>2
<1>6. Stage' = [d \in Ids |-> IF d \in lost THEN "unknown" ELSE Stage[d]]
  BY <1>4, <1>5
<1>7. lost \in SUBSET {d \in Ids : Stage[d] \in Promise!Ends}
  OBVIOUS
<1> HIDE DEF lost
<1> QED BY <1>1, <1>2, <1>6, <1>7 DEF Promise!Next, Promise!Forgotten

LEMMA RestartStep ==
  ASSUME Types, Restart
  PROVE  failures' = failures /\ Faithful' /\ Stage' = Stage
<1>1. /\ ~Serving /\ Serving' /\ phase' = "up" /\ UNCHANGED <<disk, failures>>
      /\ dl' = [d \in Ids |-> IF OnDisk(d) THEN Loaded(disk.entry[d]) ELSE Absent]
  BY DEF Restart, bounds, Serving
<1>2. \A d \in Ids : OnDisk(d) => dl'[d].state # "absent"
                               /\ StageOf(dl'[d].state) = StageOf(disk.entry[d].state)
  <2> SUFFICES ASSUME NEW d \in Ids, OnDisk(d)
               PROVE  /\ dl'[d].state # "absent"
                      /\ StageOf(dl'[d].state) = StageOf(disk.entry[d].state)
    OBVIOUS
  <2>1. disk.entry[d] \in Entries /\ dl'[d] = Loaded(disk.entry[d])
    BY <1>1 DEF OnDisk, Types
  <2> QED BY <2>1 DEF Entries, States, Terminal, Loaded, Record, StageOf
<1>3. \A d \in Ids : ~OnDisk(d) => dl'[d].state = "absent"
  BY <1>1 DEF Absent, Record
<1>4. Faithful'
  BY <1>1, <1>2, <1>3 DEF Faithful, OnDisk, Types
<1>5. Stage' = Stage
  BY <1>1, <1>2, <1>3 DEF Stage
<1> QED BY <1>1, <1>4, <1>5

-----------------------------------------------------------------------------

LEMMA HealthyInit == Init => Healthy
<1> SUFFICES ASSUME Init PROVE Healthy
  OBVIOUS
<1>1. \A d \in Ids : dl[d].state = "absent"
  BY DEF Init, Absent, Record
<1>2. DOMAIN disk.entry = {}
  BY DEF Init
<1>3. Faithful
  BY <1>1, <1>2 DEF Faithful
<1> QED BY <1>3, InvInit DEF Init, Healthy

LEMMA HealthyStep ==
  ASSUME MaxFailures = 0, Healthy, [Next]_vars
  PROVE  Healthy' /\ [Promise!Next]_Stage
<1>1. Inv /\ Inv' /\ Types /\ Types' /\ Quiet /\ Faithful /\ failures = 0
  BY InvStep DEF Healthy, Inv
<1>2. ASSUME NEW d \in Ids, Add(d) \/ Pause(d) \/ Resume(d) \/ Rebind(d) \/ Cancel(d)
      PROVE  Healthy' /\ [Promise!Next]_Stage
  BY <1>1, <1>2, RequestStep, RewriteStep, RestateStep DEF Healthy
<1>3. CASE Schedule \/ Start
  BY <1>1, <1>3, PoolStep, RewriteStep, RestateStep DEF Healthy
<1>4. ASSUME NEW r \in runs, RunStep(r)
      PROVE  Healthy' /\ [Promise!Next]_Stage
  BY <1>1, <1>4, CallStep, RewriteStep, RestateStep DEF Healthy
<1>5. CASE Shutdown \/ ShutdownEnds
  BY <1>1, <1>5, ShutdownStep, RestateStep DEF Healthy
<1>6. CASE Exit
  BY <1>1, <1>6, ExitStep DEF Healthy
<1>7. CASE Restart
  BY <1>1, <1>7, RestartStep DEF Healthy
<1>8. CASE UNCHANGED vars
  <2>1. UNCHANGED <<dl, phase, disk, failures>>
    BY <1>8 DEF vars, bounds
  <2>2. Faithful' /\ Stage' = Stage
    BY <1>1, <2>1 DEF Faithful, Stage, Serving, OnDisk
  <2> QED BY <1>1, <2>1, <2>2 DEF Healthy
<1> QED BY <1>2, <1>3, <1>4, <1>5, <1>6, <1>7, <1>8 DEF Next

LEMMA CleanStep ==
  ASSUME MaxFailures = 0, Healthy, Healthy', StopIsClean, [Next]_vars
  PROVE  StopIsClean'
<1> SUFFICES ASSUME phase' = "stopped" PROVE StopIsClean'
  BY DEF StopIsClean
<1>1. Inv /\ Types /\ Quiet /\ failures = 0
  BY DEF Healthy, Inv
<1>2. Running' = {} /\ runs' = {}
  BY DEF Healthy, Inv, Quiet, OneRunPerDownload, Submitted, Executed
<1>3. disk' = Saved(dl', order')
  <2>1. ASSUME NEW d \in Ids, Add(d) \/ Pause(d) \/ Resume(d) \/ Rebind(d) \/ Cancel(d)
        PROVE  disk' = Saved(dl', order')
    <3>1. phase = "stopped" /\ dl[d].state # "running"
      BY <1>1, <2>1, RequestStep DEF StopIsClean, Running
    <3> QED BY <1>1, <2>1, <3>1, RequestStep DEF Rewrites
  <2>2. ~Schedule /\ ~Start
    BY <1>1, PoolStep
  <2>3. ~ \E r \in runs : RunStep(r)
    BY <1>1, CallStep
  <2>4. CASE Shutdown \/ ShutdownEnds
    BY <1>1, <2>4, ShutdownStep
  <2>5. ~Exit /\ ~Restart
    BY DEF Exit, Restart
  <2>6. CASE UNCHANGED vars
    BY <2>6 DEF vars, StopIsClean
  <2> QED BY <2>1, <2>2, <2>3, <2>4, <2>5, <2>6 DEF Next
<1> QED BY <1>2, <1>3 DEF StopIsClean

(* While queue.json can be written, a shutdown() that returns has left no    *)
(* call running (service.py:238-250), and the file is up to date with every  *)
(* request, those that still arrive after it included.                       *)
THEOREM StopsCleanly ==
  ASSUME MaxFailures = 0
  PROVE  Spec => []StopIsClean
<1>1. Init => StopIsClean
  BY DEF Init, StopIsClean
<1>2. Healthy /\ [Next]_vars => Healthy'
  BY HealthyStep
<1>3. Healthy /\ Healthy' /\ StopIsClean /\ [Next]_vars => StopIsClean'
  BY CleanStep
<1> QED BY <1>1, <1>2, <1>3, HealthyInit, PTL DEF Spec

(* While queue.json can be written, no accepted download is forgotten and    *)
(* none that is done or cancelled comes back, over any stops, kills and      *)
(* restarts (service.py:76-103, 361-372): Manager implements Queue.          *)
THEOREM PromiseKept ==
  ASSUME MaxFailures = 0
  PROVE  Spec => KeepsThePromise
<1>1. Init => Promise!Init
  BY DEF Init, Stage, Serving, Absent, Record, Promise!Init
<1>2. Healthy /\ [Next]_vars => Healthy' /\ [Promise!Next]_Stage
  BY HealthyStep
<1> QED BY <1>1, <1>2, HealthyInit, PTL DEF Spec, KeepsThePromise, Promise!Spec
=============================================================================
