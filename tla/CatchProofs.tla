----------------------------- MODULE CatchProofs -----------------------------
(* Catch mode loses no link, ends when it is told to, leaves no engine call  *)
(* and no unsaved download behind, and keeps the queue's own guarantees: for *)
(* every number of links, downloads and threads, and every size of the queue *)
(* of flagged links.                                                         *)
EXTENDS Catch, TLAPS

Q == INSTANCE QueueProofs

(* Catch's instance of Manager and the one Manager's theorems are about are  *)
(* the same: one lemma per action that Catch takes.                          *)

LEMMA SameAssumption == Q!QueueAssumption
BY CatchAssumption DEF Q!QueueAssumption

LEMMA SameCardinality == ASSUME NEW S PROVE M!Cardinality(S) = Q!Cardinality(S)
BY DEF M!Cardinality, Q!Cardinality

LEMMA SameSaved == ASSUME NEW recs, NEW ids PROVE M!Saved(recs, ids) = Q!Saved(recs, ids)
<1>1. \A d : M!Ended(recs, d) <=> Q!Ended(recs, d)
  BY DEF M!Ended, Q!Ended, M!Terminal, Q!Terminal
<1>2. M!Keep(recs, ids) = Q!Keep(recs, ids)
  BY <1>1, SameCardinality DEF M!Keep, Q!Keep
<1> QED BY <1>1, <1>2 DEF M!Saved, Q!Saved

LEMMA SamePersist ==
  ASSUME NEW recs, NEW ids, NEW ok PROVE M!Persist(recs, ids, ok) <=> Q!Persist(recs, ids, ok)
BY SameSaved DEF M!Persist, Q!Persist

LEMMA SameWrite == ASSUME NEW recs, NEW ids, M!Write(recs, ids) PROVE Q!Write(recs, ids)
BY SamePersist DEF M!Write, Q!Write

LEMMA SameRequest ==
  ASSUME NEW d, M!Add(d) \/ M!Pause(d) \/ M!Resume(d) \/ M!Rebind(d) \/ M!Cancel(d)
  PROVE  Q!Add(d) \/ Q!Pause(d) \/ Q!Resume(d) \/ Q!Rebind(d) \/ Q!Cancel(d)
<1>1. ASSUME NEW what, M!Accept(what, d) PROVE Q!Accept(what, d)
  BY <1>1 DEF M!Accept, Q!Accept, M!Serving, Q!Serving
<1>2. ASSUME NEW mode, M!Tell(mode, d) PROVE Q!Tell(mode, d)
  BY <1>2 DEF M!Tell, Q!Tell
<1>3. M!Requeued(d) = Q!Requeued(d)
  BY DEF M!Requeued, Q!Requeued, M!Record, Q!Record
<1>4. CASE M!Add(d)
  BY <1>4, SameWrite DEF M!Add, Q!Add, M!Serving, Q!Serving, M!Record, Q!Record, M!Known, Q!Known
<1>5. CASE M!Pause(d)
  BY <1>1, <1>2, <1>5, SameWrite DEF M!Pause, Q!Pause
<1>6. CASE M!Resume(d) \/ M!Rebind(d)
  BY <1>1, <1>3, <1>6, SameWrite DEF M!Resume, Q!Resume, M!Rebind, Q!Rebind
<1>7. CASE M!Cancel(d)
  BY <1>1, <1>2, <1>7, SameWrite DEF M!Cancel, Q!Cancel
<1> QED BY <1>4, <1>5, <1>6, <1>7

LEMMA SameSchedule == M!Schedule => Q!Schedule
<1> SUFFICES ASSUME M!Schedule PROVE Q!Schedule
  OBVIOUS
<1>1. PICK d \in Ids, ok \in BOOLEAN :
        /\ M!FirstQueued(d)
        /\ M!Persist([dl EXCEPT ![d].state = "running"], order, ok)
        /\ tasks' = IF ok THEN Append(tasks, d) ELSE tasks
        /\ scheduler' = ok
  BY DEF M!Schedule
<1>2. Q!FirstQueued(d)
  BY <1>1 DEF M!FirstQueued, Q!FirstQueued, M!IsQueued, Q!IsQueued
<1>3. Q!Persist([dl EXCEPT ![d].state = "running"], order, ok)
  BY <1>1, SamePersist
<1>4. M!Running = Q!Running
  BY DEF M!Running, Q!Running
<1>5. scheduler /\ Q!Cardinality(Q!Running) < MaxConcurrent
  BY <1>4, SameCardinality DEF M!Schedule
<1>6. UNCHANGED <<caps, runs, phase, asked, calls, stops, crashes>>
  BY DEF M!Schedule
<1> QED BY <1>1, <1>2, <1>3, <1>5, <1>6 DEF Q!Schedule

LEMMA SameStart == M!Start => Q!Start
BY SameCardinality DEF M!Start, Q!Start, M!bounds, Q!bounds

LEMMA SameShutdown == (M!Shutdown => Q!Shutdown) /\ (M!ShutdownEnds => Q!ShutdownEnds)
BY SamePersist DEF M!Shutdown, Q!Shutdown, M!Running, Q!Running, M!ShutdownEnds, Q!ShutdownEnds

LEMMA SameRunStep == ASSUME NEW r, M!RunStep(r) PROVE Q!RunStep(r)
<1>1. \A rec : M!Leave(r, rec) => Q!Leave(r, rec)
  BY SameWrite DEF M!Leave, Q!Leave
<1>2. M!Probed(r) => Q!Probed(r)
  BY SamePersist DEF M!Probed, Q!Probed, M!Goto, Q!Goto
<1>3. (M!Done(r) => Q!Done(r)) /\ (M!FailsForGood(r) => Q!FailsForGood(r))
  BY <1>1 DEF M!Done, Q!Done, M!FailsForGood, Q!FailsForGood
<1>4. M!Fails(r) => Q!Fails(r)
  BY <1>1 DEF M!Fails, Q!Fails, M!Retried, Q!Retried
<1>5. (M!Stopped(r) => Q!Stopped(r)) /\ (M!ReadMode(r) => Q!ReadMode(r))
  BY DEF M!Stopped, Q!Stopped, M!ReadMode, Q!ReadMode, M!Goto, Q!Goto, M!bounds, Q!bounds
<1>6. M!OnCancelled(r) => Q!OnCancelled(r)
  BY <1>1 DEF M!OnCancelled, Q!OnCancelled
<1> QED BY <1>2, <1>3, <1>4, <1>5, <1>6 DEF M!RunStep, Q!RunStep

-----------------------------------------------------------------------------
(* Every step of catch mode is a step of the queue, or none, but the last    *)
(* save of Close.                                                            *)

QueueInv == Q!RowInv /\ Q!Healthy

LEMMA SameInit == Init => Q!Init /\ QueueInv
<1> SUFFICES ASSUME Init PROVE Q!Init
  BY Q!RowInvInit, Q!HealthyInit, SameAssumption, CatchAssumption DEF QueueInv
<1> QED BY DEF Init, M!Init, Q!Init, M!Absent, Q!Absent, M!Record, Q!Record

LEMMA Composed ==
  ASSUME pc = "offer" => cand \in Ids, [Next]_vars
  PROVE  Close \/ Q!Next \/ UNCHANGED mvars
<1>1. ASSUME NEW l \in Links, Flag(l) \/ Put(l) PROVE UNCHANGED mvars
  BY <1>1 DEF Flag, Put
<1>0. ASSUME NEW d \in Ids, M!Add(d) \/ M!Pause(d) \/ M!Resume(d) \/ M!Rebind(d) \/ M!Cancel(d)
      PROVE  Q!Next
  <2>1. Q!Add(d) \/ Q!Pause(d) \/ Q!Resume(d) \/ Q!Rebind(d) \/ Q!Cancel(d)
    BY <1>0, SameRequest
  <2> QED BY <2>1 DEF Q!Next
<1>2. ASSUME NEW d \in Ids, Command(d) PROVE Q!Next
  BY <1>0, <1>2 DEF Command
<1>3. CASE AskStop
  BY <1>3, SameShutdown DEF AskStop, Q!Next
<1>4. CASE StopServer \/ PutNone \/ Redraw \/ Take \/ Declined \/ Sentinel \/ Drain \/ LeaveLoop
  BY <1>4 DEF StopServer, PutNone, Redraw, Take, Declined, Sentinel, Drain,
                LeaveLoop, TakeRaises, ResumeRaises, Interrupted, Abort
<1>5. CASE Resumed
  <2>1. PICK d \in Ids : d = cand
    BY <1>5 DEF Resumed
  <2>2. M!Rebind(d)
    BY <1>5, <2>1 DEF Resumed, M!Rebind, M!Requeued, M!Accept
  <2> QED BY <1>0, <2>2
<1>6. CASE Added
  BY <1>0, <1>6 DEF Added
<1>7. CASE StopQueue
  BY <1>7, SameShutdown DEF StopQueue, Q!Next
<1>8. CASE Queueing(M!Schedule) \/ Queueing(M!Start) \/ Queueing(M!ShutdownEnds)
  BY <1>8, SameSchedule, SameStart, SameShutdown DEF Queueing, Q!Next
<1>9. ASSUME NEW r \in runs, Queueing(M!RunStep(r)) PROVE Q!Next
  BY <1>9, SameRunStep DEF Queueing, Q!Next
<1>10. CASE UNCHANGED vars
  BY <1>10 DEF vars
<1> QED BY <1>1, <1>2, <1>3, <1>4, <1>5, <1>6, <1>7, <1>8, <1>9, <1>10 DEF Next, Main, Prompt

(* The last save is a step of the queue's in all but name.                   *)
LEMMA CloseStep ==
  ASSUME QueueInv, Close
  PROVE  QueueInv' /\ Q!StopIsClean' /\ [Q!Promise!Next]_(Q!Stage)
<1>1. /\ disk' = Q!Saved(dl, order) /\ phase = "stopped"
      /\ UNCHANGED <<dl, order, caps, tasks, runs, scheduler, phase, asked, calls, stops, crashes, failures>>
  BY SameSaved DEF Close
<1>2. Q!Inv /\ Q!Types /\ Q!Bounded /\ Q!Quiet /\ Q!Faithful /\ failures = 0
  BY DEF QueueInv, Q!RowInv, Q!Inv, Q!Healthy
<1>3. /\ DOMAIN disk'.entry \subseteq Ids
      /\ disk'.entry \in [DOMAIN disk'.entry -> Q!Entries]
  BY <1>1, <1>2, Q!SavedEntries, SameAssumption DEF Q!Types
<1>4. Q!Types' /\ Q!Quiet' /\ Q!Running' = Q!Running
  BY <1>1, <1>2, <1>3 DEF Q!Types, Q!Quiet, Q!Running
<1>5. Q!Inv'
  BY <1>1, <1>2, <1>4, Q!NoCallChanges, SameAssumption DEF Q!Inv
<1>6. Q!Bounded'
  BY <1>1, <1>2 DEF Q!Bounded
<1>7. Q!Stays
  BY <1>1, <1>2 DEF Q!Stays, Q!Types
<1>8. Q!RowInv'
  BY <1>5, <1>6, <1>7, Q!StaysKeeps, SameAssumption DEF QueueInv
<1>9. Q!Restates /\ Q!Serving
  BY <1>1, <1>2 DEF Q!Restates, Q!Types, Q!Serving
<1>10. Q!Faithful' /\ [Q!Promise!Next]_(Q!Stage)
  BY <1>2, <1>9, Q!RestateStep, SameAssumption
<1>11. Q!StopIsClean'
  <2>1. Q!Running = {} /\ runs = {}
    BY <1>1, <1>2 DEF Q!Inv, Q!Quiet, Q!OneRunPerDownload, Q!Submitted, Q!Executed
  <2> QED BY <1>1, <1>4, <2>1 DEF Q!StopIsClean
<1> QED BY <1>1, <1>2, <1>5, <1>8, <1>10, <1>11 DEF QueueInv, Q!Healthy

LEMMA QueueStep ==
  ASSUME QueueInv, pc = "offer" => cand \in Ids, [Next]_vars
  PROVE  /\ QueueInv' /\ [Q!Promise!Next]_(Q!Stage)
         /\ Q!StopIsClean => Q!StopIsClean'
         /\ \A d, e \in Ids : /\ dl[d].state = "queued" /\ dl'[d].state = "running"
                               /\ dl[e].state = "queued" /\ asked[e] = "add"
                               => d <= e
<1>1. CASE Q!Next \/ UNCHANGED mvars
  <2>1. [Q!Next]_(Q!vars)
    BY <1>1 DEF mvars, Q!vars, Q!bounds
  <2>2. Q!RowInv'
    BY <2>1, Q!RowInvStep, SameAssumption DEF QueueInv
  <2>3. Q!Healthy' /\ [Q!Promise!Next]_(Q!Stage)
    BY <2>1, Q!HealthyStep, SameAssumption, CatchAssumption DEF QueueInv
  <2>4. Q!StopIsClean => Q!StopIsClean'
    BY <2>1, <2>3, Q!CleanStep, SameAssumption, CatchAssumption DEF QueueInv
  <2>5. \A d, e \in Ids : /\ dl[d].state = "queued" /\ dl'[d].state = "running"
                           /\ dl[e].state = "queued" /\ asked[e] = "add"
                           => d <= e
    BY <2>1, Q!StartsTheFirst, SameAssumption DEF QueueInv
  <2> QED BY <2>2, <2>3, <2>4, <2>5 DEF QueueInv
<1>2. CASE Close
  <2>1. dl' = dl
    BY <1>2 DEF Close
  <2> QED BY <1>2, <2>1, CloseStep
<1> QED BY <1>1, <1>2, Composed

-----------------------------------------------------------------------------
(* The invariant, whatever may happen. *)

Shape ==
  /\ TypeOK /\ SentinelArrives
  /\ pc = "offer" => cand \in Ids
  /\ pc = "ended" => ~serving

(* The head and the tail of the queue; a link or the sentinel put in it.     *)
LEMMA PendingTail ==
  ASSUME pending \in Seq(Links \cup {0}), pending # <<>>
  PROVE  /\ Head(pending) = pending[1] /\ 1 \in DOMAIN pending
         /\ Tail(pending) \in Seq(Links \cup {0})
         /\ \A i \in DOMAIN Tail(pending) : i + 1 \in DOMAIN pending /\ Tail(pending)[i] = pending[i + 1]
         /\ \A i \in DOMAIN pending : i = 1 \/ (i - 1 \in DOMAIN Tail(pending) /\ Tail(pending)[i - 1] = pending[i])
OBVIOUS

LEMMA PendingAppend ==
  ASSUME pending \in Seq(Links \cup {0}), NEW x \in Links \cup {0}
  PROVE  /\ Append(pending, x) \in Seq(Links \cup {0})
         /\ \A i \in DOMAIN pending : i \in DOMAIN Append(pending, x) /\ Append(pending, x)[i] = pending[i]
         /\ \A i \in DOMAIN Append(pending, x) :
              (i \in DOMAIN pending /\ Append(pending, x)[i] = pending[i]) \/ Append(pending, x)[i] = x
         /\ \E i \in DOMAIN Append(pending, x) : Append(pending, x)[i] = x
<1>1. Len(pending) + 1 \in DOMAIN Append(pending, x) /\ Append(pending, x)[Len(pending) + 1] = x
  OBVIOUS
<1> QED BY <1>1

(* What is left of the queue of links when its head is taken. *)
LEMMA TailTyped ==
  ASSUME TypeOK, pending # <<>>, pending' = Tail(pending)
  PROVE  /\ pending' \in Seq(Links \cup {0}) /\ Len(pending') <= PendingMax
         /\ Head(pending) \in Links \cup {0}
         /\ Head(pending) = 0 \/ ((\E i \in DOMAIN pending : pending[i] = 0) =>
                                  \E i \in DOMAIN pending' : pending'[i] = 0)
<1>1. Len(Tail(pending)) <= Len(pending) /\ Len(pending) \in Nat /\ Len(Tail(pending)) \in Nat
  BY DEF TypeOK
<1>2. /\ Head(pending) = pending[1] /\ 1 \in DOMAIN pending
      /\ Tail(pending) \in Seq(Links \cup {0})
      /\ \A i \in DOMAIN pending : i = 1 \/ (i - 1 \in DOMAIN Tail(pending) /\ Tail(pending)[i - 1] = pending[i])
  BY PendingTail DEF TypeOK
<1>3. Head(pending) \in Links \cup {0}
  BY <1>2 DEF TypeOK
<1>4. Len(Tail(pending)) <= PendingMax
  BY <1>1, CatchAssumption DEF TypeOK
<1> QED BY <1>2, <1>3, <1>4

LEMMA AppendTyped ==
  ASSUME TypeOK, Len(pending) < PendingMax, NEW x \in Links \cup {0}
  PROVE  Append(pending, x) \in Seq(Links \cup {0}) /\ Len(Append(pending, x)) <= PendingMax
<1>1. Len(Append(pending, x)) = Len(pending) + 1 /\ Len(pending) \in Nat
  BY DEF TypeOK
<1>2. Append(pending, x) \in Seq(Links \cup {0})
  BY PendingAppend DEF TypeOK
<1> QED BY <1>1, <1>2, CatchAssumption

LEMMA DrawnTyped ==
  ASSUME NEW w \in [Ids -> {"no", "live", "shown"}], NEW recs
  PROVE  Drawn(w, recs) \in [Ids -> {"no", "live", "shown"}]
BY DEF Drawn

LEMMA ShapeStep ==
  ASSUME Shape, [Next]_vars
  PROVE  Shape'
<1>0. TypeOK
  BY DEF Shape
<1>1. ASSUME NEW l \in Links, Flag(l) \/ Put(l) PROVE Shape'
  <2>1. UNCHANGED <<pc, cur, cand, watched, serving, stopper, aborted>>
    BY <1>1 DEF Flag, Put
  <2>2. /\ pending' = pending \/ (pending' = Append(pending, l) /\ Len(pending) < PendingMax)
        /\ \E stage \in {"checked", "handed", "refused"} : link' = [link EXCEPT ![l] = stage]
    BY <1>1 DEF Flag, Put
  <2>3. pending' \in Seq(Links \cup {0}) /\ Len(pending') <= PendingMax
    BY <1>0, <2>2, AppendTyped DEF TypeOK
  <2>4. link' \in [Links -> LinkStages]
    BY <1>0, <2>2 DEF TypeOK, LinkStages
  <2>5. (\E i \in DOMAIN pending : pending[i] = 0) => \E i \in DOMAIN pending' : pending'[i] = 0
    BY <1>0, <2>2, PendingAppend DEF TypeOK
  <2>6. SentinelArrives'
    BY <2>1, <2>5 DEF Shape, SentinelArrives, InLoop
  <2> QED BY <2>1, <2>3, <2>4, <2>6 DEF Shape, TypeOK
<1>2. CASE UNCHANGED cvars
  BY <1>2 DEF cvars, Shape, TypeOK, SentinelArrives, InLoop
<1>3. CASE AskStop
  BY <1>3 DEF AskStop, Shape, TypeOK, SentinelArrives, InLoop
<1>4. CASE StopServer
  BY <1>4 DEF StopServer, Shape, TypeOK, SentinelArrives, InLoop
<1>5. CASE PutNone
  <2>1. /\ pending' = Append(pending, 0) /\ Len(pending) < PendingMax /\ stopper' = "none"
        /\ UNCHANGED <<link, pc, cur, cand, watched, serving, aborted>>
    BY <1>5 DEF PutNone
  <2>2. pending' \in Seq(Links \cup {0}) /\ Len(pending') <= PendingMax
    BY <1>0, <2>1, AppendTyped
  <2>3. \E i \in DOMAIN pending' : pending'[i] = 0
    BY <1>0, <2>1, PendingAppend DEF TypeOK
  <2> QED BY <2>1, <2>2, <2>3 DEF Shape, TypeOK, SentinelArrives, InLoop
<1>6. CASE Redraw
  <2>1. watched' \in [Ids -> {"no", "live", "shown"}]
    BY <1>0, <1>6, DrawnTyped DEF Redraw, TypeOK
  <2> QED BY <1>6, <2>1 DEF Redraw, Shape, TypeOK, SentinelArrives, InLoop
<1>7. CASE Take
  <2>1. /\ pc = "get" /\ pending # <<>> /\ Head(pending) # 0 /\ pending' = Tail(pending)
        /\ cur' = Head(pending) /\ UNCHANGED <<link, watched, serving, stopper, aborted>>
        /\ (cand' = 0 /\ pc' = "ask") \/ (cand' \in Ids /\ pc' = "offer")
    BY <1>7 DEF Take
  <2>2. /\ pending' \in Seq(Links \cup {0}) /\ Len(pending') <= PendingMax /\ cur' \in Links \cup {0}
        /\ (\E i \in DOMAIN pending : pending[i] = 0) => \E i \in DOMAIN pending' : pending'[i] = 0
    BY <1>0, <2>1, TailTyped
  <2>3. SentinelArrives'
    BY <2>1, <2>2 DEF Shape, SentinelArrives, InLoop
  <2> QED BY <2>1, <2>2, <2>3 DEF Shape, TypeOK
<1>8. CASE Declined \/ Resumed \/ Added
  <2>1. PICK w : Settle(w) /\ (w = watched \/ \E d : w = [watched EXCEPT ![d] = "live"]) /\ pc \in {"offer", "ask"}
    BY <1>8 DEF Declined, Resumed, Added
  <2>2. /\ link' = [link EXCEPT ![cur] = "answered"] /\ pc' = "get" /\ cur' = 0 /\ cand' = 0
        /\ watched' = Drawn(w, dl') /\ UNCHANGED <<pending, serving, stopper, aborted>>
    BY <2>1 DEF Settle
  <2>3. watched' \in [Ids -> {"no", "live", "shown"}]
    <3>1. w \in [Ids -> {"no", "live", "shown"}]
      BY <1>0, <2>1 DEF TypeOK
    <3> QED BY <2>2, <3>1, DrawnTyped
  <2>4. link' \in [Links -> LinkStages]
    BY <1>0, <2>2 DEF TypeOK, LinkStages
  <2>5. SentinelArrives'
    BY <2>1, <2>2 DEF Shape, SentinelArrives, InLoop
  <2> QED BY <2>2, <2>3, <2>4, <2>5 DEF Shape, TypeOK
<1>9. CASE Sentinel
  <2>1. /\ pending # <<>> /\ pending' = Tail(pending) /\ pc' = "drain"
        /\ UNCHANGED <<link, cur, cand, watched, serving, stopper, aborted>>
    BY <1>9 DEF Sentinel
  <2>2. pending' \in Seq(Links \cup {0}) /\ Len(pending') <= PendingMax
    BY <1>0, <2>1, TailTyped
  <2> QED BY <2>1, <2>2 DEF Shape, TypeOK, SentinelArrives, InLoop
<1>10. CASE LeaveLoop
  <2>1. pc' = "drain" /\ cand' = 0 /\ aborted' = TRUE /\ UNCHANGED <<link, watched, serving, stopper>>
    BY <1>10 DEF LeaveLoop, TakeRaises, ResumeRaises, Interrupted, Abort
  <2>2. CASE UNCHANGED <<cur, pending>>
    BY <2>1, <2>2 DEF Shape, TypeOK, SentinelArrives, InLoop
  <2>3. CASE TakeRaises
    <3>1. pending' \in Seq(Links \cup {0}) /\ Len(pending') <= PendingMax /\ cur' \in Links \cup {0}
      BY <1>0, <2>3, TailTyped DEF TakeRaises
    <3> QED BY <2>1, <3>1 DEF Shape, TypeOK, SentinelArrives, InLoop
  <2> QED BY <1>10, <2>2, <2>3 DEF LeaveLoop, ResumeRaises, Interrupted
<1>11. CASE Drain
  <2>1. /\ pc = "drain" /\ pc' \in {"drain", "stop"}
        /\ UNCHANGED <<cur, cand, watched, serving, stopper, aborted>>
    BY <1>11 DEF Drain
  <2>2. /\ pending' \in Seq(Links \cup {0}) /\ Len(pending') <= PendingMax
        /\ link' \in [Links -> LinkStages]
    <3>1. CASE pending = <<>>
      BY <1>0, <1>11, <3>1 DEF Drain, TypeOK
    <3>2. CASE pending # <<>>
      <4>1. /\ pending' = Tail(pending)
            /\ link' = [l \in Links |-> IF l = Head(pending) THEN "reported" ELSE link[l]]
        BY <1>11, <3>2 DEF Drain, PrintNext
      <4>2. pending' \in Seq(Links \cup {0}) /\ Len(pending') <= PendingMax
        BY <1>0, <3>2, <4>1, TailTyped
      <4> QED BY <1>0, <4>1, <4>2 DEF TypeOK, LinkStages
    <3> QED BY <3>1, <3>2
  <2> QED BY <2>1, <2>2 DEF Shape, TypeOK, SentinelArrives, InLoop
<1>12. CASE StopQueue \/ Close
  BY <1>12 DEF StopQueue, Close, Shape, TypeOK, SentinelArrives, InLoop
<1> QED BY <1>1, <1>2, <1>3, <1>4, <1>5, <1>6, <1>7, <1>8, <1>9, <1>10, <1>11, <1>12
        DEF Next, Main, Prompt, Command, Queueing, vars

(* Catch mode ends when the queue has stopped, and then nothing runs.        *)
LEMMA EndStep ==
  ASSUME Shape, Q!Inv', EndIsClean, [Next]_vars
  PROVE  EndIsClean'
<1>1. CASE Close
  <2>1. /\ phase' = "stopped" /\ disk' = M!Saved(dl, order) /\ UNCHANGED <<dl, order>>
    BY <1>1 DEF Close
  <2>2. runs' = {} /\ tasks' = <<>>
    BY <2>1 DEF Q!Inv, Q!Quiet
  <2> QED BY <2>1, <2>2 DEF EndIsClean
<1>2. CASE ~Close
  <2>1. SUFFICES ASSUME pc' = "ended" PROVE UNCHANGED <<pc, dl, order, runs, tasks, disk>>
    BY DEF EndIsClean
  <2>2. pc' = pc /\ UNCHANGED mvars
    <3>1. pc = "ended" \/ UNCHANGED vars
      BY <1>2, <2>1 DEF Next, Main, Prompt, Flag, Put, Command, AskStop, StopServer, PutNone, Redraw,
          Take, Declined, Resumed, Added, Settle, Sentinel, LeaveLoop, TakeRaises, ResumeRaises,
          Interrupted, Abort, Drain, StopQueue, Queueing, cvars, vars
    <3>2. CASE pc = "ended"
      <4>1. ~serving
        BY <3>2 DEF Shape
      <4> QED BY <1>2, <3>2, <4>1, <2>1
              DEF Next, Main, Prompt, Flag, Put, Command, AskStop, StopServer, PutNone, Redraw, Take,
                  Declined, Resumed, Added, Sentinel, LeaveLoop, TakeRaises, ResumeRaises, Interrupted,
                  Drain, StopQueue, Queueing, vars
    <3> QED BY <3>1, <3>2 DEF vars, cvars
  <2> QED BY <2>2 DEF mvars
<1> QED BY <1>1, <1>2

AnyInv == QueueInv /\ Q!StopIsClean /\ Shape /\ EndIsClean

LEMMA AnyInit == Init => AnyInv
<1> SUFFICES ASSUME Init PROVE AnyInv
  OBVIOUS
<1>1. TypeOK
  <2>1. pending \in Seq(Links \cup {0}) /\ Len(pending) = 0
    BY DEF Init
  <2>2. Len(pending) <= PendingMax
    BY <2>1, CatchAssumption
  <2>3. /\ link \in [Links -> LinkStages]
        /\ watched \in [Ids -> {"no", "live", "shown"}]
    BY DEF Init, LinkStages
  <2> QED BY <2>1, <2>2, <2>3 DEF Init, TypeOK
<1>2. Shape
  BY <1>1 DEF Init, Shape, SentinelArrives
<1>3. EndIsClean /\ Q!StopIsClean
  BY SameInit DEF Init, EndIsClean, Q!Init, Q!StopIsClean
<1> QED BY <1>2, <1>3, SameInit DEF AnyInv

LEMMA AnyStep ==
  ASSUME AnyInv, [Next]_vars
  PROVE  AnyInv'
<1>1. QueueInv' /\ Q!StopIsClean'
  BY QueueStep DEF AnyInv, Shape
<1>2. Q!Inv'
  BY <1>1 DEF QueueInv, Q!RowInv
<1> QED BY <1>1, <1>2, ShapeStep, EndStep DEF AnyInv

(* The threads that meet in catch mode keep its variables typed and the      *)
(* queue of flagged links within its bound (service.py:419, 843-849).        *)
THEOREM CatchTyped == Spec => []TypeOK
<1>1. AnyInv => TypeOK
  BY DEF AnyInv, Shape
<1> QED BY <1>1, AnyInit, AnyStep, PTL DEF Spec

(* When POST /shutdown has closed the server, the sentinel that ends the     *)
(* loop is in the queue or on its way, for every size of that queue and      *)
(* whatever else happens (service.py:537-542).                               *)
THEOREM SentinelAlwaysArrives == Spec => []SentinelArrives
<1>1. AnyInv => SentinelArrives
  BY DEF AnyInv, Shape
<1> QED BY <1>1, AnyInit, AnyStep, PTL DEF Spec

(* Catch mode leaves no engine call behind, and a queue.json with every      *)
(* download the user confirmed, those confirmed after the queue was stopped  *)
(* included, whatever leaves the loop and whatever handlers outlive it       *)
(* (service.py:895-905).                                                     *)
THEOREM EndsCleanly == Spec => []EndIsClean
<1>1. AnyInv => EndIsClean
  BY DEF AnyInv
<1> QED BY <1>1, AnyInit, AnyStep, PTL DEF Spec

(* The prompts, the thread of POST /shutdown and the last save, which catch  *)
(* mode adds to the queue's own threads, break none of the queue's           *)
(* guarantees: those of Manager hold of the queue inside catch mode.         *)
THEOREM QueueKeptInCatch ==
  Spec => /\ [](M!OneRunPerDownload /\ M!AtMostMaxConcurrent /\ M!StopIsClean)
          /\ M!NotOvertaken
          /\ M!KeepsThePromise
<1>1. AnyInv => M!OneRunPerDownload /\ M!AtMostMaxConcurrent /\ M!StopIsClean
  <2> SUFFICES ASSUME AnyInv
               PROVE  M!OneRunPerDownload /\ M!AtMostMaxConcurrent /\ M!StopIsClean
    OBVIOUS
  <2>1. Q!OneRunPerDownload /\ Q!AtMostMaxConcurrent /\ Q!StopIsClean
    BY DEF AnyInv, QueueInv, Q!RowInv, Q!Inv, Q!FewRun
  <2>2. M!Running = Q!Running /\ M!Submitted = Q!Submitted /\ M!Executed = Q!Executed
    BY DEF M!Running, Q!Running, M!Submitted, Q!Submitted, M!Executed, Q!Executed
  <2>3. M!OneRunPerDownload
    BY <2>1, <2>2 DEF M!OneRunPerDownload, Q!OneRunPerDownload
  <2>4. M!AtMostMaxConcurrent
    BY <2>1, <2>2, SameCardinality DEF M!AtMostMaxConcurrent, Q!AtMostMaxConcurrent
  <2>5. M!StopIsClean
    BY <2>1, <2>2, SameSaved DEF M!StopIsClean, Q!StopIsClean
  <2> QED BY <2>3, <2>4, <2>5
<1>2. Spec => M!NotOvertaken
  <2> DEFINE Turn == \A d, e \in Ids :
                       /\ dl[d].state = "queued" /\ dl'[d].state = "running"
                       /\ dl[e].state = "queued" /\ asked[e] = "add"
                       => d <= e
  <2>1. AnyInv /\ [Next]_vars => [Turn]_(M!vars)
    BY QueueStep DEF AnyInv, Shape
  <2>2. Spec => [][Turn]_(M!vars)
    BY <2>1, AnyInit, AnyStep, PTL DEF Spec
  <2> QED BY <2>2 DEF M!NotOvertaken
<1>3. Spec => M!KeepsThePromise
  <2>1. Init => M!Promise!Init
    BY DEF Init, M!Init, M!Stage, M!Serving, M!Absent, M!Record, M!Promise!Init
  <2>2. M!Stage = Q!Stage /\ M!Stage' = Q!Stage'
    BY DEF M!Stage, Q!Stage, M!Serving, Q!Serving, M!StageOf, Q!StageOf, M!OnDisk, Q!OnDisk
  <2>3. Q!Promise!Next => M!Promise!Next
    BY <2>2 DEF Q!Promise!Next, M!Promise!Next, Q!Promise!Forgotten, M!Promise!Forgotten,
        Q!Promise!Accepted, M!Promise!Accepted, Q!Promise!Ended, M!Promise!Ended,
        Q!Promise!Again, M!Promise!Again, Q!Promise!Ends, M!Promise!Ends
  <2>4. AnyInv /\ [Next]_vars => [M!Promise!Next]_(M!Stage)
    BY <2>2, <2>3, QueueStep DEF AnyInv, Shape
  <2> QED BY <2>1, <2>4, AnyInit, AnyStep, PTL DEF Spec, M!KeepsThePromise, M!Promise!Spec
<1> QED BY <1>1, <1>2, <1>3, AnyInit, AnyStep, PTL DEF Spec

-----------------------------------------------------------------------------
(* The invariant when no handler is late. *)

(* Where the main thread is, and what it holds.  Only an exception takes a   *)
(* link out of the loop.                                                     *)
Held ==
  /\ pc \in {"get", "offer", "ask", "drain", "stop", "close", "ended"}
  /\ cur \in Links \cup {0}
  /\ cur # 0 => pc \in {"offer", "ask"} \/ (aborted /\ ~InLoop)

(* A handler may put its link in the queue as long as the process is there,  *)
(* but once the links left over have been printed none is at work, and the   *)
(* queue has no link left.                                                   *)
Shutting ==
  /\ pending \in Seq(Links \cup {0})
  /\ stopper = "put" => ~serving
  /\ (\E i \in DOMAIN pending : pending[i] = 0) => ~serving
  /\ ~InLoop => aborted \/ ~serving
  /\ pc \in {"stop", "close", "ended"} =>
       NoFlagUnderWay /\ \A i \in DOMAIN pending : pending[i] = 0

LEMMA HeldStep ==
  ASSUME Held, pending \in Seq(Links \cup {0}), [Next]_vars
  PROVE  Held'
<1>1. CASE UNCHANGED <<pc, cur, aborted>>
  BY <1>1 DEF Held, InLoop
<1>2. CASE Take
  <2>1. Head(pending) \in Links /\ UNCHANGED aborted
    BY <1>2 DEF Take
  <2> QED BY <1>2, <2>1 DEF Take, Held, InLoop
<1>3. CASE Declined \/ Resumed \/ Added
  BY <1>3 DEF Declined, Resumed, Added, Settle, Held, InLoop
<1>4. CASE Sentinel \/ Drain \/ StopQueue \/ Close
  BY <1>4 DEF Sentinel, Drain, StopQueue, Close, Held, InLoop
<1>5. CASE TakeRaises
  <2>1. Head(pending) \in Links
    BY <1>5 DEF TakeRaises
  <2> QED BY <1>5, <2>1 DEF TakeRaises, Abort, Held, InLoop
<1>6. CASE ResumeRaises \/ Interrupted
  BY <1>6 DEF ResumeRaises, Interrupted, Abort, Held, InLoop
<1> QED BY <1>1, <1>2, <1>3, <1>4, <1>5, <1>6
        DEF Next, Main, LeaveLoop, Prompt, Flag, Put, Command, AskStop, StopServer, PutNone, Redraw,
            Queueing, cvars, vars

LEMMA ShuttingStep ==
  ASSUME "late" \notin Faults, Shutting, [Next]_vars
  PROVE  Shutting'
<1>1. ASSUME NEW l \in Links, Flag(l) PROVE Shutting'
  <2>1. /\ UNCHANGED <<pending, pc, serving, stopper, aborted>>
        /\ pc \notin {"stop", "close", "ended"}
    BY <1>1 DEF Flag, Shutting, InLoop
  <2> QED BY <2>1 DEF Shutting, InLoop
<1>2. ASSUME NEW l \in Links, Put(l) PROVE Shutting'
  <2>1. /\ pending' = pending \/ pending' = Append(pending, l)
        /\ link[l] = "checked" /\ UNCHANGED <<pc, serving, stopper, aborted>>
    BY <1>2 DEF Put
  <2>2. pending \in Seq(Links \cup {0}) /\ l # 0 /\ pc \notin {"stop", "close", "ended"}
    BY <2>1, CatchAssumption DEF Shutting, NoFlagUnderWay
  <2>3. /\ pending' \in Seq(Links \cup {0})
        /\ \A i \in DOMAIN pending' : (i \in DOMAIN pending /\ pending'[i] = pending[i]) \/ pending'[i] = l
    BY <2>1, <2>2, PendingAppend
  <2> QED BY <2>1, <2>2, <2>3 DEF Shutting, InLoop
<1>3. CASE UNCHANGED <<link, pending, pc, serving, stopper, aborted>>
  BY <1>3 DEF Shutting, InLoop, NoFlagUnderWay
<1>4. CASE AskStop \/ StopServer
  BY <1>4 DEF AskStop, StopServer, Shutting, InLoop, NoFlagUnderWay
<1>5. CASE PutNone
  <2>1. /\ pending' = Append(pending, 0) /\ stopper = "put" /\ stopper' = "none"
        /\ UNCHANGED <<link, pc, serving, aborted>>
    BY <1>5 DEF PutNone
  <2>2. /\ pending' \in Seq(Links \cup {0})
        /\ \A i \in DOMAIN pending' : (i \in DOMAIN pending /\ pending'[i] = pending[i]) \/ pending'[i] = 0
    BY <2>1, PendingAppend DEF Shutting
  <2> QED BY <2>1, <2>2 DEF Shutting, InLoop, NoFlagUnderWay
<1>6. CASE Take \/ Sentinel \/ TakeRaises
  <2>1. /\ pending # <<>> /\ pending' = Tail(pending)
        /\ \/ pc' \in {"offer", "ask"}
           \/ pc' = "drain" /\ (Head(pending) = 0 \/ aborted')
        /\ UNCHANGED <<serving, stopper>>
    BY <1>6 DEF Take, Sentinel, TakeRaises, Abort
  <2>2. pending' \in Seq(Links \cup {0}) /\ ((\E i \in DOMAIN pending' : pending'[i] = 0) => ~serving)
    BY <2>1, PendingTail DEF Shutting
  <2>3. Head(pending) = 0 => ~serving
    BY <2>1, PendingTail DEF Shutting
  <2> QED BY <2>1, <2>2, <2>3 DEF Shutting, InLoop
<1>7. CASE Declined \/ Resumed \/ Added
  <2>1. pc' = "get" /\ UNCHANGED <<pending, serving, stopper, aborted>>
    BY <1>7 DEF Declined, Resumed, Added, Settle
  <2> QED BY <2>1 DEF Shutting, InLoop
<1>8. CASE ResumeRaises \/ Interrupted
  BY <1>8 DEF ResumeRaises, Interrupted, Abort, Shutting, InLoop
<1>9. CASE Drain
  <2>1. pc = "drain" /\ UNCHANGED <<serving, stopper, aborted>>
    BY <1>9 DEF Drain
  <2>2. CASE pending = <<>>
    BY <1>9, <2>1, <2>2 DEF Drain, Shutting, InLoop, NoFlagUnderWay
  <2>3. CASE pending # <<>>
    <3>1. pending' = Tail(pending) /\ pc' = pc
      BY <1>9, <2>3 DEF Drain, PrintNext
    <3>2. pending' \in Seq(Links \cup {0}) /\ ((\E i \in DOMAIN pending' : pending'[i] = 0) => ~serving)
      BY <2>3, <3>1, PendingTail DEF Shutting
    <3> QED BY <2>1, <3>1, <3>2 DEF Shutting, InLoop
  <2> QED BY <2>2, <2>3
<1>10. CASE StopQueue \/ Close
  BY <1>10 DEF StopQueue, Close, Shutting, InLoop, NoFlagUnderWay
<1> QED BY <1>1, <1>2, <1>3, <1>4, <1>5, <1>6, <1>7, <1>8, <1>9, <1>10
        DEF Next, Main, LeaveLoop, Prompt, Command, Redraw, Queueing, cvars, vars

(* A link that is handed over and stays so is still waiting, or is the one   *)
(* that was taken out of the loop.                                           *)
LEMMA LostStep ==
  ASSUME Held, Shutting, Held', link \in [Links -> LinkStages], NothingLost, [Next]_vars
  PROVE  NothingLost'
<1>0. 0 \notin Links
  BY CatchAssumption
<1>1. CASE UNCHANGED <<link, pending, pc, cur>>
  BY <1>1 DEF NothingLost, Waiting
<1>2. ASSUME NEW l \in Links, Flag(l) PROVE NothingLost'
  BY <1>2 DEF Flag, NothingLost, Waiting
<1>3. ASSUME NEW l \in Links, Put(l) PROVE NothingLost'
  <2>1. UNCHANGED <<pc, cur>> /\ pc # "ended"
    BY <1>3 DEF Put
  <2>2. CASE pending' = pending /\ link' = [link EXCEPT ![l] = "refused"]
    BY <2>1, <2>2 DEF NothingLost, Waiting
  <2>3. CASE pending' = Append(pending, l) /\ link' = [link EXCEPT ![l] = "handed"]
    <3>1. Waiting \cup {l} \subseteq Waiting'
      BY <2>1, <2>3, PendingAppend DEF Waiting, Shutting
    <3> QED BY <2>1, <2>3, <3>1 DEF NothingLost
  <2> QED BY <1>3, <2>2, <2>3 DEF Put
<1>4. CASE PutNone
  <2>1. pending' = Append(pending, 0) /\ UNCHANGED <<link, pc, cur>>
    BY <1>4 DEF PutNone
  <2>2. Waiting \subseteq Waiting'
    BY <2>1, PendingAppend DEF Waiting, Shutting
  <2> QED BY <2>1, <2>2 DEF NothingLost
<1>5. CASE Take \/ Sentinel \/ TakeRaises
  <2>1. /\ pending # <<>> /\ pending' = Tail(pending) /\ pc = "get" /\ pc' # "ended"
        /\ UNCHANGED link /\ (cur' = Head(pending) \/ (cur' = cur /\ Head(pending) = 0))
    BY <1>5 DEF Take, Sentinel, TakeRaises, Abort
  <2>2. cur = 0
    BY <2>1 DEF Held, InLoop
  <2>3. Waiting \subseteq Waiting' \cup {0}
    <3>1. \A i \in DOMAIN pending : pending[i] = Head(pending) \/ \E j \in DOMAIN pending' : pending'[j] = pending[i]
      BY <2>1, PendingTail DEF Shutting
    <3> QED BY <2>1, <2>2, <3>1 DEF Waiting
  <2> QED BY <1>0, <2>1, <2>3 DEF NothingLost
<1>6. CASE Declined \/ Resumed \/ Added
  <2>1. /\ link' = [link EXCEPT ![cur] = "answered"] /\ pc' = "get"
        /\ UNCHANGED pending
    BY <1>6 DEF Declined, Resumed, Added, Settle
  <2>2. Waiting \subseteq Waiting' \cup {cur}
    BY <2>1 DEF Waiting
  <2> QED BY <2>1, <2>2 DEF NothingLost
<1>7. CASE ResumeRaises \/ Interrupted
  <2>1. pc' = "drain" /\ UNCHANGED <<link, pending, cur>>
    BY <1>7 DEF ResumeRaises, Interrupted, Abort
  <2> QED BY <2>1 DEF NothingLost, Waiting
<1>8. CASE Drain
  <2>1. pc = "drain" /\ pc' # "ended" /\ cur' = cur
    BY <1>8 DEF Drain
  <2>2. CASE pending = <<>>
    BY <1>8, <2>1, <2>2 DEF Drain, NothingLost, Waiting
  <2>3. CASE pending # <<>>
    <3>1. /\ pending' = Tail(pending)
          /\ link' = [l \in Links |-> IF l = Head(pending) THEN "reported" ELSE link[l]]
      BY <1>8, <2>3 DEF Drain, PrintNext
    <3>2. \A i \in DOMAIN pending : pending[i] = Head(pending) \/ \E j \in DOMAIN pending' : pending'[j] = pending[i]
      BY <2>3, <3>1, PendingTail DEF Shutting
    <3>3. Waiting \subseteq Waiting' \cup {Head(pending)}
      BY <2>1, <3>2 DEF Waiting
    <3> QED BY <2>1, <3>1, <3>3 DEF NothingLost
  <2> QED BY <2>2, <2>3
<1>9. CASE StopQueue \/ Close
  <2>1. /\ pc \in {"stop", "close"} /\ UNCHANGED <<link, pending, cur>>
    BY <1>9 DEF StopQueue, Close
  <2>2. Waiting \subseteq {0, cur}
    BY <2>1 DEF Shutting, Waiting
  <2>3. \A l \in Links : link[l] = "handed" => l = cur
    BY <1>0, <2>2 DEF NothingLost
  <2> QED BY <2>1, <2>3 DEF NothingLost, Waiting
<1> QED BY <1>1, <1>2, <1>3, <1>4, <1>5, <1>6, <1>7, <1>8, <1>9
        DEF Next, Main, LeaveLoop, Prompt, Command, AskStop, StopServer, Redraw, Queueing, cvars, vars

CatchInv == AnyInv /\ Held /\ Shutting /\ NothingLost

LEMMA CatchInit == Init => CatchInv
<1> SUFFICES ASSUME Init PROVE CatchInv
  OBVIOUS
<1>1. <<>> \in Seq(Links \cup {0}) /\ DOMAIN <<>> = {}
  OBVIOUS
<1>2. Held /\ Shutting
  BY <1>1 DEF Init, Held, Shutting, InLoop
<1>3. NothingLost
  BY DEF Init, NothingLost
<1> QED BY <1>2, <1>3, AnyInit DEF CatchInv

LEMMA CatchStep ==
  ASSUME "late" \notin Faults, CatchInv, [Next]_vars
  PROVE  CatchInv'
<1>1. AnyInv' /\ link \in [Links -> LinkStages]
  BY AnyStep DEF CatchInv, AnyInv, Shape, TypeOK
<1>2. Held'
  BY HeldStep DEF CatchInv, Shutting
<1>3. Shutting'
  BY ShuttingStep DEF CatchInv
<1>4. NothingLost'
  BY <1>1, <1>2, LostStep DEF CatchInv
<1> QED BY <1>1, <1>2, <1>3, <1>4 DEF CatchInv

(* A link that was answered 202 waits, or has been asked about or printed,   *)
(* even when POST /shutdown closes the server under the handler that puts it *)
(* in the queue, and however the loop is left: by the sentinel, by Ctrl-C    *)
(* anywhere, by rebind() that finds the download or its sidecar changed, or  *)
(* by a port that cannot be read.  Only the link that was in hand when an    *)
(* exception left the loop is not accounted for.  The assumption is that the *)
(* resolver does not keep a handler until the links left over have been      *)
(* printed (service.py:470-501, 832-905).                                    *)
THEOREM NoLinkLost ==
  ASSUME "late" \notin Faults
  PROVE  Spec => []NothingLost
<1>1. CatchInv /\ [Next]_vars => CatchInv'
  BY CatchStep
<1>2. CatchInv => NothingLost
  BY DEF CatchInv
<1> QED BY <1>1, <1>2, CatchInit, PTL DEF Spec
=============================================================================
