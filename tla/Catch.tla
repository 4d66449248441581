------------------------------- MODULE Catch -------------------------------
(***************************************************************************)
(* Catch mode (src/tdm service.py, run_catch, and extension/background.js):*)
(* the browser hands links over, the user is asked about each of them on   *)
(* the main thread, and what is confirmed goes to the download queue,      *)
(* which is Manager.                                                       *)
(*                                                                         *)
(* Four kinds of thread meet here: the main thread with its prompts, the   *)
(* handlers of /ext/flag and of the commands, the thread of POST /shutdown,*)
(* and Manager's.  A download the extension has cancelled in the browser   *)
(* exists only here.  Handlers are daemon threads: closing the server ends *)
(* none of them, only the end of the process does.                         *)
(***************************************************************************)
EXTENDS Naturals, Sequences, FiniteSets

CONSTANTS
  Ids, Hosts, HostOf, MaxConcurrent, KeepTerminal,  \* of Manager
  MaxCalls, MaxStops, MaxCrashes, MaxFailures,      \* its bounds
  Links,       \* downloads the browser starts
  PendingMax,  \* _PENDING_MAX
  Faults       \* what else may happen, see the ASSUME

(* "ctrlc": Ctrl-C while the main thread has a link, at a prompt or while it *)
(* probes the link, and not only between two.  "stale": the download a       *)
(* prompt offers to resume is resumed or cancelled meanwhile.  "sidecar":    *)
(* its sidecar is gone (another record of that file has finished, or fell    *)
(* back to one connection) or cannot be read or written.  "badport": a link, *)
(* or a stalled download, has a port out of range.  "late": a handler of     *)
(* /ext/flag is at work when the links left over have been printed, or       *)
(* starts after that though the loop was left by Ctrl-C or an error.         *)
(* Kills and writes of queue.json that raise are left to Manager.            *)
ASSUME CatchAssumption ==
  /\ Links \subseteq Nat \ {0} /\ Ids \subseteq Nat \ {0}
  /\ HostOf \in [Ids -> Hosts]
  /\ MaxConcurrent \in Nat \ {0} /\ KeepTerminal \in Nat \ {0}
  /\ MaxCalls \in Nat /\ MaxStops \in Nat
  /\ PendingMax \in Nat \ {0}
  /\ MaxCrashes = 0 /\ MaxFailures = 0
  /\ Faults \subseteq {"ctrlc", "stale", "sidecar", "badport", "late"}

VARIABLES
  dl, order, caps, tasks, runs, scheduler, phase, disk, asked,
  calls, stops, crashes, failures,  \* of Manager
  link,      \* where each link has got to
  pending,   \* the queue of flagged links; 0 is the sentinel None
  pc,        \* where the main thread is
  cur, cand, \* the link it has taken, the download it offers to resume
  watched,   \* the downloads it draws: "live", then "shown" once it has ended
  serving,   \* whether the server accepts requests
  stopper,   \* the thread of POST /shutdown
  aborted    \* whether the main thread left its loop by an exception

M == INSTANCE Manager

mvars == <<dl, order, caps, tasks, runs, scheduler, phase, disk, asked,
           calls, stops, crashes, failures>>
cvars == <<link, pending, pc, cur, cand, watched, serving, stopper, aborted>>
vars == <<mvars, cvars>>

Init ==
  /\ M!Init
  /\ link = [l \in Links |-> "browser"] /\ pending = <<>>
  /\ pc = "get" /\ cur = 0 /\ cand = 0
  /\ watched = [d \in Ids |-> "no"]
  /\ serving = TRUE /\ stopper = "none" /\ aborted = FALSE

InLoop == pc \in {"get", "offer", "ask"}

-----------------------------------------------------------------------------
(* Requests *)

(* The extension flags a link, and a handler checks the link's host, which   *)
(* takes as long as the resolver does.                                       *)
Flag(l) ==
  /\ serving /\ link[l] = "browser"
  /\ aborted /\ pc # "drain" => "late" \in Faults
  /\ link' = [link EXCEPT ![l] = "checked"]
  /\ UNCHANGED <<mvars, pending, pc, cur, cand, watched, serving, stopper, aborted>>

(* Mutant of Put: the queue has no bound. *)
PutUnbounded(l) ==
  /\ pc # "ended" /\ link[l] = "checked"
  /\ pending' = Append(pending, l) /\ link' = [link EXCEPT ![l] = "handed"]
  /\ UNCHANGED <<mvars, pc, cur, cand, watched, serving, stopper, aborted>>

(* It puts the link in the queue, whether the server is still open or not,   *)
(* and on its 202 the extension cancels the browser's download; the link is  *)
(* blocked, or there is no room, and the extension leaves that alone.        *)
Put(l) ==
  /\ pc # "ended" /\ link[l] = "checked"
  /\ \/ /\ Len(pending) < PendingMax
        /\ pending' = Append(pending, l) /\ link' = [link EXCEPT ![l] = "handed"]
     \/ link' = [link EXCEPT ![l] = "refused"] /\ UNCHANGED pending
  /\ UNCHANGED <<mvars, pc, cur, cand, watched, serving, stopper, aborted>>

(* The other routes call the queue; their handlers, too, may do so after the *)
(* server has closed.                                                        *)
Command(d) ==
  /\ pc # "ended"
  /\ \/ M!Add(d) \/ M!Pause(d)
     \/ (pc = "offer" /\ d = cand => "stale" \in Faults) /\ (M!Resume(d) \/ M!Cancel(d))
  /\ UNCHANGED cvars

(* POST /shutdown: a thread stops the queue, *)
AskStop ==
  /\ serving /\ stopper = "none" /\ M!Shutdown
  /\ stopper' = "queue"
  /\ UNCHANGED <<link, pending, pc, cur, cand, watched, serving, aborted>>

(* Mutant of StopServer: the sentinel is sent before the server stops. *)
StopServerLast ==
  /\ stopper = "queue" /\ phase = "stopped" /\ stopper' = "put"
  /\ UNCHANGED <<mvars, link, pending, pc, cur, cand, watched, serving, aborted>>

(* then the server: no request is accepted any more, *)
StopServer ==
  /\ stopper = "queue" /\ phase = "stopped"
  /\ serving' = FALSE /\ stopper' = "put"
  /\ UNCHANGED <<mvars, link, pending, pc, cur, cand, watched, aborted>>

(* Mutant of PutNone: it is not sent when there is no room. *)
PutNoneNowait ==
  /\ stopper = "put" /\ stopper' = "none"
  /\ pending' = IF Len(pending) < PendingMax THEN Append(pending, 0) ELSE pending
  /\ UNCHANGED <<mvars, link, pc, cur, cand, watched, serving, aborted>>

(* and sends the main thread away, once there is room for that. *)
PutNone ==
  /\ stopper = "put" /\ Len(pending) < PendingMax
  /\ pending' = Append(pending, 0) /\ stopper' = "none"
  /\ UNCHANGED <<mvars, link, pc, cur, cand, watched, serving, aborted>>

-----------------------------------------------------------------------------
(* The main thread *)

(* Mutant of Drawn: what has ended is not drawn again. *)
DrawnOnce(w, recs) ==
  [d \in Ids |-> IF w[d] = "live" /\ recs[d].state \in M!Terminal THEN "shown" ELSE w[d]]

(* _frame_rows: an ended download is drawn as being combined, then as ended, *)
(* and then no more.                                                         *)
Drawn(w, recs) ==
  [d \in Ids |-> IF w[d] = "no" \/ recs[d].state \notin M!Terminal THEN w[d]
                 ELSE IF w[d] = "live" THEN "shown" ELSE "no"]

(* Every half second without a link. *)
Redraw ==
  /\ pc = "get" /\ pending = <<>> /\ watched' = Drawn(watched, dl)
  /\ UNCHANGED <<mvars, link, pending, pc, cur, cand, serving, stopper, aborted>>

(* A link is taken.  The download it may be the fresh link of is stalled,    *)
(* has been probed, and a probe of the link confirms it: then it is offered. *)
Take ==
  /\ pc = "get" /\ pending # <<>> /\ Head(pending) # 0
  /\ pending' = Tail(pending) /\ cur' = Head(pending)
  /\ \/ cand' = 0 /\ pc' = "ask"
     \/ /\ cand' \in {d \in Ids : dl[d].state \in {"paused", "error"} /\ dl[d].named}
        /\ pc' = "offer"
  /\ UNCHANGED <<mvars, link, watched, serving, stopper, aborted>>

(* The answer settles the link, and the next one is taken. *)
Settle(w) ==
  /\ link' = [link EXCEPT ![cur] = "answered"]
  /\ pc' = "get" /\ cur' = 0 /\ cand' = 0
  /\ watched' = Drawn(w, dl')
  /\ UNCHANGED <<pending, serving, stopper, aborted>>

Declined == pc \in {"offer", "ask"} /\ UNCHANGED mvars /\ Settle(watched)

Resumed ==
  /\ pc = "offer" /\ M!Rebind(cand)
  /\ Settle([watched EXCEPT ![cand] = "live"])

(* A new download.  What add() raises is printed. *)
Added ==
  /\ pc = "ask"
  /\ \/ \E d \in Ids : M!Add(d) /\ Settle([watched EXCEPT ![d] = "live"])
     \/ UNCHANGED mvars /\ Settle(watched)

Sentinel ==
  /\ pc = "get" /\ pending # <<>> /\ Head(pending) = 0
  /\ pending' = Tail(pending) /\ pc' = "drain"
  /\ UNCHANGED <<mvars, link, cur, cand, watched, serving, stopper, aborted>>

(* The main thread leaves its loop by an exception, and with it the link it  *)
(* has taken.                                                                *)
Abort ==
  /\ pc' = "drain" /\ cand' = 0 /\ aborted' = TRUE
  /\ UNCHANGED <<mvars, link, watched, serving, stopper>>

(* _url_key reads the port of the link, and of every stalled download. *)
TakeRaises ==
  /\ "badport" \in Faults
  /\ pc = "get" /\ pending # <<>> /\ Head(pending) # 0
  /\ pending' = Tail(pending) /\ cur' = Head(pending)
  /\ Abort

(* rebind() raises: the download is not stalled any more, or has no sidecar. *)
ResumeRaises ==
  /\ pc = "offer"
  /\ dl[cand].state \notin {"paused", "error"} \/ "sidecar" \in Faults
  /\ UNCHANGED <<cur, pending>> /\ Abort

Interrupted ==
  /\ pc = "get" \/ (pc \in {"offer", "ask"} /\ "ctrlc" \in Faults)
  /\ UNCHANGED <<cur, pending>> /\ Abort

LeaveLoop == TakeRaises \/ ResumeRaises \/ Interrupted

NoFlagUnderWay == \A l \in Links : link[l] # "checked"

(* What Drain does with a queue that is not empty. *)
PrintNext ==
  /\ pending' = Tail(pending)
  /\ link' = [l \in Links |-> IF l = Head(pending) THEN "reported" ELSE link[l]]

(* Mutant of Drain: one link only. *)
DrainOne ==
  /\ pc = "drain" /\ pc' = "stop"
  /\ IF pending = <<>> THEN UNCHANGED <<pending, link>> ELSE PrintNext
  /\ UNCHANGED <<mvars, cur, cand, watched, serving, stopper, aborted>>

(* The finally of run_catch: the links left over are printed, *)
Drain ==
  /\ pc = "drain"
  /\ \/ pending # <<>> /\ PrintNext /\ UNCHANGED pc
     \/ /\ pending = <<>> /\ ("late" \in Faults \/ NoFlagUnderWay)
        /\ pc' = "stop" /\ UNCHANGED <<pending, link>>
  /\ UNCHANGED <<mvars, cur, cand, watched, serving, stopper, aborted>>

(* the queue is stopped, if it has not been, *)
StopQueue ==
  /\ pc = "stop" /\ pc' = "close"
  /\ IF phase = "stopped" THEN UNCHANGED mvars ELSE M!Shutdown
  /\ UNCHANGED <<link, pending, cur, cand, watched, serving, stopper, aborted>>

(* Mutant of Close: the main thread does not wait for the queue. *)
CloseAtOnce ==
  /\ pc = "close" /\ pc' = "ended" /\ serving' = FALSE
  /\ disk' = M!Saved(dl, order)
  /\ UNCHANGED <<dl, order, caps, tasks, runs, scheduler, phase, asked,
                 calls, stops, crashes, failures, link, pending, cur, cand, watched, stopper, aborted>>

(* its last save waits for it, and the server stops. *)
Close ==
  /\ pc = "close" /\ phase = "stopped" /\ pc' = "ended" /\ serving' = FALSE
  /\ disk' = M!Saved(dl, order)
  /\ UNCHANGED <<dl, order, caps, tasks, runs, scheduler, phase, asked,
                 calls, stops, crashes, failures, link, pending, cur, cand, watched, stopper, aborted>>

-----------------------------------------------------------------------------
Queueing(step) == pc # "ended" /\ step /\ UNCHANGED cvars
Prompt == Declined \/ Resumed \/ Added
Main == Redraw \/ Take \/ Prompt \/ Sentinel \/ Drain \/ StopQueue \/ Close

Next ==
  \/ \E l \in Links : Flag(l) \/ Put(l)
  \/ \E d \in Ids : Command(d)
  \/ AskStop \/ StopServer \/ PutNone
  \/ Main \/ LeaveLoop
  \/ Queueing(M!Schedule) \/ Queueing(M!Start) \/ Queueing(M!ShutdownEnds)
  \/ \E r \in runs : Queueing(M!RunStep(r))

Spec == Init /\ [][Next]_vars

(* The user answers each prompt; threads run, and the resolver answers them; *)
(* engine calls end.                                                         *)
FairSpec ==
  /\ Spec
  /\ \A l \in Links : WF_vars(Put(l))
  /\ WF_vars(Main) /\ WF_vars(StopServer) /\ WF_vars(PutNone)
  /\ WF_vars(Queueing(M!Schedule)) /\ WF_vars(Queueing(M!Start))
  /\ WF_vars(Queueing(M!ShutdownEnds))
  /\ \A d \in Ids : WF_vars(\E r \in runs : r.id = d /\ Queueing(M!RunStep(r)))

-----------------------------------------------------------------------------
(* Properties *)

LinkStages == {"browser", "checked", "refused", "handed", "answered", "reported"}

(* The variables of this module have their types, and the queue its bound. *)
TypeOK ==
  /\ link \in [Links -> LinkStages]
  /\ pending \in Seq(Links \cup {0}) /\ Len(pending) <= PendingMax
  /\ pc \in {"get", "offer", "ask", "drain", "stop", "close", "ended"}
  /\ cur \in Links \cup {0} /\ cand \in Ids \cup {0}
  /\ watched \in [Ids -> {"no", "live", "shown"}]
  /\ serving \in BOOLEAN /\ stopper \in {"none", "queue", "put"} /\ aborted \in BOOLEAN

(* A link the browser has given up for 202 (background.js:60-66) waits, is   *)
(* asked about, or has been answered or printed.  However the loop is left,  *)
(* none is lost but the one the main thread had in hand then.                *)
Waiting == {pending[i] : i \in DOMAIN pending} \cup {cur}
NothingLost ==
  \A l \in Links : link[l] = "handed" => l \in Waiting /\ (pc = "ended" => l = cur)

(* Catch mode leaves no engine call behind, and a queue.json that has every  *)
(* download the user confirmed, even after the queue was stopped.            *)
EndIsClean == pc = "ended" => runs = {} /\ tasks = <<>> /\ disk = M!Saved(dl, order)

(* "One bad link must not kill the loop" (service.py:860): an exception that *)
(* leaves the loop finds no link in the main thread's hands.  "ctrlc",       *)
(* "stale", "sidecar" and "badport" each break it.                           *)
LoopSurvives == aborted => cur = 0

(* Every link that was accepted is answered or printed (each is flagged only *)
(* once, so in the end none waits), but the one at which the loop was left.  *)
LinksSettle == <>[](\A l \in Links : link[l] = "handed" => aborted /\ l = cur)

(* `tdm stop` ends catch mode, though the sentinel needs room in the queue   *)
(* and the main thread may be at a prompt.                                   *)
StopEndsCatch == stopper = "queue" ~> pc = "ended"

(* Once the server is closed only the sentinel ends the loop, and it is then *)
(* behind the links that wait, or on its way (service.py:537-542, 843-849).  *)
SentinelArrives ==
  ~serving /\ InLoop => stopper = "put" \/ 0 \in {pending[i] : i \in DOMAIN pending}

(* Each end of a download that is drawn is drawn to its last line. *)
EndsAreDrawn ==
  \A d \in Ids : watched[d] # "no" /\ dl[d].state \in M!Terminal ~>
                   watched[d] = "no" \/ dl[d].state \notin M!Terminal \/ ~InLoop
=============================================================================
