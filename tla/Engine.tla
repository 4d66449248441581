------------------------------- MODULE Engine -------------------------------
(***************************************************************************)
(* The download engine (src/tdm/engine.py) over one output path.           *)
(*                                                                         *)
(* Successive calls of download() share three files: `part` (<name>.part), *)
(* `meta` (the resume sidecar <name>.tdm.json) and `final` (the output).   *)
(* A call probes the server, then either fetches the ranges of the file    *)
(* with one worker thread per range, while the main thread saves their     *)
(* progress to the sidecar every SAVE_INTERVAL, or streams the whole body  *)
(* over one connection.  A call can be cancelled, fail at any step, or be  *)
(* killed with its process; the next call finds the files as they are.     *)
(*                                                                         *)
(* A file is a function from 0..length-1 to cells: the resource its byte   *)
(* comes from, Hole for a byte truncate() made up, Junk for a byte of a    *)
(* redirect's body.  So "the file is right" is: all its cells are the same *)
(* resource.  A kill takes user-space buffers with it and leaves the       *)
(* kernel's: power loss is out of scope, as engine.py:3-5 says.            *)
(***************************************************************************)
EXTENDS Ranges

CONSTANTS
  Resources,    \* file contents the servers ever serve, numbered in the order published
  Urls,         \* resolved URLs whose downloads land on this output path
  UrlOf,        \* UrlOf[r]: the URL that serves r
  SizeOf,       \* SizeOf[r]: its length in bytes
  EtagOf,       \* EtagOf[r]: its validator, ETag or Last-Modified
  Etags, NoEtag,\* validators, and the one of a server that sends neither
  MaxLen,       \* bound on every length
  MaxSegments,  \* MAX_SEGMENTS
  SegChoices,   \* connection counts callers ask for
  Retries,      \* SEGMENT_RETRIES
  MaxChunk,     \* CHUNK, in cells
  AcceptRanges, \* what the probe may find: whether the server honours Range
  SizeReports,  \* ... and whether it announces the size
  Faults,       \* hazards of the code the run exposes it to (see FaultKinds)
  None          \* no such file, no current run

(* kill:      the process is killed while no reset waits for its sidecar    *)
(* killreset: ... or fails between the reset of `part` and the new sidecar  *)
(* buffer:    file.write() may keep a chunk in Python's buffer              *)
(* swap:      a server publishes a new resource in the middle of a run      *)
(* redirect:  a range request may be answered with a 3xx and a body         *)
(* star:      a probe's Content-Range may be "bytes 0-0/*", of unknown total *)
(* rebind:    the sidecar of a stalled download is pointed at a fresh URL    *)
FaultKinds == {"kill", "killreset", "buffer", "swap", "redirect", "star", "rebind"}

ASSUME ResourcesAssumption ==
  /\ Resources \subseteq Nat \ {0}
  /\ MaxLen \in Nat
  /\ UrlOf \in [Resources -> Urls]
  /\ SizeOf \in [Resources -> 1..MaxLen]
  /\ EtagOf \in [Resources -> Etags]
  /\ NoEtag \in Etags

(* A validator is strong: it names one content of its URL. *)
ASSUME StrongValidators ==
  \A r, s \in Resources :
    /\ UrlOf[r] = UrlOf[s]
    /\ EtagOf[r] = EtagOf[s]
    /\ EtagOf[r] # NoEtag
    /\ SizeOf[r] = SizeOf[s]
    => r = s

ASSUME CallsAssumption ==
  /\ MaxSegments \in Nat \ {0}
  /\ SegChoices \subseteq 1..MaxSegments
  /\ Retries \in Nat \ {0}
  /\ MaxChunk \in Nat \ {0}
  /\ AcceptRanges \subseteq BOOLEAN
  /\ SizeReports \subseteq BOOLEAN
  /\ Faults \subseteq FaultKinds

Hole == 0
Junk == -1
Cells == Resources \cup {Hole, Junk}
Files == UNION {[0..(n - 1) -> Cells] : n \in 0..MaxLen}

Slots == 1..MaxSegments
Sidecars ==
  [url : Urls, size : 0..MaxLen, etag : Etags,
   progress : UNION {[1..k -> 0..MaxLen] : k \in Slots}]

(* res is the resource the probe saw: the source of the run's size and etag. *)
(* size 0 is an unannounced size; body is what the single path streams.      *)
Runs == [url : Urls, res : Resources, size : 0..MaxLen, segs : Slots, body : Cells]

ASSUME NoneAssumption == None \notin Files \cup Sidecars \cup Runs

Blank(n) == [b \in 0..(n - 1) |-> Hole]
Whole(r) == [b \in 0..(SizeOf[r] - 1) |-> r]
HasLength(file, n) == file # None /\ DOMAIN file = 0..(n - 1)

(* A worker thread of the pool: `tries` attempts used up, the response it is *)
(* reading, `pend` bytes written and not yet counted in progress[i], and     *)
(* `cached` bytes handed to write() that Python still buffers.               *)
Live == {"ready", "stream"}
Ended == {"done", "cancelled", "norange", "failed"}
Workers ==
  [st : {"off"} \cup Live \cup Ended, tries : 0..Retries, body : Cells,
   pend : 0..MaxLen, cached : 0..MaxLen]
Worker(st, tries) == [st |-> st, tries |-> tries, body |-> Hole, pend |-> 0, cached |-> 0]
AllOff == [i \in Slots |-> Worker("off", 0)]
Zeros == [i \in Slots |-> 0]

VARIABLES
  served,    \* served[u]: the resource URL u serves now
  part, meta, final,
  pc, run, cancel, outcome,
  pending,   \* futures the main thread still waits for
  progress,  \* bytes completed per segment, shared by all threads
  worker

disk == <<part, meta, final>>
main == <<pc, run, cancel, outcome, pending>>
vars == <<served, disk, main, progress, worker>>

Pcs == {"idle", "load", "save", "saveReset", "check", "wait", "join", "gate", "promote",
        "unlink", "dropPart", "dropMeta", "single", "body"}
Outcomes == {"none", "cancelled", "norange", "failed", "error", "integrity", "short",
             "done", "killed"}

Need(i) == SegNeed(run.size, run.segs, i)
Pos(i) == SegStart(run.size, run.segs, i) + progress[i]

Init ==
  /\ served \in {s \in [Urls -> Resources] :
                   \A u \in Urls : UrlOf[s[u]] = u
                                   /\ \A r \in Resources : UrlOf[r] = u => s[u] <= r}
  /\ part = None /\ meta = None /\ final = None
  /\ pc = "idle" /\ run = None /\ cancel = FALSE /\ outcome = "none" /\ pending = {}
  /\ progress = Zeros /\ worker = AllOff

(* A thread that has ended leaves nothing behind; one that runs, runs on. *)
Reaped == [i \in Slots |-> IF worker[i].st \in Live THEN worker[i] ELSE Worker("off", 0)]

(* The call of download() is over, by return or by exception. *)
EndRun(o) ==
  /\ pc' = "idle" /\ run' = None /\ cancel' = FALSE /\ outcome' = o /\ pending' = {}
  /\ progress' = Zeros /\ worker' = Reaped

Goto(p) == pc' = p /\ UNCHANGED <<run, cancel, outcome, pending>>

-----------------------------------------------------------------------------
(* The main thread: download(), then _download_segmented() *)

(* The size _probe takes from Content-Range's total; without one, from the   *)
(* Content-Length, which is that of the single byte it asked for.            *)
Announced(r, ranged) ==
  {IF sized THEN SizeOf[r] ELSE 0 : sized \in SizeReports}
    \cup (IF ranged /\ "star" \in Faults THEN {1} ELSE {})

Probe(u, n) ==
  /\ pc = "idle"
  /\ \E ranged \in AcceptRanges : \E size \in Announced(served[u], ranged) :
       LET segmented == ranged /\ size > 0 IN
       /\ run' = [url |-> u, res |-> served[u], size |-> size,
                  segs |-> IF segmented THEN NumRanges(size, n) ELSE 1, body |-> Hole]
       /\ pc' = IF segmented THEN "load" ELSE "single"
  /\ outcome' = "none"
  /\ UNCHANGED <<served, disk, cancel, pending, progress, worker>>

(* Mutant of Trusted: the validator is not compared. *)
TrustedAnyVersion ==
  /\ meta # None
  /\ EtagOf[run.res] # NoEtag
  /\ meta.url = run.url /\ meta.size = run.size

(* _load_progress: the sidecar is of this URL, size and non-empty validator, *)
(* and counts no more bytes than the segments have.                          *)
Trusted ==
  /\ meta # None
  /\ EtagOf[run.res] # NoEtag
  /\ meta.url = run.url /\ meta.size = run.size /\ meta.etag = EtagOf[run.res]
  /\ \E k \in 1..run.size :
       /\ DOMAIN meta.progress = 1..k
       /\ \A i \in 1..k : meta.progress[i] <= SegNeed(run.size, k, i)

CanResume ==
  /\ Trusted
  /\ DOMAIN meta.progress = 1..run.segs
  /\ HasLength(part, run.size)

Resume ==
  /\ pc = "load" /\ CanResume
  /\ progress' = [i \in Slots |-> IF i <= run.segs THEN meta.progress[i] ELSE 0]
  /\ Goto("save")
  /\ UNCHANGED <<served, disk, worker>>

(* Mutant of Reset: a missing `part` is made anew, its counts are kept. *)
ResetKeepsCounts ==
  /\ pc = "load" /\ ~CanResume
  /\ part' = Blank(run.size)
  /\ progress' = [i \in Slots |->
       IF Trusted /\ DOMAIN meta.progress = 1..run.segs /\ i <= run.segs
       THEN meta.progress[i] ELSE 0]
  /\ Goto("saveReset")
  /\ UNCHANGED <<served, meta, final, worker>>

(* open(part, "wb"), truncate(size): the old bytes go before the new sidecar *)
(* says so.                                                                  *)
Reset ==
  /\ pc = "load" /\ ~CanResume
  /\ part' = Blank(run.size)
  /\ progress' = Zeros
  /\ Goto("saveReset")
  /\ UNCHANGED <<served, meta, final, worker>>

(* _save_progress.  The list is serialised slot by slot while workers count; *)
(* one atomic read stands for it, since each slot only grows.                *)
Snapshot ==
  [url |-> run.url, size |-> run.size, etag |-> EtagOf[run.res],
   progress |-> [i \in 1..run.segs |-> progress[i]]]

SaveInitial ==
  LET todo == {i \in 1..run.segs : progress[i] < Need(i)} IN
  /\ pc \in {"save", "saveReset"}
  /\ meta' = Snapshot
  /\ worker' = [i \in Slots |-> IF i \in todo THEN Worker("ready", 0) ELSE Worker("off", 0)]
  /\ pending' = todo
  /\ pc' = "check"
  /\ UNCHANGED <<served, part, final, run, cancel, outcome, progress>>

(* while pending and not cancel.is_set() *)
Check ==
  /\ pc = "check"
  /\ Goto(IF pending = {} \/ cancel THEN "join" ELSE "wait")
  /\ UNCHANGED <<served, disk, progress, worker>>

Finished == {i \in pending : worker[i].st \in Ended}

(* Mutant of Raised: the futures' exceptions are never looked at. *)
RaisedIgnored == {}

Raised == {i \in Finished : worker[i].st # "done"}

(* wait() returned: by its timeout, on the first exception, or all done. *)
Tick ==
  /\ pc = "wait" /\ Raised = {}
  /\ meta' = Snapshot
  /\ pending' = pending \ Finished
  /\ pc' = "check"
  /\ UNCHANGED <<served, part, final, run, cancel, outcome, progress, worker>>

(* Mutant of TickRaises: the fallback does not wait for the pool. *)
TickRaisesEagerly ==
  /\ pc = "wait"
  /\ \E i \in Raised :
       /\ outcome' = worker[i].st
       /\ pc' = IF worker[i].st = "norange" THEN "dropPart" ELSE "join"
  /\ meta' = Snapshot
  /\ pending' = pending \ Finished
  /\ UNCHANGED <<served, part, final, run, cancel, progress, worker>>

TickRaises ==
  /\ pc = "wait"
  /\ \E i \in Raised : outcome' = worker[i].st
  /\ meta' = Snapshot
  /\ pending' = pending \ Finished
  /\ pc' = "join"
  /\ UNCHANGED <<served, part, final, run, cancel, progress, worker>>

(* Ctrl-C in wait(), or a sidecar that cannot be written. *)
TickFails ==
  /\ pc = "wait"
  /\ pc' = "join" /\ outcome' = "error"
  /\ UNCHANGED <<served, disk, run, cancel, pending, progress, worker>>

(* ex.shutdown(wait=True, cancel_futures=True): threads that run are waited  *)
(* for, a task no thread has picked up is dropped.                           *)
DropQueued(i) ==
  /\ pc = "join" /\ worker[i] = Worker("ready", 0)
  /\ worker' = [worker EXCEPT ![i] = Worker("off", 0)]
  /\ UNCHANGED <<served, disk, main, progress>>

PoolIdle == \A i \in Slots : worker[i].st \notin Live

Joined ==
  /\ pc = "join" /\ PoolIdle
  /\ \/ outcome = "norange"
        /\ pc' = "dropPart" /\ outcome' = "none"
        /\ pending' = {} /\ progress' = Zeros /\ worker' = Reaped
        /\ UNCHANGED <<run, cancel>>
     \/ outcome \notin {"none", "norange"} /\ EndRun(outcome)
     \/ outcome = "none" /\ cancel /\ EndRun("cancelled")
     \/ outcome = "none" /\ ~cancel
        /\ pc' = "gate" /\ worker' = Reaped
        /\ UNCHANGED <<run, cancel, outcome, pending, progress>>
  /\ UNCHANGED <<served, disk>>

Complete == \A i \in 1..run.segs : progress[i] = Need(i)

(* The integrity gate, and the last save. *)
Gate ==
  /\ pc = "gate"
  /\ IF Complete
     THEN meta' = Snapshot /\ Goto("promote") /\ UNCHANGED <<progress, worker>>
     ELSE EndRun("integrity") /\ UNCHANGED meta
  /\ UNCHANGED <<served, part, final>>

(* os.replace(part, final), then meta.unlink(): both paths end with them. *)
Promote ==
  /\ pc = "promote"
  /\ final' = part /\ part' = None
  /\ Goto("unlink")
  /\ UNCHANGED <<served, meta, progress, worker>>

Unlink ==
  /\ pc = "unlink"
  /\ meta' = None
  /\ EndRun("done")
  /\ UNCHANGED <<served, part, final>>

(* RangeNotSupported: discard the partial download, then one connection. *)
DropPart ==
  /\ pc = "dropPart"
  /\ part' = None
  /\ Goto("dropMeta")
  /\ UNCHANGED <<served, meta, final, progress, worker>>

(* Mutant of DropMeta: the call returns without its second download. *)
DropMetaReturns ==
  /\ pc = "dropMeta"
  /\ meta' = None
  /\ EndRun("done")
  /\ UNCHANGED <<served, part, final>>

DropMeta ==
  /\ pc = "dropMeta"
  /\ meta' = None
  /\ Goto("single")
  /\ UNCHANGED <<served, part, final, progress, worker>>

-----------------------------------------------------------------------------
(* _download_single: one response, from zero, no retry *)

SingleRequest ==
  /\ pc = "single"
  /\ part' = Blank(0)
  /\ run' = [run EXCEPT !.body = served[run.url]]
  /\ pc' = "body"
  /\ UNCHANGED <<served, meta, final, cancel, outcome, pending, progress, worker>>

Received == CHOOSE n \in 0..MaxLen : HasLength(part, n)

(* f.write(chunk); a sidecar with an empty etag is saved now and then. *)
SingleChunk(k) ==
  LET len == Received + k IN
  /\ pc = "body" /\ ~cancel
  /\ len <= SizeOf[run.body]
  /\ part' = [b \in 0..(len - 1) |-> run.body]
  /\ \/ meta' = [url |-> run.url, size |-> run.size, etag |-> NoEtag, progress |-> <<len>>]
     \/ UNCHANGED meta
  /\ UNCHANGED <<served, final, main, progress, worker>>

SingleCancelled ==
  /\ pc = "body" /\ cancel
  /\ EndRun("cancelled")
  /\ UNCHANGED <<served, disk>>

(* Mutant of SingleEnd: a body that ends early is a file. *)
SingleEndUnchecked ==
  /\ pc = "body"
  /\ Goto("promote")
  /\ UNCHANGED <<served, disk, progress, worker>>

(* The body ends, short of the resource's length or not. *)
SingleEnd ==
  /\ pc = "body"
  /\ IF run.size # 0 /\ Received # run.size
     THEN EndRun("short")
     ELSE Goto("promote") /\ UNCHANGED <<progress, worker>>
  /\ UNCHANGED <<served, disk>>

-----------------------------------------------------------------------------
(* _download_segment: the worker of segment i *)

End(i, st) == worker' = [worker EXCEPT ![i] = Worker(st, 0)]

(* Mutant of Retry: the attempts are not counted. *)
RetryForever(i) == worker' = [worker EXCEPT ![i] = Worker("ready", 0)]

(* A dropped connection, a short body, a retryable status. *)
Retry(i) ==
  IF worker[i].tries + 1 = Retries
  THEN End(i, "failed")
  ELSE worker' = [worker EXCEPT ![i] = Worker("ready", worker[i].tries + 1)]

(* The file once the bytes cached for segment i are written out. *)
Flushed(i) ==
  LET to == Pos(i) + worker[i].pend IN
  IF worker[i].cached = 0 THEN part
  ELSE [b \in DOMAIN part |->
          IF b \in (to - worker[i].cached)..(to - 1) THEN worker[i].body ELSE part[b]]

SegResponse(i) ==
  /\ worker[i].st = "ready" /\ ~cancel
  /\ \E body \in {served[run.url]} \cup (IF "redirect" \in Faults THEN {Junk} ELSE {}) :
       worker' = [worker EXCEPT ![i].st = "stream", ![i].body = body]
  /\ UNCHANGED <<served, disk, main, progress>>

(* The server answers 200: the whole body, not the range. *)
SegNoRange(i) ==
  /\ worker[i].st = "ready" /\ ~cancel
  /\ End(i, "norange")
  /\ UNCHANGED <<served, disk, main, progress>>

SegNoAnswer(i) ==
  /\ worker[i].st = "ready" /\ ~cancel
  /\ Retry(i)
  /\ UNCHANGED <<served, disk, main, progress>>

(* A fatal status, a Content-Encoding, a refused URL, an OSError. *)
SegFails(i) ==
  /\ worker[i].st \in Live /\ worker[i].pend = 0 /\ progress[i] < Need(i)
  /\ End(i, "failed")
  /\ part' = Flushed(i)
  /\ UNCHANGED <<served, meta, final, main, progress>>

SegCancelled(i) ==
  /\ worker[i].st \in Live /\ worker[i].pend = 0 /\ progress[i] < Need(i) /\ cancel
  /\ End(i, "cancelled")
  /\ part' = Flushed(i)
  /\ UNCHANGED <<served, meta, final, main, progress>>

(* Mutant of Room: the chunk is not cut. *)
RoomUncut(i, k) == k

(* A chunk cut to what the segment still needs: a server may ignore the end  *)
(* of the range.                                                             *)
Room(i, k) == IF k > Need(i) - progress[i] THEN Need(i) - progress[i] ELSE k

BodyHas(body, n) == IF body = Junk THEN TRUE ELSE n <= SizeOf[body]

WriteChunk(i, k) ==
  LET w == Room(i, k) IN
  /\ worker[i].st = "stream" /\ worker[i].pend = 0 /\ ~cancel
  /\ progress[i] < Need(i) /\ BodyHas(worker[i].body, Pos(i) + w)
  /\ \/ /\ part' = [b \in DOMAIN part |->
                      IF b \in Pos(i)..(Pos(i) + w - 1) THEN worker[i].body ELSE Flushed(i)[b]]
        /\ worker' = [worker EXCEPT ![i].pend = w, ![i].cached = 0]
     \/ /\ "buffer" \in Faults
        /\ worker' = [worker EXCEPT ![i].pend = w, ![i].cached = @ + w]
        /\ UNCHANGED part
  /\ UNCHANGED <<served, meta, final, main, progress>>

CountChunk(i) ==
  /\ worker[i].pend > 0
  /\ progress' = [progress EXCEPT ![i] = @ + worker[i].pend]
  /\ worker' = [worker EXCEPT ![i].pend = 0]
  /\ UNCHANGED <<served, disk, main>>

(* The loop over the body is left, at its end or with all bytes written, and *)
(* the file closed.  (`pos > end` at the top of an attempt cannot happen.)   *)
CloseBody(i) ==
  /\ worker[i].st = "stream" /\ worker[i].pend = 0
  /\ part' = Flushed(i)
  /\ IF progress[i] = Need(i) THEN End(i, "done") ELSE Retry(i)
  /\ UNCHANGED <<served, meta, final, main, progress>>

(* close() cannot write what it buffers: the bytes are counted and gone. *)
FlushFails(i) ==
  /\ worker[i].st = "stream" /\ worker[i].pend = 0 /\ worker[i].cached > 0
  /\ End(i, "failed")
  /\ UNCHANGED <<served, disk, main, progress>>

-----------------------------------------------------------------------------
(* The rest of the world *)

(* In the code a reset and its new sidecar are two steps.  A stop between    *)
(* them leaves the old sidecar over blank bytes.                             *)
StopAllowed == pc = "saveReset" /\ meta # None => "killreset" \in Faults

(* An exception in the main thread while no worker runs: a full disk, a      *)
(* failed request, a file another program holds.                             *)
StepFails ==
  /\ pc \in {"load", "save", "saveReset", "gate", "promote", "unlink",
             "dropPart", "dropMeta", "single", "body"}
  /\ StopAllowed
  /\ EndRun("failed")
  /\ UNCHANGED <<served, disk>>

Kill ==
  /\ pc # "idle"
  /\ Faults \cap {"kill", "killreset"} # {}
  /\ StopAllowed
  /\ pc' = "idle" /\ run' = None /\ cancel' = FALSE /\ outcome' = "killed" /\ pending' = {}
  /\ progress' = Zeros /\ worker' = AllOff
  /\ UNCHANGED <<served, disk>>

(* pause(), cancel() or shutdown() sets the event. *)
Cancel ==
  /\ pc # "idle" /\ ~cancel
  /\ cancel' = TRUE
  /\ UNCHANGED <<served, disk, pc, run, outcome, pending, progress, worker>>

Swap(r) ==
  /\ pc = "idle" \/ "swap" \in Faults
  /\ r > served[UrlOf[r]]
  /\ served' = [served EXCEPT ![UrlOf[r]] = r]
  /\ UNCHANGED <<disk, main, progress, worker>>

(* rebind_progress, between runs: the size is compared (service.py:822), the *)
(* validator only overwritten.                                               *)
Rebind(u) ==
  /\ "rebind" \in Faults
  /\ pc = "idle" /\ meta # None /\ meta.size = SizeOf[served[u]]
  /\ meta' = [meta EXCEPT !.url = u, !.etag = EtagOf[served[u]]]
  /\ UNCHANGED <<served, part, final, main, progress, worker>>

(* Manager._cleanup_files: a cancelled download whose name is this path's,   *)
(* its call over, has its `part` deleted and then its sidecar.               *)
CleanUp ==
  /\ pc = "idle"
  /\ \/ part' = None /\ UNCHANGED meta
     \/ part = None /\ meta' = None /\ UNCHANGED part
  /\ UNCHANGED <<served, final, main, progress, worker>>

MainStep ==
  \/ Resume \/ Reset \/ SaveInitial \/ Check \/ Tick \/ TickRaises \/ TickFails
  \/ Joined \/ Gate \/ Promote \/ Unlink \/ DropPart \/ DropMeta
  \/ SingleRequest \/ (\E k \in 1..MaxChunk : SingleChunk(k))
  \/ SingleCancelled \/ SingleEnd \/ StepFails

WorkerStep(i) ==
  \/ DropQueued(i) \/ SegResponse(i) \/ SegNoRange(i) \/ SegNoAnswer(i)
  \/ SegFails(i) \/ SegCancelled(i) \/ (\E k \in 1..MaxChunk : WriteChunk(i, k))
  \/ CountChunk(i) \/ CloseBody(i) \/ FlushFails(i)

Next ==
  \/ \E u \in Urls, n \in SegChoices : Probe(u, n)
  \/ MainStep
  \/ \E i \in Slots : WorkerStep(i)
  \/ Cancel \/ Kill \/ CleanUp
  \/ (\E r \in Resources : Swap(r)) \/ \E u \in Urls : Rebind(u)

Spec == Init /\ [][Next]_vars

(* The OS schedules every thread; a read that hangs ends after 30 seconds as *)
(* a dropped connection.  Nobody has to start a run, cancel or kill it.      *)
FairSpec ==
  /\ Spec
  /\ WF_vars(MainStep)
  /\ \A i \in Slots : WF_vars(WorkerStep(i))

-----------------------------------------------------------------------------
(* Properties *)

FilesOK ==
  /\ part \in Files \cup {None} /\ meta \in Sidecars \cup {None} /\ final \in Files \cup {None}
  /\ served \in [Urls -> Resources]

MainOK ==
  /\ pc \in Pcs /\ outcome \in Outcomes /\ cancel \in BOOLEAN /\ pending \subseteq Slots
  /\ run \in Runs \cup {None} /\ (pc = "idle" <=> run = None)

WorkersOK == worker \in [Slots -> Workers] /\ progress \in [Slots -> 0..MaxLen]

CountsOK ==
  \A i \in Slots :
    IF run # None /\ i <= run.segs
    THEN progress[i] + worker[i].pend <= (IF run.size = 0 THEN 0 ELSE Need(i))
    ELSE progress[i] = 0 /\ worker[i] = Worker("off", 0)

(* The variables have their types; a worker runs only for a segment of the   *)
(* current run, and no segment counts more bytes than it has, the one thing  *)
(* _write_segment_chunks' trimming is for.                                   *)
TypeOK == FilesOK /\ MainOK /\ WorkersOK /\ CountsOK

(* A sidecar the next download() of its URL would trust. *)
Trustable ==
  /\ meta # None /\ meta.etag # NoEtag
  /\ LET r == served[meta.url] IN meta.etag = EtagOf[r] /\ meta.size = SizeOf[r]
  /\ HasLength(part, meta.size)

(* Such a sidecar claims only bytes that are on disk and are the resource's: *)
(* "an interrupted process resumes cleanly" (engine.py:3-5).  The one state  *)
(* left out is the gap between a reset and its sidecar; the run              *)
(* "engine_killreset" is about what a stop there does.                       *)
SidecarSound ==
  Trustable /\ pc # "saveReset" =>
    \A k \in Slots : DOMAIN meta.progress = 1..k =>
      \A i \in 1..k :
        /\ meta.progress[i] <= SegNeed(meta.size, k, i)
        /\ LET start == SegStart(meta.size, k, i) IN
           \A b \in start..(start + meta.progress[i] - 1) : part[b] = served[meta.url]

(* What os.replace publishes is one resource of the URL the call asked for,  *)
(* all of it; when the server announced no size, a prefix of it: over any    *)
(* history of pauses, retries, kills and resumes (README.md:18-20).          *)
PromotesOneResource ==
  [][final' # final =>
       \E r \in Resources :
         /\ UrlOf[r] = run.url
         /\ \/ final' = Whole(r)
            \/ run.size = 0 /\ \E n \in 0..SizeOf[r] : final' = [b \in 0..(n - 1) |-> r]]_vars

(* The same, of whatever URL: after a rebind the bytes on disk are of the     *)
(* URL they were asked from, and only one content makes a file of them.      *)
PromotesOneContent ==
  [][final' # final =>
       \E r \in Resources :
         \/ final' = Whole(r)
         \/ run.size = 0 /\ \E n \in 0..SizeOf[r] : final' = [b \in 0..(n - 1) |-> r]]_vars

(* The integrity gate of _download_segmented is pure defence: when every     *)
(* worker has ended without an exception, every segment is complete.         *)
GateNeverTrips == outcome # "integrity"

(* Nobody writes to `part` behind the main thread's back: no worker runs     *)
(* while the file is reset, promoted, deleted or streamed, or after the call *)
(* is over, whichever exception ended the loop (engine.py:438-439).          *)
NoWriterLeft ==
  pc \notin {"check", "wait", "join"} => \A i \in Slots : worker[i].st \notin Live

(* A call of download() ends: no exception, cancel or timeout makes the main *)
(* thread and the pool wait for each other.                                  *)
RunEnds == pc # "idle" ~> pc = "idle"

(* The engine keeps what its caller is promised (Delivery): the last two     *)
(* statements of a call, over whatever sidecar and fallback came before,     *)
(* publish what the URL serves now and return only then.                     *)
Promised ==
  INSTANCE Delivery WITH
    file <- final,
    stage <- IF run # None THEN (IF pc = "unlink" THEN "published" ELSE "fetching")
             ELSE IF outcome \in {"none", "done"} THEN outcome ELSE "failed",
    goal <- IF run = None THEN None ELSE [url |-> run.url, sized |-> run.size # 0]

ImplementsDelivery == Promised!Spec
=============================================================================
