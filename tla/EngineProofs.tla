---------------------------- MODULE EngineProofs ----------------------------
(* What Engine publishes and resumes from, and that it implements Delivery,  *)
(* for every set of resources, every length and every number of connections, *)
(* retries and chunks.                                                       *)
EXTENDS EngineShapeProofs

-----------------------------------------------------------------------------
(* What the files hold, when no fault but a kill happens and two URLs share  *)
(* the output path only if their servers honour Range and announce sizes.    *)

SafeWorld ==
  /\ Faults \subseteq {"kill"}
  /\ \/ AcceptRanges \subseteq {TRUE} /\ SizeReports \subseteq {TRUE}
     \/ \A u, v \in Urls : u = v

(* Versions are published between runs, so a run's resource is the one still *)
(* served, of the size announced, and it is what every response carries.     *)
RunCurrent == run # None => run.res = served[run.url] /\ run.size \in {0, SizeOf[run.res]}
BodiesCurrent ==
  \A i \in Slots :
    worker[i].cached = 0 /\ (worker[i].st = "stream" => worker[i].body = run.res)

(* Every byte a segment counts, or has written and is about to count, is on  *)
(* disk: _write_segment_chunks writes first and counts then.                 *)
SegmentsSound ==
  pc \in {"save", "saveReset", "check", "wait", "join", "gate"} =>
    \A i \in 1..run.segs :
      LET start == SegStart(run.size, run.segs, i) IN
      \A b \in start..(start + progress[i] + worker[i].pend - 1) : part[b] = run.res

(* A sidecar with a validator was written for a resource that has been       *)
(* served, and counts bytes its segments have.                               *)
MetaKnown ==
  meta # None /\ meta.etag # NoEtag =>
    /\ \E r \in Resources :
         /\ r <= served[meta.url] /\ UrlOf[r] = meta.url
         /\ EtagOf[r] = meta.etag /\ SizeOf[r] = meta.size
    /\ \A k \in Slots : DOMAIN meta.progress = 1..k =>
         k <= meta.size /\ \A i \in 1..k : meta.progress[i] <= SegNeed(meta.size, k, i)

(* While workers write, the sidecar is this run's; while one connection      *)
(* streams over `part`, no other URL's sidecar is there to be trusted.       *)
MetaOfRun ==
  /\ pc \in {"check", "wait", "join", "gate"} => meta # None /\ meta.url = run.url
  /\ pc = "dropMeta" => part = None
  /\ pc \in {"single", "body"} =>
       \/ meta = None \/ meta.etag = NoEtag
       \/ \A u, v \in Urls : u = v

BodySound ==
  pc = "body" =>
    /\ run.body = served[run.url]
    /\ \E n \in 0..SizeOf[run.body] : part = [b \in 0..(n - 1) |-> run.body]

(* What is about to be published. *)
ReadyToPromote ==
  pc = "promote" =>
    IF run.size # 0 THEN part = Whole(run.res)
    ELSE \E n \in 0..SizeOf[run.res] : part = [b \in 0..(n - 1) |-> run.res]

Sound ==
  /\ RunCurrent /\ BodiesCurrent /\ SegmentsSound /\ MetaKnown /\ MetaOfRun
  /\ BodySound /\ ReadyToPromote /\ SidecarSound

LEMMA IntervalSame ==
  ASSUME NEW n \in Nat, NEW m \in Nat, 0..(n - 1) = 0..(m - 1)
  PROVE  n = m
<1>1. ASSUME n < m PROVE FALSE
  <2>1. n \in 0..(m - 1) /\ n \notin 0..(n - 1)
    BY <1>1
  <2> QED BY <2>1
<1>2. ASSUME m < n PROVE FALSE
  <2>1. m \in 0..(n - 1) /\ m \notin 0..(m - 1)
    BY <1>2
  <2> QED BY <2>1
<1> QED BY <1>1, <1>2

(* The bytes a segment has dealt with lie in the file.                       *)
LEMMA IntervalInFile ==
  ASSUME NEW size \in Nat, NEW start \in Nat, NEW need \in Nat, start + need <= size,
         NEW m \in Nat, NEW n \in Nat, m + n <= need, NEW b \in start..(start + m + n - 1)
  PROVE  b \in 0..(size - 1)
OBVIOUS

LEMMA SegmentsSame ==
  ASSUME NEW n \in Nat \ {0}, NEW m \in Nat \ {0}, 1..n = 1..m
  PROVE  n = m
<1>1. n \in 1..m /\ m \in 1..n
  OBVIOUS
<1> QED BY <1>1

(* What a known sidecar claims lies in the file it describes.                *)
LEMMA ClaimInFile ==
  ASSUME NEW size \in Nat \ {0}, NEW k \in 1..size, NEW i \in 1..k,
         NEW done \in Nat, done <= SegNeed(size, k, i),
         NEW b \in SegStart(size, k, i)..(SegStart(size, k, i) + done - 1)
  PROVE  b \in 0..(size - 1)
BY SegmentBounds DEF SegNeed

LEMMA MetaTyped ==
  ASSUME Shape, meta # None
  PROVE  /\ meta.url \in Urls /\ meta.size \in Nat /\ meta.etag \in Etags
         /\ \A k \in Slots : DOMAIN meta.progress = 1..k => \A i \in 1..k : meta.progress[i] \in Nat
<1>1. meta \in Sidecars
  BY DEF Shape, TypeOK, FilesOK
<1>2. PICK m \in Slots : meta.progress \in [1..m -> 0..MaxLen]
  BY <1>1 DEF Sidecars
<1>3. \A k \in Slots : DOMAIN meta.progress = 1..k => \A i \in 1..k : meta.progress[i] \in Nat
  <2> SUFFICES ASSUME NEW k \in Slots, DOMAIN meta.progress = 1..k, NEW i \in 1..k
               PROVE meta.progress[i] \in Nat
    OBVIOUS
  <2>1. DOMAIN meta.progress = 1..m
    BY <1>2
  <2>2. meta.progress[i] \in 0..MaxLen
    BY <1>2, <2>1
  <2> QED BY <2>2, ResourcesAssumption
<1> QED BY <1>1, <1>3, ResourcesAssumption DEF Sidecars

(* A sidecar stays sound while the bytes of its file stay or become those of *)
(* the resource its URL serves.                                              *)
LEMMA SidecarStays ==
  ASSUME Shape, MetaKnown, SidecarSound, pc # "saveReset" \/ meta = None,
         UNCHANGED <<served, meta>>,
         HasLength(part', meta.size) => HasLength(part, meta.size),
         meta # None /\ meta.etag # NoEtag /\ HasLength(part', meta.size) =>
           \A b \in 0..(meta.size - 1) : part'[b] = part[b] \/ part'[b] = served[meta.url]
  PROVE  SidecarSound' /\ MetaKnown'
<1>1. MetaKnown'
  BY DEF MetaKnown
<1>2. SidecarSound'
  <2> SUFFICES ASSUME Trustable', NEW k \in Slots, DOMAIN meta.progress = 1..k, NEW i \in 1..k
               PROVE  /\ meta.progress[i] <= SegNeed(meta.size, k, i)
                      /\ \A b \in SegStart(meta.size, k, i)..
                                  (SegStart(meta.size, k, i) + meta.progress[i] - 1) :
                            part'[b] = served[meta.url]
    BY DEF SidecarSound
  <2>1. /\ Trustable /\ meta # None /\ meta.etag # NoEtag /\ HasLength(part', meta.size)
    BY DEF Trustable
  <2>2. /\ meta.progress[i] <= SegNeed(meta.size, k, i)
        /\ \A b \in SegStart(meta.size, k, i)..(SegStart(meta.size, k, i) + meta.progress[i] - 1) :
             part[b] = served[meta.url]
    BY <2>1 DEF SidecarSound
  <2>3. meta.size \in Nat \ {0} /\ k \in 1..meta.size /\ meta.progress[i] \in Nat
    <3>1. meta.size \in Nat /\ meta.progress[i] \in Nat
      BY <2>1, MetaTyped
    <3>2. k <= meta.size /\ k \in Nat \ {0}
      BY <2>1, CallsAssumption DEF MetaKnown, Slots
    <3> QED BY <3>1, <3>2
  <2>4. \A b \in SegStart(meta.size, k, i)..(SegStart(meta.size, k, i) + meta.progress[i] - 1) :
          b \in 0..(meta.size - 1)
    BY <2>2, <2>3, ClaimInFile
  <2> QED BY <2>1, <2>2, <2>4
<1> QED BY <1>1, <1>2

(* _save_progress writes a sound sidecar.                                    *)
LEMMA SnapshotSound ==
  ASSUME Shape, RunCurrent, SegmentsSound,
         pc \in {"save", "saveReset", "check", "wait", "join", "gate"},
         meta' = Snapshot, UNCHANGED <<served, part>>
  PROVE  SidecarSound' /\ MetaKnown' /\ meta' # None /\ meta'.url = run.url
<1>1. /\ run # None /\ run \in Runs /\ run.size # 0 /\ RunShape /\ run.res = served[run.url]
      /\ run.url \in Urls /\ run.res \in Resources
  BY DEF Shape, TypeOK, MainOK, RunShape, Runs, RunCurrent
<1>2. run.size \in Nat \ {0} /\ run.segs \in 1..run.size /\ run.segs \in Slots
      /\ run.size = SizeOf[run.res] /\ UrlOf[run.res] = run.url
  BY <1>1, ResourcesAssumption, CallsAssumption DEF RunShape, RunCurrent, Runs, Slots
<1>3. meta'.url = run.url /\ meta'.size = run.size /\ meta'.etag = EtagOf[run.res]
      /\ DOMAIN meta'.progress = 1..run.segs
      /\ \A i \in 1..run.segs : meta'.progress[i] = progress[i]
  BY DEF Snapshot
<1>4. meta' # None
  BY <1>1, SnapshotTyped, NoneAssumption
<1>5. \A k \in Slots : DOMAIN meta'.progress = 1..k => k = run.segs
  BY <1>2, <1>3, SegmentsSame, CallsAssumption DEF Slots
<1>6. \A i \in 1..run.segs :
        /\ progress[i] \in Nat /\ progress[i] <= SegNeed(run.size, run.segs, i)
        /\ \A b \in SegStart(run.size, run.segs, i)..(SegStart(run.size, run.segs, i) + progress[i] - 1) :
              part[b] = run.res
  <2> SUFFICES ASSUME NEW i \in 1..run.segs
               PROVE  /\ progress[i] \in Nat /\ progress[i] <= SegNeed(run.size, run.segs, i)
                      /\ \A b \in SegStart(run.size, run.segs, i)..
                                  (SegStart(run.size, run.segs, i) + progress[i] - 1) : part[b] = run.res
    OBVIOUS
  <2>1. i \in Slots
    BY <1>2, CallsAssumption DEF Slots
  <2>2. progress[i] \in Nat /\ worker[i].pend \in Nat
    BY <2>1, ResourcesAssumption DEF Shape, TypeOK, WorkersOK, Workers
  <2>3. progress[i] + worker[i].pend <= Need(i) /\ Need(i) \in Nat /\ SegStart(run.size, run.segs, i) \in Nat
    BY <1>1, <1>2, <2>1, RunSegments DEF Shape, TypeOK, CountsOK
  <2>4. \A b \in SegStart(run.size, run.segs, i)..
                 (SegStart(run.size, run.segs, i) + progress[i] + worker[i].pend - 1) : part[b] = run.res
    BY DEF SegmentsSound
  <2> QED BY <2>2, <2>3, <2>4 DEF Need
<1>7. SidecarSound'
  <2> SUFFICES ASSUME NEW k \in Slots, DOMAIN meta'.progress = 1..k, NEW i \in 1..k
               PROVE  /\ meta'.progress[i] <= SegNeed(meta'.size, k, i)
                      /\ \A b \in SegStart(meta'.size, k, i)..
                                  (SegStart(meta'.size, k, i) + meta'.progress[i] - 1) :
                            part'[b] = served'[meta'.url]
    BY DEF SidecarSound
  <2>1. k = run.segs
    BY <1>5
  <2> QED BY <2>1, <1>1, <1>3, <1>6
<1>8. MetaKnown'
  <2>1. run.res <= served'[meta'.url]
    <3>1. run.res \in Nat /\ served'[meta'.url] = run.res
      BY <1>1, <1>3, ResourcesAssumption
    <3> QED BY <3>1
  <2>2. \A k \in Slots : DOMAIN meta'.progress = 1..k =>
          k <= meta'.size /\ \A i \in 1..k : meta'.progress[i] <= SegNeed(meta'.size, k, i)
    BY <1>2, <1>3, <1>5, <1>6
  <2> QED BY <1>1, <1>2, <1>3, <2>1, <2>2 DEF MetaKnown
<1> QED BY <1>3, <1>4, <1>7, <1>8

(* A worker moves: the bytes it changes become the run's resource, and it    *)
(* claims none that is not.                                                  *)
LEMMA SoundWorkerMoves ==
  ASSUME Shape, Sound, NEW i \in Slots, worker[i].st \in Live,
         \A j \in Slots \ {i} : worker'[j] = worker[j] /\ progress'[j] = progress[j],
         worker'[i].cached = 0, worker'[i].st = "stream" => worker'[i].body = run.res,
         part' \in [0..(run.size - 1) -> Cells],
         \A b \in 0..(run.size - 1) : part'[b] = part[b] \/ part'[b] = run.res,
         LET start == SegStart(run.size, run.segs, i) IN
         \A b \in start..(start + progress'[i] + worker'[i].pend - 1) : part'[b] = run.res,
         UNCHANGED <<served, meta, final, main>>
  PROVE  Sound'
<1>0. UNCHANGED <<pc, run>>
  BY DEF main
<1>1. /\ pc \in {"check", "wait", "join"} /\ run # None /\ run \in Runs /\ run.size # 0
      /\ run.size \in 1..MaxLen /\ HasLength(part, run.size)
  BY LiveWorker
<1>2. HasLength(part', run.size) /\ run.size \in Nat \ {0}
  <2>1. run.size \in 0..MaxLen /\ run.size \in Nat \ {0}
    BY <1>1, ResourcesAssumption
  <2> QED BY <2>1, FileMade
<1>3. meta # None /\ meta.url = run.url /\ run.res = served[run.url]
  BY <1>1 DEF Sound, MetaOfRun, RunCurrent
<1>4. RunCurrent' /\ MetaOfRun' /\ BodySound' /\ ReadyToPromote'
  BY <1>0, <1>1 DEF Sound, RunCurrent, MetaOfRun, BodySound, ReadyToPromote
<1>5. BodiesCurrent'
  BY <1>0 DEF Sound, BodiesCurrent
<1>6. SidecarSound' /\ MetaKnown'
  <2>1. HasLength(part', meta.size) => HasLength(part, meta.size)
    BY <1>1, <1>2 DEF HasLength
  <2>2. ASSUME HasLength(part', meta.size)
        PROVE  \A b \in 0..(meta.size - 1) : part'[b] = part[b] \/ part'[b] = served[meta.url]
    <3>1. 0..(meta.size - 1) = 0..(run.size - 1)
      BY <1>2, <2>2 DEF HasLength
    <3> QED BY <1>3, <3>1
  <2> QED BY <1>1, <2>1, <2>2, SidecarStays DEF Sound
<1>7. SegmentsSound'
  <2> SUFFICES ASSUME NEW j \in 1..run.segs,
                      NEW b \in SegStart(run.size, run.segs, j)..
                                (SegStart(run.size, run.segs, j) + progress'[j] + worker'[j].pend - 1)
               PROVE  part'[b] = run.res
    BY <1>0 DEF SegmentsSound
  <2>1. CASE j = i
    BY <2>1
  <2>2. CASE j # i
    <3>1. j \in Slots /\ progress[j] \in Nat /\ worker[j].pend \in Nat
      <4>1. j \in Slots
        BY <1>1, CallsAssumption DEF Runs, Slots
      <4> QED BY <4>1, ResourcesAssumption DEF Shape, TypeOK, WorkersOK, Workers
    <3>2. /\ Need(j) \in Nat /\ SegStart(run.size, run.segs, j) \in Nat
          /\ SegStart(run.size, run.segs, j) + Need(j) <= run.size
          /\ progress[j] + worker[j].pend <= Need(j)
      <4>1. run \in Runs /\ RunShape /\ run # None /\ run.size # 0
        BY <1>1 DEF Shape
      <4>2. progress[j] + worker[j].pend <= Need(j)
        BY <3>1, <4>1 DEF Shape, TypeOK, CountsOK
      <4>3. Need(j) \in 1..run.size /\ SegStart(run.size, run.segs, j) \in Nat
            /\ SegStart(run.size, run.segs, j) + Need(j) <= run.size
        BY <4>1, RunSegments
      <4>4. Need(j) \in Nat
        BY <1>2, <4>3
      <4> QED BY <4>2, <4>3, <4>4
    <3>3. worker'[j] = worker[j] /\ progress'[j] = progress[j]
      BY <2>2, <3>1
    <3>4. part[b] = run.res
      BY <1>1, <3>3 DEF Sound, SegmentsSound
    <3>5. b \in 0..(run.size - 1)
      <4> DEFINE start == SegStart(run.size, run.segs, j)
                 need == Need(j)
                 m == progress[j]
                 n == worker[j].pend
                 size == run.size
      <4>1. b \in start..(start + m + n - 1)
        BY <3>3
      <4>2. start \in Nat /\ need \in Nat /\ start + need <= size /\ m + n <= need
        BY <3>2
      <4>3. size \in Nat /\ m \in Nat /\ n \in Nat
        BY <1>2, <3>1
      <4> HIDE DEF start, need, m, n, size
      <4>4. b \in 0..(size - 1)
        BY <4>1, <4>2, <4>3
      <4> QED BY <4>4 DEF size
    <3> QED BY <3>4, <3>5
  <2> QED BY <2>1, <2>2
<1> QED BY <1>4, <1>5, <1>6, <1>7 DEF Sound

(* ... without counting or writing a byte.                                   *)
LEMMA SoundWorkerTurns ==
  ASSUME Shape, Sound, NEW i \in Slots, worker[i].st \in Live, worker[i].pend = 0,
         NEW w, worker' = [worker EXCEPT ![i] = w], w.pend = 0, w.cached = 0,
         w.st = "stream" => w.body = run.res,
         UNCHANGED <<served, disk, main, progress>>
  PROVE  Sound'
<1>1. part \in [0..(run.size - 1) -> Cells] /\ part' = part /\ i \in 1..run.segs
      /\ pc \in {"check", "wait", "join"}
  BY LiveWorker DEF disk
<1>2. worker'[i] = w /\ \A j \in Slots \ {i} : worker'[j] = worker[j]
  BY DEF Shape, TypeOK, WorkersOK
<1>3. LET start == SegStart(run.size, run.segs, i) IN
      \A b \in start..(start + progress'[i] + worker'[i].pend - 1) : part'[b] = run.res
  BY <1>1, <1>2 DEF Sound, SegmentsSound
<1>4. part' \in [0..(run.size - 1) -> Cells] /\ UNCHANGED <<served, meta, final, main>>
  BY <1>1 DEF disk
<1>5. \A b \in 0..(run.size - 1) : part'[b] = part[b] \/ part'[b] = run.res
  BY <1>1
<1>6. worker'[i].cached = 0 /\ (worker'[i].st = "stream" => worker'[i].body = run.res)
      /\ \A j \in Slots \ {i} : worker'[j] = worker[j] /\ progress'[j] = progress[j]
  BY <1>2
<1> QED BY <1>3, <1>4, <1>5, <1>6, SoundWorkerMoves

LEMMA FlushedIsPart ==
  ASSUME Sound, NEW i \in Slots
  PROVE  Flushed(i) = part
BY DEF Sound, BodiesCurrent, Flushed

LEMMA SoundWorkerStep ==
  ASSUME SafeWorld, Shape, Sound, NEW i \in Slots, WorkerStep(i)
  PROVE  Sound'
<1>1. Flushed(i) = part
  BY FlushedIsPart
<1>2. ASSUME worker[i].st \in Live, worker[i].pend = 0, UNCHANGED <<served, disk, main, progress>>,
             NEW st, NEW t, worker' = [worker EXCEPT ![i] = Worker(st, t)], st # "stream"
      PROVE  Sound'
  <2> DEFINE w == Worker(st, t)
  <2>1. w.pend = 0 /\ w.cached = 0 /\ w.st # "stream"
    BY <1>2 DEF Worker
  <2>2. worker' = [worker EXCEPT ![i] = w]
    BY <1>2
  <2> HIDE DEF w
  <2> QED BY <1>2, <2>1, <2>2, SoundWorkerTurns
<1>3. CASE DropQueued(i)
  <2>1. worker[i].st \in Live /\ worker[i].pend = 0
    BY <1>3 DEF DropQueued, Worker, Live
  <2> QED BY <1>2, <1>3, <2>1 DEF DropQueued
<1>4. CASE SegResponse(i)
  <2>1. worker' = [worker EXCEPT ![i].st = "stream", ![i].body = served[run.url]]
        /\ UNCHANGED <<served, disk, main, progress>>
    BY <1>4 DEF SegResponse, SafeWorld
  <2>2. worker[i].st \in Live /\ worker[i].pend = 0 /\ worker[i].cached = 0 /\ worker[i] \in Workers
    BY <1>4, LiveWorker DEF SegResponse, Live, Shape, WorkerShape
  <2>3. run.res = served[run.url]
    BY <2>2, LiveWorker DEF Sound, RunCurrent
  <2> DEFINE w == [worker[i] EXCEPT !.st = "stream", !.body = served[run.url]]
  <2>4. w.pend = 0 /\ w.cached = 0 /\ w.body = run.res
    BY <2>2, <2>3 DEF Workers
  <2>5. worker' = [worker EXCEPT ![i] = w]
    BY <2>1 DEF Shape, TypeOK, WorkersOK
  <2> HIDE DEF w
  <2> QED BY <2>1, <2>2, <2>4, <2>5, SoundWorkerTurns
<1>5. CASE SegNoRange(i)
  BY <1>2, <1>5 DEF SegNoRange, End, Live, Shape, WorkerShape
<1>6. CASE SegNoAnswer(i)
  BY <1>2, <1>6 DEF SegNoAnswer, Retry, End, Live, Shape, WorkerShape
<1>7. CASE SegFails(i) \/ SegCancelled(i)
  BY <1>1, <1>2, <1>7 DEF SegFails, SegCancelled, End, disk
<1>8. CASE CloseBody(i)
  BY <1>1, <1>2, <1>8 DEF CloseBody, Retry, End, disk, Live
<1>9. CASE FlushFails(i)
  BY <1>9 DEF FlushFails, Sound, BodiesCurrent
<1>10. ASSUME NEW k \in 1..MaxChunk, WriteChunk(i, k)
       PROVE  Sound'
  <2> DEFINE w == Room(i, k)
             start == SegStart(run.size, run.segs, i)
  <2>1. /\ worker[i].st = "stream" /\ worker[i].st \in Live /\ worker[i].pend = 0
        /\ progress[i] < Need(i)
        /\ UNCHANGED <<served, meta, final, main, progress>>
        /\ part' = [b \in DOMAIN part |->
             IF b \in Pos(i)..(Pos(i) + w - 1) THEN worker[i].body ELSE part[b]]
        /\ worker' = [worker EXCEPT ![i].pend = w, ![i].cached = 0]
    BY <1>1, <1>10 DEF WriteChunk, SafeWorld, Live
  <2>2. /\ part \in [0..(run.size - 1) -> Cells] /\ run.size \in Nat /\ start \in Nat /\ Need(i) \in Nat
        /\ start + Need(i) <= run.size /\ progress[i] \in Nat /\ i \in 1..run.segs
        /\ worker[i] \in Workers /\ pc \in {"check", "wait", "join"}
    BY <2>1, LiveWorker, ResourcesAssumption
  <2>3. w \in Nat /\ progress[i] + w <= Need(i)
    BY <2>1, <2>2, CallsAssumption DEF Room
  <2>4. worker[i].body = run.res /\ worker[i].body \in Cells
    BY <2>1, <2>2 DEF Sound, BodiesCurrent, Workers
  <2>5. worker'[i].pend = w /\ worker'[i].cached = 0 /\ worker'[i].body = run.res
        /\ \A j \in Slots \ {i} : worker'[j] = worker[j]
    BY <2>1, <2>2, <2>4 DEF Shape, TypeOK, WorkersOK, Workers
  <2>6. \A b \in start..(start + progress[i] - 1) : part[b] = run.res
    <3>1. \A b \in start..(start + progress[i] + worker[i].pend - 1) : part[b] = run.res
      BY <2>2 DEF Sound, SegmentsSound
    <3>2. start + progress[i] + worker[i].pend - 1 = start + progress[i] - 1
      BY <2>1, <2>2
    <3> QED BY <3>1, <3>2
  <2> HIDE DEF w
  <2>7. Pos(i) = start + progress[i]
    BY DEF Pos
  <2> HIDE DEF start
  <2>8. /\ part' \in [0..(run.size - 1) -> Cells]
        /\ \A b \in 0..(run.size - 1) : part'[b] = part[b] \/ part'[b] = run.res
    BY <2>1, <2>2, <2>4
  <2>9. \A b \in start..(start + progress'[i] + worker'[i].pend - 1) : part'[b] = run.res
    <3> SUFFICES ASSUME NEW b \in start..(start + progress[i] + w - 1) PROVE part'[b] = run.res
      BY <2>1, <2>5
    <3>1. b \in 0..(run.size - 1)
      BY <2>2, <2>3, IntervalInFile
    <3>2. CASE b \in Pos(i)..(Pos(i) + w - 1)
      BY <2>1, <2>2, <2>4, <3>1, <3>2
    <3>3. CASE b \notin Pos(i)..(Pos(i) + w - 1)
      <4>1. b \in start..(start + progress[i] - 1)
        BY <2>2, <2>3, <2>7, <3>3
      <4> QED BY <2>1, <2>2, <2>6, <3>1, <3>3, <4>1
    <3> QED BY <3>2, <3>3
  <2> QED BY <2>1, <2>5, <2>8, <2>9, SoundWorkerMoves DEF start
<1>11. CASE CountChunk(i)
  <2>1. /\ worker' = [worker EXCEPT ![i].pend = 0]
        /\ progress' = [progress EXCEPT ![i] = progress[i] + worker[i].pend]
        /\ UNCHANGED <<served, part, meta, final, main>>
    BY <1>11 DEF CountChunk, disk
  <2>2. worker[i].st = "stream" /\ worker[i].st \in Live /\ worker[i].pend \in Nat
    BY <1>11, ResourcesAssumption DEF CountChunk, Shape, WorkerShape, Live, TypeOK, WorkersOK, Workers
  <2>3. part \in [0..(run.size - 1) -> Cells] /\ i \in 1..run.segs /\ worker[i] \in Workers
        /\ progress[i] \in Nat /\ pc \in {"check", "wait", "join"}
    BY <2>2, LiveWorker
  <2>4. /\ worker'[i].pend = 0 /\ worker'[i].cached = 0 /\ worker'[i].body = run.res
        /\ progress'[i] = progress[i] + worker[i].pend
        /\ \A j \in Slots \ {i} : worker'[j] = worker[j] /\ progress'[j] = progress[j]
    BY <2>1, <2>2, <2>3 DEF Sound, BodiesCurrent, Shape, TypeOK, WorkersOK, Workers
  <2>5. LET start == SegStart(run.size, run.segs, i) IN
        \A b \in start..(start + progress'[i] + worker'[i].pend - 1) : part'[b] = run.res
    <3> DEFINE start == SegStart(run.size, run.segs, i)
    <3> SUFFICES ASSUME NEW b \in start..(start + progress'[i] + worker'[i].pend - 1)
                 PROVE  part'[b] = run.res
      OBVIOUS
    <3>1. start \in Nat
      BY <2>2, LiveWorker
    <3>2. \A c \in start..(start + progress[i] + worker[i].pend - 1) : part[c] = run.res
      BY <2>3 DEF Sound, SegmentsSound
    <3> HIDE DEF start
    <3>3. b \in start..(start + progress[i] + worker[i].pend - 1)
      BY <2>2, <2>3, <2>4, <3>1
    <3>4. part' = part
      BY <2>1
    <3> QED BY <3>2, <3>3, <3>4
  <2>6. part' \in [0..(run.size - 1) -> Cells] /\ \A b \in 0..(run.size - 1) : part'[b] = part[b]
    BY <2>1, <2>3
  <2> QED BY <2>1, <2>2, <2>4, <2>5, <2>6, SoundWorkerMoves
<1> QED
  BY <1>3, <1>4, <1>5, <1>6, <1>7, <1>8, <1>9, <1>10, <1>11 DEF WorkerStep

LEMMA SoundInit == Init => Sound
BY DEF Init, Sound, RunCurrent, BodiesCurrent, SegmentsSound, MetaKnown, MetaOfRun, BodySound,
       ReadyToPromote, SidecarSound, Trustable, AllOff, Worker

(* Between the steps of the workers, and once they are gone.                 *)
LEMMA Settled ==
  ASSUME Shape, pc \notin {"check", "wait", "join"} \/ PoolIdle
  PROVE  \A i \in Slots :
           worker[i].st # "stream" /\ worker[i].pend = 0
           /\ Reaped[i] = Worker("off", 0)
BY NoLive DEF Shape, WorkerShape, Live, Reaped

(* No call is under way: only the sidecar counts.                            *)
LEMMA SoundIdle ==
  ASSUME pc' = "idle", run' = None, SidecarSound', MetaKnown',
         \A i \in Slots : worker'[i] = Worker("off", 0)
  PROVE  Sound'
BY DEF Sound, RunCurrent, BodiesCurrent, SegmentsSound, MetaOfRun, BodySound, ReadyToPromote, Worker

(* A call that ends leaves the files as they are.                            *)
LEMMA SoundStops ==
  ASSUME Shape, Sound, pc # "saveReset" \/ meta = None, UNCHANGED <<served, disk>>,
         pc' = "idle", run' = None, \A i \in Slots : worker'[i] = Worker("off", 0)
  PROVE  Sound'
<1>1. SidecarSound' /\ MetaKnown'
  BY SidecarStays DEF Sound, disk
<1> QED BY <1>1, SoundIdle

LEMMA SoundEndRun ==
  ASSUME Shape, Sound, pc # "saveReset" \/ meta = None, UNCHANGED <<served, disk>>, NEW o, EndRun(o),
         pc \notin {"check", "wait", "join"} \/ PoolIdle
  PROVE  Sound'
<1>1. \A i \in Slots : Reaped[i] = Worker("off", 0)
  BY Settled
<1>2. pc' = "idle" /\ run' = None /\ \A i \in Slots : worker'[i] = Worker("off", 0)
  BY <1>1 DEF EndRun
<1> QED BY <1>2, SoundStops

LEMMA SoundProbe ==
  ASSUME SafeWorld, Shape, Shape', Sound, NEW u \in Urls, NEW n \in SegChoices, Probe(u, n)
  PROVE  Sound'
<1>1. PICK ranged \in AcceptRanges, sized \in SizeReports :
        LET size == IF sized THEN SizeOf[served[u]] ELSE 0 IN
        /\ run' = [url |-> u, res |-> served[u], size |-> size,
                   segs |-> IF ranged /\ size > 0 THEN NumRanges(size, n) ELSE 1, body |-> Hole]
        /\ pc' = IF ranged /\ size > 0 THEN "load" ELSE "single"
  BY DEF Probe, Announced, SafeWorld
<1>2. pc = "idle" /\ UNCHANGED <<served, part, meta, worker>>
  BY DEF Probe, disk
<1>3. SidecarSound' /\ MetaKnown'
  BY <1>2, SidecarStays DEF Sound
<1>4. RunCurrent' /\ MetaOfRun'
  <2>1. run'.size \in {0, SizeOf[served[u]]} /\ run'.res = served'[run'.url]
    BY <1>1, <1>2
  <2>2. SizeOf[served[u]] > 0
    <3>1. SizeOf[served[u]] \in 1..MaxLen /\ MaxLen \in Nat
      BY ResourcesAssumption DEF Shape, TypeOK, FilesOK
    <3> QED BY <3>1
  <2>3. RunCurrent'
    BY <1>1, <2>1 DEF RunCurrent
  <2>4. MetaOfRun'
    BY <1>1, <1>2, <2>2 DEF MetaOfRun, SafeWorld
  <2> QED BY <2>3, <2>4
<1>5. SegmentsSound' /\ BodySound' /\ ReadyToPromote'
  BY <1>1 DEF SegmentsSound, BodySound, ReadyToPromote
<1>6. BodiesCurrent'
  BY <1>2, Settled DEF Sound, BodiesCurrent
<1> QED BY <1>3, <1>4, <1>5, <1>6 DEF Sound

(* A step of the main thread that keeps `part`, the run, the counts and the  *)
(* workers, and leaves a sound sidecar of the run.                           *)
LEMMA SoundSaves ==
  ASSUME Shape, Sound, run # None, UNCHANGED <<served, part, run, progress, worker>>,
         SidecarSound', MetaKnown', meta' # None, meta'.url = run.url,
         pc \in {"check", "wait", "join", "gate"}, pc' \in {"check", "wait", "join", "promote"},
         ReadyToPromote'
  PROVE  Sound'
BY DEF Sound, RunCurrent, BodiesCurrent, SegmentsSound, MetaOfRun, BodySound

LEMMA SoundFetch ==
  ASSUME SafeWorld, Shape, Shape', Sound,
         Resume \/ Reset \/ SaveInitial \/ Check \/ Tick \/ TickRaises \/ TickFails
  PROVE  Sound'
<1>1. run # None /\ run \in Runs /\ RunShape /\ RunCurrent
  BY DEF Shape, TypeOK, MainOK, Sound, Resume, Reset, SaveInitial, Check, Tick, TickRaises, TickFails
<1>2. CASE Resume
  <2>1. /\ pc = "load" /\ pc' = "save" /\ CanResume
        /\ progress' = [i \in Slots |-> IF i <= run.segs THEN meta.progress[i] ELSE 0]
        /\ UNCHANGED <<served, part, meta, run, worker>>
    BY <1>2 DEF Resume, Goto, disk
  <2>2. SidecarSound' /\ MetaKnown'
    BY <2>1, SidecarStays DEF Sound
  <2>3. RunCurrent' /\ MetaOfRun' /\ BodySound' /\ ReadyToPromote' /\ BodiesCurrent'
    BY <2>1, Settled DEF Sound, RunCurrent, MetaOfRun, BodySound, ReadyToPromote, BodiesCurrent
  <2>4. Trustable /\ served[meta.url] = run.res /\ meta.size = run.size
        /\ DOMAIN meta.progress = 1..run.segs
    BY <1>1, <2>1 DEF Trustable, CanResume, Trusted, RunCurrent, RunShape
  <2>5. run.segs \in Slots
    BY <1>1 DEF Runs
  <2>6. \A i \in 1..run.segs :
          \A b \in SegStart(run.size, run.segs, i)..(SegStart(run.size, run.segs, i) + meta.progress[i] - 1) :
            part[b] = run.res
    BY <2>1, <2>4, <2>5 DEF Sound, SidecarSound
  <2>7. SegmentsSound'
    <3> SUFFICES ASSUME NEW i \in 1..run.segs,
                        NEW b \in SegStart(run.size, run.segs, i)..
                                  (SegStart(run.size, run.segs, i) + progress'[i] + worker'[i].pend - 1)
                 PROVE  part[b] = run.res
      BY <2>1 DEF SegmentsSound
    <3>1. i \in Slots /\ i <= run.segs
      BY <2>5, CallsAssumption DEF Slots
    <3>2. progress'[i] = meta.progress[i] /\ worker'[i].pend = 0
      BY <2>1, <3>1, Settled
    <3>3. meta.progress[i] \in Nat /\ SegStart(run.size, run.segs, i) \in Int
      <4>1. meta.progress[i] \in Nat
        BY <2>1, <2>4, <2>5, MetaTyped DEF CanResume, Trusted
      <4>2. run.size # 0
        BY <1>1, <2>1 DEF RunShape
      <4> QED BY <1>1, <4>1, <4>2, RunSegments
    <3>4. b \in SegStart(run.size, run.segs, i)..(SegStart(run.size, run.segs, i) + meta.progress[i] - 1)
      BY <3>2, <3>3
    <3> QED BY <2>6, <3>4
  <2> QED BY <2>2, <2>3, <2>7 DEF Sound
<1>3. CASE Reset
  <2>1. pc = "load" /\ pc' = "saveReset" /\ progress' = Zeros /\ UNCHANGED <<served, meta, run, worker>>
    BY <1>3 DEF Reset, Goto
  <2>2. SidecarSound' /\ MetaKnown'
    BY <2>1 DEF Sound, SidecarSound, MetaKnown
  <2>3. RunCurrent' /\ MetaOfRun' /\ BodySound' /\ ReadyToPromote' /\ BodiesCurrent'
    BY <2>1, Settled DEF Sound, RunCurrent, MetaOfRun, BodySound, ReadyToPromote, BodiesCurrent
  <2>4. SegmentsSound'
    <3> SUFFICES ASSUME NEW i \in 1..run.segs,
                        NEW b \in SegStart(run.size, run.segs, i)..
                                  (SegStart(run.size, run.segs, i) + progress'[i] + worker'[i].pend - 1)
                 PROVE  FALSE
      BY <2>1 DEF SegmentsSound
    <3>1. i \in Slots
      BY <1>1, CallsAssumption DEF Slots, Runs
    <3>2. progress'[i] = 0 /\ worker'[i].pend = 0
      BY <2>1, <3>1, Settled DEF Zeros
    <3>3. SegStart(run.size, run.segs, i) \in Int
      BY <1>1, <2>1, RunSegments DEF RunShape
    <3> QED BY <3>2, <3>3
  <2> QED BY <2>2, <2>3, <2>4 DEF Sound
<1>4. CASE SaveInitial
  <2>1. /\ pc \in {"save", "saveReset"} /\ pc' = "check" /\ meta' = Snapshot
        /\ \A i \in Slots : worker'[i] \in {Worker("ready", 0), Worker("off", 0)}
        /\ UNCHANGED <<served, part, run, progress>>
    BY <1>4 DEF SaveInitial
  <2>2. SidecarSound' /\ MetaKnown' /\ meta' # None /\ meta'.url = run.url
    BY <2>1, SnapshotSound DEF Sound
  <2>3. \A i \in Slots : worker'[i].pend = 0 /\ worker'[i].cached = 0 /\ worker'[i].st # "stream"
    BY <2>1 DEF Worker
  <2>4. \A i \in 1..run.segs : i \in Slots
    BY <1>1, CallsAssumption DEF Runs, Slots
  <2>5. RunCurrent' /\ MetaOfRun' /\ BodySound' /\ ReadyToPromote' /\ BodiesCurrent'
    BY <2>1, <2>2, <2>3 DEF Sound, RunCurrent, MetaOfRun, BodySound, ReadyToPromote, BodiesCurrent
  <2>6. SegmentsSound'
    <3> SUFFICES ASSUME NEW i \in 1..run.segs,
                        NEW b \in SegStart(run.size, run.segs, i)..
                                  (SegStart(run.size, run.segs, i) + progress[i] + worker'[i].pend - 1)
                 PROVE  part[b] = run.res
      BY <2>1 DEF SegmentsSound
    <3>1. worker'[i].pend = 0 /\ worker[i].pend = 0
      BY <2>1, <2>3, <2>4, Settled
    <3> QED BY <2>1, <3>1 DEF Sound, SegmentsSound
  <2> QED BY <2>2, <2>5, <2>6 DEF Sound
<1>5. CASE Check \/ TickFails
  <2>1. /\ pc \in {"check", "wait"} /\ pc' \in {"wait", "join"}
        /\ UNCHANGED <<served, part, meta, run, progress, worker>>
    BY <1>5 DEF Check, TickFails, Goto, disk
  <2>2. SidecarSound' /\ MetaKnown' /\ meta' # None /\ meta'.url = run.url
    BY <2>1, SidecarStays DEF Sound, MetaOfRun
  <2>3. ReadyToPromote'
    BY <2>1 DEF ReadyToPromote
  <2> QED BY <1>1, <2>1, <2>2, <2>3, SoundSaves
<1>6. CASE Tick \/ TickRaises
  <2>1. /\ pc = "wait" /\ pc' \in {"check", "join"} /\ meta' = Snapshot
        /\ UNCHANGED <<served, part, run, progress, worker>>
    BY <1>6 DEF Tick, TickRaises
  <2>2. SidecarSound' /\ MetaKnown' /\ meta' # None /\ meta'.url = run.url
    BY <2>1, SnapshotSound DEF Sound
  <2>3. ReadyToPromote'
    BY <2>1 DEF ReadyToPromote
  <2> QED BY <1>1, <2>1, <2>2, <2>3, SoundSaves
<1> QED BY <1>2, <1>3, <1>4, <1>5, <1>6

(* A file all of whose segments are complete is the whole resource.          *)
LEMMA CompleteIsWhole ==
  ASSUME Shape, Sound, pc = "gate", Complete
  PROVE  part = Whole(run.res)
<1>1. /\ run # None /\ run \in Runs /\ run.size # 0 /\ RunShape /\ HasLength(part, run.size)
      /\ part \in Files \cup {None}
  BY DEF Shape, TypeOK, MainOK, FilesOK, RunShape, PartShape
<1>2. run.size \in Nat \ {0} /\ run.size \in 0..MaxLen /\ run.segs \in 1..run.size
      /\ run.size = SizeOf[run.res]
  BY <1>1, ResourcesAssumption, CallsAssumption DEF RunShape, Runs, Slots, Sound, RunCurrent
<1>3. part \in [0..(run.size - 1) -> Cells]
  BY <1>1, <1>2, FileTyped
<1>4. ASSUME NEW b \in 0..(run.size - 1) PROVE part[b] = run.res
  <2>1. PICK i \in 1..run.segs :
          b \in SegStart(run.size, run.segs, i)..SegEnd(run.size, run.segs, i)
    BY <1>2, SegmentsCover
  <2>2. SegStart(run.size, run.segs, i) \in Nat /\ SegEnd(run.size, run.segs, i) \in Nat
    BY <1>2, SegmentBounds
  <2>3. progress[i] = SegEnd(run.size, run.segs, i) - SegStart(run.size, run.segs, i) + 1
    BY DEF Complete, Need, SegNeed
  <2>4. worker[i].pend = 0
    <3>1. i \in Slots
      BY <1>1, CallsAssumption DEF Runs, Slots
    <3> QED BY <3>1, Settled
  <2>5. b \in SegStart(run.size, run.segs, i)..
              (SegStart(run.size, run.segs, i) + progress[i] + worker[i].pend - 1)
    BY <2>1, <2>2, <2>3, <2>4
  <2> QED BY <2>5 DEF Sound, SegmentsSound
<1> QED BY <1>2, <1>3, <1>4 DEF Whole

LEMMA SoundFinish ==
  ASSUME SafeWorld, Shape, Shape', Sound,
         Joined \/ Gate \/ Promote \/ Unlink \/ DropPart \/ DropMeta
  PROVE  Sound'
<1>1. run # None /\ run \in Runs
  BY DEF Shape, TypeOK, MainOK, Joined, Gate, Promote, Unlink, DropPart, DropMeta
<1>2. \A i \in Slots : worker[i].st # "stream" /\ worker[i].pend = 0 /\ Reaped[i] = Worker("off", 0)
  BY Settled DEF Joined, Gate, Promote, Unlink, DropPart, DropMeta
<1>3. CASE Joined
  <2>1. pc = "join" /\ PoolIdle /\ UNCHANGED <<served, disk>>
    BY <1>3 DEF Joined
  <2>2. CASE \E o : EndRun(o)
    BY <2>1, <2>2, SoundEndRun
  <2>3. CASE pc' \in {"dropPart", "gate"} /\ UNCHANGED run /\ worker' = Reaped
             /\ (pc' = "gate" => UNCHANGED progress)
    <3>1. SidecarSound' /\ MetaKnown'
      BY <2>1, SidecarStays DEF Sound, disk
    <3>2. RunCurrent' /\ MetaOfRun' /\ BodySound' /\ ReadyToPromote'
      BY <2>1, <2>3 DEF Sound, RunCurrent, MetaOfRun, BodySound, ReadyToPromote, disk
    <3>3. BodiesCurrent'
      BY <1>2, <2>3 DEF BodiesCurrent, Worker
    <3>4. SegmentsSound'
      <4> SUFFICES ASSUME pc' = "gate", NEW i \in 1..run.segs,
                          NEW b \in SegStart(run.size, run.segs, i)..
                                    (SegStart(run.size, run.segs, i) + progress[i] + worker'[i].pend - 1)
                   PROVE  part[b] = run.res
        BY <2>1, <2>3 DEF SegmentsSound, disk
      <4>1. i \in Slots
        BY <1>1, CallsAssumption DEF Runs, Slots
      <4>2. worker'[i].pend = 0 /\ worker[i].pend = 0
        BY <1>2, <2>3, <4>1 DEF Worker
      <4> QED BY <2>1, <4>2 DEF Sound, SegmentsSound
    <3> QED BY <3>1, <3>2, <3>3, <3>4 DEF Sound
  <2> QED BY <1>3, <2>2, <2>3 DEF Joined
<1>4. CASE Gate
  <2>1. CASE Complete
    <3>1. /\ pc = "gate" /\ pc' = "promote" /\ meta' = Snapshot
          /\ UNCHANGED <<served, part, run, progress, worker>>
      BY <1>4, <2>1 DEF Gate, Goto
    <3>2. SidecarSound' /\ MetaKnown' /\ meta' # None /\ meta'.url = run.url
      BY <3>1, SnapshotSound DEF Sound
    <3>3. ReadyToPromote'
      <4>1. part = Whole(run.res)
        BY <2>1, <3>1, CompleteIsWhole
      <4>2. run.res \in Resources /\ UrlOf[run.res] = run.url
        BY <1>1 DEF Shape, RunShape, Runs
      <4>3. run.size # 0
        BY <1>1, <3>1 DEF Shape, RunShape
      <4> QED BY <3>1, <4>1, <4>2, <4>3 DEF ReadyToPromote
    <3> QED BY <1>1, <3>1, <3>2, <3>3, SoundSaves
  <2>2. CASE ~Complete
    <3>1. pc = "gate" /\ EndRun("integrity") /\ UNCHANGED <<served, disk>>
      BY <1>4, <2>2 DEF Gate, disk
    <3> QED BY <3>1, SoundEndRun
  <2> QED BY <2>1, <2>2
<1>5. CASE Promote \/ DropPart \/ DropMeta
  <2>1. /\ pc' \in {"unlink", "dropMeta", "single"} /\ (pc' = "dropMeta" => part' = None)
        /\ (part' = None /\ meta' = meta) \/ (pc' = "single" /\ meta' = None)
        /\ pc' = "single" => meta' = None
        /\ UNCHANGED <<served, run, worker>>
    BY <1>5 DEF Promote, DropPart, DropMeta, Goto
  <2>2. SidecarSound' /\ MetaKnown'
    BY <2>1 DEF Sound, SidecarSound, MetaKnown, Trustable, HasLength
  <2>3. RunCurrent' /\ MetaOfRun' /\ BodySound' /\ ReadyToPromote' /\ SegmentsSound' /\ BodiesCurrent'
    BY <1>2, <2>1 DEF Sound, RunCurrent, MetaOfRun, BodySound, ReadyToPromote, SegmentsSound, BodiesCurrent
  <2> QED BY <2>2, <2>3 DEF Sound
<1>6. CASE Unlink
  <2>1. meta' = None /\ EndRun("done")
    BY <1>6 DEF Unlink
  <2>2. SidecarSound' /\ MetaKnown'
    BY <2>1 DEF SidecarSound, MetaKnown, Trustable
  <2>3. pc' = "idle" /\ run' = None /\ \A i \in Slots : worker'[i] = Worker("off", 0)
    BY <1>2, <2>1 DEF EndRun
  <2> QED BY <2>2, <2>3, SoundIdle
<1> QED BY <1>3, <1>4, <1>5, <1>6

LEMMA SoundSingle ==
  ASSUME SafeWorld, Shape, Shape', Sound,
         \/ SingleRequest \/ (\E k \in 1..MaxChunk : SingleChunk(k))
         \/ SingleCancelled \/ SingleEnd
  PROVE  Sound'
<1>1. run # None /\ run \in Runs /\ pc \in {"single", "body"} /\ RunShape
  BY DEF Shape, TypeOK, MainOK, SingleRequest, SingleChunk, SingleCancelled, SingleEnd
<1>2. /\ run.url \in Urls /\ run.res = served[run.url] /\ run.res \in Resources
      /\ UrlOf[run.res] = run.url /\ run.size \in {0, SizeOf[run.res]}
  BY <1>1 DEF Runs, Sound, RunCurrent, RunShape
<1>3. SizeOf[run.res] \in Nat \ {0} /\ SizeOf[run.res] \in 0..MaxLen
  <2>1. SizeOf[run.res] \in 1..MaxLen /\ MaxLen \in Nat
    BY <1>2, ResourcesAssumption
  <2> QED BY <2>1
<1>4. MetaKnown /\ SidecarSound /\ BodiesCurrent /\ MetaOfRun
  BY DEF Sound
<1>5. CASE SingleRequest
  <2>1. /\ pc = "single" /\ pc' = "body" /\ part' = Blank(0) /\ run' = [run EXCEPT !.body = served[run.url]]
        /\ UNCHANGED <<served, meta, worker>>
    BY <1>5 DEF SingleRequest
  <2>2. run'.url = run.url /\ run'.res = run.res /\ run'.body = run.res
    BY <1>1, <1>2, <2>1 DEF Runs
  <2>3. MetaKnown'
    BY <1>4, <2>1 DEF MetaKnown
  <2>4. SidecarSound'
    <3>1. ASSUME Trustable' PROVE FALSE
      <4>1. meta # None /\ meta.size = SizeOf[served[meta.url]] /\ HasLength(part', meta.size)
        BY <2>1, <3>1 DEF Trustable
      <4>2. meta.url \in Urls
        BY <4>1, MetaTyped
      <4>3. served[meta.url] \in Resources
        BY <4>2 DEF Shape, TypeOK, FilesOK
      <4>4. meta.size \in 1..MaxLen /\ MaxLen \in Nat
        BY <4>1, <4>3, ResourcesAssumption
      <4>5. 0..(0 - 1) = 0..(meta.size - 1)
        BY <2>1, <4>1 DEF HasLength, Blank
      <4> QED BY <4>4, <4>5
    <3> QED BY <3>1 DEF SidecarSound
  <2>5. BodySound'
    <3>1. part' = [b \in 0..(0 - 1) |-> run.res]
      BY <2>1 DEF Blank
    <3>2. 0 \in 0..SizeOf[run.res]
      BY <1>3
    <3> QED BY <1>2, <2>1, <2>2, <3>1, <3>2 DEF BodySound
  <2>6. RunCurrent' /\ MetaOfRun' /\ SegmentsSound' /\ ReadyToPromote' /\ BodiesCurrent'
    BY <1>2, <1>4, <2>1, <2>2 DEF RunCurrent, MetaOfRun, SegmentsSound, ReadyToPromote, BodiesCurrent
  <2> QED BY <2>3, <2>4, <2>5, <2>6 DEF Sound
<1>6. ASSUME pc = "body" PROVE run.body = run.res /\ Received \in 0..SizeOf[run.res]
                               /\ part = [b \in 0..(Received - 1) |-> run.res]
  <2>1. run.body = run.res
    BY <1>2, <1>6 DEF Sound, BodySound
  <2>2. PICK n \in 0..SizeOf[run.res] : part = [b \in 0..(n - 1) |-> run.res]
    BY <1>6, <2>1 DEF Sound, BodySound
  <2>3. Received \in 0..MaxLen /\ HasLength(part, Received)
    BY <1>6 DEF Shape, PartShape, Received
  <2>4. Received = n
    <3>1. 0..(n - 1) = 0..(Received - 1)
      BY <2>2, <2>3 DEF HasLength
    <3>2. n \in Nat /\ Received \in Nat
      BY <1>3, <2>3, ResourcesAssumption
    <3> QED BY <3>1, <3>2, IntervalSame
  <2> QED BY <2>1, <2>2, <2>4
<1>7. ASSUME NEW k \in 1..MaxChunk, SingleChunk(k)
      PROVE  Sound'
  <2> DEFINE len == Received + k
  <2>1. /\ pc = "body" /\ len <= SizeOf[run.body]
        /\ part' = [b \in 0..(len - 1) |-> run.body]
        /\ \/ meta' = [url |-> run.url, size |-> run.size, etag |-> NoEtag, progress |-> <<len>>]
           \/ UNCHANGED meta
        /\ UNCHANGED <<served, main, progress, worker>>
    BY <1>7 DEF SingleChunk
  <2>2. UNCHANGED <<pc, run>>
    BY <2>1 DEF main
  <2>3. len \in 0..SizeOf[run.res] /\ run.body = run.res
    <3>1. Received \in Nat /\ k \in Nat
      BY <1>3, <1>6, <2>1, CallsAssumption
    <3> QED BY <1>3, <1>6, <2>1, <3>1
  <2> HIDE DEF len
  <2>4. BodySound'
    BY <1>2, <2>1, <2>2, <2>3 DEF BodySound
  <2>5. RunCurrent' /\ MetaOfRun' /\ SegmentsSound' /\ ReadyToPromote' /\ BodiesCurrent'
    BY <1>2, <1>4, <2>1, <2>2 DEF RunCurrent, MetaOfRun, SegmentsSound, ReadyToPromote, BodiesCurrent
  <2>6. CASE meta' = [url |-> run.url, size |-> run.size, etag |-> NoEtag, progress |-> <<len>>]
    <3>1. SidecarSound' /\ MetaKnown'
      BY <2>6 DEF SidecarSound, MetaKnown, Trustable
    <3> QED BY <2>4, <2>5, <3>1 DEF Sound
  <2>7. CASE UNCHANGED meta
    <3>1. meta # None /\ meta.etag # NoEtag => meta.url = run.url
      BY <1>2, <1>4, <2>1, MetaTyped DEF MetaOfRun
    <3>2. MetaKnown'
      BY <1>4, <2>1, <2>7 DEF MetaKnown
    <3>3. SidecarSound'
      <4> SUFFICES ASSUME Trustable', NEW j \in Slots, DOMAIN meta.progress = 1..j, NEW i \in 1..j
                   PROVE  /\ meta.progress[i] <= SegNeed(meta.size, j, i)
                          /\ \A b \in SegStart(meta.size, j, i)..
                                      (SegStart(meta.size, j, i) + meta.progress[i] - 1) :
                                part'[b] = served[meta.url]
        BY <2>1, <2>7 DEF SidecarSound
      <4>1. meta # None /\ meta.etag # NoEtag /\ HasLength(part', meta.size)
        BY <2>7 DEF Trustable
      <4>2. meta.progress[i] <= SegNeed(meta.size, j, i) /\ j <= meta.size
        BY <1>4, <4>1 DEF MetaKnown
      <4>3. meta.size \in Nat /\ meta.progress[i] \in Nat
        BY <4>1, MetaTyped
      <4>4. meta.size \in Nat \ {0} /\ j \in 1..meta.size
        BY <4>2, <4>3, CallsAssumption DEF Slots
      <4>5. \A b \in 0..(meta.size - 1) : part'[b] = served[meta.url]
        <5>1. 0..(meta.size - 1) = 0..(len - 1)
          BY <2>1, <4>1 DEF HasLength
        <5>2. served[meta.url] = run.res
          BY <1>2, <3>1, <4>1
        <5> QED BY <2>1, <2>3, <5>1, <5>2
      <4>6. \A b \in SegStart(meta.size, j, i)..(SegStart(meta.size, j, i) + meta.progress[i] - 1) :
              b \in 0..(meta.size - 1)
        BY <4>2, <4>3, <4>4, ClaimInFile
      <4> QED BY <4>2, <4>5, <4>6
    <3> QED BY <2>4, <2>5, <3>2, <3>3 DEF Sound
  <2> QED BY <2>1, <2>6, <2>7
<1>8. CASE SingleCancelled
  BY <1>8, SoundEndRun DEF SingleCancelled
<1>9. CASE SingleEnd
  <2>1. CASE EndRun("short")
    BY <1>9, <2>1, SoundEndRun DEF SingleEnd
  <2>2. CASE ~EndRun("short")
    <3>1. /\ pc = "body" /\ pc' = "promote" /\ (run.size = 0 \/ Received = run.size)
          /\ UNCHANGED <<served, disk, run, progress, worker>>
      BY <1>9, <2>2 DEF SingleEnd, Goto
    <3>2. SidecarSound' /\ MetaKnown'
      BY <1>4, <3>1, SidecarStays DEF disk
    <3>3. RunCurrent' /\ MetaOfRun' /\ SegmentsSound' /\ BodiesCurrent' /\ BodySound'
      BY <1>2, <1>4, <3>1 DEF RunCurrent, MetaOfRun, SegmentsSound, BodiesCurrent, BodySound
    <3>4. ReadyToPromote'
      <4>1. run.size # 0 => part = Whole(run.res)
        BY <1>1, <1>2, <1>6, <3>1 DEF Whole, RunShape
      <4> QED BY <1>2, <1>6, <3>1, <4>1 DEF ReadyToPromote, disk
    <3> QED BY <3>2, <3>3, <3>4 DEF Sound
  <2> QED BY <2>1, <2>2
<1> QED BY <1>5, <1>7, <1>8, <1>9

LEMMA SoundWorld ==
  ASSUME SafeWorld, Shape, Shape', Sound,
         \/ StepFails \/ Kill \/ Cancel \/ CleanUp
         \/ \E r \in Resources : Swap(r)
         \/ \E u \in Urls : Rebind(u)
  PROVE  Sound'
<1>1. CASE StepFails
  <2>1. EndRun("failed") /\ UNCHANGED <<served, disk>> /\ pc \notin {"check", "wait", "join"}
        /\ (pc # "saveReset" \/ meta = None)
    BY <1>1 DEF StepFails, StopAllowed, SafeWorld
  <2> QED BY <2>1, SoundEndRun
<1>2. CASE Kill
  <2>1. /\ pc' = "idle" /\ run' = None /\ UNCHANGED <<served, disk>>
        /\ (pc # "saveReset" \/ meta = None)
        /\ \A i \in Slots : worker'[i] = Worker("off", 0)
    BY <1>2 DEF Kill, StopAllowed, SafeWorld, AllOff
  <2> QED BY <2>1, SoundStops
<1>3. CASE Cancel
  <2>1. UNCHANGED <<served, part, meta, pc, run, progress, worker>>
    BY <1>3 DEF Cancel, disk
  <2> QED BY <2>1 DEF Sound, RunCurrent, BodiesCurrent, SegmentsSound, MetaKnown, MetaOfRun, BodySound,
                      ReadyToPromote, SidecarSound, Trustable
<1>4. ASSUME NEW r \in Resources, Swap(r)
      PROVE  Sound'
  <2>1. /\ pc = "idle" /\ r > served[UrlOf[r]] /\ served' = [served EXCEPT ![UrlOf[r]] = r]
        /\ UNCHANGED <<part, meta, pc, run, progress, worker>>
    BY <1>4 DEF Swap, SafeWorld, disk, main
  <2>2. run = None /\ UrlOf[r] \in Urls /\ r \in Nat /\ served \in [Urls -> Resources]
    BY <2>1, ResourcesAssumption DEF Shape, TypeOK, MainOK, FilesOK
  <2>3. \A u \in Urls : served'[u] = (IF u = UrlOf[r] THEN r ELSE served[u])
    BY <2>1, <2>2
  <2>4. meta # None => meta.url \in Urls
    BY MetaTyped
  <2>5. MetaKnown'
    <3>1. \A u \in Urls : served[u] \in Nat /\ served'[u] \in Nat /\ served[u] <= served'[u]
      <4>1. ASSUME NEW u \in Urls
            PROVE  served[u] \in Nat /\ served'[u] \in Nat /\ served[u] <= served'[u]
        <5>1. served[u] \in Resources /\ Resources \subseteq Nat
          BY <2>2, ResourcesAssumption
        <5>2. served'[u] = (IF u = UrlOf[r] THEN r ELSE served[u])
          BY <2>3
        <5>3. CASE u = UrlOf[r]
          <6>1. served[u] \in Nat /\ served[u] < r
            BY <5>1, <5>3, <2>1, <2>2
          <6> QED BY <5>2, <5>3, <6>1, <2>2
        <5>4. CASE u # UrlOf[r]
          <6>1. served[u] \in Nat
            BY <5>1
          <6> QED BY <5>2, <5>4, <6>1
        <5> QED BY <5>3, <5>4
      <4> QED BY <4>1
    <3>2. ASSUME meta # None, meta.etag # NoEtag
          PROVE  \E s \in Resources : /\ s <= served'[meta.url] /\ UrlOf[s] = meta.url
                                      /\ EtagOf[s] = meta.etag /\ SizeOf[s] = meta.size
      <4>1. PICK s \in Resources : /\ s <= served[meta.url] /\ UrlOf[s] = meta.url
                                   /\ EtagOf[s] = meta.etag /\ SizeOf[s] = meta.size
        BY <3>2 DEF Sound, MetaKnown
      <4>2. s \in Nat
        BY ResourcesAssumption
      <4> QED BY <2>4, <3>1, <3>2, <4>1, <4>2
    <3> QED BY <2>1, <3>2 DEF Sound, MetaKnown
  <2>6. SidecarSound'
    <3>1. ASSUME Trustable' PROVE served'[meta.url] = served[meta.url]
      <4>1. /\ meta # None /\ meta.etag # NoEtag
            /\ meta.etag = EtagOf[served'[meta.url]] /\ meta.size = SizeOf[served'[meta.url]]
        BY <2>1, <3>1 DEF Trustable
      <4>2. PICK s \in Resources : /\ s <= served[meta.url] /\ UrlOf[s] = meta.url
                                   /\ EtagOf[s] = meta.etag /\ SizeOf[s] = meta.size
        BY <4>1 DEF Sound, MetaKnown
      <4>3. CASE meta.url = UrlOf[r]
        <5>1. s = r
          BY <2>3, <2>4, <4>1, <4>2, <4>3, StrongValidators
        <5>2. s \in Nat /\ served[meta.url] \in Nat
          BY <2>2, <2>4, <4>1, ResourcesAssumption
        <5> QED BY <2>1, <2>2, <4>2, <4>3, <5>1, <5>2
      <4>4. CASE meta.url # UrlOf[r]
        BY <2>3, <2>4, <4>1, <4>4
      <4> QED BY <4>3, <4>4
    <3>2. Trustable' => Trustable
      BY <2>1, <3>1 DEF Trustable
    <3> QED BY <2>1, <3>1, <3>2 DEF Sound, SidecarSound
  <2>7. RunCurrent' /\ SegmentsSound' /\ MetaOfRun' /\ BodySound' /\ ReadyToPromote' /\ BodiesCurrent'
    BY <2>1, <2>2 DEF Sound, RunCurrent, SegmentsSound, MetaOfRun, BodySound, ReadyToPromote, BodiesCurrent
  <2> QED BY <2>5, <2>6, <2>7 DEF Sound
<1>5. ~ \E u \in Urls : Rebind(u)
  BY DEF Rebind, SafeWorld
<1>6. CASE CleanUp
  <2>1. /\ pc = "idle" /\ run = None /\ part' = None /\ (meta' = meta \/ meta' = None)
        /\ UNCHANGED <<served, pc, run, progress, worker>>
    <3>1. pc = "idle" /\ UNCHANGED <<served, pc, run, progress, worker>>
      BY <1>6 DEF CleanUp, main
    <3>2. part' = None /\ (meta' = meta \/ meta' = None)
      BY <1>6 DEF CleanUp
    <3> QED BY <3>1, <3>2 DEF Shape, TypeOK, MainOK
  <2>2. SidecarSound' /\ MetaKnown'
    BY <2>1 DEF Sound, SidecarSound, MetaKnown, Trustable, HasLength
  <2>3. RunCurrent' /\ SegmentsSound' /\ MetaOfRun' /\ BodySound' /\ ReadyToPromote' /\ BodiesCurrent'
    BY <2>1 DEF Sound, RunCurrent, SegmentsSound, MetaOfRun, BodySound, ReadyToPromote, BodiesCurrent
  <2> QED BY <2>2, <2>3 DEF Sound
<1> QED BY <1>1, <1>2, <1>3, <1>4, <1>5, <1>6

LEMMA SoundStep ==
  ASSUME SafeWorld
  PROVE  Shape /\ Shape' /\ Sound /\ [Next]_vars => Sound'
<1> SUFFICES ASSUME Shape, Shape', Sound, [Next]_vars PROVE Sound'
  OBVIOUS
<1>1. CASE Next
  BY <1>1, SoundProbe, SoundFetch, SoundFinish, SoundSingle, SoundWorkerStep, SoundWorld
     DEF Next, MainStep
<1>2. CASE UNCHANGED vars
  BY <1>2 DEF vars, disk, main, Sound, RunCurrent, BodiesCurrent, SegmentsSound, MetaKnown, MetaOfRun,
              BodySound, ReadyToPromote, SidecarSound, Trustable
<1> QED BY <1>1, <1>2

(* Whatever kills, failures, cancels and retries came before, the next run   *)
(* resumes from bytes that are on disk and right (engine.py:3-5).            *)
THEOREM ResumesSoundly ==
  ASSUME SafeWorld
  PROVE  Spec => []SidecarSound
<1>1. Sound => SidecarSound
  BY DEF Sound
<1> QED BY <1>1, ShapeInit, ShapeStep, SoundInit, SoundStep, PTL DEF Spec

(* What is published under the output's name is one version of the file, all *)
(* of it (README.md:18-20).                                                  *)
THEOREM PublishesOneResource ==
  ASSUME SafeWorld
  PROVE  Spec => PromotesOneResource
<1>1. Shape /\ Sound /\ [Next]_vars =>
        [final' # final =>
           \E r \in Resources :
             /\ UrlOf[r] = run.url
             /\ \/ final' = Whole(r)
                \/ run.size = 0 /\ \E n \in 0..SizeOf[r] : final' = [b \in 0..(n - 1) |-> r]]_vars
  <2> SUFFICES ASSUME Shape, Sound, Next, final' # final
               PROVE  \E r \in Resources :
                        /\ UrlOf[r] = run.url
                        /\ \/ final' = Whole(r)
                           \/ run.size = 0 /\ \E n \in 0..SizeOf[r] : final' = [b \in 0..(n - 1) |-> r]
    OBVIOUS
  <2>1. Promote
    BY DEF Next, MainStep, WorkerStep, Probe, Resume, Reset, SaveInitial, Check, Tick, TickRaises, TickFails,
           Joined, Gate, Unlink, DropPart, DropMeta, SingleRequest, SingleChunk, SingleCancelled, SingleEnd,
           StepFails, DropQueued, SegResponse, SegNoRange, SegNoAnswer, SegFails, SegCancelled, WriteChunk,
           CountChunk, CloseBody, FlushFails, Cancel, Kill, CleanUp, Swap, Rebind, disk
  <2>2. run.res \in Resources /\ UrlOf[run.res] = run.url /\ pc = "promote" /\ final' = part
    BY <2>1 DEF Promote, Shape, TypeOK, MainOK, RunShape, Runs
  <2> QED BY <2>2 DEF Sound, ReadyToPromote
<1> QED BY <1>1, ShapeInit, ShapeStep, SoundInit, SoundStep, PTL DEF Spec, PromotesOneResource

-----------------------------------------------------------------------------
(* Engine implements Delivery: what a caller of download() is promised.      *)

(* A call that is under way has not succeeded yet. *)
Undecided == pc # "idle" => outcome # "done"

LEMMA UndecidedStep ==
  Shape /\ Undecided /\ [Next]_vars => Undecided'
<1> SUFFICES ASSUME Shape, Undecided, [Next]_vars PROVE Undecided'
  OBVIOUS
<1>1. CASE UNCHANGED vars
  BY <1>1 DEF vars, main, Undecided
<1>2. ASSUME NEW u \in Urls, NEW n \in SegChoices, Probe(u, n) PROVE Undecided'
  BY <1>2 DEF Probe, Undecided
<1>3. CASE TickRaises
  BY <1>3 DEF TickRaises, Raised, Undecided
<1>4. CASE TickFails \/ Joined
  BY <1>4 DEF TickFails, Joined, EndRun, Undecided
<1>5. CASE Gate \/ SingleEnd \/ Unlink \/ SingleCancelled \/ StepFails \/ Kill
  BY <1>5 DEF Gate, Goto, SingleEnd, Unlink, SingleCancelled, StepFails, Kill, EndRun, Undecided
<1>6. CASE \/ Resume \/ Reset \/ SaveInitial \/ Check \/ Tick \/ Promote \/ DropPart \/ DropMeta
           \/ SingleRequest \/ \E k \in 1..MaxChunk : SingleChunk(k)
  BY <1>6 DEF Resume, Reset, SaveInitial, Check, Tick, Promote, DropPart, DropMeta, SingleRequest,
              SingleChunk, Goto, main, Undecided
<1>7. CASE \E i \in Slots : WorkerStep(i)
  BY <1>7 DEF WorkerStep, DropQueued, SegResponse, SegNoRange, SegNoAnswer, SegFails, SegCancelled,
              WriteChunk, CountChunk, CloseBody, FlushFails, main, Undecided
<1>8. CASE Cancel \/ CleanUp \/ (\E r \in Resources : Swap(r)) \/ \E u \in Urls : Rebind(u)
  BY <1>8 DEF Cancel, CleanUp, Swap, Rebind, main, Undecided
<1> QED BY <1>1, <1>2, <1>3, <1>4, <1>5, <1>6, <1>7, <1>8 DEF Next, MainStep

-----------------------------------------------------------------------------
(* Each kind of step, as Delivery sees it. *)

(* A step inside a call that neither publishes nor ends it. *)
LEMMA Inside ==
  ASSUME run # None, run' # None, run'.url = run.url, run'.size = run.size,
         pc # "unlink", pc' # "unlink", UNCHANGED <<served, final>>
  PROVE  UNCHANGED Promised!vars
BY DEF Promised!vars

LEMMA CallFails ==
  ASSUME run # None, run' = None, outcome' \notin {"none", "done"}, UNCHANGED <<served, final>>
  PROVE  Promised!Fail
BY DEF Promised!Fail, Promised!NoCall

LEMMA InsideMain ==
  ASSUME Shape, Shape', Undecided,
         \/ Resume \/ Reset \/ SaveInitial \/ Check \/ Tick \/ TickRaises \/ TickFails
         \/ DropPart \/ DropMeta \/ SingleRequest \/ \E k \in 1..MaxChunk : SingleChunk(k)
  PROVE  UNCHANGED Promised!vars
<1>1. /\ pc \notin {"idle", "unlink"} /\ pc' \notin {"idle", "unlink"}
      /\ UNCHANGED <<served, final>>
      /\ run' = run \/ run' = [run EXCEPT !.body = served[run.url]]
  BY DEF Resume, Reset, SaveInitial, Check, Tick, TickRaises, TickFails, DropPart, DropMeta,
         SingleRequest, SingleChunk, Goto, disk, main
<1>2. run # None /\ run' # None /\ run \in Runs
  BY <1>1 DEF Shape, TypeOK, MainOK
<1>3. run'.url = run.url /\ run'.size = run.size
  BY <1>1, <1>2 DEF Runs
<1> QED BY <1>1, <1>2, <1>3, Inside

LEMMA DeliveryStep ==
  ASSUME SafeWorld, Shape, Shape', Sound, Undecided, [Next]_vars
  PROVE  [Promised!Next]_(Promised!vars)
<1>1. CASE UNCHANGED vars
  BY <1>1 DEF vars, disk, main, Promised!vars
<1>2. ASSUME NEW u \in Urls, NEW n \in SegChoices, Probe(u, n)
      PROVE  Promised!Begin(u, run'.size # 0)
  <2>1. run = None /\ run' # None /\ run'.url = u /\ pc' # "unlink" /\ outcome' = "none"
        /\ UNCHANGED <<served, final>>
    <3>1. /\ pc = "idle" /\ pc' \in {"load", "single"} /\ run'.url = u /\ outcome' = "none"
          /\ UNCHANGED <<served, disk>>
      BY <1>2 DEF Probe
    <3> QED BY <3>1 DEF Shape, TypeOK, MainOK, disk
  <2> QED BY <2>1 DEF Promised!Begin, Promised!NoCall
<1>3. CASE \/ Resume \/ Reset \/ SaveInitial \/ Check \/ Tick \/ TickRaises \/ TickFails
           \/ DropPart \/ DropMeta \/ SingleRequest \/ \E k \in 1..MaxChunk : SingleChunk(k)
  BY <1>3, InsideMain
<1>4. CASE Joined \/ Gate \/ SingleEnd
  <2>1. /\ pc \in {"join", "gate", "body"} /\ UNCHANGED <<served, final>>
        /\ \/ pc' \in {"dropPart", "gate", "promote"} /\ run' = run
           \/ run' = None /\ outcome' \notin {"none", "done"}
    BY <1>4 DEF Joined, Gate, SingleEnd, EndRun, Goto, disk, Undecided
  <2>2. run # None
    BY <2>1 DEF Shape, TypeOK, MainOK
  <2>3. CASE run' = run
    BY <2>1, <2>2, <2>3, Inside
  <2>4. CASE run' = None
    <3>1. outcome' \notin {"none", "done"}
      BY <2>1, <2>2, <2>4
    <3> QED BY <2>1, <2>2, <2>4, <3>1, CallFails DEF Promised!Next
  <2> QED BY <2>1, <2>3, <2>4
<1>5. CASE Promote
  <2>1. /\ pc = "promote" /\ pc' = "unlink" /\ final' = part /\ UNCHANGED <<served, run, outcome>>
        /\ run # None /\ run \in Runs
    BY <1>5 DEF Promote, Goto, Shape, TypeOK, MainOK
  <2>2. run.res = served[run.url] /\ run.res \in Resources
    BY <2>1 DEF Sound, RunCurrent, Runs
  <2>3. final' \in Promised!Copies(served[run.url], run.size # 0)
    BY <2>1, <2>2 DEF Sound, ReadyToPromote, Whole, Promised!Copies
  <2> QED BY <2>1, <2>3 DEF Promised!Publish, Promised!Next
<1>6. CASE Unlink
  <2>1. /\ pc = "unlink" /\ run' = None /\ outcome' = "done" /\ UNCHANGED <<served, final>>
    BY <1>6 DEF Unlink, EndRun
  <2>2. run # None
    BY <2>1 DEF Shape, TypeOK, MainOK
  <2> QED BY <2>1, <2>2 DEF Promised!Return, Promised!Next
<1>7. CASE SingleCancelled \/ StepFails \/ Kill
  <2>1. /\ pc # "idle" /\ run' = None /\ outcome' \in {"cancelled", "failed", "killed"}
        /\ UNCHANGED <<served, final>>
    BY <1>7 DEF SingleCancelled, StepFails, Kill, EndRun, disk
  <2>2. run # None
    BY <2>1 DEF Shape, TypeOK, MainOK
  <2> QED BY <2>1, <2>2, CallFails DEF Promised!Next
<1>8. CASE \E i \in Slots : WorkerStep(i)
  <2>1. UNCHANGED <<served, final, main>>
    BY <1>8 DEF WorkerStep, DropQueued, SegResponse, SegNoRange, SegNoAnswer, SegFails, SegCancelled,
                WriteChunk, CountChunk, CloseBody, FlushFails, disk
  <2> QED BY <2>1 DEF Promised!vars, main
<1>9. CASE Cancel \/ CleanUp
  BY <1>9 DEF Cancel, CleanUp, disk, main, Promised!vars
<1>10. ASSUME NEW r \in Resources, Swap(r) PROVE Promised!NewVersion
  <2>1. /\ pc = "idle" /\ served' = [served EXCEPT ![UrlOf[r]] = r]
        /\ UNCHANGED <<final, run, pc, outcome>>
    BY <1>10 DEF Swap, SafeWorld, disk, main
  <2>2. run = None
    BY <2>1 DEF Shape, TypeOK, MainOK
  <2> QED BY <2>1, <2>2 DEF Promised!NewVersion, Promised!NoCall
<1>11. ~ \E u \in Urls : Rebind(u)
  BY DEF Rebind, SafeWorld
<1> QED BY <1>1, <1>2, <1>3, <1>4, <1>5, <1>6, <1>7, <1>8, <1>9, <1>10, <1>11
        DEF Next, MainStep, Promised!Next

(* With no fault but kills, and one URL per output path or servers that      *)
(* honour Range: every call of download() is a call of Delivery, whatever    *)
(* sidecar, fallback or retry it goes through (engine.py:388-520).           *)
THEOREM Delivers ==
  ASSUME SafeWorld
  PROVE  Spec => ImplementsDelivery
<1>1. Init => Promised!Init
  BY DEF Init, Promised!Init
<1>2. Init => Undecided
  BY DEF Init, Undecided
<1>3. Shape /\ Shape' /\ Sound /\ Undecided /\ [Next]_vars => [Promised!Next]_(Promised!vars)
  BY DeliveryStep
<1> QED BY <1>1, <1>2, <1>3, ShapeInit, ShapeStep, SoundInit, SoundStep, UndecidedStep, PTL
        DEF Spec, ImplementsDelivery, Promised!Spec
=============================================================================
