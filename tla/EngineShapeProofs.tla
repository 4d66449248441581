-------------------------- MODULE EngineShapeProofs -------------------------
(* Type correctness of Engine, for every set of resources, every length,     *)
(* every number of connections, retries and chunks, and under every fault,   *)
(* and what follows from it of the writers and of the integrity gate.        *)
EXTENDS Engine, RangesProofs

-----------------------------------------------------------------------------
(* The shape of a run: what its main thread, its workers and its files look  *)
(* like at each step, under every fault.                                     *)

(* A run of known size has no more segments than bytes; one of unknown size  *)
(* has one and never gets to the segmented path.                             *)
RunShape ==
  run # None =>
    /\ UrlOf[run.res] = run.url
    /\ \/ run.size = 0 /\ run.segs = 1
       \/ run.size \in 1..MaxLen /\ run.segs <= run.size
    /\ pc \in {"load", "save", "saveReset", "check", "wait", "join", "gate"} => run.size # 0
    /\ pc = "body" => run.body \in Resources

PartShape ==
  /\ pc \in {"save", "saveReset", "check", "wait", "join", "gate"} => HasLength(part, run.size)
  /\ pc = "body" => \E n \in 0..MaxLen : HasLength(part, n)
  /\ pc = "promote" => part # None

(* Only a worker that reads a response has bytes uncounted or unflushed.     *)
WorkerShape ==
  \A i \in Slots :
    /\ worker[i].st # "stream" => worker[i].pend = 0 /\ worker[i].cached = 0
    /\ worker[i].cached <= progress[i] + worker[i].pend
    /\ worker[i].st \in Live => worker[i].tries < Retries

ServedOwn == \A u \in Urls : UrlOf[served[u]] = u

Shape == ServedOwn /\ TypeOK /\ RunShape /\ PartShape /\ WorkerShape /\ NoWriterLeft

-----------------------------------------------------------------------------
(* The offsets of a segment of the current run lie in its file.              *)
LEMMA RunSegments ==
  ASSUME run \in Runs, RunShape, run # None, run.size # 0, NEW i \in 1..run.segs
  PROVE  /\ run.size \in Nat \ {0} /\ run.segs \in 1..run.size
         /\ Need(i) \in 1..run.size
         /\ SegStart(run.size, run.segs, i) \in Nat
         /\ SegStart(run.size, run.segs, i) + Need(i) <= run.size
<1>1. run.size \in Nat \ {0} /\ run.segs \in 1..run.size
  BY ResourcesAssumption, CallsAssumption DEF Runs, RunShape, Slots
<1> DEFINE start == SegStart(run.size, run.segs, i)
           end == SegEnd(run.size, run.segs, i)
<1>2. /\ start \in Nat /\ end \in Nat /\ end <= run.size - 1
      /\ SegNeed(run.size, run.segs, i) \in 1..run.size
  BY <1>1, SegmentBounds
<1>3. Need(i) = SegNeed(run.size, run.segs, i) /\ Need(i) = end - start + 1
  BY DEF Need, SegNeed
<1> HIDE DEF start, end
<1>4. start + Need(i) <= run.size
  BY <1>1, <1>2, <1>3
<1> QED BY <1>1, <1>2, <1>3, <1>4 DEF start

LEMMA ShapeInit == Init => Shape
<1> SUFFICES ASSUME Init PROVE Shape
  OBVIOUS
<1>1. 0 \in 0..MaxLen /\ 0 \in 0..Retries /\ Hole \in Cells
  BY ResourcesAssumption, CallsAssumption DEF Cells
<1>2. \A i \in Slots : worker[i] = Worker("off", 0) /\ progress[i] = 0
  BY DEF Init, AllOff, Zeros
<1>3. TypeOK
  BY <1>1, <1>2 DEF Init, TypeOK, FilesOK, MainOK, WorkersOK, CountsOK, AllOff, Zeros, Worker, Workers, Pcs, Outcomes
<1> QED BY <1>2, <1>3 DEF Init, Shape, ServedOwn, RunShape, PartShape, WorkerShape, NoWriterLeft, Worker, Live

(* A file is what it is said to be: typed, there, and of its length.         *)
LEMMA FileMade ==
  ASSUME NEW n \in 0..MaxLen, NEW f \in [0..(n - 1) -> Cells]
  PROVE  f \in Files /\ f # None /\ HasLength(f, n)
BY NoneAssumption DEF Files, HasLength

LEMMA FileTyped ==
  ASSUME part \in Files \cup {None}, NEW n \in 0..MaxLen, HasLength(part, n)
  PROVE  part \in [0..(n - 1) -> Cells]
BY DEF Files, HasLength

(* A live worker works on a segment of the current run, whose file is there. *)
LEMMA LiveWorker ==
  ASSUME Shape, NEW i \in Slots, worker[i].st \in Live
  PROVE  /\ pc \in {"check", "wait", "join"} /\ run # None /\ run \in Runs /\ run.size # 0
         /\ i \in 1..run.segs /\ run.size \in 1..MaxLen
         /\ HasLength(part, run.size) /\ part \in [0..(run.size - 1) -> Cells]
         /\ Need(i) \in 1..run.size
         /\ SegStart(run.size, run.segs, i) \in Nat
         /\ SegStart(run.size, run.segs, i) + Need(i) <= run.size
         /\ progress[i] \in Nat /\ progress[i] + worker[i].pend <= Need(i)
         /\ worker[i] \in Workers
<1>1. pc \in {"check", "wait", "join"} /\ run # None /\ run \in Runs
  BY DEF Shape, NoWriterLeft, TypeOK, MainOK
<1>2. HasLength(part, run.size) /\ run.size # 0
  BY <1>1 DEF Shape, PartShape, RunShape
<1>3. run.size \in 1..MaxLen /\ run.segs \in Slots
  BY <1>1, <1>2, ResourcesAssumption DEF Runs
<1>4. part \in [0..(run.size - 1) -> Cells]
  BY <1>2, <1>3, FileTyped DEF Shape, TypeOK, FilesOK
<1>5. i \in 1..run.segs
  BY <1>1, <1>3 DEF Shape, TypeOK, CountsOK, Worker, Live, Slots
<1>6. /\ Need(i) \in 1..run.size
      /\ SegStart(run.size, run.segs, i) \in Nat
      /\ SegStart(run.size, run.segs, i) + Need(i) <= run.size
  BY <1>1, <1>2, <1>5, RunSegments DEF Shape
<1>7. progress[i] \in Nat /\ progress[i] + worker[i].pend <= Need(i) /\ worker[i] \in Workers
  BY <1>1, <1>2, <1>5, ResourcesAssumption DEF Shape, TypeOK, CountsOK, WorkersOK, Slots
<1> QED BY <1>1, <1>2, <1>3, <1>4, <1>5, <1>6, <1>7

(* A worker moves to a state w and may write into the file and count bytes.  *)
LEMMA WorkerMoves ==
  ASSUME Shape, NEW i \in Slots, worker[i].st \in Live,
         NEW w \in Workers, worker' = [worker EXCEPT ![i] = w],
         NEW c \in Nat, progress' = [progress EXCEPT ![i] = c],
         c + w.pend <= Need(i), w.cached <= c + w.pend,
         w.st # "stream" => w.pend = 0 /\ w.cached = 0,
         w.st \in Live => w.tries < Retries,
         part' \in [0..(run.size - 1) -> Cells],
         UNCHANGED <<served, meta, final, main>>
  PROVE  Shape'
<1> USE DEF Shape, ServedOwn, TypeOK
<1>0. UNCHANGED <<pc, run, cancel, outcome, pending>>
  BY DEF main
<1>1. /\ pc \in {"check", "wait", "join"} /\ run # None /\ run \in Runs /\ run.size # 0
      /\ i \in 1..run.segs /\ run.size \in 1..MaxLen /\ Need(i) \in 1..run.size
  BY LiveWorker
<1>2. part' \in Files /\ HasLength(part', run.size)
  <2>1. run.size \in 0..MaxLen
    BY <1>1, ResourcesAssumption
  <2> QED BY <2>1, FileMade
<1>3. FilesOK'
  BY <1>2 DEF FilesOK
<1>4. MainOK'
  BY <1>0 DEF MainOK
<1>5. c \in 0..MaxLen
  BY <1>1, ResourcesAssumption DEF Workers
<1>6. WorkersOK'
  BY <1>5 DEF WorkersOK
<1>7. \A j \in Slots : Need(j)' = Need(j)
  BY <1>0 DEF Need
<1>8. CountsOK'
  <2> SUFFICES ASSUME NEW j \in Slots
               PROVE IF run' # None /\ j <= run'.segs
                     THEN progress'[j] + worker'[j].pend <= (IF run'.size = 0 THEN 0 ELSE Need(j)')
                     ELSE progress'[j] = 0 /\ worker'[j] = Worker("off", 0)
    BY DEF CountsOK
  <2>1. CASE j = i
    BY <2>1, <1>0, <1>1, <1>7 DEF WorkersOK
  <2>2. CASE j # i
    BY <2>2, <1>0, <1>7 DEF WorkersOK, CountsOK
  <2> QED BY <2>1, <2>2
<1>9. RunShape'
  BY <1>0 DEF RunShape
<1>10. PartShape'
  BY <1>0, <1>1, <1>2 DEF PartShape
<1>11. WorkerShape'
  BY DEF WorkerShape, WorkersOK
<1>12. NoWriterLeft'
  BY <1>0, <1>1 DEF NoWriterLeft
<1> QED BY <1>3, <1>4, <1>6, <1>8, <1>9, <1>10, <1>11, <1>12

(* ... or leaves the counts alone.                                           *)
LEMMA WorkerTurns ==
  ASSUME Shape, NEW i \in Slots, worker[i].st \in Live,
         NEW w \in Workers, worker' = [worker EXCEPT ![i] = w],
         progress[i] + w.pend <= Need(i), w.cached <= progress[i] + w.pend,
         w.st # "stream" => w.pend = 0 /\ w.cached = 0,
         w.st \in Live => w.tries < Retries,
         part' \in [0..(run.size - 1) -> Cells],
         UNCHANGED <<served, meta, final, main, progress>>
  PROVE  Shape'
<1>1. progress[i] \in Nat
  BY LiveWorker
<1>2. progress' = [progress EXCEPT ![i] = progress[i]]
  BY DEF Shape, TypeOK, WorkersOK
<1> QED BY <1>1, <1>2, WorkerMoves

(* ... or is at rest: ended, or before its next attempt.                     *)
LEMMA WorkerRests ==
  ASSUME Shape, NEW i \in Slots, worker[i].st \in Live,
         NEW st \in {"off", "ready"} \cup Ended, NEW t \in 0..Retries,
         worker' = [worker EXCEPT ![i] = Worker(st, t)], st = "ready" => t < Retries,
         part' \in [0..(run.size - 1) -> Cells],
         UNCHANGED <<served, meta, final, main, progress>>
  PROVE  Shape'
<1> DEFINE w == Worker(st, t)
<1>1. /\ w \in Workers /\ w.pend = 0 /\ w.cached = 0 /\ w.st # "stream"
      /\ w.st \in Live => w.tries < Retries
  BY ResourcesAssumption DEF Worker, Workers, Live, Ended, Cells
<1>2. progress[i] \in Nat /\ progress[i] <= Need(i)
  BY LiveWorker, ResourcesAssumption DEF Workers
<1> HIDE DEF w
<1>3. worker' = [worker EXCEPT ![i] = w]
  BY DEF w
<1>4. progress[i] + w.pend <= Need(i) /\ w.cached <= progress[i] + w.pend
  BY <1>1, <1>2
<1> QED BY <1>1, <1>3, <1>4, WorkerTurns

LEMMA EndRests ==
  ASSUME Shape, NEW i \in Slots, worker[i].st \in Live, NEW st \in Ended, End(i, st),
         part' \in [0..(run.size - 1) -> Cells],
         UNCHANGED <<served, meta, final, main, progress>>
  PROVE  Shape'
<1>1. 0 \in 0..Retries /\ st # "ready"
  BY CallsAssumption DEF Ended
<1> QED BY <1>1, WorkerRests DEF End

LEMMA RetryRests ==
  ASSUME Shape, NEW i \in Slots, worker[i].st \in Live, Retry(i),
         part' \in [0..(run.size - 1) -> Cells],
         UNCHANGED <<served, meta, final, main, progress>>
  PROVE  Shape'
<1>1. worker[i].tries \in 0..Retries /\ worker[i].tries < Retries
  BY LiveWorker DEF Shape, WorkerShape, Workers
<1>2. CASE worker[i].tries + 1 = Retries
  BY <1>2, EndRests DEF Retry, Ended
<1>3. CASE worker[i].tries + 1 # Retries
  <2>1. worker[i].tries + 1 \in 0..Retries /\ worker[i].tries + 1 < Retries
    BY <1>1, <1>3, CallsAssumption
  <2> QED BY <2>1, <1>3, WorkerRests DEF Retry
<1> QED BY <1>2, <1>3

LEMMA FlushedTyped ==
  ASSUME Shape, NEW i \in Slots, worker[i].st \in Live
  PROVE  Flushed(i) \in [0..(run.size - 1) -> Cells]
<1>1. part \in [0..(run.size - 1) -> Cells] /\ worker[i].body \in Cells
  BY LiveWorker DEF Workers
<1> QED BY <1>1 DEF Flushed

LEMMA ShapeWorker ==
  ASSUME Shape, NEW i \in Slots, WorkerStep(i)
  PROVE  Shape'
<1>1. ASSUME worker[i].st \in Live
      PROVE  /\ part \in [0..(run.size - 1) -> Cells] /\ Flushed(i) \in [0..(run.size - 1) -> Cells]
             /\ worker[i] \in Workers /\ progress[i] \in Nat
             /\ progress[i] + worker[i].pend <= Need(i) /\ Need(i) \in Nat
             /\ worker[i].cached <= progress[i] + worker[i].pend
             /\ worker[i].tries < Retries
  BY <1>1, LiveWorker, FlushedTyped DEF Shape, WorkerShape
<1>2. CASE DropQueued(i)
  <2>1. worker[i].st \in Live /\ 0 \in 0..Retries
    BY <1>2, CallsAssumption DEF DropQueued, Worker, Live
  <2>2. worker' = [worker EXCEPT ![i] = Worker("off", 0)]
        /\ part' \in [0..(run.size - 1) -> Cells]
        /\ UNCHANGED <<served, meta, final, main, progress>>
    BY <1>1, <1>2, <2>1 DEF DropQueued, disk
  <2>3. "off" \in {"off", "ready"} \cup Ended /\ "off" # "ready"
    OBVIOUS
  <2> QED BY <2>1, <2>2, <2>3, WorkerRests
<1>3. CASE SegResponse(i)
  <2>1. PICK body \in {served[run.url]} \cup {Junk} :
          worker' = [worker EXCEPT ![i].st = "stream", ![i].body = body]
    BY <1>3 DEF SegResponse
  <2>2. worker[i].st \in Live
    BY <1>3 DEF SegResponse, Live
  <2>3. body \in Cells
    BY <2>2, LiveWorker DEF Cells, Shape, TypeOK, FilesOK, Runs
  <2> DEFINE w == [worker[i] EXCEPT !.st = "stream", !.body = body]
  <2>4. /\ w \in Workers /\ w.pend = worker[i].pend /\ w.cached = worker[i].cached
        /\ w.st = "stream" /\ w.tries = worker[i].tries
    BY <1>1, <2>2, <2>3 DEF Workers, Live
  <2>5. worker' = [worker EXCEPT ![i] = w]
    BY <2>1 DEF Shape, TypeOK, WorkersOK
  <2> HIDE DEF w
  <2> QED BY <1>1, <1>3, <2>2, <2>4, <2>5, WorkerTurns DEF SegResponse, disk
<1>4. CASE SegNoRange(i)
  BY <1>1, <1>4, EndRests DEF SegNoRange, Live, Ended, disk
<1>5. CASE SegNoAnswer(i)
  BY <1>1, <1>5, RetryRests DEF SegNoAnswer, Live, disk
<1>6. CASE SegFails(i)
  BY <1>1, <1>6, EndRests DEF SegFails, Ended
<1>7. CASE SegCancelled(i)
  BY <1>1, <1>7, EndRests DEF SegCancelled, Ended
<1>8. ASSUME NEW k \in 1..MaxChunk, WriteChunk(i, k)
      PROVE  Shape'
  <2> DEFINE w == Room(i, k)
  <2>1. worker[i].st \in Live /\ worker[i].pend = 0 /\ worker[i].st = "stream"
    BY <1>8 DEF WriteChunk, Live
  <2>2. w \in Nat /\ progress[i] + w <= Need(i) /\ w \in 0..MaxLen
    <3>1. progress[i] < Need(i) /\ k \in Nat
      BY <1>8, CallsAssumption DEF WriteChunk
    <3>2. progress[i] \in Nat /\ Need(i) \in Nat
      BY <1>1, <2>1
    <3>3. Need(i) <= MaxLen /\ MaxLen \in Nat
      BY <2>1, LiveWorker, ResourcesAssumption
    <3> QED BY <3>1, <3>2, <3>3 DEF Room
  <2> HIDE DEF w
  <2>3. CASE worker' = [worker EXCEPT ![i].pend = w, ![i].cached = 0]
             /\ part' = [b \in DOMAIN part |->
                  IF b \in Pos(i)..(Pos(i) + w - 1) THEN worker[i].body ELSE Flushed(i)[b]]
    <3> DEFINE v == [worker[i] EXCEPT !.pend = w, !.cached = 0]
    <3>1. v \in Workers /\ v.pend = w /\ v.cached = 0 /\ v.st = "stream" /\ v.tries = worker[i].tries
      BY <1>1, <2>1, <2>2 DEF Workers
    <3>2. worker' = [worker EXCEPT ![i] = v]
      BY <2>3 DEF Shape, TypeOK, WorkersOK
    <3>3. part' \in [0..(run.size - 1) -> Cells]
      BY <1>1, <2>1, <2>3 DEF Workers
    <3> HIDE DEF v
    <3>4. progress[i] + v.pend <= Need(i) /\ v.cached <= progress[i] + v.pend
      BY <1>1, <2>1, <2>2, <3>1
    <3>5. UNCHANGED <<served, meta, final, main, progress>>
      BY <1>8 DEF WriteChunk
    <3> QED BY <1>1, <2>1, <3>1, <3>2, <3>3, <3>4, <3>5, WorkerTurns
  <2>4. CASE worker' = [worker EXCEPT ![i].pend = w, ![i].cached = @ + w] /\ UNCHANGED part
    <3> DEFINE v == [worker[i] EXCEPT !.pend = w, !.cached = @ + w]
    <3>0. Need(i) <= MaxLen /\ MaxLen \in Nat
      BY <1>1, <2>1, LiveWorker, ResourcesAssumption
    <3>1. worker[i].cached + w \in 0..MaxLen /\ worker[i].cached + w <= progress[i] + w
      <4>1. worker[i].cached \in Nat /\ worker[i].cached <= progress[i] /\ progress[i] \in Nat
        BY <1>1, <2>1, ResourcesAssumption DEF Workers
      <4>2. progress[i] + w \in Nat /\ progress[i] + w <= MaxLen
        <5>1. Need(i) \in Nat
          BY <1>1, <2>1
        <5> QED BY <2>2, <3>0, <4>1, <5>1
      <4> QED BY <2>2, <3>0, <4>1, <4>2
    <3>2. /\ v \in Workers /\ v.pend = w /\ v.cached = worker[i].cached + w
          /\ v.st = "stream" /\ v.tries = worker[i].tries
      BY <1>1, <2>1, <2>2, <3>1 DEF Workers
    <3>3. worker' = [worker EXCEPT ![i] = v]
      BY <2>4 DEF Shape, TypeOK, WorkersOK
    <3> HIDE DEF v
    <3>4. progress[i] + v.pend <= Need(i) /\ v.cached <= progress[i] + v.pend
      BY <1>1, <2>1, <2>2, <3>1, <3>2
    <3>5. part' \in [0..(run.size - 1) -> Cells] /\ UNCHANGED <<served, meta, final, main, progress>>
      BY <1>1, <1>8, <2>1, <2>4 DEF WriteChunk
    <3> QED BY <1>1, <2>1, <3>2, <3>3, <3>4, <3>5, WorkerTurns
  <2> QED BY <1>8, <2>3, <2>4 DEF WriteChunk, w
<1>9. CASE CountChunk(i)
  <2> DEFINE v == [worker[i] EXCEPT !.pend = 0]
             c == progress[i] + worker[i].pend
  <2>1. worker[i].st = "stream" /\ worker[i].st \in Live
    BY <1>9 DEF CountChunk, Shape, WorkerShape, Live
  <2>2. /\ v \in Workers /\ v.pend = 0 /\ v.cached = worker[i].cached
        /\ v.st = "stream" /\ v.tries = worker[i].tries
    <3>1. 0 \in 0..MaxLen
      BY ResourcesAssumption
    <3> QED BY <1>1, <2>1, <3>1 DEF Workers
  <2>3. c \in Nat /\ c <= Need(i) /\ v.cached <= c
    BY <1>1, <2>1, <2>2 DEF Workers
  <2>4. worker' = [worker EXCEPT ![i] = v] /\ progress' = [progress EXCEPT ![i] = c]
    BY <1>9 DEF CountChunk, Shape, TypeOK, WorkersOK
  <2> HIDE DEF v, c
  <2>5. c + v.pend <= Need(i) /\ v.cached <= c + v.pend
    BY <1>1, <2>1, <2>2, <2>3
  <2> QED BY <1>1, <1>9, <2>1, <2>2, <2>3, <2>4, <2>5, WorkerMoves DEF CountChunk, disk
<1>10. CASE CloseBody(i)
  BY <1>1, <1>10, EndRests, RetryRests DEF CloseBody, Live, Ended
<1>11. CASE FlushFails(i)
  BY <1>1, <1>11, EndRests DEF FlushFails, Live, Ended, disk
<1> QED
  BY <1>2, <1>3, <1>4, <1>5, <1>6, <1>7, <1>8, <1>9, <1>10, <1>11 DEF WorkerStep

(* The main thread goes on within its run.                                   *)
LEMMA MainGoesAnd ==
  ASSUME Shape, run # None, UNCHANGED <<served, run>>,
         pc' \in Pcs \ {"idle"}, outcome' \in Outcomes, cancel' \in BOOLEAN, pending' \subseteq Slots,
         FilesOK', PartShape', NoWriterLeft', WorkersOK', CountsOK', WorkerShape',
         pc' \in {"load", "save", "saveReset", "check", "wait", "join", "gate"} => run.size # 0,
         pc' = "body" => run.body \in Resources
  PROVE  Shape'
<1> USE DEF Shape, TypeOK
<1>1. MainOK'
  BY DEF MainOK
<1>2. RunShape'
  BY DEF RunShape
<1>3. ServedOwn'
  BY DEF ServedOwn
<1> QED BY <1>1, <1>2, <1>3

(* ... without touching counts or workers.                                   *)
LEMMA MainGoes ==
  ASSUME Shape, run # None, UNCHANGED <<served, run, progress, worker>>,
         pc' \in Pcs \ {"idle"}, outcome' \in Outcomes, cancel' \in BOOLEAN, pending' \subseteq Slots,
         FilesOK', PartShape', NoWriterLeft',
         pc' \in {"load", "save", "saveReset", "check", "wait", "join", "gate"} => run.size # 0,
         pc' = "body" => run.body \in Resources
  PROVE  Shape'
<1> USE DEF Shape, TypeOK
<1>1. WorkersOK'
  BY DEF WorkersOK
<1>2. CountsOK'
  BY DEF CountsOK, Need
<1>3. WorkerShape'
  BY DEF WorkerShape
<1> QED BY <1>1, <1>2, <1>3, MainGoesAnd

(* ... and sets the counts while no worker runs.                             *)
LEMMA MainCounts ==
  ASSUME Shape, run # None, UNCHANGED <<served, run, worker, outcome, cancel, pending>>,
         pc \notin {"check", "wait", "join"}, pc' \in Pcs \ {"idle", "body"}, run.size # 0,
         FilesOK', PartShape',
         progress' \in [Slots -> 0..MaxLen],
         \A i \in Slots : progress'[i] <= (IF i <= run.segs THEN Need(i) ELSE 0)
  PROVE  Shape'
<1> USE DEF Shape, TypeOK
<1>1. WorkersOK' /\ outcome' \in Outcomes /\ cancel' \in BOOLEAN /\ pending' \subseteq Slots
  BY DEF WorkersOK, MainOK
<1>2. \A i \in Slots : worker[i].pend = 0 /\ worker[i].cached = 0 /\ worker[i].st \notin Live
  BY DEF NoWriterLeft, WorkerShape, Live
<1>3. CountsOK'
  <2> SUFFICES ASSUME NEW i \in Slots
               PROVE IF i <= run.segs THEN progress'[i] + worker[i].pend <= Need(i)
                     ELSE progress'[i] = 0 /\ worker[i] = Worker("off", 0)
    BY DEF CountsOK, Need
  <2>1. progress'[i] \in Nat /\ MaxLen \in Nat
    BY ResourcesAssumption
  <2> QED BY <1>2, <2>1 DEF CountsOK
<1>4. WorkerShape'
  BY <1>2, ResourcesAssumption DEF WorkerShape
<1>5. NoWriterLeft'
  BY <1>2 DEF NoWriterLeft
<1> QED BY <1>1, <1>3, <1>4, <1>5, MainGoesAnd

(* The call ends, or its process does: no worker is left, the files stay.    *)
LEMMA AllOffShape ==
  ASSUME Shape, pc' = "idle", run' = None, cancel' = FALSE, outcome' \in Outcomes, pending' = {},
         progress' = Zeros, worker' = AllOff, FilesOK', UNCHANGED served
  PROVE  Shape'
<1> USE DEF Shape, ServedOwn, TypeOK
<1>1. \A i \in Slots : progress'[i] = 0 /\ worker'[i] = Worker("off", 0)
  BY DEF Zeros, AllOff
<1>2. MainOK'
  BY DEF MainOK, Pcs
<1>3. WorkersOK'
  <2>1. 0 \in 0..MaxLen /\ 0 \in 0..Retries /\ Hole \in Cells
    BY ResourcesAssumption, CallsAssumption DEF Cells
  <2>2. Worker("off", 0) \in Workers
    BY <2>1 DEF Worker, Workers
  <2> QED BY <2>1, <2>2 DEF WorkersOK, Zeros, AllOff
<1>4. CountsOK'
  BY <1>1 DEF CountsOK
<1>5. RunShape' /\ PartShape'
  BY DEF RunShape, PartShape
<1>6. WorkerShape' /\ NoWriterLeft'
  BY <1>1 DEF WorkerShape, NoWriterLeft, Worker, Live
<1> QED BY <1>2, <1>3, <1>4, <1>5, <1>6

LEMMA RunOver ==
  ASSUME Shape, NEW o \in Outcomes, EndRun(o), FilesOK', UNCHANGED served,
         \A i \in Slots : worker[i].st \notin Live
  PROVE  Shape'
<1>1. worker' = AllOff
  BY DEF EndRun, Reaped, AllOff
<1> QED BY <1>1, AllOffShape DEF EndRun

LEMMA NoLive ==
  ASSUME Shape, pc \notin {"check", "wait", "join"} \/ PoolIdle
  PROVE  \A i \in Slots : worker[i].st \notin Live
BY DEF Shape, NoWriterLeft, PoolIdle

LEMMA SnapshotTyped ==
  ASSUME Shape, run # None
  PROVE  Snapshot \in Sidecars
<1>1. run \in Runs /\ progress \in [Slots -> 0..MaxLen]
  BY DEF Shape, TypeOK, MainOK, WorkersOK
<1>2. 1..run.segs \subseteq Slots
  BY <1>1, CallsAssumption DEF Runs, Slots
<1>3. [i \in 1..run.segs |-> progress[i]] \in [1..run.segs -> 0..MaxLen]
  BY <1>1, <1>2
<1>4. [i \in 1..run.segs |-> progress[i]] \in UNION {[1..k -> 0..MaxLen] : k \in Slots}
  BY <1>1, <1>3 DEF Runs
<1> QED BY <1>1, <1>4, ResourcesAssumption DEF Snapshot, Sidecars, Runs

LEMMA ShapeProbe ==
  ASSUME Shape, NEW u \in Urls, NEW n \in SegChoices, Probe(u, n)
  PROVE  Shape'
<1> USE DEF Shape, ServedOwn, TypeOK
<1>0. PICK ranged \in AcceptRanges : \E size \in Announced(served[u], ranged) :
        /\ run' = [url |-> u, res |-> served[u], size |-> size,
                   segs |-> IF ranged /\ size > 0 THEN NumRanges(size, n) ELSE 1, body |-> Hole]
        /\ pc' = IF ranged /\ size > 0 THEN "load" ELSE "single"
  BY DEF Probe
<1>1. PICK size \in Announced(served[u], ranged) :
        /\ run' = [url |-> u, res |-> served[u], size |-> size,
                   segs |-> IF ranged /\ size > 0 THEN NumRanges(size, n) ELSE 1, body |-> Hole]
        /\ pc' = IF ranged /\ size > 0 THEN "load" ELSE "single"
  BY <1>0
<1>2. /\ pc = "idle" /\ run = None
      /\ UNCHANGED <<served, part, meta, final, cancel, pending, progress, worker>> /\ outcome' = "none"
  BY DEF Probe, disk, MainOK
<1>3. served[u] \in Resources /\ size \in 0..MaxLen /\ size \in Nat /\ UrlOf[served[u]] = u
  <2>1. served[u] \in Resources /\ UrlOf[served[u]] = u
    BY DEF FilesOK, ServedOwn
  <2>2. SizeOf[served[u]] \in 1..MaxLen /\ MaxLen \in Nat
    BY <2>1, ResourcesAssumption
  <2>3. size \in {SizeOf[served[u]], 0, 1}
    BY DEF Announced
  <2> QED BY <2>1, <2>2, <2>3
<1>4. size > 0 => NumRanges(size, n) \in 1..size /\ NumRanges(size, n) \in Slots
  <2> SUFFICES ASSUME size > 0 PROVE NumRanges(size, n) \in 1..size /\ NumRanges(size, n) \in Slots
    OBVIOUS
  <2>1. n \in Int /\ n >= 1 /\ n <= MaxSegments
    BY CallsAssumption
  <2>2. NumRanges(size, n) \in 1..size /\ NumRanges(size, n) <= n
    BY <1>3, <2>1, NumRangesBounds
  <2> QED BY <1>3, <2>1, <2>2, CallsAssumption DEF Slots
<1>5. run' \in Runs /\ run' # None
  <2>1. 0 \in 0..MaxLen /\ 1 \in Slots /\ Hole \in Cells
    BY ResourcesAssumption, CallsAssumption DEF Slots, Cells
  <2>2. run' \in Runs
    BY <1>1, <1>3, <1>4, <2>1, ResourcesAssumption DEF Runs
  <2> QED BY <2>2, NoneAssumption
<1>6. FilesOK'
  BY <1>2 DEF FilesOK
<1>7. MainOK'
  BY <1>1, <1>2, <1>5 DEF MainOK, Pcs, Outcomes
<1>8. WorkersOK'
  BY <1>2 DEF WorkersOK
<1>9. RunShape'
  BY <1>1, <1>3, <1>4, ResourcesAssumption DEF RunShape
<1>10. \A i \in Slots : progress[i] = 0 /\ worker[i] = Worker("off", 0)
  BY <1>2 DEF CountsOK
<1>11. CountsOK'
  <2> SUFFICES ASSUME NEW i \in Slots, i <= run'.segs, run'.size # 0
               PROVE  0 <= Need(i)'
    BY <1>2, <1>10 DEF CountsOK, Worker
  <2>1. i \in 1..run'.segs /\ run'.size \in Nat \ {0} /\ run'.segs \in 1..run'.size
    BY <1>5, <1>9, ResourcesAssumption, CallsAssumption DEF Runs, RunShape, Slots
  <2>2. SegNeed(run'.size, run'.segs, i) \in 1..run'.size
    BY <2>1, SegmentBounds
  <2> QED BY <2>1, <2>2 DEF Need
<1>12. PartShape'
  BY <1>1 DEF PartShape
<1>13. WorkerShape'
  BY <1>2 DEF WorkerShape
<1>14. NoWriterLeft'
  BY <1>2 DEF NoWriterLeft
<1>15. ServedOwn'
  BY <1>2
<1> QED BY <1>6, <1>7, <1>8, <1>9, <1>11, <1>12, <1>13, <1>14, <1>15

LEMMA ShapeFetch ==
  ASSUME Shape,
         Resume \/ Reset \/ SaveInitial \/ Check \/ Tick \/ TickRaises \/ TickFails
  PROVE  Shape'
<1> USE DEF Shape, TypeOK
<1>1. run # None /\ run \in Runs /\ run.size \in 0..MaxLen
  BY DEF MainOK, Runs, Resume, Reset, SaveInitial, Check, Tick, TickRaises, TickFails
<1>2. CASE Resume
  <2>1. pc = "load" /\ pc' = "save" /\ UNCHANGED <<served, part, meta, final, run, cancel, outcome, pending, worker>>
    BY <1>2 DEF Resume, Goto, disk
  <2>2. CanResume /\ progress' = [i \in Slots |-> IF i <= run.segs THEN meta.progress[i] ELSE 0]
    BY <1>2 DEF Resume
  <2>3. run.size # 0 /\ run.size \in Nat \ {0} /\ run.segs \in 1..run.size /\ run.segs \in Slots
    BY <1>1, <2>1, ResourcesAssumption, CallsAssumption DEF RunShape, Runs, Slots
  <2>4. \A i \in 1..run.segs :
          meta.progress[i] \in 0..MaxLen /\ meta.progress[i] <= SegNeed(run.size, run.segs, i)
    <3>1. PICK k \in 1..run.size :
            /\ DOMAIN meta.progress = 1..k
            /\ \A i \in 1..k : meta.progress[i] <= SegNeed(run.size, k, i)
      BY <2>2 DEF CanResume, Trusted
    <3>2. k = run.segs
      <4>1. 1..k = 1..run.segs
        BY <2>2, <3>1 DEF CanResume
      <4>2. k \in 1..run.segs /\ run.segs \in 1..k
        BY <4>1, <2>3
      <4> QED BY <4>2, <2>3
    <3>3. PICK m \in Slots : meta.progress \in [1..m -> 0..MaxLen]
      BY <2>2 DEF CanResume, Trusted, FilesOK, Sidecars
    <3> QED BY <3>1, <3>2, <3>3
  <2>5. progress' \in [Slots -> 0..MaxLen]
    BY <2>2, <2>4, ResourcesAssumption DEF Slots
  <2>6. \A i \in Slots : progress'[i] <= (IF i <= run.segs THEN Need(i) ELSE 0)
    BY <2>2, <2>4 DEF Slots, Need
  <2>7. FilesOK' /\ PartShape' /\ pc' \in Pcs \ {"idle", "body"}
    BY <2>1, <2>2 DEF FilesOK, PartShape, CanResume, Pcs
  <2> QED BY <1>1, <2>1, <2>3, <2>5, <2>6, <2>7, MainCounts
<1>3. CASE Reset
  <2>1. pc = "load" /\ pc' = "saveReset" /\ progress' = Zeros /\ part' = Blank(run.size)
        /\ UNCHANGED <<served, meta, final, run, cancel, outcome, pending, worker>>
    BY <1>3 DEF Reset, Goto
  <2>2. run.size # 0
    BY <1>1, <2>1 DEF RunShape
  <2>3. \A i \in 1..run.segs : Need(i) \in 1..run.size
    BY <1>1, <2>2, RunSegments
  <2>4. \A i \in Slots : progress'[i] <= (IF i <= run.segs THEN Need(i) ELSE 0)
    BY <1>1, <2>1, <2>3 DEF Zeros, Slots
  <2>5. progress' \in [Slots -> 0..MaxLen]
    BY <2>1, ResourcesAssumption DEF Zeros
  <2>6. part' \in Files /\ HasLength(part', run.size)
    <3>1. part' \in [0..(run.size - 1) -> Cells]
      BY <2>1 DEF Blank, Cells
    <3> QED BY <1>1, <3>1, FileMade
  <2>7. FilesOK' /\ PartShape' /\ pc' \in Pcs \ {"idle", "body"}
    BY <2>1, <2>6 DEF FilesOK, PartShape, Pcs
  <2> QED BY <1>1, <2>1, <2>2, <2>4, <2>5, <2>7, MainCounts
<1>4. Snapshot \in Sidecars
  BY <1>1, SnapshotTyped
<1>5. CASE SaveInitial
  <2> DEFINE todo == {i \in 1..run.segs : progress[i] < Need(i)}
  <2>1. /\ pc \in {"save", "saveReset"} /\ pc' = "check" /\ meta' = Snapshot /\ pending' = todo
        /\ worker' = [i \in Slots |-> IF i \in todo THEN Worker("ready", 0) ELSE Worker("off", 0)]
        /\ UNCHANGED <<served, part, final, run, cancel, outcome, progress>>
    BY <1>5 DEF SaveInitial
  <2>2. run.size # 0 /\ todo \subseteq Slots
    BY <1>1, <2>1, CallsAssumption DEF RunShape, Runs, Slots
  <2> HIDE DEF todo
  <2>3. FilesOK' /\ PartShape' /\ NoWriterLeft' /\ pc' \in Pcs \ {"idle", "body"}
    BY <1>4, <2>1 DEF FilesOK, PartShape, NoWriterLeft, Pcs
  <2>4. Worker("ready", 0) \in Workers /\ Worker("off", 0) \in Workers
    <3>1. 0 \in 0..MaxLen /\ 0 \in 0..Retries /\ Hole \in Cells
      BY ResourcesAssumption, CallsAssumption DEF Cells
    <3> QED BY <3>1 DEF Worker, Workers, Live
  <2>5. WorkersOK'
    BY <2>1, <2>4 DEF WorkersOK
  <2>6. WorkerShape'
    BY <2>1, CallsAssumption DEF WorkerShape, WorkersOK, Worker, Live
  <2>7. CountsOK'
    <3> SUFFICES ASSUME NEW i \in Slots
                 PROVE IF i <= run.segs THEN progress[i] + worker'[i].pend <= Need(i)
                       ELSE progress[i] = 0 /\ worker'[i] = Worker("off", 0)
      BY <1>1, <2>1, <2>2 DEF CountsOK, Need
    <3>1. worker'[i].pend = 0 /\ worker[i].pend \in Nat /\ progress[i] \in Nat
      BY <2>1, ResourcesAssumption DEF WorkersOK, Workers, Worker
    <3>2. i \in todo => i <= run.segs
      BY <1>1 DEF todo, Runs, Slots
    <3>3. worker[i].pend = 0
      BY <2>1 DEF NoWriterLeft, WorkerShape, Live
    <3> QED BY <1>1, <2>1, <2>2, <3>1, <3>2, <3>3 DEF CountsOK
  <2> QED BY <1>1, <2>1, <2>2, <2>3, <2>5, <2>6, <2>7, MainGoesAnd DEF MainOK
<1>6. CASE Check
  <2>1. pc = "check" /\ pc' \in {"join", "wait"}
        /\ UNCHANGED <<served, part, meta, final, run, cancel, outcome, pending, progress, worker>>
    BY <1>6 DEF Check, Goto, disk
  <2>2. run.size # 0 /\ FilesOK' /\ PartShape' /\ NoWriterLeft' /\ pc' \in Pcs \ {"idle", "body"}
    BY <1>1, <2>1 DEF RunShape, FilesOK, PartShape, NoWriterLeft, Pcs
  <2> QED BY <1>1, <2>1, <2>2, MainGoes DEF MainOK
<1>7. CASE Tick \/ TickRaises \/ TickFails
  <2>1. /\ pc = "wait" /\ pc' \in {"check", "join"} /\ meta' \in {meta, Snapshot}
        /\ pending' \subseteq pending
        /\ UNCHANGED <<served, part, final, run, cancel, progress, worker>>
    BY <1>7 DEF Tick, TickRaises, TickFails, disk
  <2>2. outcome' \in Outcomes
    <3>1. \A i \in Raised : worker[i].st \in Ended
      BY DEF Raised, Finished
    <3> QED BY <1>7, <3>1 DEF Tick, TickRaises, TickFails, Outcomes, Ended, MainOK
  <2>3. run.size # 0 /\ FilesOK' /\ PartShape' /\ NoWriterLeft' /\ pc' \in Pcs \ {"idle", "body"}
    BY <1>1, <1>4, <2>1 DEF RunShape, FilesOK, PartShape, NoWriterLeft, Pcs
  <2> QED BY <1>1, <2>1, <2>2, <2>3, MainGoes DEF MainOK
<1> QED BY <1>2, <1>3, <1>5, <1>6, <1>7

LEMMA ShapeFinish ==
  ASSUME Shape, Joined \/ Gate \/ Promote \/ Unlink \/ DropPart \/ DropMeta
  PROVE  Shape'
<1> USE DEF Shape, TypeOK
<1>1. run # None /\ run \in Runs
  BY DEF MainOK, Joined, Gate, Promote, Unlink, DropPart, DropMeta
<1>2. \A i \in Slots : worker[i].st \notin Live
  BY NoLive DEF Joined, Gate, Promote, Unlink, DropPart, DropMeta
<1>3. \A i \in Slots : Reaped[i] = Worker("off", 0)
  BY <1>2 DEF Reaped
<1>4. Worker("off", 0) \in Workers
  <2>1. 0 \in 0..MaxLen /\ 0 \in 0..Retries /\ Hole \in Cells
    BY ResourcesAssumption, CallsAssumption DEF Cells
  <2> QED BY <2>1 DEF Worker, Workers
(* The pool is gone and the call goes on.                                    *)
<1>5. ASSUME pc = "join", pc' \in {"dropPart", "gate"}, worker' = Reaped, progress' \in {progress, Zeros},
             outcome' \in Outcomes, pending' \subseteq Slots,
             UNCHANGED <<served, disk, run, cancel>>
      PROVE  Shape'
  <2>1. run.size # 0
    BY <1>1, <1>5 DEF RunShape
  <2>2. FilesOK' /\ PartShape' /\ NoWriterLeft' /\ pc' \in Pcs \ {"idle", "body"}
    BY <1>3, <1>5 DEF FilesOK, PartShape, NoWriterLeft, Pcs, disk, Worker, Live
  <2>3. WorkersOK'
    BY <1>3, <1>4, <1>5, ResourcesAssumption DEF WorkersOK, Reaped, Zeros
  <2>4. \A i \in Slots : worker[i].pend = 0 /\ progress[i] \in Nat
    BY <1>2, ResourcesAssumption DEF WorkerShape, Live, WorkersOK
  <2>5. WorkerShape'
    BY <1>3, <1>5, <2>4 DEF WorkerShape, Worker, Live, Zeros
  <2>6. CountsOK'
    <3> SUFFICES ASSUME NEW i \in Slots
                 PROVE IF i <= run.segs THEN progress'[i] + worker'[i].pend <= Need(i)
                       ELSE progress'[i] = 0 /\ worker'[i] = Worker("off", 0)
      BY <1>1, <1>5, <2>1 DEF CountsOK, Need
    <3>1. worker'[i] = Worker("off", 0) /\ worker'[i].pend = 0
      BY <1>3, <1>5 DEF Worker
    <3>2. progress'[i] \in {progress[i], 0}
      BY <1>5 DEF Zeros
    <3>3. i <= run.segs => Need(i) \in Nat
      BY <1>1, <2>1, RunSegments DEF Slots
    <3> QED BY <1>1, <2>1, <2>4, <3>1, <3>2, <3>3 DEF CountsOK
  <2> QED BY <1>1, <1>5, <2>1, <2>2, <2>3, <2>5, <2>6, MainGoesAnd DEF MainOK
<1>6. ASSUME NEW o \in Outcomes, EndRun(o), FilesOK', UNCHANGED served
      PROVE  Shape'
  BY <1>2, <1>6, RunOver
<1>7. CASE Joined
  <2>1. UNCHANGED <<served, disk>> /\ FilesOK'
    BY <1>7 DEF Joined, disk, FilesOK
  <2>2. CASE \E o \in Outcomes : EndRun(o)
    BY <1>6, <2>1, <2>2
  <2>3. CASE ~\E o \in Outcomes : EndRun(o)
    <3>1. outcome \in Outcomes /\ "cancelled" \in Outcomes /\ "none" \in Outcomes /\ pending \subseteq Slots
      BY DEF MainOK, Outcomes
    <3> QED BY <1>5, <1>7, <2>1, <2>3, <3>1 DEF Joined
  <2> QED BY <2>2, <2>3
<1>8. CASE Gate
  <2>1. CASE Complete
    <3>1. /\ pc = "gate" /\ pc' = "promote" /\ meta' = Snapshot
          /\ UNCHANGED <<served, part, final, run, cancel, outcome, pending, progress, worker>>
      BY <1>8, <2>1 DEF Gate, Goto
    <3>2. FilesOK' /\ PartShape' /\ NoWriterLeft' /\ pc' \in Pcs \ {"idle", "body"}
      BY <1>1, <3>1, SnapshotTyped DEF FilesOK, PartShape, NoWriterLeft, Pcs, HasLength
    <3> QED BY <1>1, <3>1, <3>2, MainGoes DEF MainOK
  <2>2. CASE ~Complete
    <3>1. EndRun("integrity") /\ UNCHANGED <<served, disk>>
      BY <1>8, <2>2 DEF Gate, disk
    <3>2. FilesOK'
      BY <3>1 DEF FilesOK, disk
    <3> QED BY <1>6, <3>1, <3>2 DEF Outcomes
  <2> QED BY <2>1, <2>2
<1>9. CASE Promote \/ DropPart \/ DropMeta
  <2>1. /\ pc' \in {"unlink", "dropMeta", "single"}
        /\ pc \in {"promote", "dropPart", "dropMeta"}
        /\ part' \in {part, None} /\ meta' \in {meta, None} /\ final' \in {final, part}
        /\ UNCHANGED <<served, run, cancel, outcome, pending, progress, worker>>
    BY <1>9 DEF Promote, DropPart, DropMeta, Goto
  <2>2. FilesOK' /\ PartShape' /\ NoWriterLeft' /\ pc' \in Pcs \ {"idle", "body"}
    BY <1>2, <2>1 DEF FilesOK, PartShape, NoWriterLeft, Pcs
  <2> QED BY <1>1, <2>1, <2>2, MainGoes DEF MainOK
<1>10. CASE Unlink
  <2>1. EndRun("done") /\ FilesOK' /\ UNCHANGED served
    BY <1>10 DEF Unlink, FilesOK
  <2> QED BY <1>6, <2>1 DEF Outcomes
<1> QED BY <1>7, <1>8, <1>9, <1>10

LEMMA ShapeSingle ==
  ASSUME Shape,
         \/ SingleRequest \/ (\E k \in 1..MaxChunk : SingleChunk(k))
         \/ SingleCancelled \/ SingleEnd
  PROVE  Shape'
<1> USE DEF Shape, TypeOK
<1>1. run # None /\ run \in Runs /\ pc \in {"single", "body"}
  BY DEF MainOK, SingleRequest, SingleChunk, SingleCancelled, SingleEnd
<1>2. \A i \in Slots : worker[i].st \notin Live
  BY <1>1, NoLive
<1>3. ASSUME NEW o \in Outcomes, EndRun(o), UNCHANGED <<served, disk>>
      PROVE  Shape'
  <2>1. FilesOK'
    BY <1>3 DEF FilesOK, disk
  <2> QED BY <1>2, <1>3, <2>1, RunOver
<1>4. CASE SingleRequest
  <2>1. /\ pc = "single" /\ pc' = "body" /\ part' = Blank(0) /\ run' = [run EXCEPT !.body = served[run.url]]
        /\ UNCHANGED <<served, meta, final, cancel, outcome, pending, progress, worker>>
    BY <1>4 DEF SingleRequest
  <2>2. served[run.url] \in Resources /\ run' \in Runs /\ run' # None
    <3>1. served[run.url] \in Resources
      BY <1>1 DEF FilesOK, Runs
    <3>2. run' \in Runs
      BY <1>1, <2>1, <3>1 DEF Runs, Cells
    <3> QED BY <3>1, <3>2, NoneAssumption
  <2>3. run'.url = run.url /\ run'.res = run.res /\ run'.size = run.size /\ run'.segs = run.segs
        /\ run'.body \in Resources
    BY <1>1, <2>1, <2>2 DEF Runs
  <2>4. part' \in Files /\ HasLength(part', 0) /\ 0 \in 0..MaxLen
    <3>1. Blank(0) \in [0..(0 - 1) -> Cells] /\ 0 \in 0..MaxLen
      BY ResourcesAssumption DEF Blank, Cells
    <3> QED BY <2>1, <3>1, FileMade
  <2>5. FilesOK' /\ PartShape' /\ NoWriterLeft'
    BY <1>2, <2>1, <2>4 DEF FilesOK, PartShape, NoWriterLeft
  <2>6. MainOK' /\ WorkersOK' /\ WorkerShape' /\ ServedOwn'
    BY <1>1, <2>1, <2>2 DEF MainOK, WorkersOK, WorkerShape, ServedOwn, Pcs
  <2>7. RunShape'
    BY <1>1, <2>1, <2>3 DEF RunShape
  <2>8. CountsOK'
    BY <1>1, <2>1, <2>2, <2>3 DEF CountsOK, Need
  <2> QED BY <2>5, <2>6, <2>7, <2>8
<1>5. ASSUME NEW k \in 1..MaxChunk, SingleChunk(k)
      PROVE  Shape'
  <2> DEFINE len == Received + k
  <2>1. /\ pc = "body" /\ len <= SizeOf[run.body]
        /\ part' = [b \in 0..(len - 1) |-> run.body]
        /\ \/ meta' = [url |-> run.url, size |-> run.size, etag |-> NoEtag, progress |-> <<len>>]
           \/ UNCHANGED meta
        /\ UNCHANGED <<served, final, main, progress, worker>>
    BY <1>5 DEF SingleChunk
  <2>2. Received \in 0..MaxLen
    BY <2>1 DEF PartShape, Received
  <2>3. run.body \in Resources /\ run.body \in Cells
    BY <1>1, <2>1 DEF RunShape, Cells
  <2>4. len \in 0..MaxLen
    <3>1. SizeOf[run.body] \in 1..MaxLen
      BY <2>3, ResourcesAssumption
    <3>2. MaxLen \in Nat /\ k \in Nat
      BY ResourcesAssumption, CallsAssumption
    <3> QED BY <2>1, <2>2, <3>1, <3>2
  <2> HIDE DEF len
  <2>5. part' \in Files /\ HasLength(part', len)
    <3>1. part' \in [0..(len - 1) -> Cells]
      BY <2>1, <2>3
    <3> QED BY <2>4, <3>1, FileMade
  <2>6. meta' \in Sidecars \cup {None}
    <3>1. <<len>> \in [1..1 -> 0..MaxLen] /\ 1 \in Slots
      BY <2>4, CallsAssumption DEF Slots
    <3>2. <<len>> \in UNION {[1..m -> 0..MaxLen] : m \in Slots}
      BY <3>1
    <3>3. [url |-> run.url, size |-> run.size, etag |-> NoEtag, progress |-> <<len>>] \in Sidecars
      BY <1>1, <3>2, ResourcesAssumption DEF Sidecars, Runs
    <3> QED BY <2>1, <3>3 DEF FilesOK
  <2>7. FilesOK' /\ PartShape' /\ NoWriterLeft'
    BY <1>2, <2>1, <2>4, <2>5, <2>6 DEF FilesOK, PartShape, NoWriterLeft, main
  <2> QED BY <1>1, <2>1, <2>3, <2>7, MainGoes DEF main, MainOK
<1>6. CASE SingleCancelled
  BY <1>3, <1>6 DEF SingleCancelled, Outcomes
<1>7. CASE SingleEnd
  <2>1. CASE EndRun("short")
    BY <1>3, <1>7, <2>1 DEF SingleEnd, Outcomes
  <2>2. CASE ~EndRun("short")
    <3>1. pc = "body" /\ pc' = "promote"
          /\ UNCHANGED <<served, disk, run, cancel, outcome, pending, progress, worker>>
      BY <1>7, <2>2 DEF SingleEnd, Goto
    <3>2. FilesOK' /\ PartShape' /\ NoWriterLeft'
      BY <1>2, <3>1 DEF FilesOK, PartShape, NoWriterLeft, disk, HasLength
    <3> QED BY <1>1, <3>1, <3>2, MainGoes DEF MainOK, Pcs
  <2> QED BY <2>1, <2>2
<1> QED BY <1>4, <1>5, <1>6, <1>7

LEMMA ShapeWorld ==
  ASSUME Shape,
         \/ StepFails \/ Kill \/ Cancel \/ CleanUp
         \/ \E r \in Resources : Swap(r)
         \/ \E u \in Urls : Rebind(u)
  PROVE  Shape'
<1> USE DEF Shape, TypeOK
<1>1. CASE StepFails
  <2>1. EndRun("failed") /\ UNCHANGED <<served, disk>> /\ pc \notin {"check", "wait", "join"}
    BY <1>1 DEF StepFails
  <2>2. FilesOK' /\ "failed" \in Outcomes
    BY <2>1 DEF FilesOK, disk, Outcomes
  <2> QED BY <2>1, <2>2, NoLive, RunOver
<1>2. CASE Kill
  <2>1. FilesOK' /\ "killed" \in Outcomes
    BY <1>2 DEF Kill, FilesOK, disk, Outcomes
  <2> QED BY <1>2, <2>1, AllOffShape DEF Kill
<1>3. CASE Cancel
  <2>1. /\ run # None /\ pc' \in Pcs \ {"idle"} /\ cancel' \in BOOLEAN
        /\ UNCHANGED <<served, part, meta, final, pc, run, outcome, pending, progress, worker>>
    BY <1>3 DEF Cancel, MainOK, disk
  <2>2. FilesOK' /\ PartShape' /\ NoWriterLeft'
    BY <2>1 DEF FilesOK, PartShape, NoWriterLeft
  <2> QED BY <2>1, <2>2, MainGoes DEF MainOK, RunShape
<1>4. ASSUME NEW r \in Resources, Swap(r)
      PROVE  Shape'
  <2>1. served' = [served EXCEPT ![UrlOf[r]] = r] /\ UNCHANGED <<disk, main, progress, worker>>
    BY <1>4 DEF Swap
  <2>2. UrlOf[r] \in Urls
    BY ResourcesAssumption
  <2>3. FilesOK' /\ ServedOwn'
    BY <2>1, <2>2 DEF FilesOK, ServedOwn, disk
  <2>4. MainOK' /\ WorkersOK' /\ CountsOK' /\ RunShape' /\ PartShape' /\ WorkerShape' /\ NoWriterLeft'
    BY <2>1 DEF MainOK, WorkersOK, CountsOK, Need, RunShape, PartShape, WorkerShape, NoWriterLeft, disk, main
  <2> QED BY <2>3, <2>4
<1>5. ASSUME NEW u \in Urls, Rebind(u)
      PROVE  Shape'
  <2>1. /\ meta \in Sidecars /\ meta' = [meta EXCEPT !.url = u, !.etag = EtagOf[served[u]]]
        /\ UNCHANGED <<served, part, final, main, progress, worker>>
    BY <1>5 DEF Rebind, FilesOK
  <2>2. EtagOf[served[u]] \in Etags
    BY ResourcesAssumption DEF FilesOK
  <2>3. FilesOK'
    BY <2>1, <2>2 DEF FilesOK, Sidecars
  <2>4. /\ MainOK' /\ WorkersOK' /\ CountsOK' /\ RunShape' /\ PartShape' /\ WorkerShape'
        /\ NoWriterLeft' /\ ServedOwn'
    BY <2>1 DEF MainOK, WorkersOK, CountsOK, Need, RunShape, PartShape, WorkerShape, NoWriterLeft,
                ServedOwn, main
  <2> QED BY <2>3, <2>4
<1>6. CASE CleanUp
  <2>1. /\ run = None /\ pc = "idle" /\ part' \in {part, None} /\ meta' \in {meta, None}
        /\ UNCHANGED <<served, final, main, progress, worker>>
    BY <1>6 DEF CleanUp, MainOK
  <2>2. FilesOK' /\ PartShape'
    BY <2>1 DEF FilesOK, PartShape, main
  <2>3. /\ MainOK' /\ WorkersOK' /\ CountsOK' /\ RunShape' /\ WorkerShape'
        /\ NoWriterLeft' /\ ServedOwn'
    BY <2>1 DEF MainOK, WorkersOK, CountsOK, Need, RunShape, WorkerShape, NoWriterLeft,
                ServedOwn, main
  <2> QED BY <2>2, <2>3
<1> QED BY <1>1, <1>2, <1>3, <1>4, <1>5, <1>6

LEMMA ShapeStep == Shape /\ [Next]_vars => Shape'
<1> SUFFICES ASSUME Shape, [Next]_vars PROVE Shape'
  OBVIOUS
<1>1. CASE Next
  BY <1>1, ShapeProbe, ShapeFetch, ShapeFinish, ShapeSingle, ShapeWorker, ShapeWorld DEF Next, MainStep
<1>2. CASE UNCHANGED vars
  BY <1>2 DEF vars, disk, main, Shape, TypeOK, FilesOK, MainOK, WorkersOK, CountsOK, Need,
              RunShape, PartShape, WorkerShape, NoWriterLeft, ServedOwn
<1> QED BY <1>1, <1>2

(* Under every fault, at every step: files, counts and threads are what the  *)
(* code takes them for; in particular no segment ever counts or writes past  *)
(* its end (engine.py:318-320).                                              *)
THEOREM TypeCorrect == Spec => []TypeOK
<1>1. Shape => TypeOK
  BY DEF Shape
<1> QED BY <1>1, ShapeInit, ShapeStep, PTL DEF Spec

(* Under every fault, no worker is left when the main thread resets,         *)
(* promotes or deletes `part`, or returns (engine.py:438-439).               *)
THEOREM NoWriterIsLeft == Spec => []NoWriterLeft
<1>1. Shape => NoWriterLeft
  BY DEF Shape
<1> QED BY <1>1, ShapeInit, ShapeStep, PTL DEF Spec

-----------------------------------------------------------------------------
(* The integrity gate of the segmented path never trips, for every value of  *)
(* the constants and under every fault: a run that gets to it without an     *)
(* exception has filled its segments.                                        *)

Full(i) == progress[i] = Need(i)

(* What the main thread no longer waits for is full, unless it has seen an   *)
(* exception; it stops waiting only when nothing is left, or at a cancel.    *)
Filled ==
  /\ GateNeverTrips
  /\ pc \in {"check", "wait", "join"} =>
       \A i \in 1..run.segs : worker[i].st = "done" => Full(i)
  /\ pc \in {"check", "wait"} \/ (pc = "join" /\ outcome = "none") =>
       \A i \in 1..run.segs : i \notin pending => Full(i)
  /\ pc = "join" /\ outcome = "none" => cancel \/ pending = {}
  /\ pc = "gate" => Complete

LEMMA SegmentSlots == run \in Runs => 1..run.segs \subseteq Slots
BY CallsAssumption DEF Runs, Slots

LEMMA FilledInit == Init => Filled
BY DEF Init, Filled, GateNeverTrips

(* A worker counts no byte of a full segment, and is done with a full one.   *)
LEMMA FilledWorker ==
  ASSUME Shape, Filled, NEW i \in Slots, WorkerStep(i)
  PROVE  Filled'
<1>1. worker[i].st \in Live
  <2>1. CASE CountChunk(i)
    <3>1. worker[i].pend # 0
      BY <2>1 DEF CountChunk
    <3> QED BY <3>1 DEF Shape, WorkerShape, Live
  <2>2. CASE DropQueued(i)
    BY <2>2 DEF DropQueued, Worker, Live
  <2>3. CASE ~CountChunk(i) /\ ~DropQueued(i)
    BY <2>3 DEF WorkerStep, SegResponse, SegNoRange, SegNoAnswer, SegFails, SegCancelled,
                WriteChunk, CloseBody, FlushFails, Live
  <2> QED BY <2>1, <2>2, <2>3
<1>2. /\ pc \in {"check", "wait", "join"} /\ run \in Runs /\ i \in 1..run.segs
      /\ Need(i) \in Nat /\ progress[i] \in Nat /\ worker[i] \in Workers
      /\ progress[i] + worker[i].pend <= Need(i)
  BY <1>1, LiveWorker
<1>3. worker \in [Slots -> Workers] /\ progress \in [Slots -> 0..MaxLen] /\ 1..run.segs \subseteq Slots
  BY <1>2, SegmentSlots DEF Shape, TypeOK, WorkersOK
<1>4. UNCHANGED main
  BY DEF WorkerStep, DropQueued, SegResponse, SegNoRange, SegNoAnswer, SegFails, SegCancelled,
         WriteChunk, CountChunk, CloseBody, FlushFails
<1>5. UNCHANGED <<pc, run, cancel, outcome, pending>> /\ \A j : Need(j)' = Need(j)
  BY <1>4 DEF main, Need
<1>6. \A j \in Slots : Full(j) => Full(j)'
  <2>1. CASE CountChunk(i)
    <3>1. worker[i].pend > 0 /\ progress' = [progress EXCEPT ![i] = @ + worker[i].pend]
      BY <2>1 DEF CountChunk
    <3>2. ~Full(i)
      BY <1>2, <3>1, ResourcesAssumption DEF Full, Workers
    <3> QED BY <1>3, <1>5, <3>1, <3>2 DEF Full
  <2>2. CASE ~CountChunk(i)
    <3>1. progress' = progress
      BY <2>2 DEF WorkerStep, DropQueued, SegResponse, SegNoRange, SegNoAnswer, SegFails,
                  SegCancelled, WriteChunk, CloseBody, FlushFails
    <3> QED BY <1>5, <3>1 DEF Full
  <2> QED BY <2>1, <2>2
<1>7. worker'[i].st = "done" => Full(i)'
  <2>1. CASE CountChunk(i)
    BY <1>1, <1>3, <2>1 DEF CountChunk, Live
  <2>2. CASE CloseBody(i)
    BY <1>3, <1>5, <2>2 DEF CloseBody, End, Retry, Worker, Full
  <2>3. CASE DropQueued(i) \/ SegNoRange(i) \/ SegFails(i) \/ SegCancelled(i) \/ FlushFails(i)
    BY <1>3, <2>3 DEF DropQueued, SegNoRange, SegFails, SegCancelled, FlushFails, End, Worker
  <2>4. CASE SegNoAnswer(i)
    BY <1>3, <2>4 DEF SegNoAnswer, End, Retry, Worker
  <2>5. CASE SegResponse(i)
    <3>1. PICK body : worker' = [worker EXCEPT ![i].st = "stream", ![i].body = body]
      BY <2>5 DEF SegResponse
    <3>2. worker'[i].st = "stream"
      BY <1>2, <1>3, <3>1 DEF Workers
    <3> QED BY <3>2
  <2>6. ASSUME NEW k \in 1..MaxChunk, WriteChunk(i, k) PROVE worker'[i].st = "stream"
    <3>1. PICK p, c : worker' = [worker EXCEPT ![i].pend = p, ![i].cached = c]
      BY <2>6 DEF WriteChunk
    <3>2. worker[i].st = "stream"
      BY <2>6 DEF WriteChunk
    <3> QED BY <1>2, <1>3, <3>1, <3>2 DEF Workers
  <2> QED BY <2>1, <2>2, <2>3, <2>4, <2>5, <2>6 DEF WorkerStep
<1>8. \A j \in Slots \ {i} : worker'[j] = worker[j]
  BY <1>3 DEF WorkerStep, DropQueued, SegResponse, SegNoRange, SegNoAnswer, SegFails, SegCancelled,
              WriteChunk, CountChunk, CloseBody, FlushFails, End, Retry
<1>9. \A j \in 1..run.segs : worker'[j].st = "done" => Full(j)'
  <2> SUFFICES ASSUME NEW j \in 1..run.segs, worker'[j].st = "done" PROVE Full(j)'
    OBVIOUS
  <2>1. CASE j = i
    BY <1>7, <2>1
  <2>2. CASE j # i
    <3>1. j \in Slots /\ worker[j].st = "done"
      BY <1>3, <1>8, <2>2
    <3>2. Full(j)
      BY <1>2, <3>1 DEF Filled
    <3> QED BY <1>6, <3>1, <3>2
  <2> QED BY <2>1, <2>2
<1> QED BY <1>2, <1>3, <1>5, <1>6, <1>9 DEF Filled, GateNeverTrips

(* The first save starts a worker for every segment that is not full.        *)
LEMMA FilledStart ==
  ASSUME Shape, Filled, SaveInitial
  PROVE  Filled'
<1>1. run \in Runs /\ run # None /\ run.size # 0 /\ 1..run.segs \subseteq Slots
  BY SegmentSlots DEF SaveInitial, Shape, TypeOK, MainOK, RunShape
<1>2. ASSUME NEW i \in 1..run.segs PROVE Full(i) \/ progress[i] < Need(i)
  <2>1. Need(i) \in Nat
    BY <1>1, RunSegments DEF Shape
  <2>2. progress[i] \in Nat /\ worker[i].pend \in Nat /\ progress[i] + worker[i].pend <= Need(i)
    BY <1>1, ResourcesAssumption DEF Shape, TypeOK, CountsOK, WorkersOK, Workers, Slots
  <2> QED BY <2>1, <2>2 DEF Full
<1>3. /\ pc' = "check" /\ pending' = {i \in 1..run.segs : progress[i] < Need(i)}
      /\ \A i \in Slots : worker'[i].st \in {"ready", "off"}
      /\ UNCHANGED <<run, cancel, outcome, progress>>
  BY DEF SaveInitial, Worker
<1>4. \A i \in 1..run.segs : i \notin pending' => Full(i)'
  BY <1>2, <1>3 DEF Full, Need
<1> QED BY <1>1, <1>3, <1>4 DEF Filled, GateNeverTrips

(* Every end seen without an exception is that of a full segment.            *)
LEMMA FilledTick ==
  ASSUME Shape, Filled, Tick
  PROVE  Filled'
<1>1. /\ pc = "wait" /\ pc' = "check" /\ pending' = pending \ Finished /\ Raised = {}
      /\ UNCHANGED <<run, cancel, outcome, progress, worker>>
  BY DEF Tick
<1>2. \A i \in Finished : worker[i].st = "done"
  BY <1>1 DEF Raised
<1>3. \A i \in 1..run.segs : i \notin pending' => Full(i)
  <2> SUFFICES ASSUME NEW i \in 1..run.segs, i \notin pending' PROVE Full(i)
    OBVIOUS
  <2>0. pc = "wait"
    BY <1>1
  <2>1. CASE i \in Finished
    BY <1>2, <2>0, <2>1 DEF Filled
  <2>2. CASE i \notin pending
    BY <2>0, <2>2 DEF Filled
  <2> QED BY <1>1, <2>1, <2>2
<1> QED BY <1>1, <1>3 DEF Filled, GateNeverTrips, Full, Need

LEMMA FilledJoined ==
  ASSUME Shape, Filled, Joined
  PROVE  Filled'
<1>1. CASE pc' = "gate"
  <2>1. /\ pc = "join" /\ outcome = "none" /\ ~cancel
        /\ UNCHANGED <<run, outcome, pending, progress>>
    BY <1>1 DEF Joined, EndRun
  <2>2. \A i \in 1..run.segs : Full(i)
    BY <2>1 DEF Filled
  <2> QED BY <1>1, <2>1, <2>2 DEF Filled, GateNeverTrips, Complete, Full, Need
<1>2. CASE pc' # "gate"
  BY <1>2 DEF Joined, EndRun, Filled, GateNeverTrips
<1> QED BY <1>1, <1>2

LEMMA FilledStep == Shape /\ Filled /\ [Next]_vars => Filled'
<1> SUFFICES ASSUME Shape, Filled, [Next]_vars PROVE Filled'
  OBVIOUS
<1>1. CASE UNCHANGED vars
  BY <1>1 DEF vars, main, Filled, GateNeverTrips, Full, Need, Complete
<1>2. ASSUME NEW u \in Urls, NEW n \in SegChoices, Probe(u, n) PROVE Filled'
  BY <1>2 DEF Probe, Filled, GateNeverTrips
<1>3. CASE SaveInitial \/ Tick \/ Joined
  BY <1>3, FilledStart, FilledTick, FilledJoined
<1>4. CASE Check
  BY <1>4 DEF Check, Goto, Filled, GateNeverTrips, Full, Need
<1>5. CASE TickRaises \/ TickFails
  <2>1. pc' = "join" /\ outcome' # "none" /\ outcome' # "integrity" /\ UNCHANGED <<run, progress, worker>>
    BY <1>5 DEF TickRaises, TickFails, Raised, Finished, Ended
  <2>2. pc = "wait"
    BY <1>5 DEF TickRaises, TickFails
  <2> QED BY <2>1, <2>2 DEF Filled, GateNeverTrips, Full, Need
<1>6. CASE Gate
  BY <1>6 DEF Gate, Goto, EndRun, Filled, GateNeverTrips
<1>7. CASE \/ Resume \/ Reset \/ Promote \/ Unlink \/ DropPart \/ DropMeta \/ SingleRequest
           \/ (\E k \in 1..MaxChunk : SingleChunk(k)) \/ SingleCancelled \/ SingleEnd
           \/ StepFails \/ Kill \/ CleanUp
  <2>1. pc' \notin {"check", "wait", "join", "gate"} /\ outcome' \in {outcome} \cup (Outcomes \ {"integrity"})
    BY <1>7 DEF Resume, Reset, Promote, Unlink, DropPart, DropMeta, SingleRequest, SingleChunk,
                SingleCancelled, SingleEnd, StepFails, Kill, CleanUp, Goto, EndRun, main, Outcomes
  <2> QED BY <2>1 DEF Filled, GateNeverTrips
<1>8. CASE Cancel \/ (\E r \in Resources : Swap(r)) \/ \E u \in Urls : Rebind(u)
  <2>1. UNCHANGED <<pc, run, outcome, pending, progress, worker>> /\ cancel' \in {cancel, TRUE}
    BY <1>8 DEF Cancel, Swap, Rebind, main
  <2> QED BY <2>1 DEF Filled, GateNeverTrips, Full, Need, Complete
<1>9. CASE \E i \in Slots : WorkerStep(i)
  BY <1>9, FilledWorker
<1> QED BY <1>1, <1>2, <1>3, <1>4, <1>5, <1>6, <1>7, <1>8, <1>9 DEF Next, MainStep

(* A segmented run that ends without an exception or a cancel has counted    *)
(* every byte of every segment: the gate of engine.py:444-450 is pure        *)
(* defence, whatever is retried, cut short, resumed or cancelled.            *)
THEOREM GateIsDefence == Spec => []GateNeverTrips
<1>1. Filled => GateNeverTrips
  BY DEF Filled
<1> QED BY <1>1, ShapeInit, ShapeStep, FilledInit, FilledStep, PTL DEF Spec
=============================================================================
