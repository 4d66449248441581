# Freedm in TLA+

Freedm is a download manager: a segmented, resumable HTTP download engine, a
small service that queues downloads, a command line, and a browser extension
that hands links over. This directory models the parts whose correctness
depends on order, interruption and concurrency: how a file is split and put
together over any history of runs, and how the service's queue keeps what it
accepted, how links get into it from a browser, and how the processes that keep
it start and stop. TLC checks the models on small instances; TLAPS proves for
every instance all the safety properties that the passing runs check.

Line numbers below are those of `src/tdm/` (`engine.py`, `service.py`, ...)
unless another file is named.

## 1. The system

| Component | State it keeps | Operations | Talks to |
|---|---|---|---|
| **Range splitting** (`engine.py:61-78`) | none | `split_ranges` | engine |
| **Download engine** (`engine.py:122-580`) | `<name>.part`, `<name>.tdm.json` (sidecar), `<name>`; per run: `progress[]`, a pool with one worker per segment, a cancel event | `download`, `_probe`, `_download_segmented`, `_download_segment`, `_download_single`, `_load_progress`, `_save_progress`, `rebind_progress` | remote server, disk; called by the queue and by the one-shot command |
| **Output file naming** (`engine.py:81-119`) | none | `derive_filename`, `extension_hint` | engine |
| **Download queue** (`service.py:61-376`, class `Manager`) | `_downloads` under one lock, `_host_caps`, scheduler thread, pool, `queue.json` | `add`, `pause`, `resume`, `rebind`, `cancel`, `_scheduler`, `_run`, `_on_cancelled`, `shutdown`, `_load` | engine, HTTP interface, `paths.py` |
| **Atomic files** (`paths.py`) | the state directory | `write_atomic`, `read_or_none` | queue, engine, lifecycle |
| **HTTP interface** (`service.py:378-594`, `_Handler`, `_Server`) | the tokens | one route per operation of the queue, `/ext/flag` | queue, catch mode, extension, client |
| **Catch mode** (`service.py:796-905`, `extension/`) | the queue of flagged links, the prompt | `_confirm_loop`, `_try_resume`, `run_catch` | queue, HTTP interface |
| **Service lifecycle** (`service.py:602-663`, `908-968`) | port, token and pid files | `run_service`, `spawn_detached`, `stop_service` | processes, `paths.py` |
| **Command line, client** (`__main__.py`, `client.py`) | none | parse, call the service, print | HTTP interface |
| **Progress display** (`service.py:695-793`) | which downloads are drawn | `_frame_rows`, `_render_active` | the queue |
| **URL checks, redaction** (`netcheck.py`, `redact.py`) | none | resolve and classify addresses, mask URLs | engine, log output |

### What is hard about it

* **The engine is several threads over three files that outlive them.** Each
  worker counts its own bytes without a lock, the main thread snapshots the
  counts into the sidecar, and the next run (of this process or of another one,
  for the same URL or for one with the same output name) decides from the
  sidecar alone whether the bytes of `.part` may be kept.
* **Any step can be the last.** A process can be killed between any two of them,
  or have an exception at any file operation. The code's order of truncate,
  save, replace and unlink is all that protects it.
* **The server may say different things each time**: honour `Range` or not,
  announce the size or not, cut bodies short, answer 200 to a range request,
  replace the file.
* **The queue's lock covers the records and not the run.** A request that
  arrives while a run unwinds, a stop after a cancel, two failures of one host,
  a requeued download whose last call has not left the pool.
* **`queue.json` is the only memory.** It is pruned, reordered and rewritten at
  every change; a write may raise; a kill loses what is only in memory.
* **Processes know each other by three files.** They are written one after the
  other and cleared by whoever ends or stops a service, and every command acts on
  what it read a moment ago, with deadlines after which it goes on regardless.
* **Catch mode hands a download over.** The browser has cancelled its own when it
  got the 202, and from then on the link is in one bounded queue in memory, which
  the main thread reads between prompts while handlers fill it and another thread
  shuts everything down. Handlers are daemon threads: closing the server ends none.

### What makes each part correct

* Range splitting: the ranges are disjoint, cover the file, and none is empty.
* Engine: the file that is published is one version of the resource that was
  asked for, complete; a sidecar that would be trusted claims only bytes that
  are there; no worker writes after its run is over; every call ends.
* Queue: one engine call per download and at most `max_concurrent` of them;
  what was accepted is not forgotten and what is over does not come back; FIFO
  order; a stop leaves nothing running; every download comes to rest; a cancel
  is honoured; a failing download gets its retry.
* Catch mode: a link accepted from the browser is asked about or printed; what
  leaves the loop early costs no other link; `stop` ends it, whatever prompt is open; what was confirmed is on disk.
* Lifecycle: one process at a time keeps `queue.json`; the files name the service
  that runs; "stopped" is true; every command answers.

## 2. The modules

| Module | About |
|---|---|
| `Ranges` | `split_ranges` in closed form |
| `RangesProofs` | they partition the file, for every size: proofs |
| `Split` | the loop of `split_ranges`, an iteration a step |
| `MCSplit` | sizes and counts for TLC |
| `SplitProofs` | the loop returns what `Ranges` says: proofs |
| `Engine` | the engine over one output path |
| `MCEngine` | servers, files and validators for TLC |
| `EngineShapeProofs` | types, segment bounds, no stray worker, the integrity gate never trips: proofs |
| `Delivery` | abstract: what a call of `download` does to the output path |
| `EngineProofs` | sidecar soundness, what is published, and that `Engine` implements `Delivery`: proofs |
| `Queue` | abstract: what the service promises about a download |
| `Manager` | the queue of the service, which implements `Queue` |
| `MCManager` | hosts for TLC |
| `ManagerProofs` | types, one call per download, the limit, FIFO order: proofs |
| `QueueProofs` | clean stops, and that `Manager` implements `Queue`: proofs |
| `Catch` | catch mode over `Manager`: links, handlers, prompts, Ctrl-C and exceptions, `POST /shutdown` |
| `MCCatch` | hosts for TLC |
| `CatchProofs` | no link is lost, the sentinel arrives, clean ends, the queue keeps its guarantees: proofs |
| `Lifecycle` | processes, the files that name the service, the commands that start and stop it |
| `LifecycleProofs` | one owner of the queue, nothing accepted is lost, the files name who runs: proofs |

`Engine` and `Split` EXTEND `Ranges`; `Engine` instantiates `Delivery`, `Manager` instantiates
`Queue`, each under a refinement mapping. `Catch` composes with `Manager`: it
instantiates it over the same variables, and each of its own steps that calls the
queue is a step of `Manager` as well. `Lifecycle` stands alone and is coarser about
the queue: of a process it keeps which downloads it has in memory, since what
processes can do to each other is overwrite that file. `Manager` and `Engine` meet at one interface: `Manager`'s fairness takes
from `Engine` that a call ends (`RunEnds`), and `Engine`'s `Cancel` is what
`Manager` does when it sets a cancel event.

### Ranges

`NumRanges(size, n)` is the number of ranges `split_ranges` returns,
`SegStart` and `SegEnd` their bounds, `SegNeed` their length. The code's loop
(`engine.py:74-77`) carries a running start and gives the remainder to the last
range. `Ranges` has the closed form, which `Engine` uses; `Split` is the loop, with
its variables `start` and `ranges`, and `LoopIsClosedForm` relates the two.

### Engine

*State.* `part`, `meta` and `final` are the three files. A file is a function
from byte positions to the **resource** the byte came from (or `Hole`, a byte
`truncate` made up, or `Junk`, a byte of a redirect's body). Resources are
numbered in the order the servers publish them; `served` says which one each
URL serves now. `run` is what the current call learnt from its probe, `pc`
where its main thread is, `worker[i]` where the thread of segment `i` is,
`progress[i]` the shared count.

*Actions.*

| Code | Actions |
|---|---|
| `_probe`, the choice of path (`download`) | `Probe` |
| `_load_progress`, resume or reset of `.part` | `Resume`, `Reset`, `SaveInitial` |
| the wait loop with its periodic save | `Check`, `Tick`, `TickRaises`, `TickFails` |
| leaving the pool (`finally: ex.shutdown(wait=True, cancel_futures=True)`) | `DropQueued`, `Joined` |
| gate, final save, `os.replace`, `unlink` | `Gate`, `Promote`, `Unlink` |
| `RangeNotSupported`: discard and fall back | `DropPart`, `DropMeta` |
| `_download_single` | `SingleRequest`, `SingleChunk`, `SingleCancelled`, `SingleEnd` |
| `_download_segment`, `_write_segment_chunks` | `SegResponse`, `SegNoRange`, `SegNoAnswer`, `SegFails`, `SegCancelled`, `WriteChunk`, `CountChunk`, `CloseBody`, `FlushFails` |
| an exception in the main thread; the end of the process | `StepFails`, `Kill` |
| pause, cancel or shutdown from outside; the server's owner; `rebind_progress` | `Cancel`, `Swap`, `Rebind` |
| `Manager._cleanup_files` | `CleanUp` (two files, deleted one after the other, any time between two calls) |

A write and its count are two actions (`engine.py:321-322` are two statements that
the main thread's save can fall between). A reset and the new sidecar are two
actions, as are `os.replace` and `unlink`.

*Faults.* The constant `Faults` switches on what this code does not survive, so that
everything else can be stated exactly:

| Fault | What may happen with it |
|---|---|
| `kill` | the process is killed anywhere but in the gap of `killreset` |
| `killreset` | it stops between `.part`'s reset and the new sidecar while an old sidecar exists |
| `buffer` | a written chunk stays in Python's buffer for a while |
| `swap` | the server replaces the file during a run, not only between runs |
| `redirect` | a range request is answered with a 3xx that has a body |
| `star` | the probe is answered `Content-Range: bytes 0-0/*` |
| `rebind` | the sidecar is pointed at a fresh URL of the same size |

A run that excludes a fault shows that nothing *else* breaks the property; for
each excluded fault that does break it there is a run that shows how
(section 5). Disk contents survive a kill as the kernel has them: the code
disclaims power loss (`engine.py:3-5`).

*Delivery.* `Engine`'s `Promised` maps `final`; the stage of the current call, which
is "published" from `os.replace` to the return (`pc = "unlink"`), "fetching" before
that, and between calls how the last one ended; and its goal, the URL and whether
a size was announced for it. Everything else (sidecar, ranges, fallback, retries)
is a stutter there.

### Queue and Manager

`Queue` knows one thing per download: unknown, pending, done, error or
cancelled, and which changes may happen. `Manager` has the records, the order of
the dict, demoted hosts, the pool's queue and threads, the scheduler, the
process and `queue.json`. The mapping: a download's stage is read from memory
while the process lives, and from the file when it does not, so a kill must not
change it.

| Code | Actions |
|---|---|
| `add`, `pause`, `resume`, `rebind`, `cancel` | `Add`, `Pause`, `Resume`, `Rebind`, `Cancel` |
| `_scheduler`, the pool | `Schedule`, `Start` |
| `_run` with `on_probed` and its handlers | `Probed`, `Done`, `FailsForGood`, `Fails`, `Stopped` |
| `_on_cancelled` | `ReadMode` (outside the lock), `OnCancelled` |
| `shutdown`, end of the process, `_load` | `Shutdown`, `ShutdownEnds`, `Exit`, `Restart` |

The dict and the list in the file are kept as `order` and `disk.order`, the pairs
`<<d, e>>` of which `d` comes before `e`; a new download goes last in the dict.
`FirstQueued` is what the scheduler's loop over the dict finds.

An action is one critical section of the lock. `_persist_locked` is part of each
(`Persist`): it prunes ended downloads to `_KEEP_TERMINAL`, writes the active ones
first and then the ended ones (`disk.order`), and may raise with the records already
changed. Inside the scheduler
that ends the thread, since the loop has no handler.

### Catch

*State.* `link[l]` is where a link has got to: with the browser, being checked by a
handler, refused (the browser keeps its download), handed over, answered, or printed
as unanswered.
`pending` is the queue of flagged links, `pc`, `cur` and `cand` the main thread and
its prompt, `watched` what it draws, `stopper` the thread of `POST /shutdown`,
`aborted` whether an exception has left the loop.

| Code | Actions |
|---|---|
| `_handle_flag`: the check of the link, which waits for the resolver (`service.py:488`) | `Flag` |
| `put_nowait` and the answer (`service.py:497-501`), and `background.js:48-68`, which cancels the browser's download on 202 | `Put` |
| the other routes | `Command` |
| `POST /shutdown`, `_shutdown` | `AskStop`, `StopServer`, `PutNone` |
| `_confirm_loop`'s `get` | `Redraw` (nothing there), `Take`, `Sentinel` |
| `_try_resume` and the prompts | `Take` (which candidate, if any), `Declined`, `Resumed`, `Added` |
| Ctrl-C anywhere in the loop | `Interrupted` |
| an exception of `_url_key` (`parts.port`, 182) or of `rebind` (828) leaves it | `TakeRaises`, `ResumeRaises` |
| the `finally` of `run_catch` | `Drain`, `StopQueue`, `Close` |

A prompt is a state the main thread stays in: everything else goes on while the
user thinks. A handler of `/ext/flag` is two steps, and between them the server may
close, the sentinel be sent and the loop end: `server.shutdown()` ends the accepting
of requests only, and handlers are daemon threads that nothing joins
(`service.py:545-546`). The put, the 202 and the browser's cancel are one step. The
other handlers, too, may call the queue until the process ends (`Command`). One
`POST /shutdown` is sent. A second Ctrl-C inside the `finally` is not modelled.
`MaxFailures` and `MaxCrashes` are 0: writes that raise and kills are `Manager`'s runs.

| Fault | What may happen with it |
|---|---|
| `ctrlc` | Ctrl-C while the main thread has a link, and not only while it waits for one |
| `stale` | the download a prompt offers to resume is resumed or cancelled by a command before the answer |
| `sidecar` | that download has no sidecar any more (another record of the same file has finished, `engine.py:456`, or fell back to one connection, 576-577), or it cannot be read or written: `rebind_progress` raises |
| `badport` | a flagged link, or a stalled download (`tdm add` takes such a link), has a port out of range: `_url_key` raises |
| `late` | a handler of `/ext/flag` is still at work when the links left over have been printed, or starts after that though the loop was left by an exception, when the server is still open |

The run has all of them but `late`. The first four cost the link in hand and nothing
else; `late` costs any link.

### Lifecycle

*State.* `proc[p]` is a process: where it is in `run_service` or `run_catch`, which
of the two, and the downloads in its memory. `file` names, for each of the port, token and
pid file, the process that wrote it (or none). `disk` is `queue.json`, `accepted` what
was answered 201. `cl[c]` is a terminal's command with the endpoint it has read.

| Code | Actions |
|---|---|
| `run_service`, `run_catch` | `Boot`, `WriteFile` (three), `StopQueue`, `LastSave`, `ClearOwn` (three); `Quit` is Ctrl-C in catch mode |
| signals, kills | `Signal`, `Kill` |
| `tdm add` | `Add` |
| `spawn_detached`, the check in `run_catch` | `Begin` (reads the endpoint), `AlreadyRunning`, `Launch`, `Launched` |
| `stop_service` | `Begin`, `NotRunning`, `PostShutdown`, `StopEnds` |

A command reads the files in one step and acts on them in another. SIGTERM is
Linux's; on Windows `stop` kills the process instead, which loses no more than
`Kill` does.

| Fault | What may happen with it |
|---|---|
| `kill` | a process is killed anywhere |
| `slowstart` | a process takes longer to start than the five seconds `serve` waits |
| `slowstop` | a process takes longer to stop than the ten seconds `stop` waits |
| `slowend` | a process that serves no more takes longer to save and to clear its files than another one to read `queue.json` and name itself |

## 3. What is checked

Run any of them with `tlc -config <name>.cfg <module>`, from this directory.

| Run | Shows |
|---|---|
| `Split` (module `MCSplit`) | for every size up to 24 and count up to 18, the code's loop builds the closed form, partitions the file and leaves no range empty |
| `Engine_sharedname` | two URLs with one output name, one of which publishes a new version between runs: with kills, retries, cancels and changing segment counts, types and bounds hold, no trusted sidecar claims a byte that is not there, and only whole versions of the requested file are published |
| `Engine_anyserver` | one URL with three versions, one of them without validator, when each probe may find `Range` supported or not and a size or none, so that both paths use the same files: no trusted sidecar claims a byte that is not there, and `Engine` implements `Delivery` (what is published is the whole of what the URL serves then, once per call, and a call returns only after that) |
| `Engine_ends` | with Python's buffering, rebound sidecars, no kill, and a server that may ignore `Range`, hide the size, answer 200 or nothing, or cut bodies short: every call of `download` ends; no worker outlives the pool; the gate never finds a segment incomplete, so it is pure defence |
| `Manager_failures` | three downloads, two at a time; the write of `queue.json` raises once, anywhere: one call per download, never more than two, and a record says "running" without a call only when the scheduler has died |
| `Manager_restarts` | three downloads of two hosts, two stops, a kill and their restarts: what was accepted is kept and what has ended does not come back (refinement of `Queue`); a clean stop leaves nothing running and the file up to date; FIFO order |
| `Manager_ends` | every download comes to rest, every shutdown ends |
| `Catch` | two links and the sentinel for a queue of two, one download, requests, one stop, handlers that outlive the server, and every way out of the loop (`ctrlc`, `stale`, `sidecar`, `badport`): a link that was accepted is waiting, asked about, answered or printed, and in the end one of the last two, but for the one in hand when an exception left the loop; `POST /shutdown` ends catch mode though its sentinel needs room in the queue; at the end no engine call runs and `queue.json` has what was confirmed; every drawn download gets its last line |
| `Lifecycle` | one terminal, three processes, five commands, kills at any point: one process keeps `queue.json`, what was accepted is in it, after "stopped" nobody will write it, a service that runs is the one the files name, and every command answers |

The other configurations refute a statement of the documentation, comments or tests;
see section 5.

### Bounds, and why they are enough

* *Files* have up to three bytes. That is enough for two or three segments of
  unequal length, for a resume inside a segment, for a chunk that has to be cut
  at its segment's end (`MaxChunk` is 2 and the shortest segment is 1), and for
  versions of equal and of different length. The proofs do away with this bound.
* *Resources*: two or three versions, so that a stale sidecar can be of the
  right or wrong URL, length or validator, independently.
* *Retries* is 1 or 2: with 2 there is a last attempt and one that is not.
  `Engine_sharedname` has 2; `Engine_ends` has 1, as 2 with its buffering takes too
  long, and `Engine_retries.cfg`, kept beside the runs, passes with 2 and without buffering.
* *Calls of `download`* are not bounded: the model returns to `idle` and a
  sidecar of any earlier run can be met by any later one.
* *Queue*: two or three downloads against one or two threads, so that something
  always waits. `MaxCalls`, `MaxStops`, `MaxCrashes` and `MaxFailures` bound how often
  users pause, resume, rebind and cancel, how often the process is stopped or
  killed, and how often a write raises; each run spends its bounds on the question it asks, since
  their product is out of reach. `KeepTerminal` is 1, so pruning happens with two
  ended downloads. An id is added once, as the code's random ids are.
  Since requests and stops are bounded and users may do nothing, the queue may
  stop: its configurations do not check deadlock, nor do those of `Catch` and
  `Lifecycle`, for the same reason, nor that of `Split`, a function that returns.
* *Links*: two, and the sentinel, for a queue of two, so that the sentinel finds it full,
  and a link does when the sentinel is in it. A link may be refused for no reason given
  (its host is blocked). Each is flagged once; a refused one stays with the browser.
* *Processes*: three, so that a killed or slow one can be followed by two others;
  a command is not begun when none is left. Five commands are two starts, two stops
  and one more.

### Fairness

`Engine`'s `FairSpec` has weak fairness of the main thread and of each worker: the
operating system schedules threads, and every read has a timeout
(30 seconds), after which the model takes `SegNoAnswer`, `CloseBody` or `StepFails`. Probes,
cancels, kills and new versions are never owed. Each read is modelled as making
progress or ending: a server that sends forever one byte short of the
timeout is bounded by the file's length.

`Manager`'s `FairSpec` has weak fairness of the scheduler (it wakes every half
second at the latest), of the pool's threads and of each call of the engine,
which ends by `RunEnds`. Users, stops, kills and restarts have none. `Settles` is about
a process that stays up; since resumes are bounded by `MaxCalls`, what it shows
is that the service itself never retries forever.

`Catch`'s `FairSpec` adds that the user answers each prompt (a prompt nobody answers
keeps catch mode open by design), that the resolver answers a handler (`Put`), that the
thread of `POST /shutdown` and the main thread run,
and that engine calls end. Flagging, requests and Ctrl-C are never owed. The
"taken" link, the redraw and the sentinel are alternatives of one thread, so their
fairness is that of their disjunction.

`Lifecycle`'s `FairSpec` has weak fairness of every process and every command. Time
is not modelled: a deadline is a guard that says what has ended by then. Without
`slowstart` a process is up before the five seconds of `serve` are over, and
without `slowstop` it is gone before the ten seconds of `stop` are over; with
them the deadlines may pass at any time. `Boot`'s guard is one more assumption of this
kind, which `slowend` takes away: a process whose server serves no more has saved and has
removed its files before another one has read `queue.json`. `serve` starts an interpreter
before it reads. `catch` does not: its test, its clearing and its reading are one process
(`service.py:869-876`). But as long as the old socket is open the test waits for its two
seconds (657-659), and after that the old process has three files left to remove.

## 4. What is proved

For every value of the constants:

* `SegmentBounds`, `SegmentsDisjoint`, `SegmentsCover` (`RangesProofs`): the
  closed form partitions any file into any number of ranges.
* `LoopComputesRanges`, `SplitPartitions` and `SplitLeavesNoneEmpty` (`SplitProofs`): the
  code's loop builds that form (`Spec => []LoopIsClosedForm`), so what it returns
  partitions the file (`Spec => []PartitionsFile`) and is balanced and never empty
  (`Spec => []NoEmptyRange`), for every positive size and every count.
* `TypeCorrect`, `NoWriterIsLeft` and `GateIsDefence` (`EngineShapeProofs`): under
  every fault, `Spec => []TypeOK`, `Spec => []NoWriterLeft` and
  `Spec => []GateNeverTrips`.
* `ResumesSoundly` and `PublishesOneResource` (`EngineProofs`): under the
  assumption `SafeWorld`, `Spec => []SidecarSound` and
  `Spec => PromotesOneResource`.
* `Delivers` (`EngineProofs`): under `SafeWorld`, `Engine` implements `Delivery`.
* `OneCallEach` and `LimitKept` (`ManagerProofs`): with failing writes, stops and
  kills, `Spec => []OneRunPerDownload` and `Spec => []AtMostMaxConcurrent`.
* `Typed` and `FirstComeFirstServed` (`ManagerProofs`): as generally, `Spec => []TypeOK`
  and `Spec => NotOvertaken`.
* `StopsCleanly` and `PromiseKept` (`QueueProofs`): if no write of `queue.json`
  raises (`MaxFailures = 0`), `Spec => []StopIsClean`, and `Manager` implements `Queue`.
* `CatchTyped`, `SentinelAlwaysArrives` and `EndsCleanly` (`CatchProofs`): under every fault,
  `Spec => []TypeOK`, `Spec => []SentinelArrives` and `Spec => []EndIsClean`.
* `QueueKeptInCatch` (`CatchProofs`): under every fault, what is proved of `Manager` on its own
  holds of the queue inside catch mode: `OneRunPerDownload`, `AtMostMaxConcurrent`,
  `StopIsClean`, `NotOvertaken` and the refinement of `Queue`.
* `NoLinkLost` (`CatchProofs`): under every fault but `late`, `Spec => []NothingLost`.
* `OneOwnerAlways`, `AcceptedKeptAlways`, `StoppedIsStoppedAlways` and `NoOrphanAlways`
  (`LifecycleProofs`): with one terminal (`OneTerminal`) and no fault but kills
  (`OnTime`), the four invariants of `Lifecycle`.

Assumptions. `SplitAssumption`, `QueueAssumption`, `ResourcesAssumption`, `CallsAssumption`, `NoneAssumption`,
`CatchAssumption` and `LifecycleAssumption` say what kind of values the constants are. `StrongValidators` says that two versions
of one URL with the same length and the same non-empty validator are the same:
without it no client can resume. `SafeWorld` says that the only fault is `kill`,
and that either all downloads to this path are of one URL or every server honours
`Range` and announces sizes (so that the probe never chooses the single path).
With `killreset`, `buffer`, `swap`, `redirect` or `star`, or with two URLs and the
single path, a run of section 5 shows the property violated, and for `rebind`
its weaker form. The same holds of what `CatchProofs` and `LifecycleProofs` exclude: each
fault, and the second terminal, has its run in section 5.

*The argument for the ranges.* `LoopInv` says where the loop is after `Len(ranges)` iterations:
what it has appended is the closed form, and `start` is the start of the next
range. Each iteration keeps it, so that the induction is over the steps of a
behaviour, which the prover can do, and not over the data. That the closed form partitions the
file is `RangesProofs`, by case analysis on the position of a byte.

*The argument for the engine.* `TypeOK` is not inductive: that a write stays inside its segment
and its file depends on where the main thread is. `Shape` adds what each value of
`pc` says of the run and its segments (`RunShape`), of `.part`'s presence and length
(`PartShape`) and of the pool (`WorkerShape`, `NoWriterLeft`). Every action
preserves `Shape`: one step of the proof per action.

`SidecarSound` is about the sidecar the *next* run would trust, and has to follow
from what this run and all earlier ones did. The inductive `Sound` adds:

* `RunCurrent`, `BodiesCurrent`: the resource of the run, and of every response
  being read, is the one its URL serves now (nothing is swapped during a run);
* `SegmentsSound`: the bytes a segment has counted, and those it has written and
  not counted yet, are in `.part` and of that resource. That segments are disjoint
  (`SegmentsDisjoint`) keeps one worker's write off another's bytes;
* `MetaKnown`: a sidecar with a validator was written for a version its URL has
  served, and counts no more than its segments have. With `StrongValidators`, a
  sidecar that is trusted is then about the current version;
* `MetaOfRun`: while workers write, the sidecar is this run's; while one
  connection streams over `.part`, no sidecar of another URL can be trusted;
* `BodySound`, `ReadyToPromote`: the same for the single path, and for what is
  about to be published. That segments cover the file (`SegmentsCover`) is what
  makes "all counts complete" mean "the whole file".

`PublishesOneResource` is then a fact about the one action `Promote`.

`Delivers` maps every step. Beside `Shape` and `Sound` it needs that no call under way
counts as done (`Undecided`): then the steps before `os.replace` are stutters,
`Promote` is `Publish` by `ReadyToPromote`, and what remains is the return or a
failure.

`GateIsDefence` rests on `Filled`: a segment the main thread no longer waits for
(its worker ended with "done", or it was full when the call resumed) is full, unless an exception or a
cancel is on its way to the main thread, which then does not reach the gate
(`engine.py:435-450`). `Shape` gives that a worker between two chunks knows its
segment's count.

*The argument for the queue.* `Inv` has the types, `Quiet` (only a process that is up
schedules; a stopped one has an empty pool), `OneRunPerDownload`, which is inductive
with them, and `FewRun`. A download is submitted only when its record is queued, and a
queued record has no call, because a call restates its record in the step in which it
leaves the pool.

`RowInv` adds the order. `Rows` says that the dict and the list in the file each are a row
(a strict total order of what is in them): a save appends the ended downloads to the
active ones and prunes, and a restart takes over what an earlier save wrote.
`AddedInTurn` says that the downloads are added in the order of their numbers, so that a new one is
greater than all that are in the dict or in the file. `InTurn` says that a download that is not over
and that nobody has touched since it was added stands before all with a greater
number, in memory and in the file. It is inductive because a save moves only ended
downloads, and because every step is of one of four kinds: it leaves the dict's
keys and order as they are (`Stays`, most steps), appends a download, forgets the memory or loads
the file. The failure of a write needs no case of its own: the file then keeps the row
of an earlier save, which `InTurn` covers. `NotOvertaken` follows since the scheduler starts only what is
first in that row (`StartsTheFirst`).

`Faithful` relates memory and file: while the process lives, each entry of the file
has the stage its record has, and every download that has not ended is in it. With it
every step of a living process rewrites one record in a way `Queue` allows, and
saves (`Rewrites`), or changes no state (`Restates`); the end of the process forgets
at most ended downloads; and `_load` changes no stage. If a write raises, the records
run ahead of the file until the next save, and a kill then takes a step back, so that
`MaxFailures = 0` is needed.

*The argument for catch mode.* What `Catch` does to the queue is a step of `Manager`
(the lemmas `Same...`: two instances of one definition over the same variables), but
for `Close`, whose last save changes no record (`CloseStep`). So the invariants of `ManagerProofs` and
`QueueProofs` hold along (`QueueInv`), which gives `QueueKeptInCatch`, and a stopped queue has no call
and no waiting task. `Shape` has the types, the sentinel's way into the queue and that the server
is closed at the end; with `EndIsClean` it is inductive under every fault (`AnyInv`).

`NothingLost` needs more. `Held` says where the main thread may have a link in hand: at a
prompt, or after an exception has left the loop. `Shutting` says that the loop is left only when
the server is closed or by an exception, and that once the links left over have been printed no
handler is at work, so that no link is in the queue then or gets into it: that is what `late` breaks.
That handlers put links in the queue after the server has closed is a case of every step of that proof.

*The argument for the lifecycle.* `OneAlive`: two processes live at one time only if the older one
has served its last request and the newer one has not read `queue.json`. `FilesKnown`: what
the three files say while a process is at each stage, which is what lets a command
that reads them find it. `QueueSaved`: who holds the queue has in memory what is on disk.
`CommandKnows` is what a terminal may rely on between the step that reads the endpoint
and the step that acts on it: nobody is on the way up that it has not started itself, so that
`Launch` starts a process only when the others are leaving, and `StopEnds` clears files and
signals a pid only when nobody lives. A second terminal breaks `CommandKnows` (`Lifecycle_twoserves`).

*Only model-checked:* liveness (`RunEnds`, `Settles`, `StopEnds`, `LinksSettle`,
`StopEndsCatch`, `EndsAreDrawn`, `CommandsEnd`), which is out of the prover's reach.

## 5. Where the code and its documentation disagree

Each is the counterexample of a configuration. Those marked * are findings in
`PROJECT.json`, which quotes the lines they contradict; the others are kept
beside them, one question each, and show the same way what their fault does.

| Configuration | What happens |
|---|---|
| `Engine_killreset` * | stop between `open(part, "wb")`+`truncate` and the new sidecar (`engine.py:417-419`): the old sidecar counts bytes of a blank file, which is resumed and published |
| `Engine_buffer` | a kill while a counted chunk is in Python's buffer (`engine.py:321`) loses it, and the sidecar claims it; `engine.py:3-5` says an interrupted process resumes cleanly |
| `Engine_swap` | the file is replaced during a run by one of the same length; no `If-Range`, which `tasks/plan.md:30-33` asks for |
| `Engine_redirect` | a 3xx answer to a range request is written into the file (`engine.py:364`) |
| `Engine_mixednames` | the single path leaves another URL's sidecar over its own bytes (`engine.py:501`) |
| `Engine_unknowntotal` | `Content-Range: bytes 0-0/*` makes the size 1 (`engine.py:157`), where `README.md:15-16` promises a single connection |
| `Engine_rebind` | a fresh link of the same size is joined to a stalled download without comparing validators (`service.py:822`), which `change.md:84-87` asks for |
| `Manager_latecancel` | a cancel after a pause is lost while the run unwinds (`service.py:317`); `tests/test_service.py:641-644` expects it to end the download |
| `Manager_stopcancel` * | a stop after a cancel keeps the download (`service.py:243`) |
| `Manager_hostdemoted` | the second of two failing downloads of a host is not retried (`service.py:300`), where `README.md:91-93` promises every download one retry |
| `Lifecycle_slowstop` * | a service that takes more than ten seconds to stop (a worker may be in a read of 30) outlives its `stop` (`service.py:964-967`), and its last save overwrites what the next service has accepted |
| `Lifecycle_slowstart` | a service that takes more than five seconds to start (`service.py:931`) is reported as not started; the next `serve` starts a second one over the same file |
| `Lifecycle_twoserves` | two `serve` at one time both find no service (`service.py:912`) and both start one; `README.md:89-90` calls `serve` idempotent |
| `Lifecycle_slowend` | a process that ends clears the three files of a service that has started meanwhile (`service.py:649`, 612-614), which nothing then names |
| `Catch_ctrlc` | Ctrl-C at a prompt loses the link it asks about (`service.py:894`): the browser has cancelled it, and it is not printed as unanswered |
| `Catch_stale` | the user resumes a failed download from another terminal and then confirms the offer to resume it: `rebind` raises (`service.py:828`) and catch mode ends, where `service.py:860` says one bad link must not kill the loop |
| `Catch_sidecar` | the offered download is still stalled, but another record of the same file has finished and removed the sidecar: `rebind` raises `FileNotFoundError` (`engine.py:245`), with the same end |
| `Catch_badport` | a link, or a stalled download, has a port out of range: `_url_key` raises (`service.py:182-183`) for it, and in the second case for every link flagged after it |
| `Catch_late` | a handler that waits for the resolver when the links left over are printed (`service.py:897`), or that starts after that while the server is still open, puts its link in the queue and answers 202: the link is lost |

## 6. What is not modelled

* Names (`derive_filename`), URL checks and redaction are functions of strings,
  without state. `Engine` takes the output name as given; that two URLs can have
  the same is in the model.
* The two guards before the first byte, of free space and of the path, are the failures `StepFails`.
* Progress callbacks draw and change nothing.
* HTTP parsing and tokens: a request that is refused changes nothing.
* `write_atomic` is modelled as "the old text or the new, and it may raise".
* Power loss: the code disclaims it.
* Progress lines: which downloads are drawn is in `Catch` (`Drawn`), their text is not.
* Two calls of `download` at one time over one path, which the queue may start. The
  code has nothing that keeps them apart: a second call truncates the first one's
  `.part` and both publish. There is no state in between that the code means to be
  in, so there is nothing to check; `Engine` is about the calls one after the other.
* Handlers of `tdm add` that are at work when the process that runs them ends: `Lifecycle`'s
  `Add` is one step. (What such handlers do to a queue that has stopped is in `Catch`.)
* A second Ctrl-C, and one inside `Manager` while catch mode ends.
* Pids that are given to other programs, and state directories on network disks.

## 7. Plan

Every safety property of a passing run has its theorem. What is left:

* what survives of the promise of `Queue` when a write of `queue.json` raises: which downloads
  a kill may then take back, and by how much;
* `SidecarSound` for more worlds: with `redirect` or `rebind` alone, what of it still holds;
* `Lifecycle` beside `Manager`: that what a process does to the file in `Lifecycle` is what `Add`,
  `Exit` and `Restart` do there, as a refinement.
