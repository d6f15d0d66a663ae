# Verification of itranscribe-worker

This directory keeps TLA+ models of the transcription worker in `src/app`, the TLC
configurations that check them, and proofs of the properties that matter most.  Paths such as
`queueing.py` are relative to `src/app`; line numbers are those of the modelled commit.

Contents: [the system](#1-the-system) - [modules](#2-modules-and-the-code) -
[runs](#3-runs) - [fairness](#4-fairness) - [proofs](#5-proofs) -
[abstractions](#6-abstractions) - [deviations found](#7-deviations-of-the-code-from-its-documents) -
[what is not modelled](#8-what-is-not-modelled) - [plan](#9-plan) -
[running it](#10-running-the-checks).

## 1. The system

One process (uvicorn with one worker) accepts audio files over HTTP, keeps one row per task in
SQLite, and runs up to `WORKERS` pipelines at a time, each in a thread of asyncio's executor.
`data/` survives the process: `tasks.db`, `tmp/<task_id>/upload.*`, `.upload_*`, and the weights
of the models.  Compose restarts the process whenever it ends.

| Component | State | Operations | Talks to |
| --- | --- | --- | --- |
| Task store, `tasks.py` | the table `tasks` | create, mark_*, bump_attempts, reset_to_queued, delete*, purge_expired, list_*, count_queued, close | called from the event loop and from every pipeline thread, each call one commit under one lock |
| Task runner, `queueing.py` | `_queue`, `_free_slots` with its getters, `_cancelled`, `_submit_lock`, the coroutines `_run_one` | start and restore, submit, dispatch, delete, purge, TTL, stop | store, files, pipeline threads |
| Files, `audio.py` | `tmp/<id>/`, scratch files | create_tmp, place_upload, cleanup_*, prepare_wav | runner and pipeline threads |
| Pipeline, `pipeline.py` | local to a run: deadline, timings, results | run_pipeline: ffmpeg, ASR, diarization, alignment, tone, result | store, files, engine cache |
| HTTP layer, `main.py` | requests in flight | POST /transcribe, DELETE /tasks, DELETE /tasks/{id}, reading endpoints, lifespan | runner, store |
| Engine cache, `engines/cache.py` | replicas and status of each family | preload, resolve_* | settings, engine constructors, `hf_offline.py` |
| Offline flag, `engines/hf_offline.py` | HF_HUB_OFFLINE in the environment and in the imported libraries | huggingface_offline, ensure_hub_online | Hugging Face libraries |
| Engine adapters, `engines/asr`, `engines/diarization`, `engines/base.py` | loaded networks; chunk files during a call | words, segments | native libraries |
| Alignment, `alignment.py` | none between calls | align, utterances_from_words | pipeline |
| Tone layers, `tone/` | loaded networks | run_tone_pass | pipeline |
| Metrics, `metrics.py`, `prometheus_metrics.py` | counters, a CSV file | write_metric, observe_*, the collector | pipeline, HTTP layer, store |
| Configuration, auth, schemas, logging | the settings, read once | - | - |

What is hard about it:

* **Two kinds of concurrency meet.**  Coroutines interleave only at an `await`; threads interleave
  with everything.  `purge` is atomic for other requests and not for a thread that is about to
  mark its task running.  `submit` holds a lock over an `await`.
* **The slots** pass through `asyncio.Queue.get`, which lets a newcomer overtake a coroutine that
  was woken for the slot.
* **Few threads.**  Bodies of uploads, `place_upload` and the pipelines share asyncio's default
  executor, whose size has nothing to do with `WORKERS`.
* **Death at any point**, also during the restore after another death; the row counts the deaths in
  a commit of its own.
* **Graceful stop** cancels coroutines but not threads, and closes the store under them.
* **The store may fail** at any call (a locked database, a full disk), in a thread, in a coroutine, in
  the middle of a purge or in the TTL loop, which nothing restarts.
* **The key of the transcripts** is `API_TOKEN`: after a change of it each list of finished rows raises.
* **Time** passes between a check of a deadline and the use of what is left of it.
* **Process-wide state of other libraries** (the offline flag) is changed for the time of a
  constructor that may raise or be killed in the middle of a download.
* **Order of data from libraries**: chunks, words and turns come in an order the next stage relies on.

Per component, what makes it correct: a row is running exactly while somebody works on it; the
upload is on disk for as long as it may be needed, and no longer than somebody owns it; an accepted task
ends, runs a bounded number of times and is removed only when it is not running; no two threads share an
engine; no slot and no wake-up is lost; every request is answered; a late run is not a success; what is
counted of a run is what happened in it; a process that serves has every engine it needs; a long
recording is heard once from end to end; every recognised word appears once, in the order of time, with a
speaker who was speaking.
`PROJECT.json` lists the hazards, at their lines, with the properties that guard them.

## 2. Modules and the code

```
TaskIds <- TaskStore, UploadFiles <- PipelineThread <- TaskRunner <- TaskRunnerProps <- PooledRunner
                                   (TaskLifecycle is INSTANCEd by)       |
                                               TaskRunnerInductive <- MCTaskRunner
Pipeline <- PipelineMetrics             EngineOutputs <- ParakeetChunks, Alignment <- Transcription
EnginePreload <- MCEnginePreload                                                   <- MCTranscription

Proofs:  TaskRunnerInductive <- TaskRunnerThreadProofs <- TaskRunnerRowProofs
           <- TaskRunnerQueueProofs (and PooledRunner) <- TaskRunnerFileProofs
         PipelineMetrics <- PipelineProofs     EnginePreload <- EnginePreloadProofs
         Transcription <- ParakeetChunksProofs <- TranscriptionProofs
```

**TaskStore** - `tasks.py`.  `rows` is the table: status, timestamp, attempts and error code of each
task, `NoRow` where there is none.  Each writing method is an operator on `rows`; an UPDATE of a row
that is gone changes nothing.  `storeOpen` becomes FALSE with `close`.  `unreadable` are the rows whose
transcript was sealed under an earlier `API_TOKEN` (`SealsBroken`): a method that returns one of them
raises, which `Readable` says.

**UploadFiles** - the part of `audio.py` that creates and removes files.  `tmp[t]` is absent, a
directory, or a directory with its upload; `scratch` holds the requests with a scratch file.

**PipelineThread** - `run_pipeline` as the rest of the program sees it: one action per call of the
store or of the files, `thread[t]` is the next one.  The time between `mark_running` and the
result is one step with an open outcome.  `StoreFails` is a call that raises; `AfterFailure` says where the
exception leads.  `abandoned` is history: the tasks that a failed call left as they were, and that this
process will not touch again.

**TaskRunner** - `queueing.py`, with POST and DELETE of `main.py`, and the life of the process.
A coroutine's segment between two awaits that touches store or files more than once is a sequence
of actions with `loop` as its program counter; `loop.todo` and `loop.cur` are its local variables.
No coroutine acts while `loop` is not idle; every thread does.  `ready` is asyncio's list of due
coroutines and `waiters` the getters of `_free_slots`: `PutSlot` wakes the first, `JobWaits` sends a
woken and overtaken coroutine to the end, as `asyncio.Queue` does.  `Crash` may happen at every
point; `Stop`, `StopClean`, `StopClose` and `Exit` are the graceful end, with the threads running on,
except those whose call no thread had picked up (`NotPickedUp`).
`Start` to `Serve` are `_restore_unfinished`.  `SubmitFails`, `JobFails`, `PurgeFails` and `TtlFails`
are calls of the store that raise on the event loop; `ttlLoop` says whether `_ttl_loop` still runs.

**PooledRunner** - TaskRunner with the executor.  TaskRunner gives each call its own thread;
here `executor` is the line of calls, of which the first `PoolSize` have one.  Each action of TaskRunner that
hands a call over, or is made by a thread, is joined with what it does to the line.  Every step is a step of
TaskRunner, so its safety properties carry over; liveness is stated here.

**TaskLifecycle** - what the repository's README promises a client: accepted once, run at most
`1 + TASK_MAX_RESTARTS` times, success or error, removed only when not running, never back.
`TaskRunnerProps` maps the runner to it (`ClientStatus`, `starts`) and states the safety properties;
`TaskRunnerInductive` holds the inductive invariant; `MCTaskRunner` the symmetry and the
initial states of the restore test.

**Pipeline** - one run of `run_pipeline` against a clock.  `pc` is the stage under way or next,
`due` says that `_raise_if_task_timeout` comes first.  `Tick` is possible anywhere; the only thing
time waits for is `subprocess.run`, which kills ffmpeg when its limit has passed.
`BoundFfmpeg` is separate from the check before it and from the start of ffmpeg after it,
since the code reads the clock twice.

**PipelineMetrics** - what is measured of such a run and counted at its end: `t0` and the times of the
stages (`spent`), `total_time`, and in `Emit` the line of the performance log and
`observe_task_finished`.  `counted` holds what reached the counters.

**EnginePreload** - `EngineCache.preload` and `hf_offline.py`.  `settings` are the lists of families to
preload and the tone models named, from which `Wanted` follows as in `config.py`.  Families are loaded in
`Order`, one replica after the other.  `env` is the variable, `const` the value the libraries hold, `saved`
what the with-statement restores.  The libraries are external: they look at `const`, or at the variable
if the adapter hands it on (`EnvReaders`: `whisper.py:24-31`, and what is called through
`call_with_local_files_only`); they go to the Hub or miss a file; a constructor that dies in the middle
leaves nothing, a part or all of the download.  An incomplete snapshot is of one of two kinds (`Partial`): the
text of the exception about its missing files has one of the markers of `looks_like_missing_cache`, and
`_replica_zero` tries again online, or it has none and is raised.
`ForeignFolder` are the families whose library stores the weights under a name
`hf_hub_model_cached` does not look for (the default Whisper name is such a case); their first replica
goes online at every start.

**EngineOutputs** - the words and segments of `engines/base.py` and the conversions of the adapters:
stamps of Parakeet in seconds or in frames, segments of Whisper with words or only with a text, lines of
Sortformer in any order and some of them no turns, tracks of PyAnnote.  What the libraries answer is any
value within the bounds: words one after another, turns with any overlap.

**ParakeetChunks** - `ParakeetASR.words` for recordings longer than one window.  `files` are the chunk
files on disk with the window each really holds, `heard` the windows the recogniser was given.  Deaths
leave files for the next run, which may have another setting.

**Alignment** - `alignment.py`, the loops element by element, on words and segments it is handed.  Times
are whole numbers and the centre of a word is compared by its double, so nothing is rounded.

**Transcription** - `_run_pipeline`'s composition of the two: the words that came out of ParakeetChunks
or of Whisper, and the segments of a diarizer, go into Alignment.  So the order of words on which the
alignment relies is what the recogniser's adapter delivers, and is not assumed.

Definitions marked *Faulty variant* stand next to the definition they would replace.  No
specification uses them: each is a plausible bug, and with it in place of the correct definition the
property named for it in `PROJECT.json` ("mutants") is violated.

## 3. Runs

| Run | Question | Bounds |
| --- | --- | --- |
| RunnerDeaths | Do rows, queue, slots and threads stay consistent, is the promise to clients kept, and does the next purge remove what was left behind, when the process dies or stops anywhere - twice, also during a restore -, a call of the store raises, uploads vanish and `API_TOKEN` changes while it is down? | 2 tasks, 2 slots, 1 restart, 2 deaths or stops, 1 task per process hit by a fault |
| RunnerServes | Is every sleeping coroutine woken and every slot given back once, do queued tasks keep their uploads, does every directory have an owner, and do the queue limit and the promise to clients hold, with every request in any order, the TTL and a failing store? | 3 tasks, 1 slot, queue of 2, 1 task hit by a fault, no death |
| RunnerLive | Does every accepted task end, is every request answered, are finished files removed, do running tasks keep their uploads, do finished rows expire - with fewer threads than slots? | 2 tasks, 2 slots, 1 thread, queue of 1, 1 end of the process, 1 fault, no symmetry |
| PipelineTime | Do the deadline, the limit of ffmpeg, end codes, tone layers and the counted seconds fit together? | both timeouts on or off, each the smaller one, clock to 3, every set of engines and layers |
| PreloadStarts | Is a process that serves complete, is the flag clean, and does every sequence of failures, deaths and restarts end in such a process unless an unrecognised incomplete snapshot is left (`Stranded`)? | 2 recognisers, 1 diarizer, 1 tone family, every selection, 2 replicas, 2 failures |
| Transcription | Is a recording heard once, does every chunk file go, and does the transcript give every word once, in order, to somebody who was speaking? | up to 3 long, windows of 1 or 2, 2 words per call, 2 segments, 1 death |
| FifoRestored, PurgeRunning, PurgeScratch, StopLeavesTmp, KilledEarly, ToneLabel | one deviation each, see [section 7](#7-deviations-of-the-code-from-its-documents) | the smallest instance that shows it |

Why the bounds are enough to be interesting: three tasks for one slot are the fewest with which a
woken coroutine is overtaken and must queue up behind another; a queue of 2 lets the limit be reached
with a third request on its way; with one restart allowed, two deaths cover a run, its
restart and the last death, or a death in the middle of a restore.  One fault per process hits any call of
any task, and another one is possible in the next process.  Deaths and stops need no more than two
tasks: the restore goes through its rows one by one, and a third would only wait, which is what RunnerServes
is for.  A queue of 1 makes `submit` refuse requests that must still be answered.  One thread for two slots is the smallest pool in
which a pipeline holds a slot and waits for a thread, and in which `submit` waits with its lock.
Timeouts of 0, 1 and 2 and a clock to 3 put each limit before, at and after the other, and let any
two stages be late.  Two replicas make a first and a later one, two faults a failure of each, or a death
after an interrupted download.  A recording of 3 has three windows of 1, a window of 2 and a short last
one, and with a length of 2 or less it is just as long as one window or a whole number of them; two words per
window make a run of words, a change and a return to an earlier speaker over several windows; two segments
overlap, touch, nest and leave gaps.

Runs state `CHECK_DEADLOCK FALSE` where the system may really stop: all tasks finished, process
down for the last time of the bound, function returned.

## 4. Fairness

`PooledFairSpec` of PooledRunner: asyncio runs due callbacks in order, so a coroutine that can go on
again and again is not passed over forever - strong fairness, because segments of other coroutines
disable it in between, or the lock or the line for a thread is taken.  A segment is not interrupted, and the
operating system runs threads that have a call (weak fairness); ffmpeg and the engines return.
`_ttl_loop` wakes up every 30 s (strong fairness of `Expire`).  Compose starts the process again
(`docker-compose.yml`, `restart: always`).  Nothing is assumed of clients, DELETE, stops, faults or
deaths, of which there are finitely many in a run.  Where a process has only finitely many steps of a
kind (those of pipelines, of coroutines `_run_one`, of the TTL), fairness is asked of the kind as a whole
and not of each task, which assumes less; requests may be repeated for ever, so each has its own.

What a failed call of the store leaves is exempt in the properties, by name: `Settles` and
`FinishedIsCleaned` except the tasks in `abandoned`, which the next start takes up; `HistoryExpires`
holds for as long as `_ttl_loop` lives.

`FairSpec` of EnginePreload: weak fairness of the loading thread and of restarts.  The Hub answers in
the end, with the right tokens and names of models: failures are bounded by `MaxFaults`.  An incomplete snapshot
whose missing files the program does not recognise is no such failure: it comes back at every start.
`EventuallyServes` leaves those behaviours out by name (`Stranded`) and shows that nothing else keeps the
process from starting; see [section 7](#7-deviations-of-the-code-from-its-documents).

## 5. Proofs

Every safety property that a run checks is also a theorem.  TLC checks the instances above; the following
holds for every number of tasks, slots, threads, deaths and faults, every queue size and timeout, every list
of engine families and number of replicas, recordings and windows of every length, and any number of words,
segments and voices.

| Theorem | States |
| --- | --- |
| TaskRunnerThreadProofs: `TypeCorrect` | `TypeOK` |
| `RetryBounded` | `RetryBound`: at most `1 + TASK_MAX_RESTARTS` starts of a task |
| `SlotsExclusive` | `SlotExclusive`: no two threads on one slot |
| TaskRunnerRowProofs: `RunningOwned` | `RunningIsOwned`: a row is running while a thread works on it, and only then |
| `RunnerImplementsLifecycle` | `ImplementsLifecycle`: the runner keeps the promise of TaskLifecycle |
| TaskRunnerQueueProofs: `SlotsNeverLeak` | `NoSlotLeak`: slots are given back exactly once |
| `WakeupsNeverLost` | `NoLostWakeup`: nobody sleeps beside a free slot |
| `QueuedReachable` | `QueuedIsReachable`: a queued row is never stranded |
| `LimitKept` | `AcceptedWithinLimit`: concurrent requests do not exceed the queue limit |
| TaskRunnerFileProofs: `InductiveInvariant` | `IInv`, the inductive invariant as a whole |
| `OrphansNever` | `NoOrphans`: each directory has somebody to remove it |
| `QueuedUploads` | `QueuedHasUpload`, if nobody outside takes files away (`"lose" \notin Ops`) |
| `RunningUploads` | `RunningHasUpload`, if nobody purges (`"purge" \notin Ops`) |
| `PurgeComplete` | `PurgeLeavesNoOrphan`: a purge makes up for what is left behind |
| `PooledImplementsRunner` | `PooledSpec => Spec`: a runner with few threads is a runner |
| `PooledUploads`, `PooledInvariant` | and so `RunningHasUpload`, `IInv`, `NoOrphans` and `ImplementsLifecycle` hold of it |
| PipelineProofs: `OneStageOverrunsAlways` | `OneStageOverruns`: at most one stage returns late |
| `SuccessIsInTime` | `SuccessInTime`: a late transcript is no success |
| `TimeoutsNamed`, `FfmpegLimited` | `CodeNamesLimit`, `UnlimitedOnlyIfLate`: which limit applied, and which one ffmpeg had |
| `ToneIsAnswered` | `ToneAnswered`: what a success says of the tone layers |
| `MetricsInvariant`, `MetricsTypesKept`, `CountsAreTrue` | `MetricsInv`, `MetricsTypeOK`, `CountedAsItHappened`: what is counted of a run happened in it |
| EnginePreloadProofs: `PreloadInvariant` | `PreloadInv` |
| `OfflineEnds`, `HubAskedOnce` | `OfflineIsTemporary`, `HubOnlyWhenNeeded`: the flag, and who goes to the Hub |
| `ServesComplete` | `ServesOnlyComplete`: every engine is there, and none is shared |
| ParakeetChunksProofs: `ChunksInvariant` | `ChunksInv` |
| `RecordingHeardOnce`, `WordsKeepOrder` | `HearsEverythingOnce`, `WordsInTheirWindow` |
| `ChunksCleaned` | `ChunksRemoved`: one chunk file for each death at most, none after a run |
| TranscriptionProofs: `TranscriptionInvariant` | `TranscriptionInv` |
| `VoicesSpeaking` | `SpeakerWasSpeaking`: a word goes to a voice that speaks at its centre, the one that began first |
| `VoicesNumbered` | `NamedByAppearance`: the numbers of the voices |
| `LinesCutRight` | `CutWhereItChanges`: every word once and in its place, no cut too many and none too few |
| `TranscriptInTime` | `LinesFollowInTime`: from the recogniser's stamps to the lines of the transcript |

**Assumptions.**  Those of the modules on their constants (`...Assumption`), all evaluated by TLC, and
nothing else, except where the table says so: outsiders that delete uploads between two lives of the process
(`"lose"`) do make queued uploads vanish, and a purge does take the upload of a running row (run
PurgeRunning).  RunnerServes and RunnerLive check the two properties where their premises hold.
`PreloadAssumption` says that the order of the preload is a sequence of known families, and that
tone families are no recognisers or diarizers; `ChunksAssumption` that the mark for "no file" is no window.

**The runner.**  `IInv` is a conjunction of five parts, one on top of the other:

* *RetryInv*: `RunsCounted` relates the starts of a task to the deaths its row counts: a queued row has at
  most as many starts as deaths, a running row one more; between `bump_attempts` and the commit after it the
  row is running and its death is counted.  That needs `RestoreListed` (the rows a restore has still to treat
  are as it listed them), which needs `SegmentsInPhase` (no thread of an earlier process is left).
* *SlotInv*: a coroutine stands in `_queue` or in the line of getters at most once (`QueuePlaces`); live
  threads have a coroutine that awaits them while the runner serves (`ThreadsAwaited`); held slots are not in
  the pool and differ (`SlotsDivided`).  `TypeOK` itself needs `JobHasSlot`: what is put back is a slot.
* *RowInv*: that a restore leaves no row running behind it (`RestoreClears`), and that a thread's row is
  running also after `close()` (`WorkingIsRunning`).
* *QueueInv*: who is due stands in `ready`, and who sleeps in the line (`CoroutinesListed`); a cancelled
  task has no row and never gets one (`CancelledIsGone`); a queued row has someone on the way to
  `mark_running`, whom the restore hands over (`QueuedReached`); the lock holds the place that was counted
  (`LimitReserved`).
* *FileInv*: what each segment under way and each thread know of row and files when they come to them
  (`SegmentKnows`, `ThreadKnows`), that a task that waits has not run since it was queued (`PendingQueued`),
  what the restore has looked for (`UploadKept`), whom a purge spares (`PurgeSpares`), and who removes what in
  a process that found nothing (`FirstLife`).

Each part has a lemma per kind of step.  The refinement goes through the statuses a client sees:
a step writes at most one row, the requests and deletions tell which step of TaskLifecycle it is, and
`RetryBounded` gives the bound that TaskLifecycle's `Run` asks for.  PooledRunner needs no invariant:
each of its actions is one of TaskRunner with more conditions.

**The pipeline.**  `PipelineInv`: a stage ends in the past (`EndedInThePast`), so a stage that returns in time
stays in time; after a late stage a check is due or nothing is left (`LateIsLast`); the last check before
the tone pass was passed in time (`AlignedInTime`).  `MetricsInv` adds which stages are behind the run
(`StagesPassed`), that the timers belong to them (`TimersKnown`), and that they lie one after the other
(`TimesAddUp`).

**The preload.**  `PreloadInv`: the flag during a constructor and what is put back after it (`FlagKnown`), why a
replica is built the way it is (`StepKnown`), what the status of a family says of its replicas
(`FamiliesKnown`), and that no engine is in two places (`EnginesApart`).

**The chunks.**  `ChunksInv`: the loop stands where the last window ended, and the file of the chunk under
way holds the next window whatever an earlier run has left in its place (`LoopKnown`); the words so far end
before that (`WordsBehind`); each death has added one file at most (`FilesCounted`).

**The transcript.**  `TranscriptionInv` adds to `ChunksInv` what the alignment has done so far, one conjunct
for each promise:

* `InputsInOrder`: words follow one another and segments begin one after the other.  The adapters see to it:
  `WordsOfParakeet` by `WordsInTheirWindow`; Whisper's by the order of its segments, through the flattening of
  `words_from_asr_segments` (`WhisperInTime`); Sortformer's by the sort (`SortformerInOrder`).
* `LoopsInStep`: how far each loop has come, and so what the next one finds.
* `NumbersKnown`: the mapping is one to one and holds exactly the voices of the words already named
  (`MappingKnown`); the number of a word is the number of voices that came before its own, said with the
  sets of voices (`NumberKnown`), from which the count of `NamedByAppearance` follows.
* `LinesCut`: with `buf` as one more line, the lines are the words up to `pos`: each goes on where the one
  before it was cut, nothing changes within it, and something changes between it and the next (`CutAt`).
* `WordsHandedOver`: a task with Parakeet aligns the words of Parakeet, all of them.

`SpeakerWasSpeaking` is inductive beside it.  `AlignStep` is what a step of a task means to the alignment;
each conjunct has a lemma that an `AlignStep` preserves it.

These proofs need induction over data three times: a list of lists is flattened, a finite list has a stable
sort, the lines are the words 1, 2, 3, ...  The library states induction with an operator as a parameter.
Instead, `LeastNatural` and `Induction` are derived from the well-foundedness of < on Nat, which is stated with sets:
a set of numbers that holds 0, and with each n also n + 1, is all of Nat.  `Flattened` says that the result of
`FlattenSeq` is the last of the partial results; `TurnsArranged` that the turns can be arranged: take the
first (`FirstTurn`), and then the rest.  For this the sort is stated by what it does (`Sorted`: the turns in an order
in which each goes before the next), and not by the library's `SortSeq`, which is evaluated but has no
theory.

TLC checks each of these invariants too: `IInv` in RunnerDeaths, `MetricsInv` in PipelineTime,
`PreloadInv` in PreloadStarts, `TranscriptionInv` in Transcription.

**Only model-checked**: `Settles`, `RequestsAnswered`, `FinishedIsCleaned`, `HistoryExpires` and
`EventuallyServes`, the liveness properties.  They rest on fairness, for which the installed provers have no rule
(ENABLED).

## 6. Abstractions

* A row keeps what a decision depends on.  Timestamps are strictly increasing numbers; in the code they
  are wall-clock text with microseconds, which a clock that is set back does not keep in order.
* Any free slot may be handed out, where the code takes the oldest.  The TTL removes one row at a
  time, whenever it is finished.  The loops of the restore take their rows in any order except the last,
  which is by timestamp.
* The dispatcher may run at any time; it empties `_queue` in one go, since `get()` of a queue with
  entries does not suspend.
* In TaskRunner every call gets a thread at once.  That allows more than the program does, so its safety
  properties hold with any executor; PooledRunner has the line.
* A call of the store that raises has changed nothing: the database is locked, or full, before the
  statement.  The exception is `create`, which may have committed before it reads the row back.  A
  failure in `start()` ends the process, as `Crash` does.  Calls whose failure only changes the answer to a
  request have no action.
* A finished row with a transcript is unreadable after a change of the token until it is deleted; that the
  old token may come back is left out.
* The libraries import the offline flag when the program starts (`tone/text_engine.py:9`
  imports transformers at the top); `huggingface_offline` is never nested, as no caller does.  Whether a
  text has a marker is a property of the incomplete snapshot, so it is the same at every start until a
  download changes it.  A message with a marker comes of missing files only.
* A stage of Pipeline takes any time and may raise; the tone pass is one stage.  PipelineMetrics counts from
  the start of the run: the time the task was queued before is the same in every outcome.
* External, as the libraries behave: a recogniser's words follow one another and lie within the audio it was
  given; `itertracks` of PyAnnote goes in the order of time; a Sortformer line is a turn or it is none.
* Named bounds: `MaxDeaths`, `MaxFaults` and `Ops` (TaskRunner), `PoolSize` (PooledRunner: a parameter
  of the machine), `MaxTime` (Pipeline), `MaxFaults` (EnginePreload), `MaxWords` and `MaxSegments`
  (EngineOutputs), `MaxDuration` and `MaxDeaths` (ParakeetChunks).

## 7. Deviations of the code from its documents

| Run | What happens |
| --- | --- |
| FifoRestored | After a restart the repository's README:140 promises FIFO by timestamp.  A request that arrives at the free slot overtakes the coroutine woken for it, which goes to the end of the getters: a younger restored task starts first (`queueing.py:200`). |
| PurgeRunning | README:281: purge leaves running rows "and their tmp".  A task that is marked running between purge's list of running rows and its DELETE keeps its row and loses its upload (`queueing.py:170`). |
| PurgeScratch | purge removes `.upload_*` as leftovers, also those of requests that are still under way; these then fail with 500 (`queueing.py:180`). |
| StopLeavesTmp | README:143: finished tmp is still cleaned on shutdown.  A thread that finishes after `stop()` made its list cannot clean up once the store is closed, and nothing does so later (`queueing.py:112`). |
| KilledEarly | README:141: at most `TASK_MAX_RESTARTS` reruns, then `process_killed`.  A death between `bump_attempts` and `reset_to_queued` is counted twice, and the task ends without its rerun (`queueing.py:80`). |
| ToneLabel | `tests/test_prometheus.py:196` expects a successful task with tone to be counted with `skipped="false"`.  `tone_skipped` is never False, and the label is `na` (`pipeline.py:258`), the same as for a task that failed before the tone stage, although the help of the counter (`prometheus_metrics.py:335`) speaks of tasks that finished it. |

Seen while modelling, and stated as it is in the models, without a run of its own:

* `UnlimitedOnlyIfLate`: `pipeline.py:87` says that ffmpeg never gets longer than what remains of the
  task's time.  If nothing remains by the second reading of the clock, the value is not positive, and
  `audio.py:181` takes it for "no limit".  The property confines this to a deadline that
  passes between the two readings; it does not exclude it.
* EnginePreload: for a short Whisper name (the default is one) `hf_hub_model_cached` looks for a folder
  that the library never writes, so the first replica goes online at every start (`cache.py:436`,
  README:59).
* `Stranded`: README:59 says that weights that are missing are downloaded.  If a download was interrupted
  and the library's text about the missing files has none of the markers (`tests/test_hf_offline.py:63` has such a
  text; `pyannote.py:215` turns a pipeline that did not load into one), the snapshot directory still makes the
  weights look cached, replica 0 is built offline and raises (`cache.py:451`), and so does every start until
  someone removes the directory.
* `QueueWaitSec`: the help of `itranscribe_queue_wait_seconds` is "Time from submit to running"
  (`prometheus_metrics.py:281`); the code asks the clock when the run has ended (`pipeline.py:152`), so the
  counted wait is never shorter than the run.  The model has the code's value; no property is about it, since
  it is one assignment.
* `Stop` and `PurgeFinished`: after a change of `API_TOKEN` README:348 speaks of a 500 of
  `GET /tasks/{id}`.  The list of all rows raises as well: `stop()` leaves every finished tmp and the store
  open, and `DELETE /tasks` answers 500 after it has deleted the rows and before it removes directories.
  `PurgeLeavesNoOrphan` says that the next purge makes up for it.
* `TtlFails`: one failed `purge_expired` ends the TTL for the rest of the process (`queueing.py:214`).
  `HistoryExpires` is about the time before that.

## 8. What is not modelled

* Tone layers: native code and float arithmetic without state between calls; they appear as a stage
  and as constructors with an open result.
* The constructors of the engine adapters, the loading of audio and the choice of a device: calls of external
  libraries.
* Auth, schemas, logging, the parsing of the environment, upload suffixes, prosody features: no state another
  component depends on.
* Counters that only add one, disk and queue gauges: nothing in the program reads them.
* The reading endpoints: they change nothing.
* The WAV beside the upload, the legacy `tmp_*` directories, the contents of files and of the transcript,
  errors of the file system.
* The nesting depth of `huggingface_offline`, `EngineCache.reset` (tests only).
* A clock that is set back; an ffmpeg without a limit that hangs (`parakeet.py:58`).

## 9. Plan

Done, in this order: the store, the files, the thread and the runner, with deaths; its promise to
clients; the pipeline against the clock; the preload; the chunked recognition and the alignment; proofs of
types, retries, slots and deadlines; a store that fails and transcripts that cannot be read; the executor
with few threads; the way from the engines' answers to the transcript; the settings of the preload; the
metrics of a run; proofs of the runner's other safety properties, of its refinement and of the executor, of
the metrics, the preload and the chunks; proofs of the alignment and of the transcript as a whole.

What could follow:

1. The nesting depth of `huggingface_offline`, should a caller come to nest it.
2. A limit for the ffmpeg of `parakeet.py:58`, once the code has one: then the clock of Pipeline can reach
   into the windows of ParakeetChunks.
3. The pause before a line (`tone/prosody.py`), which is computed from the line before it: by
   `LinesFollowInTime` its clamp at 0 never applies.

## 10. Running the checks

```
tlc -workers 2 -config RunnerDeaths.cfg MCTaskRunner      # also RunnerServes and its five violations
tlc -workers 2 -config RunnerLive.cfg PooledRunner
tlc -workers 2 -config PipelineTime.cfg PipelineMetrics   # also ToneLabel
tlc -workers 2 -config PreloadStarts.cfg MCEnginePreload
tlc -workers 2 -config Transcription.cfg MCTranscription
tlapm TaskRunnerThreadProofs.tla                          # likewise the other *Proofs modules
```
