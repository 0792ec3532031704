# TalkSage: TLA+ models and proofs

TalkSage listens to one or two audio streams (the user's microphone and the other
side's audio), cuts them into segments, recognises them, shows a live transcript on a
web page, runs plugins on the segments, and stores the session. This directory models
the parts of it in which threads, channels, files, deadlines and rules meet. The models
are translated from the Rust and TypeScript sources; `PROJECT.json` maps each definition
to the lines it stands for.

Contents: 1 inventory, 2 modules, 3 runs, 4 fairness, 5 proofs, 6 disagreements with the
documentation, 7 what is not modelled, 8 plan.

## 1. Inventory

All paths are under `src/`; `crates/talksage-pipeline/src` is written `pipeline/`.

| component | state | operations | correct when |
|---|---|---|---|
| `TalkSageService` (`pipeline/service.rs`) | the pipeline, the writer, the session's number | `start`, `finish`, `recover_on_startup` | every committed segment is stored before the session is ended, `finish` returns, a crash leaves a record without holes |
| sessions side by side (adapters' slots, `finish` in a thread of its own) | the slot, what is being finished, the pool, the rows | start, stop, delete, summarise | rows are of their session, an open session has somebody who ends it |
| `LivePipeline`, `run_loop` (`pipeline/lib.rs`) | the streams, the stop and pause flags, the command channel | one round over the streams, then drain, plugins' shutdown, statistics | audio is heard once; statistics come after the last segment; a stop ends the loop |
| audio capture (`talksage-audio/src/lib.rs`, `loopback.rs`, `input_scheduler.rs`) | a bounded queue per device, a file's pacer | callbacks, `poll_audio`, drain | order is kept; until the stop every chunk is heard, or dropped and counted, or was spoken in a pause |
| `StreamWorker` (`pipeline/lib.rs`, `segment.rs`, `endpoint.rs`, `statistics.rs`) | clock, pre-roll, VAD, the open segment, its statistics | `tick`, `pause`, `shutdown` | a segment is contiguous audio, heard whole, with its onset; ends of speech cut their own segment, and in time |
| `SpeakerChangeWorker` (`pipeline/speaker_change.rs`) | a generation, the job and result channels, the detector's anchor | `submit_if_due`, `poll_changed`, `reset`, drop | a change found in an earlier segment cuts nothing |
| speaker registry, assignment, owner's voiceprint (`pipeline/speaker.rs`, `speaker_assignment.rs`) | centres, candidates, `owner.vec` | query, commit; enrol, remove, load | numbers and the owner's identity are earned, the owner is one whole take |
| event filters (`talksage-plugins/src/cross_stream_dedup.rs`, `short_segment.rs`) | the last finals of both streams | `on_final` | what was heard twice is shown once |
| `PluginExecutor` (`pipeline/plugin_executor.rs`) | a bounded queue, workers, flags | `submit`, `shutdown`, the workers' loop | no accepted job is lost in silence, after the session no event but one of each worker that was on its way, `shutdown` is bounded |
| plugin registry (`talksage-plugins/src/registry.rs`, `builtin.rs`) | plugins, settings, capabilities | merge, validate, register, preview | the scene has the last word, no update leaves a plugin invalid |
| observers (translator, terms, brief, key points, metrics) with `talksage-core/src/{metrics,key_points}.rs` | cooldowns, pending answers, lists | `should_trigger`, the immediate part, `run` | late answers take their place; figures are of the talk and not of the order of its arrival |
| `SessionWriter` (`pipeline/session_writer.rs`) | a bounded channel and its thread | `enqueue`, `finish` | order of the commands is kept, nothing is skipped, the thread ends |
| finalizers, webhook (`pipeline/finalize.rs`, `talksage-plugins/src/registry.rs`, `talksage-core/src/webhook.rs`; the verdict is `SessionMeta::evaluate` in `talksage-session/src/lib.rs`) | one thread each, and one that pushes | quality report, push | what is pushed carries the verdict of the row |
| `SessionStore` (`talksage-session/src/lib.rs`) | SQLite | `start_session`, `add_segment`, `end_session`, `close_orphan_sessions`, `delete_session`, notes, queries | rows only before the end, none without a session |
| `WavRecorder`, master, recovery (`talksage-audio/src/wav.rs`) | `.part` files, final names | write, finish, `recover_part_file` | a final name is a complete file; a crash loses at most the block in hand |
| `TranscriptState`, `SessionRuntime` (`talksage-core/src/transcript.rs`, `pipeline/runtime.rs`) | committed lines, hypotheses, the stage | `apply`, `snapshot` | a snapshot is what the events so far say |
| headless server (`talksage-server/src/lib.rs`) | the running session, the broadcast channel, the registry of downloads | HTTP handlers, `/ws` | a page that follows sees every event, in order; a download can be cancelled and repeated |
| transcription of files (`transcribe_api`, `pipeline/offline.rs`) | temporary files, a pipeline per request | upload, normalise, poll, answer | an answer is made of its own recording |
| web page (`web/src`) | `TranscriptAccumulator`, the stage, lists of results | `push`, `applySnapshot` | shows the lines of the session |
| model downloads (`talksage-asr/src/models.rs`) | files on disk, cancel flags | `download_engine`, `remove_engine` | what counts as installed is whole |
| engine pool (`talksage-asr/src/lib.rs`) | idle engines by key | lease, return | an engine is used by one stream, with the session's words |
| configuration (`talksage-config/src/lib.rs`) | settings in memory and on disk | load, `update`, `save` | the two agree; blank names keep their defaults |
| silence trimming (`talksage-audio/src/silence_trim.rs`) | none | `trim_silence` | speech is kept, once and in order |
| desktop application (`web/src-tauri/src/lib.rs`) | the same as the server | commands | the same |
| diarization, punctuation model, LLM client, knowledge base, notes, command line, logging, other web pages, scripts | | | see section 7 |

How they interact:

    devices --callbacks--> bounded queues --poll--> StreamWorkers (one pipeline thread)
       StreamWorker --windows--> speaker-change thread --results--> StreamWorker
       StreamWorker --chunks--> WavRecorder (.part), after the session the stereo master
       StreamWorker --final--> speaker registry, filters --event--> sink
       sink: TranscriptState, SessionWriter, broadcast channel
       final --> observers --> PluginExecutor workers --event--> the same sink
    broadcast channel --> /ws of each page;  a snapshot when a page connects
    finish(): stop (5 s) -> writer's Shutdown and join -> end_session
              -> session_quality (10 s) -> webhook (10 s) -> a thread that pushes
    configuration --snapshots--> plugin registry, engine pool, streams of a session

The behaviours that are hard to test, with their lines and the properties aimed at them,
are the hazards of `PROJECT.json`. Most come from five decisions: deadlines after which a
thread is left behind and not stopped; flags that are read outside the lock of what they
guard; bounded channels whose senders block (writer), drop (audio, speaker change), refuse
(plugins) or overrun (broadcast); files whose names say whether they are complete; and
settings that are read at several moments from several places.

## 2. Modules

| module | models | composed with |
|---|---|---|
| `JobOutcomes` | abstract: what the executor promises about each job | |
| `PluginExecutor` | queue, condition variable, workers, submit, shutdown | implements `JobOutcomes` |
| `SessionRecord` | abstract: rows, then the end, then the report, then the webhook | |
| `SessionLifecycle` | pipeline thread, writer, `finish`, finalizers, crash, recovery | uses `JobOutcomes` for the executor, implements `SessionRecord` |
| `Sessions` | sessions that overlap: slots, finishing threads, engine pool, database, summaries | |
| `TranscriptFeed` | state and sink, broadcast, `/ws`, page | |
| `Capture` | device queues, building and running of the loop, pause, stop | |
| `Recordings` | WAV files, master, recovery | takes the steps of `Capture` (EXTENDS) |
| `StreamWorker` | one stream's chunks and segments | |
| `SpeakerChange` | detector thread and its stream | |
| `Finals` | the end of a segment: speaker registry, filters, observers | |
| `Voiceprint` | takes that enrol the owner, the file, the sessions that load it | |
| `ModelDownloads` | registry, downloads, the disk, both adapters | |
| `PluginRegistry` | operators: merge, scene, validation, registration | used by `Configuration` |
| `Configuration` | file, memory, environment, saves, restarts, sessions built from it | EXTENDS `PluginRegistry` |
| `KeyPoints`, `ConversationMetrics` | operators: extraction by rules, figures and advice | used by `Observers` |
| `Observers` | the observers of a live session and what the page shows of them | EXTENDS both |
| `SessionReport` | the finalizers' chain, the verdict, the push | |
| `FileTranscription` | uploads side by side | |
| `SilenceTrim` | what is kept of a tape, and what is to be kept | |
| `DataLemmas` | lemmas about numbers, finite sets and iteration that the proofs share | used by `RecordingsProofs`, `SessionsProofs`, `TranscriptProofs`, `StreamProofs`, `JobProofs` |
| `PluginProofs` | theorems about `PluginExecutor` and `Configuration` | EXTENDS both |
| `SessionLifecycleProofs`, `SessionsProofs` | about the module named | |
| `TranscriptProofs` | about `Finals`, `Voiceprint`, `TranscriptFeed` | EXTENDS the three |
| `StreamProofs` | about `StreamWorker`, `SpeakerChange`, `SilenceTrim` | EXTENDS the three |
| `RecordingsProofs` | about `Capture` and `Recordings` | |
| `JobProofs` | about `FileTranscription`, `SessionReport`, `ModelDownloads`, `Observers` | EXTENDS the four |
| `MCTranscript` | `Finals`, `Voiceprint` and `TranscriptFeed` in one run: a behaviour is of one of them | |
| `MCThreads` | `Capture` and `SpeakerChange`, likewise | |
| `MCSessions` | `Sessions` and `Configuration`, likewise | |
| `MCJobs` | `Observers`, `SessionReport`, `FileTranscription`, `ModelDownloads`, `SilenceTrim`, likewise | |
| other `MC*` | constants that a `.cfg` cannot write, and liveness with its premise | |

Modules that are pure operators (`KeyPoints`, `ConversationMetrics`, `PluginRegistry`; and
`SilenceTrim` but for the tape) hold no RECURSIVE definition; loops are folds, or sets that
the loop is shown to compute. The loops that a theorem follows step by step (`Elapsed`,
`AfterSpeech`, `SnapshotView`, `AddAll`, `ShowPoints`, `Ranges`) are recursive functions.

An MC module that takes several modules together (`about`) chooses at the start which of
them moves; the others stay in one of their initial states, so that the state space is the
sum and not the product, and what is checked is what a run of each alone would check. The
fairness is that of each module, and asks for no step of a module that does not move.

**PluginExecutor.** A step is one critical section of the queue's mutex or one access to
an atomic. `Take`, `ExitOrWait` are the two ways through the worker's loop while it holds
the mutex; `FinishRun` is the return of a plugin's `run` (an event, nothing, an error or
a panic, overdue or not) up to the test of `cancel` and `active`; `Emit` is the call of the
sink, a step of its own because nothing is held in between. `BeginShutdown`, `CloseQueue`,
`Join`, `ReturnFromShutdown` are the stages of `shutdown`. The condition variable is the
set of workers in `"waiting"`; it may wake spuriously. A plugin that never returns is a
worker that stays `"busy"`. `late` counts each worker's events after the stop, `unfinished`
is what was queued or running when `shutdown` returned.

**SessionLifecycle.** Four threads (pipeline, writer, the caller of `finish`, finalizers)
and the plugin workers. `Enqueue` is the blocking send on the writer's bounded channel: it
is disabled while the channel is full and a lost command once the receiver is dropped,
which is what `SyncSender::send` does. The writer panics or SQLite refuses a row at any
step. `JoinPipeline` does not ask for the pipeline's end: that is the timeout. `rows` is
the table of segments and results, `recording` the files, `ended` the column `ended_at`.
`Crash` loses everything in memory and `RecoverOnStartup` is what the next start does. The
executor is represented by its promise, `JobOutcomes`, which the run `plugin_executor`
checks it keeps: so the two models fit together.

**Sessions.** A session is one stream with one engine. `starter` is a `start_listen` under
way, `slot` the adapter's running session, `finishing` the sessions whose `finish` runs
outside the slot, pipelines that outlived their stop go on beside them. The pool is keyed
by the hotwords, which stand for every setting of the recogniser. `now` is the wall clock;
`Epoch` separates the two ways in which times are kept (section 6). A summary is asked for
from the rows of a session and stored when it arrives. Deletion is one step, or is cut
off by the end of the process between its statements (`ExitInDelete`). `NextId` is SQLite's
AUTOINCREMENT, on which it rests that late rows and notes find no other session under
their number.

**TranscriptFeed.** `Apply` and `Broadcast` are the two halves of the sink, before and
after the lock. A page reads the stage and the transcript under separate locks
(`ReadStage`, `ReadTranscript`), subscribes (`Subscribe`) and follows. `Push` is the page's
accumulator and is also used for snapshots, as in the code; a snapshot lists the hypotheses
by speaker, hence the rank (`RankOf`). `Apply` and `Broadcast` being apart, an event may be
in the state at the snapshot and enter the channel after the subscription: `twice` is the
place of that one. `missed` says that an event was broadcast between the snapshot and the
subscription (section 6).

**Capture and Recordings.** A chunk has a number; a device's callback appends to a queue
of bounded size or counts an overrun, in any phase of the loop (building, running, paused,
after the stop) and whatever the loop does. `Loop` is `run_loop`: a round over the streams
in the scheduler's order, the drain while paused (`PauseRound`), the end. `unwanted` are the
chunks that had been delivered and not accepted when the paused loop drained the queues.
`Recordings` adds, to each chunk that is accepted (`Accept`), its write to the stream's
`.part` file as a step of its own (`Write`), the stages of a finish, the master, and the
recovery. A header is patched in four steps (`Patches`: RIFF and WAVE, the channels, the rate
with all between, the length of the data), which is what its readers tell apart of the
separate writes of `write_pcm16_header`, and the rename is a fifth. The process may end
between any two steps (`Crash`) and in the middle of a block, of a finish, of the master or
of the recovery (`CrashInWrite`, `CrashInFinish`, `CrashInMaster`, `CrashInRecovery`); a
block that was cut off is one that is not whole, whatever its length. It is the process
that ends, not the machine: what was written before is on the disk.

**StreamWorker.** Time is counted in chunks of 100 ms. VAD, recogniser and microphone are
nondeterministic; `Begin`, `Hear`, `Observe`, `EndpointReady`, `Decide` and `Cut` are the
functions of `tick`, `segment.rs` and `endpoint.rs`. `setup` is chosen at the start: file
or device, streaming engine or not, endpointing on or off, voiceprint on or off. `counted`
are the statistics of `statistics.rs`.

**SpeakerChange.** Embeddings are reduced to whether a window matches the anchor. Each
window remembers which segment it was taken from, which the code does not know; that is
what `CutsAreJustified` looks at.

**Finals.** One action, `Finish`, is `finish_speech`: the lookup in the registry
(`Queries`, all results that ties of a `HashMap` allow), the parts that the punctuation
makes of the text, each through the two filters (`Filter`, `Dedup`), the sink (`shown`) and
`on_final` (`dispatched`), and `Commit` once a part has passed. Both streams take their turn
on one thread, so nothing interleaves; what is hard is the history that each call leaves to
the next. A voice is a point on a line and a centre moves to any point between itself and
what was heard. `Speeches` stands for what `restore_and_split` may return, `Alike` for the
similarity of texts. Times are of the streams' own clocks, at most `Lag` apart, since a
stream's queue is bounded.

**Voiceprint.** A take records, judges what it heard, then truncates and writes the file:
two steps, between which another take, a removal, a session's load or a crash may come.
A recording is a sequence of levels. What is voice in it is relative to its peak
(`Voiced`), what is not is cut off at its ends (`Prepared`), and each window of what is left
is prepared again, by its own peak (`Averaged`), as in the code: so a quiet window may be all
voice by its own measure, which is what `IsPadded` looks at. Windows are cut at blocks, those
of the code at samples.

**ModelDownloads.** A file is `none`, `empty`, `cut` or `whole`. One task is one request.
The registry and the flags are the adapter's; `Begin`...`Install` are `models.rs`. The
adapters differ in `RemovesEntry` only.

**Configuration and PluginRegistry.** One field of each kind stands for those of its kind:
a name that must not stay blank, a number with a range, a field of the environment, the
scene, the plugins' table. `Save` changes the memory first and then writes, which may fail
or be cut off by a crash (`Torn`). A session reads the configuration twice, in
`BuildSession` and in `StartSession`, as `build_live_config` and its caller do.

**Observers.** The pipeline thread goes through the observers with each final; what they
give at once is shown at once, the rest is a job of a worker, and jobs end in any order.
The wall clock is far from zero, since the code compares with times that were never set.
`LongestByTurns`, `InterruptedByTurns` define the figures from the set of turns, without
an order of arrival; the code's loop is checked against them.

**SessionReport.** What `SessionMeta::evaluate` makes of a session's statistics is one of
`Verdicts`: no property depends on which. A finalizer that misses its deadline goes on; the
thread that pushes reads the row when it runs.

**FileTranscription.** A request's handler, its blocking job and its pipeline are three
actors; `Leave` drops the handler where it waits, and the others go on.

## 3. Runs

Eight runs pass; each of their properties has a mutant of the code that breaks it. A
property that joins several is named with its parts.

| run | bounds | what it shows |
|---|---|---|
| `plugin_executor` | 2 workers, 3 jobs, queue of 1 | `NoJobIsStranded` (`TypeOK`, `NoStrandedJob`, `GracefulDrains`), `LateResultsAreDropped` (`OneLateEventEach`, `SilentOnceJoined`, `OverrunsAreDropped`); the refinement `PromiseKept`; `ExecutorGoesOn` (`ShutdownReturns`, and with plugins that return, `QueueIsServed...` and `WorkersEnd...`) |
| `session_lifecycle` | 2 streams, 2 segments, channel of 2 | `RecordIsWhole` (`NoHoles`, `DurableIfJoined`, `MasterIsWhole`); the refinement `RecordKept`; `FinishReturns` |
| `transcript` | finals: 3 segments, 4 voices, 2 numbers, history of 2 | `EchoesAreDropped`, `SpeakersAreKnown`, `ObserversSeeWhatIsShown` |
| | takes: 3 takes, 2 files, recordings of up to 6 blocks of 4 levels | `OwnerIsKept` |
| | page: 2 speakers, 4 events, channel of 2 | `CaughtUpAgrees`, `FinalLinesStay`, `CatchesUp` |
| `stream_worker` | 9 chunks; pre-roll 2, stable 2, quiet 2, forced quiet 3, shortest segment 3, gap 3 | `HeardIsTheSegment` (`HearsItsAudio`, `StatisticsAddUp`), `TailsCutTheirSegment` (`TailsCutInTime`, `FilesCutAtTails`), `CutsAreClean` (`OnsetIsKept`, `OldTailsCutNothing`) |
| `threads` | capture: a device with a queue of 2 and a file of 3 chunks, clock of 3, 2 pauses | `ChunksAreAccountedFor`, `PausesStayUnheard`, `StopEndsTheLoop` |
| | detector: 3 segments of up to 6 chunks | `CutsAreJustified`, `DropReturns` |
| `recordings` | a device with a queue of 1 and a file of 3 chunks, clock of 2, 2 directories | `RecordingIsWhole` (`FinalIsWhole`, `NothingRecordedIsLost`), `MasterHasBothTracks`, `RestartRecovers` |
| `sessions` | 2 sessions of a segment, 1 summary, pool of 1, 2 settings of hotwords, 2 seconds | `RowsAreOfTheirSession`, `OpenHasOwner`, `EngineIsOwn` |
| | settings: 3 steps, 2 files made by hand, 2 environments | `SceneIsKept` (`SceneDecides`, `PreviewIsTrue`), `SavedIsLoaded`, `UpdatesKeepPluginsValid` |
| `jobs` | live: observers with 2 to 4 segments of each kind and 2 workers | `KeyPointsAreKept`, `FiguresAreOfTheTalk`, `LateAnswersFit` |
| | report: 2 verdicts, 3 lists of receivers, a change of the settings | `PushedWithQuality` |
| | files: 2 uploads | `AnswersAreOwn`, `RequestsAreAnswered` |
| | downloads: 2 downloads, 3 kinds of models, both programs | `DownloadsAreSound` (`InstalledIsWhole`, `RegistryIsExact`, `CancelledIsClean`), `CancelStops` |
| | tape: all tapes of up to 6 blocks | `TrimKeepsSpeech` |

Four runs find a statement of a comment or of the documentation violated (section 6); each
uses the constants of the passing run of its module:

| run | property | the claim |
|---|---|---|
| `orphan_times` | `OrphansEndWithTheirLastSegment` | an orphan ends with its last segment |
| `refresh_gap` | `ReloadLosesNothing` | the snapshot keeps a refresh from losing live state |
| `silent_template` | `SilenceDoesNotDominate` | no silence dominates the owner's voiceprint |
| `explanation_cards` | `AnswersFindTheirCards` | an explanation takes the place of its own skeleton |

Why these bounds are enough for the cases of interest:

- *plugin_executor*: a queue of one is full with one job waiting; three jobs and two
  workers give a job running on each worker with one queued, one refused, one cleared
  at shutdown, and two workers of which one is joined and one is not.
- *session_lifecycle*: with a channel of two commands every sender (pipeline, plugin,
  `finish`) meets a full channel; two segments are needed for a hole; two streams for
  statistics of one while the other still commits, and for a recording that is mixed.
- *transcript*, the page: four events are a hypothesis, its replacement, its final, and an
  event of the other speaker between any of them; a buffer of two is overrun by three.
- *stream_worker*: the scaled thresholds keep the order of the code's values (pre-roll
  shorter than a segment, stable no more than quiet before the forced end, the gap between
  tails longer than `stable_ms`). Nine chunks hold a segment, a cut in the middle of
  speech, the stale tail after it, and the segment it could hit. The proofs (section 5)
  are for all values.
- *threads*, the detector: with three segments the thread can lag behind a cut and a new segment
  can begin before its result; six chunks hold the windows of two mismatches.
- *transcript*, finals and takes: three segments are two speakers who alternate, or a sentence, its echo and an
  echo of that; three voices far from each other and two numbers reach the limit of
  speakers, and one in between ties and drifts; a segment of two parts fills a history of
  two, the next one displaces an entry. Three takes are two at once and one before them; six blocks, of
  which two are a second, are three windows, of two levels that their own peak tells apart.
- *jobs*, the downloads: two tasks, because the registry, a leftover and a cancel concern a
  download and the one after it or beside it.
- *sessions*, the settings: three steps are an edit by hand or a save, another save, and a session
  built between or after; a failed write needs one more for the restart that reads the
  file.
- *sessions*: two sessions and one engine are what it takes to share it; a segment is a
  row that may come late; the clock's two seconds tell an end that lies in the future. The
  settings of the hotwords are symmetric: no property distinguishes them.
- *threads*, the capture: a queue of two can be full, and be in a wrong order, and overruns with the
  third chunk; two pauses, because what the first one leaves may be heard after it, or
  drained in the second; the clock lets three chunks come: before, in and after a pause.
- *recordings*: a device that delivers beside a file makes tracks of unequal length; two
  blocks in a track leave one that is whole before the one that is cut off; two
  directories, because recovery looks into one. There are no pauses: what they do to
  what is accepted is the matter of `threads`.
- *jobs*, the others: a window of two points and a cap of three are reached by the points of three
  segments; two jobs that end in the wrong order; two uploads that meet in one directory;
  six blocks hold two stretches of speech whose padding touches, overlaps or does neither.

`CHECK_DEADLOCK FALSE` stands in the configurations because each model describes a bounded
number of sessions, downloads or requests that really end; that nothing hangs on the way
is stated by the liveness properties.

## 4. Fairness

- *PluginExecutor*: the scheduler runs worker threads that can go on, the thread in
  `shutdown` goes on, since its joins are bounded in time. Nothing is assumed of plugins:
  `ShutdownReturns` holds with plugins that hang for ever. `QueueIsServedIfPluginsReturn`
  and `WorkersEndIfPluginsReturn` state the return of plugins as their premise.
- *SessionLifecycle*: the writer thread and the thread in `finish` go on. Nothing is
  assumed of the pipeline (recognition may hang), the plugins, the finalizers, or the user
  who stops.
- *TranscriptFeed*: the sink passes on what it applied, the socket's task is scheduled.
- *SpeakerChange*: the detector's thread is scheduled and an embedding takes finite time.
- *ModelDownloads*: a thread goes on and comes round to its flag while it reads: requests
  have a deadline. The other side may go on sending for ever.
- *Capture*: the loop's thread runs, and a device's thread reads its stop signal. Nothing
  is assumed of the devices (one may die without a sign) or of the user.
- *FileTranscription*: a request's handler and its blocking job go on, since they wait with
  a deadline. The pipeline of a request may hang, the client may go away.
- *StreamWorker*, *Finals*, *Voiceprint*, *Configuration*, *Sessions*, *Observers*,
  *SessionReport*: none, safety only.

## 5. Proofs

The proofs are for every value of the constants; each module's assumptions are the named
ASSUMEs that its run evaluates.

| module | theorem | property |
|---|---|---|
| `PluginProofs` | `JobsAreNotStranded` | `NoJobIsStranded` |
| | `LateResultsStayOut` | `LateResultsAreDropped` |
| | `TypeCorrect`, `WorkersStrandNoJob`, `GracefulShutdownDrains`, `LateEventsAreBounded`, `JoinedAreSilent` | their parts |
| | `PromiseIsKept` | `PromiseKept` (implements `JobOutcomes`) |
| | `ScenesAreKept` | `SceneIsKept` |
| | `SavesAreLoaded` | `SavedIsLoaded` |
| | `PluginsStayValid` | `UpdatesKeepPluginsValid` |
| `SessionLifecycleProofs` | `WholeRecord` | `RecordIsWhole` |
| | `FinalStatistics` | `StatsAreFinal` (action property, of no run) |
| | `KeptRecord` | `RecordKept` (implements `SessionRecord`) |
| `SessionsProofs` | `RowsStayApart` | `RowsAreOfTheirSession` |
| | `EnginesAreOwn` | `EngineIsOwn` |
| | `OpenSessionsHaveOwners` | `OpenHasOwner` |
| `StreamProofs` | `SegmentIsHeard` | `HeardIsTheSegment` |
| | `TailsAreInTime` | `TailsCutTheirSegment` |
| | `CutsStayClean` | `CutsAreClean` (action properties) |
| | `DetectorTypeCorrect` | `DetectorTypeOK` |
| | `CutsAreOwn` | `CutsAreJustified` |
| | `SilenceIsCut` | `TrimKeepsSpeech` |
| `RecordingsProofs` | `ChunksAccountedFor` | `ChunksAreAccountedFor` |
| | `PausesUnheard` | `PausesStayUnheard` |
| | `RecordingsAreWhole` | `RecordingIsWhole` |
| | `MasterIsWhole` | `MasterHasBothTracks` |
| | `RestartRecoversAll` | `RestartRecovers` (action property) |
| `TranscriptProofs` | `PagesAgree` | `CaughtUpAgrees` |
| | `FinalsAreFinal` | `FinalLinesStay` (action property) |
| | `EchoesDropped` | `EchoesAreDropped` |
| | `SpeakersKnown` | `SpeakersAreKnown` |
| | `ObserversSeeIt` | `ObserversSeeWhatIsShown` |
| | `OwnersAreKept` | `OwnerIsKept` |
| `JobProofs` | `DownloadsStaySound` | `DownloadsAreSound` |
| | `AnswersAreTheirOwn` | `AnswersAreOwn` |
| | `PushedIsJudged` | `PushedWithQuality` |
| | `LateAnswers` | `LateAnswersFit` |
| | `KeyPointsKept` | `KeyPointsAreKept` |
| | `FiguresAreTrue` | `FiguresAreOfTheTalk` |

For each module there is an inductive invariant (`IInv`, or a name of its own where a proof
module treats several; for `Sessions` there are three, `RowInv`, `EngineInv` and `OwnerInv`),
lemmas that the initial states satisfy it and each action keeps it, and
theorems that follow from it. The properties are not inductive by themselves; what the
invariant adds is the reason why they hold.

*PluginExecutor* (all finite sets of jobs and workers, every capacity of at least one,
`ExecutorAssumption`): a worker holds a job exactly while it is busy or emitting
(`HeldWhileBusy`), so that an exited worker holds none; what the flags are at each stage of
`shutdown` (`StopperInv`), so that a shutdown that returned as graceful has left the queue
open to its workers until it was empty; that workers already joined have exited unless a
join timed out (`JoinedHaveExited`); and that a worker that was late once is past its last
event while the session remains stopped (`LateInv`), since the stop is never taken back.
That what `shutdown` left undone is never sent is a further invariant (`UnfinishedInv`): a
worker with an event to send holds no such job, since once `shutdown` has returned with a
worker still there the executor is inactive, and every run that returns finds it so.
`PromiseIsKept` is the refinement of `JobOutcomes`. The fate of a job is read off four sets
(`FateIn`), each step changes them in one of a few ways (`Effect`), and `PlaceInv` says that
a job that is not settled is queued once or held by one worker, and nowhere else: so no
step settles a job twice, and a step that settles one changes the fate of that one only.

*SessionLifecycle* (any number of streams and segments, every capacity of the channel,
`LifecycleAssumption`): who is where at each stage of `finish` (`CallerInv`), and what the
pipeline keeps of its own (`PipelineInv`). The heart is that the channel is a queue and the
writer may skip nothing: a command in the channel comes after the segments it depends on,
which are stored already or ahead of it (`Ordered`, `OrderInv`), so that a prefix of the
segments is stored at every moment (`NoHoles`). If the pipeline was joined it has ended, so
the `Shutdown` that follows comes after everything committed and the writer leaves only when
that is stored; without the join this fails, and the property says so. The same is counted for
the statistics: those collected and those in the channel are the streams in their order
(`Ranks`, `StatsInv`), from which the master is whole (`MasterIsWhole`). `KeptRecord` maps
each step to one of `SessionRecord` or to a stutter; the crash and the restart are steps
like the others.

*Sessions* (any number of sessions, settings, any capacity, `SessionsAssumption`):
`RowsStayApart` rests on AUTOINCREMENT: ids are below the sequence and not given twice, so that
a row that is there under the id of a summary is the row the summary was made from, and
a late segment finds its own row or none (`RowInv`). `EnginesAreOwn` follows an engine through the
pool: one that is kept there is kept once, under the settings it was built with, and has
heard nothing (`PoolInv`); a pipeline holds one exactly while it runs, and before that has
the settings of its own snapshot (`HolderInv`); and the session being started has a number no
pipeline has had (`StarterInv`). `OpenSessionsHaveOwners`: a row without an end is
that of the session being started, listened to or finished, or one whose end could not be
written. Times are numbers of the wall clock and never `None`, so that an end that is written
does end the session, by `finish` as by the recovery (`TimesInv`); and the slot is empty while a
start is under way (`StartInv`), so that publishing a session puts no other out of it: a
session passes from the one that starts it to the slot, from there to the thread that
finishes it, and there is no step between.

*SpeakerChange* (all numbers and lengths of segments, windows and steps,
`SpeakerChangeAssumption`): `CutsAreJustified` speaks of segments, which the code does not
name: it compares generations. `IInv` ties the two together: the generation is the number
of segments that have been reset (`Numbering`), so that the open segment is always one
ahead of it; a job in the channel or under way, and whatever is held against its anchor, is
of the segment its generation stands for (`JobsAreOwn`, `OddAreOwn`; here it matters that
the detector starts anew with a new generation); and so is every result on its way
(`ResultsAreOwn`). The comparison in `poll_changed` then suffices.

*StreamWorker* (all thresholds with `Stable < TailGap`, `StreamAssumption`): a segment's
chunks are a run from its start to the clock (`SegInv`); the pre-roll is the run before it,
as long as the limit or back to the last cut, and empty while a segment is open
(`PreRollInv`), which is what joins the two without a gap or a repetition; a chunk counts
as speech once because the pre-roll is not yet counted (`CountInv`); a segment waits for
its end exactly as long as its first tail is old, and the VAD has counted the same number
of chunks since, so that with `Stable < TailGap` no second tail can start the wait anew
(`WaitInv`); and after a cut in the middle of speech the VAD's speech began after it
(`CutInv`). `ConcludeStep` is the step that all actions with a chunk have in common. The
assumption is needed: without it a tail would put off the cut again and again.

*ModelDownloads* (any set of tasks, of kinds, either adapter): an entry of the registry
admits one thread at a time to a model's files (`RegistryInv`), a task's place says what is
left to fetch and that its result is not known (`PlaceInv`), and under a name that counts
there is never less than a whole file (`WholeInv`), but for the punctuation model, whose
exception the property itself names (section 6).

*FileTranscription* (any set of requests, segments, any clock): a number is given to one
request only, so that no two have files of one name (`NamesAreDistinct`), a file is of the
request that has its name (`FilesAreOwn`), a pipeline has read none but its own
(`ReadsAreOwn`), and what the thread has read of the text belongs to the first of the
segments that it reads afterwards (`AnswerIsRead`).

*SessionReport* (any verdicts, settings, any number of changes): turns are
taken in order and a completed one is that of a thread that has ended (`PushedInOrder`), the row
is written once, at the end of the thread that judges (`RowIsFinal`), so that whoever reads
after a completed turn reads the row as it stays (`PushedIsTheRow`).

*Capture* (any order of streams, any files and devices, any queue, any number of pauses,
`CaptureAssumption`): the loop visits each stream once in a round (`RoundInv`); the numbers
in a device's queue are above all that was accepted or dropped, in their order, and the sum
of all of them and the overruns is what the device delivered (`QueueInv`); what waited at a
drain is neither accepted nor in the queue, because the drain takes the whole of the queue
and what comes later has a higher number (`UnheardInv`); and a file's claim on its pacer is
bounded by what is due (`PlayedInv`).

*Recordings* (any directories and names, `RecordingsAssumption`): a recorder exists exactly
while its temporary file is open and has counted what is in it (`RecorderInv`, `ClosedInv`); a
block that is accepted and not yet written is that of one stream, and the loop waits for it
(`PendingInv`); a name, final or not, has a header that a recovery makes a right one of, and
a final one has one that matches (`WholeInv`, by `Good`, which every stage of a finish and of a
recovery keeps); under the one name or the other is what the stream accepted, all but the
pending block (`KeptInv`); the master is the two tracks from the first frame on, as far as
it is written, with at most its last frame cut (`MasterInv`). `KeptInv` and the match of the
lengths are of a disk without write errors (`sound`). Each crash is one step from an
invariant state to another, whichever stage it leaves, so that nothing has to be said of how
many there are. Recovery is a fold over a finite set, whose closed form is proved from the
smallest subset for which it would fail (`RecoveryIs`).

*Configuration* and *PluginRegistry* (any tables, keys, names, updates, and files made by hand,
`ConfigAssumption`, `RegistryAssumption`): what the memory holds is what a load makes of
the file, with names filled in and numbers in their range, and the environment's backend
(`MemoryInv`), and loading it again changes nothing, which is why a save survives; a table
that was validated stays valid through every update, and so does the one a session is built
from (`ValidInv`); what a session runs is what its two snapshots say (`SessionInv`).

*Voiceprint* (any takes of any length, `VoiceprintAssumption`): a file's content is of a take that
was saved, or nothing, or what is left of a write, which is not loaded (`ContentInv`), and
while one take alone writes it has the current file open (`KeptInv`). That a take which is
good has a second of voice by its own peak and two of sound above the floor
(`ProfilesHaveVoice`) is a fact about cardinalities: what is voice by the measure of some
piece of a recording has sound, at the same place, in the whole (`SoundInPart`), and two
windows have no block in common.

*Finals* (any voices, texts, relation of likeness, `Lag`, length of the history, speeches,
`FinalsAssumption`): the filter's history is the end of what was shown, of `HistoryCap` or all
of it (`HistoryIs`), each part of a segment keeps that (`HandleKeeps`), and a segment is its
parts one after the other (`AfterSpeech`, a recursive function that is followed part by
part); so an echo that was dropped has its original among what was shown, and a repetition
that is still in the history is found. That the filter never needs to look further back rests
on the order of what is shown, by segments and by each stream's clock (`OrderInv`). The
registry: a number that was given still belongs to the voice, as a candidate, or as a client
that drifted no further than what was shown (`StartedInv`, `KnownInv`).

*TranscriptFeed* (any finite set of speakers, any number of events, any buffer,
`FeedAssumption`): the state is what the events so far say (`StateInv`), the events being
the log and the one that is applied and not yet broadcast; the page is what the events up
to its position say, if it has missed none (`PageInv`), where `position` is set by the
snapshot to one after what the snapshot holds; and if the event there was in the snapshot
already, the page tells one more than that (`Known`), and that one twice when it has come
again (`AgainTells`, `Doubled`). A view that tells n events tells one more when
that is pushed (`PushTells`): its open line is the last line of its speaker, so that nothing
final is overwritten. A snapshot is shown event by event, each on a line of its own, because
the committed ones come first and no two hypotheses are of one speaker (`SnapshotLists`,
`RanksAreTheirOwn`).

*Observers* (any sessions, agents and workers, `ObserverBounds`, `KeyPointBounds`): a job of the
brief retriever remembers how many briefs there were when it was let through, and all of
them are as old as the cooldown from then on, because the clock does not go back
(`Spaced`, `BriefsInv`); a job of the term explainer that is alone, from the skeleton to the
answer, finds its own skeleton in the one pending slot (`AloneInv`). What a segment adds to
the key points differs from the last `DedupWindow` of them, one by one, and so does every
point from those before it (`Differ`), also when the list is cut at its beginning; the page
appends what is new and cuts after each, the session cuts once, and the end of the end of
a list is its end (`NewestOfNewest`, `ShownIs`). An identity is a time and a number, so that the
page finds no point of this segment in its list as long as the times are distinct
(`PointsInv`).

The figures are proved of any list of segments first. When no two turns begin at one time,
the line that the insertions make has every turn once, in the order in which they began
(`PlaceIs`, `TimelineIs`, `IsLine`). A turn interrupts its neighbour just when the two, with no
turn in between, overlap, and the loop counts each such pair once, because the pairs it has
counted so far are those that end within what it has read (`BetweenIs`, `InterruptionsAre`). A
stretch of the line that the loop does not break is a stretch of the talk that nobody
interrupts: to go on from a turn to the *next* one of mine is to go on to *some* later one
that begins soon enough, since the next begins no later (`UnbrokenIs`). After n turns the
loop has an open stretch from the first turn that links up to here, and `longest` bounds
every one that is over (`ListenInv`, `MonologueIs`). This needs that no turn of mine begins
before an earlier one has ended. That is an invariant of the session, not of the list: a
segment begins when the last one of its side is over, and the figures, being the first
observer asked, count it before the next one comes (`TalkInv`, `DueInv`).

*SilenceTrim* (any tape, padding and block, `TrimBounds`): after n blocks the stretches cover what
is within the padding of the speech that began by then, are apart, and begin no later
than the n-th block's padding (`TrimInv`); the next one meets the last or lies behind it
(`MergeIs`). That a sample is kept when its block is, the short last one included, is
arithmetic of the division (`BlockOf`).

Induction. The library's induction theorems take an operator as a parameter, which the
provers cannot instantiate. `DataLemmas` states what is needed of them without one, for
sets: a set of numbers that is not empty has a smallest one (`SmallestNumber`), a finite one
a largest, a family of finite sets a smallest (`SmallestSet`); what holds of 0 and goes on
from each number to the next holds up to n (`InductionUpTo`); n steps of a function exist
(`IterationExists`), from which a recursive function has the values that its rule gives.
The proofs about the history of the filters, the snapshot, the recovery and an orphan's last
segment go through these.

What the proofs changed. Several attempts failed because the model was wrong or allowed too
much, and the model was corrected from the code: the drain of a device that goes on
during a pause, the state of a master that was cut off (`master = "cut"`), tables of plugins
as functions on all keys, the clamp of the gain below zero as well as above. Assumptions
that the proofs made explicit: a `Starter` is no `None`, a take is none of the words for
other contents of a file, `None` and `Nothing` are no numbers and no events.

Only model-checked: all liveness (`ENABLED` and fairness are out of the prover's reach). Every
invariant and every action property of the passing runs is stated by a theorem.

## 6. Where code and documentation disagree

Four runs check one sentence each and find a behaviour of the model against it.

`orphan_times`: `session/src/lib.rs:652` says that an orphan's end is the time its last segment
ended; `session/src/lib.rs:673` adds the segment's time to `started_at`, as if it were
relative to the session's start, while segments are stored with times of the wall clock:
a recovered session ends decades in the future.

`refresh_gap`: `docs/architecture-v2.md:303` says that the snapshot before the subscription
keeps a refresh from losing live state. `handle_ws` makes the snapshot, sends it and
subscribes afterwards (`server/src/lib.rs:1009`, `1025`): what is broadcast between is in
neither. The other way round, what the sink has applied and not yet broadcast at the snapshot
comes through the channel as well, and a final is then on two neighbouring lines.
`CaughtUpAgrees` leaves out the first case (`missed`) and says what is shown in the second.

`silent_template`: `speaker.rs:216` says that several windows keep a cough, a silence or one
word from dominating the voiceprint. Each window is prepared again by its own peak
(`speaker.rs:204`, `229`), so that one of low noise is all voice, if it is above the absolute
floor; most of the windows that are averaged may be such. `OwnerIsKept` promises a second of
voice in the whole, by its peak, and two of sound above the floor.

`explanation_cards`: `core/src/lib.rs:129` says that an explanation takes the place of its
skeleton by its id. The plugin remembers one id (`term_explainer.rs:54`), which every skeleton
overwrites (107) and the first answer takes (142-147). `AnswersTakeTheirPlace` is about those
that had the slot for themselves.

The following were met while modelling. Where a property of section 3 has a premise, it is
one of these cases that the premise leaves out.

Sessions and their record:

- `session_writer.rs:4-5` says that closing the writer drains the queue, so that finalizers
  see what was committed. After a stop that timed out the pipeline enqueues behind
  `Shutdown`; the send succeeds and the segment is never stored (`DurableIfJoined`).
- Between the stop's take of the running session and `finish`'s cancel two pipelines run
  that nobody has cancelled, if a start comes in between (`Sessions`).
- Two streams whose scene turns the speaker mode off have one label and so one `.part`
  file; two sessions that start in the same second share their paths. `Recordings` gives
  streams distinct names.
- Recovery looks into the configured recording directory only (`service.rs:191,212-219`):
  after a change of it the `.part` files of the other stay (`RestartRecovers`).
- `wav.rs:171` says that a process that ended left a header of zeros. One that ended while
  `finish`, or an earlier recovery, patched the header has left the beginning of one, which
  `recover_part_file` takes for valid (`wav.rs:208`): its rate, still zero, becomes one hertz
  (`wav.rs:210`). `FinalIsWhole` says nothing of the rate.
- A build that fails leaves an empty `.part` file. What was queued before a pause is dropped
  by the drain. Each callback resamples alone and loses the fraction of a sample at its end
  (`audio/src/lib.rs:186`).
- The comments at `plugin_executor.rs:165,181` say that what a plugin returns after the
  shutdown's deadline is dropped because `active` is false. So it is (`OverrunsAreDropped`);
  but a worker past its test of the flags (249) whose join timed out still sends its event
  (263) after `shutdown` has returned, one at most (`OneLateEventEach`).
- What is in a device's queue when the loop stops is neither heard nor counted
  (`lib.rs:894-905`; the overruns are read before the device is told to stop):
  `ChunksAreAccountedFor` has it in the queue for good. What comes between the last drain of
  a pause and the resume is heard.
- `session/src/lib.rs:461` says that the user's own stream counts for the quality; the
  longest stream is the one that is judged. `skipped_analysis` is never set.

The transcript and the observers:

- `tests/pipeline_live.rs:358,377` says that every final is dispatched to the observers
  exactly once; of a segment that the punctuation splits, the last part only is
  (`lib.rs:849`), and none if the filters drop that part. The test's engine has no punctuation.
- `core/src/lib.rs:407` asks that an echo be within three seconds; the filter subtracts with
  saturation (`cross_stream_dedup.rs:42`), so that a final dated *before* an entry of the
  history is always within. `EchoKeepsOne` bounds the distance in one direction only.
- The term explainer's cooldown begins with the answer, so that a term that comes again
  before it is asked for again; numbers repeat within a second.
- Numbers of key points repeat when the list is at its cap, and the page replaces cards by
  number; translations may be shown in another order than the segments. The properties about
  the page name the distinct times under which it is right.
- The times of the figures are of the wall clock, though a comment in `metrics.rs` calls them
  relative to the session.

Models, voices and files:

- The desktop's registry keeps the entry of a download that ended with an error, though
  `web/src-tauri/src/lib.rs:252` says that it is removed whatever the end: `.map` over the
  result is skipped (`RegistryIsExact` knows the two adapters).
- `models.rs:367` says that an interrupted download does not count as success; a truncated
  `model.onnx.part` of the punctuation model is taken for complete by the next download
  (`InstalledIsWhole` excepts it by name).
- `owner_enrolled` (`speaker.rs:446`) says that there is a voiceprint when there is a file,
  also one that loading refuses; two takes at once, or a removal during one, can leave such a
  file although both answers were "ok". The message and the constant speak of one second of
  voice; the code asks for two windows of a second each.
- `speaker.rs:272` says that the owner's threshold is strict, so that a client is rather given
  the channel's label for a while than called "me". Where several share the user's microphone
  and an owner is enrolled, the channel's label is "me" (`speaker_assignment.rs:46-53`), and
  whoever is heard for the first time, in few words, or beyond the limit has it. Their
  identity stays unknown: `NamesAreEarned` says both, who may be called "me" and that
  the owner's identity is given to the owner's voice alone.
- A client that leaves during an upload leaves its temporary files for ever. Segment times of
  the answer are relative to the first segment, though a comment (`server/src/lib.rs:1220`)
  says the start of the audio. A file is paced like a live stream and has 300 seconds: a
  longer one is cut without a sign.

Configuration:

- `server/src/lib.rs:428` says that the logic is shared with the desktop; the server's
  `apply_config_updates` ignores the recording, quality, VAD threshold and denoise settings.
- The webhook plugin's `enabled` is overridden by the host although `host_managed` is empty.
- Overrides from the environment are written to the file by any save; the file is written in
  place, so that a crash leaves half of it (`Torn`).
- `build_live_config` takes two snapshots: a session may be built from two configurations.

## 7. What is not modelled

Without state of their own beyond a call, or external:

- recognition, VAD, embeddings, noise scores, language models, HTTP, devices: their outcomes are
  nondeterministic;
- speaker diarization (one pass over a file, by the command line only, with a native
  library; `dominant_speaker` depends on the order of a `HashMap` in ties and is called by
  tests only), LLM client, knowledge base, notes prompts, logging, command line, evaluation
  scripts;
- core data types and their serialisation.

Left out of components that are modelled:

- the thresholds by which `SessionMeta::evaluate` comes to its verdict;
- an end of the machine rather than of the process: blocks that were written and are not yet
  on the disk, a rename that is lost; how many bytes there are of a block that is cut off;
- what a segment says: texts are numbers of events, model values, or sets of cues;
- level events, the text of the preview recognition, the clip of each segment on disk;
- schema migration, exports, paging and full text search of the store;
- resampling and the mix of channels;
- authentication, static files and the handlers that forward one call;
- settings pages, history and highlights of the page; whether the page shows the session as
  paused after a reload (the snapshot does not say);
- failures of `end_session` in `SessionLifecycle` (`Sessions` has them).

Two hazards are listed without a property, with the reason: the pause that a reload
forgets, and the hypothesis that stays when a final is dropped.

`PROJECT.json` lists every component with its status.

## 8. Plan

Done: all modules of section 2 and the proofs of section 5. What would come next, in the
order of what it adds:

1. the page's hypotheses together with the filters of `Finals`, so that the hypothesis that
   a dropped final leaves behind is a state of the model;
2. a stage in the snapshot of `TranscriptFeed` that includes the pause, when the code has one.
