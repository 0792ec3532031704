--------------------------- MODULE SessionLifecycle ---------------------------
(***************************************************************************)
(* One persisted session from the start of listening to its finalizers     *)
(* (crates/talksage-pipeline/src/{lib,service,session_writer,finalize}.rs  *)
(* and crates/talksage-plugins/src/registry.rs).                           *)
(*                                                                         *)
(* The pipeline thread commits segments, closes its streams and reports    *)
(* their statistics; plugin threads add results; both hand what is to be   *)
(* stored to the session writer's bounded queue.  The caller of            *)
(* TalkSageService::finish stops the pipeline, waiting for it only so      *)
(* long, closes the writer, ends the session and runs the finalizers, each *)
(* with a deadline.  The process may die at any moment and is recovered at *)
(* its next start.                                                         *)
(*                                                                         *)
(* The plugin executor is its promise, JobOutcomes, which PluginExecutor   *)
(* is shown to keep: the job of a segment has the number of the segment.   *)
(***************************************************************************)
EXTENDS Naturals, Sequences, FiniteSets

CONSTANTS
  Streams,              \* the streams that may be started, user stream first
  MaxSegments,          \* bound: segments committed in a session
  Capacity,             \* WRITER_QUEUE_CAPACITY
  None

ASSUME LifecycleAssumption ==
  /\ Streams \in Seq(STRING) /\ Streams # <<>>
  /\ MaxSegments \in Nat /\ Capacity \in Nat \ {0}

VARIABLES
  process,              \* up, down (crashed), recovered (started again)
  pipeline,             \* where the pipeline thread is in run_loop
  workers, todo,        \* its streams, and those the current phase has left
  committed,            \* the number of segments committed so far
  fate, sent,           \* the plugin jobs of the segments (JobOutcomes)
  queue, writer,        \* the writer's channel and thread
  handed,               \* commands that the channel took (send returned Ok)
  refusedRows,          \* rows SQLite refused: logged and dropped
  hostStats,            \* the stream statistics collected for QualityHost
  caller, joined,       \* the thread in finish; the pipeline ended in time
  quality, webhook,     \* the threads the finalizers started
  recording,            \* the recording of each stream
  master,               \* the streams in the recording meant for playback
  rows, ended,          \* the database: the session's rows, ended_at is set
  report, payload       \* its quality report, and what the webhook was given

pipelineVars == <<pipeline, workers, todo, committed>>
pluginVars   == <<fate, sent>>
channelVars  == <<queue, handed>>
callerVars   == <<caller, joined, master>>
finalVars    == <<quality, webhook, report, payload>>
storeVars    == <<writer, rows, refusedRows, hostStats>>
vars == <<process, pipelineVars, pluginVars, channelVars, callerVars, finalVars,
          storeVars, recording, ended>>

Segments == 1..MaxSegments
StreamSet == {Streams[i] : i \in 1..Len(Streams)}
Plugins == INSTANCE JobOutcomes WITH Jobs <- Segments

\* WriteCommand: a transcript segment, the result of a plugin, the statistics
\* of a stream, or the request to stop.
Segment(n) == [type |-> "segment", of |-> n]
Result(n)  == [type |-> "result", of |-> n]
Stats(s)   == [type |-> "stats", of |-> s]
Shutdown   == [type |-> "shutdown", of |-> None]

Init ==
  /\ process = "up"
  /\ pipeline = "loading" /\ workers = <<>> /\ todo = <<>>
  /\ committed = 0
  /\ Plugins!Init
  /\ queue = <<>> /\ handed = {}
  /\ caller = "listening" /\ joined = FALSE /\ master = {}
  /\ quality = "off" /\ webhook = "off" /\ report = None /\ payload = None
  /\ writer = "running" /\ rows = <<>> /\ refusedRows = {} /\ hostStats = <<>>
  /\ recording = [s \in StreamSet |-> "none"]
  /\ ended = FALSE
--------------------------------------------------------------------------------
\* Mutant: a full queue drops the command instead of holding the sender up.
TryEnqueue(cmd) ==
  IF writer = "running" /\ Len(queue) < Capacity
  THEN queue' = Append(queue, cmd) /\ handed' = handed \cup {cmd}
  ELSE UNCHANGED channelVars

\* SyncSender::send: waits while the queue is full, fails (and the caller goes
\* on) once the writer thread has dropped the receiver.
Enqueue(cmd) ==
  \/ /\ writer = "running" /\ Len(queue) < Capacity
     /\ queue' = Append(queue, cmd) /\ handed' = handed \cup {cmd}
  \/ writer # "running" /\ UNCHANGED channelVars
--------------------------------------------------------------------------------
\* run_loop builds the streams; without the user stream there is no session,
\* without the client stream there is one.  They are recorded if a directory is
\* configured (a recorder that fails is only logged: CloseStream).
StartStreams ==
  /\ pipeline = "loading"
  /\ \E n \in 1..Len(Streams), dir \in {"none", "part"} :
       /\ workers' = SubSeq(Streams, 1, n)
       /\ recording' = [s \in StreamSet |->
            IF \E i \in 1..n : Streams[i] = s THEN dir ELSE "none"]
  /\ pipeline' = "loop"
  /\ UNCHANGED <<process, todo, committed, pluginVars, channelVars, callerVars,
                 finalVars, storeVars, ended>>

StartFails ==
  /\ pipeline = "loading" /\ pipeline' = "ended"
  /\ UNCHANGED <<process, workers, todo, committed, pluginVars, channelVars,
                 callerVars, finalVars, storeVars, recording, ended>>

\* finish_speech: the segment goes through the session's sink to the writer,
\* then on_final hands it to the plugins.  A stream commits what it has begun
\* when it is shut down.
Commit ==
  /\ pipeline = "loop" \/ (pipeline = "closing" /\ todo # <<>>)
  /\ committed < MaxSegments
  /\ committed' = committed + 1
  /\ Enqueue(Segment(committed'))
  /\ \/ Plugins!Accept(committed')
     \/ Plugins!Refuse(committed')        \* or should_trigger said no
  /\ UNCHANGED <<process, pipeline, workers, todo, callerVars, finalVars, storeVars,
                 recording, ended>>

\* The loop ends when it sees the cancel flag or the stop message, some time
\* after Stop, but also when every input is done and on an error of a stream.
LeaveLoop ==
  /\ pipeline = "loop"
  /\ pipeline' = "closing" /\ todo' = workers
  /\ UNCHANGED <<process, workers, committed, pluginVars, channelVars, callerVars,
                 finalVars, storeVars, recording, ended>>

\* StreamWorker::shutdown, after its last Commit: the recorder writes its header
\* and renames the file, or fails and leaves the .part behind.
CloseStream ==
  /\ pipeline = "closing" /\ todo # <<>>
  /\ todo' = Tail(todo)
  /\ \/ recording[Head(todo)] = "part"
        /\ recording' = [recording EXCEPT ![Head(todo)] = "final"]
     \/ UNCHANGED recording
  /\ UNCHANGED <<process, pipeline, workers, committed, pluginVars, channelVars,
                 callerVars, finalVars, storeVars, ended>>

\* PluginExecutor::shutdown.  Queued jobs are cleared unless it is graceful;
\* either way the jobs of workers that do not end in time are discarded, but
\* for the events that were already on their way (OneLateEventEach there).
ShutdownExecutor ==
  /\ pipeline = "closing" /\ todo = <<>>
  /\ \E S \in SUBSET {n \in Segments : fate[n] = "accepted"} : Plugins!Discard(S)
  /\ pipeline' = "stats" /\ todo' = workers
  /\ UNCHANGED <<process, workers, committed, channelVars, callerVars, finalVars,
                 storeVars, recording, ended>>

StatsDue == pipeline = "stats"

SendStats ==
  /\ StatsDue /\ todo # <<>>
  /\ Enqueue(Stats(Head(todo)))
  /\ todo' = Tail(todo)
  /\ UNCHANGED <<process, pipeline, workers, committed, pluginVars, callerVars,
                 finalVars, storeVars, recording, ended>>

EndPipeline ==
  /\ pipeline = "stats" /\ todo = <<>>
  /\ pipeline' = "ended"
  /\ UNCHANGED <<process, workers, todo, committed, pluginVars, channelVars,
                 callerVars, finalVars, storeVars, recording, ended>>
--------------------------------------------------------------------------------
\* A worker of the executor sends the event of a job through the same sink.
PluginSends(n) ==
  /\ Plugins!Emit(n)
  /\ Enqueue(Result(n))
  /\ UNCHANGED <<process, pipelineVars, callerVars, finalVars, storeVars, recording, ended>>

PluginDrops(n) ==
  /\ Plugins!Discard({n})
  /\ UNCHANGED <<process, pipelineVars, channelVars, callerVars, finalVars,
                 storeVars, recording, ended>>
--------------------------------------------------------------------------------
\* run_writer.  A row that SQLite refuses is logged and dropped; statistics stay
\* in memory for QualityHost.
WriteRow ==
  /\ Head(queue).type \in {"segment", "result"}
  /\ \/ rows' = Append(rows, Head(queue)) /\ UNCHANGED refusedRows
     \/ refusedRows' = refusedRows \cup {Head(queue)} /\ UNCHANGED rows
  /\ UNCHANGED <<writer, hostStats>>

CollectStats ==
  /\ Head(queue).type = "stats"
  /\ hostStats' = Append(hostStats, Head(queue).of)
  /\ UNCHANGED <<writer, rows, refusedRows>>

WriterStep ==
  /\ writer = "running" /\ queue # <<>>
  /\ queue' = Tail(queue)
  /\ WriteRow \/ CollectStats
  /\ UNCHANGED <<process, pipelineVars, pluginVars, handed, callerVars, finalVars,
                 recording, ended>>

\* Shutdown ends the loop, a panic ends the thread; the receiver goes with it,
\* and whatever is queued behind.
WriterEnds ==
  /\ writer = "running" /\ queue # <<>>
  /\ \/ Head(queue) = Shutdown /\ writer' = "exited"
     \/ Head(queue) # Shutdown /\ writer' = "panicked"
  /\ queue' = <<>>
  /\ UNCHANGED <<process, pipelineVars, pluginVars, handed, callerVars, finalVars,
                 rows, refusedRows, hostStats, recording, ended>>
--------------------------------------------------------------------------------
\* TalkSageService::finish, step by step.  LivePipeline::stop_with_timeout:
Stop ==
  /\ caller = "listening" /\ caller' = "joining"
  /\ UNCHANGED <<process, pipelineVars, pluginVars, channelVars, joined, master,
                 finalVars, storeVars, recording, ended>>

PipelineEnded == pipeline = "ended"

\* When the time is up the thread is left running and finish goes on.
JoinPipeline ==
  /\ caller = "joining" /\ caller' = "closingWriter"
  /\ joined' = PipelineEnded
  /\ UNCHANGED <<process, pipelineVars, pluginVars, channelVars, master,
                 finalVars, storeVars, recording, ended>>

\* Mutant: closing relies on the last sender being dropped.
DropSender == UNCHANGED channelVars

RequestShutdown == Enqueue(Shutdown)

\* SessionWriter::finish: Shutdown queues up behind everything handed before.
CloseWriter ==
  /\ caller = "closingWriter" /\ caller' = "joiningWriter"
  /\ RequestShutdown
  /\ UNCHANGED <<process, pipelineVars, pluginVars, joined, master, finalVars,
                 storeVars, recording, ended>>

\* Mutant: the writer is not joined.
WriterSignalled == TRUE

WriterJoined == writer # "running"

\* A writer that panicked makes finish return early, with an error.
JoinWriter ==
  /\ caller = "joiningWriter" /\ WriterJoined
  /\ caller' = IF writer = "panicked" THEN "failed" ELSE "ending"
  /\ UNCHANGED <<process, pipelineVars, pluginVars, channelVars, joined, master,
                 finalVars, storeVars, recording, ended>>

\* build_master_recording: the streams whose statistics arrived and whose
\* recording is there; two are mixed, which may fail.
Playable == {s \in StreamSet : /\ \E i \in 1..Len(hostStats) : hostStats[i] = s
                              /\ recording[s] = "final"}

\* end_session, then the recording meant for playback.  (An SQLite error in
\* end_session is ignored by finish; it is not modelled.)
EndSession ==
  /\ caller = "ending" /\ caller' = "quality"
  /\ ended' = TRUE
  /\ \/ master' = Playable
     \/ Cardinality(Playable) > 1 /\ master' = {}
  /\ UNCHANGED <<process, pipelineVars, pluginVars, channelVars, joined,
                 finalVars, storeVars, recording>>

\* run_finalizers: the session_quality thread is started, if that plugin is
\* enabled, and waited for until it is done or its deadline has passed; then
\* webhook is, which reads the configuration and dispatches a thread.
RunQuality ==
  /\ caller = "quality" /\ caller' = "awaitingQuality"
  /\ quality' \in {"running", "off"}
  /\ UNCHANGED <<process, pipelineVars, pluginVars, channelVars, joined, master,
                 webhook, report, payload, storeVars, recording, ended>>

AwaitQuality ==
  /\ caller = "awaitingQuality" /\ caller' = "webhook"
  /\ UNCHANGED <<process, pipelineVars, pluginVars, channelVars, joined, master,
                 finalVars, storeVars, recording, ended>>

RunWebhook ==
  /\ caller = "webhook" /\ caller' = "done"
  /\ webhook' \in {"dispatched", "off"}
  /\ UNCHANGED <<process, pipelineVars, pluginVars, channelVars, joined, master,
                 quality, report, payload, storeVars, recording, ended>>

\* QualityHost::evaluate_and_store, whenever its thread gets that far.
EvaluateQuality ==
  /\ quality = "running" /\ quality' = "ended"
  /\ \/ hostStats # <<>> /\ report' = [streams |-> hostStats, master |-> master]
     \/ UNCHANGED report              \* nothing to rate, or SQLite refused
  /\ UNCHANGED <<process, pipelineVars, pluginVars, channelVars, callerVars, webhook,
                 payload, storeVars, recording, ended>>

\* The thread WebhookHost::push spawned reads the session and sends it.
SendWebhook ==
  /\ webhook = "dispatched" /\ webhook' = "sent"
  /\ payload' = [rows |-> rows, report |-> report]
  /\ UNCHANGED <<process, pipelineVars, pluginVars, channelVars, callerVars, quality,
                 report, storeVars, recording, ended>>
--------------------------------------------------------------------------------
\* The process dies: its threads, channels and memory are gone, the database
\* and the files stay.
Crash ==
  /\ process = "up" /\ process' = "down"
  /\ pipeline' = "ended" /\ workers' = <<>> /\ todo' = <<>> /\ committed' = 0
  /\ fate' = [n \in Segments |-> "unsubmitted"] /\ sent' = <<>>
  /\ queue' = <<>> /\ handed' = {} /\ writer' = "exited" /\ hostStats' = <<>>
  /\ caller' = "failed" /\ joined' = FALSE /\ master' = {}
  /\ quality' = "off" /\ webhook' = "off"
  /\ UNCHANGED <<rows, refusedRows, recording, ended, report, payload>>

\* recover_on_startup: .part recordings get their header and final name (empty
\* ones are removed), sessions without an end are ended.
RecoverOnStartup ==
  /\ process = "down" /\ process' = "recovered"
  /\ \E S \in SUBSET {s \in StreamSet : recording[s] = "part"} :
       recording' \in [StreamSet -> {"none", "part", "final"}] /\
       \A s \in StreamSet :
         IF s \in S THEN recording'[s] \in {"none", "final"} ELSE recording'[s] = recording[s]
  /\ ended' = TRUE
  /\ UNCHANGED <<pipelineVars, pluginVars, channelVars, callerVars, finalVars, storeVars>>
--------------------------------------------------------------------------------
Pipeline ==
  \/ StartStreams \/ StartFails \/ Commit \/ LeaveLoop \/ CloseStream
  \/ ShutdownExecutor \/ SendStats \/ EndPipeline

Finish ==
  \/ Stop \/ JoinPipeline \/ CloseWriter \/ JoinWriter \/ EndSession
  \/ RunQuality \/ AwaitQuality \/ RunWebhook

Running ==
  \/ Pipeline
  \/ \E n \in Segments : PluginSends(n) \/ PluginDrops(n)
  \/ WriterStep \/ WriterEnds
  \/ Finish
  \/ EvaluateQuality \/ SendWebhook

Next ==
  \/ process = "up" /\ Running
  \/ Crash
  \/ RecoverOnStartup

Spec == Init /\ [][Next]_vars

\* The writer thread and the thread in finish are never stuck on anything that
\* the scheduler does not resolve.  Nothing is assumed of the pipeline thread
\* (ASR may hang), of plugins, finalizers, the user, or of crashes.
FairSpec ==
  /\ Spec
  /\ WF_vars(process = "up" /\ (WriterStep \/ WriterEnds))
  /\ WF_vars(process = "up" /\ (Finish /\ ~Stop))
--------------------------------------------------------------------------------
Commands == {Segment(n) : n \in Segments} \cup {Result(n) : n \in Segments}
            \cup {Stats(s) : s \in StreamSet} \cup {Shutdown}
RowSet   == {c \in Commands : c.type \in {"segment", "result"}}
RowsWritten == {rows[i] : i \in 1..Len(rows)}

Finalizing == caller \in {"quality", "awaitingQuality", "webhook", "done"}

TypeOK ==
  /\ process \in {"up", "down", "recovered"}
  /\ pipeline \in {"loading", "loop", "closing", "stats", "ended"}
  /\ workers \in Seq(StreamSet) /\ todo \in Seq(StreamSet)
  /\ committed \in 0..MaxSegments
  /\ fate \in [Segments -> {"unsubmitted", "refused", "accepted", "emitted", "discarded"}]
  /\ sent \in Seq(Segments)
  /\ queue \in Seq(Commands) /\ Len(queue) <= Capacity /\ handed \subseteq Commands
  /\ writer \in {"running", "exited", "panicked"}
  /\ refusedRows \subseteq RowSet /\ rows \in Seq(RowSet) /\ hostStats \in Seq(StreamSet)
  /\ caller \in {"listening", "joining", "closingWriter", "joiningWriter", "ending",
                 "quality", "awaitingQuality", "webhook", "done", "failed"}
  /\ joined \in BOOLEAN /\ master \subseteq StreamSet
  /\ quality \in {"off", "running", "ended"} /\ webhook \in {"off", "dispatched", "sent"}
  /\ recording \in [StreamSet -> {"none", "part", "final"}] /\ ended \in BOOLEAN

Stored(c) == c \in RowsWritten \cup refusedRows

\* When the pipeline ended in time and the writer did not panic, the finalizers
\* find every segment the session committed in the database, and the statistics
\* of every stream in memory.
DurableIfJoined ==
  Finalizing /\ joined =>
    /\ \A n \in 1..committed : Stored(Segment(n))
    /\ hostStats = workers

\* Whatever happens (a stop that times out, a panic of the writer, a crash),
\* the transcript has no holes: a stored segment comes after all earlier ones
\* and a stored plugin result after its segment, but for rows SQLite refused.
NoHoles ==
  \A m \in Segments : Segment(m) \in RowsWritten \/ Result(m) \in RowsWritten
    => \A n \in 1..m : Stored(Segment(n))

\* A session whose pipeline ended in time can be played back with every
\* recording it finished, unless mixing them failed.
MasterIsWhole ==
  Finalizing /\ joined /\ master # {}
    => master = {s \in StreamSet : recording[s] = "final"}

\* What a session leaves behind: no holes, whatever happens, and everything it
\* committed and recorded, if its pipeline ended in time (session_writer.rs:133,
\* service.rs:597-640).
RecordIsWhole == TypeOK /\ NoHoles /\ DurableIfJoined /\ MasterIsWhole

\* A stream's statistics are complete: once the first of them is sent, the
\* session commits no more segments.
StatsAreFinal ==
  [][(\E s \in StreamSet : Stats(s) \in handed) => committed' <= committed]_vars

\* finish returns, whatever the pipeline, plugins and finalizers do, even with
\* the channel full.
FinishReturns ==
  (caller = "joining") ~> (caller \in {"done", "failed"} \/ process # "up")

\* The session's record keeps what SessionRecord promises: once the session has
\* an end nothing is added, also when the pipeline is still running, and it has
\* one before it is rated or reported.
Record == INSTANCE SessionRecord WITH
  Rows    <- RowSet,
  sealed  <- ended,
  payload <- IF payload = None THEN None ELSE payload.rows

RecordKept == Record!Spec
================================================================================
