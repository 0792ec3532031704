------------------------------- MODULE Capture -------------------------------
(***************************************************************************)
(* From the devices to the streams: the audio callbacks with their bounded *)
(* queues, the loop that polls them in turn, pause, and the stop           *)
(* (crates/talksage-audio/src/{lib,loopback}.rs, run_loop in               *)
(* crates/talksage-pipeline/src/lib.rs, input_scheduler.rs and the counts  *)
(* of statistics.rs).                                                      *)
(*                                                                         *)
(* Audio is a sequence of chunks, numbered as the device delivers them or  *)
(* as they lie in the file; time passes in the length of a chunk.  What a  *)
(* stream does with a chunk is in StreamWorker and, of its recording, in    *)
(* Recordings, which takes the steps of this module with its own.          *)
(***************************************************************************)
EXTENDS Naturals, Sequences, FiniteSets

CONSTANTS
  Order,                \* the streams in the order of the workers
  Files,                \* the streams that read a file
  FileLength,           \* chunks in a file
  Capacity,             \* CAPTURE_QUEUE_CAP
  MaxTime, MaxPauses    \* bounds: the clock, and how often the user pauses

Streams == {Order[i] : i \in 1..Len(Order)}
Devices == Streams \ Files

ASSUME CaptureAssumption ==
  /\ Order \in Seq(Streams) /\ Order # <<>> /\ Cardinality(Streams) = Len(Order)
  /\ Files \subseteq Streams
  /\ {FileLength, Capacity, MaxTime, MaxPauses} \subseteq Nat /\ Capacity > 0

VARIABLES
  now,                  \* the clock
  loop,                 \* building, running, shutdown or ended
  offset,               \* in the round: streams visited; in the others: streams handled
  cursor,               \* RoundRobin.start
  workers,              \* the streams that were built
  stopping,             \* the stop signal
  paused, wasPaused,    \* the user's flag, and what the loop saw of it
  drainedNow,           \* the paused loop has drained since the clock moved
  pauses,               \* how often the flag was set
  device,               \* per stream: off, on, told (to stop)
  begun, delivered,     \* per device: when it began, the last chunk it delivered
  queue, overruns,      \* its queue, and how many chunks it dropped
  dropped,              \* chunks discarded in a pause
  accepted,             \* per stream: the chunks it has accepted
  due,                  \* FilePacer.next_at
  done,                 \* the file is at its end
  held,                 \* how long the loop has been paused
  unwanted              \* chunks that waited when it drained the queues

loopVars   == <<loop, offset, cursor, workers>>
pauseVars  == <<paused, wasPaused, drainedNow, pauses, held, unwanted>>
deviceVars == <<device, begun, delivered, overruns>>
inputVars  == <<queue, dropped, accepted, due, done>>
captureVars == <<now, loopVars, stopping, pauseVars, deviceVars, inputVars>>

CaptureInit ==
  /\ now = 0 /\ loop = "building" /\ offset = 0 /\ cursor = 0 /\ workers = <<>>
  /\ stopping = FALSE
  /\ paused = FALSE /\ wasPaused = FALSE /\ drainedNow = FALSE /\ pauses = 0 /\ held = 0
  /\ unwanted = [s \in Streams |-> {}]
  /\ device = [s \in Streams |-> "off"] /\ delivered = [s \in Streams |-> 0]
  /\ begun = [s \in Streams |-> 0] /\ overruns = [s \in Streams |-> 0]
  /\ queue = [s \in Streams |-> <<>>] /\ dropped = [s \in Streams |-> {}]
  /\ accepted = [s \in Streams |-> <<>>]
  /\ due = [s \in Streams |-> 0] /\ done = [s \in Streams |-> FALSE]
--------------------------------------------------------------------------------
\* The streams are built one after the other; the last step is start_input,
\* with one retry inside.
Building == loop = "building" /\ offset < Len(Order)
Upcoming == Order[offset + 1]

Build(s) ==
  /\ Building /\ s = Upcoming
  /\ offset' = offset + 1 /\ workers' = Append(workers, s)
  /\ device' = [device EXCEPT ![s] = IF s \in Files THEN "off" ELSE "on"]
  /\ begun' = [begun EXCEPT ![s] = now] /\ delivered' = [delivered EXCEPT ![s] = now]
  /\ due' = [due EXCEPT ![s] = now]
  /\ UNCHANGED <<now, loop, cursor, stopping, pauseVars, overruns, queue, dropped,
                 accepted, done>>

\* Without the first stream there is no session, without the second there is.
BuildFails(s) ==
  /\ Building /\ s = Upcoming
  /\ IF offset = 0 THEN loop' = "ended" /\ offset' = 0
                   ELSE loop' = loop /\ offset' = offset + 1
  /\ UNCHANGED <<now, cursor, workers, stopping, pauseVars, deviceVars, inputVars>>

Built ==
  /\ loop = "building" /\ offset = Len(Order)
  /\ loop' = "running" /\ offset' = 0
  /\ UNCHANGED <<now, cursor, workers, stopping, pauseVars, deviceVars, inputVars>>

\* The top of the loop: the stop signal, then the pause flag, whose change
\* flushes the segments, then the round.
AtTop == loop = "running" /\ offset = 0
AllDone == \A i \in 1..Len(workers) : done[workers[i]]

\* Mutant: the stop signal is read after the pause.
BreakUnlessPaused ==
  /\ AtTop /\ ~paused
  /\ stopping \/ AllDone
  /\ loop' = "shutdown"
  /\ UNCHANGED <<now, offset, cursor, workers, stopping, pauseVars, deviceVars, inputVars>>

Break ==
  /\ AtTop
  /\ stopping \/ (~paused /\ AllDone)
  /\ loop' = "shutdown"
  /\ UNCHANGED <<now, offset, cursor, workers, stopping, pauseVars, deviceVars, inputVars>>

\* What a device has delivered by now and nobody has heard.
Waiting(s) ==
  {c \in begun[s] + 1..delivered[s] : \A i \in 1..Len(accepted[s]) : accepted[s][i] # c}

\* Mutant: the queues are left as they are.
PauseRoundWithoutDrain ==
  /\ AtTop /\ ~stopping /\ paused
  /\ wasPaused' = TRUE /\ drainedNow' = TRUE
  /\ unwanted' = [s \in Streams |-> unwanted[s] \cup Waiting(s)]
  /\ due' = [s \in Streams |-> IF s \in Files THEN now + 1 ELSE due[s]]
  /\ UNCHANGED <<now, loopVars, stopping, paused, pauses, held, deviceVars, queue, dropped,
                 accepted, done>>

\* drain_paused of every stream: the queue is emptied, the file's next chunk is
\* put off.
PauseRound ==
  /\ AtTop /\ ~stopping /\ paused
  /\ wasPaused' = TRUE /\ drainedNow' = TRUE
  /\ unwanted' = [s \in Streams |-> unwanted[s] \cup Waiting(s)]
  /\ dropped' = [s \in Streams |-> dropped[s] \cup {queue[s][i] : i \in 1..Len(queue[s])}]
  /\ queue' = [s \in Streams |-> <<>>]
  /\ due' = [s \in Streams |-> IF s \in Files THEN now + 1 ELSE due[s]]
  /\ UNCHANGED <<now, loopVars, stopping, paused, pauses, held, deviceVars, accepted, done>>

StartRound ==
  /\ AtTop /\ ~stopping /\ ~paused /\ ~AllDone
  /\ wasPaused' = FALSE /\ offset' = 1
  /\ UNCHANGED <<now, loop, cursor, workers, stopping, paused, drainedNow, pauses, held,
                 unwanted, deviceVars, inputVars>>

\* RoundRobin::index.
InTurn == workers[((cursor + offset - 1) % Len(workers)) + 1]

\* The round is over after the last stream: the next one starts elsewhere.
NextOffset ==
  IF offset < Len(workers) THEN offset' = offset + 1 /\ UNCHANGED cursor
  ELSE offset' = 0 /\ cursor' = (cursor + 1) % Len(workers)

Visiting(s) == loop = "running" /\ offset > 0 /\ s = InTurn

\* tick with a chunk: of the queue, or of the file when it is due.
AcceptChunk(s) ==
  /\ Visiting(s) /\ NextOffset
  /\ \/ /\ s \in Devices /\ queue[s] # <<>>
        /\ accepted' = [accepted EXCEPT ![s] = Append(@, Head(queue[s]))]
        /\ queue' = [queue EXCEPT ![s] = Tail(@)]
        /\ UNCHANGED due
     \/ /\ s \in Files /\ ~done[s] /\ now >= due[s] /\ Len(accepted[s]) < FileLength
        /\ accepted' = [accepted EXCEPT ![s] = Append(@, Len(@) + 1)]
        /\ due' = [due EXCEPT ![s] = @ + 1]
        /\ UNCHANGED queue
  /\ UNCHANGED <<now, loop, workers, stopping, pauseVars, deviceVars, dropped, done>>

\* tick without one; a file that is due and at its end is done.
NoChunk(s) ==
  /\ Visiting(s) /\ NextOffset
  /\ \/ s \in Devices /\ queue[s] = <<>> /\ UNCHANGED done
     \/ s \in Files /\ (done[s] \/ now < due[s]) /\ UNCHANGED done
     \/ /\ s \in Files /\ ~done[s] /\ now >= due[s] /\ Len(accepted[s]) = FileLength
        /\ done' = [done EXCEPT ![s] = TRUE]
  /\ UNCHANGED <<now, loop, workers, stopping, pauseVars, deviceVars, queue, dropped,
                 accepted, due>>

\* shutdown of a stream: its device is told to stop and waited for.
ShuttingDown(s) == loop = "shutdown" /\ offset < Len(workers) /\ s = workers[offset + 1]

TellDevice(s) ==
  /\ ShuttingDown(s) /\ device[s] = "on"
  /\ device' = [device EXCEPT ![s] = "told"]
  /\ UNCHANGED <<now, loopVars, stopping, pauseVars, begun, delivered, overruns, inputVars>>

CloseStream(s) ==
  /\ ShuttingDown(s) /\ device[s] = "off"
  /\ offset' = offset + 1
  /\ UNCHANGED <<now, loop, cursor, workers, stopping, pauseVars, deviceVars, inputVars>>

LoopEnds ==
  /\ loop = "shutdown" /\ offset = Len(workers)
  /\ loop' = "ended"
  /\ UNCHANGED <<now, offset, cursor, workers, stopping, pauseVars, deviceVars, inputVars>>
--------------------------------------------------------------------------------
\* Mutant: a full queue gives its oldest chunk away.
TryPushOldest(s, chunk) ==
  IF Len(queue[s]) < Capacity
  THEN queue' = [queue EXCEPT ![s] = Append(@, chunk)] /\ UNCHANGED overruns
  ELSE queue' = [queue EXCEPT ![s] = Append(Tail(@), chunk)] /\ UNCHANGED overruns

\* CaptureTx::try_push: into the queue or, when that is full, nowhere.
TryPush(s, chunk) ==
  IF Len(queue[s]) < Capacity
  THEN queue' = [queue EXCEPT ![s] = Append(@, chunk)] /\ UNCHANGED overruns
  ELSE overruns' = [overruns EXCEPT ![s] = @ + 1] /\ UNCHANGED queue

\* collect_and_send and the body of loopback_loop: no faster than the clock, in
\* whatever the loop is doing.
Deliver(s) ==
  /\ device[s] # "off" /\ delivered[s] < now
  /\ delivered' = [delivered EXCEPT ![s] = @ + 1]
  /\ TryPush(s, delivered[s] + 1)
  /\ UNCHANGED <<now, loopVars, stopping, pauseVars, device, begun, dropped, accepted,
                 due, done>>

\* The device's thread has seen the signal; or it failed: a stream holds a
\* sender of its own queue, so that it only hears nothing any more.
DeviceStops(s) ==
  /\ device[s] = "told"
  /\ device' = [device EXCEPT ![s] = "off"]
  /\ UNCHANGED <<now, loopVars, stopping, pauseVars, begun, delivered, overruns, inputVars>>

DeviceFails(s) ==
  /\ device[s] = "on"
  /\ device' = [device EXCEPT ![s] = "off"]
  /\ UNCHANGED <<now, loopVars, stopping, pauseVars, begun, delivered, overruns, inputVars>>

\* The user.
SetPaused ==
  /\ loop \in {"building", "running"}
  /\ paused' = ~paused
  /\ pauses' = IF paused THEN pauses ELSE pauses + 1
  /\ pauses' <= MaxPauses
  /\ UNCHANGED <<now, loopVars, stopping, wasPaused, drainedNow, held, unwanted,
                 deviceVars, inputVars>>

Stop ==
  /\ ~stopping /\ loop # "ended" /\ stopping' = TRUE
  /\ UNCHANGED <<now, loopVars, pauseVars, deviceVars, inputVars>>

\* The clock.  A device delivers each chunk before the next is complete, and a
\* paused loop, which comes round every 20 ms, has put off each file's next chunk.
Tick ==
  /\ now < MaxTime /\ loop # "ended" /\ now' = now + 1
  /\ \A s \in Devices : device[s] = "on" => delivered[s] = now
  /\ AtTop /\ paused /\ ~stopping => drainedNow
  /\ drainedNow' = FALSE
  /\ held' = IF loop = "running" /\ paused /\ wasPaused THEN held + 1 ELSE held
  /\ UNCHANGED <<loopVars, stopping, paused, wasPaused, pauses, unwanted, deviceVars,
                 inputVars>>

\* The steps of the loop's thread that are whole as they stand here, and those
\* of the devices' threads, the user and the clock.
LoopStep ==
  \/ Built \/ Break \/ PauseRound \/ StartRound \/ LoopEnds
  \/ \E s \in Streams : NoChunk(s) \/ TellDevice(s)

Around ==
  \/ \E s \in Streams : Deliver(s) \/ DeviceStops(s) \/ DeviceFails(s)
  \/ SetPaused \/ Stop \/ Tick

CaptureNext ==
  \/ LoopStep \/ Around
  \/ \E s \in Streams : Build(s) \/ BuildFails(s) \/ AcceptChunk(s) \/ CloseStream(s)

\* The loop's thread runs, and a device's thread reads its signal each round.
LoopThread ==
  LoopStep \/ \E s \in Streams : Build(s) \/ BuildFails(s) \/ AcceptChunk(s) \/ CloseStream(s)

CaptureFairness ==
  WF_captureVars(LoopThread) /\ \A s \in Streams : WF_captureVars(DeviceStops(s))

CaptureSpec == CaptureInit /\ [][CaptureNext]_captureVars /\ CaptureFairness
--------------------------------------------------------------------------------
\* What a device delivered was accepted, in its order, or is in the queue, or was
\* discarded in a pause, or was counted as an overrun: nothing is heard twice, and
\* until the stop nothing is lost without trace.  What is in the queue when the
\* loop ends stays there: a stop throws it away, unheard and uncounted.
ChunksAreAccountedFor ==
  \A s \in Devices :
    /\ \A i, j \in 1..Len(accepted[s]) : i < j => accepted[s][i] < accepted[s][j]
    /\ delivered[s] = begun[s] + Len(accepted[s]) + Len(queue[s])
                         + Cardinality(dropped[s]) + overruns[s]

\* What is said in a pause is not transcribed when it is over, but for what came
\* since the loop last drained the queues: a chunk that had come by then is never
\* heard.  And a file is not played faster to catch up with the pause.
PausesStayUnheard ==
  /\ \A s \in Devices : \A i \in 1..Len(accepted[s]) : accepted[s][i] \notin unwanted[s]
  /\ \A s \in Files : Len(accepted[s]) + held <= (now - begun[s]) + 1 + pauses

\* A stop ends the loop, in a pause, while the streams are built or while a
\* device does not deliver: the thread that joins it returns.
StopEndsTheLoop == stopping ~> loop = "ended"
================================================================================
