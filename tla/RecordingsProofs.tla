--------------------------- MODULE RecordingsProofs ---------------------------
(***************************************************************************)
(* What Capture and Recordings keep, for any streams, files, queues and    *)
(* lengths of time: that every chunk is accounted for and nothing of a     *)
(* pause is heard, that a recording is what its stream accepted through a  *)
(* crash in the middle of a write or of a finish and through its recovery, *)
(* that the master has both tracks, and that a restart leaves nothing      *)
(* under a temporary name.                                                 *)
(*                                                                         *)
(* The first part is about the steps of Capture, the second about the disk *)
(* with its recorders; the disk needs of the first that nothing has        *)
(* happened to a stream that is still to be built, and that a stream that  *)
(* hears something was built.                                              *)
(***************************************************************************)
EXTENDS Recordings, DataLemmas, SequenceTheorems

USE DEF captureVars, loopVars, pauseVars, deviceVars, inputVars

CaptureTypeInv ==
  /\ now \in Nat /\ offset \in Nat
  /\ loop \in {"building", "running", "shutdown", "ended"}
  /\ workers \in Seq(Streams)
  /\ stopping \in BOOLEAN /\ paused \in BOOLEAN /\ wasPaused \in BOOLEAN
  /\ drainedNow \in BOOLEAN /\ pauses \in Nat /\ held \in Nat
  /\ device \in [Streams -> {"off", "on", "told"}]
  /\ begun \in [Streams -> Nat] /\ delivered \in [Streams -> Nat]
  /\ overruns \in [Streams -> Nat] /\ due \in [Streams -> Nat]
  /\ queue \in [Streams -> Seq(Nat)] /\ accepted \in [Streams -> Seq(Nat)]
  /\ dropped \in [Streams -> SUBSET Nat] /\ unwanted \in [Streams -> SUBSET Nat]
  /\ done \in [Streams -> BOOLEAN]
  /\ \A s \in Streams : IsFiniteSet(dropped[s])

LEMMA InitCaptureType ==
  ASSUME CaptureInit
  PROVE  CaptureTypeInv
<1>1. <<>> \in Seq(Streams) /\ <<>> \in Seq(Nat) /\ IsFiniteSet({})
  BY FS_EmptySet
<1> QED BY <1>1 DEF CaptureInit, CaptureTypeInv

LEMMA Unchanged ==
  ASSUME CaptureTypeInv, UNCHANGED captureVars
  PROVE  CaptureTypeInv'
BY DEF CaptureTypeInv

LEMMA OrderType == Order \in Seq(Streams) /\ Order # <<>> /\ Len(Order) \in Nat
BY CaptureAssumption, LenProperties

\* A remainder is less than what was divided by.
LEMMA Remainder ==
  ASSUME NEW n \in Nat \ {0}, NEW k \in Nat
  PROVE  k % n \in Nat /\ k % n < n
OBVIOUS

LEMMA QueuedIsFinite ==
  ASSUME NEW q \in Seq(Nat)
  PROVE  IsFiniteSet({q[i] : i \in 1..Len(q)})
<1>1. IsFiniteSet(1..Len(q))
  BY FS_Interval
<1> DEFINE f == [i \in 1..Len(q) |-> q[i]]
<1>2. IsFiniteSet({f[i] : i \in 1..Len(q)})
  <2>1. f \in Surjection(1..Len(q), {f[i] : i \in 1..Len(q)})
    BY DEF Surjection
  <2> HIDE DEF f
  <2> QED BY <1>1, <2>1, FS_Surjection DEF ExistsSurjection
<1>3. {f[i] : i \in 1..Len(q)} = {q[i] : i \in 1..Len(q)}
  OBVIOUS
<1> QED BY <1>2, <1>3

\* What the round does to the offset, and what a stream takes.
LEMMA NextOffsetIs ==
  ASSUME NextOffset
  PROVE  offset' = 0 \/ (offset < Len(workers) /\ offset' = offset + 1)
BY Zenon DEF NextOffset

LEMMA AcceptIs ==
  ASSUME NEW s \in Streams, AcceptChunk(s)
  PROVE  \/ /\ s \in Devices /\ queue[s] # <<>> /\ due' = due
            /\ accepted' = [accepted EXCEPT ![s] = Append(@, Head(queue[s]))]
            /\ queue' = [queue EXCEPT ![s] = Tail(@)]
         \/ /\ s \in Files /\ now >= due[s] /\ queue' = queue
            /\ accepted' = [accepted EXCEPT ![s] = Append(@, Len(@) + 1)]
            /\ due' = [due EXCEPT ![s] = @ + 1]
BY Zenon DEF AcceptChunk

LEMMA StepCaptureType ==
  ASSUME CaptureTypeInv, CaptureNext
  PROVE  CaptureTypeInv'
<1> USE DEF CaptureTypeInv
<1>1. CASE Built
  BY <1>1 DEF Built
<1>2. CASE Break
  BY <1>2 DEF Break
<1>3. CASE PauseRound
  <2>1. \A s \in Streams : IsFiniteSet(dropped'[s])
    BY <1>3, QueuedIsFinite, FS_Union DEF PauseRound
  <2>2. dropped' \in [Streams -> SUBSET Nat]
    BY <1>3 DEF PauseRound
  <2>3. queue' \in [Streams -> Seq(Nat)]
    BY <1>3 DEF PauseRound
  <2>4. due' \in [Streams -> Nat]
    BY <1>3 DEF PauseRound
  <2>5. unwanted' \in [Streams -> SUBSET Nat]
    <3>1. \A s \in Streams : Waiting(s) \subseteq Nat
      BY DEF Waiting
    <3> QED BY <1>3, <3>1 DEF PauseRound
  <2> QED BY <1>3, <2>1, <2>2, <2>3, <2>4, <2>5 DEF PauseRound
<1>4. CASE StartRound
  BY <1>4 DEF StartRound
<1>5. CASE LoopEnds
  BY <1>5 DEF LoopEnds
<1>6. ASSUME NEW s \in Streams, NoChunk(s) PROVE CaptureTypeInv'
  <2>1. offset' \in Nat
    BY <1>6, NextOffsetIs DEF NoChunk
  <2> QED BY <1>6, <2>1 DEF NoChunk
<1>7. ASSUME NEW s \in Streams, TellDevice(s) PROVE CaptureTypeInv'
  BY <1>7 DEF TellDevice
<1>8. ASSUME NEW s \in Streams, Build(s) PROVE CaptureTypeInv'
  BY <1>8 DEF Build
<1>9. ASSUME NEW s \in Streams, BuildFails(s) PROVE CaptureTypeInv'
  <2>1. offset' \in Nat /\ loop' \in {"building", "running", "shutdown", "ended"}
    BY <1>9 DEF BuildFails
  <2> QED BY <1>9, <2>1 DEF BuildFails
<1>10. ASSUME NEW s \in Streams, AcceptChunk(s) PROVE CaptureTypeInv'
  <2>1. offset' \in Nat
    BY <1>10, NextOffsetIs DEF AcceptChunk
  <2>2. queue' \in [Streams -> Seq(Nat)] /\ accepted' \in [Streams -> Seq(Nat)]
        /\ due' \in [Streams -> Nat]
    <3>1. Append(accepted[s], Len(accepted[s]) + 1) \in Seq(Nat)
      BY AppendProperties, LenProperties
    <3>2. ASSUME queue[s] # <<>>
          PROVE  Append(accepted[s], Head(queue[s])) \in Seq(Nat) /\ Tail(queue[s]) \in Seq(Nat)
      BY <3>2, HeadTailProperties, AppendProperties
    <3>3. CASE queue[s] # <<>> /\ due' = due
               /\ accepted' = [accepted EXCEPT ![s] = Append(@, Head(queue[s]))]
               /\ queue' = [queue EXCEPT ![s] = Tail(@)]
      BY <3>2, <3>3
    <3>4. CASE queue' = queue /\ due' = [due EXCEPT ![s] = @ + 1]
               /\ accepted' = [accepted EXCEPT ![s] = Append(@, Len(@) + 1)]
      BY <3>1, <3>4
    <3> QED BY <1>10, <3>3, <3>4, AcceptIs, Zenon
  <2> QED BY <1>10, <2>1, <2>2 DEF AcceptChunk
<1>11. ASSUME NEW s \in Streams, CloseStream(s) PROVE CaptureTypeInv'
  BY <1>11 DEF CloseStream
<1>12. ASSUME NEW s \in Streams, Deliver(s) PROVE CaptureTypeInv'
  <2>1. queue' \in [Streams -> Seq(Nat)] /\ overruns' \in [Streams -> Nat]
    <3>1. delivered[s] + 1 \in Nat /\ overruns[s] + 1 \in Nat
      OBVIOUS
    <3>2. Append(queue[s], delivered[s] + 1) \in Seq(Nat)
      BY <3>1, AppendProperties
    <3> QED BY <1>12, <3>1, <3>2 DEF Deliver, TryPush
  <2>2. unwanted' \in [Streams -> SUBSET Nat] /\ delivered' \in [Streams -> Nat]
    BY <1>12 DEF Deliver
  <2> QED BY <1>12, <2>1, <2>2 DEF Deliver
<1>13. ASSUME NEW s \in Streams, DeviceStops(s) PROVE CaptureTypeInv'
  BY <1>13 DEF DeviceStops
<1>14. ASSUME NEW s \in Streams, DeviceFails(s) PROVE CaptureTypeInv'
  BY <1>14 DEF DeviceFails
<1>15. CASE SetPaused
  BY <1>15 DEF SetPaused
<1>16. CASE Stop
  BY <1>16 DEF Stop
<1>17. CASE Tick
  <2>1. now' \in Nat /\ held' \in Nat
    BY <1>17 DEF Tick
  <2> QED BY <1>17, <2>1 DEF Tick
<1> QED
  BY <1>1, <1>2, <1>3, <1>4, <1>5, <1>6, <1>7, <1>8, <1>9, <1>10, <1>11, <1>12,
     <1>13, <1>14, <1>15, <1>16, <1>17 DEF CaptureNext, LoopStep, Around
--------------------------------------------------------------------------------
\* While the streams are built, nothing has happened to those that are to come;
\* after that there is a stream, and only those that were built hear anything.
Untouched(s) ==
  /\ s \notin Range(workers)
  /\ device[s] = "off" /\ delivered[s] = 0 /\ begun[s] = 0 /\ overruns[s] = 0
  /\ queue[s] = <<>> /\ dropped[s] = {} /\ unwanted[s] = {}

UpcomingInv ==
  loop = "building" =>
    /\ offset <= Len(Order) /\ held = 0 /\ ~wasPaused
    /\ offset > 0 => Len(workers) > 0
    /\ \A i \in 1..Len(Order) : i > offset => Untouched(Order[i])

RoundInv ==
  /\ loop = "running" => Len(workers) > 0 /\ offset <= Len(workers) /\ cursor \in Nat
  /\ loop = "building" => cursor = 0
  /\ loop = "shutdown" => offset <= Len(workers)

WorkersInv ==
  /\ \A s \in Streams : s \notin Range(workers) => accepted[s] = <<>>
  /\ \A s \in Files : device[s] = "off"

BuildInv == UpcomingInv /\ RoundInv /\ WorkersInv

LEMMA OrderIsInjective ==
  ASSUME NEW i \in 1..Len(Order), NEW j \in 1..Len(Order), Order[i] = Order[j]
  PROVE  i = j
<1>1. Order \in Surjection(1..Len(Order), Streams)
  BY OrderType, LenProperties, ElementOfSeq DEF Streams, Surjection
<1>2. IsFiniteSet(1..Len(Order)) /\ Cardinality(1..Len(Order)) = Len(Order)
  BY OrderType, CardinalityOfFirst
<1>3. Order \in Injection(1..Len(Order), Streams)
  <2>1. Cardinality(Streams) = Len(Order)
    BY CaptureAssumption
  <2>2. Cardinality(Streams) = Cardinality(1..Len(Order))
    BY <2>1, <1>2
  <2> QED BY <1>1, <1>2, <2>2, FS_Surjection
<1> QED BY <1>3, OrderType, LenProperties DEF Injection, IsInjective

LEMMA RangeOfAppend ==
  ASSUME NEW S, NEW q \in Seq(S), NEW c \in S
  PROVE  Range(Append(q, c)) = Range(q) \cup {c}
<1>1. Append(q, c) \in Seq(S) /\ Len(Append(q, c)) = Len(q) + 1
  BY AppendProperties
<1>2. DOMAIN q = 1..Len(q) /\ DOMAIN Append(q, c) = 1..(Len(q) + 1) /\ Len(q) \in Nat
  BY <1>1, LenProperties
<1>3. \A i \in 1..Len(q) : Append(q, c)[i] = q[i]
  BY AppendProperties
<1>4. Append(q, c)[Len(q) + 1] = c
  BY AppendProperties
<1> QED BY <1>2, <1>3, <1>4 DEF Range

LEMMA InTurnIsWorker ==
  ASSUME CaptureTypeInv, RoundInv, NEW s \in Streams, Visiting(s)
  PROVE  s \in Range(workers)
<1> DEFINE k == (cursor + offset - 1) % Len(workers)
<1>1. Len(workers) \in Nat \ {0} /\ cursor + offset - 1 \in Nat
  <2>1. loop = "running" /\ offset > 0
    BY Zenon DEF Visiting
  <2>2. workers \in Seq(Streams) /\ offset \in Nat
    BY DEF CaptureTypeInv
  <2>3. Len(workers) \in Nat /\ Len(workers) > 0 /\ cursor \in Nat
    BY <2>1, <2>2, LenProperties DEF RoundInv
  <2> QED BY <2>1, <2>2, <2>3
<1>2. k \in Nat /\ k < Len(workers)
  BY <1>1, Remainder
<1>3. s = workers[k + 1]
  BY DEF Visiting, InTurn
<1> HIDE DEF k
<1>4. k + 1 \in 1..Len(workers)
  BY <1>1, <1>2
<1>5. DOMAIN workers = 1..Len(workers)
  BY LenProperties DEF CaptureTypeInv
<1> QED BY <1>3, <1>4, <1>5 DEF Range

\* Only Build, BuildFails and what goes on around the loop are steps of a loop that
\* is still building.
LEMMA StepUpcoming ==
  ASSUME CaptureTypeInv, UpcomingInv, CaptureNext
  PROVE  UpcomingInv'
<1> SUFFICES ASSUME loop' = "building" PROVE UpcomingInv'
  BY DEF UpcomingInv
<1> DEFINE others == <<workers, held, wasPaused, offset>>
<1>0. offset \in Nat /\ workers \in Seq(Streams) /\ Len(workers) \in Nat
  BY LenProperties DEF CaptureTypeInv
<1>t. /\ device \in [Streams -> {"off", "on", "told"}]
      /\ begun \in [Streams -> Nat] /\ delivered \in [Streams -> Nat]
  BY DEF CaptureTypeInv
<1>o. Order \in Seq(Streams) /\ Len(Order) \in Nat /\ \A i \in 1..Len(Order) : Order[i] \in Streams
  BY OrderType, ElementOfSeq
<1>1. ASSUME NEW s \in Streams, Build(s) PROVE UpcomingInv'
  <2>1. offset + 1 \in 1..Len(Order) /\ s = Order[offset + 1] /\ offset' = offset + 1
    BY <1>1, <1>0, <1>o DEF Build, Building, Upcoming
  <2>2. workers' = Append(workers, s)
    BY <1>1 DEF Build
  <2>3. Range(workers') = Range(workers) \cup {s} /\ Len(workers') = Len(workers) + 1
    BY <1>0, <2>2, RangeOfAppend, AppendProperties
  <2>4. ASSUME NEW i \in 1..Len(Order), i > offset' PROVE Untouched(Order[i])'
    <3>1. Order[i] # s /\ Order[i] \in Streams /\ i > offset
      BY <2>1, <2>4, <1>0, <1>o, OrderIsInjective
    <3>2. Untouched(Order[i])
      BY <1>1, <3>1 DEF UpcomingInv, Build, Building
    <3>3. /\ device'[Order[i]] = device[Order[i]] /\ begun'[Order[i]] = begun[Order[i]]
          /\ delivered'[Order[i]] = delivered[Order[i]]
      BY <1>1, <1>t, <3>1 DEF Build
    <3> QED BY <1>1, <2>3, <3>1, <3>2, <3>3 DEF Untouched, Build
  <2>5. held' = held /\ wasPaused' = wasPaused /\ held = 0 /\ ~wasPaused
    BY <1>1 DEF Build, Building, UpcomingInv
  <2> QED BY <2>1, <2>3, <2>4, <2>5, <1>0, <1>o DEF UpcomingInv
<1>2. ASSUME NEW s \in Streams, BuildFails(s) PROVE UpcomingInv'
  <2>1. offset' = offset + 1 /\ offset < Len(Order) /\ offset # 0 /\ loop = "building"
    BY <1>2 DEF BuildFails, Building
  <2>2. ASSUME NEW i \in 1..Len(Order), i > offset' PROVE Untouched(Order[i])'
    <3>1. Untouched(Order[i])
      BY <2>1, <2>2, <1>0 DEF UpcomingInv
    <3> QED BY <1>2, <3>1 DEF BuildFails, Untouched
  <2>3. UNCHANGED <<held, wasPaused, workers>> 
    BY <1>2 DEF BuildFails
  <2> QED BY <2>1, <2>2, <2>3, <1>0, <1>o DEF UpcomingInv
<1>3. ASSUME NEW s \in Streams, Deliver(s) PROVE UpcomingInv'
  <2>1. loop = "building" /\ UNCHANGED others /\ device[s] # "off"
    BY <1>3 DEF Deliver
  <2>2. ASSUME NEW i \in 1..Len(Order), i > offset PROVE Untouched(Order[i])'
    <3>1. Untouched(Order[i]) /\ Order[i] # s
      BY <2>1, <2>2 DEF UpcomingInv, Untouched
    <3>2. /\ delivered'[Order[i]] = delivered[Order[i]] /\ queue'[Order[i]] = queue[Order[i]]
          /\ overruns'[Order[i]] = overruns[Order[i]] /\ unwanted'[Order[i]] = unwanted[Order[i]]
      BY <1>3, <1>t, <3>1, <1>o DEF Deliver, TryPush, CaptureTypeInv
    <3> QED BY <1>3, <3>1, <3>2 DEF Deliver, Untouched
  <2> QED BY <2>1, <2>2 DEF UpcomingInv
<1>4. ASSUME NEW s \in Streams, DeviceStops(s) \/ DeviceFails(s) PROVE UpcomingInv'
  <2>1. loop = "building" /\ UNCHANGED others /\ device' = [device EXCEPT ![s] = "off"]
        /\ UNCHANGED <<begun, delivered, overruns, queue, dropped, unwanted>>
    BY <1>4 DEF DeviceStops, DeviceFails
  <2> QED BY <2>1, <1>t, <1>o DEF UpcomingInv, Untouched
<1>5. CASE SetPaused \/ Stop \/ Tick
  <2>1. loop = "building" /\ UNCHANGED <<workers, wasPaused, offset>> /\ held' = held
        /\ UNCHANGED <<device, begun, delivered, overruns, queue, dropped, unwanted>>
    BY <1>5 DEF SetPaused, Stop, Tick
  <2> QED BY <2>1 DEF UpcomingInv, Untouched
<1>6. CASE Built \/ Break \/ PauseRound \/ StartRound \/ LoopEnds
  BY <1>6 DEF Built, Break, PauseRound, StartRound, LoopEnds, AtTop
<1>7. ASSUME NEW s \in Streams, NoChunk(s) \/ TellDevice(s) \/ AcceptChunk(s) \/ CloseStream(s)
      PROVE  FALSE
  BY <1>7 DEF NoChunk, TellDevice, AcceptChunk, CloseStream, Visiting, ShuttingDown
<1> QED
  BY <1>1, <1>2, <1>3, <1>4, <1>5, <1>6, <1>7 DEF CaptureNext, LoopStep, Around

LEMMA StepRound ==
  ASSUME CaptureTypeInv, UpcomingInv, RoundInv, CaptureNext
  PROVE  RoundInv'
<1>0. offset \in Nat /\ workers \in Seq(Streams) /\ Len(workers) \in Nat
  BY LenProperties DEF CaptureTypeInv
<1>o. Len(Order) > 0
  BY OrderType, EmptySeq, LenProperties
<1>1. CASE Built
  BY <1>0, <1>1, <1>o DEF Built, RoundInv, UpcomingInv
<1>2. CASE Break \/ StartRound
  BY <1>0, <1>2 DEF Break, StartRound, AtTop, RoundInv
<1>3. ASSUME NEW s \in Streams, NoChunk(s) \/ AcceptChunk(s) PROVE RoundInv'
  <2>1. loop' = loop /\ workers' = workers /\ loop = "running" /\ NextOffset
    BY <1>3, Zenon DEF NoChunk, AcceptChunk, Visiting
  <2>2. (cursor + 1) % Len(workers) \in Nat
    BY <1>0, <2>1, Remainder DEF RoundInv
  <2>3. cursor' \in Nat
    BY <2>1, <2>2, Zenon DEF NextOffset, RoundInv
  <2>4. offset' <= Len(workers)
    BY <1>0, <2>1, NextOffsetIs
  <2> QED BY <2>1, <2>3, <2>4 DEF RoundInv
<1>4. ASSUME NEW s \in Streams, Build(s) \/ BuildFails(s) PROVE RoundInv'
  BY <1>4 DEF Build, BuildFails, Building, RoundInv
<1>5. ASSUME NEW s \in Streams, CloseStream(s) PROVE RoundInv'
  BY <1>0, <1>5 DEF CloseStream, ShuttingDown, RoundInv
<1>6. CASE PauseRound \/ LoopEnds \/ SetPaused \/ Stop \/ Tick
  <2>1. (loop' = "ended" \/ loop' = loop) /\ UNCHANGED <<offset, cursor, workers>>
    BY <1>6 DEF PauseRound, LoopEnds, SetPaused, Stop, Tick
  <2> QED BY <2>1 DEF RoundInv
<1>7. ASSUME NEW s \in Streams, TellDevice(s) \/ Deliver(s) \/ DeviceStops(s) \/ DeviceFails(s)
      PROVE  RoundInv'
  <2>1. UNCHANGED loopVars
    BY <1>7 DEF TellDevice, Deliver, DeviceStops, DeviceFails
  <2> QED BY <2>1 DEF RoundInv
<1> QED
  BY <1>1, <1>2, <1>3, <1>4, <1>5, <1>6, <1>7 DEF CaptureNext, LoopStep, Around

LEMMA StepWorkers ==
  ASSUME CaptureTypeInv, BuildInv, CaptureNext
  PROVE  WorkersInv'
<1>0. /\ workers \in Seq(Streams) /\ device \in [Streams -> {"off", "on", "told"}]
      /\ accepted \in [Streams -> Seq(Nat)]
  BY DEF CaptureTypeInv
<1>1. ASSUME NEW s \in Streams, Build(s) PROVE WorkersInv'
  <2>1. Range(workers') = Range(workers) \cup {s}
    BY <1>0, <1>1, RangeOfAppend DEF Build
  <2>2. \A r \in Files : device'[r] = "off"
    BY <1>0, <1>1, CaptureAssumption DEF Build, BuildInv, WorkersInv
  <2> QED BY <1>1, <2>1, <2>2 DEF Build, BuildInv, WorkersInv
<1>2. ASSUME NEW s \in Streams, AcceptChunk(s) PROVE WorkersInv'
  <2>1. s \in Range(workers)
    BY <1>2, InTurnIsWorker DEF BuildInv, AcceptChunk
  <2>2. \A r \in Streams : r # s => accepted'[r] = accepted[r]
    BY <1>0, <1>2, AcceptIs
  <2>3. UNCHANGED <<workers, device>>
    BY <1>2, Zenon DEF AcceptChunk
  <2> QED BY <2>1, <2>2, <2>3 DEF BuildInv, WorkersInv
<1>3. ASSUME NEW s \in Streams, TellDevice(s) \/ DeviceStops(s) \/ DeviceFails(s)
      PROVE  WorkersInv'
  <2>1. device[s] # "off" /\ UNCHANGED <<workers, accepted>>
        /\ \E v : device' = [device EXCEPT ![s] = v]
    BY <1>3 DEF TellDevice, DeviceStops, DeviceFails
  <2>2. s \notin Files
    BY <2>1 DEF BuildInv, WorkersInv
  <2>3. \A r \in Files : device'[r] = device[r]
    BY <1>0, <2>1, <2>2, CaptureAssumption
  <2> QED BY <2>1, <2>3 DEF BuildInv, WorkersInv
<1>4. ASSUME NEW s \in Streams, NoChunk(s) \/ BuildFails(s) \/ CloseStream(s) \/ Deliver(s)
      PROVE  WorkersInv'
  <2>1. UNCHANGED <<workers, accepted, device>>
    BY <1>4, Zenon DEF NoChunk, BuildFails, CloseStream, Deliver
  <2> QED BY <2>1 DEF BuildInv, WorkersInv
<1>5. CASE Built \/ Break \/ PauseRound \/ StartRound \/ LoopEnds \/ SetPaused \/ Stop \/ Tick
  <2>1. UNCHANGED <<workers, accepted, device>>
    BY <1>5 DEF Built, Break, PauseRound, StartRound, LoopEnds, SetPaused, Stop, Tick
  <2> QED BY <2>1 DEF BuildInv, WorkersInv
<1> QED
  BY <1>1, <1>2, <1>3, <1>4, <1>5 DEF CaptureNext, LoopStep, Around
--------------------------------------------------------------------------------
\* The chunks of a device, from the first that it delivered: those that were accepted
\* and those that were discarded come before those that are in the queue.
Increasing(q) == \A i, j \in 1..Len(q) : i < j => q[i] < q[j]

ChunksInv(s) ==
  /\ Increasing(accepted[s]) /\ Increasing(queue[s])
  /\ \A j \in 1..Len(queue[s]) :
       /\ queue[s][j] <= delivered[s]
       /\ \A d \in dropped[s] : d < queue[s][j]
       /\ \A i \in 1..Len(accepted[s]) : accepted[s][i] < queue[s][j]
  /\ \A i \in 1..Len(accepted[s]) : accepted[s][i] <= delivered[s]
  /\ \A c \in dropped[s] \cup unwanted[s] : c <= delivered[s]
  /\ delivered[s] = begun[s] + Len(accepted[s]) + Len(queue[s])
                       + Cardinality(dropped[s]) + overruns[s]

QueueInv == \A s \in Devices : ChunksInv(s)

\* A sum of five, and what becomes of it when one of them changes.
Adds(d, b, a, q, x, o) == d = b + a + q + x + o

LEMMA AddsUp ==
  ASSUME NEW d \in Nat, NEW b \in Nat, NEW a \in Nat, NEW q \in Nat, NEW x \in Nat,
         NEW o \in Nat, Adds(d, b, a, q, x, o)
  PROVE  /\ Adds(d + 1, b, a, q + 1, x, o) /\ Adds(d + 1, b, a, q, x, o + 1)
         /\ Adds(d, b, a + 1, q - 1, x, o)
BY DEF Adds

LEMMA AppendToIncreasing ==
  ASSUME NEW q \in Seq(Nat), Increasing(q), NEW c \in Nat,
         \A i \in 1..Len(q) : q[i] < c
  PROVE  /\ Append(q, c) \in Seq(Nat) /\ Increasing(Append(q, c))
         /\ Len(Append(q, c)) = Len(q) + 1 /\ Append(q, c)[Len(q) + 1] = c
         /\ \A i \in 1..Len(q) : Append(q, c)[i] = q[i]
<1>1. /\ Append(q, c) \in Seq(Nat)
      /\ Len(Append(q, c)) = Len(q) + 1 /\ Append(q, c)[Len(q) + 1] = c
      /\ \A i \in 1..Len(q) : Append(q, c)[i] = q[i]
  BY AppendProperties
<1>2. Len(q) \in Nat
  BY LenProperties
<1>3. ASSUME NEW i \in 1..(Len(q) + 1), NEW j \in 1..(Len(q) + 1), i < j
      PROVE  Append(q, c)[i] < Append(q, c)[j]
  <2>1. CASE j \in 1..Len(q)
    BY <1>1, <1>2, <1>3, <2>1 DEF Increasing
  <2>2. CASE j = Len(q) + 1
    BY <1>1, <1>2, <1>3, <2>2
  <2> QED BY <1>2, <2>1, <2>2
<1> QED BY <1>1, <1>3 DEF Increasing

LEMMA TailOfIncreasing ==
  ASSUME NEW q \in Seq(Nat), Increasing(q), q # <<>>
  PROVE  /\ Head(q) = q[1] /\ Head(q) \in Nat /\ 1 \in 1..Len(q)
         /\ Tail(q) \in Seq(Nat) /\ Increasing(Tail(q)) /\ Len(Tail(q)) = Len(q) - 1
         /\ \A i \in 1..Len(Tail(q)) : i + 1 \in 1..Len(q) /\ Tail(q)[i] = q[i + 1]
                                       /\ Head(q) < Tail(q)[i]
<1>1. /\ Tail(q) \in Seq(Nat) /\ Len(Tail(q)) = Len(q) - 1 /\ Head(q) \in Nat
      /\ \A i \in 1..Len(Tail(q)) : Tail(q)[i] = q[i + 1]
  BY HeadTailProperties
<1>2. Len(q) \in Nat /\ Len(q) > 0 /\ Head(q) = q[1]
  BY EmptySeq, LenProperties
<1>3. \A i \in 1..Len(Tail(q)) : i + 1 \in 1..Len(q) /\ 1 \in 1..Len(q)
  BY <1>1, <1>2
<1> QED BY <1>1, <1>2, <1>3 DEF Increasing

\* The chunks that are discarded with a queue.
LEMMA CardinalityOfQueue ==
  ASSUME NEW q \in Seq(Nat), Increasing(q)
  PROVE  /\ IsFiniteSet({q[i] : i \in 1..Len(q)})
         /\ Cardinality({q[i] : i \in 1..Len(q)}) = Len(q)
<1> DEFINE f == [i \in 1..Len(q) |-> q[i]]
           Q == {q[i] : i \in 1..Len(q)}
<1>1. Len(q) \in Nat /\ \A i \in 1..Len(q) : q[i] \in Nat
  BY LenProperties, ElementOfSeq
<1>2. ASSUME NEW i \in 1..Len(q), NEW j \in 1..Len(q), q[i] = q[j] PROVE i = j
  BY <1>1, <1>2 DEF Increasing
<1>3. f \in Bijection(1..Len(q), Q)
  BY <1>2 DEF Bijection, Injection, Surjection, IsInjective
<1>4. ExistsBijection(1..Len(q), Q)
  BY <1>3 DEF ExistsBijection
<1> HIDE DEF Q
<1>5. IsFiniteSet(Q) /\ Cardinality(Q) = Cardinality(1..Len(q))
  BY <1>1, <1>4, CardinalityOfFirst, FS_Bijection
<1>6. IsFiniteSet(Q) /\ Cardinality(Q) = Len(q)
  BY <1>1, <1>5, CardinalityOfFirst
<1> QED BY <1>6 DEF Q

LEMMA StreamTypes ==
  ASSUME CaptureTypeInv, NEW s \in Streams
  PROVE  /\ begun[s] \in Nat /\ delivered[s] \in Nat /\ overruns[s] \in Nat /\ due[s] \in Nat
         /\ queue[s] \in Seq(Nat) /\ accepted[s] \in Seq(Nat)
         /\ Len(queue[s]) \in Nat /\ Len(accepted[s]) \in Nat
         /\ dropped[s] \subseteq Nat /\ unwanted[s] \subseteq Nat
         /\ IsFiniteSet(dropped[s]) /\ Cardinality(dropped[s]) \in Nat
<1>1. /\ queue[s] \in Seq(Nat) /\ accepted[s] \in Seq(Nat) /\ IsFiniteSet(dropped[s])
      /\ begun[s] \in Nat /\ delivered[s] \in Nat /\ overruns[s] \in Nat /\ due[s] \in Nat
      /\ dropped[s] \subseteq Nat /\ unwanted[s] \subseteq Nat
  BY DEF CaptureTypeInv
<1> QED BY <1>1, LenProperties, FS_CardinalityType

\* A device hears only what it delivers, in the order in which it delivers it.
LEMMA StepQueue ==
  ASSUME CaptureTypeInv, BuildInv, QueueInv, CaptureNext
  PROVE  QueueInv'
<1> SUFFICES ASSUME NEW r \in Devices PROVE ChunksInv(r)'
  BY DEF QueueInv
<1> r \in Streams
  BY DEF Devices
<1>0. ASSUME UNCHANGED <<accepted[r], queue[r], delivered[r], begun[r], dropped[r],
                         unwanted[r], overruns[r]>>
      PROVE  ChunksInv(r)'
  BY <1>0 DEF QueueInv, ChunksInv
<1>t. /\ accepted \in [Streams -> Seq(Nat)] /\ queue \in [Streams -> Seq(Nat)]
      /\ delivered \in [Streams -> Nat] /\ begun \in [Streams -> Nat]
      /\ overruns \in [Streams -> Nat] /\ unwanted \in [Streams -> SUBSET Nat]
  BY DEF CaptureTypeInv
<1>n. /\ begun[r] \in Nat /\ delivered[r] \in Nat /\ overruns[r] \in Nat
      /\ queue[r] \in Seq(Nat) /\ accepted[r] \in Seq(Nat)
      /\ Len(queue[r]) \in Nat /\ Len(accepted[r]) \in Nat
      /\ dropped[r] \subseteq Nat /\ unwanted[r] \subseteq Nat
      /\ IsFiniteSet(dropped[r]) /\ Cardinality(dropped[r]) \in Nat
  BY StreamTypes
<1>m. /\ begun[r] \in Nat /\ delivered[r] \in Nat /\ overruns[r] \in Nat
      /\ Len(queue[r]) \in Nat /\ Len(accepted[r]) \in Nat /\ Cardinality(dropped[r]) \in Nat
  BY <1>n
<1>q. ASSUME ChunksInv(r)
      PROVE  delivered[r] = begun[r] + Len(accepted[r]) + Len(queue[r])
                              + Cardinality(dropped[r]) + overruns[r]
  BY <1>q DEF ChunksInv
<1>e. \A i \in 1..Len(accepted[r]) : accepted[r][i] \in Nat
  BY <1>n, ElementOfSeq
<1>f. \A i \in 1..Len(queue[r]) : queue[r][i] \in Nat
  BY <1>n, ElementOfSeq
<1>1. ASSUME NEW s \in Streams, AcceptChunk(s) PROVE ChunksInv(r)'
  <2>0. UNCHANGED <<delivered, begun, dropped, unwanted, overruns>>
    BY <1>1, Zenon DEF AcceptChunk
  <2>1. CASE s # r
    <3>1. accepted'[r] = accepted[r] /\ queue'[r] = queue[r]
      BY <1>1, <2>1, <1>t, AcceptIs
    <3> QED BY <1>0, <2>0, <3>1
  <2>2. CASE s = r
    <3>1. /\ queue[r] # <<>> /\ queue'[r] = Tail(queue[r])
          /\ accepted'[r] = Append(accepted[r], Head(queue[r]))
      BY <1>1, <2>2, <1>t, AcceptIs DEF Devices
    <3>2. ChunksInv(r)
      BY DEF QueueInv
    <3> DEFINE head == Head(queue[r])
               tail == Tail(queue[r])
               heard == Append(accepted[r], head)
    <3>3. /\ head = queue[r][1] /\ head \in Nat /\ 1 \in 1..Len(queue[r])
          /\ tail \in Seq(Nat) /\ Increasing(tail) /\ Len(tail) = Len(queue[r]) - 1
          /\ \A i \in 1..Len(tail) : i + 1 \in 1..Len(queue[r]) /\ tail[i] = queue[r][i + 1]
                                     /\ head < tail[i]
      BY <1>n, <3>1, <3>2, TailOfIncreasing DEF ChunksInv
    <3>4. \A i \in 1..Len(accepted[r]) : accepted[r][i] < head
      BY <3>2, <3>3 DEF ChunksInv
    <3>5. /\ Increasing(heard) /\ Len(heard) = Len(accepted[r]) + 1
          /\ heard[Len(accepted[r]) + 1] = head
          /\ \A i \in 1..Len(accepted[r]) : heard[i] = accepted[r][i]
      BY <1>n, <3>2, <3>3, <3>4, AppendToIncreasing DEF ChunksInv
    <3> HIDE DEF head, tail, heard
    <3>6. accepted'[r] = heard /\ queue'[r] = tail
      BY <3>1 DEF heard, tail, head
    <3>7. ASSUME NEW j \in 1..Len(tail)
          PROVE  /\ tail[j] <= delivered[r]
                 /\ \A d \in dropped[r] : d < tail[j]
                 /\ \A i \in 1..Len(heard) : heard[i] < tail[j]
      <4>1. /\ j + 1 \in 1..Len(queue[r]) /\ tail[j] = queue[r][j + 1] /\ head < tail[j]
        BY <3>3
      <4>2. ASSUME NEW i \in 1..Len(heard) PROVE heard[i] < tail[j]
        <5>1. CASE i \in 1..Len(accepted[r])
          BY <3>2, <3>5, <4>1, <5>1 DEF ChunksInv
        <5>2. CASE i = Len(accepted[r]) + 1
          BY <3>5, <4>1, <5>2
        <5> QED BY <1>n, <3>5, <5>1, <5>2
      <4> QED BY <3>2, <4>1, <4>2 DEF ChunksInv
    <3>8. ASSUME NEW i \in 1..Len(heard) PROVE heard[i] <= delivered[r]
      <4>1. CASE i \in 1..Len(accepted[r])
        BY <3>2, <3>5, <4>1 DEF ChunksInv
      <4>2. CASE i = Len(accepted[r]) + 1
        BY <3>2, <3>3, <3>5, <4>2 DEF ChunksInv
      <4> QED BY <1>n, <3>5, <4>1, <4>2
    <3>9. delivered[r] = begun[r] + Len(heard) + Len(tail)
                         + Cardinality(dropped[r]) + overruns[r]
      <4>1. Len(heard) = Len(accepted[r]) + 1 /\ Len(tail) = Len(queue[r]) - 1
        BY <3>3, <3>5
      <4>2. Adds(delivered[r], begun[r], Len(accepted[r]), Len(queue[r]),
                 Cardinality(dropped[r]), overruns[r])
        BY <1>q, <3>2, Zenon DEF Adds
      <4>3. Adds(delivered[r], begun[r], Len(accepted[r]) + 1, Len(queue[r]) - 1,
                 Cardinality(dropped[r]), overruns[r])
        BY ONLY <1>m, <4>2, AddsUp, Zenon
      <4> QED BY <4>1, <4>3, Zenon DEF Adds
    <3> QED BY <2>0, <3>2, <3>3, <3>5, <3>6, <3>7, <3>8, <3>9 DEF ChunksInv
  <2> QED BY <2>1, <2>2
<1>2. CASE PauseRound
  <2> DEFINE Q == {queue[r][i] : i \in 1..Len(queue[r])}
  <2>1. /\ queue'[r] = <<>> /\ dropped'[r] = dropped[r] \cup Q
        /\ unwanted'[r] = unwanted[r] \cup Waiting(r)
        /\ UNCHANGED <<delivered, begun, accepted, overruns>>
    BY <1>2 DEF PauseRound
  <2>2. ChunksInv(r)
    BY DEF QueueInv
  <2>3. IsFiniteSet(Q) /\ Cardinality(Q) = Len(queue[r])
    BY <1>n, <2>2, CardinalityOfQueue DEF ChunksInv
  <2>4. \A c \in Q : c \in Nat /\ c <= delivered[r] /\ c \notin dropped[r]
    <3>1. ASSUME NEW i \in 1..Len(queue[r])
          PROVE  queue[r][i] \in Nat /\ queue[r][i] <= delivered[r] /\ queue[r][i] \notin dropped[r]
      <4>1. queue[r][i] \in Nat
        BY <1>n, ElementOfSeq
      <4>2. queue[r][i] <= delivered[r] /\ \A d \in dropped[r] : d < queue[r][i]
        BY <2>2 DEF ChunksInv
      <4>3. ~(queue[r][i] < queue[r][i])
        BY <4>1
      <4> QED BY <4>1, <4>2, <4>3
    <3> QED BY <3>1
  <2> HIDE DEF Q
  <2>5. dropped[r] \cap Q = {}
    BY <2>4
  <2>6. Cardinality(dropped'[r]) = Cardinality(dropped[r]) + Len(queue[r])
    <3>1. Cardinality(dropped[r] \cup Q)
            = Cardinality(dropped[r]) + Cardinality(Q) - Cardinality(dropped[r] \cap Q)
      BY <1>n, <2>3, FS_Union
    <3>2. Cardinality(dropped[r] \cap Q) = 0
      BY <2>5, FS_EmptySet
    <3> QED BY <1>n, <2>1, <2>3, <3>1, <3>2
  <2>7. Len(queue'[r]) = 0 /\ Increasing(queue'[r])
    BY <2>1 DEF Increasing
  <2>8. delivered[r] = begun[r] + Len(accepted[r]) + Len(queue'[r])
                       + Cardinality(dropped'[r]) + overruns[r]
    BY <1>n, <2>2, <2>6, <2>7 DEF ChunksInv
  <2>9. \A c \in dropped'[r] \cup unwanted'[r] : c <= delivered[r]
    <3>1. \A c \in Waiting(r) : c <= delivered[r]
      BY <1>n DEF Waiting
    <3> QED BY <2>1, <2>2, <2>4, <3>1 DEF ChunksInv
  <2> QED BY <2>1, <2>2, <2>7, <2>8, <2>9 DEF ChunksInv
<1>3. ASSUME NEW s \in Streams, Deliver(s) PROVE ChunksInv(r)'
  <2>0. UNCHANGED <<accepted, begun, dropped, unwanted>>
    BY <1>3 DEF Deliver
  <2>1. CASE s # r
    <3>1. /\ delivered'[r] = delivered[r] /\ queue'[r] = queue[r]
          /\ overruns'[r] = overruns[r]
      BY <1>3, <2>1, <1>t DEF Deliver, TryPush
    <3> QED BY <1>0, <2>0, <3>1
  <2>2. CASE s = r
    <3> DEFINE c == delivered[r] + 1
               longer == Append(queue[r], c)
    <3>1. ChunksInv(r)
      BY DEF QueueInv
    <3>2. delivered'[r] = c
      BY <1>3, <2>2, <1>t DEF Deliver
    <3>3. \/ queue'[r] = longer /\ overruns'[r] = overruns[r]
          \/ queue'[r] = queue[r] /\ overruns'[r] = overruns[r] + 1
      BY <1>3, <2>2, <1>t DEF Deliver, TryPush
    <3>4. c \in Nat /\ \A i \in 1..Len(queue[r]) : queue[r][i] < c
      <4>1. \A i \in 1..Len(queue[r]) : queue[r][i] <= delivered[r]
        BY <3>1 DEF ChunksInv
      <4> QED BY <1>m, <1>f, <4>1
    <3>5. /\ Increasing(longer) /\ Len(longer) = Len(queue[r]) + 1
          /\ longer[Len(queue[r]) + 1] = c
          /\ \A i \in 1..Len(queue[r]) : longer[i] = queue[r][i]
      BY <1>n, <3>1, <3>4, AppendToIncreasing DEF ChunksInv
    <3>6. /\ \A i \in 1..Len(accepted[r]) : accepted[r][i] < c
          /\ \A d \in dropped[r] : d < c
          /\ \A d \in dropped[r] \cup unwanted[r] : d <= c
      <4>1. /\ \A i \in 1..Len(accepted[r]) : accepted[r][i] <= delivered[r]
            /\ \A d \in dropped[r] \cup unwanted[r] : d <= delivered[r]
        BY <3>1 DEF ChunksInv
      <4>2. \A d \in dropped[r] \cup unwanted[r] : d \in Nat
        BY <1>n
      <4> QED BY <1>m, <1>e, <4>1, <4>2
    <3>c. c = delivered[r] + 1
      OBVIOUS
    <3> HIDE DEF c, longer
    <3>7. CASE queue'[r] = longer /\ overruns'[r] = overruns[r]
      <4>1. ASSUME NEW j \in 1..Len(longer)
            PROVE  /\ longer[j] <= c
                   /\ \A d \in dropped[r] : d < longer[j]
                   /\ \A i \in 1..Len(accepted[r]) : accepted[r][i] < longer[j]
        <5>1. CASE j \in 1..Len(queue[r])
          <6>1. longer[j] = queue[r][j] /\ queue[r][j] < c
            BY <3>4, <3>5, <5>1
          <6>2. queue[r][j] \in Nat
            BY <1>f, <5>1
          <6> QED BY <3>1, <3>4, <5>1, <6>1, <6>2 DEF ChunksInv
        <5>2. CASE j = Len(queue[r]) + 1
          <6>1. longer[j] = c
            BY <3>5, <5>2
          <6> QED BY <3>4, <3>6, <6>1
        <5>3. j \in 1..Len(queue[r]) \/ j = Len(queue[r]) + 1
          BY <1>m, <3>5
        <5> QED BY <5>1, <5>2, <5>3
      <4>2. c = begun[r] + Len(accepted[r]) + Len(longer)
                + Cardinality(dropped[r]) + overruns[r]
        <5>1. Len(longer) = Len(queue[r]) + 1
          BY <3>5
        <5>2. Adds(delivered[r], begun[r], Len(accepted[r]), Len(queue[r]),
                   Cardinality(dropped[r]), overruns[r])
          BY <1>q, <3>1, Zenon DEF Adds
        <5>3. Adds(delivered[r] + 1, begun[r], Len(accepted[r]), Len(queue[r]) + 1,
                   Cardinality(dropped[r]), overruns[r])
          BY ONLY <1>m, <5>2, AddsUp, Zenon
        <5> QED BY <3>c, <5>1, <5>3, Zenon DEF Adds
      <4>3. \A i \in 1..Len(accepted[r]) : accepted[r][i] <= c
        BY <1>e, <3>4, <3>6
      <4> QED BY <2>0, <3>1, <3>2, <3>5, <3>6, <3>7, <4>1, <4>2, <4>3 DEF ChunksInv
    <3>8. CASE queue'[r] = queue[r] /\ overruns'[r] = overruns[r] + 1
      <4>1. c = begun[r] + Len(accepted[r]) + Len(queue[r])
                + Cardinality(dropped[r]) + overruns'[r]
        <5>1. Adds(delivered[r], begun[r], Len(accepted[r]), Len(queue[r]),
                   Cardinality(dropped[r]), overruns[r])
          BY <1>q, <3>1, Zenon DEF Adds
        <5>2. Adds(delivered[r] + 1, begun[r], Len(accepted[r]), Len(queue[r]),
                   Cardinality(dropped[r]), overruns[r] + 1)
          BY ONLY <1>m, <5>1, AddsUp, Zenon
        <5> QED BY <3>c, <3>8, <5>2, Zenon DEF Adds
      <4>2. /\ \A i \in 1..Len(accepted[r]) : accepted[r][i] <= c
            /\ \A j \in 1..Len(queue[r]) : queue[r][j] <= c
        BY <1>e, <1>f, <3>4, <3>6
      <4> QED BY <2>0, <3>1, <3>2, <3>6, <3>8, <4>1, <4>2 DEF ChunksInv
    <3> QED BY <3>3, <3>7, <3>8
  <2> QED BY <2>1, <2>2
<1>4. ASSUME NEW s \in Streams, Build(s) PROVE ChunksInv(r)'
  <2>0. loop = "building" /\ UNCHANGED <<accepted, queue, dropped, unwanted, overruns>>
    BY <1>4 DEF Build, Building
  <2>1. CASE s # r
    <3>1. delivered'[r] = delivered[r] /\ begun'[r] = begun[r]
      BY <1>4, <2>1, <1>t DEF Build
    <3> QED BY <1>0, <2>0, <3>1
  <2>2. CASE s = r
    <3>1. offset + 1 \in 1..Len(Order) /\ offset + 1 > offset /\ s = Order[offset + 1]
      BY <1>4, OrderType DEF Build, Building, Upcoming, CaptureTypeInv
    <3>2. Untouched(r)
      BY <2>0, <2>2, <3>1 DEF BuildInv, UpcomingInv
    <3>3. accepted[r] = <<>>
      BY <3>2 DEF Untouched, BuildInv, WorkersInv
    <3>4. delivered'[r] = now /\ begun'[r] = now /\ now \in Nat
      BY <1>4, <2>2, <1>t DEF Build, CaptureTypeInv
    <3>5. /\ queue'[r] = <<>> /\ accepted'[r] = <<>> /\ dropped'[r] = {} /\ unwanted'[r] = {}
          /\ overruns'[r] = 0
      BY <2>0, <3>2, <3>3 DEF Untouched
    <3>6. Cardinality(dropped'[r]) = 0 /\ Len(queue'[r]) = 0 /\ Len(accepted'[r]) = 0
      BY <3>5, FS_EmptySet
    <3>7. Increasing(queue'[r]) /\ Increasing(accepted'[r])
      BY <3>6 DEF Increasing
    <3> QED BY <3>4, <3>5, <3>6, <3>7 DEF ChunksInv
  <2> QED BY <2>1, <2>2
<1>5. ASSUME NEW s \in Streams,
             NoChunk(s) \/ TellDevice(s) \/ BuildFails(s) \/ CloseStream(s)
                \/ DeviceStops(s) \/ DeviceFails(s)
      PROVE  ChunksInv(r)'
  <2>1. UNCHANGED <<accepted, queue, delivered, begun, dropped, unwanted, overruns>>
    BY <1>5, Zenon DEF NoChunk, TellDevice, BuildFails, CloseStream, DeviceStops, DeviceFails
  <2> QED BY <1>0, <2>1
<1>6. CASE Built \/ Break \/ StartRound \/ LoopEnds \/ SetPaused \/ Stop \/ Tick
  <2>1. UNCHANGED <<accepted, queue, delivered, begun, dropped, unwanted, overruns>>
    BY <1>6 DEF Built, Break, StartRound, LoopEnds, SetPaused, Stop, Tick
  <2> QED BY <1>0, <2>1
<1> QED
  BY <1>1, <1>2, <1>3, <1>4, <1>5, <1>6 DEF CaptureNext, LoopStep, Around
--------------------------------------------------------------------------------
\* What waited when the loop drained the queues is not heard, and does not wait any more.
\* (While the paused loop drains, it visits no stream.)
Unheard(s) ==
  /\ \A i \in 1..Len(accepted[s]) : accepted[s][i] \notin unwanted[s]
  /\ \A i \in 1..Len(queue[s]) : queue[s][i] \notin unwanted[s]

UnheardInv ==
  /\ wasPaused /\ loop = "running" => offset = 0
  /\ \A s \in Devices : Unheard(s)

LEMMA StepUnheard ==
  ASSUME CaptureTypeInv, QueueInv, UnheardInv, CaptureNext
  PROVE  UnheardInv'
<1>t. /\ accepted \in [Streams -> Seq(Nat)] /\ queue \in [Streams -> Seq(Nat)]
      /\ delivered \in [Streams -> Nat]
  BY DEF CaptureTypeInv
<1>d. \A r \in Devices : r \in Streams
  BY DEF Devices
<1>0. ASSUME NEW r \in Devices, UNCHANGED <<accepted[r], queue[r], unwanted[r]>>
      PROVE  Unheard(r)'
  BY <1>0 DEF UnheardInv, Unheard
<1>1. ASSUME NEW s \in Streams, AcceptChunk(s) PROVE UnheardInv'
  <2>0. ~wasPaused /\ UNCHANGED <<wasPaused, unwanted>>
    <3>1. loop = "running" /\ offset > 0 /\ UNCHANGED <<wasPaused, unwanted>>
      BY <1>1, Zenon DEF AcceptChunk, Visiting
    <3> QED BY <3>1 DEF UnheardInv
  <2>1. ASSUME NEW r \in Devices PROVE Unheard(r)'
    <3>1. CASE s # r
      <4>1. accepted'[r] = accepted[r] /\ queue'[r] = queue[r]
        BY <1>1, <1>d, <3>1, <1>t, AcceptIs
      <4> QED BY <1>0, <2>0, <4>1
    <3>2. CASE s = r
      <4>1. /\ queue[r] # <<>> /\ queue'[r] = Tail(queue[r])
            /\ accepted'[r] = Append(accepted[r], Head(queue[r]))
        BY <1>1, <1>d, <3>2, <1>t, AcceptIs DEF Devices
      <4>2. queue[r] \in Seq(Nat) /\ accepted[r] \in Seq(Nat) /\ Len(accepted[r]) \in Nat
        BY <1>d, StreamTypes
      <4> DEFINE head == Head(queue[r])
                 tail == Tail(queue[r])
                 heard == Append(accepted[r], head)
      <4>3. Increasing(queue[r])
        BY DEF QueueInv, ChunksInv
      <4>4. /\ head = queue[r][1] /\ head \in Nat /\ 1 \in 1..Len(queue[r])
            /\ \A i \in 1..Len(tail) : i + 1 \in 1..Len(queue[r]) /\ tail[i] = queue[r][i + 1]
        BY <4>1, <4>2, <4>3, TailOfIncreasing
      <4>5. /\ Len(heard) = Len(accepted[r]) + 1 /\ heard[Len(accepted[r]) + 1] = head
            /\ \A i \in 1..Len(accepted[r]) : heard[i] = accepted[r][i]
        BY <4>2, <4>4, AppendProperties
      <4>6. accepted'[r] = heard /\ queue'[r] = tail
        BY <4>1
      <4> HIDE DEF head, tail, heard
      <4>7. ASSUME NEW i \in 1..Len(heard) PROVE heard[i] \notin unwanted[r]
        <5>1. CASE i \in 1..Len(accepted[r])
          BY <4>5, <5>1 DEF UnheardInv, Unheard
        <5>2. CASE i = Len(accepted[r]) + 1
          BY <4>4, <4>5, <5>2 DEF UnheardInv, Unheard
        <5> QED BY <4>2, <4>5, <5>1, <5>2
      <4>8. ASSUME NEW i \in 1..Len(tail) PROVE tail[i] \notin unwanted[r]
        BY <4>4 DEF UnheardInv, Unheard
      <4> QED BY <2>0, <4>6, <4>7, <4>8 DEF Unheard
    <3> QED BY <3>1, <3>2
  <2> QED BY <2>0, <2>1 DEF UnheardInv
<1>2. CASE PauseRound
  <2>1. offset' = 0 /\ accepted' = accepted
    BY <1>2 DEF PauseRound, AtTop
  <2>2. ASSUME NEW r \in Devices PROVE Unheard(r)'
    <3>1. queue'[r] = <<>> /\ unwanted'[r] = unwanted[r] \cup Waiting(r)
      BY <1>2, <1>d DEF PauseRound
    <3>2. \A i \in 1..Len(accepted[r]) : accepted[r][i] \notin Waiting(r)
      BY DEF Waiting
    <3> QED BY <2>1, <3>1, <3>2 DEF UnheardInv, Unheard
  <2> QED BY <2>1, <2>2 DEF UnheardInv
<1>3. ASSUME NEW s \in Streams, Deliver(s) PROVE UnheardInv'
  <2>0. UNCHANGED <<wasPaused, loop, offset, accepted, unwanted>>
    BY <1>3 DEF Deliver
  <2>1. ASSUME NEW r \in Devices PROVE Unheard(r)'
    <3>1. CASE queue'[r] = queue[r]
      BY <1>0, <2>0, <3>1
    <3>2. CASE queue'[r] # queue[r]
      <4> DEFINE c == delivered[r] + 1
                 longer == Append(queue[r], c)
      <4>1. queue'[r] = longer
        BY <1>3, <1>d, <1>t, <3>2 DEF Deliver, TryPush
      <4>2. /\ queue[r] \in Seq(Nat) /\ Len(queue[r]) \in Nat /\ delivered[r] \in Nat
            /\ unwanted[r] \subseteq Nat
        BY <1>d, StreamTypes
      <4>3. /\ Len(longer) = Len(queue[r]) + 1 /\ longer[Len(queue[r]) + 1] = c
            /\ \A i \in 1..Len(queue[r]) : longer[i] = queue[r][i]
        BY <4>2, AppendProperties
      <4>4. \A d \in unwanted[r] : d <= delivered[r]
        BY DEF QueueInv, ChunksInv
      <4>5. c \notin unwanted[r]
        BY <4>2, <4>4
      <4> HIDE DEF c, longer
      <4>6. ASSUME NEW i \in 1..Len(longer) PROVE longer[i] \notin unwanted[r]
        <5>1. CASE i \in 1..Len(queue[r])
          BY <4>3, <5>1 DEF UnheardInv, Unheard
        <5>2. CASE i = Len(queue[r]) + 1
          BY <4>3, <4>5, <5>2
        <5> QED BY <4>2, <4>3, <5>1, <5>2
      <4> QED BY <2>0, <4>1, <4>6 DEF UnheardInv, Unheard
    <3> QED BY <3>1, <3>2
  <2> QED BY <2>0, <2>1 DEF UnheardInv
<1>4. ASSUME NEW s \in Streams,
             \/ NoChunk(s) \/ TellDevice(s) \/ CloseStream(s) \/ DeviceStops(s)
             \/ DeviceFails(s) \/ Build(s) \/ BuildFails(s)
      PROVE  UnheardInv'
  <2>1. UNCHANGED <<wasPaused, accepted, queue, unwanted>>
    BY <1>4, Zenon DEF NoChunk, TellDevice, CloseStream, DeviceStops, DeviceFails,
         Build, BuildFails
  <2>2. \/ UNCHANGED <<loop, offset>>
        \/ loop' # "running"
        \/ loop = "running" /\ offset > 0
    BY <1>4, Zenon DEF NoChunk, TellDevice, CloseStream, DeviceStops, DeviceFails,
         Build, BuildFails, Building, ShuttingDown, Visiting
  <2>3. wasPaused' /\ loop' = "running" => offset' = 0
    BY <2>1, <2>2 DEF UnheardInv
  <2> QED BY <1>0, <2>1, <2>3 DEF UnheardInv
<1>5. CASE Built \/ Break \/ StartRound \/ LoopEnds \/ SetPaused \/ Stop \/ Tick
  <2>1. UNCHANGED <<accepted, queue, unwanted>>
    BY <1>5 DEF Built, Break, StartRound, LoopEnds, SetPaused, Stop, Tick
  <2>2. wasPaused' /\ loop' = "running" => offset' = 0
    <3>1. \/ loop' = "running" /\ offset' = 0
          \/ loop' # "running"
          \/ ~wasPaused'
          \/ UNCHANGED <<wasPaused, loop, offset>>
      BY <1>5 DEF Built, Break, StartRound, LoopEnds, SetPaused, Stop, Tick
    <3> QED BY <3>1 DEF UnheardInv
  <2> QED BY <1>0, <2>1, <2>2 DEF UnheardInv
<1> QED
  BY <1>1, <1>2, <1>3, <1>4, <1>5 DEF CaptureNext, LoopStep, Around
--------------------------------------------------------------------------------
\* What was played of a file, and how long it was put off, from the beginning.
Claimed(s) == Len(accepted[s]) + held + begun[s]

PlayedAtMost(c, b, d) ==
  /\ d <= now + 1 /\ b <= now /\ c <= now + 1 + pauses
  /\ loop \in {"building", "running"} /\ ~(wasPaused /\ stopping) =>
       /\ c <= d + pauses
       /\ (~wasPaused \/ drainedNow) /\ paused => c + 1 <= d + pauses
       /\ wasPaused /\ drainedNow => d = now + 1
       /\ wasPaused /\ ~drainedNow => d <= now

PlayedInv ==
  /\ paused => pauses > 0
  /\ \A s \in Files : PlayedAtMost(Claimed(s), begun[s], due[s])

LEMMA PlayedTypes ==
  ASSUME CaptureTypeInv, NEW s \in Streams
  PROVE  /\ Claimed(s) \in Nat /\ begun[s] \in Nat /\ due[s] \in Nat
         /\ now \in Nat /\ pauses \in Nat /\ held \in Nat
BY StreamTypes DEF CaptureTypeInv, Claimed

\* The steps around a file, and the clock, which claims its length in a pause.
LEMMA StepPlayedAtMost ==
  ASSUME CaptureTypeInv, PlayedInv,
         NEW c \in Nat, NEW b \in Nat, NEW d \in Nat, PlayedAtMost(c, b, d),
         \/ Break \/ StartRound \/ SetPaused \/ Stop
         \/ UNCHANGED <<now, stopping, paused, wasPaused, drainedNow, pauses>>
            /\ (loop' \in {"building", "running"} => loop \in {"building", "running"})
  PROVE  PlayedAtMost(c, b, d)'
<1>t. /\ pauses \in Nat /\ now \in Nat /\ paused \in BOOLEAN /\ wasPaused \in BOOLEAN
      /\ stopping \in BOOLEAN /\ drainedNow \in BOOLEAN
  BY DEF CaptureTypeInv
<1>1. CASE Break
  <2>1. loop' = "shutdown" /\ UNCHANGED <<now, pauses>>
    BY <1>1 DEF Break
  <2> QED BY <2>1 DEF PlayedAtMost
<1>2. CASE StartRound
  <2>1. /\ ~paused /\ ~stopping /\ loop = "running" /\ ~wasPaused'
        /\ UNCHANGED <<now, loop, stopping, paused, pauses>>
    BY <1>2 DEF StartRound, AtTop
  <2> QED BY <2>1 DEF PlayedAtMost
<1>3. CASE SetPaused
  <2>1. /\ UNCHANGED <<now, loop, stopping, wasPaused, drainedNow>> /\ paused' = ~paused
        /\ (paused /\ pauses' = pauses) \/ (~paused /\ pauses' = pauses + 1)
    BY <1>3 DEF SetPaused
  <2>2. CASE paused
    BY <1>t, <2>1, <2>2 DEF PlayedAtMost
  <2>3. CASE ~paused
    <3>1. pauses' = pauses + 1
      BY <2>1, <2>3
    <3> QED BY <1>t, <2>1, <2>3, <3>1 DEF PlayedAtMost
  <2> QED BY <2>2, <2>3
<1>4. CASE Stop
  <2>1. stopping' /\ ~stopping /\ UNCHANGED <<now, loop, paused, wasPaused, drainedNow, pauses>>
    BY <1>4 DEF Stop
  <2> QED BY <2>1 DEF PlayedAtMost
<1>5. CASE UNCHANGED <<now, stopping, paused, wasPaused, drainedNow, pauses>>
           /\ (loop' \in {"building", "running"} => loop \in {"building", "running"})
  BY <1>5 DEF PlayedAtMost
<1> QED BY <1>1, <1>2, <1>3, <1>4, <1>5

LEMMA StepPlayed ==
  ASSUME CaptureTypeInv, BuildInv, UnheardInv, PlayedInv, CaptureNext
  PROVE  PlayedInv'
<1>t. /\ accepted \in [Streams -> Seq(Nat)] /\ due \in [Streams -> Nat]
      /\ begun \in [Streams -> Nat] /\ pauses \in Nat /\ now \in Nat /\ held \in Nat
      /\ paused \in BOOLEAN /\ wasPaused \in BOOLEAN /\ stopping \in BOOLEAN
      /\ drainedNow \in BOOLEAN /\ offset \in Nat
  BY DEF CaptureTypeInv
<1>d. \A r \in Files : r \in Streams
  BY CaptureAssumption
<1>h. ASSUME NEW r \in Files
      PROVE  /\ PlayedAtMost(Claimed(r), begun[r], due[r])
             /\ Claimed(r) \in Nat /\ begun[r] \in Nat /\ due[r] \in Nat
  BY <1>d, <1>h, PlayedTypes DEF PlayedInv
\* A file that the step does not concern.
<1>0. ASSUME NEW r \in Files,
             UNCHANGED <<accepted[r], held, begun[r], due[r]>>,
             \/ Break \/ StartRound \/ SetPaused \/ Stop
             \/ UNCHANGED <<now, stopping, paused, wasPaused, drainedNow, pauses>>
                /\ (loop' \in {"building", "running"} => loop \in {"building", "running"})
      PROVE  PlayedAtMost(Claimed(r), begun[r], due[r])'
  <2>1. Claimed(r)' = Claimed(r)
    BY <1>0 DEF Claimed
  <2>2. ASSUME NEW c \in Nat, NEW b \in Nat, NEW d \in Nat, PlayedAtMost(c, b, d)
        PROVE  PlayedAtMost(c, b, d)'
    BY <1>0, <2>2, StepPlayedAtMost
  <2>3. ASSUME NEW c, NEW b, NEW d, c = Claimed(r), b = begun[r], d = due[r]
        PROVE  PlayedAtMost(c, b, d)'
    BY <1>0, <1>h, <2>2, <2>3
  <2> QED BY <1>0, <2>1, <2>3 DEF PlayedAtMost
<1>1. ASSUME NEW s \in Streams, AcceptChunk(s) PROVE PlayedInv'
  <2>0. loop = "running" /\ ~wasPaused
        /\ UNCHANGED <<now, loop, held, begun, stopping, paused, wasPaused, drainedNow, pauses>>
    <3>1. loop = "running" /\ offset > 0
        /\ UNCHANGED <<now, loop, held, begun, stopping, paused, wasPaused, drainedNow, pauses>>
      BY <1>1, Zenon DEF AcceptChunk, Visiting
    <3> QED BY <3>1 DEF UnheardInv
  <2>1. ASSUME NEW r \in Files PROVE PlayedAtMost(Claimed(r), begun[r], due[r])'
    <3>1. CASE s # r
      <4>1. accepted'[r] = accepted[r] /\ due'[r] = due[r]
        BY <1>1, <1>d, <3>1, <1>t, AcceptIs
      <4> QED BY <1>0, <2>0, <4>1
    <3>2. CASE s = r
      <4>1. /\ now >= due[r] /\ due'[r] = due[r] + 1
            /\ accepted'[r] = Append(accepted[r], Len(accepted[r]) + 1)
        BY <1>1, <3>2, <1>t, AcceptIs DEF Devices
      <4>2. accepted[r] \in Seq(Nat) /\ Len(accepted[r]) \in Nat
        BY <1>d, StreamTypes
      <4>3. Len(accepted'[r]) = Len(accepted[r]) + 1
        BY <4>1, <4>2, AppendProperties
      <4>4. begun[r] \in Nat
        BY <1>d, <1>t
      <4>5. Claimed(r)' = Claimed(r) + 1
        <5>1. ASSUME NEW n \in Nat, NEW m \in Nat, NEW b \in Nat
              PROVE  (n + 1) + m + b = n + m + b + 1
          OBVIOUS
        <5> QED BY <1>t, <2>0, <4>2, <4>3, <4>4, <5>1 DEF Claimed
      <4> DEFINE c == Claimed(r)
                 b == begun[r]
                 d == due[r]
      <4>6. c \in Nat /\ d \in Nat /\ PlayedAtMost(c, b, d)
        BY <1>h, <2>0
      <4>7. now >= d
        BY <4>1
      <4> HIDE DEF c, b, d
      <4>8. /\ d + 1 <= now + 1 /\ b <= now /\ c + 1 <= now + 1 + pauses
            /\ c + 1 <= d + 1 + pauses
            /\ paused => c + 1 + 1 <= d + 1 + pauses
        BY <1>t, <2>0, <4>6, <4>7 DEF PlayedAtMost
      <4>9. begun'[r] = b /\ due'[r] = d + 1 /\ Claimed(r)' = c + 1
        BY <2>0, <4>1, <4>5 DEF b, c, d
      <4> QED BY <2>0, <4>8, <4>9 DEF PlayedAtMost
    <3> QED BY <3>1, <3>2
  <2> QED BY <2>0, <2>1 DEF PlayedInv
<1>2. CASE PauseRound
  <2>1. /\ loop = "running" /\ ~stopping /\ paused /\ wasPaused' /\ drainedNow'
        /\ UNCHANGED <<now, loop, stopping, paused, pauses, accepted, held, begun>>
    BY <1>2 DEF PauseRound, AtTop
  <2>2. ASSUME NEW r \in Files PROVE PlayedAtMost(Claimed(r), begun[r], due[r])'
    <3>1. due'[r] = now + 1 /\ begun'[r] = begun[r] /\ Claimed(r)' = Claimed(r)
      BY <1>2, <1>d, <2>1 DEF PauseRound, Claimed
    <3> DEFINE c == Claimed(r)
               b == begun[r]
               d == due[r]
    <3>2. c \in Nat /\ b \in Nat /\ d \in Nat /\ PlayedAtMost(c, b, d)
      BY <1>h
    <3> HIDE DEF c, b, d
    <3>3. b <= now /\ c <= now + 1 + pauses /\ c + 1 <= now + 1 + pauses
      BY <1>t, <2>1, <3>2 DEF PlayedAtMost
    <3>4. due'[r] = now + 1 /\ begun'[r] = b /\ Claimed(r)' = c
      BY <3>1 DEF b, c
    <3> QED BY <1>t, <2>1, <3>3, <3>4 DEF PlayedAtMost
  <2> QED BY <2>1, <2>2 DEF PlayedInv
<1>3. CASE Tick
  <2>1. /\ now' = now + 1 /\ ~drainedNow'
        /\ AtTop /\ paused /\ ~stopping => drainedNow
        /\ held' = IF loop = "running" /\ paused /\ wasPaused THEN held + 1 ELSE held
        /\ UNCHANGED <<loop, stopping, paused, wasPaused, pauses, accepted, begun, due>>
    BY <1>3 DEF Tick
  <2>2. wasPaused => loop # "building" /\ (loop = "running" => AtTop)
    BY <2>1 DEF BuildInv, UpcomingInv, UnheardInv, AtTop
  <2>3. ASSUME NEW r \in Files PROVE PlayedAtMost(Claimed(r), begun[r], due[r])'
    <3> DEFINE c == Claimed(r)
               b == begun[r]
               d == due[r]
    <3>1. c \in Nat /\ b \in Nat /\ d \in Nat /\ PlayedAtMost(c, b, d)
      BY <1>h, <2>1
    <3>2. Claimed(r)' = IF loop = "running" /\ paused /\ wasPaused THEN c + 1 ELSE c
      <4>1. Len(accepted[r]) \in Nat /\ begun[r] \in Nat /\ accepted' = accepted /\ begun' = begun
        BY <1>d, <2>1, StreamTypes
      <4>2. ASSUME NEW n \in Nat, NEW m \in Nat, NEW bb \in Nat
            PROVE  n + (m + 1) + bb = n + m + bb + 1
        OBVIOUS
      <4>3. CASE loop = "running" /\ paused /\ wasPaused
        <5>1. held' = held + 1
          BY <2>1, <4>3
        <5>2. Len(accepted[r]) + (held + 1) + begun[r] = Len(accepted[r]) + held + begun[r] + 1
          <6>1. Len(accepted[r]) \in Nat /\ begun[r] \in Nat /\ held \in Nat
            BY <1>t, <4>1
          <6> QED BY ONLY <6>1, <4>2, Zenon
        <5> QED BY <4>1, <4>3, <5>1, <5>2, Zenon DEF Claimed
      <4>4. CASE ~(loop = "running" /\ paused /\ wasPaused)
        BY <2>1, <4>1, <4>4, Zenon DEF Claimed
      <4> QED BY <4>3, <4>4
    <3>3. due'[r] = d /\ begun'[r] = b
      BY <2>1
    <3> HIDE DEF c, b, d
    <3>4. CASE loop = "running" /\ paused /\ wasPaused
      <4>1. /\ d <= now + 1 + 1 /\ b <= now + 1 /\ c + 1 <= now + 1 + 1 + pauses
        BY <1>t, <3>1 DEF PlayedAtMost
      <4>2. ~stopping => d <= now + 1 /\ c + 1 <= d + pauses
        BY <1>t, <2>1, <2>2, <3>1, <3>4 DEF PlayedAtMost
      <4>3. Claimed(r)' = c + 1
        BY <3>2, <3>4
      <4> QED BY <2>1, <3>3, <3>4, <4>1, <4>2, <4>3 DEF PlayedAtMost
    <3>5. CASE ~(loop = "running" /\ paused /\ wasPaused)
      <4>1. /\ d <= now + 1 + 1 /\ b <= now + 1 /\ c <= now + 1 + 1 + pauses
        BY <1>t, <3>1 DEF PlayedAtMost
      <4>2. Claimed(r)' = c
        BY <3>2, <3>5
      <4>3. loop \in {"building", "running"} /\ ~(wasPaused /\ stopping) =>
              /\ c <= d + pauses
              /\ ~wasPaused /\ paused => c + 1 <= d + pauses
              /\ wasPaused => d <= now + 1
        BY <1>t, <3>1 DEF PlayedAtMost
      <4> QED BY <2>1, <3>3, <4>1, <4>2, <4>3 DEF PlayedAtMost
    <3> QED BY <3>4, <3>5
  <2> QED BY <2>1, <2>3 DEF PlayedInv
<1>4. ASSUME NEW s \in Streams, Build(s) PROVE PlayedInv'
  <2>0. /\ loop = "building"
        /\ UNCHANGED <<now, loop, held, accepted, stopping, paused, wasPaused, drainedNow, pauses>>
    BY <1>4 DEF Build, Building
  <2>1. held = 0 /\ ~wasPaused
    BY <2>0 DEF BuildInv, UpcomingInv
  <2>2. ASSUME NEW r \in Files PROVE PlayedAtMost(Claimed(r), begun[r], due[r])'
    <3>1. CASE s # r
      <4>1. begun'[r] = begun[r] /\ due'[r] = due[r]
        BY <1>4, <1>d, <3>1, <1>t DEF Build
      <4> QED BY <1>0, <2>0, <4>1
    <3>2. CASE s = r
      <4>1. offset + 1 \in 1..Len(Order) /\ offset + 1 > offset /\ s = Order[offset + 1]
        BY <1>4, <1>t, OrderType DEF Build, Building, Upcoming
      <4>2. accepted[r] = <<>>
        BY <2>0, <3>2, <4>1 DEF BuildInv, UpcomingInv, Untouched, WorkersInv
      <4>3. begun'[r] = now /\ due'[r] = now
        BY <1>4, <1>d, <3>2, <1>t DEF Build
      <4>4. Len(accepted'[r]) = 0 /\ held' = 0
        BY <2>0, <2>1, <4>2
      <4>5. Claimed(r)' = now
        BY <1>t, <4>3, <4>4 DEF Claimed
      <4>6. paused => pauses > 0
        BY <2>0 DEF PlayedInv
      <4>7. now <= now + 1 /\ now <= now + 1 + pauses /\ now <= now + pauses
        BY <1>t
      <4>8. paused => now + 1 <= now + pauses
        BY <1>t, <4>6
      <4>9. ASSUME NEW c, NEW b, NEW d, c = now, b = now, d = now PROVE PlayedAtMost(c, b, d)
        BY <1>t, <2>1, <4>7, <4>8, <4>9 DEF PlayedAtMost
      <4>10. PlayedAtMost(now, now, now)
        BY <4>9
      <4> QED BY <2>0, <4>3, <4>5, <4>10 DEF PlayedAtMost
    <3> QED BY <3>1, <3>2
  <2> QED BY <2>0, <2>2 DEF PlayedInv
<1>5. ASSUME NEW s \in Streams,
             \/ NoChunk(s) \/ TellDevice(s) \/ CloseStream(s) \/ DeviceStops(s)
             \/ DeviceFails(s) \/ BuildFails(s) \/ Deliver(s)
      PROVE  PlayedInv'
  <2>1. /\ loop' = loop \/ loop = "building"
        /\ UNCHANGED <<now, held, accepted, begun, due, stopping, paused, wasPaused,
                       drainedNow, pauses>>
    BY <1>5, Zenon DEF NoChunk, TellDevice, CloseStream, DeviceStops, DeviceFails,
         BuildFails, Building, Deliver
  <2>2. ASSUME NEW r \in Files PROVE PlayedAtMost(Claimed(r), begun[r], due[r])'
    BY <1>0, <2>1
  <2> QED BY <2>1, <2>2 DEF PlayedInv
<1>6. CASE Built \/ Break \/ StartRound \/ LoopEnds \/ SetPaused \/ Stop
  <2>1. UNCHANGED <<accepted, held, begun, due>>
    BY <1>6 DEF Built, Break, StartRound, LoopEnds, SetPaused, Stop
  <2>2. \/ Break \/ StartRound \/ SetPaused \/ Stop
        \/ UNCHANGED <<now, stopping, paused, wasPaused, drainedNow, pauses>>
           /\ (loop' \in {"building", "running"} => loop \in {"building", "running"})
    BY <1>6 DEF Built, LoopEnds
  <2>3. paused' => pauses' > 0
    <3>1. CASE SetPaused
      <4>1. (paused' => ~paused) /\ pauses' = IF paused THEN pauses ELSE pauses + 1
        BY <3>1 DEF SetPaused
      <4> QED BY <1>t, <4>1
    <3>2. CASE UNCHANGED <<paused, pauses>>
      BY <2>1, <3>2 DEF PlayedInv
    <3> QED BY <1>6, <3>1, <3>2 DEF Built, Break, StartRound, LoopEnds, Stop
  <2>4. ASSUME NEW r \in Files PROVE PlayedAtMost(Claimed(r), begun[r], due[r])'
    BY <1>0, <2>1, <2>2
  <2> QED BY <2>3, <2>4 DEF PlayedInv
<1> QED
  BY <1>1, <1>2, <1>3, <1>4, <1>5, <1>6 DEF CaptureNext, LoopStep, Around
--------------------------------------------------------------------------------
HIDE DEF captureVars, loopVars, pauseVars, deviceVars, inputVars

\* What holds of the devices, the loop and the streams; and what the disk needs of it,
\* which is there still when the process has ended.
BuiltInv == CaptureTypeInv /\ BuildInv
CaptureInv == CaptureTypeInv /\ BuildInv /\ QueueInv /\ UnheardInv /\ PlayedInv

LEMMA NothingAccepted ==
  ASSUME NEW s \in Streams
  PROVE  s \notin Range(<<>>) /\ Len(<<>>) = 0 /\ Cardinality({}) = 0
BY FS_EmptySet DEF Range

LEMMA InitCapture ==
  ASSUME CaptureInit
  PROVE  CaptureInv
<1>1. CaptureTypeInv
  BY InitCaptureType
<1>o. Len(Order) \in Nat /\ \A i \in 1..Len(Order) : Order[i] \in Streams
  BY OrderType, ElementOfSeq
<1>f. Cardinality({}) = 0 /\ Len(<<>>) = 0
  BY FS_EmptySet
<1>2. BuildInv
  <2>1. \A s \in Streams : Untouched(s)
    BY NothingAccepted DEF CaptureInit, Untouched
  <2>2. UpcomingInv
    BY <1>o, <2>1 DEF CaptureInit, UpcomingInv
  <2>3. RoundInv
    BY DEF CaptureInit, RoundInv
  <2>4. WorkersInv
    BY CaptureAssumption DEF CaptureInit, WorkersInv
  <2> QED BY <2>2, <2>3, <2>4 DEF BuildInv
<1>3. QueueInv
  <2> SUFFICES ASSUME NEW s \in Devices PROVE ChunksInv(s)
    BY DEF QueueInv
  <2>1. /\ accepted[s] = <<>> /\ queue[s] = <<>> /\ delivered[s] = 0 /\ begun[s] = 0
        /\ dropped[s] = {} /\ unwanted[s] = {} /\ overruns[s] = 0
    BY DEF Devices, CaptureInit
  <2> QED BY <1>f, <2>1 DEF ChunksInv, Increasing
<1>4. UnheardInv
  <2>1. ASSUME NEW s \in Devices PROVE Unheard(s)
    <3>1. accepted[s] = <<>> /\ queue[s] = <<>>
      BY DEF Devices, CaptureInit
    <3> QED BY <1>f, <3>1 DEF Unheard
  <2> QED BY <2>1 DEF CaptureInit, UnheardInv
<1>5. PlayedInv
  <2>1. ASSUME NEW s \in Files PROVE Claimed(s) = 0 /\ begun[s] = 0 /\ due[s] = 0
    <3>1. s \in Streams
      BY CaptureAssumption
    <3> QED BY <3>1 DEF CaptureInit, Claimed
  <2> QED BY <2>1 DEF CaptureInit, PlayedInv, PlayedAtMost
<1> QED BY <1>1, <1>2, <1>3, <1>4, <1>5 DEF CaptureInv

LEMMA StepCapture ==
  ASSUME CaptureInv, CaptureNext
  PROVE  CaptureInv'
<1>1. BuildInv'
  BY StepUpcoming, StepRound, StepWorkers DEF CaptureInv, BuildInv
<1> QED
  BY <1>1, StepCaptureType, StepQueue, StepUnheard, StepPlayed DEF CaptureInv

LEMMA UnchangedBuilt ==
  ASSUME BuiltInv, UNCHANGED captureVars
  PROVE  BuiltInv'
<1>1. CaptureTypeInv'
  BY Unchanged DEF BuiltInv
<1>u. /\ UNCHANGED <<now, loop, offset, cursor, workers, stopping, paused, wasPaused>>
      /\ UNCHANGED <<drainedNow, pauses, held, unwanted, device, begun, delivered>>
      /\ UNCHANGED <<overruns, queue, dropped, accepted, due, done>>
  BY DEF captureVars, loopVars, pauseVars, deviceVars, inputVars
<1>2. BuildInv'
  <2>1. ASSUME NEW s \in Streams, Untouched(s) PROVE Untouched(s)'
    BY <1>u, <2>1 DEF Untouched
  <2>2. UpcomingInv'
    <3>1. \A i \in 1..Len(Order) : Order[i] \in Streams
      BY OrderType, ElementOfSeq
    <3> QED BY <1>u, <2>1, <3>1 DEF BuiltInv, BuildInv, UpcomingInv
  <2>3. RoundInv' /\ WorkersInv'
    BY <1>u, Zenon DEF BuiltInv, BuildInv, RoundInv, WorkersInv
  <2> QED BY <2>2, <2>3 DEF BuildInv
<1> QED BY <1>1, <1>2 DEF BuiltInv

LEMMA UnchangedCapture ==
  ASSUME CaptureInv, UNCHANGED captureVars
  PROVE  CaptureInv'
<1>1. CaptureTypeInv' /\ BuildInv'
  BY UnchangedBuilt DEF CaptureInv, BuiltInv
<1>u. /\ UNCHANGED <<now, loop, offset, cursor, workers, stopping, paused, wasPaused>>
      /\ UNCHANGED <<drainedNow, pauses, held, unwanted, device, begun, delivered>>
      /\ UNCHANGED <<overruns, queue, dropped, accepted, due, done>>
  BY DEF captureVars, loopVars, pauseVars, deviceVars, inputVars
<1>3. QueueInv'
  <2>1. ASSUME NEW s \in Devices, ChunksInv(s) PROVE ChunksInv(s)'
    BY <1>u, <2>1 DEF ChunksInv
  <2> QED BY <1>u, <2>1 DEF CaptureInv, QueueInv
<1>4. UnheardInv'
  <2>1. ASSUME NEW s \in Devices, Unheard(s) PROVE Unheard(s)'
    BY <1>u, <2>1 DEF Unheard
  <2> QED BY <1>u, <2>1 DEF CaptureInv, UnheardInv
<1>5. PlayedInv'
  <2>1. ASSUME NEW s \in Files, PlayedAtMost(Claimed(s), begun[s], due[s])
        PROVE  PlayedAtMost(Claimed(s), begun[s], due[s])'
    BY <1>u, <2>1 DEF PlayedAtMost, Claimed
  <2> QED BY <1>u, <2>1 DEF CaptureInv, PlayedInv
<1> QED BY <1>1, <1>3, <1>4, <1>5 DEF CaptureInv

LEMMA CaptureInvImplies ==
  ASSUME CaptureInv
  PROVE  ChunksAreAccountedFor /\ PausesStayUnheard
<1>1. ChunksAreAccountedFor
  BY DEF CaptureInv, QueueInv, ChunksInv, Increasing, ChunksAreAccountedFor
<1>2. PausesStayUnheard
  <2>1. ASSUME NEW s \in Devices
        PROVE  \A i \in 1..Len(accepted[s]) : accepted[s][i] \notin unwanted[s]
    BY <2>1 DEF CaptureInv, UnheardInv, Unheard
  <2>2. ASSUME NEW s \in Files
        PROVE  Len(accepted[s]) + held <= (now - begun[s]) + 1 + pauses
    <3>0. s \in Streams
      BY CaptureAssumption
    <3>1. Claimed(s) <= now + 1 + pauses
      BY <2>2 DEF CaptureInv, PlayedInv, PlayedAtMost
    <3>2. /\ Len(accepted[s]) \in Nat /\ begun[s] \in Nat
          /\ now \in Nat /\ pauses \in Nat /\ held \in Nat
      BY <3>0, StreamTypes, PlayedTypes DEF CaptureInv
    <3> QED BY <3>1, <3>2 DEF Claimed
  <2> QED BY <2>1, <2>2 DEF PausesStayUnheard
<1> QED BY <1>1, <1>2

\* What a device delivered was accepted once, in its order, or is in the queue, or was
\* discarded in a pause, or is counted as an overrun (CaptureTx::try_push, tick,
\* drain_paused): for any streams, queues and lengths of time.
THEOREM ChunksAccountedFor == CaptureSpec => []ChunksAreAccountedFor
<1>1. CaptureInit => CaptureInv
  BY InitCapture
<1>2. CaptureInv /\ [CaptureNext]_captureVars => CaptureInv'
  BY StepCapture, UnchangedCapture
<1>3. CaptureInv => ChunksAreAccountedFor
  BY CaptureInvImplies
<1> QED BY <1>1, <1>2, <1>3, PTL DEF CaptureSpec

\* What waited in a queue when the paused loop drained it is not heard when the pause is
\* over, and a file does not catch up with it (run_loop, drain_paused).
THEOREM PausesUnheard == CaptureSpec => []PausesStayUnheard
<1>1. CaptureInit => CaptureInv
  BY InitCapture
<1>2. CaptureInv /\ [CaptureNext]_captureVars => CaptureInv'
  BY StepCapture, UnchangedCapture
<1>3. CaptureInv => PausesStayUnheard
  BY CaptureInvImplies
<1> QED BY <1>1, <1>2, <1>3, PTL DEF CaptureSpec

LEMMA HaltCapture ==
  ASSUME BuiltInv, Halt
  PROVE  BuiltInv'
<1>1. CaptureTypeInv'
  <2>1. /\ queue' = [s \in Streams |-> <<>>] /\ workers' = workers /\ accepted' = accepted
        /\ dropped' = [s \in Streams |-> {}] /\ loop' = "ended"
    BY DEF Halt
  <2>2. queue' \in [Streams -> Seq(Nat)]
    <3>1. <<>> \in Seq(Nat)
      OBVIOUS
    <3> QED BY <2>1, <3>1
  <2>3. \A s \in Streams : IsFiniteSet(dropped'[s])
    BY <2>1, FS_EmptySet
  <2>4. workers \in Seq(Streams) /\ accepted \in [Streams -> Seq(Nat)]
    BY DEF BuiltInv, CaptureTypeInv
  <2>5. /\ device' \in [Streams -> {"off", "on", "told"}]
        /\ begun' \in [Streams -> Nat] /\ delivered' \in [Streams -> Nat]
        /\ overruns' \in [Streams -> Nat] /\ due' \in [Streams -> Nat]
        /\ dropped' \in [Streams -> SUBSET Nat] /\ unwanted' \in [Streams -> SUBSET Nat]
        /\ done' \in [Streams -> BOOLEAN]
    BY DEF Halt
  <2>6. /\ now' \in Nat /\ offset' \in Nat /\ stopping' \in BOOLEAN /\ paused' \in BOOLEAN
        /\ wasPaused' \in BOOLEAN /\ drainedNow' \in BOOLEAN /\ pauses' \in Nat /\ held' \in Nat
    BY DEF Halt
  <2> QED BY <2>1, <2>2, <2>3, <2>4, <2>5, <2>6 DEF CaptureTypeInv
<1>2. BuildInv'
  <2>1. WorkersInv'
    BY CaptureAssumption DEF BuiltInv, BuildInv, WorkersInv, Halt
  <2>2. UpcomingInv' /\ RoundInv'
    BY DEF UpcomingInv, RoundInv, Halt
  <2> QED BY <2>1, <2>2 DEF BuildInv
<1> QED BY <1>1, <1>2 DEF BuiltInv

LEMMA StepBuilt ==
  ASSUME BuiltInv, CaptureNext
  PROVE  BuiltInv'
BY StepCaptureType, StepUpcoming, StepRound, StepWorkers DEF BuiltInv, BuildInv

\* Every step of Recordings is one of these three to Capture.
LEMMA NextIsCaptureStep ==
  ASSUME Next
  PROVE  CaptureNext \/ Halt \/ UNCHANGED captureVars
<1>1. CASE Loop
  BY <1>1, Zenon DEF Loop, BuildStream, BuildStreamFails, Accept, CloseAndFinish,
       CaptureNext
<1>2. CASE up /\ Around /\ UNCHANGED recordVars
  BY <1>2 DEF CaptureNext
<1>3. CASE MasterStarts \/ MasterGrows \/ MasterEnds \/ MasterFails \/ Restart
             \/ (\E s \in Streams : Write(s)) \/ \E n \in Names : CrashInRecovery(n)
  BY <1>3, Zenon DEF MasterStarts, MasterGrows, MasterEnds, MasterFails, Restart, Write,
       CrashInRecovery
<1>4. CASE Crash \/ CrashInMaster \/ \E s \in Streams : CrashInWrite(s) \/ CrashInFinish(s)
  BY <1>4, Zenon DEF Crash, CrashInMaster, CrashInWrite, CrashInFinish
<1> QED BY <1>1, <1>2, <1>3, <1>4, Zenon DEF Next

LEMMA NextBuilt ==
  ASSUME BuiltInv, [Next]_vars
  PROVE  BuiltInv'
BY NextIsCaptureStep, StepBuilt, HaltCapture, UnchangedBuilt DEF vars

--------------------------------------------------------------------------------
\* The second part: the disk.
\* The names that a file may have, and what a file is.
NameSet == [dir : Dirs \cup {None}, stem : Streams \cup {"master"}, part : BOOLEAN]

HeaderSet == [wave : BOOLEAN, channels : Nat, rate : Nat, length : Nat]

IsFile(f) ==
  /\ f = File(f.header, f.body)
  /\ f.header \in HeaderSet /\ f.body \in Seq(Range(f.body))

Disk(fs) ==
  /\ IsFiniteSet(DOMAIN fs) /\ DOMAIN fs \subseteq NameSet
  /\ fs = [n \in DOMAIN fs |-> fs[n]]
  /\ \A n \in DOMAIN fs : IsFile(fs[n])

LEMMA NamesDiffer ==
  ASSUME NEW d, NEW e, NEW s, NEW t
  PROVE  /\ Part(d, s).part /\ ~Final(d, s).part /\ Part(d, s).dir = d /\ Final(d, s).dir = d
         /\ Part(d, s).stem = s /\ Final(d, s).stem = s
         /\ Part(d, s) # Final(e, t)
         /\ Part(d, s) = Part(e, t) => d = e /\ s = t
         /\ Final(d, s) = Final(e, t) => d = e /\ s = t
BY DEF Part, Final

LEMMA NameIs ==
  ASSUME NEW n \in NameSet
  PROVE  /\ n.part => n = Part(n.dir, n.stem)
         /\ ~n.part => n = Final(n.dir, n.stem)
         /\ Part(n.dir, n.stem) \in NameSet /\ Final(n.dir, n.stem) \in NameSet
BY DEF NameSet, Part, Final

LEMMA NamesOfSession ==
  ASSUME NEW d \in Dirs \cup {None}, NEW s \in Streams \cup {"master"}
  PROVE  Part(d, s) \in NameSet /\ Final(d, s) \in NameSet
BY DEF NameSet, Part, Final

LEMMA FileIs ==
  ASSUME NEW h \in HeaderSet, NEW b, b \in Seq(Range(b))
  PROVE  IsFile(File(h, b)) /\ File(h, b).header = h /\ File(h, b).body = b
BY DEF IsFile, File

\* A file is put under a name.
LEMMA PutIs ==
  ASSUME NEW fs, Disk(fs), NEW name \in NameSet, NEW file, IsFile(file),
         NEW gs, gs = Put(fs, name, file)
  PROVE  /\ Disk(gs) /\ gs[name] = file
         /\ \A n : n \in DOMAIN gs <=> n \in DOMAIN fs \/ n = name
         /\ \A n \in DOMAIN fs : n # name => gs[n] = fs[n]
<1>1. /\ DOMAIN gs = DOMAIN fs \cup {name} /\ gs[name] = file
      /\ gs = [n \in DOMAIN gs |-> gs[n]]
      /\ \A n \in DOMAIN fs : n # name => gs[n] = fs[n]
  BY DEF Put
<1>2. IsFiniteSet(DOMAIN gs)
  BY <1>1, FS_AddElement DEF Disk
<1>3. Disk(gs)
  BY <1>1, <1>2 DEF Disk
<1> QED BY <1>1, <1>3

LEMMA UnlinkIs ==
  ASSUME NEW fs, Disk(fs), NEW name, NEW gs, gs = Unlink(fs, name)
  PROVE  /\ Disk(gs)
         /\ \A n : n \in DOMAIN gs <=> n \in DOMAIN fs /\ n # name
         /\ \A n \in DOMAIN gs : gs[n] = fs[n]
<1>1. /\ DOMAIN gs = DOMAIN fs \ {name} /\ gs = [n \in DOMAIN gs |-> gs[n]]
      /\ \A n \in DOMAIN gs : gs[n] = fs[n]
  BY DEF Unlink
<1>2. IsFiniteSet(DOMAIN gs)
  BY <1>1, FS_Subset DEF Disk
<1>3. Disk(gs)
  BY <1>1, <1>2 DEF Disk
<1> QED BY <1>1, <1>3

\* What the stages of a patch, and a recovery, make of a header.
LEMMA PatchIs ==
  ASSUME NEW h \in HeaderSet, NEW new \in HeaderSet, new.wave, NEW i \in 2..5
  PROVE  /\ Patches(h, new)[i] \in HeaderSet /\ Patches(h, new)[i].wave
         /\ Patches(h, new)[i].channels \in {h.channels, new.channels}
         /\ Patches(h, new)[5] = new
<1> DEFINE p2 == [h EXCEPT !.wave = TRUE]
           p3 == [h EXCEPT !.wave = TRUE, !.channels = new.channels]
           p4 == [new EXCEPT !.length = h.length]
<1>1. /\ p2 \in HeaderSet /\ p2.wave /\ p2.channels = h.channels
      /\ p3 \in HeaderSet /\ p3.wave /\ p3.channels = new.channels
      /\ p4 \in HeaderSet /\ p4.wave /\ p4.channels = new.channels
  BY DEF HeaderSet
<1>2. Patches(h, new) = <<h, p2, p3, p4, new>>
  BY DEF Patches
<1> HIDE DEF p2, p3, p4
<1>3. i = 2 \/ i = 3 \/ i = 4 \/ i = 5
  OBVIOUS
<1> QED BY <1>1, <1>2, <1>3

LEMMA HeaderIs ==
  ASSUME NEW c \in Nat, NEW l \in Nat
  PROVE  /\ Header(c, l) \in HeaderSet /\ Header(c, l).wave
         /\ Header(c, l).channels = c /\ Header(c, l).length = l
BY RecordingsAssumption DEF Header, HeaderSet

LEMMA ZerosIs == Zeros \in HeaderSet /\ Zeros.channels = 0
BY DEF Zeros, HeaderSet

LEMMA RescuedIs ==
  ASSUME NEW f, IsFile(f)
  PROVE  /\ Rescued(f) \in HeaderSet /\ Rescued(f).wave /\ Rescued(f).length = Len(f.body)
         /\ Rescued(f).channels = IF f.header.wave THEN Longer(f.header.channels, 1) ELSE 1
<1>1. Len(f.body) \in Nat /\ f.header \in HeaderSet
  BY LenProperties DEF IsFile
<1>2. CASE f.header.wave
  <2>1. Rescued(f) = [f.header EXCEPT !.channels = Longer(@, 1), !.rate = Longer(@, 1),
                                      !.length = Len(f.body)]
    BY <1>2 DEF Rescued
  <2>2. Longer(f.header.channels, 1) \in Nat /\ Longer(f.header.rate, 1) \in Nat
    BY <1>1 DEF HeaderSet, Longer
  <2> QED BY <1>1, <1>2, <2>1, <2>2 DEF HeaderSet
<1>3. CASE ~f.header.wave
  BY <1>1, <1>3, HeaderIs DEF Rescued
<1> QED BY <1>2, <1>3

\* A file is written, at its header or behind its end.
WithHeader(fs, name, l) == [fs EXCEPT ![name].header = l]
WithChunk(fs, name, c) == [fs EXCEPT ![name].body = Append(@, c)]

LEMMA WithHeaderIs ==
  ASSUME NEW fs, Disk(fs), NEW name \in DOMAIN fs, NEW l \in HeaderSet,
         NEW gs, gs = WithHeader(fs, name, l)
  PROVE  /\ Disk(gs) /\ DOMAIN gs = DOMAIN fs
         /\ gs[name] = File(l, fs[name].body)
         /\ \A n \in DOMAIN fs : n # name => gs[n] = fs[n]
<1>1. fs[name] = File(fs[name].header, fs[name].body) /\ fs[name].body \in Seq(Range(fs[name].body))
  BY DEF Disk, IsFile
<1>2. /\ DOMAIN gs = DOMAIN fs /\ gs = [n \in DOMAIN gs |-> gs[n]]
      /\ gs[name] = [fs[name] EXCEPT !.header = l]
      /\ \A n \in DOMAIN fs : n # name => gs[n] = fs[n]
  BY DEF Disk, WithHeader
<1>3. gs[name] = File(l, fs[name].body)
  BY <1>1, <1>2 DEF File
<1>4. IsFile(gs[name])
  BY <1>1, <1>3, FileIs
<1> QED BY <1>2, <1>3, <1>4 DEF Disk

LEMMA WithChunkIs ==
  ASSUME NEW fs, Disk(fs), NEW name \in DOMAIN fs, NEW c,
         NEW gs, gs = WithChunk(fs, name, c)
  PROVE  /\ Disk(gs) /\ DOMAIN gs = DOMAIN fs
         /\ gs[name] = File(fs[name].header, Append(fs[name].body, c))
         /\ \A n \in DOMAIN fs : n # name => gs[n] = fs[n]
<1> DEFINE b == fs[name].body
<1>1. fs[name] = File(fs[name].header, fs[name].body) /\ b \in Seq(Range(b))
      /\ fs[name].header \in HeaderSet
  BY DEF Disk, IsFile
<1>2. /\ DOMAIN gs = DOMAIN fs /\ gs = [n \in DOMAIN gs |-> gs[n]]
      /\ gs[name] = [fs[name] EXCEPT !.body = Append(@, c)]
      /\ \A n \in DOMAIN fs : n # name => gs[n] = fs[n]
  BY DEF Disk, WithChunk
<1>3. gs[name] = File(fs[name].header, Append(fs[name].body, c))
  BY <1>1, <1>2 DEF File
<1>4. Append(b, c) \in Seq(Range(Append(b, c)))
  <2> DEFINE q == Append(b, c)
  <2> HIDE DEF b
  <2>1. b \in Seq(Range(b) \cup {c})
    BY <1>1, SeqDef
  <2>2. q \in Seq(Range(b) \cup {c}) 
    BY <2>1, AppendProperties
  <2> HIDE DEF q
  <2>3. q = [i \in 1..Len(q) |-> q[i]] /\ Len(q) \in Nat
    BY <2>2, LenProperties
  <2>4. q \in [1..Len(q) -> Range(q)]
    BY <2>3 DEF Range
  <2>5. q \in Seq(Range(q))
    BY <2>3, <2>4, SeqDef
  <2> QED BY <2>5 DEF q
<1>5. IsFile(gs[name])
  BY <1>1, <1>3, <1>4, FileIs
<1> QED BY <1>2, <1>3, <1>5 DEF Disk

LEMMA RenameIs ==
  ASSUME NEW fs, Disk(fs), NEW name \in DOMAIN fs, name.part,
         NEW final, final = Final(name.dir, name.stem),
         NEW gs, gs = Rename(fs, name)
  PROVE  /\ Disk(gs) /\ gs[final] = fs[name]
         /\ \A n : n \in DOMAIN gs <=> (n \in DOMAIN fs /\ n # name) \/ n = final
         /\ \A n \in DOMAIN fs : n # name /\ n # final => gs[n] = fs[n]
<1> DEFINE longer == Put(fs, final, fs[name])
<1>1. name \in NameSet /\ final \in NameSet /\ IsFile(fs[name]) /\ final # name
  BY NameIs, NamesDiffer DEF Disk
<1>2. gs = Unlink(longer, name)
  BY DEF Rename
<1>3. /\ Disk(longer) /\ longer[final] = fs[name]
      /\ \A n : n \in DOMAIN longer <=> n \in DOMAIN fs \/ n = final
      /\ \A n \in DOMAIN fs : n # final => longer[n] = fs[n]
  <2>1. longer = Put(fs, final, fs[name])
    OBVIOUS
  <2> HIDE DEF longer
  <2> QED BY <1>1, <2>1, PutIs
<1> HIDE DEF longer
<1>4. /\ Disk(gs) /\ \A n : n \in DOMAIN gs <=> n \in DOMAIN longer /\ n # name
      /\ \A n \in DOMAIN gs : gs[n] = longer[n]
  BY <1>2, <1>3, UnlinkIs
<1> QED BY <1>1, <1>3, <1>4

\* What a finish leaves on the disk, at whatever stage it ends.
LEMMA StagesAre ==
  ASSUME NEW fs, NEW name, NEW new, NEW gs
  PROVE  /\ Last(FinishStages(fs, name, new))
              = Rename(WithHeader(fs, name, Patches(fs[name].header, new)[5]), name)
         /\ gs \in Range(Front(FinishStages(fs, name, new)))
              => gs = fs \/ \E i \in 2..5 :
                              gs = WithHeader(fs, name, Patches(fs[name].header, new)[i])
         /\ gs \in Range(FinishStages(fs, name, new))
              => gs \in Range(Front(FinishStages(fs, name, new)))
                  \/ gs = Last(FinishStages(fs, name, new))
<1> DEFINE headed(i) == WithHeader(fs, name, Patches(fs[name].header, new)[i])
           renamed == Rename(headed(5), name)
<1>1. FinishStages(fs, name, new)
        = <<fs, headed(2), headed(3), headed(4), headed(5), renamed>>
  BY DEF FinishStages, WithHeader
<1> HIDE DEF headed, renamed
<1> DEFINE stages == <<fs, headed(2), headed(3), headed(4), headed(5), renamed>>
<1>2. /\ Last(stages) = renamed
      /\ Range(stages) = {fs, headed(2), headed(3), headed(4), headed(5), renamed}
      /\ Range(Front(stages)) = {fs, headed(2), headed(3), headed(4), headed(5)}
  BY DEF Last, Range, Front
<1>3. \A i \in 2..5 : i = 2 \/ i = 3 \/ i = 4 \/ i = 5
  OBVIOUS
<1> QED BY <1>1, <1>2, <1>3 DEF renamed, headed

LEMMA RangeOfStages ==
  ASSUME NEW fs, NEW name, NEW new, NEW gs,
         \/ gs = Last(FinishStages(fs, name, new))
         \/ gs \in Range(Front(FinishStages(fs, name, new)))
  PROVE  gs \in Range(FinishStages(fs, name, new))
<1> DEFINE patched(i) == [fs EXCEPT ![name].header = Patches(fs[name].header, new)[i]]
           renamed == Rename(patched(5), name)
<1>1. FinishStages(fs, name, new)
        = <<fs, patched(2), patched(3), patched(4), patched(5), renamed>>
  BY DEF FinishStages
<1> HIDE DEF patched, renamed
<1> QED BY <1>1 DEF Last, Range, Front

LEMMA FinishIs ==
  ASSUME NEW fs, Disk(fs), NEW name \in DOMAIN fs, name.part,
         NEW new \in HeaderSet, new.wave,
         NEW final, final = Final(name.dir, name.stem),
         NEW gs, gs = Last(FinishStages(fs, name, new))
  PROVE  /\ Disk(gs) /\ gs[final] = File(new, fs[name].body)
         /\ \A n : n \in DOMAIN gs <=> (n \in DOMAIN fs /\ n # name) \/ n = final
         /\ \A n \in DOMAIN fs : n # name /\ n # final => gs[n] = fs[n]
<1>0. fs[name].header \in HeaderSet
  BY DEF Disk, IsFile
<1> DEFINE headed == WithHeader(fs, name, new)
<1>1. gs = Rename(headed, name)
  <2>1. Last(FinishStages(fs, name, new))
          = Rename(WithHeader(fs, name, Patches(fs[name].header, new)[5]), name)
    BY ONLY StagesAre
  <2>2. Patches(fs[name].header, new)[5] = new
    BY <1>0, PatchIs
  <2> QED BY <2>1, <2>2
<1>2. headed = WithHeader(fs, name, new)
  OBVIOUS
<1> HIDE DEF headed
<1>3. /\ Disk(headed) /\ DOMAIN headed = DOMAIN fs
      /\ headed[name] = File(new, fs[name].body)
      /\ \A n \in DOMAIN fs : n # name => headed[n] = fs[n]
  BY <1>2, WithHeaderIs
<1>4. /\ Disk(gs) /\ gs[final] = headed[name]
      /\ \A n : n \in DOMAIN gs <=> (n \in DOMAIN headed /\ n # name) \/ n = final
      /\ \A n \in DOMAIN headed : n # name /\ n # final => gs[n] = headed[n]
  BY <1>1, <1>3, RenameIs
<1> QED BY <1>3, <1>4

LEMMA FinishFailsIs ==
  ASSUME NEW fs, Disk(fs), NEW name \in DOMAIN fs, NEW new \in HeaderSet, new.wave,
         NEW gs \in Range(Front(FinishStages(fs, name, new)))
  PROVE  /\ Disk(gs) /\ DOMAIN gs = DOMAIN fs /\ gs[name].body = fs[name].body
         /\ gs[name].header.channels \in {fs[name].header.channels, new.channels}
         /\ fs[name].header.wave => gs[name].header.wave
         /\ \A n \in DOMAIN fs : n # name => gs[n] = fs[n]
<1>0. fs[name].header \in HeaderSet
  BY DEF Disk, IsFile
<1>1. CASE gs = fs
  BY <1>1
<1>2. ASSUME NEW i \in 2..5, gs = WithHeader(fs, name, Patches(fs[name].header, new)[i])
      PROVE  /\ Disk(gs) /\ DOMAIN gs = DOMAIN fs /\ gs[name].body = fs[name].body
             /\ gs[name].header.channels \in {fs[name].header.channels, new.channels}
             /\ gs[name].header.wave
             /\ \A n \in DOMAIN fs : n # name => gs[n] = fs[n]
  <2>0. PICK l : l = Patches(fs[name].header, new)[i]
    OBVIOUS
  <2>1. l \in HeaderSet /\ l.wave /\ l.channels \in {fs[name].header.channels, new.channels}
    BY <1>0, <2>0, PatchIs
  <2>2. /\ Disk(gs) /\ DOMAIN gs = DOMAIN fs /\ gs[name] = File(l, fs[name].body)
        /\ \A n \in DOMAIN fs : n # name => gs[n] = fs[n]
    BY <1>2, <2>0, <2>1, WithHeaderIs
  <2>3. gs[name].body = fs[name].body /\ gs[name].header = l
    BY <2>2 DEF File
  <2> QED BY <2>1, <2>2, <2>3
<1>3. gs = fs \/ \E i \in 2..5 : gs = WithHeader(fs, name, Patches(fs[name].header, new)[i])
  BY StagesAre
<1> QED BY <1>1, <1>2, <1>3

\* What a start that recovers the files T makes of the disk.
Kept(fs, T) == {n \in T : fs[n].body # <<>>}

Recovered(fs, T) ==
  [n \in (DOMAIN fs \ T) \cup {Final(m.dir, m.stem) : m \in Kept(fs, T)} |->
     IF ~n.part /\ Part(n.dir, n.stem) \in Kept(fs, T)
     THEN LET file == fs[Part(n.dir, n.stem)] IN File(Rescued(file), file.body)
     ELSE fs[n]]

LEMMA LengthOfBody ==
  ASSUME NEW fs, Disk(fs), NEW n \in DOMAIN fs
  PROVE  /\ fs[n].body \in Seq(Range(fs[n].body)) /\ Len(fs[n].body) \in Nat
         /\ IsFile(fs[n]) /\ n \in NameSet
         /\ IsFile(File(Rescued(fs[n]), fs[n].body))
<1>1. fs[n].body \in Seq(Range(fs[n].body)) /\ IsFile(fs[n]) /\ n \in NameSet
  BY DEF Disk, IsFile
<1>2. Len(fs[n].body) \in Nat
  BY <1>1, LenProperties
<1>3. Rescued(fs[n]) \in HeaderSet
  BY <1>1, RescuedIs
<1> QED BY <1>1, <1>2, <1>3, FileIs

LEMMA RecoveredIs ==
  ASSUME NEW fs, Disk(fs), NEW T, T \subseteq {n \in DOMAIN fs : n.part},
         NEW gs, gs = Recovered(fs, T)
  PROVE  /\ Disk(gs)
         /\ \A n \in DOMAIN gs : n.part => n \in DOMAIN fs /\ n \notin T /\ gs[n] = fs[n]
         /\ \A n \in DOMAIN gs : ~n.part =>
              \/ n \in DOMAIN fs /\ gs[n] = fs[n]
              \/ /\ Part(n.dir, n.stem) \in Kept(fs, T)
                 /\ gs[n] = File(Rescued(fs[Part(n.dir, n.stem)]), fs[Part(n.dir, n.stem)].body)
<1> DEFINE finals == {Final(m.dir, m.stem) : m \in Kept(fs, T)}
<1>1. DOMAIN gs = (DOMAIN fs \ T) \cup finals /\ gs = [n \in DOMAIN gs |-> gs[n]]
  BY DEF Recovered
<1>2. \A m \in Kept(fs, T) : m \in DOMAIN fs /\ m.part /\ m \in T
  BY DEF Kept
<1>3. ASSUME NEW n \in finals
      PROVE  n \in NameSet /\ ~n.part /\ Part(n.dir, n.stem) \in Kept(fs, T)
  <2>1. PICK m \in Kept(fs, T) : n = Final(m.dir, m.stem)
    OBVIOUS
  <2>2. m \in NameSet /\ m = Part(m.dir, m.stem)
    BY <1>2, NameIs DEF Disk
  <2> QED BY <2>1, <2>2, NameIs, NamesDiffer
<1>4. ASSUME NEW n \in DOMAIN gs, n.part PROVE n \in DOMAIN fs \ T /\ gs[n] = fs[n]
  BY <1>1, <1>3, <1>4 DEF Recovered
<1>5. ASSUME NEW n \in DOMAIN gs, ~n.part
      PROVE  \/ n \in DOMAIN fs /\ gs[n] = fs[n]
             \/ /\ Part(n.dir, n.stem) \in Kept(fs, T)
                /\ gs[n] = File(Rescued(fs[Part(n.dir, n.stem)]), fs[Part(n.dir, n.stem)].body)
  BY <1>1, <1>3, <1>5 DEF Recovered
<1>6. IsFiniteSet(DOMAIN gs)
  <2>1. IsFiniteSet(DOMAIN fs) /\ Kept(fs, T) \subseteq DOMAIN fs
    BY <1>2 DEF Disk
  <2>2. IsFiniteSet(DOMAIN fs \ T) /\ IsFiniteSet(Kept(fs, T))
    BY <2>1, FS_Subset
  <2> DEFINE f == [m \in Kept(fs, T) |-> Final(m.dir, m.stem)]
  <2>3. f \in Surjection(Kept(fs, T), finals)
    BY DEF Surjection
  <2>4. IsFiniteSet(finals)
    <3> HIDE DEF f, finals
    <3> QED BY <2>2, <2>3, FS_Surjection DEF ExistsSurjection
  <2> DEFINE rest == DOMAIN fs \ T
  <2>5. IsFiniteSet(rest) /\ DOMAIN gs = rest \cup finals
    BY <1>1, <2>2
  <2> HIDE DEF finals, rest
  <2> QED BY <2>4, <2>5, FS_Union
<1>7. DOMAIN gs \subseteq NameSet
  BY <1>1, <1>3 DEF Disk
<1>8. ASSUME NEW n \in DOMAIN gs PROVE IsFile(gs[n])
  BY <1>2, <1>4, <1>5, LengthOfBody
<1> HIDE DEF finals
<1>9. Disk(gs)
  BY <1>1, <1>6, <1>7, <1>8 DEF Disk
<1> QED BY <1>1, <1>4, <1>5, <1>9 DEF finals

\* One file more is recovered.
LEMMA RecoverAnother ==
  ASSUME NEW fs, Disk(fs), NEW T, T \subseteq {n \in DOMAIN fs : n.part}, NEW x \in T
  PROVE  RecoverOne(Recovered(fs, T \ {x}), x) = Recovered(fs, T)
<1> DEFINE U == T \ {x}
           rs == Recovered(fs, U)
           gs == RecoverOne(rs, x)
           hs == Recovered(fs, T)
           b == fs[x].body
           h == Rescued(fs[x])
           final == Final(x.dir, x.stem)
<1>0. x \in DOMAIN fs /\ x.part /\ x = Part(x.dir, x.stem) /\ U \subseteq {n \in DOMAIN fs : n.part}
      /\ ~final.part /\ final.dir = x.dir /\ final.stem = x.stem
  BY LengthOfBody, NameIs, NamesDiffer
<1>1. Disk(rs) /\ DOMAIN rs = (DOMAIN fs \ U) \cup {Final(m.dir, m.stem) : m \in Kept(fs, U)}
  <2>1. DOMAIN rs = (DOMAIN fs \ U) \cup {Final(m.dir, m.stem) : m \in Kept(fs, U)}
    BY DEF Recovered
  <2>2. Disk(rs)
    <3> HIDE DEF U
    <3> QED BY <1>0, RecoveredIs
  <2> QED BY <2>1, <2>2
<1>2. Disk(hs) /\ DOMAIN hs = (DOMAIN fs \ T) \cup {Final(m.dir, m.stem) : m \in Kept(fs, T)}
  <2>1. DOMAIN hs = (DOMAIN fs \ T) \cup {Final(m.dir, m.stem) : m \in Kept(fs, T)}
    BY DEF Recovered
  <2>2. Disk(hs)
    BY RecoveredIs
  <2> QED BY <2>1, <2>2
<1>3. x \in DOMAIN rs /\ rs[x] = fs[x] /\ h \in HeaderSet /\ h.wave
  <2>1. x \in DOMAIN rs /\ rs[x] = fs[x]
    BY <1>0, <1>1 DEF Recovered
  <2> QED BY <1>0, <2>1, LengthOfBody, RescuedIs
<1>4. \A m \in Kept(fs, T) \ {x} : m \in Kept(fs, U) /\ Final(m.dir, m.stem) # x
  BY <1>0, NamesDiffer DEF Kept
<1>5. \A n \in DOMAIN fs \cup {Final(m.dir, m.stem) : m \in Kept(fs, T)} : n \in NameSet
  <2>1. \A m \in Kept(fs, T) : m \in NameSet
    BY <1>0, LengthOfBody DEF Kept
  <2> QED BY <2>1, NameIs, LengthOfBody
<1>6. CASE b = <<>>
  <2>1. gs = Unlink(rs, x)
    BY <1>3, <1>6 DEF RecoverOne
  <2>2. Kept(fs, T) = Kept(fs, U)
    BY <1>6 DEF Kept
  <2> DEFINE finals == {Final(m.dir, m.stem) : m \in Kept(fs, T)}
  <2>a. x \notin finals
    BY <1>4, <2>2 DEF Kept
  <2>b. /\ DOMAIN gs = DOMAIN rs \ {x} /\ DOMAIN rs = (DOMAIN fs \ (T \ {x})) \cup finals
        /\ DOMAIN hs = (DOMAIN fs \ T) \cup finals
    BY <1>1, <1>2, <2>1, <2>2 DEF Unlink
  <2>3. DOMAIN gs = DOMAIN hs
    <3> HIDE DEF finals, gs, hs, rs
    <3> QED BY <2>a, <2>b
  <2>4. \A n \in DOMAIN gs : gs[n] = hs[n]
    BY <2>1, <2>2, <2>3 DEF Unlink, Recovered
  <2>5. gs = [n \in DOMAIN gs |-> gs[n]] /\ hs = [n \in DOMAIN hs |-> hs[n]]
    BY <2>1 DEF Unlink, Recovered
  <2> HIDE DEF gs, hs
  <2>6. gs = hs
    BY <2>3, <2>4, <2>5
  <2> QED BY <2>6 DEF gs, hs
<1>7. CASE b # <<>>
  <2>1. gs = Last(FinishStages(rs, x, h))
    BY <1>3, <1>7 DEF RecoverOne, RecoveryStages
  <2> HIDE DEF rs
  <2>2. /\ Disk(gs) /\ DOMAIN gs = (DOMAIN rs \ {x}) \cup {final}
        /\ gs[final] = File(h, b)
        /\ \A n \in DOMAIN rs \ {x, final} : gs[n] = rs[n]
    <3>1. rs[x].body = b /\ final = Final(x.dir, x.stem) /\ gs = Last(FinishStages(rs, x, h))
      BY <1>3, <2>1
    <3>2. x.part /\ x \in DOMAIN rs /\ Disk(rs) /\ h \in HeaderSet /\ h.wave
      BY <1>0, <1>1, <1>3
    <3> HIDE DEF b, h, final, gs
    <3>3. /\ Disk(gs) /\ gs[final] = File(h, rs[x].body)
          /\ \A n : n \in DOMAIN gs <=> (n \in DOMAIN rs /\ n # x) \/ n = final
          /\ \A n \in DOMAIN rs : n # x /\ n # final => gs[n] = rs[n]
      BY <3>1, <3>2, FinishIs
    <3> QED BY <3>1, <3>3
  <2> HIDE DEF gs
  <2>3. Kept(fs, T) = Kept(fs, U) \cup {x} /\ x \notin Kept(fs, U)
    BY <1>7 DEF Kept
  <2>4. DOMAIN gs = DOMAIN hs
    <3> DEFINE finals == {Final(m.dir, m.stem) : m \in Kept(fs, U)}
    <3>1. x \notin finals
      BY <1>4, <2>3
    <3>2. {Final(m.dir, m.stem) : m \in Kept(fs, T)} = finals \cup {final}
      BY <2>3
    <3>3. /\ DOMAIN rs = (DOMAIN fs \ (T \ {x})) \cup finals
          /\ DOMAIN hs = (DOMAIN fs \ T) \cup (finals \cup {final})
      BY <1>1, <1>2, <3>2
    <3>4. x # final
      BY <1>0
    <3> HIDE DEF finals, hs, final
    <3> QED BY <2>2, <3>1, <3>3, <3>4
  <2>5. ASSUME NEW n \in DOMAIN hs PROVE gs[n] = hs[n]
    <3>1. CASE n = final
      <4>1. hs[final] = File(h, b)
        BY <1>0, <2>3, <2>5, <3>1 DEF Recovered
      <4> QED BY <2>2, <3>1, <4>1
    <3>2. CASE n # final
      <4>1. gs[n] = rs[n]
        BY <2>2, <2>4, <2>5, <3>2
      <4>2. ~n.part => Part(n.dir, n.stem) # x
        <5>1. n \in NameSet
          BY <1>2, <1>5, <2>5
        <5> QED BY <1>0, <3>2, <5>1, NameIs, NamesDiffer
      <4>3. (~n.part /\ Part(n.dir, n.stem) \in Kept(fs, T))
              <=> (~n.part /\ Part(n.dir, n.stem) \in Kept(fs, U))
        BY <2>3, <4>2
      <4>4. n \in DOMAIN rs
        BY <2>2, <2>4, <3>2
      <4>5. rs[n] = hs[n]
        BY <1>1, <1>2, <4>3, <4>4 DEF Recovered, rs
      <4> QED BY <4>1, <4>5
    <3> QED BY <3>1, <3>2
  <2>6. gs = [n \in DOMAIN gs |-> gs[n]] /\ hs = [n \in DOMAIN hs |-> hs[n]]
    BY <1>2, <2>2 DEF Disk
  <2> HIDE DEF hs
  <2>7. gs = hs
    BY <2>4, <2>5, <2>6
  <2> QED BY <2>7 DEF gs, hs, rs
<1> QED BY <1>6, <1>7

LEMMA RecoverNothing ==
  ASSUME NEW fs, Disk(fs)
  PROVE  Recovered(fs, {}) = fs
<1>1. /\ DOMAIN Recovered(fs, {}) = DOMAIN fs
      /\ \A n \in DOMAIN fs : Recovered(fs, {})[n] = fs[n]
  BY DEF Recovered, Kept
<1>2. Recovered(fs, {}) = [n \in DOMAIN Recovered(fs, {}) |-> Recovered(fs, {})[n]]
  BY DEF Recovered
<1> QED BY <1>1, <1>2 DEF Disk

\* The recovery of one file after the other, in whatever order.
LEMMA RecoveryIs ==
  ASSUME NEW fs, Disk(fs), NEW S, IsFiniteSet(S), S \subseteq {n \in DOMAIN fs : n.part}
  PROVE  FoldSet(LAMBDA n, ds : RecoverOne(ds, n), fs, S) = Recovered(fs, S)
<1> DEFINE first(s) == CHOOSE x \in s : TRUE
           rec(g) == [s \in SUBSET S |-> IF s = {} THEN fs
                                         ELSE RecoverOne(g[s \ {first(s)}], first(s))]
           it == CHOOSE g : g = rec(g)
           closed == [s \in SUBSET S |-> Recovered(fs, s)]
<1>1. FoldSet(LAMBDA n, ds : RecoverOne(ds, n), fs, S) = it[S]
  BY Zenon DEF FoldSet, MapThenFoldSet
<1>2. Recovered(fs, {}) = fs
  BY RecoverNothing
<1>3. ASSUME NEW s \in SUBSET S, s # {}
      PROVE  /\ first(s) \in s /\ s \ {first(s)} \in SUBSET S
             /\ RecoverOne(Recovered(fs, s \ {first(s)}), first(s)) = Recovered(fs, s)
  <2>1. first(s) \in s /\ s \subseteq {n \in DOMAIN fs : n.part}
    BY <1>3
  <2> HIDE DEF first
  <2> QED BY <2>1, RecoverAnother
<1>4. closed = rec(closed)
  <2> HIDE DEF first
  <2>1. ASSUME NEW s \in SUBSET S
        PROVE  Recovered(fs, s) = IF s = {} THEN fs
                                  ELSE RecoverOne(closed[s \ {first(s)}], first(s))
    BY <1>2, <1>3
  <2> QED BY <2>1, Zenon
<1>5. it = rec(it)
  BY <1>4
<1> HIDE DEF it, first, closed
<1> DEFINE Bad == {s \in SUBSET S : it[s] # Recovered(fs, s)}
<1>6. Bad = {}
  <2> SUFFICES ASSUME Bad # {} PROVE FALSE
    OBVIOUS
  <2>0. Bad \subseteq SUBSET S
    OBVIOUS
  <2>1. PICK s \in Bad : \A y \in Bad : y \subseteq s => y = s
    <3>1. \A Q : Q \subseteq SUBSET S /\ Q # {} => \E s \in Q : \A y \in Q : y \subseteq s => y = s
      BY ONLY IsFiniteSet(S), SmallestSet
    <3> HIDE DEF Bad
    <3> QED BY ONLY <2>0, Bad # {}, <3>1
  <2>2. s # {}
    BY <1>2, <1>5, <2>1
  <2>3. s \ {first(s)} \notin Bad
    BY <1>3, <2>1, <2>2
  <2>4. it[s \ {first(s)}] = Recovered(fs, s \ {first(s)})
    BY <1>3, <2>1, <2>2, <2>3
  <2>5. it[s] = RecoverOne(it[s \ {first(s)}], first(s))
    BY <1>5, <2>1, <2>2
  <2> QED BY <1>3, <2>1, <2>2, <2>4, <2>5
<1> QED BY <1>1, <1>6

--------------------------------------------------------------------------------
USE DEF Names

\* The disk and the recorders, and what each of them says of the others.
MasterFinal == Final(home, "master")

RecordTypeInv ==
  /\ up \in BOOLEAN /\ sound \in BOOLEAN /\ dir \in Dirs /\ home \in Dirs \cup {None}
  /\ master \in {"none", "writing", "single", "done", "failed", "cut"}
  /\ recorder \in [Streams -> Nat \cup {None}] /\ unwritten \in Streams \cup {None}
  /\ Disk(files)

\* A final name: the header says what the file is, and a length that is there, all of it
\* unless a write failed.  A temporary one: the header may yet become such a one.
Good(n, file, clean) ==
  /\ n.part /\ n.stem = "master" => file.header.wave /\ file.header.channels = 2
  /\ n.part /\ n.stem # "master" => file.header.channels \in {0, 1}
  /\ ~n.part =>
       /\ file.header.wave /\ file.header.channels = IF n.stem = "master" THEN 2 ELSE 1
       /\ file.header.length <= Len(file.body)
       /\ clean => file.header.length = Len(file.body)

WholeInv == \A n \in Names : Good(n, files[n], sound)

\* The chunk that a stream has accepted and is to write: the loop does nothing else
\* before that, unless the process ends.
PendingInv ==
  unwritten # None =>
    /\ accepted[unwritten] # <<>>
    /\ master # "cut" => loop = "running" /\ recorder[unwritten] # None

\* A recorder is at work on a temporary file and has counted what is in it.
RecorderOf(s) ==
  recorder[s] # None =>
    /\ up /\ home # None /\ s \in Range(workers)
    /\ Part(home, s) \in Names /\ Final(home, s) \notin Names
    /\ recorder[s] <= Len(files[Part(home, s)].body)
    /\ sound => recorder[s] = Len(files[Part(home, s)].body)

RecorderInv == \A s \in Streams : RecorderOf(s)

ClosedInv ==
  /\ loop = "building" /\ offset = 0 => \A s \in Streams : recorder[s] = None
  /\ loop = "shutdown" => \A i \in 1..offset : recorder[workers[i]] = None
  /\ loop = "ended" => \A s \in Streams : recorder[s] = None

LoopInv ==
  /\ loop # "ended" => up /\ master = "none"
  /\ loop \in {"building", "running"} => \A s \in Streams : Final(home, s) \notin Names
  /\ master \in {"none", "writing"} => up

\* A body of a recording of s.
BodyOf(s, body) ==
  /\ Len(body) \in {Written(s), Len(accepted[s])}
  /\ \A i \in 1..Len(body) : /\ body[i].chunk = accepted[s][i]
                             /\ i <= Written(s) => body[i].whole

KeptOf(s) ==
  /\ Part(home, s) \in Names => BodyOf(s, files[Part(home, s)].body)
  /\ Final(home, s) \in Names => BodyOf(s, files[Final(home, s)].body)
  /\ Written(s) > 0 => Part(home, s) \in Names \/ Final(home, s) \in Names
  /\ recorder[s] # None => Len(files[Part(home, s)].body) = Written(s)
  /\ master # "cut" /\ s \in Range(workers) => recorder[s] # None \/ Final(home, s) \in Names

KeptInv == home # None /\ sound => \A s \in Streams : KeptOf(s)

\* The two tracks from the first frame on; where the process ended, in the middle of one.
Beginning(body) ==
  \A i \in 1..Len(body), t \in 1..2 :
    body[i].chunk[t] = IF i <= Len(accepted[workers[t]]) THEN accepted[workers[t]][i] ELSE Silence

WholeFrames(body) ==
  \A i \in 1..Len(body) : body[i].whole \/ (master = "cut" /\ i = Len(body))

MasterNames ==
  /\ master = "none" => MasterName \notin Names /\ MasterFinal \notin Names
  /\ master = "writing" => MasterName \in Names /\ MasterFinal \notin Names /\ home # None
  /\ master = "done" => MasterName \notin Names

MasterBodies ==
  sound /\ home # None =>
    /\ MasterName \in Names =>
         Beginning(files[MasterName].body) /\ WholeFrames(files[MasterName].body)
    /\ MasterFinal \in Names =>
         Beginning(files[MasterFinal].body) /\ WholeFrames(files[MasterFinal].body)
    /\ master = "writing" => Len(workers) >= 2
    /\ master = "done" /\ MasterFinal \in Names =>
         Len(files[MasterFinal].body)
           = Longer(Len(accepted[workers[1]]), Len(accepted[workers[2]]))

MasterInv == MasterNames /\ MasterBodies

RecordInv ==
  /\ RecordTypeInv /\ WholeInv /\ RecorderInv /\ ClosedInv /\ LoopInv /\ PendingInv
  /\ KeptInv /\ MasterInv

LEMMA InitRecord ==
  ASSUME Init
  PROVE  RecordInv
<1>1. Disk(files) /\ Names = {}
  BY FS_EmptySet DEF Init, Disk
<1>2. RecordTypeInv
  BY <1>1, RecordingsAssumption DEF Init, RecordTypeInv
<1>3. WholeInv /\ MasterInv
  BY <1>1 DEF Init, WholeInv, MasterInv, MasterNames, MasterBodies
<1>4. RecorderInv /\ ClosedInv /\ LoopInv /\ PendingInv
  BY <1>1 DEF Init, CaptureInit, RecorderInv, RecorderOf, ClosedInv, LoopInv, PendingInv
<1>5. KeptInv
  <2> SUFFICES ASSUME NEW s \in Streams PROVE KeptOf(s)
    BY DEF KeptInv
  <2>1. /\ accepted[s] = <<>> /\ unwritten = None /\ None # s /\ workers = <<>>
        /\ recorder[s] = None
    BY RecordingsAssumption DEF Init, CaptureInit
  <2>2. Written(s) = 0
    BY <2>1, NothingAccepted DEF Written
  <2> QED BY <1>1, <2>1, <2>2, NothingAccepted DEF KeptOf
<1> QED BY <1>2, <1>3, <1>4, <1>5 DEF RecordInv

\* No two of the names that a session uses are the same.
LEMMA SessionNames ==
  ASSUME NEW s \in Streams, NEW r \in Streams
  PROVE  /\ Part(home, s) # Final(home, r) /\ Part(home, s) # MasterFinal
         /\ Part(home, s) # MasterName /\ Final(home, s) # MasterName
         /\ Final(home, s) # MasterFinal /\ MasterName # MasterFinal
         /\ r # s => Part(home, r) # Part(home, s) /\ Final(home, r) # Final(home, s)
         /\ MasterName.part /\ ~MasterFinal.part /\ Part(home, s).part /\ ~Final(home, s).part
         /\ MasterFinal = Final(MasterName.dir, MasterName.stem)
         /\ Final(home, s) = Final(Part(home, s).dir, Part(home, s).stem)
<1>1. s # "master" /\ r # "master"
  BY RecordingsAssumption
<1> QED BY <1>1, NamesDiffer DEF MasterName, MasterFinal

LEMMA WorkersType ==
  ASSUME CaptureTypeInv
  PROVE  /\ workers \in Seq(Streams) /\ Len(workers) \in Nat /\ offset \in Nat
         /\ accepted \in [Streams -> Seq(Nat)]
         /\ \A i \in 1..Len(workers) : workers[i] \in Streams /\ workers[i] \in Range(workers)
         /\ \A s : s \in Range(workers) <=> \E i \in 1..Len(workers) : s = workers[i]
<1>1. /\ workers \in Seq(Streams) /\ offset \in Nat /\ accepted \in [Streams -> Seq(Nat)]
  BY DEF CaptureTypeInv
<1>2. DOMAIN workers = 1..Len(workers) /\ Len(workers) \in Nat
  BY <1>1, LenProperties
<1>3. \A i \in 1..Len(workers) : workers[i] \in Streams
  BY <1>1, ElementOfSeq
<1> QED BY <1>1, <1>2, <1>3 DEF Range

\* What a stream has written, and what that is while nothing is pending.
LEMMA WrittenIs ==
  ASSUME CaptureTypeInv, PendingInv, NEW s \in Streams
  PROVE  /\ Written(s) \in Nat /\ Len(accepted[s]) \in Nat /\ Written(s) <= Len(accepted[s])
         /\ unwritten # s => Written(s) = Len(accepted[s])
         /\ unwritten = s => Written(s) = Len(accepted[s]) - 1
<1>1. accepted[s] \in Seq(Nat) /\ Len(accepted[s]) \in Nat
  BY StreamTypes
<1>2. unwritten = s => Len(accepted[s]) > 0
  <2>1. ASSUME unwritten = s PROVE accepted[s] # <<>>
    BY <2>1, RecordingsAssumption DEF PendingInv
  <2> QED BY <1>1, <2>1, EmptySeq
<1>3. CASE unwritten = s
  BY <1>1, <1>2, <1>3 DEF Written
<1>4. CASE unwritten # s
  BY <1>1, <1>4 DEF Written
<1> QED BY <1>3, <1>4
--------------------------------------------------------------------------------
\* The steps that leave the recordings alone.
LEMMA QuietIs ==
  ASSUME LoopStep \/ Around
  PROVE  /\ UNCHANGED <<workers, accepted>>
         /\ \/ UNCHANGED <<loop, offset>>
            \/ loop = "building" /\ loop' = "running"
            \/ loop = "running" /\ loop' = "running"
            \/ loop = "running" /\ loop' = "shutdown" /\ offset' = 0
            \/ loop = "shutdown" /\ loop' = "ended" /\ offset = Len(workers)
<1> USE DEF captureVars, loopVars, pauseVars, deviceVars, inputVars
<1>1. CASE Built \/ Break \/ PauseRound \/ StartRound \/ LoopEnds
  BY <1>1 DEF Built, Break, PauseRound, StartRound, LoopEnds, AtTop
<1>2. ASSUME NEW s \in Streams, NoChunk(s)
      PROVE  UNCHANGED <<workers, accepted, loop>> /\ loop = "running"
  BY <1>2, Zenon DEF NoChunk, Visiting
<1>3. ASSUME NEW s \in Streams, TellDevice(s) \/ Deliver(s) \/ DeviceStops(s) \/ DeviceFails(s)
      PROVE  UNCHANGED <<workers, accepted, loop, offset>>
  BY <1>3, Zenon DEF TellDevice, Deliver, DeviceStops, DeviceFails
<1>4. CASE SetPaused \/ Stop \/ Tick
  BY <1>4, Zenon DEF SetPaused, Stop, Tick
<1> QED BY <1>1, <1>2, <1>3, <1>4, Zenon DEF LoopStep, Around

LEMMA AroundIs ==
  ASSUME Around
  PROVE  UNCHANGED loop
<1> USE DEF loopVars
<1>1. ASSUME NEW s \in Streams, Deliver(s) \/ DeviceStops(s) \/ DeviceFails(s)
      PROVE  UNCHANGED loop
  BY <1>1, Zenon DEF Deliver, DeviceStops, DeviceFails
<1>2. CASE SetPaused \/ Stop \/ Tick
  BY <1>2, Zenon DEF SetPaused, Stop, Tick
<1> QED BY <1>1, <1>2, Zenon DEF Around

LEMMA QuietRecord ==
  ASSUME CaptureTypeInv, RecordInv, (LoopStep /\ unwritten = None) \/ Around,
         UNCHANGED recordVars
  PROVE  RecordInv'
<1>q. LoopStep \/ Around
  OBVIOUS
<1>u. /\ UNCHANGED <<up, dir, home, files, recorder, master, sound, workers, accepted>>
      /\ unwritten' = unwritten
  BY <1>q, QuietIs DEF recordVars
<1>l. \/ UNCHANGED <<loop, offset>>
      \/ loop = "building" /\ loop' = "running"
      \/ loop = "running" /\ loop' = "running"
      \/ loop = "running" /\ loop' = "shutdown" /\ offset' = 0
      \/ loop = "shutdown" /\ loop' = "ended" /\ offset = Len(workers)
  BY <1>q, QuietIs, Zenon
<1>1. RecordTypeInv' /\ WholeInv' /\ PendingInv'
  <2>1. RecordTypeInv' /\ WholeInv'
    BY <1>u DEF RecordInv, RecordTypeInv, WholeInv
  <2>2. PendingInv'
    <3> SUFFICES ASSUME unwritten # None PROVE PendingInv'
      BY <1>u DEF PendingInv
    <3>1. loop' = loop
      BY AroundIs
    <3> QED BY <1>u, <3>1 DEF RecordInv, PendingInv
  <2> QED BY <2>1, <2>2
<1>2. RecorderInv' /\ KeptInv' /\ MasterInv'
  <2>1. MasterName' = MasterName /\ MasterFinal' = MasterFinal
    BY <1>u DEF MasterName, MasterFinal
  <2>2. RecorderInv' /\ KeptInv'
    <3>1. RecorderInv'
      BY <1>u DEF RecordInv, RecorderInv, RecorderOf
    <3>2. ASSUME NEW r \in Streams, KeptOf(r) PROVE KeptOf(r)'
      <4>1. Written(r)' = Written(r)
        BY <1>u DEF Written
      <4> QED BY <1>u, <3>2, <4>1 DEF KeptOf, BodyOf
    <3> QED BY <1>u, <3>1, <3>2 DEF RecordInv, KeptInv
  <2>3. ASSUME NEW body, Beginning(body) /\ WholeFrames(body)
        PROVE  (Beginning(body) /\ WholeFrames(body))'
    BY <1>u, <2>3 DEF Beginning, WholeFrames
  <2>4. MasterInv'
    BY <1>u, <2>1, <2>3 DEF RecordInv, MasterInv, MasterNames, MasterBodies
  <2> QED BY <2>2, <2>4
<1>3. LoopInv'
  <2>1. LoopInv
    BY DEF RecordInv
  <2> QED BY <1>u, <1>l, <2>1 DEF LoopInv
<1>4. ClosedInv'
  <2>1. ASSUME loop = "shutdown", offset = Len(workers), NEW s \in Streams
        PROVE  recorder[s] = None
    <3>1. recorder[s] # None => s \in Range(workers)
      BY DEF RecordInv, RecorderInv, RecorderOf
    <3>2. \A i \in 1..Len(workers) : recorder[workers[i]] = None
      <4>1. ClosedInv
        BY DEF RecordInv
      <4> QED BY <2>1, <4>1 DEF ClosedInv
    <3>3. s \in Range(workers) => \E i \in 1..Len(workers) : s = workers[i]
      BY WorkersType, Zenon
    <3> QED BY <3>1, <3>2, <3>3, Zenon
  <2> QED BY <1>u, <1>l, <2>1 DEF RecordInv, ClosedInv
<1> QED BY <1>1, <1>2, <1>3, <1>4 DEF RecordInv

--------------------------------------------------------------------------------
\* A step at the files of one stream leaves those of the others, and the master.
OnlyOf(s) ==
  \A n : n # Part(home, s) /\ n # Final(home, s) =>
    /\ n \in DOMAIN files' <=> n \in DOMAIN files
    /\ n \in DOMAIN files => files'[n] = files[n]

LEMMA OtherStream ==
  ASSUME NEW s \in Streams, NEW r \in Streams, r # s, OnlyOf(s), UNCHANGED <<up, home, master>>,
         sound' => sound, recorder'[r] = recorder[r], accepted'[r] = accepted[r],
         unwritten' = r <=> unwritten = r,
         r \in Range(workers') <=> r \in Range(workers)
  PROVE  (RecorderOf(r) => RecorderOf(r)') /\ (KeptOf(r) /\ RecorderOf(r) => KeptOf(r)')
<1> DEFINE part == Part(home, r)
           final == Final(home, r)
<1>1. /\ part # Part(home, s) /\ part # Final(home, s)
      /\ final # Part(home, s) /\ final # Final(home, s)
  BY SessionNames
<1>2. Part(home', r) = part /\ Final(home', r) = final
  OBVIOUS
<1> HIDE DEF part, final
<1>3. /\ part \in DOMAIN files' <=> part \in DOMAIN files
      /\ part \in DOMAIN files => files'[part] = files[part]
      /\ final \in DOMAIN files' <=> final \in DOMAIN files
      /\ final \in DOMAIN files => files'[final] = files[final]
  BY <1>1 DEF OnlyOf
<1>4. RecorderOf(r) => RecorderOf(r)'
  BY <1>2, <1>3 DEF RecorderOf, part, final
<1>5. KeptOf(r) /\ RecorderOf(r) => KeptOf(r)'
  <2>1. Written(r)' = Written(r)
    BY DEF Written
  <2>2. ASSUME NEW body, BodyOf(r, body) PROVE BodyOf(r, body)'
    BY <2>1, <2>2 DEF BodyOf
  <2> QED BY <1>2, <1>3, <2>1, <2>2 DEF KeptOf, RecorderOf, part, final
<1> QED BY <1>4, <1>5

LEMMA OneStream ==
  ASSUME NEW s \in Streams, OnlyOf(s), UNCHANGED <<up, home, master>>, sound' => sound,
         RecorderInv, KeptInv, MasterNames, master = "none",
         \A r \in Streams : r # s =>
           /\ recorder'[r] = recorder[r] /\ accepted'[r] = accepted[r]
           /\ unwritten' = r <=> unwritten = r
           /\ r \in Range(workers') <=> r \in Range(workers)
  PROVE  /\ RecorderOf(s)' => RecorderInv'
         /\ (home # None /\ sound' => KeptOf(s)') => KeptInv'
         /\ MasterInv'
<1>1. RecorderOf(s)' => RecorderInv'
  BY OtherStream DEF RecorderInv
<1>2. (home # None /\ sound' => KeptOf(s)') => KeptInv'
  BY OtherStream DEF KeptInv, RecorderInv
<1>3. MasterInv'
  <2>1. /\ MasterName # Part(home, s) /\ MasterName # Final(home, s)
        /\ MasterFinal # Part(home, s) /\ MasterFinal # Final(home, s)
    BY SessionNames
  <2>2. MasterName \notin DOMAIN files' /\ MasterFinal \notin DOMAIN files'
    BY <2>1 DEF OnlyOf, MasterNames
  <2>3. MasterName' = MasterName /\ MasterFinal' = MasterFinal
    BY DEF MasterName, MasterFinal
  <2> QED BY <2>2, <2>3 DEF MasterInv, MasterNames, MasterBodies
<1> QED BY <1>1, <1>2, <1>3

LEMMA SameFiles ==
  ASSUME WholeInv, sound' => sound,
         \A n \in DOMAIN files' : \/ n \in DOMAIN files /\ files'[n] = files[n]
                                 \/ Good(n, files'[n], sound')
  PROVE  WholeInv'
<1>2. ASSUME NEW n \in DOMAIN files' PROVE Good(n, files'[n], sound')
  <2>1. CASE n \in DOMAIN files /\ files'[n] = files[n]
    <3>1. Good(n, files[n], sound)
      BY <2>1 DEF WholeInv
    <3> QED BY <2>1, <3>1 DEF Good
  <2>2. CASE Good(n, files'[n], sound')
    BY <2>2
  <2> QED BY <2>1, <2>2
<1> QED BY <1>2 DEF WholeInv

\* A stream is built with its recorder, or is not.
LEMMA BuildIs ==
  ASSUME CaptureTypeInv, BuildInv, NEW s \in Streams, Build(s) \/ BuildFails(s)
  PROVE  /\ loop = "building" /\ s \notin Range(workers) /\ accepted[s] = <<>>
         /\ offset \in Nat /\ accepted' = accepted
<1>1. loop = "building" /\ offset < Len(Order) /\ s = Order[offset + 1] /\ accepted' = accepted
  BY Zenon DEF Build, BuildFails, Building, Upcoming, inputVars
<1>2. offset \in Nat /\ Len(Order) \in Nat
  BY OrderType DEF CaptureTypeInv
<1>3. offset + 1 \in 1..Len(Order) /\ offset + 1 > offset
  BY <1>1, <1>2
<1>4. Untouched(s)
  BY <1>1, <1>3 DEF BuildInv, UpcomingInv
<1>5. s \notin Range(workers)
  BY <1>4 DEF Untouched
<1> QED BY <1>1, <1>2, <1>5 DEF BuildInv, WorkersInv

LEMMA EmptyFile ==
  /\ IsFile(File(Zeros, <<>>)) /\ File(Zeros, <<>>).body = <<>>
  /\ File(Zeros, <<>>).header.channels = 0
  /\ IsFile(File(Header(2, 0), <<>>)) /\ File(Header(2, 0), <<>>).body = <<>>
  /\ File(Header(2, 0), <<>>).header.wave /\ File(Header(2, 0), <<>>).header.channels = 2
<1>1. <<>> \in Seq(Range(<<>>))
  OBVIOUS
<1>2. PICK h : h = Header(2, 0)
  OBVIOUS
<1>3. h \in HeaderSet /\ h.wave /\ h.channels = 2
  BY <1>2, HeaderIs
<1>4. IsFile(File(h, <<>>)) /\ File(h, <<>>).body = <<>> /\ File(h, <<>>).header = h
  <2>1. PICK b : b = <<>>
    OBVIOUS
  <2>2. b \in Seq(Range(b))
    BY <1>1, <2>1
  <2>3. IsFile(File(h, b)) /\ File(h, b).body = b /\ File(h, b).header = h
    BY ONLY <1>3, <2>2, FileIs
  <2> QED BY <2>1, <2>3
<1>5. /\ IsFile(File(Zeros, <<>>)) /\ File(Zeros, <<>>).body = <<>>
      /\ File(Zeros, <<>>).header = Zeros
  BY <1>1, ZerosIs, FileIs
<1> QED BY <1>2, <1>3, <1>4, <1>5, ZerosIs

LEMMA CreatedIs ==
  ASSUME RecordTypeInv, NEW s \in Streams, files' = Put(files, Part(home, s), File(Zeros, <<>>))
  PROVE  /\ Disk(files') /\ OnlyOf(s)
         /\ Part(home, s) \in DOMAIN files' /\ files'[Part(home, s)].body = <<>>
         /\ Final(home, s) \in DOMAIN files' <=> Final(home, s) \in DOMAIN files
         /\ \A n \in DOMAIN files' : ~n.part => n \in DOMAIN files /\ files'[n] = files[n]
         /\ \A n \in DOMAIN files' : \/ n \in DOMAIN files /\ files'[n] = files[n]
                                    \/ Good(n, files'[n], sound')
<1> DEFINE part == Part(home, s)
           empty == File(Zeros, <<>>)
           final == Final(home, s)
<1>1. /\ Disk(files) /\ part \in NameSet /\ IsFile(empty) /\ empty.body = <<>>
      /\ files' = Put(files, part, empty) /\ part.part /\ ~final.part
  BY NamesOfSession, EmptyFile, NamesDiffer DEF RecordTypeInv
<1>u. part = Part(home, s) /\ final = Final(home, s)
  OBVIOUS
<1>g. empty.header.channels = 0 /\ part.stem # "master"
  BY EmptyFile, NamesDiffer, RecordingsAssumption
<1> HIDE DEF part, empty, final
<1>2. /\ Disk(files') /\ files'[part] = empty
      /\ \A n : n \in DOMAIN files' <=> n \in DOMAIN files \/ n = part
      /\ \A n \in DOMAIN files : n # part => files'[n] = files[n]
  BY <1>1, PutIs
<1>3. OnlyOf(s)
  BY <1>2, <1>u DEF OnlyOf
<1>4. Good(part, files'[part], sound')
  BY <1>1, <1>2, <1>g DEF Good
<1> QED BY <1>1, <1>2, <1>3, <1>4, <1>u

LEMMA BuildRecord ==
  ASSUME CaptureTypeInv, BuildInv, RecordInv, NEW s \in Streams, BuildStream(s)
  PROVE  RecordInv'
<1>1. /\ loop = "building" /\ s \notin Range(workers) /\ accepted[s] = <<>>
      /\ offset \in Nat /\ accepted' = accepted
  BY BuildIs DEF BuildStream
<1>2. /\ loop' = "building" /\ offset' = offset + 1 /\ workers' = Append(workers, s)
      /\ UNCHANGED <<up, dir, home, unwritten, master, sound>> /\ Create(s)
  BY <1>1 DEF BuildStream, Build
<1>3. Range(workers') = Range(workers) \cup {s}
  BY <1>2, WorkersType, RangeOfAppend
<1>i. /\ RecordTypeInv /\ WholeInv /\ RecorderInv /\ ClosedInv /\ LoopInv /\ PendingInv
      /\ KeptInv
      /\ MasterNames /\ MasterBodies
  BY DEF RecordInv, MasterInv
<1>4. master = "none" /\ up /\ \A r \in Streams : Final(home, r) \notin DOMAIN files
  BY <1>1, <1>i DEF LoopInv
<1>p. unwritten = None
  BY <1>1, <1>4, <1>i DEF PendingInv
<1>5. CASE home = None
  <2>1. UNCHANGED <<files, recorder>>
    BY <1>2, <1>5 DEF Create
  <2>2. RecordTypeInv' /\ WholeInv'
    BY <1>2, <1>i, <2>1 DEF RecordTypeInv, WholeInv, Good
  <2>3. RecorderInv' /\ KeptInv'
    BY <1>2, <1>5, <1>i, <2>1 DEF RecorderInv, RecorderOf, KeptInv
  <2>4. LoopInv' /\ ClosedInv' /\ PendingInv'
    BY <1>1, <1>2, <1>4, <1>p, <2>1 DEF LoopInv, ClosedInv, PendingInv
  <2>5. MasterInv'
    <3>1. MasterName' = MasterName /\ MasterFinal' = MasterFinal
      BY <1>2 DEF MasterName, MasterFinal
    <3> QED BY <1>2, <1>4, <1>i, <2>1, <3>1 DEF MasterInv, MasterNames, MasterBodies
  <2> QED BY <2>2, <2>3, <2>4, <2>5 DEF RecordInv
<1>6. CASE home # None
  <2>1. /\ files' = Put(files, Part(home, s), File(Zeros, <<>>))
        /\ recorder' = [recorder EXCEPT ![s] = 0]
    BY <1>2, <1>6 DEF Create
  <2>2. /\ Disk(files') /\ OnlyOf(s)
        /\ Part(home, s) \in DOMAIN files' /\ files'[Part(home, s)].body = <<>>
        /\ Final(home, s) \in DOMAIN files' <=> Final(home, s) \in DOMAIN files
        /\ \A n \in DOMAIN files' : ~n.part => n \in DOMAIN files /\ files'[n] = files[n]
        /\ \A n \in DOMAIN files' : \/ n \in DOMAIN files /\ files'[n] = files[n]
                                   \/ Good(n, files'[n], sound')
    BY <1>i, <2>1, CreatedIs
  <2>3. RecordTypeInv'
    BY <1>2, <1>i, <2>1, <2>2 DEF RecordTypeInv
  <2>4. WholeInv'
    BY <1>2, <1>i, <2>2, SameFiles
  <2>r. recorder'[s] = 0 /\ \A r \in Streams : r # s => recorder'[r] = recorder[r]
    BY <1>i, <2>1 DEF RecordTypeInv
  <2>5. RecorderOf(s)'
    BY <1>2, <1>3, <1>4, <1>6, <2>2, <2>r DEF RecorderOf
  <2>6. KeptOf(s)'
    <3>1. Written(s)' = 0 /\ Len(accepted'[s]) = 0 /\ recorder'[s] # None
      BY <1>1, <1>2, <1>p, <2>r, RecordingsAssumption DEF Written
    <3>2. BodyOf(s, <<>>)'
      BY <3>1 DEF BodyOf
    <3> QED BY <1>2, <1>4, <2>2, <3>1, <3>2 DEF KeptOf
  <2>7. RecorderInv' /\ KeptInv' /\ MasterInv'
    BY <1>1, <1>2, <1>3, <1>4, <1>i, <2>2, <2>r, <2>5, <2>6, OneStream
  <2>p. PendingInv'
    BY <1>2, <1>p DEF PendingInv
  <2>8. \A r \in Streams : Final(home, r) \notin DOMAIN files'
    <3>1. ASSUME NEW r \in Streams PROVE Final(home, r) \notin DOMAIN files'
      BY <1>4, <2>2, SessionNames
    <3> QED BY <3>1
  <2>9. LoopInv' /\ ClosedInv'
    BY <1>1, <1>2, <1>4, <2>8 DEF LoopInv, ClosedInv
  <2> QED BY <2>3, <2>4, <2>7, <2>9, <2>p DEF RecordInv
<1> QED BY <1>5, <1>6

\* What became of a truth value.
LEMMA StillOrNot ==
  ASSUME NEW a \in BOOLEAN, NEW b, b = a \/ b = FALSE
  PROVE  b \in BOOLEAN /\ (b => a)
<1>1. CASE b = a
  BY <1>1, Zenon
<1>2. CASE b = FALSE
  BY <1>2, Zenon
<1> QED BY <1>1, <1>2

LEMMA BuildFailsRecord ==
  ASSUME CaptureTypeInv, BuildInv, RecordInv, NEW s \in Streams, BuildStreamFails(s)
  PROVE  RecordInv'
<1>1. /\ loop = "building" /\ s \notin Range(workers) /\ accepted[s] = <<>>
      /\ offset \in Nat /\ accepted' = accepted
  BY BuildIs DEF BuildStreamFails
<1>2. /\ workers' = workers /\ UNCHANGED <<up, dir, home, recorder, unwritten, master, sound>>
      /\ \/ offset = 0 /\ loop' = "ended"
         \/ loop' = "building" /\ offset' = offset + 1
  BY <1>1 DEF BuildStreamFails, BuildFails
<1>i. /\ RecordTypeInv /\ WholeInv /\ RecorderInv /\ ClosedInv /\ LoopInv /\ PendingInv
      /\ KeptInv
      /\ MasterNames /\ MasterBodies
  BY DEF RecordInv, MasterInv
<1>4. master = "none" /\ up /\ \A r \in Streams : Final(home, r) \notin DOMAIN files
  BY <1>1, <1>i DEF LoopInv
<1>5. recorder[s] = None /\ unwritten = None /\ unwritten' = None
  BY <1>1, <1>2, <1>4, <1>i DEF RecorderInv, RecorderOf, PendingInv
<1>6. /\ Disk(files') /\ OnlyOf(s)
      /\ Part(home, s) \in DOMAIN files' =>
           \/ files'[Part(home, s)].body = <<>>
           \/ /\ Part(home, s) \in DOMAIN files
              /\ files'[Part(home, s)].body = files[Part(home, s)].body
      /\ Final(home, s) \in DOMAIN files' <=> Final(home, s) \in DOMAIN files
      /\ \A n \in DOMAIN files' : ~n.part => n \in DOMAIN files /\ files'[n] = files[n]
      /\ \A n \in DOMAIN files' : \/ n \in DOMAIN files /\ files'[n] = files[n]
                                 \/ Good(n, files'[n], sound')
  <2>1. CASE UNCHANGED files
    BY <1>i, <2>1 DEF OnlyOf, RecordTypeInv
  <2>2. CASE files' = Put(files, Part(home, s), File(Zeros, <<>>))
    BY <1>i, <2>2, CreatedIs
  <2> QED BY <2>1, <2>2 DEF BuildStreamFails
<1>7. RecordTypeInv'
  BY <1>2, <1>i, <1>6 DEF RecordTypeInv
<1>8. WholeInv'
  BY <1>2, <1>i, <1>6, SameFiles
<1>9. RecorderOf(s)'
  BY <1>2, <1>5 DEF RecorderOf
<1>10. home # None /\ sound' => KeptOf(s)'
  <2> SUFFICES ASSUME home # None, sound' PROVE KeptOf(s)'
    OBVIOUS
  <2>1. /\ Written(s)' = 0 /\ Written(s) = 0 /\ Len(accepted'[s]) = 0
    BY <1>1, <1>5, RecordingsAssumption DEF Written
  <2>2. BodyOf(s, <<>>)'
    BY <2>1 DEF BodyOf
  <2>3. KeptOf(s)
    BY <1>2, <1>i DEF KeptInv
  <2>4. ASSUME NEW body, BodyOf(s, body) PROVE BodyOf(s, body)'
    BY <1>1, <2>1, <2>4 DEF BodyOf
  <2> QED BY <1>1, <1>2, <1>4, <1>5, <1>6, <2>1, <2>2, <2>3, <2>4 DEF KeptOf
<1>11. RecorderInv' /\ KeptInv' /\ MasterInv'
  BY <1>1, <1>2, <1>4, <1>i, <1>6, <1>9, <1>10, OneStream
<1>12. \A r \in Streams : Final(home, r) \notin DOMAIN files'
  <2>1. ASSUME NEW r \in Streams PROVE Final(home, r) \notin DOMAIN files'
    BY <1>4, <1>6, SessionNames
  <2> QED BY <2>1
<1>13. LoopInv' /\ ClosedInv'
  BY <1>1, <1>2, <1>4, <1>12, <1>i DEF LoopInv, ClosedInv
<1>14. PendingInv'
  BY <1>5 DEF PendingInv
<1> QED BY <1>7, <1>8, <1>11, <1>13, <1>14 DEF RecordInv

\* The accepted chunk that a recorder writes is the last one.
LEMMA AcceptedIs ==
  ASSUME CaptureTypeInv, BuildInv, NEW s \in Streams, AcceptChunk(s)
  PROVE  /\ loop = "running" /\ loop' = "running" /\ workers' = workers /\ s \in Range(workers)
         /\ accepted[s] \in Seq(Nat) /\ accepted'[s] \in Seq(Nat)
         /\ accepted'[s] = Append(accepted[s], accepted'[s][Len(accepted'[s])])
         /\ accepted'[s] # <<>>
         /\ \A r \in Streams : r # s => accepted'[r] = accepted[r]
<1>1. loop = "running" /\ loop' = loop /\ workers' = workers /\ Visiting(s)
  BY Zenon DEF AcceptChunk, Visiting
<1>2. s \in Range(workers)
  BY <1>1, InTurnIsWorker DEF BuildInv
<1>3. accepted \in [Streams -> Seq(Nat)] /\ accepted[s] \in Seq(Nat) /\ Len(accepted[s]) \in Nat
      /\ queue[s] \in Seq(Nat)
  BY StreamTypes DEF CaptureTypeInv
<1>4. \E c \in Nat : accepted' = [accepted EXCEPT ![s] = Append(@, c)]
  <2>1. queue[s] # <<>> => Head(queue[s]) \in Nat
    BY <1>3, HeadTailProperties
  <2>2. Len(accepted[s]) + 1 \in Nat
    BY <1>3
  <2> QED BY <2>1, <2>2, AcceptIs
<1>5. PICK c \in Nat : accepted' = [accepted EXCEPT ![s] = Append(@, c)]
  BY <1>4
<1>6. accepted'[s] = Append(accepted[s], c) /\ \A r \in Streams : r # s => accepted'[r] = accepted[r]
  BY <1>3, <1>5
<1>7. /\ accepted'[s] \in Seq(Nat) /\ accepted'[s] # <<>>
      /\ accepted'[s][Len(accepted'[s])] = c
  <2>1. /\ Append(accepted[s], c) \in Seq(Nat)
        /\ Len(Append(accepted[s], c)) = Len(accepted[s]) + 1
        /\ Append(accepted[s], c)[Len(accepted[s]) + 1] = c
    BY <1>3, AppendProperties
  <2> DEFINE q == accepted'[s]
  <2>2. q \in Seq(Nat) /\ Len(q) = Len(accepted[s]) + 1 /\ q[Len(q)] = c
    BY <1>6, <2>1
  <2> HIDE DEF q
  <2>3. q # <<>>
    BY <1>3, <2>2
  <2> QED BY <2>2, <2>3 DEF q
<1> QED BY <1>1, <1>2, <1>3, <1>6, <1>7

LEMMA AcceptRecord ==
  ASSUME CaptureTypeInv, BuildInv, RecordInv, NEW s \in Streams, Accept(s), unwritten = None
  PROVE  RecordInv'
<1> DEFINE c == accepted'[s][Len(accepted'[s])]
<1>1. /\ loop = "running" /\ loop' = "running" /\ workers' = workers /\ s \in Range(workers)
      /\ accepted[s] \in Seq(Nat) /\ accepted'[s] \in Seq(Nat) /\ accepted'[s] # <<>>
      /\ accepted'[s] = Append(accepted[s], c)
      /\ \A r \in Streams : r # s => accepted'[r] = accepted[r]
  BY AcceptedIs DEF Accept
<1>2. /\ UNCHANGED <<up, dir, home, files, recorder, master, sound>>
      /\ unwritten' = IF recorder[s] = None THEN None ELSE s
  BY DEF Accept
<1>i. /\ RecordTypeInv /\ WholeInv /\ RecorderInv /\ ClosedInv /\ LoopInv /\ KeptInv
      /\ MasterNames /\ MasterBodies
  BY DEF RecordInv, MasterInv
<1>4. master = "none" /\ up /\ \A r \in Streams : Final(home, r) \notin DOMAIN files
  BY <1>1, <1>i DEF LoopInv
<1>n. s # None
  BY RecordingsAssumption
<1>5. RecordTypeInv' /\ WholeInv' /\ OnlyOf(s) /\ RecorderOf(s)'
  BY <1>1, <1>2, <1>i DEF RecordTypeInv, WholeInv, Good, OnlyOf, RecorderInv, RecorderOf
<1>6. PendingInv'
  BY <1>1, <1>2, <1>n DEF PendingInv
<1>7. home # None /\ sound' => KeptOf(s)'
  <2> SUFFICES ASSUME home # None, sound PROVE KeptOf(s)'
    BY <1>2
  <2>1. KeptOf(s) /\ recorder[s] # None /\ unwritten' = s
    BY <1>1, <1>2, <1>4, <1>i DEF KeptInv, KeptOf
  <2> HIDE DEF c
  <2>c. c \in Nat
    <3>1. Len(accepted'[s]) \in Nat /\ Len(accepted'[s]) # 0
      BY <1>1, EmptySeq, LenProperties
    <3>2. Len(accepted'[s]) \in 1..Len(accepted'[s])
      BY <3>1
    <3> QED BY <1>1, <3>2, ElementOfSeq DEF c
  <2>2. /\ Len(accepted[s]) \in Nat /\ Len(accepted'[s]) = Len(accepted[s]) + 1
        /\ \A i \in 1..Len(accepted[s]) : accepted'[s][i] = accepted[s][i]
    BY <1>1, <2>c, AppendProperties, LenProperties
  <2>3. Written(s) = Len(accepted[s]) /\ Written(s)' = Len(accepted[s])
    <3>1. Written(s) = Len(accepted[s]) - 0
      BY <1>n DEF Written
    <3>2. Written(s)' = Len(accepted'[s]) - 1
      BY <2>1 DEF Written
    <3> QED BY <2>2, <3>1, <3>2
  <2>4. ASSUME NEW body, BodyOf(s, body) PROVE BodyOf(s, body)'
    <3>1. Len(body) = Len(accepted[s])
      BY <2>3, <2>4 DEF BodyOf
    <3> QED BY <2>2, <2>3, <2>4, <3>1 DEF BodyOf
  <2> QED BY <1>1, <1>2, <1>4, <2>1, <2>3, <2>4 DEF KeptOf
<1>8. \A r \in Streams : r # s => (unwritten' = r <=> unwritten = r)
  BY <1>2, RecordingsAssumption
<1>9. RecorderInv' /\ KeptInv' /\ MasterInv'
  BY <1>1, <1>2, <1>4, <1>5, <1>7, <1>8, <1>i, OneStream
<1>10. LoopInv' /\ ClosedInv'
  BY <1>1, <1>2, <1>4 DEF LoopInv, ClosedInv
<1> QED BY <1>5, <1>6, <1>9, <1>10 DEF RecordInv

\* A block is written behind a recording, its end or a piece of it.
LEMMA GrownIs ==
  ASSUME CaptureTypeInv, RecordInv, NEW s \in Streams, unwritten = s, recorder[s] # None,
         master # "cut", NEW whole,
         NEW gs, gs = NextBlock(s, whole)
  PROVE  /\ Disk(gs) /\ DOMAIN gs = DOMAIN files /\ Part(home, s) \in DOMAIN files
         /\ gs[Part(home, s)].header = files[Part(home, s)].header
         /\ \A n \in DOMAIN files : n # Part(home, s) => gs[n] = files[n]
         /\ Len(files[Part(home, s)].body) \in Nat
         /\ Len(gs[Part(home, s)].body) = Len(files[Part(home, s)].body) + 1
         /\ sound /\ home # None =>
              /\ Len(gs[Part(home, s)].body) = Len(accepted[s])
              /\ \A i \in 1..Len(accepted[s]) :
                   /\ gs[Part(home, s)].body[i].chunk = accepted[s][i]
                   /\ i <= Written(s) => gs[Part(home, s)].body[i].whole
              /\ gs[Part(home, s)].body[Len(accepted[s])].whole = whole
<1> DEFINE part == Part(home, s)
           block == Block(Last(accepted[s]), whole)
           body == files[part].body
           longer == gs[part].body
<1>0. part \in DOMAIN files /\ Disk(files) /\ PendingInv /\ home # None
  BY DEF RecordInv, RecorderInv, RecorderOf, RecordTypeInv
<1>1. gs = WithChunk(files, part, block)
  BY DEF NextBlock, Grown, WithChunk
<1>u. part = Part(home, s) /\ block.chunk = Last(accepted[s]) /\ block.whole = whole
  BY DEF Block
<1> HIDE DEF part, block
<1>2. /\ Disk(gs) /\ DOMAIN gs = DOMAIN files
      /\ gs[part] = File(files[part].header, Append(body, block))
      /\ \A n \in DOMAIN files : n # part => gs[n] = files[n]
  BY <1>0, <1>1, WithChunkIs
<1>3. longer = Append(body, block) /\ gs[part].header = files[part].header
  BY <1>2 DEF File
<1>4. body \in Seq(Range(body) \cup {block})
  <2>1. body \in Seq(Range(body))
    BY <1>0, LengthOfBody
  <2> HIDE DEF body
  <2> QED BY <2>1, SeqDef
<1> HIDE DEF body, longer
<1>5. /\ Len(body) \in Nat /\ Len(longer) = Len(body) + 1 /\ longer[Len(body) + 1] = block
      /\ \A i \in 1..Len(body) : longer[i] = body[i]
  BY <1>3, <1>4, AppendProperties, LenProperties
<1>6. ASSUME sound
      PROVE  /\ Len(longer) = Len(accepted[s])
             /\ \A i \in 1..Len(accepted[s]) : /\ longer[i].chunk = accepted[s][i]
                                               /\ i <= Written(s) => longer[i].whole
             /\ longer[Len(accepted[s])].whole = whole
  <2>1. KeptOf(s)
    BY <1>0, <1>6 DEF RecordInv, KeptInv
  <2>2. /\ Written(s) \in Nat /\ Len(accepted[s]) \in Nat /\ Written(s) = Len(accepted[s]) - 1
        /\ Len(body) = Written(s) /\ BodyOf(s, body)
    BY <1>0, <1>u, <2>1, WrittenIs DEF KeptOf, body
  <2>3. block.chunk = accepted[s][Len(accepted[s])]
    BY <1>u DEF Last
  <2>4. ASSUME NEW i \in 1..Len(accepted[s])
        PROVE  longer[i].chunk = accepted[s][i] /\ (i <= Written(s) => longer[i].whole)
    <3>1. CASE i <= Written(s)
      <4>1. i \in 1..Len(body) /\ longer[i] = body[i]
        BY <1>5, <2>2, <3>1
      <4>2. body[i].chunk = accepted[s][i] /\ body[i].whole
        BY <2>2, <3>1, <4>1 DEF BodyOf
      <4> QED BY <4>1, <4>2
    <3>2. CASE ~(i <= Written(s))
      <4>1. i = Len(accepted[s]) /\ longer[i] = block
        BY <1>5, <2>2, <3>2
      <4> QED BY <2>3, <3>2, <4>1
    <3> QED BY <3>1, <3>2
  <2>5. longer[Len(accepted[s])].whole = whole
    <3>1. Len(body) + 1 = Len(accepted[s])
      BY <2>2
    <3> QED BY <1>5, <1>u, <3>1
  <2> QED BY <1>5, <2>2, <2>4, <2>5
<1> QED BY <1>0, <1>2, <1>3, <1>5, <1>6, <1>u DEF body, longer

LEMMA WriteRecord ==
  ASSUME CaptureTypeInv, RecordInv, NEW s \in Streams, Write(s)
  PROVE  RecordInv'
<1> DEFINE part == Part(home, s)
<1>n. s # None
  BY RecordingsAssumption
<1>2. /\ up /\ unwritten = s /\ recorder[s] # None /\ unwritten' = None
      /\ UNCHANGED <<captureVars, up, dir, home, master>>
      /\ \/ files' = NextBlock(s, TRUE) /\ recorder' = [recorder EXCEPT ![s] = @ + 1]
            /\ sound' = sound
         \/ /\ files' = files \/ files' = NextBlock(s, FALSE)
            /\ recorder' = recorder /\ sound' = FALSE
  BY DEF Write
<1>u. UNCHANGED <<loop, offset, workers, accepted>>
  BY <1>2 DEF captureVars, loopVars, inputVars
<1>i. /\ RecordTypeInv /\ WholeInv /\ RecorderInv /\ ClosedInv /\ LoopInv /\ KeptInv
      /\ PendingInv /\ MasterNames /\ MasterBodies
  BY DEF RecordInv, MasterInv
<1>4. /\ loop # "ended" /\ master = "none"
      /\ home # None /\ s \in Range(workers) /\ part \in DOMAIN files /\ part.part
      /\ Final(home, s) \notin DOMAIN files
      /\ recorder[s] \in Nat /\ recorder[s] <= Len(files[part].body)
      /\ sound => recorder[s] = Len(files[part].body)
  <2>1. loop # "ended"
    BY <1>2, <1>i DEF ClosedInv
  <2> QED BY <1>2, <1>i, <2>1, NamesDiffer
          DEF LoopInv, RecorderInv, RecorderOf, RecordTypeInv
<1>5. /\ Disk(files') /\ DOMAIN files' = DOMAIN files
      /\ files'[part].header = files[part].header
      /\ \A n \in DOMAIN files : n # part => files'[n] = files[n]
      /\ Len(files[part].body) \in Nat
      /\ Len(files'[part].body) >= Len(files[part].body)
  <2>1. Disk(files) /\ Len(files[part].body) \in Nat
    BY <1>4, <1>i, LengthOfBody DEF RecordTypeInv
  <2>2. ASSUME NEW whole, files' = NextBlock(s, whole)
        PROVE  /\ Disk(files') /\ DOMAIN files' = DOMAIN files
               /\ files'[part].header = files[part].header
               /\ \A n \in DOMAIN files : n # part => files'[n] = files[n]
               /\ Len(files'[part].body) = Len(files[part].body) + 1
    BY <1>2, <1>4, <2>2, GrownIs
  <2>3. \/ files' = files \/ files' = NextBlock(s, TRUE) \/ files' = NextBlock(s, FALSE)
    BY <1>2
  <2>4. CASE files' = files
    BY <2>1, <2>4
  <2>5. CASE files' = NextBlock(s, TRUE)
    <3>1. PICK w : w = TRUE
      OBVIOUS
    <3>2. files' = NextBlock(s, w)
      BY <2>5, <3>1
    <3> QED BY ONLY <2>1, <2>2, <3>2
  <2>6. CASE files' = NextBlock(s, FALSE)
    <3>1. PICK w : w = FALSE
      OBVIOUS
    <3>2. files' = NextBlock(s, w)
      BY <2>6, <3>1
    <3> QED BY ONLY <2>1, <2>2, <3>2
  <2> QED BY <2>3, <2>4, <2>5, <2>6
<1>6. recorder' \in [Streams -> Nat \cup {None}] /\ sound' \in BOOLEAN /\ (sound' => sound)
      /\ \A r \in Streams : r # s => recorder'[r] = recorder[r]
  <2>1. recorder \in [Streams -> Nat \cup {None}] /\ sound \in BOOLEAN
    BY <1>i DEF RecordTypeInv
  <2>2. recorder[s] + 1 \in Nat
    BY <1>4
  <2>3. recorder' \in [Streams -> Nat \cup {None}]
    BY <1>2, <2>1, <2>2
  <2>4. sound' \in BOOLEAN /\ (sound' => sound)
    <3>1. sound' = sound \/ sound' = FALSE
      BY <1>2, Zenon
    <3> QED BY <2>1, <3>1, StillOrNot
  <2> QED BY <1>2, <2>1, <2>3, <2>4
<1>7. RecordTypeInv'
  BY <1>2, <1>i, <1>5, <1>6 DEF RecordTypeInv
<1>8. WholeInv'
  <2>1. Good(part, files'[part], sound')
    <3>1. Good(part, files[part], sound)
      BY <1>4, <1>i DEF WholeInv
    <3> QED BY <1>4, <1>5, <3>1 DEF Good
  <2> HIDE DEF part
  <2> QED BY <1>i, <1>5, <1>6, <2>1, SameFiles
<1>9. OnlyOf(s)
  BY <1>5 DEF OnlyOf
<1>10. RecorderOf(s)'
  <2>1. /\ recorder'[s] <= Len(files'[part].body)
        /\ sound' => recorder'[s] = Len(files'[part].body)
    <3>1. CASE files' = NextBlock(s, TRUE) /\ recorder' = [recorder EXCEPT ![s] = @ + 1]
               /\ sound' = sound
      <4>1. Len(files'[part].body) = Len(files[part].body) + 1
        <5>1. PICK whole : whole = TRUE
          OBVIOUS
        <5>2. files' = NextBlock(s, whole)
          BY <3>1, <5>1
        <5> QED BY <1>2, <1>4, <5>2, GrownIs
      <4>2. recorder'[s] = recorder[s] + 1
        BY <1>i, <3>1 DEF RecordTypeInv
      <4>3. ASSUME NEW n \in Nat, NEW m \in Nat, n <= m PROVE n + 1 <= m + 1
        BY <4>3
      <4> HIDE DEF part
      <4>4. recorder[s] + 1 <= Len(files[part].body) + 1
        BY ONLY <1>4, <1>5, <4>3
      <4> QED BY <1>4, <3>1, <4>1, <4>2, <4>4
    <3>2. CASE recorder' = recorder /\ sound' = FALSE
      BY <1>4, <1>5, <3>2
    <3> QED BY <1>2, <3>1, <3>2
  <2> QED BY <1>2, <1>u, <1>4, <1>5, <2>1 DEF RecorderOf
<1>11. sound' => KeptOf(s)'
  <2> SUFFICES ASSUME sound' PROVE KeptOf(s)'
    OBVIOUS
  <2>1. files' = NextBlock(s, TRUE) /\ recorder' = [recorder EXCEPT ![s] = @ + 1] /\ sound
    BY <1>2
  <2>2. /\ Len(files'[part].body) = Len(accepted[s])
        /\ \A i \in 1..Len(accepted[s]) : /\ files'[part].body[i].chunk = accepted[s][i]
                                          /\ files'[part].body[i].whole
    <3>0. unwritten = s /\ recorder[s] # None /\ master # "cut" /\ home # None /\ sound
      BY <1>2, <1>4, <2>1
    <3>1. PICK whole : whole = TRUE
      OBVIOUS
    <3>2. files' = NextBlock(s, whole)
      BY <2>1, <3>1
    <3>c. CaptureTypeInv /\ RecordInv /\ s \in Streams
      OBVIOUS
    <3>g. ASSUME NEW gs, gs = NextBlock(s, whole)
          PROVE  /\ Len(gs[part].body) = Len(accepted[s])
                 /\ \A i \in 1..Len(accepted[s]) :
                      /\ gs[part].body[i].chunk = accepted[s][i]
                      /\ i <= Written(s) => gs[part].body[i].whole
                 /\ gs[part].body[Len(accepted[s])].whole = whole
      BY ONLY <3>0, <3>c, <3>g, GrownIs
    <3>3. /\ Len(files'[part].body) = Len(accepted[s])
          /\ \A i \in 1..Len(accepted[s]) :
               /\ files'[part].body[i].chunk = accepted[s][i]
               /\ i <= Written(s) => files'[part].body[i].whole
          /\ files'[part].body[Len(accepted[s])].whole = whole
      BY ONLY <3>2, <3>g
    <3>4. /\ Written(s) = Len(accepted[s]) - 1 /\ Len(accepted[s]) \in Nat
          /\ Written(s) \in Nat
      BY <1>2, <1>i, WrittenIs
    <3>5. ASSUME NEW i \in 1..Len(accepted[s]) PROVE files'[part].body[i].whole
      <4>1. CASE i <= Written(s)
        BY <3>3, <4>1
      <4>2. CASE ~(i <= Written(s))
        <5>1. i = Len(accepted[s])
          BY <3>4, <4>2
        <5> QED BY <3>1, <3>3, <5>1
      <4> QED BY <4>1, <4>2
    <3> QED BY <3>3, <3>5
  <2>3. Written(s)' = Len(accepted[s]) /\ recorder'[s] # None
    <3>1. recorder'[s] = recorder[s] + 1 /\ recorder[s] + 1 \in Nat
      BY <1>4, <1>i, <2>1 DEF RecordTypeInv
    <3>2. Len(accepted[s]) \in Nat
      BY StreamTypes
    <3>3. Written(s)' = Len(accepted[s]) - 0
      BY <1>2, <1>n, <1>u DEF Written
    <3> QED BY <3>1, <3>2, <3>3, RecordingsAssumption
  <2>4. ASSUME NEW body, body = files'[part].body PROVE BodyOf(s, body)'
    BY <1>u, <2>2, <2>3, <2>4 DEF BodyOf
  <2> QED BY <1>2, <1>u, <1>4, <1>5, <2>2, <2>3, <2>4 DEF KeptOf
<1>12. \A r \in Streams : r # s => (unwritten' = r <=> unwritten = r)
  BY <1>2, RecordingsAssumption
<1>13. RecorderInv' /\ KeptInv' /\ MasterInv'
  BY <1>2, <1>u, <1>4, <1>i, <1>6, <1>9, <1>10, <1>11, <1>12, OneStream
<1>14. LoopInv' /\ ClosedInv' /\ PendingInv'
  <2>1. ClosedInv'
    <3>1. loop # "building" \/ offset # 0
      BY <1>2, <1>i DEF ClosedInv
    <3>2. loop = "running"
      BY <1>2, <1>4, <1>i, <1>n DEF PendingInv
    <3> QED BY <1>u, <3>2 DEF ClosedInv
  <2>2. LoopInv' /\ PendingInv'
    BY <1>2, <1>u, <1>4, <1>5, <1>i DEF LoopInv, PendingInv
  <2> QED BY <2>1, <2>2
<1> QED BY <1>7, <1>8, <1>13, <1>14 DEF RecordInv

\* A recording gets its header and its name, or gets stuck in between.
LEMMA ClosedIs ==
  ASSUME RecordInv, NEW s \in Streams, recorder[s] # None, files' \in Range(ClosingStages(s))
  PROVE  /\ Disk(files') /\ OnlyOf(s)
         /\ \/ /\ Part(home, s) \in DOMAIN files' /\ Final(home, s) \notin DOMAIN files'
               /\ files'[Part(home, s)].body = files[Part(home, s)].body
            \/ /\ files' = Last(ClosingStages(s))
               /\ Part(home, s) \notin DOMAIN files' /\ Final(home, s) \in DOMAIN files'
               /\ files'[Final(home, s)].body = files[Part(home, s)].body
         /\ files' = Last(ClosingStages(s)) => Final(home, s) \in DOMAIN files'
         /\ sound => BodyOf(s, files[Part(home, s)].body)
         /\ (sound' => sound) => WholeInv'
<1> DEFINE part == Part(home, s)
           final == Final(home, s)
           l == recorder[s]
           h == Header(1, l)
           ended == Last(FinishStages(files, part, h))
<1>1. /\ Disk(files) /\ part \in DOMAIN files /\ final \notin DOMAIN files /\ part.part /\ ~final.part
      /\ l \in Nat /\ l <= Len(files[part].body) /\ (sound => l = Len(files[part].body))
      /\ home # None
  BY NamesDiffer DEF RecordInv, RecordTypeInv, RecorderInv, RecorderOf
<1>2. /\ final = Final(part.dir, part.stem) /\ part # final
      /\ part.stem # "master" /\ final.stem # "master"
  BY SessionNames, NamesDiffer, RecordingsAssumption
<1>3. sound => BodyOf(s, files[part].body)
  BY <1>1 DEF RecordInv, KeptInv, KeptOf
<1>h. h \in HeaderSet /\ h.wave /\ h.channels = 1 /\ h.length = l
  BY <1>1, HeaderIs
<1>w. WholeInv
  BY DEF RecordInv
<1>u. /\ part = Part(home, s) /\ final = Final(home, s)
      /\ ended = Last(FinishStages(files, part, h))
      /\ ClosingStages(s) = FinishStages(files, part, h)
      /\ files' \in Range(FinishStages(files, part, h)) /\ l = recorder[s]
  BY DEF ClosingStages
<1> HIDE DEF part, final, l, h, ended
<1>4. /\ Disk(ended) /\ ended[final] = File(h, files[part].body)
      /\ \A n : n \in DOMAIN ended <=> (n \in DOMAIN files /\ n # part) \/ n = final
      /\ \A n \in DOMAIN files : n # part /\ n # final => ended[n] = files[n]
  BY <1>1, <1>2, <1>h, <1>u, FinishIs
<1>5. ended[final].body = files[part].body /\ ended[final].header = h
  BY <1>4 DEF File
<1>6. CASE files' \in Range(Front(FinishStages(files, part, h)))
  <2>1. /\ Disk(files') /\ DOMAIN files' = DOMAIN files /\ files'[part].body = files[part].body
        /\ files'[part].header.channels \in {files[part].header.channels, h.channels}
        /\ \A n \in DOMAIN files : n # part => files'[n] = files[n]
    BY <1>1, <1>6, <1>h, FinishFailsIs
  <2>2. OnlyOf(s)
    BY <1>u, <2>1 DEF OnlyOf
  <2>3. (sound' => sound) => WholeInv'
    <3>1. Good(part, files[part], sound)
      BY <1>1, <1>w DEF WholeInv
    <3>2. Good(part, files'[part], sound')
      BY <1>1, <1>2, <1>h, <2>1, <3>1 DEF Good
    <3> QED BY <1>w, <2>1, <3>2, SameFiles
  <2>4. files' # ended
    BY <1>1, <1>4, <2>1
  <2> QED BY <1>1, <1>3, <1>u, <2>1, <2>2, <2>3, <2>4
<1>7. CASE files' = ended
  <2>1. OnlyOf(s)
    BY <1>4, <1>7, <1>u DEF OnlyOf
  <2>2. (sound' => sound) => WholeInv'
    <3> SUFFICES ASSUME sound' => sound PROVE WholeInv'
      OBVIOUS
    <3>1. Good(final, files'[final], sound')
      BY <1>1, <1>2, <1>h, <1>5, <1>7 DEF Good
    <3>2. ASSUME NEW n \in DOMAIN files', n # final
          PROVE  n \in DOMAIN files /\ files'[n] = files[n]
      BY <1>4, <1>7, <3>2
    <3> QED BY <1>w, <3>1, <3>2, SameFiles
  <2> QED BY <1>2, <1>3, <1>4, <1>5, <1>7, <1>u, <2>1, <2>2
<1> QED BY <1>6, <1>7, <1>u, StagesAre

LEMMA CloseRecord ==
  ASSUME CaptureTypeInv, BuildInv, RecordInv, NEW s \in Streams, CloseAndFinish(s)
  PROVE  RecordInv'
<1>1. /\ loop = "shutdown" /\ loop' = "shutdown" /\ offset < Len(workers) /\ offset' = offset + 1
      /\ s = workers[offset + 1] /\ UNCHANGED <<workers, accepted>>
  BY Zenon DEF CloseAndFinish, CloseStream, ShuttingDown, inputVars
<1>2. /\ UNCHANGED <<up, dir, home, unwritten, master>>
      /\ recorder' = [recorder EXCEPT ![s] = None]
  BY DEF CloseAndFinish
<1>i. /\ RecordTypeInv /\ WholeInv /\ RecorderInv /\ ClosedInv /\ LoopInv /\ PendingInv
      /\ KeptInv /\ MasterNames /\ MasterBodies
  BY DEF RecordInv, MasterInv
<1>4. master = "none" /\ up
  BY <1>1, <1>i DEF LoopInv
<1>r. /\ recorder' \in [Streams -> Nat \cup {None}] /\ recorder'[s] = None
      /\ \A r \in Streams : r # s => recorder'[r] = recorder[r]
  BY <1>2, <1>i DEF RecordTypeInv
<1>5. RecorderOf(s)'
  BY <1>r DEF RecorderOf
<1>6. LoopInv' /\ PendingInv'
  <2>1. unwritten = None
    BY <1>1, <1>4, <1>i DEF PendingInv
  <2> QED BY <1>1, <1>2, <1>4, <2>1 DEF LoopInv, PendingInv
<1>7. ClosedInv'
  <2>1. ASSUME NEW i \in 1..(offset + 1) PROVE recorder'[workers[i]] = None
    <3>1. offset \in Nat /\ Len(workers) \in Nat /\ \A j \in 1..Len(workers) : workers[j] \in Streams
      BY WorkersType
    <3>2. i = offset + 1 \/ i \in 1..offset
      BY <3>1
    <3>3. i \in 1..Len(workers)
      BY <1>1, <3>1
    <3>4. i \in 1..offset => recorder[workers[i]] = None
      BY <1>1, <1>i DEF ClosedInv
    <3> QED BY <1>1, <1>r, <3>1, <3>2, <3>3, <3>4
  <2> QED BY <1>1, <2>1 DEF ClosedInv
<1>w. Written(s)' = Written(s)
  BY <1>1, <1>2 DEF Written
<1>b. ASSUME NEW body, BodyOf(s, body) PROVE BodyOf(s, body)'
  BY <1>1, <1>w, <1>b DEF BodyOf
<1>8. CASE recorder[s] = None
  <2>1. UNCHANGED <<files, sound>>
    BY <1>8, Zenon DEF CloseAndFinish
  <2>2. RecordTypeInv' /\ WholeInv'
    BY <1>2, <1>i, <1>r, <2>1 DEF RecordTypeInv, WholeInv
  <2>3. OnlyOf(s)
    BY <2>1 DEF OnlyOf
  <2>4. home # None /\ sound' => KeptOf(s)'
    BY <1>1, <1>2, <1>8, <1>b, <1>i, <1>r, <1>w, <2>1 DEF KeptInv, KeptOf
  <2>5. RecorderInv' /\ KeptInv' /\ MasterInv'
    BY <1>1, <1>2, <1>4, <1>5, <1>i, <1>r, <2>1, <2>3, <2>4, OneStream
  <2> QED BY <1>6, <1>7, <2>2, <2>5 DEF RecordInv
<1>9. CASE recorder[s] # None
  <2> DEFINE stages == ClosingStages(s)
  <2>1. \/ files' = Last(stages) /\ sound' = sound
        \/ files' \in Range(Front(stages)) /\ sound' = FALSE
    BY <1>9, Zenon DEF CloseAndFinish
  <2>2. files' \in Range(stages)
    BY <2>1, RangeOfStages DEF ClosingStages
  <2>3. /\ Disk(files') /\ OnlyOf(s)
        /\ \/ /\ Part(home, s) \in DOMAIN files' /\ Final(home, s) \notin DOMAIN files'
              /\ files'[Part(home, s)].body = files[Part(home, s)].body
           \/ /\ files' = Last(stages)
              /\ Part(home, s) \notin DOMAIN files' /\ Final(home, s) \in DOMAIN files'
              /\ files'[Final(home, s)].body = files[Part(home, s)].body
        /\ files' = Last(stages) => Final(home, s) \in DOMAIN files'
        /\ sound => BodyOf(s, files[Part(home, s)].body)
        /\ (sound' => sound) => WholeInv'
    BY <1>9, <2>2, ClosedIs
  <2>s. sound' \in BOOLEAN /\ (sound' => sound)
    <3>1. sound \in BOOLEAN
      BY <1>i DEF RecordTypeInv
    <3>2. sound' = sound \/ sound' = FALSE
      BY <2>1, Zenon
    <3> QED BY <3>1, <3>2, StillOrNot
  <2>4. RecordTypeInv' /\ WholeInv'
    BY <1>2, <1>i, <1>r, <2>3, <2>s DEF RecordTypeInv
  <2> HIDE DEF stages
  <2>5. sound' => KeptOf(s)'
    <3> SUFFICES ASSUME sound' PROVE KeptOf(s)'
      OBVIOUS
    <3>1. files' = Last(stages) /\ sound
      BY <2>1, <2>s
    <3>2. PICK body : body = files[Part(home, s)].body
      OBVIOUS
    <3>3. BodyOf(s, body)'
      BY <1>b, <2>3, <3>1, <3>2
    <3> QED BY <1>1, <1>2, <1>r, <2>3, <3>1, <3>2, <3>3 DEF KeptOf
  <2>6. RecorderInv' /\ KeptInv' /\ MasterInv'
    BY <1>1, <1>2, <1>4, <1>5, <1>i, <1>r, <2>3, <2>s, <2>5, OneStream
  <2> QED BY <1>6, <1>7, <2>4, <2>6 DEF RecordInv
<1> QED BY <1>8, <1>9

\* A crash: no recorder and no thread is left, and the disk is as it was or has a
\* block, a piece of one or a stage of a finish more.
LEMMA HaltIs ==
  ASSUME Halt
  PROVE  /\ up' = FALSE /\ loop' = "ended" /\ recorder' = [s \in Streams |-> None]
         /\ UNCHANGED <<workers, accepted, dir, home, unwritten>>
         /\ master \in {"none", "writing"} => master' = "cut"
         /\ master \notin {"none", "writing"} => master' = master
BY DEF Halt

LEMMA HaltKeeps ==
  ASSUME CaptureTypeInv, RecordInv, Halt, UNCHANGED sound, Disk(files'), WholeInv', KeptInv',
         MasterInv'
  PROVE  RecordInv'
<1>1. /\ up' = FALSE /\ loop' = "ended" /\ recorder' = [s \in Streams |-> None]
      /\ UNCHANGED <<workers, accepted, dir, home, unwritten>>
      /\ master \in {"none", "writing"} => master' = "cut"
      /\ master \notin {"none", "writing"} => master' = master
  BY HaltIs
<1>i. RecordTypeInv /\ PendingInv /\ LoopInv
  BY DEF RecordInv
<1>2. RecordTypeInv'
  BY <1>1, <1>i DEF RecordTypeInv
<1>3. RecorderInv' /\ ClosedInv' /\ LoopInv'
  BY <1>1 DEF RecorderInv, RecorderOf, ClosedInv, LoopInv
<1>4. PendingInv'
  BY <1>1, <1>i DEF PendingInv, LoopInv
<1> QED BY <1>2, <1>3, <1>4 DEF RecordInv

LEMMA HaltMaster ==
  ASSUME RecordInv, Halt, UNCHANGED sound,
         MasterName \in DOMAIN files' <=> MasterName \in DOMAIN files,
         MasterFinal \in DOMAIN files' <=> MasterFinal \in DOMAIN files,
         MasterName \in DOMAIN files => files'[MasterName] = files[MasterName],
         MasterFinal \in DOMAIN files => files'[MasterFinal] = files[MasterFinal]
  PROVE  MasterInv'
<1>1. /\ UNCHANGED <<workers, accepted, dir, home>>
      /\ master \in {"none", "writing"} => master' = "cut"
      /\ master \notin {"none", "writing"} => master' = master
  BY HaltIs
<1>i. RecordTypeInv /\ MasterNames /\ MasterBodies
  BY DEF RecordInv, MasterInv
<1>2. MasterName' = MasterName /\ MasterFinal' = MasterFinal
  BY <1>1 DEF MasterName, MasterFinal
<1>3. ASSUME NEW body, Beginning(body) /\ WholeFrames(body)
      PROVE  (Beginning(body) /\ WholeFrames(body))'
  BY <1>1, <1>3 DEF Beginning, WholeFrames
<1>4. MasterNames'
  BY <1>1, <1>i, <1>2 DEF MasterNames, RecordTypeInv
<1>5. MasterBodies'
  BY <1>1, <1>i, <1>2, <1>3 DEF MasterBodies, RecordTypeInv
<1> QED BY <1>4, <1>5 DEF MasterInv

\* What a stream has handed over is on the disk still.
LEMMA HaltKept ==
  ASSUME RecordInv, Halt, UNCHANGED sound, NEW r \in Streams,
         home # None, sound,
         Part(home, r) \in DOMAIN files' <=> Part(home, r) \in DOMAIN files,
         Final(home, r) \in DOMAIN files' <=> Final(home, r) \in DOMAIN files,
         Part(home, r) \in DOMAIN files => files'[Part(home, r)] = files[Part(home, r)],
         Final(home, r) \in DOMAIN files => files'[Final(home, r)] = files[Final(home, r)]
  PROVE  KeptOf(r)'
<1> DEFINE part == Part(home, r)
           final == Final(home, r)
<1>1. /\ recorder' = [s \in Streams |-> None]
      /\ UNCHANGED <<workers, accepted, home, unwritten>>
      /\ master \in {"none", "writing"} => master' = "cut"
      /\ master \notin {"none", "writing"} => master' = master
  BY HaltIs
<1>2. Part(home', r) = part /\ Final(home', r) = final /\ Written(r)' = Written(r)
  BY <1>1 DEF Written
<1>3. KeptOf(r)
  BY DEF RecordInv, KeptInv
<1>4. master' # "cut" => master # "cut" /\ recorder[r] = None
  BY <1>1 DEF RecordInv, LoopInv, ClosedInv
<1>5. ASSUME NEW body, BodyOf(r, body) PROVE BodyOf(r, body)'
  BY <1>1, <1>2, <1>5 DEF BodyOf
<1>6. recorder'[r] = None
  BY <1>1
<1>7. /\ part \in DOMAIN files' <=> part \in DOMAIN files
      /\ part \in DOMAIN files => files'[part] = files[part]
      /\ final \in DOMAIN files' <=> final \in DOMAIN files
      /\ final \in DOMAIN files => files'[final] = files[final]
  OBVIOUS
<1>u. part = Part(home, r) /\ final = Final(home, r)
  OBVIOUS
<1> HIDE DEF part, final
<1> QED BY <1>1, <1>2, <1>3, <1>4, <1>5, <1>6, <1>7, <1>u DEF KeptOf

LEMMA CrashRecord ==
  ASSUME CaptureTypeInv, RecordInv, Crash
  PROVE  RecordInv'
<1>1. Halt /\ UNCHANGED <<files, sound>>
  BY DEF Crash
<1>2. UNCHANGED home
  BY <1>1, HaltIs
<1>3. Disk(files') /\ WholeInv'
  BY <1>1 DEF RecordInv, RecordTypeInv, WholeInv
<1>4. KeptInv'
  <2> SUFFICES ASSUME home # None, sound, NEW s \in Streams PROVE KeptOf(s)'
    BY <1>1, <1>2 DEF KeptInv
  <2> QED BY <1>1, HaltKept
<1>5. MasterInv'
  BY <1>1, HaltMaster
<1> QED BY <1>1, <1>3, <1>4, <1>5, HaltKeeps

\* A crash in the middle of what is done to the files of one stream.
LEMMA HaltInStream ==
  ASSUME CaptureTypeInv, RecordInv, Halt, UNCHANGED sound, NEW s \in Streams, OnlyOf(s),
         Disk(files'), WholeInv', home # None /\ sound => KeptOf(s)'
  PROVE  RecordInv'
<1>1. UNCHANGED home
  BY HaltIs
<1>2. KeptInv'
  <2> SUFFICES ASSUME home # None, sound, NEW r \in Streams PROVE KeptOf(r)'
    BY <1>1 DEF KeptInv
  <2>1. CASE r = s
    BY <2>1
  <2>2. CASE r # s
    <3> DEFINE part == Part(home, r)
               final == Final(home, r)
    <3>1. /\ part # Part(home, s) /\ part # Final(home, s)
          /\ final # Part(home, s) /\ final # Final(home, s)
      BY <2>2, SessionNames
    <3> HIDE DEF part, final
    <3>2. /\ part \in DOMAIN files' <=> part \in DOMAIN files
          /\ part \in DOMAIN files => files'[part] = files[part]
          /\ final \in DOMAIN files' <=> final \in DOMAIN files
          /\ final \in DOMAIN files => files'[final] = files[final]
      BY <3>1 DEF OnlyOf
    <3> USE DEF part, final
    <3> QED BY <3>2, HaltKept
  <2> QED BY <2>1, <2>2
<1>3. /\ MasterName # Part(home, s) /\ MasterName # Final(home, s)
      /\ MasterFinal # Part(home, s) /\ MasterFinal # Final(home, s)
  BY SessionNames
<1>4. /\ MasterName \in DOMAIN files' <=> MasterName \in DOMAIN files
      /\ MasterFinal \in DOMAIN files' <=> MasterFinal \in DOMAIN files
      /\ MasterName \in DOMAIN files => files'[MasterName] = files[MasterName]
      /\ MasterFinal \in DOMAIN files => files'[MasterFinal] = files[MasterFinal]
  BY <1>3 DEF OnlyOf
<1>5. MasterInv'
  BY <1>4, HaltMaster
<1> QED BY <1>2, <1>5, HaltKeeps

LEMMA CrashInWriteRecord ==
  ASSUME CaptureTypeInv, RecordInv, NEW s \in Streams, CrashInWrite(s)
  PROVE  RecordInv'
<1> DEFINE part == Part(home, s)
<1>1. /\ Halt /\ UNCHANGED sound /\ unwritten = s /\ recorder[s] # None
      /\ files' = NextBlock(s, FALSE)
  BY DEF CrashInWrite
<1>2. /\ recorder' = [r \in Streams |-> None]
      /\ UNCHANGED <<workers, accepted, home, unwritten>>
      /\ master \in {"none", "writing"} => master' = "cut"
  BY <1>1, HaltIs
<1>i. /\ WholeInv /\ RecorderInv /\ ClosedInv /\ LoopInv /\ PendingInv /\ KeptInv
  BY DEF RecordInv
<1>3. /\ loop # "ended" /\ master = "none" /\ home # None /\ part.part
      /\ Final(home, s) \notin DOMAIN files
  <2>1. loop # "ended"
    BY <1>1, <1>i DEF ClosedInv
  <2> QED BY <1>1, <1>i, <2>1, NamesDiffer DEF LoopInv, RecorderInv, RecorderOf
<1>4. master # "cut"
  BY <1>3
<1>5. ASSUME NEW whole, NEW gs, gs = NextBlock(s, whole)
      PROVE  /\ Disk(gs) /\ DOMAIN gs = DOMAIN files /\ part \in DOMAIN files
             /\ gs[part].header = files[part].header
             /\ \A n \in DOMAIN files : n # part => gs[n] = files[n]
             /\ sound /\ home # None =>
                  /\ Len(gs[part].body) = Len(accepted[s])
                  /\ \A i \in 1..Len(accepted[s]) : /\ gs[part].body[i].chunk = accepted[s][i]
                                                    /\ i <= Written(s) => gs[part].body[i].whole
  BY <1>1, <1>4, <1>5, GrownIs
<1>6. /\ Disk(files') /\ DOMAIN files' = DOMAIN files /\ part \in DOMAIN files
      /\ files'[part].header = files[part].header
      /\ \A n \in DOMAIN files : n # part => files'[n] = files[n]
      /\ sound /\ home # None =>
           /\ Len(files'[part].body) = Len(accepted[s])
           /\ \A i \in 1..Len(accepted[s]) : /\ files'[part].body[i].chunk = accepted[s][i]
                                             /\ i <= Written(s) => files'[part].body[i].whole
  <2>1. PICK w : w = FALSE
    OBVIOUS
  <2>2. files' = NextBlock(s, w)
    BY <1>1, <2>1
  <2> QED BY ONLY <1>5, <2>2
<1>7. WholeInv'
  <2>1. Good(part, files'[part], sound')
    <3>1. Good(part, files[part], sound)
      BY <1>6, <1>i DEF WholeInv
    <3> QED BY <1>3, <1>6, <3>1 DEF Good
  <2>2. sound' => sound
    BY <1>1
  <2> HIDE DEF part
  <2> QED BY <1>i, <1>6, <2>1, <2>2, SameFiles
<1>8. OnlyOf(s)
  BY <1>6 DEF OnlyOf
<1>9. home # None /\ sound => KeptOf(s)'
  <2> SUFFICES ASSUME home # None, sound PROVE KeptOf(s)'
    OBVIOUS
  <2>1. Written(s)' = Written(s)
    BY <1>2 DEF Written
  <2>2. ASSUME NEW body, body = files'[part].body PROVE BodyOf(s, body)'
    BY <1>2, <1>6, <2>1, <2>2 DEF BodyOf
  <2>3. recorder'[s] = None /\ master' = "cut"
    BY <1>2, <1>3
  <2> QED BY <1>2, <1>3, <1>6, <2>2, <2>3 DEF KeptOf
<1> QED BY <1>1, <1>6, <1>7, <1>8, <1>9, HaltInStream

LEMMA CrashInFinishRecord ==
  ASSUME CaptureTypeInv, RecordInv, NEW s \in Streams, CrashInFinish(s)
  PROVE  RecordInv'
<1> DEFINE stages == ClosingStages(s)
<1>1. Halt /\ UNCHANGED sound /\ files' \in Range(stages) /\ recorder[s] # None
      /\ loop = "shutdown"
  BY Zenon DEF CrashInFinish, ShuttingDown
<1>2. /\ recorder' = [r \in Streams |-> None]
      /\ UNCHANGED <<workers, accepted, home, unwritten>>
  BY <1>1, HaltIs
<1>3. /\ Disk(files') /\ OnlyOf(s)
      /\ \/ /\ Part(home, s) \in DOMAIN files' /\ Final(home, s) \notin DOMAIN files'
            /\ files'[Part(home, s)].body = files[Part(home, s)].body
         \/ /\ files' = Last(stages)
            /\ Part(home, s) \notin DOMAIN files' /\ Final(home, s) \in DOMAIN files'
            /\ files'[Final(home, s)].body = files[Part(home, s)].body
      /\ files' = Last(stages) => Final(home, s) \in DOMAIN files'
      /\ sound => BodyOf(s, files[Part(home, s)].body)
      /\ (sound' => sound) => WholeInv'
  BY <1>1, ClosedIs
<1> HIDE DEF stages
<1>4. master = "none" /\ master' = "cut"
  BY <1>1, HaltIs DEF RecordInv, LoopInv
<1>5. home # None /\ sound => KeptOf(s)'
  <2> SUFFICES ASSUME home # None, sound PROVE KeptOf(s)'
    OBVIOUS
  <2>1. Written(s)' = Written(s)
    BY <1>2 DEF Written
  <2>2. ASSUME NEW body, body = files[Part(home, s)].body PROVE BodyOf(s, body)'
    <3>1. BodyOf(s, body)
      BY <1>3, <2>2
    <3> QED BY <1>2, <2>1, <3>1 DEF BodyOf
  <2>3. recorder'[s] = None
    BY <1>2
  <2> QED BY <1>2, <1>3, <1>4, <2>2, <2>3 DEF KeptOf
<1> QED BY <1>1, <1>3, <1>5, HaltInStream
--------------------------------------------------------------------------------
\* The master: the tracks are the first two streams.
LEMMA TracksAre ==
  ASSUME CaptureTypeInv, RecordInv, loop = "ended", master # "cut", sound, home # None
  PROVE  /\ Cardinality(Recorded) = Len(workers)
         /\ Len(workers) >= 2 => Track(1) = workers[1] /\ Track(2) = workers[2]
         /\ \A i \in 1..Len(workers) :
              /\ Final(home, workers[i]) \in DOMAIN files
              /\ Written(workers[i]) = Len(accepted[workers[i]])
<1>w. /\ Len(workers) \in Nat
      /\ \A i \in 1..Len(workers) : workers[i] \in Streams /\ workers[i] \in Range(workers)
  BY WorkersType
<1>p. PendingInv /\ unwritten = None
  BY DEF RecordInv, PendingInv
<1>1. ASSUME NEW i \in 1..Len(workers)
      PROVE  /\ Final(home, workers[i]) \in DOMAIN files
             /\ Written(workers[i]) = Len(accepted[workers[i]])
  <2>1. recorder[workers[i]] = None /\ KeptOf(workers[i])
    BY <1>w DEF RecordInv, ClosedInv, KeptInv
  <2>2. workers[i] \in Streams /\ unwritten # workers[i]
    BY <1>w, <1>p, RecordingsAssumption
  <2>3. Written(workers[i]) = Len(accepted[workers[i]])
    BY <1>p, <2>2, WrittenIs
  <2> QED BY <1>w, <2>1, <2>3 DEF KeptOf
<1>2. Recorded = 1..Len(workers)
  BY <1>1 DEF Recorded
<1>3. ASSUME NEW i \in 1..Len(workers) PROVE Cardinality({j \in 1..Len(workers) : j <= i}) = i
  <2>1. {j \in 1..Len(workers) : j <= i} = 1..i
    BY <1>w
  <2>2. Cardinality(1..i) = i
    BY <1>w, CardinalityOfFirst
  <2> QED BY <2>1, <2>2
<1>4. ASSUME NEW t \in 1..Len(workers) PROVE Track(t) = workers[t]
  <2>1. (CHOOSE i \in 1..Len(workers) : Cardinality({j \in 1..Len(workers) : j <= i}) = t) = t
    BY <1>3
  <2> QED BY <1>2, <2>1 DEF Track
<1>5. Len(workers) >= 2 => Track(1) = workers[1] /\ Track(2) = workers[2]
  BY <1>w, <1>4
<1> QED BY <1>w, <1>1, <1>2, <1>5, CardinalityOfFirst

\* A step of the master leaves the streams, and the loop is at its end.
OnlyMaster ==
  \A n : n # MasterName /\ n # MasterFinal =>
    /\ n \in DOMAIN files' <=> n \in DOMAIN files
    /\ n \in DOMAIN files => files'[n] = files[n]

LEMMA MasterLeaves ==
  ASSUME OnlyMaster, NEW s \in Streams
  PROVE  /\ Part(home, s) \in DOMAIN files' <=> Part(home, s) \in DOMAIN files
         /\ Final(home, s) \in DOMAIN files' <=> Final(home, s) \in DOMAIN files
         /\ Part(home, s) \in DOMAIN files => files'[Part(home, s)] = files[Part(home, s)]
         /\ Final(home, s) \in DOMAIN files => files'[Final(home, s)] = files[Final(home, s)]
<1> DEFINE part == Part(home, s)
           final == Final(home, s)
<1>1. /\ part # MasterName /\ part # MasterFinal
      /\ final # MasterName /\ final # MasterFinal
  BY SessionNames
<1> HIDE DEF part, final
<1>2. /\ part \in DOMAIN files' <=> part \in DOMAIN files
      /\ part \in DOMAIN files => files'[part] = files[part]
      /\ final \in DOMAIN files' <=> final \in DOMAIN files
      /\ final \in DOMAIN files => files'[final] = files[final]
  BY <1>1 DEF OnlyMaster
<1> QED BY <1>2 DEF part, final

\* A crash in the middle of what is done to the files of the master.
LEMMA HaltInMaster ==
  ASSUME CaptureTypeInv, RecordInv, Halt, UNCHANGED sound, OnlyMaster,
         Disk(files'), WholeInv', MasterInv'
  PROVE  RecordInv'
<1>1. UNCHANGED home
  BY HaltIs
<1>2. KeptInv'
  <2> SUFFICES ASSUME home # None, sound, NEW r \in Streams PROVE KeptOf(r)'
    BY <1>1 DEF KeptInv
  <2> QED BY MasterLeaves, HaltKept
<1> QED BY <1>2, HaltKeeps

LEMMA MasterStep ==
  ASSUME RecordInv, loop = "ended", master # "cut", master' # "cut", up,
         UNCHANGED <<captureVars, up, dir, home, recorder, unwritten, sound>>,
         master' \in {"single", "writing", "done", "failed"},
         Disk(files'), WholeInv', MasterInv', OnlyMaster
  PROVE  RecordInv'
<1>u. /\ UNCHANGED <<up, dir, home, recorder, sound, loop, offset, workers, accepted>>
      /\ unwritten' = unwritten
  BY DEF captureVars, loopVars, inputVars
<1>i. RecordTypeInv /\ RecorderInv /\ ClosedInv /\ LoopInv /\ KeptInv /\ PendingInv
  BY DEF RecordInv
<1>1. RecordTypeInv'
  BY <1>u, <1>i DEF RecordTypeInv
<1>2. ClosedInv' /\ LoopInv' /\ PendingInv'
  BY <1>u, <1>i DEF ClosedInv, LoopInv, PendingInv
<1>3. RecorderInv'
  BY <1>u, <1>i DEF RecorderInv, RecorderOf, ClosedInv
<1>4. KeptInv'
  <2> SUFFICES ASSUME home # None, sound, NEW s \in Streams PROVE KeptOf(s)'
    BY <1>u DEF KeptInv
  <2> DEFINE part == Part(home, s)
             final == Final(home, s)
  <2>2. Part(home', s) = part /\ Final(home', s) = final
    BY <1>u
  <2>3. /\ part \in DOMAIN files' <=> part \in DOMAIN files
        /\ part \in DOMAIN files => files'[part] = files[part]
        /\ final \in DOMAIN files' <=> final \in DOMAIN files
        /\ final \in DOMAIN files => files'[final] = files[final]
    BY MasterLeaves
  <2>4. KeptOf(s) /\ recorder[s] = None
    BY <1>i DEF KeptInv, ClosedInv
  <2>5. Written(s)' = Written(s)
    BY <1>u DEF Written
  <2>6. ASSUME NEW body, BodyOf(s, body) PROVE BodyOf(s, body)'
    BY <1>u, <2>5, <2>6 DEF BodyOf
  <2>u. part = Part(home, s) /\ final = Final(home, s)
    OBVIOUS
  <2> HIDE DEF part, final
  <2> QED BY <1>u, <2>2, <2>3, <2>4, <2>5, <2>6, <2>u DEF KeptOf
<1> QED BY <1>1, <1>2, <1>3, <1>4 DEF RecordInv

LEMMA MasterSame ==
  ASSUME RecordInv, UNCHANGED <<captureVars, home>>
  PROVE  /\ UNCHANGED <<loop, workers, accepted, MasterName, MasterFinal>>
         /\ \A body : Beginning(body)' <=> Beginning(body)
<1>1. UNCHANGED <<loop, workers, accepted>>
  BY DEF captureVars, loopVars, inputVars
<1>2. MasterName' = MasterName /\ MasterFinal' = MasterFinal
  BY DEF MasterName, MasterFinal
<1>3. \A body : Beginning(body)' <=> Beginning(body)
  BY <1>1 DEF Beginning
<1> QED BY <1>1, <1>2, <1>3

LEMMA MasterNamed ==
  ASSUME RecordInv
  PROVE  /\ MasterName \in NameSet /\ MasterFinal \in NameSet
         /\ MasterName.part /\ ~MasterFinal.part /\ MasterName # MasterFinal
         /\ MasterName.stem = "master" /\ MasterFinal.stem = "master"
         /\ MasterFinal = Final(MasterName.dir, MasterName.stem)
<1>1. home \in Dirs \cup {None}
  BY DEF RecordInv, RecordTypeInv
<1> QED BY <1>1, NamesOfSession, NamesDiffer DEF MasterName, MasterFinal

\* While nothing has cut the master, all of its frames are whole.
AllWhole(body) == \A i \in 1..Len(body) : body[i].whole

LEMMA AllWholeIs ==
  ASSUME NEW body
  PROVE  /\ AllWhole(body) => WholeFrames(body) /\ WholeFrames(body)'
         /\ master # "cut" => (WholeFrames(body) <=> AllWhole(body))
BY DEF AllWhole, WholeFrames

\* What an unfinished master comes with.
LEMMA WritingIs ==
  ASSUME RecordInv, master = "writing"
  PROVE  /\ up /\ loop = "ended" /\ home # None /\ unwritten = None
         /\ Disk(files) /\ WholeInv /\ MasterFinal \notin DOMAIN files /\ MasterName \in DOMAIN files
         /\ sound => /\ Len(workers) >= 2 /\ Beginning(files[MasterName].body)
                     /\ AllWhole(files[MasterName].body)
<1>1. /\ up /\ loop = "ended" /\ home # None /\ unwritten = None
      /\ Disk(files) /\ WholeInv /\ MasterFinal \notin DOMAIN files /\ MasterName \in DOMAIN files
  BY DEF RecordInv, LoopInv, PendingInv, RecordTypeInv, MasterInv, MasterNames
<1>2. sound => /\ Len(workers) >= 2 /\ Beginning(files[MasterName].body)
               /\ AllWhole(files[MasterName].body)
  BY <1>1, AllWholeIs DEF RecordInv, MasterInv, MasterBodies
<1> QED BY <1>1, <1>2

LEMMA MasterStartsRecord ==
  ASSUME CaptureTypeInv, RecordInv, MasterStarts
  PROVE  RecordInv'
<1>1. /\ up /\ loop = "ended" /\ master = "none"
      /\ UNCHANGED <<captureVars, up, dir, home, recorder, unwritten, sound>>
  BY DEF MasterStarts
<1>2. /\ UNCHANGED <<loop, workers, accepted, MasterName, MasterFinal>>
      /\ \A body : Beginning(body)' <=> Beginning(body)
  BY <1>1, MasterSame
<1>n. /\ MasterName \in NameSet /\ MasterFinal \in NameSet /\ MasterName.stem = "master"
      /\ MasterName.part /\ ~MasterFinal.part /\ MasterName # MasterFinal
  BY MasterNamed
<1>i. /\ Disk(files) /\ WholeInv /\ MasterName \notin DOMAIN files /\ MasterFinal \notin DOMAIN files
  BY <1>1 DEF RecordInv, RecordTypeInv, MasterInv, MasterNames
<1>3. CASE Cardinality(Recorded) < 2 /\ master' = "single" /\ UNCHANGED files
  <2>1. MasterInv' /\ WholeInv'
    BY <1>1, <1>2, <1>3, <1>i DEF MasterInv, MasterNames, MasterBodies, WholeInv
  <2>2. OnlyMaster
    BY <1>3 DEF OnlyMaster
  <2> QED BY <1>1, <1>3, <1>i, <2>1, <2>2, MasterStep
<1>4. CASE ~(Cardinality(Recorded) < 2) /\ master' = "writing"
           /\ files' = Put(files, MasterName, File(Header(2, 0), <<>>))
  <2> DEFINE empty == File(Header(2, 0), <<>>)
             name == MasterName
  <2>1. /\ IsFile(empty) /\ empty.body = <<>> /\ empty.header.wave /\ empty.header.channels = 2
        /\ name \in NameSet /\ files' = Put(files, name, empty)
    BY <1>4, <1>n, EmptyFile
  <2>u. name = MasterName
    OBVIOUS
  <2> HIDE DEF empty, name
  <2>2. /\ Disk(files') /\ files'[name] = empty
        /\ \A n : n \in DOMAIN files' <=> n \in DOMAIN files \/ n = name
        /\ \A n \in DOMAIN files : n # name => files'[n] = files[n]
    BY <1>i, <2>1, PutIs
  <2>3. WholeInv'
    <3>1. Good(name, files'[name], sound')
      BY <1>n, <2>1, <2>2, <2>u DEF Good
    <3> QED BY <1>1, <1>i, <2>2, <3>1, SameFiles
  <2>4. home # None
    <3>1. CASE Recorded = {}
      BY <1>4, <3>1, FS_EmptySet
    <3>2. CASE Recorded # {}
      BY <3>2 DEF Recorded
    <3> QED BY <3>1, <3>2
  <2>5. sound => Len(workers) >= 2
    <3>1. sound => Cardinality(Recorded) = Len(workers)
      BY <1>1, <2>4, TracksAre
    <3> QED BY <1>4, <3>1, WorkersType
  <2>6. Beginning(files'[name].body) /\ AllWhole(files'[name].body)
    BY <2>1, <2>2 DEF Beginning, AllWhole
  <2>7. MasterInv'
    <3>1. MasterNames'
      BY <1>1, <1>2, <1>4, <1>i, <1>n, <2>2, <2>4, <2>u DEF MasterNames
    <3>2. ASSUME NEW body, body = files'[name].body
          PROVE  Beginning(body)' /\ WholeFrames(body)'
      BY <1>2, <2>6, <3>2, AllWholeIs
    <3>3. MasterBodies'
      BY <1>1, <1>2, <1>4, <1>i, <1>n, <2>2, <2>4, <2>5, <2>u, <3>2 DEF MasterBodies
    <3> QED BY <3>1, <3>3 DEF MasterInv
  <2>8. OnlyMaster
    BY <2>2, <2>u DEF OnlyMaster
  <2> QED BY <1>1, <1>4, <2>2, <2>3, <2>7, <2>8, MasterStep
<1> QED BY <1>3, <1>4 DEF MasterStarts

LEMMA MasterFailsRecord ==
  ASSUME CaptureTypeInv, RecordInv, MasterFails
  PROVE  RecordInv'
<1>1. /\ up /\ master = "writing" /\ master' = "failed"
      /\ files' = Unlink(files, MasterName)
      /\ UNCHANGED <<captureVars, up, dir, home, recorder, unwritten, sound>>
  BY DEF MasterFails
<1>2. UNCHANGED <<loop, workers, accepted, MasterName, MasterFinal>>
  BY <1>1, MasterSame
<1>i. /\ Disk(files) /\ WholeInv /\ MasterFinal \notin DOMAIN files /\ loop = "ended"
  BY <1>1, WritingIs
<1> DEFINE name == MasterName
<1>u. name = MasterName /\ files' = Unlink(files, name)
  BY <1>1
<1> HIDE DEF name
<1>3. /\ Disk(files')
      /\ \A n : n \in DOMAIN files' <=> n \in DOMAIN files /\ n # name
      /\ \A n \in DOMAIN files' : files'[n] = files[n]
  BY <1>i, <1>u, UnlinkIs
<1>4. WholeInv'
  BY <1>1, <1>i, <1>3, SameFiles
<1>5. MasterInv'
  BY <1>1, <1>2, <1>i, <1>3, <1>u DEF MasterInv, MasterNames, MasterBodies
<1>6. OnlyMaster
  BY <1>3, <1>u DEF OnlyMaster
<1> QED BY <1>1, <1>3, <1>4, <1>5, <1>6, <1>i, MasterStep

\* What the two tracks are, when nothing has failed.
LEMMA TrackIs ==
  ASSUME CaptureTypeInv, RecordInv, master = "writing", sound, NEW t \in 1..2
  PROVE  LET a == accepted[workers[t]]
         IN /\ files[Final(home, Track(t))].header.length = Len(a) /\ Len(a) \in Nat
            /\ \A i \in Nat \ {0} : Frame(Track(t), i) = IF i <= Len(a) THEN a[i] ELSE Silence
<1>1. loop = "ended" /\ home # None /\ Len(workers) >= 2 /\ KeptInv /\ WholeInv
  BY WritingIs DEF RecordInv
<1>w. /\ Len(workers) \in Nat /\ accepted \in [Streams -> Seq(Nat)]
      /\ \A i \in 1..Len(workers) : workers[i] \in Streams
  BY WorkersType
<1>2. /\ t \in 1..Len(workers) /\ Track(t) = workers[t] /\ Final(home, workers[t]) \in DOMAIN files
      /\ Written(workers[t]) = Len(accepted[workers[t]])
  <2>1. t \in 1..Len(workers)
    BY <1>1, <1>w
  <2>2. /\ Track(1) = workers[1] /\ Track(2) = workers[2]
        /\ \A i \in 1..Len(workers) :
             /\ Final(home, workers[i]) \in DOMAIN files
             /\ Written(workers[i]) = Len(accepted[workers[i]])
    BY <1>1, TracksAre
  <2> QED BY <2>1, <2>2
<1> DEFINE w == workers[t]
           n == Final(home, w)
<1>3. /\ w \in Streams /\ n = Final(home, w) /\ Track(t) = w /\ n \in DOMAIN files
      /\ Written(w) = Len(accepted[w])
  BY <1>2, <1>w
<1> HIDE DEF n
<1>4. /\ BodyOf(w, files[n].body) /\ files[n].header.length = Len(files[n].body)
  <2>1. KeptOf(w) /\ ~n.part
    BY <1>1, <1>3, NamesDiffer DEF KeptInv
  <2>2. Good(n, files[n], sound)
    BY <1>1, <1>3 DEF WholeInv
  <2> QED BY <1>1, <1>3, <2>1, <2>2 DEF KeptOf, Good
<1>5. Len(accepted[w]) \in Nat
  BY <1>3, <1>w, LenProperties
<1>6. /\ Len(files[n].body) = Len(accepted[w])
      /\ \A i \in 1..Len(accepted[w]) : files[n].body[i].chunk = accepted[w][i]
  BY <1>3, <1>4 DEF BodyOf
<1>7. ASSUME NEW i \in Nat \ {0}
      PROVE  Frame(Track(t), i) = IF i <= Len(accepted[w]) THEN accepted[w][i] ELSE Silence
  <2>1. CASE i <= Len(accepted[w])
    <3>1. i \in 1..Len(accepted[w])
      BY <1>5, <2>1
    <3> QED BY <1>3, <1>4, <1>6, <2>1, <3>1 DEF Frame
  <2>2. CASE ~(i <= Len(accepted[w]))
    BY <1>3, <1>4, <1>6, <2>2 DEF Frame
  <2> QED BY <2>1, <2>2
<1> QED BY <1>3, <1>4, <1>5, <1>6, <1>7

LEMMA LongerBeginning ==
  ASSUME NEW body, body \in Seq(Range(body)), Beginning(body), AllWhole(body), NEW block,
         \A t \in 1..2 : block.chunk[t] = IF Len(body) + 1 <= Len(accepted[workers[t]])
                                          THEN accepted[workers[t]][Len(body) + 1] ELSE Silence
  PROVE  LET longer == Append(body, block)
         IN /\ Beginning(longer) /\ Len(body) \in Nat /\ Len(longer) = Len(body) + 1
            /\ \A i \in 1..Len(longer) : IF i = Len(longer) THEN longer[i] = block
                                         ELSE longer[i].whole
<1> DEFINE S == Range(body) \cup {block}
           longer == Append(body, block)
<1>1. body \in Seq(S) /\ block \in S
  BY SeqDef
<1> HIDE DEF S
<1>2. /\ Len(body) \in Nat /\ Len(longer) = Len(body) + 1 /\ longer[Len(body) + 1] = block
      /\ \A i \in 1..Len(body) : longer[i] = body[i]
  BY <1>1, AppendProperties, LenProperties
<1>u. longer = Append(body, block)
  OBVIOUS
<1> HIDE DEF longer
<1>3. ASSUME NEW i \in 1..Len(longer), NEW t \in 1..2
      PROVE  longer[i].chunk[t] = IF i <= Len(accepted[workers[t]])
                                  THEN accepted[workers[t]][i] ELSE Silence
  <2>1. CASE i = Len(body) + 1
    BY <1>2, <2>1
  <2>2. CASE i # Len(body) + 1
    <3>1. i \in 1..Len(body)
      BY <1>2, <2>2
    <3> QED BY <1>2, <3>1 DEF Beginning
  <2> QED BY <2>1, <2>2
<1>4. Beginning(longer)
  BY <1>3 DEF Beginning
<1>5. \A i \in 1..Len(longer) : IF i = Len(longer) THEN longer[i] = block ELSE longer[i].whole
  BY <1>2 DEF AllWhole
<1> QED BY <1>2, <1>4, <1>5, <1>u

\* One more frame, to its end or cut off.
LEMMA FramesAre ==
  ASSUME CaptureTypeInv, RecordInv, master = "writing", NEW whole, NEW gs, gs = Frames(whole)
  PROVE  /\ Disk(gs) /\ DOMAIN gs = DOMAIN files
         /\ gs[MasterName].header = files[MasterName].header
         /\ \A n \in DOMAIN files : n # MasterName => gs[n] = files[n]
         /\ sound =>
              /\ Beginning(gs[MasterName].body)
              /\ \A i \in 1..Len(gs[MasterName].body) :
                   IF i = Len(gs[MasterName].body) THEN gs[MasterName].body[i].whole = whole
                   ELSE gs[MasterName].body[i].whole
<1> DEFINE name == MasterName
           body == files[name].body
           k == Len(body) + 1
           f == <<Frame(Track(1), k), Frame(Track(2), k)>>
           block == Block(f, whole)
           longer == Append(body, block)
<1>i. /\ Disk(files) /\ name \in DOMAIN files
      /\ sound => Beginning(body) /\ AllWhole(body)
  BY WritingIs
<1>1. gs = WithChunk(files, name, block)
  BY DEF Frames, Grown, WithChunk
<1>2. block.chunk = f /\ block.whole = whole
  BY DEF Block
<1>3. body \in Seq(Range(body)) /\ Len(body) \in Nat /\ k \in Nat \ {0}
  BY <1>i, LengthOfBody
<1>f. ASSUME sound, NEW t \in 1..2
      PROVE  f[t] = IF k <= Len(accepted[workers[t]]) THEN accepted[workers[t]][k] ELSE Silence
  <2>1. Frame(Track(t), k)
          = IF k <= Len(accepted[workers[t]]) THEN accepted[workers[t]][k] ELSE Silence
    <3> HIDE DEF k
    <3> QED BY <1>3, <1>f, TrackIs
  <2>2. f[t] = Frame(Track(t), k)
    <3>1. t = 1 \/ t = 2
      OBVIOUS
    <3> HIDE DEF k
    <3> QED BY <3>1
  <2> QED BY <2>1, <2>2
<1>u. name = MasterName /\ body = files[name].body /\ k = Len(body) + 1
      /\ longer = Append(body, block)
  OBVIOUS
<1> HIDE DEF name, f, block
<1>4. /\ Disk(gs) /\ DOMAIN gs = DOMAIN files
      /\ gs[name] = File(files[name].header, longer)
      /\ \A n \in DOMAIN files : n # name => gs[n] = files[n]
  BY <1>1, <1>i, WithChunkIs
<1>5. gs[name].body = longer /\ gs[name].header = files[name].header
  BY <1>4 DEF File
<1> HIDE DEF body, k, longer
<1>6. ASSUME sound
      PROVE  /\ Beginning(longer) /\ Len(longer) = Len(body) + 1
             /\ \A i \in 1..Len(longer) : IF i = Len(longer) THEN longer[i] = block
                                          ELSE longer[i].whole
  <2>1. body \in Seq(Range(body)) /\ Beginning(body) /\ AllWhole(body)
    BY <1>3, <1>6, <1>i
  <2>2. ASSUME NEW t \in 1..2
        PROVE  block.chunk[t] = IF Len(body) + 1 <= Len(accepted[workers[t]])
                                THEN accepted[workers[t]][Len(body) + 1] ELSE Silence
    BY <1>2, <1>6, <1>f, <1>u
  <2>3. ASSUME NEW b, b = body, NEW l, l = Append(b, block)
        PROVE  /\ Beginning(l) /\ Len(l) = Len(b) + 1
               /\ \A i \in 1..Len(l) : IF i = Len(l) THEN l[i] = block ELSE l[i].whole
    BY ONLY <2>1, <2>2, <2>3, LongerBeginning
  <2> QED BY ONLY <1>u, <2>3
<1> QED BY <1>2, <1>4, <1>5, <1>6, <1>u

\* A master that grew is still one that may become whole.
LEMMA GrownMaster ==
  ASSUME CaptureTypeInv, RecordInv, master = "writing", DOMAIN files' = DOMAIN files,
         sound' => sound, files'[MasterName].header = files[MasterName].header,
         \A n \in DOMAIN files : n # MasterName => files'[n] = files[n]
  PROVE  WholeInv' /\ OnlyMaster
<1>i. WholeInv /\ MasterName \in DOMAIN files
  BY WritingIs
<1>n. MasterName.part
  BY MasterNamed
<1> DEFINE name == MasterName
<1>u. name = MasterName
  OBVIOUS
<1> HIDE DEF name
<1>1. Good(name, files'[name], sound')
  <2>1. Good(name, files[name], sound)
    BY <1>i, <1>u DEF WholeInv
  <2> QED BY <1>n, <1>u, <2>1 DEF Good
<1>2. WholeInv'
  BY <1>1, <1>i, <1>u, SameFiles
<1> QED BY <1>2 DEF OnlyMaster

LEMMA MasterGrowsRecord ==
  ASSUME CaptureTypeInv, RecordInv, MasterGrows
  PROVE  RecordInv'
<1> DEFINE name == MasterName
<1>1. /\ up /\ master = "writing" /\ master' = "writing" /\ files' = Frames(TRUE)
      /\ UNCHANGED <<captureVars, up, dir, home, recorder, unwritten, sound>>
  BY DEF MasterGrows, MasterGrowing
<1>2. /\ UNCHANGED <<loop, workers, accepted, MasterName, MasterFinal>>
      /\ \A body : Beginning(body)' <=> Beginning(body)
  BY <1>1, MasterSame
<1>i. /\ Disk(files) /\ MasterFinal \notin DOMAIN files /\ name \in DOMAIN files /\ home # None
      /\ loop = "ended" /\ (sound => Len(workers) >= 2)
  BY <1>1, WritingIs
<1>n. MasterName # MasterFinal
  BY MasterNamed
<1>3. ASSUME NEW whole, NEW gs, gs = Frames(whole)
      PROVE  /\ Disk(gs) /\ DOMAIN gs = DOMAIN files /\ gs[name].header = files[name].header
             /\ \A n \in DOMAIN files : n # name => gs[n] = files[n]
             /\ sound =>
                  /\ Beginning(gs[name].body)
                  /\ \A i \in 1..Len(gs[name].body) :
                       IF i = Len(gs[name].body) THEN gs[name].body[i].whole = whole
                       ELSE gs[name].body[i].whole
  BY <1>1, <1>3, FramesAre
<1>4. /\ Disk(files') /\ DOMAIN files' = DOMAIN files /\ files'[name].header = files[name].header
      /\ \A n \in DOMAIN files : n # name => files'[n] = files[n]
      /\ sound => Beginning(files'[name].body) /\ AllWhole(files'[name].body)
  <2>1. PICK w : w = TRUE
    OBVIOUS
  <2>2. files' = Frames(w)
    BY <1>1, <2>1
  <2>3. /\ Disk(files') /\ DOMAIN files' = DOMAIN files
        /\ files'[name].header = files[name].header
        /\ \A n \in DOMAIN files : n # name => files'[n] = files[n]
        /\ sound =>
             /\ Beginning(files'[name].body)
             /\ \A i \in 1..Len(files'[name].body) :
                  IF i = Len(files'[name].body) THEN files'[name].body[i].whole = w
                  ELSE files'[name].body[i].whole
    BY ONLY <1>3, <2>2
  <2> HIDE DEF name
  <2> QED BY <2>1, <2>3 DEF AllWhole
<1>u. name = MasterName
  OBVIOUS
<1>5. WholeInv' /\ OnlyMaster
  BY <1>1, <1>4, GrownMaster
<1> HIDE DEF name
<1>6. MasterInv'
  <2>1. MasterNames'
    BY <1>1, <1>2, <1>4, <1>i, <1>u DEF MasterNames
  <2>2. ASSUME NEW body, body = files'[name].body, sound
        PROVE  Beginning(body)' /\ WholeFrames(body)'
    BY <1>2, <1>4, <2>2, AllWholeIs
  <2>3. MasterBodies'
    BY <1>1, <1>2, <1>4, <1>i, <1>n, <1>u, <2>2 DEF MasterBodies
  <2> QED BY <2>1, <2>3 DEF MasterInv
<1> QED BY <1>1, <1>4, <1>5, <1>6, <1>i, MasterStep

\* A finish of the master, up to one of its stages.
LEMMA MasterStagesAre ==
  ASSUME CaptureTypeInv, RecordInv, MasterFull, sound' => sound, NEW gs \in Range(MasterStages)
  PROVE  /\ Disk(gs)
         /\ \/ /\ DOMAIN gs = DOMAIN files /\ gs[MasterName].body = files[MasterName].body
            \/ /\ gs = Last(MasterStages)
               /\ MasterName \notin DOMAIN gs /\ MasterFinal \in DOMAIN gs
               /\ gs[MasterFinal].body = files[MasterName].body
         /\ gs = Last(MasterStages) => MasterFinal \in DOMAIN gs
         /\ files' = gs => WholeInv' /\ OnlyMaster
         /\ sound => Len(files[MasterName].body)
                       = Longer(Len(accepted[workers[1]]), Len(accepted[workers[2]]))
<1> DEFINE name == MasterName
           final == MasterFinal
           l == TotalFrames
           h == Header(2, l)
           ended == Last(FinishStages(files, name, h))
<1>0. master = "writing" /\ Len(files[name].body) = l
  BY DEF MasterFull
<1>i. /\ Disk(files) /\ WholeInv /\ final \notin DOMAIN files /\ name \in DOMAIN files
  BY <1>0, WritingIs
<1>n. /\ name # final /\ name.part /\ ~final.part /\ final = Final(name.dir, name.stem)
      /\ name.stem = "master" /\ final.stem = "master"
  BY MasterNamed
<1>l. sound => l = Longer(Len(accepted[workers[1]]), Len(accepted[workers[2]]))
  BY <1>0, TrackIs DEF TotalFrames
<1>u. /\ name = MasterName /\ final = MasterFinal /\ ended = Last(FinishStages(files, name, h))
      /\ MasterStages = FinishStages(files, name, h)
  BY DEF MasterStages
<1>3. l \in Nat
  BY <1>0, <1>i, LengthOfBody
<1>h. h \in HeaderSet /\ h.wave /\ h.channels = 2 /\ h.length = l
  BY <1>3, HeaderIs
<1> HIDE DEF name, final, l, h, ended
<1>4. /\ Disk(ended) /\ ended[final] = File(h, files[name].body)
      /\ \A n : n \in DOMAIN ended <=> (n \in DOMAIN files /\ n # name) \/ n = final
      /\ \A n \in DOMAIN files : n # name /\ n # final => ended[n] = files[n]
  BY <1>h, <1>i, <1>n, <1>u, FinishIs
<1>5. ended[final].header = h /\ ended[final].body = files[name].body
  BY <1>4 DEF File
<1>6. CASE gs \in Range(Front(FinishStages(files, name, h)))
  <2>1. /\ Disk(gs) /\ DOMAIN gs = DOMAIN files /\ gs[name].body = files[name].body
        /\ gs[name].header.channels \in {files[name].header.channels, h.channels}
        /\ files[name].header.wave => gs[name].header.wave
        /\ \A n \in DOMAIN files : n # name => gs[n] = files[n]
    BY <1>6, <1>h, <1>i, FinishFailsIs
  <2>2. files' = gs => WholeInv' /\ OnlyMaster
    <3>1. Good(name, files[name], sound)
      BY <1>i DEF WholeInv
    <3>2. Good(name, gs[name], sound')
      BY <1>h, <1>n, <2>1, <3>1 DEF Good
    <3>3. files' = gs => OnlyMaster
      BY <1>u, <2>1 DEF OnlyMaster
    <3>4. files' = gs => WholeInv'
      BY <1>i, <2>1, <3>2, SameFiles
    <3> QED BY <3>3, <3>4
  <2>3. gs # ended
    BY <1>4, <1>i, <2>1
  <2> QED BY <1>0, <1>l, <1>u, <2>1, <2>2, <2>3
<1>7. CASE gs = ended
  <2>1. files' = gs => OnlyMaster
    BY <1>4, <1>7, <1>u DEF OnlyMaster
  <2>2. files' = gs => WholeInv'
    <3> SUFFICES ASSUME files' = gs PROVE WholeInv'
      OBVIOUS
    <3>1. Good(final, files'[final], sound')
      BY <1>0, <1>3, <1>5, <1>7, <1>h, <1>n DEF Good
    <3>2. ASSUME NEW n \in DOMAIN files', n # final
          PROVE  n \in DOMAIN files /\ files'[n] = files[n]
      BY <1>4, <1>7, <1>n, <3>2
    <3> QED BY <1>i, <3>1, <3>2, SameFiles
  <2> QED BY <1>0, <1>4, <1>5, <1>7, <1>l, <1>n, <1>u, <2>1, <2>2
<1> QED BY <1>6, <1>7, <1>u, StagesAre

LEMMA MasterEndsRecord ==
  ASSUME CaptureTypeInv, RecordInv, MasterEnds
  PROVE  RecordInv'
<1>1. /\ MasterFull /\ up /\ master = "writing" /\ master' = "done"
      /\ files' = Last(MasterStages)
      /\ UNCHANGED <<captureVars, up, dir, home, recorder, unwritten, sound>>
  BY DEF MasterEnds, MasterFull
<1>2. /\ UNCHANGED <<loop, workers, accepted, MasterName, MasterFinal>>
      /\ \A body : Beginning(body)' <=> Beginning(body)
  BY <1>1, MasterSame
<1>i. /\ home # None /\ loop = "ended" /\ MasterFinal \notin DOMAIN files
      /\ sound => Beginning(files[MasterName].body) /\ AllWhole(files[MasterName].body)
  BY <1>1, WritingIs
<1>3. files' \in Range(MasterStages)
  BY <1>1, RangeOfStages DEF MasterStages
<1>4. /\ Disk(files') /\ WholeInv' /\ OnlyMaster
      /\ MasterName \notin DOMAIN files' /\ MasterFinal \in DOMAIN files'
      /\ files'[MasterFinal].body = files[MasterName].body
      /\ sound => Len(files[MasterName].body)
                    = Longer(Len(accepted[workers[1]]), Len(accepted[workers[2]]))
  BY <1>1, <1>3, <1>i, MasterStagesAre
<1>5. MasterInv'
  <2>1. MasterNames'
    BY <1>1, <1>2, <1>4 DEF MasterNames
  <2>2. ASSUME NEW body, body = files[MasterName].body, sound
        PROVE  Beginning(body)' /\ WholeFrames(body)'
    BY <1>2, <1>i, <2>2, AllWholeIs
  <2>3. MasterBodies'
    BY <1>1, <1>2, <1>4, <1>i, <2>2 DEF MasterBodies
  <2> QED BY <2>1, <2>3 DEF MasterInv
<1> QED BY <1>1, <1>4, <1>5, <1>i, MasterStep

\* A crash in the middle of a frame, or of the finish of the master.
LEMMA CrashInMasterRecord ==
  ASSUME CaptureTypeInv, RecordInv, CrashInMaster
  PROVE  RecordInv'
<1>1. /\ Halt /\ UNCHANGED sound /\ master = "writing"
      /\ \/ files' = Frames(FALSE)
         \/ MasterFull /\ files' \in Range(MasterStages)
  BY DEF CrashInMaster, MasterGrowing, MasterFull
<1>2. UNCHANGED <<workers, accepted, home>> /\ master' = "cut"
  BY <1>1, HaltIs
<1>3. MasterName' = MasterName /\ MasterFinal' = MasterFinal
  BY <1>2 DEF MasterName, MasterFinal
<1>i. /\ home # None /\ MasterFinal \notin DOMAIN files /\ MasterName \in DOMAIN files
      /\ sound => Beginning(files[MasterName].body) /\ AllWhole(files[MasterName].body)
  BY <1>1, WritingIs
<1>b. ASSUME NEW body, Beginning(body) PROVE Beginning(body)'
  BY <1>2, <1>b DEF Beginning
<1>4. MasterNames'
  BY <1>2 DEF MasterNames
<1>5. CASE files' = Frames(FALSE)
  <2>1. ASSUME NEW whole, NEW gs, gs = Frames(whole)
        PROVE  /\ Disk(gs) /\ DOMAIN gs = DOMAIN files
               /\ gs[MasterName].header = files[MasterName].header
               /\ \A n \in DOMAIN files : n # MasterName => gs[n] = files[n]
               /\ sound =>
                    /\ Beginning(gs[MasterName].body)
                    /\ \A i \in 1..Len(gs[MasterName].body) :
                         \/ i = Len(gs[MasterName].body)
                         \/ gs[MasterName].body[i].whole
    BY <1>1, <2>1, FramesAre
  <2>2. PICK w : w = FALSE
    OBVIOUS
  <2>3. files' = Frames(w)
    BY <1>5, <2>2
  <2>4. /\ Disk(files') /\ DOMAIN files' = DOMAIN files
        /\ files'[MasterName].header = files[MasterName].header
        /\ \A n \in DOMAIN files : n # MasterName => files'[n] = files[n]
        /\ sound =>
             /\ Beginning(files'[MasterName].body)
             /\ \A i \in 1..Len(files'[MasterName].body) :
                  \/ i = Len(files'[MasterName].body)
                  \/ files'[MasterName].body[i].whole
    BY ONLY <2>1, <2>3
  <2>5. WholeInv' /\ OnlyMaster
    BY <1>1, <2>4, GrownMaster
  <2>6. ASSUME NEW body, body = files'[MasterName].body, sound
        PROVE  Beginning(body)' /\ WholeFrames(body)'
    BY <1>2, <1>b, <2>4, <2>6 DEF WholeFrames
  <2>7. MasterBodies'
    BY <1>1, <1>2, <1>3, <1>i, <2>4, <2>6 DEF MasterBodies
  <2> QED BY <1>1, <1>4, <2>4, <2>5, <2>7, HaltInMaster DEF MasterInv
<1>6. CASE MasterFull /\ files' \in Range(MasterStages)
  <2>1. /\ Disk(files') /\ WholeInv' /\ OnlyMaster
        /\ \/ DOMAIN files' = DOMAIN files /\ files'[MasterName].body = files[MasterName].body
           \/ /\ MasterName \notin DOMAIN files' /\ MasterFinal \in DOMAIN files'
              /\ files'[MasterFinal].body = files[MasterName].body
    BY <1>1, <1>6, MasterStagesAre
  <2>2. ASSUME NEW body, body = files[MasterName].body, sound
        PROVE  Beginning(body)' /\ WholeFrames(body)'
    BY <1>b, <1>i, <2>2, AllWholeIs
  <2>3. MasterBodies'
    BY <1>1, <1>2, <1>3, <1>i, <2>1, <2>2 DEF MasterBodies
  <2> QED BY <1>1, <1>4, <2>1, <2>3, HaltInMaster DEF MasterInv
<1> QED BY <1>1, <1>5, <1>6

--------------------------------------------------------------------------------
\* What a recovery makes of the two names of one recording.
LEMMA RecoveredName ==
  ASSUME NEW fs, Disk(fs), NEW T, T \subseteq {n \in DOMAIN fs : n.part},
         NEW gs, gs = Recovered(fs, T), NEW p, NEW f, NEW d \in Dirs \cup {None},
         NEW stem \in Streams \cup {"master"}, p = Part(d, stem), f = Final(d, stem)
  PROVE  /\ p \in DOMAIN gs => p \in DOMAIN fs /\ gs[p] = fs[p]
         /\ f \in DOMAIN gs =>
              \/ f \in DOMAIN fs /\ gs[f] = fs[f]
              \/ p \in DOMAIN fs /\ gs[f].body = fs[p].body
         /\ f \in DOMAIN fs => f \in DOMAIN gs
         /\ p \in DOMAIN fs /\ fs[p].body # <<>> => p \in DOMAIN gs \/ f \in DOMAIN gs
<1>n. p.part /\ ~f.part /\ p.dir = d /\ p.stem = stem /\ f.dir = d /\ f.stem = stem
  BY NamesDiffer
<1>k. \A n \in Kept(fs, T) : n \in DOMAIN fs
  BY DEF Kept
<1>1. /\ \A n \in DOMAIN gs : n.part => n \in DOMAIN fs /\ n \notin T /\ gs[n] = fs[n]
      /\ \A n \in DOMAIN gs : ~n.part =>
           \/ n \in DOMAIN fs /\ gs[n] = fs[n]
           \/ /\ Part(n.dir, n.stem) \in Kept(fs, T)
              /\ gs[n] = File(Rescued(fs[Part(n.dir, n.stem)]), fs[Part(n.dir, n.stem)].body)
  BY RecoveredIs
<1>2. DOMAIN gs = (DOMAIN fs \ T) \cup {Final(m.dir, m.stem) : m \in Kept(fs, T)}
  BY DEF Recovered
<1>3. p \in DOMAIN gs => p \in DOMAIN fs /\ gs[p] = fs[p]
  BY <1>1, <1>n
<1>4. f \in DOMAIN gs =>
        \/ f \in DOMAIN fs /\ gs[f] = fs[f]
        \/ p \in DOMAIN fs /\ gs[f].body = fs[p].body
  <2>1. f \in DOMAIN gs =>
          \/ f \in DOMAIN fs /\ gs[f] = fs[f]
          \/ p \in DOMAIN fs /\ gs[f] = File(Rescued(fs[p]), fs[p].body)
    BY <1>1, <1>k, <1>n
  <2> QED BY <2>1 DEF File
<1>5. f \in DOMAIN fs => f \in DOMAIN gs
  BY <1>2, <1>n
<1>6. p \in DOMAIN fs /\ fs[p].body # <<>> => p \in DOMAIN gs \/ f \in DOMAIN gs
  <2>1. CASE p \in T
    <3>1. fs[p].body # <<>> => p \in Kept(fs, T)
      BY <2>1 DEF Kept
    <3> QED BY <1>2, <1>n, <3>1
  <2>2. CASE p \notin T
    BY <1>2, <2>2
  <2> QED BY <2>1, <2>2
<1> QED BY <1>3, <1>4, <1>5, <1>6

\* A restart recovers a part of what was left.
LEMMA RestartIs ==
  ASSUME RecordTypeInv, Restart
  PROVE  /\ UNCHANGED <<captureVars, home, recorder, unwritten, master>>
         /\ up = FALSE /\ up' = TRUE /\ dir' \in Dirs /\ sound' \in BOOLEAN /\ (sound' => sound)
         /\ \E T : /\ T \subseteq {n \in DOMAIN files : n.part}
                   /\ files' = Recovered(files, T)
                   /\ sound' => T = Left(dir')
<1>1. PICK failing \in SUBSET Left(dir') :
        /\ files' = FoldSet(LAMBDA n, fs : RecoverOne(fs, n), files, Left(dir') \ failing)
        /\ sound' = (sound /\ failing = {})
  BY Zenon DEF Restart
<1> DEFINE T == Left(dir') \ failing
<1>2. T \subseteq {n \in DOMAIN files : n.part} /\ Disk(files)
  BY DEF Left, RecordTypeInv
<1>3. IsFiniteSet(T)
  <2>1. T \subseteq DOMAIN files /\ IsFiniteSet(DOMAIN files)
    BY <1>2 DEF Disk
  <2> HIDE DEF T
  <2> QED BY <2>1, FS_Subset
<1>4. files' = Recovered(files, T)
  <2>1. files' = FoldSet(LAMBDA n, fs : RecoverOne(fs, n), files, T)
    BY <1>1
  <2> HIDE DEF T
  <2>2. FoldSet(LAMBDA n, fs : RecoverOne(fs, n), files, T) = Recovered(files, T)
    BY <1>2, <1>3, RecoveryIs
  <2> QED BY <2>1, <2>2
<1>5. sound' \in BOOLEAN /\ (sound' => sound) /\ (sound' => failing = {})
  BY <1>1
<1>6. sound' => T = Left(dir')
  BY <1>5
<1>7. /\ UNCHANGED <<captureVars, home, recorder, unwritten, master>>
      /\ up = FALSE /\ up' = TRUE /\ dir' \in Dirs
  BY DEF Restart, RecordTypeInv
<1> HIDE DEF T
<1>8. \E U : /\ U \subseteq {n \in DOMAIN files : n.part}
             /\ files' = Recovered(files, U)
             /\ sound' => U = Left(dir')
  BY <1>2, <1>4, <1>6
<1> QED BY <1>5, <1>7, <1>8

\* A recovery of some of what was left keeps the invariant.
LEMMA RecoverKeeps ==
  ASSUME CaptureTypeInv, RecordInv, up = FALSE, up' \in BOOLEAN, dir' \in Dirs,
         sound' \in BOOLEAN, sound' => sound,
         UNCHANGED <<captureVars, home, recorder, unwritten, master>>,
         NEW T, T \subseteq {n \in DOMAIN files : n.part}, files' = Recovered(files, T)
  PROVE  RecordInv'
<1>i. /\ RecordTypeInv /\ WholeInv /\ ClosedInv /\ LoopInv /\ KeptInv /\ PendingInv
      /\ MasterNames /\ MasterBodies /\ Disk(files) /\ home \in Dirs \cup {None}
  BY DEF RecordInv, MasterInv, RecordTypeInv
<1>1. UNCHANGED <<home, recorder, unwritten, master>>
  OBVIOUS
<1>3. /\ UNCHANGED <<loop, workers, accepted, MasterName, MasterFinal>>
      /\ \A body : Beginning(body)' <=> Beginning(body)
  BY MasterSame
<1>4. /\ loop = "ended" /\ master \notin {"none", "writing"}
      /\ \A s \in Streams : recorder[s] = None
  BY <1>i DEF LoopInv, ClosedInv
<1>5. /\ Disk(files')
      /\ \A n \in DOMAIN files' : n.part => n \in DOMAIN files /\ n \notin T /\ files'[n] = files[n]
      /\ \A n \in DOMAIN files' : ~n.part =>
           \/ n \in DOMAIN files /\ files'[n] = files[n]
           \/ /\ Part(n.dir, n.stem) \in Kept(files, T)
              /\ files'[n] = File(Rescued(files[Part(n.dir, n.stem)]),
                                  files[Part(n.dir, n.stem)].body)
  BY <1>i, RecoveredIs
<1>6. RecordTypeInv'
  BY <1>1, <1>5, <1>i DEF RecordTypeInv
<1>7. WholeInv'
  <2> SUFFICES ASSUME NEW n \in DOMAIN files', ~n.part,
                      /\ Part(n.dir, n.stem) \in Kept(files, T)
                      /\ files'[n] = File(Rescued(files[Part(n.dir, n.stem)]),
                                          files[Part(n.dir, n.stem)].body)
               PROVE  Good(n, files'[n], sound')
    BY <1>5, <1>i, SameFiles
  <2> DEFINE p == Part(n.dir, n.stem)
             f == files[p]
             h == Rescued(f)
  <2>1. p \in DOMAIN files /\ files'[n] = File(h, f.body)
    BY DEF Kept
  <2>2. p.part /\ p.stem = n.stem
    BY NamesDiffer
  <2>3. Good(p, f, sound)
    BY <1>i, <2>1 DEF WholeInv
  <2>4. IsFile(f) /\ Len(f.body) \in Nat
    BY <1>i, <2>1, LengthOfBody
  <2>5. /\ h.wave /\ h.length = Len(f.body)
        /\ h.channels = IF f.header.wave THEN Longer(f.header.channels, 1) ELSE 1
    BY <2>4, RescuedIs
  <2> HIDE DEF p, f, h
  <2>6. files'[n].header = h /\ files'[n].body = f.body
    BY <2>1 DEF File
  <2>7. h.channels = IF n.stem = "master" THEN 2 ELSE 1
    BY <2>2, <2>3, <2>5 DEF Good, Longer
  <2> QED BY <2>4, <2>5, <2>6, <2>7 DEF Good
<1>8. RecorderInv' /\ ClosedInv' /\ LoopInv' /\ PendingInv'
  <2>1. RecorderInv' /\ ClosedInv' /\ LoopInv'
    BY <1>1, <1>3, <1>4 DEF RecorderInv, RecorderOf, ClosedInv, LoopInv
  <2>2. PendingInv'
    BY <1>1, <1>3, <1>i DEF PendingInv
  <2> QED BY <2>1, <2>2
<1>9. KeptInv'
  <2> SUFFICES ASSUME home # None, sound, NEW s \in Streams PROVE KeptOf(s)'
    BY <1>1 DEF KeptInv
  <2> DEFINE p == Part(home, s)
             f == Final(home, s)
  <2>1. Part(home', s) = p /\ Final(home', s) = f /\ p = Part(home, s) /\ f = Final(home, s)
    BY <1>1
  <2> HIDE DEF p, f
  <2>2. /\ p \in DOMAIN files' => p \in DOMAIN files /\ files'[p] = files[p]
        /\ f \in DOMAIN files' =>
             \/ f \in DOMAIN files /\ files'[f] = files[f]
             \/ p \in DOMAIN files /\ files'[f].body = files[p].body
        /\ f \in DOMAIN files => f \in DOMAIN files'
        /\ p \in DOMAIN files /\ files[p].body # <<>> => p \in DOMAIN files' \/ f \in DOMAIN files'
    <3>1. /\ files' = Recovered(files, T) /\ T \subseteq {n \in DOMAIN files : n.part}
          /\ s \in Streams \cup {"master"}
      OBVIOUS
    <3> QED BY ONLY <1>i, <2>1, <3>1, RecoveredName
  <2>3. KeptOf(s)
    BY <1>i DEF KeptInv
  <2>4. Written(s)' = Written(s) /\ Written(s) \in Nat /\ Len(accepted[s]) \in Nat
        /\ Written(s) <= Len(accepted[s])
    <3>1. Written(s)' = Written(s)
      BY <1>1, <1>3 DEF Written
    <3> QED BY <1>i, <3>1, WrittenIs
  <2>5. ASSUME NEW body, BodyOf(s, body)
        PROVE  BodyOf(s, body)' /\ (Written(s) > 0 => body # <<>>)
    <3>1. BodyOf(s, body)'
      BY <1>3, <2>4, <2>5 DEF BodyOf
    <3>2. Written(s) > 0 => body # <<>>
      <4>1. Len(body) \in {Written(s), Len(accepted[s])}
        BY <2>5 DEF BodyOf
      <4>2. body = <<>> => Len(body) = 0
        OBVIOUS
      <4> QED BY <2>4, <4>1, <4>2
    <3> QED BY <3>1, <3>2
  <2>6. /\ p \in DOMAIN files => BodyOf(s, files[p].body)
        /\ f \in DOMAIN files => BodyOf(s, files[f].body)
        /\ Written(s) > 0 => p \in DOMAIN files \/ f \in DOMAIN files
        /\ master # "cut" /\ s \in Range(workers) => f \in DOMAIN files
    BY <1>4, <2>1, <2>3 DEF KeptOf
  <2>7. ASSUME NEW body, body = files'[p].body, p \in DOMAIN files' PROVE BodyOf(s, body)'
    BY <2>2, <2>5, <2>6, <2>7
  <2>8. ASSUME NEW body, body = files'[f].body, f \in DOMAIN files' PROVE BodyOf(s, body)'
    BY <2>2, <2>5, <2>6, <2>8
  <2>9. Written(s) > 0 => p \in DOMAIN files' \/ f \in DOMAIN files'
    BY <2>2, <2>5, <2>6
  <2>10. recorder'[s] = None /\ (master # "cut" /\ s \in Range(workers) => f \in DOMAIN files')
    BY <1>1, <1>4, <2>2, <2>6
  <2> QED BY <1>1, <1>3, <2>1, <2>4, <2>7, <2>8, <2>9, <2>10 DEF KeptOf
<1>10. MasterInv'
  <2> DEFINE p == MasterName
             f == MasterFinal
  <2>1. p = Part(home, "master") /\ f = Final(home, "master") /\ p = MasterName /\ f = MasterFinal
    BY DEF MasterName, MasterFinal
  <2> HIDE DEF p, f
  <2>2. /\ p \in DOMAIN files' => p \in DOMAIN files /\ files'[p] = files[p]
        /\ f \in DOMAIN files' =>
             \/ f \in DOMAIN files /\ files'[f] = files[f]
             \/ p \in DOMAIN files /\ files'[f].body = files[p].body
    BY <1>i, <2>1, RecoveredName
  <2>3. MasterNames'
    BY <1>1, <1>3, <1>4, <1>i, <2>1, <2>2 DEF MasterNames
  <2>4. ASSUME NEW body, Beginning(body) /\ WholeFrames(body)
        PROVE  Beginning(body)' /\ WholeFrames(body)'
    BY <1>1, <1>3, <2>4 DEF WholeFrames
  <2>5. MasterBodies'
    <3> SUFFICES ASSUME sound, home # None PROVE MasterBodies'
      BY <1>1 DEF MasterBodies
    <3>1. /\ p \in DOMAIN files => Beginning(files[p].body) /\ WholeFrames(files[p].body)
          /\ f \in DOMAIN files => Beginning(files[f].body) /\ WholeFrames(files[f].body)
      BY <1>i, <2>1 DEF MasterBodies
    <3>2. ASSUME NEW body, body = files'[p].body, p \in DOMAIN files'
          PROVE  Beginning(body)' /\ WholeFrames(body)'
      BY <2>2, <2>4, <3>1, <3>2
    <3>3. ASSUME NEW body, body = files'[f].body, f \in DOMAIN files'
          PROVE  Beginning(body)' /\ WholeFrames(body)'
      BY <2>2, <2>4, <3>1, <3>3
    <3>4. master = "done" /\ f \in DOMAIN files' =>
            Len(files'[f].body) = Longer(Len(accepted[workers[1]]), Len(accepted[workers[2]]))
      BY <1>i, <2>1, <2>2 DEF MasterNames, MasterBodies
    <3> QED BY <1>1, <1>3, <1>4, <2>1, <3>2, <3>3, <3>4 DEF MasterBodies
  <2> QED BY <2>3, <2>5 DEF MasterInv
<1> QED BY <1>6, <1>7, <1>8, <1>9, <1>10 DEF RecordInv

LEMMA RestartRecord ==
  ASSUME CaptureTypeInv, RecordInv, Restart
  PROVE  RecordInv'
<1>1. RecordTypeInv
  BY DEF RecordInv
<1>2. PICK T : T \subseteq {n \in DOMAIN files : n.part} /\ files' = Recovered(files, T)
  BY <1>1, RestartIs
<1>3. /\ UNCHANGED <<captureVars, home, recorder, unwritten, master>>
      /\ up = FALSE /\ up' \in BOOLEAN /\ dir' \in Dirs /\ sound' \in BOOLEAN /\ (sound' => sound)
  BY <1>1, RestartIs
<1> QED BY <1>2, <1>3, RecoverKeeps

\* A recovery that has got no further than the header.
LEMMA HeaderTouched ==
  ASSUME CaptureTypeInv, RecordInv, up = FALSE,
         UNCHANGED <<captureVars, up, dir, home, recorder, unwritten, master, sound>>,
         Disk(files'), WholeInv', DOMAIN files' = DOMAIN files,
         \A n \in DOMAIN files : files'[n].body = files[n].body
  PROVE  RecordInv'
<1>i. /\ RecordTypeInv /\ ClosedInv /\ LoopInv /\ KeptInv /\ PendingInv
      /\ MasterNames /\ MasterBodies
  BY DEF RecordInv, MasterInv
<1>1. UNCHANGED <<up, dir, home, recorder, unwritten, master, sound>>
  OBVIOUS
<1>2. UNCHANGED <<loop, workers, accepted, offset, MasterName, MasterFinal>>
  BY MasterSame DEF captureVars, loopVars, inputVars
<1>3. \A s \in Streams : recorder[s] = None
  BY <1>i DEF LoopInv, ClosedInv
<1>4. RecordTypeInv' /\ RecorderInv' /\ ClosedInv' /\ LoopInv' /\ PendingInv'
  BY <1>1, <1>2, <1>3, <1>i
     DEF RecordTypeInv, RecorderInv, RecorderOf, ClosedInv, LoopInv, PendingInv
<1>5. KeptInv'
  <2> SUFFICES ASSUME home # None, sound, NEW s \in Streams PROVE KeptOf(s)'
    BY <1>1 DEF KeptInv
  <2> DEFINE part == Part(home, s)
             final == Final(home, s)
  <2>1. Part(home', s) = part /\ Final(home', s) = final
        /\ part = Part(home, s) /\ final = Final(home, s)
    BY <1>1
  <2> HIDE DEF part, final
  <2>2. KeptOf(s) /\ recorder[s] = None
    BY <1>3, <1>i DEF KeptInv
  <2>3. Written(s)' = Written(s)
    BY <1>1, <1>2 DEF Written
  <2>4. ASSUME NEW body, BodyOf(s, body) PROVE BodyOf(s, body)'
    BY <1>2, <2>3, <2>4 DEF BodyOf
  <2>5. ASSUME NEW n, n \in DOMAIN files', NEW body, body = files'[n].body,
               BodyOf(s, files[n].body)
        PROVE  BodyOf(s, body)'
    BY <2>4, <2>5
  <2> QED BY <1>1, <1>2, <2>1, <2>2, <2>3, <2>5 DEF KeptOf
<1>6. MasterInv'
  <2>1. MasterNames'
    BY <1>1, <1>2, <1>i DEF MasterNames
  <2>2. ASSUME NEW n, n \in DOMAIN files', NEW body, body = files'[n].body,
               Beginning(files[n].body) /\ WholeFrames(files[n].body)
        PROVE  (Beginning(body) /\ WholeFrames(body))'
    BY <1>1, <1>2, <2>2 DEF Beginning, WholeFrames
  <2>3. MasterBodies'
    BY <1>1, <1>2, <1>i, <2>2 DEF MasterBodies
  <2> QED BY <2>1, <2>3 DEF MasterInv
<1> QED BY <1>4, <1>5, <1>6 DEF RecordInv

LEMMA CrashInRecoveryRecord ==
  ASSUME CaptureTypeInv, RecordInv, NEW name \in DOMAIN files, CrashInRecovery(name)
  PROVE  RecordInv'
<1> DEFINE f == files[name]
           h == Rescued(f)
<1>1. /\ ~up /\ name.part /\ f.body # <<>> /\ files' \in Range(RecoveryStages(files, name))
      /\ UNCHANGED <<captureVars, up, dir, home, recorder, unwritten, master, sound>>
  BY DEF CrashInRecovery
<1>i. /\ Disk(files) /\ WholeInv /\ up \in BOOLEAN /\ sound \in BOOLEAN /\ dir \in Dirs
  BY DEF RecordInv, RecordTypeInv
<1>f. IsFile(f) /\ Good(name, f, sound)
  BY <1>i, LengthOfBody DEF WholeInv
<1>h. /\ h \in HeaderSet /\ h.wave
      /\ h.channels = IF f.header.wave THEN Longer(f.header.channels, 1) ELSE 1
  BY <1>f, RescuedIs
<1>u. f = files[name] /\ h = Rescued(f) /\ RecoveryStages(files, name) = FinishStages(files, name, h)
  BY DEF RecoveryStages
<1> HIDE DEF f, h
<1>2. CASE files' = Last(FinishStages(files, name, h))
  <2>1. files' = RecoverOne(files, name)
    BY <1>1, <1>2, <1>u DEF RecoverOne
  <2>2. {name} \subseteq {n \in DOMAIN files : n.part}
    BY <1>1
  <2>3. RecoverOne(Recovered(files, {name} \ {name}), name) = Recovered(files, {name})
    BY <1>i, <2>2, RecoverAnother
  <2>4. files' = Recovered(files, {name})
    <3>1. {name} \ {name} = {}
      OBVIOUS
    <3> QED BY <1>i, <2>1, <2>3, <3>1, RecoverNothing
  <2> QED BY <1>1, <1>i, <2>2, <2>4, RecoverKeeps
<1>3. CASE files' \in Range(Front(FinishStages(files, name, h)))
  <2>1. /\ Disk(files') /\ DOMAIN files' = DOMAIN files /\ files'[name].body = files[name].body
        /\ files'[name].header.channels \in {files[name].header.channels, h.channels}
        /\ files[name].header.wave => files'[name].header.wave
        /\ \A n \in DOMAIN files : n # name => files'[n] = files[n]
    BY <1>3, <1>h, <1>i, FinishFailsIs
  <2>2. Good(name, files'[name], sound')
    BY <1>1, <1>f, <1>h, <1>u, <2>1 DEF Good, Longer
  <2>3. WholeInv'
    BY <1>1, <1>i, <2>1, <2>2, SameFiles
  <2>4. \A n \in DOMAIN files : files'[n].body = files[n].body
    BY <2>1
  <2>5. up = FALSE
    BY <1>1, <1>i
  <2> QED BY <1>1, <2>1, <2>3, <2>4, <2>5, HeaderTouched
<1> QED BY <1>1, <1>2, <1>3, <1>u, StagesAre
--------------------------------------------------------------------------------
IInv == BuiltInv /\ RecordInv

LEMMA UnchangedRecord ==
  ASSUME RecordInv, UNCHANGED vars
  PROVE  RecordInv'
<1>u. /\ UNCHANGED <<up, dir, home, files, recorder, master, sound>>
      /\ UNCHANGED <<loop, offset, workers, accepted>> /\ unwritten' = unwritten
  BY DEF vars, recordVars, captureVars, loopVars, inputVars
<1>1. MasterName' = MasterName /\ MasterFinal' = MasterFinal
  BY <1>u DEF MasterName, MasterFinal
<1>2. RecordTypeInv' /\ WholeInv' /\ RecorderInv' /\ PendingInv'
  BY <1>u DEF RecordInv, RecordTypeInv, WholeInv, RecorderInv, RecorderOf, PendingInv
<1>3. ClosedInv' /\ LoopInv'
  BY <1>u DEF RecordInv, ClosedInv, LoopInv
<1>4. ASSUME NEW body, Beginning(body) /\ WholeFrames(body)
      PROVE  (Beginning(body) /\ WholeFrames(body))'
  BY <1>u, <1>4 DEF Beginning, WholeFrames
<1>5. MasterInv'
  BY <1>u, <1>1, <1>4 DEF RecordInv, MasterInv, MasterNames, MasterBodies
<1>6. KeptInv'
  <2>1. ASSUME NEW s \in Streams, KeptOf(s) PROVE KeptOf(s)'
    <3>1. Written(s)' = Written(s)
      BY <1>u DEF Written
    <3> QED BY <1>u, <2>1, <3>1 DEF KeptOf, BodyOf
  <2> QED BY <1>u, <2>1 DEF RecordInv, KeptInv
<1> QED BY <1>2, <1>3, <1>5, <1>6 DEF RecordInv

LEMMA NextRecord ==
  ASSUME BuiltInv, RecordInv, [Next]_vars
  PROVE  RecordInv'
<1>0. CaptureTypeInv /\ BuildInv
  BY DEF BuiltInv
<1>1. CASE ((LoopStep /\ unwritten = None) \/ Around) /\ UNCHANGED recordVars
  BY <1>0, <1>1, QuietRecord
<1>2. ASSUME NEW s \in Streams, BuildStream(s) PROVE RecordInv'
  BY <1>0, <1>2, BuildRecord
<1>3. ASSUME NEW s \in Streams, BuildStreamFails(s) PROVE RecordInv'
  BY <1>0, <1>3, BuildFailsRecord
<1>4. ASSUME NEW s \in Streams, Accept(s), unwritten = None PROVE RecordInv'
  BY <1>0, <1>4, AcceptRecord
<1>5. ASSUME NEW s \in Streams, CloseAndFinish(s) PROVE RecordInv'
  BY <1>0, <1>5, CloseRecord
<1>6. CASE Loop
  BY <1>1, <1>2, <1>3, <1>4, <1>5, <1>6, Zenon DEF Loop
<1>7. ASSUME NEW s \in Streams, Write(s) PROVE RecordInv'
  BY <1>0, <1>7, WriteRecord
<1>8. CASE MasterStarts \/ MasterGrows \/ MasterEnds \/ MasterFails
  BY <1>0, <1>8, MasterStartsRecord, MasterGrowsRecord, MasterEndsRecord, MasterFailsRecord
<1>9. CASE Crash \/ CrashInMaster
  BY <1>0, <1>9, CrashRecord, CrashInMasterRecord
<1>10. ASSUME NEW s \in Streams, CrashInWrite(s) \/ CrashInFinish(s) PROVE RecordInv'
  BY <1>0, <1>10, CrashInWriteRecord, CrashInFinishRecord
<1>11. CASE Restart
  BY <1>0, <1>11, RestartRecord
<1>12. ASSUME NEW n \in DOMAIN files, CrashInRecovery(n) PROVE RecordInv'
  BY <1>0, <1>12, CrashInRecoveryRecord
<1>13. CASE UNCHANGED vars
  BY <1>13, UnchangedRecord
<1> QED
  BY <1>1, <1>6, <1>7, <1>8, <1>9, <1>10, <1>11, <1>12, <1>13, Zenon DEF Next

LEMMA Inductive == Spec => []IInv
<1>1. Init => IInv
  BY InitCapture, InitRecord DEF Init, IInv, BuiltInv, CaptureInv
<1>2. IInv /\ [Next]_vars => IInv'
  BY NextBuilt, NextRecord DEF IInv
<1> QED BY <1>1, <1>2, PTL DEF Spec

\* A recording under its final name says what it holds, and under either name it holds
\* what its stream has handed over from the first chunk to the last, and of the chunk in
\* hand at most a piece, whatever the point of a write, of a finish or of a recovery at
\* which the process ended and however often it recovered (WavRecorder,
\* recover_part_file).
THEOREM RecordingsAreWhole == Spec => []RecordingIsWhole
<1>1. IInv => RecordingIsWhole
  <2> SUFFICES ASSUME IInv PROVE RecordingIsWhole
    OBVIOUS
  <2>1. FinalIsWhole
    <3>1. WholeInv
      BY DEF IInv, RecordInv
    <3> QED BY <3>1 DEF WholeInv, Good, FinalIsWhole
  <2>2. NothingRecordedIsLost
    <3> SUFFICES ASSUME home # None, sound, NEW s \in Range(workers)
                 PROVE  LET names == {Part(home, s), Final(home, s)} \cap Names
                        IN /\ Written(s) > 0 => names # {}
                           /\ \A n \in names :
                                /\ Len(files[n].body) \in {Written(s), Len(accepted[s])}
                                /\ \A i \in 1..Len(files[n].body) :
                                     /\ files[n].body[i].chunk = accepted[s][i]
                                     /\ i <= Written(s) => files[n].body[i].whole
      BY DEF NothingRecordedIsLost
    <3>1. s \in Streams
      <4>1. CaptureTypeInv
        BY DEF IInv, BuiltInv
      <4>2. PICK i \in 1..Len(workers) : s = workers[i]
        BY <4>1, WorkersType, Zenon
      <4> QED BY <4>1, <4>2, WorkersType
    <3>2. KeptOf(s)
      BY <3>1 DEF IInv, RecordInv, KeptInv
    <3>3. ASSUME NEW n \in {Part(home, s), Final(home, s)} \cap Names
          PROVE  BodyOf(s, files[n].body)
      BY <3>2 DEF KeptOf
    <3>4. Written(s) > 0 => {Part(home, s), Final(home, s)} \cap Names # {}
      BY <3>2 DEF KeptOf
    <3> QED BY <3>3, <3>4 DEF BodyOf
  <2> QED BY <2>1, <2>2 DEF RecordingIsWhole
<1> QED BY <1>1, Inductive, PTL

\* The master has the two tracks from the first frame on and, when it is done, to the
\* last of the longer one; one that a crash cut off is a beginning of it, up to a piece
\* of its last block (build_master_recording).
THEOREM MasterIsWhole == Spec => []MasterHasBothTracks
<1>1. IInv => MasterHasBothTracks
  <2> SUFFICES ASSUME IInv, home # None, Final(home, "master") \in Names, sound
               PROVE  LET tracks == [i \in 1..2 |-> accepted[workers[i]]]
                          body == files[Final(home, "master")].body
                      IN /\ \A i \in 1..Len(body), t \in 1..2 :
                              body[i].chunk[t]
                                = IF i <= Len(tracks[t]) THEN tracks[t][i] ELSE Silence
                         /\ \A i \in 1..Len(body) :
                              body[i].whole \/ (master = "cut" /\ i = Len(body))
                         /\ master = "done" =>
                              Len(body) = Longer(Len(tracks[1]), Len(tracks[2]))
    BY DEF MasterHasBothTracks
  <2>1. MasterBodies
    BY DEF IInv, RecordInv, MasterInv
  <2>2. MasterFinal = Final(home, "master")
    BY DEF MasterFinal
  <2> QED BY <2>1, <2>2 DEF MasterBodies, Beginning, WholeFrames
<1> QED BY <1>1, Inductive, PTL

\* The start after a crash leaves no recording under its temporary name in the
\* directory that is configured, if every recovery succeeds
\* (recover_incomplete_recordings): for any number of files, in whatever order.
THEOREM RestartRecoversAll == Spec => RestartRecovers
<1>1. IInv /\ [Next]_vars =>
        [~up /\ up' /\ sound' => \A n \in DOMAIN files' : n.part => n.dir # dir']_vars
  <2> SUFFICES ASSUME IInv, [Next]_vars, ~up, up', sound', NEW n \in DOMAIN files', n.part
               PROVE  n.dir # dir'
    OBVIOUS
  <2>1. RecordTypeInv /\ Disk(files)
    BY DEF IInv, RecordInv, RecordTypeInv
  <2>2. Restart
    <3>1. ~Loop /\ ~(up /\ Around /\ UNCHANGED recordVars) /\ ~(UNCHANGED vars)
      BY DEF Loop, vars, recordVars
    <3>2. ~MasterStarts /\ ~MasterGrows /\ ~MasterEnds /\ ~MasterFails
      BY DEF MasterStarts, MasterGrows, MasterGrowing, MasterEnds, MasterFull, MasterFails
    <3>3. ~Crash /\ ~CrashInMaster
      BY DEF Crash, CrashInMaster, MasterGrowing, MasterFull
    <3>4. \A s \in Streams : ~Write(s) /\ ~CrashInWrite(s) /\ ~CrashInFinish(s)
      BY DEF Write, CrashInWrite, CrashInFinish
    <3>5. \A m \in DOMAIN files : ~CrashInRecovery(m)
      BY DEF CrashInRecovery
    <3> QED BY <3>1, <3>2, <3>3, <3>4, <3>5, Zenon DEF Next
  <2>3. /\ Left(dir') \subseteq {m \in DOMAIN files : m.part}
        /\ files' = Recovered(files, Left(dir'))
    BY <2>1, <2>2, RestartIs
  <2>4. n \in DOMAIN files \ Left(dir')
    BY <2>1, <2>3, RecoveredIs
  <2> QED BY <2>4 DEF Left
<1> QED BY <1>1, Inductive, PTL DEF Spec, RestartRecovers
================================================================================
