----------------------------- MODULE SpeakerChange -----------------------------
(***************************************************************************)
(* The detection of a change of speaker within a segment                   *)
(* (crates/talksage-pipeline/src/speaker_change.rs, with its callers tick, *)
(* finish_speech and reset_segment_state in lib.rs).                       *)
(*                                                                         *)
(* The stream submits a window of the segment's audio at regular steps to  *)
(* a thread of its own, through a channel of one job; when that is full,   *)
(* the window is skipped.  The thread compares windows with an anchor and  *)
(* returns what it found, tagged with the generation of the segment.  The  *)
(* stream may end the segment for other reasons at any time, with a window *)
(* still being computed.                                                   *)
(***************************************************************************)
EXTENDS Naturals, Sequences

CONSTANTS
  MaxSegments,          \* bound: segments of the stream
  MaxLength,            \* bound: chunks in a segment
  MaxAudio,             \* MAX_SEG_AUDIO (30 s), in chunks
  Window,               \* WINDOW_SAMPLES, in chunks
  Step,                 \* STEP_SAMPLES, in chunks
  MinTurn,              \* MIN_TURN_SAMPLES, in chunks
  Required,             \* REQUIRED_MISMATCHES
  None

ASSUME SpeakerChangeAssumption ==
  /\ MaxSegments \in Nat /\ MaxLength \in Nat \ {0} /\ MaxAudio \in Nat \ {0}
  /\ Window \in Nat \ {0} /\ Step \in Nat \ {0} /\ MinTurn \in Nat
  /\ Required \in Nat \ {0}

VARIABLES
  phase,                \* the stream: idle, open, polling, finishing, dropping, joined
  segment,              \* which segment is, or was last, open
  length, audio,        \* its length, and that of seg_audio
  nextSubmit,           \* SpeakerChangeWorker.next_submit
  generation,           \* SpeakerChangeWorker.generation
  jobs, sender,         \* the channel of one job; the stream still holds tx
  results,              \* the channel of results
  thread,               \* run_worker: waiting, computing, ended
  job,                  \* the job it computes, or None
  known,                \* the generation its detector is about, or None
  anchored, odd,        \* the detector: it has an anchor; the windows that mismatched
  cut                   \* the last cut for a change: its segment, and the windows for it

streamVars == <<phase, segment, length, audio, nextSubmit, generation, cut>>
threadVars == <<thread, job, known, anchored, odd>>
detectorVars == <<streamVars, jobs, sender, results, threadVars>>

\* A window: the segment it was taken from, and where it ends.
Windows == [of : 1..MaxSegments, total : 1..MaxAudio]
Jobs    == [generation : Nat, window : Windows]

DetectorInit ==
  /\ phase = "idle" /\ segment = 0 /\ length = 0 /\ audio = 0
  /\ nextSubmit = Window /\ generation = 0
  /\ jobs = <<>> /\ sender = TRUE /\ results = <<>>
  /\ thread = "waiting" /\ job = None /\ known = None /\ anchored = FALSE /\ odd = <<>>
  /\ cut = [of |-> 0, by |-> <<>>]
--------------------------------------------------------------------------------
Capped(n) == IF n > MaxAudio THEN MaxAudio ELSE n

\* A segment opens, with some pre-roll.
Open ==
  /\ phase = "idle" /\ segment < MaxSegments
  /\ phase' = "open" /\ segment' = segment + 1
  /\ length' = 1 /\ audio' = 1
  /\ UNCHANGED <<nextSubmit, generation, cut, jobs, sender, results, threadVars>>

\* try_send
SendOrSkip(j) == jobs' = IF jobs = <<>> THEN <<j>> ELSE jobs

\* tick takes another chunk, and submit_if_due a window if it is due.
HearChunk ==
  /\ phase = "open" /\ length < MaxLength
  /\ phase' = "polling"
  /\ length' = length + 1 /\ audio' = Capped(audio + 1)
  /\ IF audio' < nextSubmit THEN UNCHANGED <<nextSubmit, jobs>>
     ELSE /\ nextSubmit' = audio' + Step
          /\ SendOrSkip([generation |-> generation,
                         window |-> [of |-> segment, total |-> audio']])
  /\ UNCHANGED <<segment, generation, cut, sender, results, threadVars>>

\* Mutant: results count whatever segment they are about.
AnyResult(r) == r.changed

CurrentChange(r) == r.changed /\ r.generation = generation

\* poll_changed, which empties the channel of results.
Poll ==
  /\ phase = "polling"
  /\ results' = <<>>
  /\ IF \E i \in 1..Len(results) : CurrentChange(results[i])
     THEN /\ phase' = "finishing"
          /\ cut' = [of |-> segment,
                     by |-> LET i == CHOOSE i \in 1..Len(results) : CurrentChange(results[i])
                            IN  results[i].odd]
     ELSE phase' = "open" /\ UNCHANGED cut
  /\ UNCHANGED <<segment, length, audio, nextSubmit, generation, jobs, sender, threadVars>>

\* The segment ends for another reason: an endpoint, a pause, the end of the input.
OtherEnd ==
  /\ phase = "open" /\ phase' = "finishing"
  /\ UNCHANGED <<segment, length, audio, nextSubmit, generation, cut, jobs, sender,
                 results, threadVars>>

NextGeneration == generation' = generation + 1

\* ... and is finished, which takes its time: reset_segment_state and reset.
Reset ==
  /\ phase = "finishing" /\ phase' = "idle"
  /\ NextGeneration
  /\ nextSubmit' = Window /\ audio' = 0 /\ length' = 0
  /\ results' = <<>>
  /\ UNCHANGED <<segment, cut, jobs, sender, threadVars>>

\* Mutant: the stream keeps its end of the channel while it joins.
KeepSender == UNCHANGED sender

DropSender == sender' = FALSE

\* The stream is dropped: it drops the sender and joins the thread.
Drop ==
  /\ phase = "idle" /\ phase' = "dropping"
  /\ DropSender
  /\ UNCHANGED <<segment, length, audio, nextSubmit, generation, cut, jobs, results, threadVars>>

Join ==
  /\ phase = "dropping" /\ thread = "ended"
  /\ phase' = "joined"
  /\ UNCHANGED <<segment, length, audio, nextSubmit, generation, cut, jobs, sender,
                 results, threadVars>>
--------------------------------------------------------------------------------
\* The detector starts anew when a job is of another generation than the last.
ForgetIfNew(j) ==
  /\ known' = j.generation
  /\ IF known = j.generation THEN UNCHANGED <<anchored, odd>>
     ELSE anchored' = FALSE /\ odd' = <<>>

\* rx.recv of run_worker: a job, or the end.
Receive ==
  /\ thread = "waiting" /\ jobs # <<>>
  /\ thread' = "computing" /\ job' = Head(jobs) /\ jobs' = Tail(jobs)
  /\ ForgetIfNew(Head(jobs))
  /\ UNCHANGED <<streamVars, sender, results>>

End ==
  /\ thread = "waiting" /\ jobs = <<>> /\ ~sender
  /\ thread' = "ended"
  /\ UNCHANGED <<streamVars, jobs, sender, results, job, known, anchored, odd>>

Report(changed, windows) ==
  /\ results' = Append(results, [generation |-> job.generation, changed |-> changed,
                                 odd |-> IF changed THEN windows ELSE <<>>])
  /\ thread' = "waiting" /\ job' = None
  /\ UNCHANGED <<streamVars, jobs, sender, known>>

\* SpeakerChangeDetector::observe.  Without an embedding nothing is observed; the
\* first window is the anchor; a window like it clears what was held against it.
NoEmbedding ==
  /\ thread = "computing"
  /\ Report(FALSE, <<>>) /\ UNCHANGED <<anchored, odd>>

SetAnchor ==
  /\ thread = "computing" /\ ~anchored
  /\ anchored' = TRUE
  /\ Report(FALSE, <<>>) /\ UNCHANGED odd

Match ==
  /\ thread = "computing" /\ anchored
  /\ odd' = <<>>
  /\ Report(FALSE, <<>>) /\ UNCHANGED anchored

Enough(windows) == Len(windows) >= Required

Mismatch ==
  /\ thread = "computing" /\ anchored
  /\ odd' = IF job.window.total < MinTurn THEN odd ELSE Append(odd, job.window)
  /\ Report(odd' # odd /\ Enough(odd'), odd')
  /\ UNCHANGED anchored
--------------------------------------------------------------------------------
Stream == Open \/ HearChunk \/ Poll \/ OtherEnd \/ Reset \/ Drop \/ Join
Thread == Receive \/ End \/ NoEmbedding \/ SetAnchor \/ Match \/ Mismatch

DetectorNext == Stream \/ Thread

DetectorSpec == DetectorInit /\ [][DetectorNext]_detectorVars

\* The thread is scheduled, and computing an embedding takes a finite time.
DetectorFairness == WF_detectorVars(Thread) /\ WF_detectorVars(Join)

DetectorFairSpec == DetectorSpec /\ DetectorFairness
--------------------------------------------------------------------------------
Results == [generation : Nat, changed : BOOLEAN, odd : Seq(Windows)]

DetectorTypeOK ==
  /\ phase \in {"idle", "open", "polling", "finishing", "dropping", "joined"}
  /\ segment \in 0..MaxSegments /\ length \in 0..MaxLength /\ audio \in 0..MaxAudio
  /\ nextSubmit \in Nat /\ generation \in 0..MaxSegments
  /\ jobs \in Seq(Jobs) /\ Len(jobs) <= 1 /\ sender \in BOOLEAN
  /\ results \in Seq(Results)
  /\ thread \in {"waiting", "computing", "ended"} /\ job \in Jobs \cup {None}
  /\ known \in Nat \cup {None} /\ anchored \in BOOLEAN /\ odd \in Seq(Windows)
  /\ cut \in [of : 0..MaxSegments, by : Seq(Windows)]

\* A segment is cut only for two windows of its own, taken after its first two
\* seconds, that differ from an anchor: however late the results of an earlier
\* segment come, they cut nothing (architecture-v2.md:563-564).
CutsAreJustified ==
  cut.of # 0 =>
    /\ Len(cut.by) >= Required
    /\ \A i \in 1..Len(cut.by) : cut.by[i].of = cut.of /\ cut.by[i].total >= MinTurn

\* Dropping a stream does not hang on its thread.
DropReturns == (phase = "dropping") ~> (phase = "joined")
================================================================================
