----------------------------- MODULE StreamWorker -----------------------------
(***************************************************************************)
(* How one audio stream is cut into segments: StreamWorker::tick, pause    *)
(* and shutdown (crates/talksage-pipeline/src/lib.rs) with the lifecycle   *)
(* of a segment (segment.rs) and the endpoint detector (endpoint.rs).      *)
(*                                                                         *)
(* Audio comes in chunks of 100 ms, and everything is counted in chunks:   *)
(* chunk n ends when the stream's clock is n.  What the microphone, the    *)
(* VAD and the ASR engine make of a chunk is chosen nondeterministically.  *)
(* Whether a cut segment becomes a final event (its text may be empty, a   *)
(* filter may swallow it) is left to SessionLifecycle, where the commits   *)
(* of a stream are events of the session; the thread behind poll_changed   *)
(* is SpeakerChange.                                                       *)
(***************************************************************************)
EXTENDS Naturals, Sequences

CONSTANTS
  MaxChunks,            \* bound: chunks of the session
  PreRollLimit,         \* pre_roll_limit_samples, in chunks (500 ms in new)
  Stable, Quiet,        \* EndpointConfig.stable_ms, quiet_ms,
  ForceQuiet,           \*   force_quiet_ms
  MinSegment,           \*   and min_segment_ms, in chunks
  TailGap               \* the VAD ends speech at most once in so many chunks

\* The VAD needs min_speech and min_silence between two tails.  That is longer
\* than the default stable_ms for every scene; the "sensitive" preset alone comes
\* within a chunk of it, and the settings page lets the user choose otherwise:
\* then a tail may come while an earlier one waits, which starts its wait anew.
ASSUME StreamAssumption ==
  /\ MaxChunks \in Nat
  /\ PreRollLimit \in Nat \ {0}
  /\ Stable \in Nat \ {0} /\ Quiet \in Nat /\ ForceQuiet \in Nat /\ MinSegment \in Nat
  /\ TailGap \in Nat /\ Stable < TailGap

VARIABLES
  setup,                \* the stream's input, engine kind, endpoint.enabled, voiceprint
  loop,                 \* run_loop: running, paused, closed (the stream is shut down)
  done,                 \* StreamWorker.done
  clock,                \* AudioClock: chunks accepted
  counted,              \* StreamStatistics: chunks of speech, and chunks that found no
                        \*   segment open
  vad,                  \* the VAD: speech detected, and when; chunks since its last tail
  preRoll,              \* the chunks kept from before speech was confirmed
  seg,                  \* in_speech, the segment's statistics and SegmentLifecycle
  ended,                \* the first tail within this segment: when it came (0: not yet)
                        \*   and when the speech it ends had been detected
  boundary,             \* the clock when the last segment was cut or the stream paused
  lastCut               \* the last segment cut, and what cut it

vars == <<setup, loop, done, clock, counted, vad, preRoll, seg, ended, boundary, lastCut>>

NoSegment ==
  [open |-> FALSE, from |-> 0, len |-> 0, heard |-> <<>>,
   worded |-> FALSE, stable |-> 0, quiet |-> 0, pending |-> FALSE, waited |-> 0]
SilentVad == [speech |-> FALSE, since |-> 0, age |-> 0]
NoTail == [at |-> 0, since |-> 0]
NothingCounted == [speech |-> 0, still |-> 0]

Init ==
  /\ setup \in [input : {"device", "file"}, streaming : BOOLEAN, endpoint : BOOLEAN,
                voiceprint : BOOLEAN]
  /\ loop = "running" /\ done = FALSE
  /\ clock = 0 /\ counted = NothingCounted /\ vad = SilentVad /\ preRoll = <<>>
  /\ seg = NoSegment /\ ended = NoTail /\ boundary = 0
  /\ lastCut = [cause |-> "none", from |-> 0, to |-> 0, tail |-> NoTail]
--------------------------------------------------------------------------------
\* The pre-roll takes the chunk and drops what is older than its limit.
PushPreRoll(chunk) ==
  LET longer == Append(preRoll, chunk)
  IN  IF Len(longer) > PreRollLimit THEN Tail(longer) ELSE longer

\* Mutant: the segment starts with the chunk in which speech was confirmed.
FromThisChunk(chunk, roll) == chunk - 1

StartOf(chunk, roll) == (chunk - 1) - (Len(roll) - 1)

\* Speech is confirmed: a new segment, whose engine hears the pre-roll first.
Begin(chunk, roll) ==
  [NoSegment EXCEPT !.open = TRUE, !.from = StartOf(chunk, roll), !.len = Len(roll),
                    !.heard = roll]

\* Mutant: the engine is given a chunk of an open segment only when it is not
\* waiting for its end.
HearUnlessPending(s, chunk) ==
  [s EXCEPT !.len = @ + 1, !.heard = IF s.pending THEN @ ELSE Append(@, chunk),
            !.waited = IF s.pending THEN @ + 1 ELSE @]

\* advance_pending, observe_speech and engine.accept for one more chunk.
Hear(s, chunk) ==
  [s EXCEPT !.len = @ + 1, !.heard = Append(@, chunk),
            !.waited = IF s.pending THEN @ + 1 ELSE @]

\* accept_partial and StableEndpoint::observe on what the engine returned
\* (PartialUpdate) and on whether the chunk was quiet.  Engines that are not
\* streaming return nothing; a disabled endpoint observes nothing.
Observe(s, partial, hush) ==
  [s EXCEPT !.worded = s.worded \/ partial # "Empty",
            !.stable = IF partial = "Unchanged" /\ setup.endpoint THEN @ + 1 ELSE 0,
            !.quiet  = IF hush /\ setup.streaming /\ setup.endpoint THEN @ + 1 ELSE 0]

EndpointReady(s) ==
  /\ setup.streaming /\ setup.endpoint
  /\ s.len >= MinSegment
  /\ (s.stable >= Stable /\ s.quiet >= Quiet) \/ s.quiet >= ForceQuiet

MarkTail(s, tail) == IF tail THEN [s EXCEPT !.pending = TRUE, !.waited = 0] ELSE s

\* SegmentLifecycle::decide: nothing, a commit at the end of speech, or a natural
\* one while the VAD still hears speech.
Natural(s, ready) == setup.input # "file" /\ ready /\ ~s.pending

\* Mutant: waiting for more than stable_ms.
WaitedLonger(s, ready) == s.pending /\ (ready \/ s.waited > Stable)

PendingReady(s, ready) == s.pending /\ (ready \/ s.waited >= Stable)

Decide(s, ready, tail) ==
  CASE ~setup.streaming \/ ~setup.endpoint -> IF tail THEN "tail" ELSE "none"
    [] Natural(s, ready)                   -> "natural"
    [] PendingReady(s, ready)              -> "tail"
    [] OTHER                               -> "none"
--------------------------------------------------------------------------------
\* finish_speech for a segment s, at clock t.
Cut(s, t, cause, tail) ==
  /\ seg' = NoSegment
  /\ ended' = NoTail
  /\ IF s.open
     THEN /\ boundary' = t
          /\ lastCut' = [cause |-> cause, from |-> s.from, to |-> t, tail |-> tail]
     ELSE UNCHANGED <<boundary, lastCut>>

\* vad.accept_waveform (external).  The VAD reports the end of speech by a tail,
\* and detected() stays true until then.
VadAccepts(tail, speech) ==
  /\ tail => vad.speech /\ vad.age + 1 >= TailGap
  /\ vad.speech /\ ~tail => speech
  /\ vad' = [speech |-> speech,
             since |-> IF ~speech THEN 0 ELSE IF vad.speech /\ ~tail THEN vad.since ELSE clock + 1,
             age |-> IF tail THEN 0 ELSE IF vad.age < TailGap THEN vad.age + 1 ELSE vad.age]

\* vad.reset(), after vad.accept_waveform.
ResetVad(tail, speech) ==
  /\ tail => vad.speech /\ vad.age + 1 >= TailGap
  /\ vad.speech /\ ~tail => speech
  /\ vad' = SilentVad

\* The end of tick: the tails are drained and it is decided what becomes of s.
Conclude(s, ready, tail, speech) ==
  LET marked   == MarkTail(s, tail)
      decision == Decide(marked, ready, tail)
      first    == IF ended = NoTail /\ s.open /\ tail
                  THEN [at |-> clock + 1, since |-> vad.since] ELSE ended
  IN  CASE decision = "none" ->
             /\ seg' = marked /\ ended' = first
             /\ UNCHANGED <<boundary, lastCut>>
             /\ VadAccepts(tail, speech)
        [] decision = "tail" ->
             /\ IF s.open THEN Cut(s, clock + 1, "tail", first)
                ELSE seg' = marked /\ UNCHANGED <<ended, boundary, lastCut>>
             /\ VadAccepts(tail, speech)
        [] OTHER ->
             /\ Cut(s, clock + 1, "natural", first)
             /\ ResetVad(tail, speech)

\* observe_block: a block is background as long as no segment is open, and so is
\* the block in which speech is confirmed.
ObserveBlock(statistics) ==
  IF seg.open THEN statistics ELSE [statistics EXCEPT !.still = @ + 1]

\* observe_speech, for each chunk that the engine is given.
ObserveSpeech(statistics, spoken) == [statistics EXCEPT !.speech = @ + Len(spoken)]

\* One more chunk, of which spoken go to the open segment or to a new one.
Chunk(spoken) ==
  /\ loop = "running" /\ ~done /\ clock < MaxChunks
  /\ clock' = clock + 1
  /\ counted' = ObserveSpeech(ObserveBlock(counted), spoken)
  /\ UNCHANGED <<setup, loop, done>>

\* No segment is open and the VAD does not detect speech.
QuietChunk ==
  /\ Chunk(<<>>) /\ ~seg.open
  /\ preRoll' = PushPreRoll(clock')
  /\ \E tail \in BOOLEAN : Conclude(seg, FALSE, tail, FALSE)

\* The VAD detects speech: the chunk opens a segment.
Onset ==
  /\ Chunk(PushPreRoll(clock + 1)) /\ ~seg.open
  /\ preRoll' = <<>>
  /\ \E tail \in BOOLEAN :
       Conclude(Begin(clock', PushPreRoll(clock')), FALSE, tail, TRUE)

Partials ==
  IF ~setup.streaming THEN {"Empty"}
  ELSE {"Empty", "Changed"} \cup (IF seg.worded THEN {"Unchanged"} ELSE {})

\* One more chunk of an open segment.
SpeechChunk ==
  /\ Chunk(<<clock + 1>>) /\ seg.open
  /\ UNCHANGED preRoll
  /\ \E partial \in Partials, hush \in BOOLEAN, tail \in BOOLEAN, speech \in BOOLEAN :
       LET s == Observe(Hear(seg, clock'), partial, hush)
       IN  Conclude(s, EndpointReady(s), tail, speech)

\* poll_changed: another speaker talks.  The segment is cut after this chunk.
SpeakerChanged ==
  /\ Chunk(<<clock + 1>>) /\ seg.open /\ setup.voiceprint
  /\ \E tail \in BOOLEAN, speech \in BOOLEAN : ResetVad(tail, speech)
  /\ preRoll' = <<>>
  /\ Cut(Hear(seg, clock'), clock', "change", ended)
--------------------------------------------------------------------------------
\* The end of a file.  A device has none: the stream keeps a sender of its
\* channel, so that poll_audio finds it empty when the device is gone.
EndOfFile ==
  /\ loop = "running" /\ setup.input = "file" /\ ~done
  /\ done' = TRUE
  /\ Cut(seg, clock, "end", ended)
  /\ UNCHANGED <<setup, loop, clock, counted, vad, preRoll>>

\* run_loop sees that the session was paused.  Until it sees that the session
\* goes on, audio is discarded and the clock stands still.
Pause ==
  /\ loop = "running" /\ loop' = "paused"
  /\ seg' = NoSegment /\ ended' = NoTail
  /\ boundary' = clock
  /\ lastCut' = IF seg.open
                THEN [cause |-> "pause", from |-> seg.from, to |-> clock, tail |-> ended]
                ELSE lastCut
  /\ vad' = SilentVad /\ preRoll' = <<>>
  /\ UNCHANGED <<setup, done, clock, counted>>

Resume ==
  /\ loop = "paused" /\ loop' = "running"
  /\ UNCHANGED <<setup, done, clock, counted, vad, preRoll, seg, ended, boundary, lastCut>>

\* StreamWorker::shutdown, after the loop was left: on a stop, or as every input
\* is done.
Shutdown ==
  /\ loop \in {"running", "paused"} /\ loop' = "closed"
  /\ Cut(seg, clock, "stop", ended)
  /\ UNCHANGED <<setup, done, clock, counted, vad, preRoll>>
--------------------------------------------------------------------------------
Next ==
  \/ QuietChunk \/ Onset \/ SpeechChunk \/ SpeakerChanged
  \/ EndOfFile \/ Pause \/ Resume \/ Shutdown

Spec == Init /\ [][Next]_vars
--------------------------------------------------------------------------------
TypeOK ==
  /\ setup \in [input : {"device", "file"}, streaming : BOOLEAN, endpoint : BOOLEAN,
                voiceprint : BOOLEAN]
  /\ loop \in {"running", "paused", "closed"} /\ done \in BOOLEAN
  /\ clock \in 0..MaxChunks /\ counted \in [speech : 0..clock, still : 0..clock]
  /\ vad \in [speech : BOOLEAN, since : 0..clock, age : 0..TailGap]
  /\ preRoll \in Seq(1..clock) /\ Len(preRoll) <= PreRollLimit
  /\ seg \in [open : BOOLEAN, from : 0..clock, len : 0..clock, heard : Seq(1..clock),
              worded : BOOLEAN, stable : 0..clock, quiet : 0..clock,
              pending : BOOLEAN, waited : 0..clock]
  /\ ended \in [at : 0..clock, since : 0..clock] /\ boundary \in 0..clock
  /\ lastCut \in [cause : {"none", "tail", "natural", "change", "end", "pause", "stop"},
                  from : 0..clock, to : 0..clock,
                  tail : [at : 0..clock, since : 0..clock]]

\* What ASR has heard of the open segment is exactly the audio between the start
\* that its events report and now: no chunk is missing, doubled or out of order,
\* across the pre-roll, and none belongs to an earlier segment or to the time
\* before a pause.
HearsItsAudio ==
  seg.open =>
    /\ seg.from + seg.len = clock
    /\ seg.heard = [i \in 1..seg.len |-> seg.from + i]
    /\ seg.from >= boundary

\* snapshot: the times that the report on the session is made from.
Snapshot == [total |-> clock, speech |-> counted.speech, background |-> counted.still]

\* No chunk is speech twice, though it may have been taken for background before
\* it turned out, in the pre-roll, to be speech; and each is one or the other.  The
\* share of speech that the quality is judged by is never more than the whole.
StatisticsAddUp ==
  LET all == Snapshot
  IN  /\ all.speech <= all.total /\ all.background <= all.total
      /\ all.speech + all.background >= all.total
      /\ ~seg.open /\ Len(preRoll) > 0 => all.speech <= all.total - Len(preRoll)

\* What a segment is made of, and what the statistics make of it (lib.rs:620-668,
\* statistics.rs:37-61).
HeardIsTheSegment == HearsItsAudio /\ StatisticsAddUp

\* Every segment starts as early as it may: with the 500 ms before the chunk in
\* which speech was confirmed, or where the stream was last cut or paused.
OnsetIsKept ==
  [][~seg.open /\ seg'.open =>
       seg'.from = IF boundary + PreRollLimit > clock' THEN boundary
                   ELSE clock' - PreRollLimit]_vars

\* A segment that the VAD has ended is cut soon: after stable_ms of audio, even
\* if speech goes on and the text keeps changing.
TailsCutInTime ==
  /\ seg.open /\ ended # NoTail => clock - ended.at < Stable
  /\ lastCut.cause = "tail" => lastCut.to - lastCut.tail.at <= Stable

\* A file is cut where the VAD ended speech within the segment, and elsewhere
\* only for a pause, another speaker or the end (asr-optimization.md:33); a tail
\* that belongs to an earlier segment cuts nothing.
FilesCutAtTails ==
  /\ setup.input = "file" => lastCut.cause # "natural"
  /\ lastCut.cause = "tail" => lastCut.tail.at > lastCut.from

\* After a cut in the middle of speech (by the endpoint, or for another speaker)
\* the VAD starts afresh: the next segment is not ended by the tail of speech
\* that the VAD had detected before that cut (asr-optimization.md:33).
OldTailsCutNothing ==
  [][lastCut.cause \in {"natural", "change"} /\ lastCut' # lastCut /\ lastCut'.cause = "tail"
       => lastCut'.tail.since > lastCut.to]_vars

\* A tail of the VAD cuts the segment it belongs to, in time, and nothing else
\* (segment.rs:83, lib.rs:722-737).
TailsCutTheirSegment == TypeOK /\ TailsCutInTime /\ FilesCutAtTails

\* Where segments begin and what may end them, from one cut to the next.
CutsAreClean == OnsetIsKept /\ OldTailsCutNothing
================================================================================
