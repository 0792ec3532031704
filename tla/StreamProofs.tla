------------------------------ MODULE StreamProofs -----------------------------
(***************************************************************************)
(* Proofs about the two halves of a stream, and about what is kept of its  *)
(* recording.                                                              *)
(*                                                                         *)
(* StreamWorker: for any thresholds, any number of chunks and any VAD that *)
(* keeps its gap, a segment is contiguous audio, heard whole and counted   *)
(* once, begins with its pre-roll, and is cut in time by its own tail.     *)
(*                                                                         *)
(* SpeakerChange: whatever the lengths and however late the thread, a      *)
(* segment is cut only for windows of its own.                             *)
(*                                                                         *)
(* SilenceTrim: for any block and padding and a recording of any length,   *)
(* what is kept of it is its speech with its padding, once and in order.   *)
(* The argument goes over the blocks: the stretches found in the first of  *)
(* them cover these blocks' speech and are apart, and the next stretch,    *)
(* which does not begin before them, either meets the last or follows it.  *)
(***************************************************************************)
EXTENDS StreamWorker, SpeakerChange, SilenceTrim, DataLemmas, SequenceTheorems, TLAPS

Run(chunks, from) == \A i \in 1..Len(chunks) : chunks[i] = from + i

Segments == [open : BOOLEAN, from : Nat, len : Nat, heard : Seq(Nat), worded : BOOLEAN,
             stable : Nat, quiet : Nat, pending : BOOLEAN, waited : Nat]
Tails == [at : Nat, since : Nat]
Causes == {"none", "tail", "natural", "change", "end", "pause", "stop"}

\* A segment s at clock t: the chunks it has heard are its own.
Contiguous(s, t) ==
  /\ s \in Segments
  /\ s.stable <= t /\ s.quiet <= t /\ s.waited <= t
  /\ Len(s.heard) = s.len /\ Run(s.heard, s.from) /\ s.from + s.len <= t
  /\ s.open => s.from + s.len = t /\ s.len >= 1

\* Its first tail, when the VAD's age is known: it waits for its end since the
\* tail came, and no other tail can come before it is cut.
Waits(s, t, tail, age) ==
  /\ ~s.open => tail = NoTail
  /\ s.open /\ s.pending => tail # NoTail
  /\ s.open /\ tail # NoTail =>
       /\ setup.streaming /\ setup.endpoint /\ s.pending
       /\ tail.at + s.waited = t /\ age = s.waited /\ tail.at > s.from

Base ==
  /\ setup \in [input : {"device", "file"}, streaming : BOOLEAN, endpoint : BOOLEAN,
                voiceprint : BOOLEAN]
  /\ loop \in {"running", "paused", "closed"} /\ done \in BOOLEAN
  /\ clock \in 0..MaxChunks /\ boundary \in 0..clock

VadInv ==
  /\ vad \in [speech : BOOLEAN, since : Nat, age : 0..TailGap] /\ vad.since <= clock
  /\ ended \in Tails /\ ended.at <= clock /\ ended.since <= clock

SegInv == Contiguous(seg, clock) /\ (seg.open => seg.from >= boundary)

WaitInv ==
  /\ Waits(seg, clock, ended, vad.age)
  /\ seg.open /\ ended # NoTail => seg.waited < Stable

\* The pre-roll is the audio since the last cut, or the last of it.
PreRollInv ==
  /\ preRoll \in Seq(Nat) /\ Run(preRoll, clock - Len(preRoll))
  /\ seg.open => preRoll = <<>>
  /\ ~seg.open => Len(preRoll) = IF boundary + PreRollLimit > clock THEN clock - boundary
                                 ELSE PreRollLimit

CountInv ==
  /\ counted \in [speech : Nat, still : Nat]
  /\ counted.speech + Len(preRoll) <= clock /\ counted.still <= clock
  /\ counted.speech + counted.still >= clock

\* What cut the last segment, and what the VAD may remember from before it.
CutInv ==
  /\ lastCut \in [cause : Causes, from : Nat, to : Nat, tail : Tails]
  /\ lastCut.from <= clock /\ lastCut.to <= clock
  /\ lastCut.tail.at <= clock /\ lastCut.tail.since <= clock
  /\ setup.input = "file" => lastCut.cause # "natural"
  /\ lastCut.cause = "tail" =>
       lastCut.to - lastCut.tail.at <= Stable /\ lastCut.tail.at > lastCut.from
  /\ lastCut.cause \in {"natural", "change"} =>
       /\ vad.speech => vad.since > lastCut.to
       /\ ended # NoTail => ended.since > lastCut.to

IInv == Base /\ VadInv /\ SegInv /\ WaitInv /\ PreRollInv /\ CountInv /\ CutInv

\* What a step promises beside.
OnsetStep ==
  ~seg.open /\ seg'.open =>
    seg'.from = IF boundary + PreRollLimit > clock' THEN boundary ELSE clock' - PreRollLimit

TailStep ==
  lastCut.cause \in {"natural", "change"} /\ lastCut' # lastCut /\ lastCut'.cause = "tail"
    => lastCut'.tail.since > lastCut.to
--------------------------------------------------------------------------------
LEMMA RunAppend ==
  ASSUME NEW chunks \in Seq(Nat), NEW from \in Nat, Run(chunks, from),
         NEW n \in Nat, n = from + Len(chunks) + 1
  PROVE  /\ Append(chunks, n) \in Seq(Nat) /\ Len(Append(chunks, n)) = Len(chunks) + 1
         /\ Run(Append(chunks, n), from)
<1>1. /\ Append(chunks, n) \in Seq(Nat) /\ Len(Append(chunks, n)) = Len(chunks) + 1
      /\ \A i \in 1..Len(chunks) : Append(chunks, n)[i] = chunks[i]
      /\ Append(chunks, n)[Len(chunks) + 1] = n
  BY AppendProperties
<1>2. ASSUME NEW i \in 1..Len(Append(chunks, n)) PROVE Append(chunks, n)[i] = from + i
  <2>1. CASE i \in 1..Len(chunks)
    BY <1>1, <2>1 DEF Run
  <2>2. CASE i = Len(chunks) + 1
    BY <1>1, <2>2
  <2> QED BY <1>1, <2>1, <2>2
<1> QED BY <1>1, <1>2 DEF Run

LEMMA RunTail ==
  ASSUME NEW chunks \in Seq(Nat), NEW from \in Nat, Run(chunks, from), Len(chunks) > 0
  PROVE  /\ Tail(chunks) \in Seq(Nat) /\ Len(Tail(chunks)) = Len(chunks) - 1
         /\ Run(Tail(chunks), from + 1)
<1>1. /\ Tail(chunks) \in Seq(Nat) /\ Len(Tail(chunks)) = Len(chunks) - 1
      /\ \A i \in 1..Len(Tail(chunks)) : Tail(chunks)[i] = chunks[i + 1]
  <2>1. chunks # <<>>
    OBVIOUS
  <2> QED BY <2>1, HeadTailProperties
<1>2. ASSUME NEW i \in 1..Len(Tail(chunks)) PROVE Tail(chunks)[i] = (from + 1) + i
  <2>1. i + 1 \in 1..Len(chunks)
    BY <1>1
  <2>2. chunks[i + 1] = from + (i + 1)
    BY <2>1 DEF Run
  <2> QED BY <1>1, <2>2
<1> QED BY <1>1, <1>2 DEF Run

\* The pre-roll with one more chunk: a run that ends with it, and one longer unless
\* the limit is reached.
Rolled(roll) ==
  /\ roll \in Seq(Nat) /\ Len(roll) \in 1..clock + 1 /\ Len(roll) <= Len(preRoll) + 1
  /\ Run(roll, (clock + 1) - Len(roll))
  /\ Len(roll) = IF boundary + PreRollLimit > clock + 1 THEN (clock + 1) - boundary
                 ELSE PreRollLimit

LEMMA PushedRoll ==
  ASSUME Base, PreRollInv, ~seg.open
  PROVE  Rolled(PushPreRoll(clock + 1))
<1> DEFINE longer == Append(preRoll, clock + 1)
           from == clock - Len(preRoll)
<1> USE StreamAssumption
<1>1. /\ clock \in Nat /\ boundary \in Nat /\ boundary <= clock /\ Len(preRoll) \in Nat
      /\ PreRollLimit \in Nat /\ PreRollLimit >= 1
  BY DEF Base, PreRollInv
<1>2. Len(preRoll) <= clock /\ from \in Nat /\ from + Len(preRoll) = clock
  BY <1>1 DEF PreRollInv
<1>3. /\ longer \in Seq(Nat) /\ Len(longer) = Len(preRoll) + 1 /\ Run(longer, from)
  <2>1. clock + 1 = from + Len(preRoll) + 1 /\ clock + 1 \in Nat
    BY <1>1, <1>2
  <2>2. preRoll \in Seq(Nat) /\ Run(preRoll, from)
    BY DEF PreRollInv
  <2> HIDE DEF from
  <2> QED BY <1>2, <2>1, <2>2, RunAppend
<1>4. CASE Len(longer) > PreRollLimit
  <2>1. PushPreRoll(clock + 1) = Tail(longer)
    BY <1>4 DEF PushPreRoll
  <2>2. /\ Tail(longer) \in Seq(Nat) /\ Len(Tail(longer)) = Len(preRoll)
        /\ Run(Tail(longer), from + 1)
    <3> HIDE DEF longer, from
    <3>1. Len(longer) > 0
      BY <1>1, <1>3
    <3>2. Len(longer) - 1 = Len(preRoll)
      BY <1>1, <1>3
    <3> QED BY <1>2, <1>3, <3>1, <3>2, RunTail
  <2>3. Len(preRoll) = PreRollLimit /\ ~(boundary + PreRollLimit > clock)
    BY <1>1, <1>3, <1>4 DEF PreRollInv
  <2> HIDE DEF longer, from
  <2>4. from + 1 = (clock + 1) - Len(Tail(longer))
    <3> DEFINE n == Len(Tail(longer))
    <3>1. n = Len(preRoll)
      BY <2>2
    <3> HIDE DEF n
    <3>2. from + 1 = (clock + 1) - n
      BY <1>1, <1>2, <3>1
    <3> QED BY <3>2 DEF n
  <2>5. Rolled(Tail(longer))
    <3> DEFINE roll == Tail(longer)
    <3>1. /\ roll \in Seq(Nat) /\ Len(roll) = Len(preRoll) /\ Run(roll, from + 1)
          /\ from + 1 = (clock + 1) - Len(roll)
      BY <2>2, <2>4
    <3> HIDE DEF roll
    <3>2. Run(roll, (clock + 1) - Len(roll))
      BY <3>1
    <3>3. Rolled(roll)
      BY <1>1, <1>2, <2>3, <3>1, <3>2 DEF Rolled
    <3> QED BY <3>3 DEF roll
  <2> QED BY <2>1, <2>5
<1>5. CASE ~(Len(longer) > PreRollLimit)
  <2>1. PushPreRoll(clock + 1) = longer
    BY <1>5 DEF PushPreRoll
  <2>2. Len(preRoll) < PreRollLimit
    BY <1>1, <1>3, <1>5
  <2>3. Len(preRoll) = clock - boundary /\ boundary + PreRollLimit > clock
    BY <1>1, <2>2 DEF PreRollInv
  <2> HIDE DEF longer, from
  <2>4. from = (clock + 1) - Len(longer)
    BY <1>1, <1>2, <1>3
  <2>5. Run(longer, (clock + 1) - Len(longer))
    BY <1>3, <2>4
  <2>6. Rolled(longer)
    BY <1>1, <1>2, <1>3, <2>2, <2>3, <2>5 DEF Rolled
  <2> QED BY <2>1, <2>6
<1> QED BY <1>4, <1>5

\* Nothing is to be said of a segment that has been cut.
LEMMA ClosedSegment ==
  ASSUME NEW t \in Nat
  PROVE  Contiguous(NoSegment, t) /\ NoSegment.open = FALSE
BY DEF Contiguous, NoSegment, Segments, Run

\* The end of tick, for a segment s that has had its chunk: it goes on, it ends by
\* its own tail, or it is cut in the middle of speech.
LEMMA ConcludeStep ==
  ASSUME Base, VadInv, CutInv, clock' = clock + 1, setup' = setup,
         NEW s, NEW ready \in BOOLEAN, NEW tail \in BOOLEAN, NEW speech \in BOOLEAN,
         Contiguous(s, clock + 1), s.open => s.from >= boundary,
         Waits(s, clock + 1, ended, vad.age + 1),
         s.open /\ ended # NoTail => s.waited <= Stable,
         ~s.open => ~ready,
         Conclude(s, ready, tail, speech)
  PROVE  /\ VadInv' /\ SegInv' /\ WaitInv' /\ CutInv' /\ TailStep
         /\ seg'.open => s.open /\ seg'.from = s.from /\ boundary' = boundary
         /\ ~seg'.open => boundary' = IF s.open THEN clock + 1 ELSE boundary
<1> DEFINE marked == MarkTail(s, tail)
           decision == Decide(marked, ready, tail)
           first == IF ended = NoTail /\ s.open /\ tail
                    THEN [at |-> clock + 1, since |-> vad.since] ELSE ended
<1> USE StreamAssumption
<1>1. /\ clock \in Nat /\ boundary \in Nat /\ boundary <= clock
      /\ s \in Segments /\ s.open \in BOOLEAN /\ s.waited \in Nat /\ s.from \in Nat /\ s.len \in Nat
      /\ s.pending \in BOOLEAN
      /\ vad \in [speech : BOOLEAN, since : Nat, age : 0..TailGap] /\ vad.since <= clock
      /\ ended \in Tails /\ ended.at <= clock /\ ended.since <= clock
  BY DEF Base, VadInv, Contiguous, Segments
<1>2. /\ tail => vad.speech /\ vad.age + 1 >= TailGap
      /\ vad' \in [speech : BOOLEAN, since : Nat, age : 0..TailGap] /\ vad'.since <= clock + 1
      /\ vad'.speech => vad'.since = clock + 1 \/ (vad'.since = vad.since /\ vad.speech /\ ~tail)
  <2>1. VadAccepts(tail, speech) \/ ResetVad(tail, speech)
    BY DEF Conclude
  <2>2. CASE VadAccepts(tail, speech)
    <3> DEFINE since == IF ~speech THEN 0
                        ELSE IF vad.speech /\ ~tail THEN vad.since ELSE clock + 1
               age == IF tail THEN 0 ELSE IF vad.age < TailGap THEN vad.age + 1 ELSE vad.age
    <3>1. /\ vad' = [speech |-> speech, since |-> since, age |-> age]
          /\ tail => vad.speech /\ vad.age + 1 >= TailGap
      BY <2>2 DEF VadAccepts
    <3>2. since \in Nat /\ since <= clock + 1 /\ age \in 0..TailGap
      BY <1>1
    <3>3. speech => since = clock + 1 \/ (since = vad.since /\ vad.speech /\ ~tail)
      OBVIOUS
    <3> HIDE DEF since
    <3>4. vad'.speech = speech /\ vad'.since = since /\ vad'.age = age
      BY <3>1
    <3> QED BY <3>1, <3>2, <3>3, <3>4
  <2>3. CASE ResetVad(tail, speech)
    <3>1. vad' = SilentVad /\ (tail => vad.speech /\ vad.age + 1 >= TailGap)
      BY <2>3 DEF ResetVad
    <3>2. /\ SilentVad \in [speech : BOOLEAN, since : Nat, age : 0..TailGap]
          /\ SilentVad.since = 0 /\ ~SilentVad.speech
      BY DEF SilentVad
    <3>3. 0 <= clock + 1
      BY <1>1
    <3> QED BY <3>1, <3>2, <3>3
  <2> QED BY <2>1, <2>2, <2>3
<1>3. s.open /\ tail => ended = NoTail
  BY <1>1, <1>2 DEF Waits
<1>4. /\ first \in Tails /\ first.at <= clock + 1 /\ first.since <= clock + 1
      /\ s.open /\ tail => first.at = clock + 1 /\ first # NoTail
      /\ ~tail \/ ~s.open => first = ended
  BY <1>1, <1>3 DEF Tails, NoTail
<1>5. lastCut.cause \in {"natural", "change"} /\ first # NoTail => first.since > lastCut.to
  BY <1>1, <1>2 DEF CutInv
<1>12. /\ lastCut \in [cause : Causes, from : Nat, to : Nat, tail : Tails]
       /\ lastCut.from <= clock + 1 /\ lastCut.to <= clock + 1 /\ lastCut.to <= clock
       /\ lastCut.tail.at <= clock + 1 /\ lastCut.tail.since <= clock + 1
       /\ lastCut.from \in Nat /\ lastCut.to \in Nat
  <2>1. /\ lastCut.from \in Nat /\ lastCut.to \in Nat
        /\ lastCut.tail.at \in Nat /\ lastCut.tail.since \in Nat
    BY DEF CutInv, Tails
  <2> QED BY <1>1, <2>1 DEF CutInv
<1>13. lastCut.cause \in {"natural", "change"} /\ vad'.speech => vad'.since > lastCut.to
  BY <1>1, <1>2, <1>12 DEF CutInv
<1>14. clock + 1 \in Nat
  BY <1>1
<1>6. \/ /\ decision = "none" /\ seg' = marked /\ ended' = first
         /\ UNCHANGED <<boundary, lastCut>> /\ VadAccepts(tail, speech)
      \/ /\ decision = "tail" /\ VadAccepts(tail, speech)
         /\ IF s.open THEN Cut(s, clock + 1, "tail", first)
            ELSE seg' = marked /\ UNCHANGED <<ended, boundary, lastCut>>
      \/ /\ decision = "natural" /\ Cut(s, clock + 1, "natural", first)
         /\ ResetVad(tail, speech)
  BY DEF Conclude, Decide
<1>7. /\ marked \in Segments /\ marked.open = s.open /\ marked.from = s.from
      /\ marked.pending = (s.pending \/ tail)
      /\ marked.waited = IF tail THEN 0 ELSE s.waited
      /\ Contiguous(marked, clock + 1)
  <2>1. CASE tail
    <3>1. marked = [s EXCEPT !.pending = TRUE, !.waited = 0]
      BY <2>1 DEF MarkTail
    <3>2. marked \in Segments
      <4> HIDE DEF marked
      <4> QED BY <1>1, <3>1, Zenon DEF Segments
    <3>3. /\ marked.open = s.open /\ marked.from = s.from /\ marked.len = s.len
          /\ marked.heard = s.heard /\ marked.stable = s.stable /\ marked.quiet = s.quiet
          /\ marked.pending = TRUE /\ marked.waited = 0
      BY <1>1, <3>1 DEF Segments
    <3> HIDE DEF marked
    <3>4. Contiguous(marked, clock + 1)
      BY <1>1, <3>2, <3>3 DEF Contiguous
    <3> QED BY <2>1, <3>2, <3>3, <3>4
  <2>2. CASE ~tail
    BY <1>1, <2>2 DEF MarkTail, Contiguous
  <2> QED BY <2>1, <2>2
<1> HIDE DEF marked, first
<1>8. CASE ~s.open
  <2>1. decision # "natural"
    BY <1>8 DEF Decide, Natural
  <2>2. seg' = marked /\ ended' = ended /\ UNCHANGED <<boundary, lastCut>>
    BY <1>4, <1>6, <1>8, <2>1
  <2>3. ended = NoTail /\ seg'.open = FALSE
    BY <1>1, <1>7, <1>8, <2>2 DEF Waits
  <2>4. VadInv'
    BY <1>1, <1>2, <2>2 DEF VadInv, Tails
  <2>5. SegInv' /\ WaitInv'
    BY <1>7, <2>2, <2>3 DEF SegInv, WaitInv, Waits
  <2>6. CutInv'
    <3>1. lastCut' = lastCut /\ ended' = NoTail
      BY <2>2, <2>3
    <3> QED BY <1>12, <1>13, <3>1 DEF CutInv
  <2>7. TailStep
    BY <2>2 DEF TailStep
  <2> QED BY <1>8, <2>2, <2>3, <2>4, <2>5, <2>6, <2>7
<1>9. CASE s.open /\ decision = "none"
  <2>1. /\ seg' = marked /\ ended' = first /\ UNCHANGED <<boundary, lastCut>>
        /\ VadAccepts(tail, speech)
    BY <1>6, <1>9
  <2>2. tail => setup.streaming /\ setup.endpoint
    BY <1>9 DEF Decide
  <2>3. ~tail /\ ended # NoTail => s.waited < Stable
    <3> SUFFICES ASSUME ~tail, ended # NoTail PROVE s.waited < Stable
      OBVIOUS
    <3>1. s.pending /\ setup.streaming /\ setup.endpoint
      BY <1>9 DEF Waits
    <3>2. ~PendingReady(marked, ready)
      BY <1>9, <3>1, <1>7 DEF Decide, Natural
    <3>3. marked.pending /\ marked.waited = s.waited
      BY <1>7, <3>1
    <3> QED BY <1>1, <3>2, <3>3 DEF PendingReady
  <2>4. VadInv'
    BY <1>2, <1>4, <2>1 DEF VadInv
  <2>5. SegInv'
    BY <1>7, <1>9, <2>1 DEF SegInv
  <2>6. vad'.age = IF tail THEN 0 ELSE IF vad.age < TailGap THEN vad.age + 1 ELSE vad.age
    BY <2>1 DEF VadAccepts
  <2>7. WaitInv'
    <3>1. CASE tail
      <4>1. /\ ended'.at = clock + 1 /\ ended' # NoTail /\ seg'.open /\ seg'.from = s.from
            /\ seg'.waited = 0 /\ seg'.pending /\ vad'.age = 0
        BY <1>4, <1>7, <1>9, <2>1, <2>6, <3>1
      <4>2. s.from < clock + 1
        BY <1>1, <1>9 DEF Contiguous
      <4> QED BY <1>1, <2>2, <3>1, <4>1, <4>2 DEF WaitInv, Waits
    <3>2. CASE ~tail
      <4>1. /\ ended' = ended /\ seg'.open /\ seg'.from = s.from /\ seg'.waited = s.waited
            /\ seg'.pending = s.pending
        BY <1>1, <1>4, <1>7, <1>9, <2>1, <3>2
      <4>2. ended # NoTail => vad'.age = s.waited
        BY <1>1, <1>9, <2>3, <2>6, <3>2 DEF Waits
      <4> QED BY <1>1, <1>9, <2>3, <3>2, <4>1, <4>2 DEF WaitInv, Waits
    <3> QED BY <3>1, <3>2
  <2>8. CutInv'
    <3>1. lastCut' = lastCut /\ ended' = first
      BY <2>1
    <3> QED BY <1>5, <1>12, <1>13, <3>1 DEF CutInv
  <2>9. TailStep
    BY <2>1 DEF TailStep
  <2> QED BY <1>7, <1>9, <2>1, <2>4, <2>5, <2>7, <2>8, <2>9
<1>10. CASE s.open /\ decision = "tail"
  <2>1. /\ seg' = NoSegment /\ ended' = NoTail /\ boundary' = clock + 1
        /\ lastCut' = [cause |-> "tail", from |-> s.from, to |-> clock + 1, tail |-> first]
    BY <1>6, <1>10 DEF Cut
  <2>2. first # NoTail /\ (clock + 1) - first.at <= Stable /\ first.at > s.from
    <3>1. CASE tail
      BY <1>1, <1>4, <1>10, <3>1, SMTT(30) DEF Contiguous
    <3>2. CASE ~tail
      <4>1. PendingReady(marked, ready)
        BY <1>10, <3>2 DEF Decide
      <4>2. s.pending /\ ended # NoTail
        BY <1>7, <1>10, <3>2, <4>1 DEF PendingReady, Waits
      <4>3. first = ended /\ ended.at + s.waited = clock + 1 /\ ended.at > s.from
            /\ s.waited <= Stable /\ ended.at \in Nat
        BY <1>1, <1>4, <1>10, <3>2, <4>2 DEF Waits, Tails
      <4> QED BY <1>1, <4>2, <4>3
    <3> QED BY <3>1, <3>2
  <2>3. seg'.open = FALSE /\ lastCut'.cause = "tail" /\ lastCut'.tail = first
        /\ lastCut'.to = clock + 1 /\ lastCut'.from = s.from
    BY <2>1 DEF NoSegment
  <2>4. VadInv'
    BY <1>1, <1>2, <2>1 DEF VadInv, Tails, NoTail
  <2>5. SegInv' /\ WaitInv'
    <3>1. seg' = NoSegment /\ ended' = NoTail /\ clock' = clock + 1
      BY <2>1
    <3>2. Contiguous(NoSegment, clock + 1) /\ NoSegment.open = FALSE
      BY <1>14, ClosedSegment
    <3> QED BY <3>1, <3>2 DEF SegInv, WaitInv, Waits
  <2>6. CutInv'
    <3>1. lastCut' \in [cause : Causes, from : Nat, to : Nat, tail : Tails]
      BY <1>1, <1>4, <2>1 DEF Causes
    <3>2. s.from <= clock + 1
      BY <1>1, <1>10 DEF Contiguous
    <3> QED BY <1>1, <1>4, <2>2, <2>3, <3>1, <3>2 DEF CutInv
  <2>7. TailStep
    BY <1>5, <2>2, <2>3 DEF TailStep
  <2> QED BY <1>10, <2>1, <2>3, <2>4, <2>5, <2>6, <2>7
<1>11. CASE s.open /\ decision = "natural"
  <2>1. /\ seg' = NoSegment /\ ended' = NoTail /\ boundary' = clock + 1 /\ vad' = SilentVad
        /\ lastCut' = [cause |-> "natural", from |-> s.from, to |-> clock + 1, tail |-> first]
    BY <1>6, <1>11 DEF Cut, ResetVad
  <2>2. setup.input # "file"
    BY <1>11 DEF Decide, Natural
  <2>3. seg'.open = FALSE /\ lastCut'.cause = "natural" /\ lastCut'.tail = first
        /\ lastCut'.to = clock + 1 /\ lastCut'.from = s.from /\ vad'.speech = FALSE
    BY <2>1 DEF NoSegment, SilentVad
  <2>4. VadInv'
    BY <1>1, <1>2, <2>1 DEF VadInv, Tails, NoTail
  <2>5. SegInv' /\ WaitInv'
    <3>1. seg' = NoSegment /\ ended' = NoTail /\ clock' = clock + 1
      BY <2>1
    <3>2. Contiguous(NoSegment, clock + 1) /\ NoSegment.open = FALSE
      BY <1>14, ClosedSegment
    <3> QED BY <3>1, <3>2 DEF SegInv, WaitInv, Waits
  <2>6. CutInv'
    <3>1. lastCut' \in [cause : Causes, from : Nat, to : Nat, tail : Tails]
      BY <1>1, <1>4, <2>1 DEF Causes
    <3>2. s.from <= clock + 1
      BY <1>1, <1>11 DEF Contiguous
    <3> QED BY <1>1, <1>4, <2>1, <2>2, <2>3, <3>1, <3>2 DEF CutInv
  <2>7. TailStep
    BY <2>3 DEF TailStep
  <2> QED BY <1>11, <2>1, <2>3, <2>4, <2>5, <2>6, <2>7
<1> QED BY <1>6, <1>8, <1>9, <1>10, <1>11

\* A chunk that the open segment hears.
LEMMA HearStep ==
  ASSUME Base, SegInv, WaitInv, VadInv, seg.open, clock < MaxChunks,
         NEW partial, NEW hush \in BOOLEAN
  PROVE  LET s == Hear(seg, clock + 1)
             o == Observe(s, partial, hush)
         IN /\ Contiguous(s, clock + 1) /\ s.open /\ s.from = seg.from
            /\ Contiguous(o, clock + 1) /\ o.open /\ o.from = seg.from
            /\ Waits(o, clock + 1, ended, vad.age + 1)
            /\ ended # NoTail => o.waited <= Stable
<1> DEFINE s == Hear(seg, clock + 1)
           o == Observe(s, partial, hush)
           heard == Append(seg.heard, clock + 1)
           waited == IF seg.pending THEN seg.waited + 1 ELSE seg.waited
<1> USE StreamAssumption
<1>1. /\ clock \in Nat /\ seg \in Segments /\ seg.from \in Nat /\ seg.len \in Nat
      /\ seg.heard \in Seq(Nat) /\ seg.waited \in Nat /\ seg.pending \in BOOLEAN
      /\ seg.stable \in Nat /\ seg.quiet \in Nat /\ seg.worded \in BOOLEAN
      /\ seg.from + seg.len = clock /\ seg.len >= 1 /\ Len(seg.heard) = seg.len
      /\ seg.waited <= clock /\ seg.stable <= clock /\ seg.quiet <= clock
      /\ ended \in Tails /\ ended.at <= clock
  BY DEF Base, SegInv, Contiguous, Segments, VadInv
<1>2. /\ heard \in Seq(Nat) /\ Len(heard) = seg.len + 1 /\ Run(heard, seg.from)
  <2>1. Run(seg.heard, seg.from) /\ clock + 1 = seg.from + Len(seg.heard) + 1
    BY <1>1 DEF SegInv, Contiguous
  <2> QED BY <1>1, <2>1, RunAppend, SMTT(30)
<1>3. waited \in Nat /\ waited <= clock + 1
  BY <1>1, SMTT(30)
<1>4. s = [seg EXCEPT !.len = @ + 1, !.heard = heard, !.waited = waited]
  BY DEF Hear
<1> HIDE DEF heard, waited
<1>5. /\ s \in Segments /\ s.open = seg.open /\ s.from = seg.from /\ s.len = seg.len + 1
      /\ s.heard = heard /\ s.pending = seg.pending /\ s.waited = waited
      /\ s.stable = seg.stable /\ s.quiet = seg.quiet
  <2> HIDE DEF s
  <2>1. seg.len + 1 \in Nat
    BY <1>1
  <2>2. s \in Segments
    BY <1>1, <1>2, <1>3, <1>4, <2>1, Zenon DEF Segments
  <2> QED BY <1>1, <1>4, <2>2 DEF Segments
<1> DEFINE worded == s.worded \/ partial # "Empty"
           stable == IF partial = "Unchanged" /\ setup.endpoint THEN s.stable + 1 ELSE 0
           quiet == IF hush /\ setup.streaming /\ setup.endpoint THEN s.quiet + 1 ELSE 0
<1>6. o = [s EXCEPT !.worded = worded, !.stable = stable, !.quiet = quiet]
  BY DEF Observe
<1>7. worded \in BOOLEAN /\ stable \in Nat /\ stable <= clock + 1 /\ quiet \in Nat /\ quiet <= clock + 1
  <2>1. s.stable \in Nat /\ s.quiet \in Nat /\ s.stable <= clock /\ s.quiet <= clock
    BY <1>1, <1>5
  <2>2. s.worded \in BOOLEAN
    BY <1>5 DEF Segments
  <2> HIDE DEF s
  <2>3. worded \in BOOLEAN
    BY <2>2
  <2>4. stable \in Nat /\ stable <= clock + 1
    BY <1>1, <2>1, SMTT(30)
  <2>5. quiet \in Nat /\ quiet <= clock + 1
    <3> HIDE DEF worded, stable
    <3>1. CASE hush /\ setup.streaming /\ setup.endpoint
      BY <1>1, <2>1, <3>1, SMTT(30)
    <3>2. CASE ~(hush /\ setup.streaming /\ setup.endpoint)
      BY <1>1, <3>2
    <3> QED BY <3>1, <3>2
  <2> QED BY <2>3, <2>4, <2>5
<1> HIDE DEF s, worded, stable, quiet
<1>8. /\ o \in Segments /\ o.open = seg.open /\ o.from = seg.from /\ o.len = seg.len + 1
      /\ o.heard = heard /\ o.pending = seg.pending /\ o.waited = waited
      /\ o.stable = stable /\ o.quiet = quiet
  <2> HIDE DEF o
  <2> QED BY <1>5, <1>6, <1>7 DEF Segments
<1> HIDE DEF o
<1>9. Contiguous(s, clock + 1) /\ Contiguous(o, clock + 1)
  <2>1. seg.from + (seg.len + 1) = clock + 1 /\ seg.len + 1 >= 1
    BY <1>1, SMTT(30)
  <2>2. seg.stable <= clock + 1 /\ seg.quiet <= clock + 1
    BY <1>1
  <2>3. Contiguous(s, clock + 1)
    BY <1>1, <1>2, <1>3, <1>5, <2>1, <2>2 DEF Contiguous
  <2>4. Contiguous(o, clock + 1)
    BY <1>1, <1>2, <1>3, <1>7, <1>8, <2>1 DEF Contiguous
  <2> QED BY <2>3, <2>4
<1>10. Waits(o, clock + 1, ended, vad.age + 1) /\ (ended # NoTail => o.waited <= Stable)
  <2>1. seg.pending => ended # NoTail
    BY DEF WaitInv, Waits
  <2>2. ended # NoTail =>
          /\ setup.streaming /\ setup.endpoint /\ seg.pending
          /\ ended.at + seg.waited = clock /\ vad.age = seg.waited /\ ended.at > seg.from
          /\ seg.waited < Stable
    BY DEF WaitInv, Waits
  <2>3. ended # NoTail => o.waited = seg.waited + 1
    BY <1>8, <2>2 DEF waited
  <2>4. ended.at \in Nat
    BY <1>1 DEF Tails
  <2>5. ended # NoTail => ended.at + o.waited = clock + 1 /\ vad.age + 1 = o.waited
                          /\ o.waited <= Stable
    BY <1>1, <2>2, <2>3, <2>4, SMTT(30)
  <2> QED BY <1>1, <1>8, <2>1, <2>2, <2>5 DEF Waits
<1> QED BY <1>5, <1>8, <1>9, <1>10 DEF s, o
--------------------------------------------------------------------------------
\* The invariant holds at first, and every action keeps it and the promises of a step.
LEMMA InitIInv == Init => IInv
<1> SUFFICES ASSUME Init PROVE IInv
  OBVIOUS
<1> USE StreamAssumption
<1>1. Base
  <2>1. clock = 0 /\ boundary = 0 /\ 0 \in 0..MaxChunks /\ 0 \in 0..0
    BY DEF Init
  <2>2. clock \in 0..MaxChunks /\ boundary \in 0..clock
    BY <2>1
  <2> QED BY <2>2, Zenon DEF Init, Base
<1>6. VadInv
  BY DEF Init, VadInv, SilentVad, NoTail, Tails
<1>7. CountInv
  BY DEF Init, CountInv, NothingCounted
<1>2. Contiguous(NoSegment, 0) /\ NoSegment.open = FALSE
  <2>1. 0 \in Nat
    OBVIOUS
  <2> QED BY <2>1, ClosedSegment
<1>3. SegInv /\ WaitInv
  BY <1>2 DEF Init, SegInv, WaitInv, Waits
<1>4. PreRollInv
  BY <1>2 DEF Init, PreRollInv, Run
<1>5. CutInv
  BY DEF Init, CutInv, Causes, Tails, NoTail
<1> QED BY <1>1, <1>3, <1>4, <1>5, <1>6, <1>7 DEF IInv

\* What a chunk adds to the statistics.
CountsGrow(speech, still) ==
  /\ counted.speech \in Nat /\ counted.still \in Nat
  /\ counted' \in [speech : Nat, still : Nat]
  /\ counted'.speech = counted.speech + speech /\ counted'.still = counted.still + still

LEMMA Counted ==
  ASSUME IInv, NEW spoken \in Seq(Nat),
         counted' = ObserveSpeech(ObserveBlock(counted), spoken)
  PROVE  CountsGrow(Len(spoken), IF seg.open THEN 0 ELSE 1)
<1>1. /\ counted \in [speech : Nat, still : Nat] /\ Len(spoken) \in Nat
  BY DEF IInv, CountInv
<1>2. CASE seg.open
  <2>1. counted' = [counted EXCEPT !.speech = @ + Len(spoken)]
    BY <1>2 DEF ObserveSpeech, ObserveBlock
  <2> QED BY <1>1, <1>2, <2>1 DEF CountsGrow
<1>3. CASE ~seg.open
  <2> DEFINE block == [counted EXCEPT !.still = @ + 1]
  <2>1. /\ block \in [speech : Nat, still : Nat]
        /\ block.speech = counted.speech /\ block.still = counted.still + 1
    BY <1>1
  <2>2. counted' = [block EXCEPT !.speech = @ + Len(spoken)]
    BY <1>3 DEF ObserveSpeech, ObserveBlock
  <2> HIDE DEF block
  <2> QED BY <1>1, <1>3, <2>1, <2>2 DEF CountsGrow
<1> QED BY <1>2, <1>3

LEMMA QuietStep == ASSUME IInv, QuietChunk PROVE IInv' /\ OnsetStep /\ TailStep
<1> DEFINE roll == PushPreRoll(clock + 1)
<1> USE StreamAssumption
<1>1. /\ ~seg.open /\ clock' = clock + 1 /\ clock < MaxChunks /\ preRoll' = roll
      /\ counted' = ObserveSpeech(ObserveBlock(counted), <<>>)
      /\ setup' = setup /\ loop' = loop /\ done' = done
  BY DEF QuietChunk, Chunk
<1>2. PICK tail \in BOOLEAN : Conclude(seg, FALSE, tail, FALSE)
  BY DEF QuietChunk
<1>3. /\ clock \in Nat /\ boundary \in Nat /\ boundary <= clock /\ clock <= MaxChunks
      /\ MaxChunks \in Nat
  BY DEF IInv, Base
<1>4. Contiguous(seg, clock + 1) /\ Waits(seg, clock + 1, ended, vad.age + 1)
  <2>1. /\ seg.stable \in Nat /\ seg.quiet \in Nat /\ seg.waited \in Nat
        /\ seg.from \in Nat /\ seg.len \in Nat /\ Contiguous(seg, clock)
    BY DEF IInv, SegInv, Contiguous, Segments
  <2>2. Contiguous(seg, clock + 1)
    BY <1>1, <1>3, <2>1 DEF Contiguous
  <2>3. Waits(seg, clock + 1, ended, vad.age + 1)
    BY <1>1 DEF IInv, WaitInv, Waits
  <2> QED BY <2>2, <2>3
<1>5. /\ VadInv' /\ SegInv' /\ WaitInv' /\ CutInv' /\ TailStep
      /\ seg'.open => seg.open
      /\ ~seg'.open => boundary' = IF seg.open THEN clock + 1 ELSE boundary
  BY <1>1, <1>2, <1>4, ConcludeStep DEF IInv
<1>6. ~seg'.open /\ boundary' = boundary
  BY <1>1, <1>5
<1>7. Rolled(roll)
  BY <1>1, PushedRoll DEF IInv
<1> HIDE DEF roll
<1>8. Base'
  BY <1>1, <1>3, <1>6 DEF IInv, Base
<1>9. PreRollInv'
  BY <1>1, <1>6, <1>7 DEF PreRollInv, Rolled
<1>10. CountInv'
  <2>1. Len(roll) \in Nat /\ Len(roll) <= Len(preRoll) + 1 /\ Len(preRoll) \in Nat
    BY <1>7 DEF Rolled, IInv, PreRollInv
  <2>2. CountsGrow(0, 1)
    <3>1. <<>> \in Seq(Nat) /\ Len(<<>>) = 0
      OBVIOUS
    <3>2. CountsGrow(Len(<<>>), 1)
      BY <1>1, <3>1, Counted
    <3> QED BY <3>1, <3>2
  <2>3. Len(preRoll') = Len(roll)
    BY <1>1
  <2> QED BY <1>1, <1>3, <2>1, <2>2, <2>3, SMTT(30) DEF IInv, CountInv, CountsGrow
<1>11. OnsetStep
  BY <1>6 DEF OnsetStep
<1> QED BY <1>5, <1>8, <1>9, <1>10, <1>11 DEF IInv

LEMMA OnsetChunk == ASSUME IInv, Onset PROVE IInv' /\ OnsetStep /\ TailStep
<1> DEFINE roll == PushPreRoll(clock + 1)
           s == Begin(clock + 1, roll)
<1> USE StreamAssumption
<1>1. /\ ~seg.open /\ clock' = clock + 1 /\ clock < MaxChunks /\ preRoll' = <<>>
      /\ counted' = ObserveSpeech(ObserveBlock(counted), roll)
      /\ setup' = setup /\ loop' = loop /\ done' = done
  BY DEF Onset, Chunk
<1>2. PICK tail \in BOOLEAN : Conclude(s, FALSE, tail, TRUE)
  BY <1>1 DEF Onset
<1>3. /\ clock \in Nat /\ boundary \in Nat /\ boundary <= clock /\ clock <= MaxChunks
      /\ MaxChunks \in Nat /\ clock + 1 \in Nat
  BY DEF IInv, Base
<1>4. Rolled(roll)
  BY <1>1, PushedRoll DEF IInv
<1> HIDE DEF roll
<1> DEFINE n == Len(roll)
<1>5. /\ n \in Nat /\ n >= 1 /\ n <= clock + 1 /\ roll \in Seq(Nat)
      /\ n = IF boundary + PreRollLimit > clock + 1 THEN (clock + 1) - boundary ELSE PreRollLimit
      /\ (clock + 1) - n \in Nat /\ (clock + 1) - n >= boundary
      /\ Run(roll, (clock + 1) - n)
  BY <1>3, <1>4 DEF Rolled
<1>6. /\ s.open = TRUE /\ s.from = (clock + 1) - n /\ s.len = n /\ s.heard = roll
      /\ s.pending = FALSE /\ s.stable = 0 /\ s.quiet = 0 /\ s.waited = 0 /\ s \in Segments
  <2>1. StartOf(clock + 1, roll) = (clock + 1) - n
    BY <1>3, <1>5 DEF StartOf
  <2>2. s = [open |-> TRUE, from |-> (clock + 1) - n, len |-> n, heard |-> roll,
             worded |-> FALSE, stable |-> 0, quiet |-> 0, pending |-> FALSE, waited |-> 0]
    <3> DEFINE from == StartOf(clock + 1, roll)
    <3>1. Begin(clock + 1, roll) =
            [NoSegment EXCEPT !.open = TRUE, !.from = from, !.len = n, !.heard = roll]
      BY DEF Begin
    <3>2. from = (clock + 1) - n
      BY <2>1
    <3> HIDE DEF n, from
    <3> QED BY <3>1, <3>2 DEF NoSegment
  <2> HIDE DEF s, n
  <2> QED BY <1>5, <2>2 DEF Segments
<1> HIDE DEF s
<1>7. Contiguous(s, clock + 1) /\ s.from >= boundary
  BY <1>3, <1>5, <1>6 DEF Contiguous
<1>8. ended = NoTail
  BY <1>1 DEF IInv, WaitInv, Waits
<1>9. Waits(s, clock + 1, ended, vad.age + 1)
  BY <1>6, <1>8 DEF Waits
<1>10. /\ VadInv' /\ SegInv' /\ WaitInv' /\ CutInv' /\ TailStep
       /\ seg'.open => seg'.from = s.from /\ boundary' = boundary
       /\ ~seg'.open => boundary' = clock + 1
  <2>1. TRUE \in BOOLEAN /\ FALSE \in BOOLEAN
    OBVIOUS
  <2> QED BY <1>1, <1>2, <1>6, <1>7, <1>8, <1>9, <2>1, ConcludeStep DEF IInv
<1>11. Base'
  BY <1>1, <1>3, <1>10 DEF IInv, Base
<1>12. PreRollInv'
  BY <1>1, <1>3, <1>10 DEF PreRollInv, Run
<1>13. CountInv'
  <2>1. n <= Len(preRoll) + 1 /\ Len(preRoll) \in Nat
    BY <1>4 DEF Rolled, IInv, PreRollInv
  <2>2. CountsGrow(n, 1)
    BY <1>1, <1>5, Counted
  <2>3. Len(preRoll') = 0
    BY <1>1
  <2>4. n \in Nat /\ n >= 1 /\ clock \in Nat
    BY <1>3, <1>5
  <2>5. /\ counted.speech + Len(preRoll) <= clock /\ counted.still <= clock
        /\ counted.speech + counted.still >= clock
    BY DEF IInv, CountInv
  <2> HIDE DEF n
  <2>6. /\ counted.speech + n <= clock + 1 /\ counted.still + 1 <= clock + 1
        /\ counted.speech + n + counted.still + 1 >= clock + 1
    <3>1. counted.speech \in Nat /\ counted.still \in Nat
      BY <2>2 DEF CountsGrow
    <3> QED BY <2>1, <2>4, <2>5, <3>1, SMTT(30)
  <2>7. /\ counted' \in [speech : Nat, still : Nat] /\ clock' = clock + 1
        /\ counted'.speech + Len(preRoll') <= clock + 1 /\ counted'.still <= clock + 1
        /\ counted'.speech + counted'.still >= clock + 1
    BY <1>1, <2>2, <2>3, <2>4, <2>6, SMTT(30) DEF CountsGrow
  <2> QED BY <2>7 DEF CountInv
<1>14. OnsetStep
  BY <1>1, <1>3, <1>5, <1>6, <1>10 DEF OnsetStep
<1> QED BY <1>10, <1>11, <1>12, <1>13, <1>14 DEF IInv

\* One more chunk of speech is counted once, and only once.
LEMMA CountStep ==
  ASSUME IInv, seg.open, clock' = clock + 1, preRoll' = <<>>,
         counted' = ObserveSpeech(ObserveBlock(counted), <<clock + 1>>)
  PROVE  CountInv'
<1>1. clock \in Nat
  BY DEF IInv, Base
<1>2. CountsGrow(1, 0)
  <2>1. <<clock + 1>> \in Seq(Nat) /\ Len(<<clock + 1>>) = 1
    BY <1>1
  <2> QED BY <2>1, Counted
<1>3. Len(preRoll) = 0 /\ Len(preRoll') = 0
  BY DEF IInv, PreRollInv
<1> QED BY <1>1, <1>2, <1>3 DEF IInv, CountInv, CountsGrow

LEMMA SpeechStep == ASSUME IInv, SpeechChunk PROVE IInv' /\ OnsetStep /\ TailStep
<1> USE StreamAssumption
<1>1. /\ seg.open /\ clock' = clock + 1 /\ clock < MaxChunks /\ preRoll' = preRoll
      /\ counted' = ObserveSpeech(ObserveBlock(counted), <<clock + 1>>)
      /\ setup' = setup /\ loop' = loop /\ done' = done
  BY DEF SpeechChunk, Chunk
<1>2. PICK partial \in Partials, hush \in BOOLEAN, tail \in BOOLEAN, speech \in BOOLEAN :
        LET s == Observe(Hear(seg, clock + 1), partial, hush)
        IN  Conclude(s, EndpointReady(s), tail, speech)
  BY <1>1 DEF SpeechChunk
<1> DEFINE o == Observe(Hear(seg, clock + 1), partial, hush)
           ready == EndpointReady(o)
<1>3. /\ clock \in Nat /\ boundary \in Nat /\ boundary <= clock /\ clock <= MaxChunks
      /\ MaxChunks \in Nat
  BY DEF IInv, Base
<1>4. /\ Contiguous(o, clock + 1) /\ o.open /\ o.from = seg.from
      /\ Waits(o, clock + 1, ended, vad.age + 1) /\ (ended # NoTail => o.waited <= Stable)
  BY <1>1, HearStep DEF IInv
<1>5. Conclude(o, ready, tail, speech) /\ ready \in BOOLEAN
  BY <1>2 DEF EndpointReady
<1> HIDE DEF o, ready
<1>6. seg.from >= boundary
  BY <1>1 DEF IInv, SegInv
<1>7. /\ VadInv' /\ SegInv' /\ WaitInv' /\ CutInv' /\ TailStep
      /\ seg'.open => boundary' = boundary
      /\ ~seg'.open => boundary' = clock + 1
  BY <1>1, <1>4, <1>5, <1>6, ConcludeStep DEF IInv
<1>8. preRoll' = <<>>
  BY <1>1 DEF IInv, PreRollInv
<1>9. Base'
  BY <1>1, <1>3, <1>7 DEF IInv, Base
<1>10. PreRollInv'
  BY <1>1, <1>3, <1>7, <1>8 DEF PreRollInv, Run
<1>11. CountInv'
  BY <1>1, <1>8, CountStep
<1>12. OnsetStep
  BY <1>1 DEF OnsetStep
<1> QED BY <1>7, <1>9, <1>10, <1>11, <1>12 DEF IInv

LEMMA ChangeStep == ASSUME IInv, SpeakerChanged PROVE IInv' /\ OnsetStep /\ TailStep
<1> DEFINE s == Hear(seg, clock + 1)
<1> USE StreamAssumption
<1>1. /\ seg.open /\ clock' = clock + 1 /\ clock < MaxChunks /\ preRoll' = <<>>
      /\ counted' = ObserveSpeech(ObserveBlock(counted), <<clock + 1>>)
      /\ setup' = setup /\ loop' = loop /\ done' = done /\ vad' = SilentVad
      /\ Cut(s, clock + 1, "change", ended)
  BY DEF SpeakerChanged, Chunk, ResetVad
<1>2. /\ clock \in Nat /\ clock + 1 \in Nat /\ boundary \in Nat /\ clock <= MaxChunks
      /\ MaxChunks \in Nat /\ clock + 1 <= MaxChunks
      /\ ended \in Tails /\ ended.at <= clock + 1 /\ ended.since <= clock + 1
  <2>1. ended \in Tails /\ ended.at <= clock /\ ended.since <= clock
    BY DEF IInv, VadInv
  <2> QED BY <1>1, <2>1 DEF IInv, Base, Tails
<1>3. Contiguous(s, clock + 1) /\ s.open /\ s.from = seg.from
  BY <1>1, HearStep DEF IInv
<1> HIDE DEF s
<1>4. s.from \in Nat /\ s.from <= clock + 1
  BY <1>2, <1>3 DEF Contiguous, Segments
<1>5. /\ seg' = NoSegment /\ ended' = NoTail /\ boundary' = clock + 1
      /\ lastCut' = [cause |-> "change", from |-> s.from, to |-> clock + 1, tail |-> ended]
  BY <1>1, <1>3 DEF Cut
<1>6. Contiguous(NoSegment, clock + 1) /\ NoSegment.open = FALSE
  BY <1>2, ClosedSegment
<1>7. SegInv' /\ WaitInv'
  <2>1. seg' = NoSegment /\ ended' = NoTail /\ clock' = clock + 1
    BY <1>1, <1>5
  <2> QED BY <1>6, <2>1 DEF SegInv, WaitInv, Waits
<1>8. Base' /\ VadInv'
  BY <1>1, <1>2, <1>5 DEF IInv, Base, VadInv, SilentVad, NoTail, Tails
<1>9. PreRollInv'
  BY <1>1, <1>2, <1>5, <1>6 DEF PreRollInv, Run
<1>10. CountInv'
  BY <1>1, CountStep
<1>11. CutInv'
  <2>1. lastCut' \in [cause : Causes, from : Nat, to : Nat, tail : Tails]
    BY <1>2, <1>4, <1>5 DEF Causes
  <2>2. /\ lastCut'.cause = "change" /\ lastCut'.from = s.from /\ lastCut'.to = clock + 1
        /\ lastCut'.tail = ended /\ vad'.speech = FALSE /\ ended' = NoTail
    BY <1>1, <1>5 DEF SilentVad
  <2> QED BY <1>1, <1>2, <1>4, <2>1, <2>2 DEF CutInv
<1>12. OnsetStep /\ TailStep
  BY <1>1, <1>5 DEF OnsetStep, TailStep
<1> QED BY <1>7, <1>8, <1>9, <1>10, <1>11, <1>12 DEF IInv

\* A segment that is cut between two chunks: by the end, by a stop or by a pause.
LEMMA CutStep ==
  ASSUME IInv, NEW cause \in {"end", "stop", "pause"},
         setup' = setup, loop' \in {"running", "paused", "closed"}, done' \in BOOLEAN,
         clock' = clock, counted' = counted,
         seg' = NoSegment, ended' = NoTail,
         lastCut' = IF seg.open
                    THEN [cause |-> cause, from |-> seg.from, to |-> clock, tail |-> ended]
                    ELSE lastCut,
         \/ /\ vad' = SilentVad /\ preRoll' = <<>> /\ boundary' = clock
         \/ /\ vad' = vad /\ preRoll' = preRoll
            /\ boundary' = IF seg.open THEN clock ELSE boundary
  PROVE  IInv' /\ OnsetStep /\ TailStep
<1> USE StreamAssumption
<1>1. /\ clock \in Nat /\ boundary \in Nat /\ boundary <= clock /\ clock <= MaxChunks
      /\ MaxChunks \in Nat
      /\ ended \in Tails /\ ended.at <= clock /\ ended.since <= clock
  BY DEF IInv, Base, VadInv
<1>2. Contiguous(NoSegment, clock) /\ NoSegment.open = FALSE
  BY <1>1, ClosedSegment
<1>3. SegInv' /\ WaitInv'
  <2>1. seg' = NoSegment /\ ended' = NoTail /\ clock' = clock
    OBVIOUS
  <2> QED BY <1>2, <2>1 DEF SegInv, WaitInv, Waits
<1>4. seg'.open = FALSE
  BY <1>2
<1>5. Base'
  BY <1>1 DEF IInv, Base
<1>6. VadInv'
  <2>1. /\ vad' \in [speech : BOOLEAN, since : Nat, age : 0..TailGap] /\ vad'.since <= clock
    <3>1. CASE vad' = SilentVad
      BY <1>1, <3>1 DEF SilentVad
    <3>2. CASE vad' = vad
      BY <3>2 DEF IInv, VadInv
    <3> QED BY <3>1, <3>2
  <2> QED BY <1>1, <2>1 DEF VadInv, NoTail, Tails
<1>7. PreRollInv'
  <2>1. CASE preRoll' = <<>> /\ boundary' = clock
    BY <1>1, <1>4, <2>1 DEF PreRollInv, Run
  <2>2. CASE preRoll' = preRoll /\ boundary' = IF seg.open THEN clock ELSE boundary
    <3>1. CASE seg.open
      BY <1>1, <1>4, <2>2, <3>1 DEF IInv, PreRollInv
    <3>2. CASE ~seg.open
      BY <1>1, <1>4, <2>2, <3>2 DEF IInv, PreRollInv
    <3> QED BY <3>1, <3>2
  <2> QED BY <2>1, <2>2
<1>8. CountInv'
  <2>1. /\ Len(preRoll) \in Nat /\ Len(preRoll') \in Nat /\ Len(preRoll') <= Len(preRoll)
    BY DEF IInv, PreRollInv
  <2> QED BY <1>1, <2>1 DEF IInv, CountInv
<1>9. CutInv'
  <2>1. CASE seg.open
    <3>1. lastCut' = [cause |-> cause, from |-> seg.from, to |-> clock, tail |-> ended]
      BY <2>1
    <3>2. seg.from \in Nat /\ seg.from <= clock
      BY <1>1, <2>1 DEF IInv, SegInv, Contiguous, Segments
    <3>3. /\ lastCut' \in [cause : Causes, from : Nat, to : Nat, tail : Tails]
          /\ lastCut'.cause = cause /\ lastCut'.from = seg.from /\ lastCut'.to = clock
          /\ lastCut'.tail = ended
      BY <1>1, <3>1, <3>2 DEF Causes
    <3> QED BY <1>1, <3>2, <3>3 DEF CutInv
  <2>2. CASE ~seg.open
    <3>1. lastCut' = lastCut
      BY <2>2
    <3>2. vad'.speech => vad' = vad
      BY DEF SilentVad
    <3> QED BY <3>1, <3>2 DEF IInv, CutInv
  <2> QED BY <2>1, <2>2
<1>10. OnsetStep /\ TailStep
  BY <1>4 DEF OnsetStep, TailStep
<1> QED BY <1>3, <1>5, <1>6, <1>7, <1>8, <1>9, <1>10 DEF IInv

LEMMA NextIInv == ASSUME IInv, [Next]_vars PROVE IInv' /\ OnsetStep /\ TailStep
<1>1. CASE QuietChunk
  BY <1>1, QuietStep
<1>2. CASE Onset
  BY <1>2, OnsetChunk
<1>3. CASE SpeechChunk
  BY <1>3, SpeechStep
<1>4. CASE SpeakerChanged
  BY <1>4, ChangeStep
<1>5. CASE EndOfFile
  <2>1. /\ setup' = setup /\ loop' = loop /\ done' = TRUE /\ clock' = clock
        /\ counted' = counted /\ vad' = vad /\ preRoll' = preRoll
        /\ seg' = NoSegment /\ ended' = NoTail
        /\ boundary' = IF seg.open THEN clock ELSE boundary
        /\ lastCut' = IF seg.open
                      THEN [cause |-> "end", from |-> seg.from, to |-> clock, tail |-> ended]
                      ELSE lastCut
    BY <1>5 DEF EndOfFile, Cut
  <2>2. loop' \in {"running", "paused", "closed"} /\ done' \in BOOLEAN
    BY <2>1 DEF IInv, Base
  <2> QED BY <2>1, <2>2, CutStep
<1>6. CASE Pause
  <2>1. /\ setup' = setup /\ loop' = "paused" /\ done' = done /\ clock' = clock
        /\ counted' = counted /\ vad' = SilentVad /\ preRoll' = <<>>
        /\ seg' = NoSegment /\ ended' = NoTail /\ boundary' = clock
        /\ lastCut' = IF seg.open
                      THEN [cause |-> "pause", from |-> seg.from, to |-> clock, tail |-> ended]
                      ELSE lastCut
    BY <1>6 DEF Pause
  <2>2. loop' \in {"running", "paused", "closed"} /\ done' \in BOOLEAN
    BY <2>1 DEF IInv, Base
  <2> QED BY <2>1, <2>2, CutStep
<1>7. CASE Resume
  <2>1. /\ loop' = "running"
        /\ UNCHANGED <<setup, done, clock, counted, vad, preRoll, seg, ended, boundary, lastCut>>
    BY <1>7 DEF Resume
  <2> QED BY <2>1, SMTT(30) DEF IInv, Base, VadInv, SegInv, Contiguous, Segments, Run, WaitInv, Waits,
                      PreRollInv, CountInv, CutInv, OnsetStep, TailStep
<1>8. CASE Shutdown
  <2>1. /\ setup' = setup /\ loop' = "closed" /\ done' = done /\ clock' = clock
        /\ counted' = counted /\ vad' = vad /\ preRoll' = preRoll
        /\ seg' = NoSegment /\ ended' = NoTail
        /\ boundary' = IF seg.open THEN clock ELSE boundary
        /\ lastCut' = IF seg.open
                      THEN [cause |-> "stop", from |-> seg.from, to |-> clock, tail |-> ended]
                      ELSE lastCut
    BY <1>8 DEF Shutdown, Cut
  <2>2. loop' \in {"running", "paused", "closed"} /\ done' \in BOOLEAN
    BY <2>1 DEF IInv, Base
  <2> QED BY <2>1, <2>2, CutStep
<1>9. CASE UNCHANGED vars
  <2>1. UNCHANGED <<setup, loop, done, clock, counted, vad, preRoll, seg, ended, boundary, lastCut>>
    BY <1>9 DEF vars
  <2>2. Base' /\ VadInv' /\ CutInv' /\ CountInv'
    BY <2>1 DEF IInv, Base, VadInv, CutInv, CountInv
  <2>3. SegInv'
    BY <2>1 DEF IInv, SegInv, Contiguous, Run
  <2>4. WaitInv' /\ PreRollInv'
    BY <2>1 DEF IInv, WaitInv, Waits, PreRollInv, Run
  <2>5. OnsetStep /\ TailStep
    BY <2>1 DEF OnsetStep, TailStep
  <2> QED BY <2>2, <2>3, <2>4, <2>5 DEF IInv
<1> QED BY <1>1, <1>2, <1>3, <1>4, <1>5, <1>6, <1>7, <1>8, <1>9 DEF Next

LEMMA SpecIInv == Spec => []IInv
<1>1. IInv /\ [Next]_vars => IInv'
  BY NextIInv
<1> QED BY InitIInv, <1>1, PTL DEF Spec
--------------------------------------------------------------------------------
\* A run of chunks up to t is a sequence of chunks up to t.
LEMMA RunIsTyped ==
  ASSUME NEW chunks \in Seq(Nat), NEW from \in Nat, NEW t \in Nat,
         Run(chunks, from), from + Len(chunks) <= t
  PROVE  chunks \in Seq(1..t)
<1>1. ASSUME NEW i \in 1..Len(chunks) PROVE chunks[i] \in 1..t
  BY <1>1 DEF Run
<1> QED BY <1>1, SMTT(30)

\* What ASR hears of a segment is the audio from its start until now, and the
\* statistics of a stream add up, for any thresholds (lib.rs:620-668).
THEOREM SegmentIsHeard == Spec => []HeardIsTheSegment
<1>1. IInv => HeardIsTheSegment
  <2> SUFFICES ASSUME IInv PROVE HeardIsTheSegment
    OBVIOUS
  <2>1. HearsItsAudio
    <3> SUFFICES ASSUME seg.open PROVE HearsItsAudio
      BY DEF HearsItsAudio
    <3>1. /\ seg.heard \in Seq(Nat) /\ seg.len \in Nat /\ seg.from \in Nat
          /\ Len(seg.heard) = seg.len /\ Run(seg.heard, seg.from)
          /\ seg.from + seg.len = clock /\ seg.from >= boundary
      BY DEF IInv, SegInv, Contiguous, Segments
    <3>2. seg.heard = [i \in 1..Len(seg.heard) |-> seg.heard[i]]
      BY <3>1
    <3>3. seg.heard = [i \in 1..seg.len |-> seg.from + i]
      BY <3>1, <3>2 DEF Run
    <3> QED BY <3>1, <3>3 DEF HearsItsAudio
  <2>2. StatisticsAddUp
    <3>1. /\ counted.speech \in Nat /\ counted.still \in Nat /\ clock \in Nat
          /\ Len(preRoll) \in Nat
          /\ counted.speech + Len(preRoll) <= clock /\ counted.still <= clock
          /\ counted.speech + counted.still >= clock
      BY DEF IInv, Base, CountInv, PreRollInv
    <3> QED BY <3>1 DEF StatisticsAddUp, Snapshot
  <2> QED BY <2>1, <2>2 DEF HeardIsTheSegment
<1> QED BY SpecIInv, <1>1, PTL

\* A segment that the VAD has ended is cut within stable_ms, by its own tail, and
\* a file nowhere else while speech goes on (segment.rs:83, lib.rs:722-737).
THEOREM TailsAreInTime == Spec => []TailsCutTheirSegment
<1>1. IInv => TailsCutTheirSegment
  <2> SUFFICES ASSUME IInv PROVE TailsCutTheirSegment
    OBVIOUS
  <2> USE StreamAssumption
  <2>1. clock \in Nat /\ clock \in 0..MaxChunks /\ boundary \in 0..clock
    BY DEF IInv, Base
  <2>2. counted \in [speech : 0..clock, still : 0..clock]
    <3>1. /\ counted \in [speech : Nat, still : Nat] /\ Len(preRoll) \in Nat
          /\ counted.speech + Len(preRoll) <= clock /\ counted.still <= clock
      BY DEF IInv, CountInv, PreRollInv
    <3> QED BY <2>1, <3>1
  <2>3. vad \in [speech : BOOLEAN, since : 0..clock, age : 0..TailGap]
    BY <2>1 DEF IInv, VadInv
  <2>4. preRoll \in Seq(1..clock) /\ Len(preRoll) <= PreRollLimit
    <3>1. CASE seg.open
      BY <3>1 DEF IInv, PreRollInv
    <3>2. CASE ~seg.open
      <4>1. /\ preRoll \in Seq(Nat) /\ Len(preRoll) \in Nat /\ boundary \in Nat
            /\ Run(preRoll, clock - Len(preRoll)) /\ boundary <= clock
            /\ Len(preRoll) = IF boundary + PreRollLimit > clock THEN clock - boundary
                              ELSE PreRollLimit
        BY <2>1, <3>2 DEF IInv, PreRollInv
      <4> DEFINE n == Len(preRoll)
                 from == clock - n
      <4>2. n <= PreRollLimit /\ from \in Nat /\ from + n <= clock
        BY <2>1, <4>1
      <4>3. Run(preRoll, from) /\ from + Len(preRoll) <= clock /\ preRoll \in Seq(Nat)
        BY <4>1, <4>2
      <4> HIDE DEF from
      <4> QED BY <2>1, <4>2, <4>3, RunIsTyped
    <3> QED BY <3>1, <3>2
  <2>5. /\ seg \in [open : BOOLEAN, from : 0..clock, len : 0..clock, heard : Seq(1..clock),
                    worded : BOOLEAN, stable : 0..clock, quiet : 0..clock,
                    pending : BOOLEAN, waited : 0..clock]
    <3>1. /\ seg \in Segments /\ seg.heard \in Seq(Nat) /\ seg.from \in Nat /\ seg.len \in Nat
          /\ seg.stable \in Nat /\ seg.quiet \in Nat /\ seg.waited \in Nat
          /\ seg.stable <= clock /\ seg.quiet <= clock /\ seg.waited <= clock
          /\ Len(seg.heard) = seg.len /\ Run(seg.heard, seg.from) /\ seg.from + seg.len <= clock
      BY DEF IInv, SegInv, Contiguous, Segments
    <3>2. seg.heard \in Seq(1..clock)
      BY <2>1, <3>1, RunIsTyped
    <3>3. seg.from \in 0..clock /\ seg.len \in 0..clock
      BY <2>1, <3>1
    <3>4. seg.stable \in 0..clock /\ seg.quiet \in 0..clock /\ seg.waited \in 0..clock
      BY <2>1, <3>1
    <3> QED BY <3>1, <3>2, <3>3, <3>4, Zenon DEF Segments
  <2>6. ended \in [at : 0..clock, since : 0..clock]
    BY <2>1 DEF IInv, VadInv, Tails
  <2>7. lastCut \in [cause : {"none", "tail", "natural", "change", "end", "pause", "stop"},
                     from : 0..clock, to : 0..clock,
                     tail : [at : 0..clock, since : 0..clock]]
    <3>1. /\ lastCut \in [cause : Causes, from : Nat, to : Nat, tail : Tails]
          /\ lastCut.from \in 0..clock /\ lastCut.to \in 0..clock
      BY <2>1 DEF IInv, CutInv
    <3>2. lastCut.tail \in [at : 0..clock, since : 0..clock]
      BY <2>1 DEF IInv, CutInv, Tails
    <3> QED BY <3>1, <3>2, Zenon DEF Causes
  <2>8. TypeOK
    BY <2>1, <2>2, <2>3, <2>4, <2>5, <2>6, <2>7 DEF TypeOK, IInv, Base
  <2>9. TailsCutInTime
    <3>1. seg.open /\ ended # NoTail =>
            seg.waited \in Nat /\ ended.at \in Nat /\ ended.at + seg.waited = clock
            /\ seg.waited < Stable
      BY DEF IInv, WaitInv, Waits, SegInv, Contiguous, Segments, VadInv, Tails
    <3> QED BY <2>1, <3>1 DEF IInv, CutInv, TailsCutInTime
  <2>10. FilesCutAtTails
    BY DEF IInv, CutInv, FilesCutAtTails
  <2> QED BY <2>8, <2>9, <2>10 DEF TailsCutTheirSegment
<1> QED BY SpecIInv, <1>1, PTL

\* Every segment starts with all of the pre-roll that no earlier cut took, and the
\* tail of speech from before a cut in its middle cuts nothing (lib.rs:620-668).
THEOREM CutsStayClean == Spec => CutsAreClean
<1>1. IInv /\ [Next]_vars => OnsetStep /\ TailStep
  BY NextIInv
<1>2. Spec => [][OnsetStep]_vars /\ [][TailStep]_vars
  BY SpecIInv, <1>1, PTL DEF Spec
<1> QED BY <1>2 DEF CutsAreClean, OnsetIsKept, OldTailsCutNothing, OnsetStep, TailStep
--------------------------------------------------------------------------------
\* The generation counts the segments that have been reset.
Numbering ==
  /\ generation = IF phase \in {"open", "polling", "finishing"} THEN segment - 1 ELSE segment
  /\ phase \in {"open", "polling", "finishing"} => segment >= 1

\* A window's segment is the one its generation stands for.
OwnJob(j) == j.window.of = j.generation + 1

OwnWindows(windows, g) ==
  \A i \in 1..Len(windows) : windows[i].of = g + 1 /\ windows[i].total >= MinTurn

JobsAreOwn ==
  /\ \A i \in 1..Len(jobs) : OwnJob(jobs[i])
  /\ thread = "computing" => job \in Jobs /\ OwnJob(job) /\ known = job.generation

OddAreOwn == OwnWindows(odd, known)

ResultsAreOwn ==
  \A i \in 1..Len(results) : results[i].changed =>
    /\ Len(results[i].odd) >= Required
    /\ OwnWindows(results[i].odd, results[i].generation)

DetectorInv ==
  DetectorTypeOK /\ Numbering /\ JobsAreOwn /\ OddAreOwn /\ ResultsAreOwn /\ CutsAreJustified

USE DEF streamVars, threadVars

LEMMA InitDetectorInv == DetectorInit => DetectorInv
<1> SUFFICES ASSUME DetectorInit PROVE DetectorInv
  OBVIOUS
<1> USE SpeakerChangeAssumption DEF DetectorInit
<1>1. DetectorTypeOK
  <2>1. jobs \in Seq(Jobs) /\ Len(jobs) <= 1 /\ results \in Seq(Results)
    BY SMT
  <2>2. odd \in Seq(Windows) /\ cut \in [of : 0..MaxSegments, by : Seq(Windows)]
    BY SMT
  <2>3. known \in Nat \cup {None} /\ job \in Jobs \cup {None} /\ nextSubmit \in Nat
    OBVIOUS
  <2>4. /\ segment \in 0..MaxSegments /\ length \in 0..MaxLength /\ audio \in 0..MaxAudio
        /\ generation \in 0..MaxSegments
    OBVIOUS
  <2> QED BY <2>1, <2>2, <2>3, <2>4, Zenon DEF DetectorTypeOK
<1>2. Numbering /\ JobsAreOwn /\ OddAreOwn /\ ResultsAreOwn /\ CutsAreJustified
  BY DEF Numbering, JobsAreOwn, OddAreOwn, OwnWindows, ResultsAreOwn, CutsAreJustified
<1> QED BY <1>1, <1>2 DEF DetectorInv

\* What an observation reports is the windows held against the anchor, which are
\* those of the job's segment.
LEMMA ReportDetectorInv ==
  ASSUME DetectorInv, thread = "computing",
         NEW changed \in BOOLEAN, NEW windows \in Seq(Windows),
         Report(changed, windows), anchored' \in BOOLEAN, odd' \in Seq(Windows),
         OwnWindows(odd', known), OwnWindows(windows, known),
         changed => Len(windows) >= Required
  PROVE  DetectorInv'
<1> USE SpeakerChangeAssumption DEF DetectorInv, DetectorTypeOK
<1> DEFINE r == [generation |-> job.generation, changed |-> changed,
                 odd |-> IF changed THEN windows ELSE <<>>]
<1>1. job \in Jobs /\ known = job.generation
  BY DEF JobsAreOwn
<1>2. r \in Results
  BY <1>1 DEF Results, Jobs
<1>3. results' = Append(results, r)
  BY DEF Report
<1>4. DetectorTypeOK'
  <2>1. results' \in Seq(Results)
    BY <1>2, <1>3
  <2> QED BY <2>1 DEF Report
<1>5. ResultsAreOwn'
  <2> SUFFICES ASSUME NEW i \in 1..Len(results'), results'[i].changed
               PROVE  Len(results'[i].odd) >= Required
                      /\ OwnWindows(results'[i].odd, results'[i].generation)
    BY DEF ResultsAreOwn, OwnWindows
  <2>1. CASE i <= Len(results)
    <3>1. i \in 1..Len(results) /\ results'[i] = results[i]
      BY <1>2, <1>3, <2>1
    <3> QED BY <3>1 DEF ResultsAreOwn
  <2>2. CASE i = Len(results) + 1
    <3>1. results'[i] = r
      BY <1>2, <1>3, <2>2
    <3>2. changed /\ r.odd = windows /\ r.generation = known
      BY <1>1, <3>1
    <3> QED BY <3>1, <3>2
  <2> QED BY <1>2, <1>3, <2>1, <2>2
<1>6. Numbering' /\ JobsAreOwn' /\ OddAreOwn' /\ CutsAreJustified'
  BY DEF Report, Numbering, JobsAreOwn, OddAreOwn, OwnWindows, CutsAreJustified, OwnJob
<1> QED BY <1>4, <1>5, <1>6

LEMMA NextDetectorInv == DetectorInv /\ [DetectorNext]_detectorVars => DetectorInv'
<1> SUFFICES ASSUME DetectorInv, [DetectorNext]_detectorVars PROVE DetectorInv'
  OBVIOUS
<1> USE SpeakerChangeAssumption DEF DetectorInv, DetectorTypeOK
<1>1. CASE Open
  <2>1. DetectorTypeOK'
    BY <1>1 DEF Open
  <2>2. Numbering'
    BY <1>1 DEF Open, Numbering
  <2>3. JobsAreOwn' /\ OddAreOwn' /\ ResultsAreOwn' /\ CutsAreJustified'
    BY <1>1 DEF Open, JobsAreOwn, OddAreOwn, OwnWindows, OwnJob, ResultsAreOwn, CutsAreJustified
  <2> QED BY <2>1, <2>2, <2>3
<1>2. CASE HearChunk
  <2> DEFINE j == [generation |-> generation, window |-> [of |-> segment, total |-> audio']]
  <2>1. audio' \in 1..MaxAudio /\ length' \in 0..MaxLength
    BY <1>2 DEF HearChunk, Capped
  <2>2. segment \in 1..MaxSegments /\ generation = segment - 1
    BY <1>2 DEF HearChunk, Numbering
  <2>3. j \in Jobs /\ OwnJob(j)
    BY <2>1, <2>2 DEF Jobs, Windows, OwnJob
  <2>4. jobs' = jobs \/ (jobs = <<>> /\ jobs' = <<j>>)
    BY <1>2 DEF HearChunk, SendOrSkip
  <2>5. jobs' \in Seq(Jobs) /\ Len(jobs') <= 1
    <3>1. j \in Jobs
      BY <2>3
    <3> HIDE DEF j
    <3>2. <<j>> \in Seq(Jobs) /\ Len(<<j>>) = 1
      BY <3>1
    <3>3. jobs \in Seq(Jobs) /\ Len(jobs) <= 1
      OBVIOUS
    <3>4. CASE jobs' = jobs
      BY <3>3, <3>4
    <3>5. CASE jobs' = <<j>>
      BY <3>2, <3>5
    <3> QED BY <2>4, <3>4, <3>5
  <2>6. nextSubmit' \in Nat
    BY <1>2, <2>1 DEF HearChunk
  <2>7. DetectorTypeOK'
    BY <1>2, <2>1, <2>5, <2>6 DEF HearChunk
  <2>8. Numbering'
    BY <1>2, <2>2 DEF HearChunk, Numbering
  <2>9. \A i \in 1..Len(jobs') : OwnJob(jobs'[i])
    <3>1. CASE jobs' = jobs
      BY <3>1 DEF JobsAreOwn
    <3>2. CASE jobs' = <<j>>
      <4>1. Len(jobs') = 1 /\ jobs'[1] = j
        BY <3>2
      <4> QED BY <2>3, <4>1
    <3> QED BY <2>4, <3>1, <3>2
  <2>10. JobsAreOwn'
    BY <1>2, <2>9 DEF HearChunk, JobsAreOwn, OwnJob
  <2>11. OddAreOwn' /\ ResultsAreOwn' /\ CutsAreJustified'
    BY <1>2 DEF HearChunk, OddAreOwn, OwnWindows, ResultsAreOwn, CutsAreJustified
  <2> QED BY <2>7, <2>8, <2>10, <2>11
<1>3. CASE Poll
  <2>1. CASE \E i \in 1..Len(results) : CurrentChange(results[i])
    <3> DEFINE i == CHOOSE n \in 1..Len(results) : CurrentChange(results[n])
    <3>1. i \in 1..Len(results) /\ CurrentChange(results[i])
      BY <2>1
    <3>2. results[i] \in Results /\ results[i].odd \in Seq(Windows)
      <4>1. results[i] \in Results
        <5> HIDE DEF i
        <5> QED BY <3>1
      <4>2. \A r \in Results : r.odd \in Seq(Windows)
        BY DEF Results
      <4> QED BY <4>1, <4>2
    <3>3. cut' = [of |-> segment, by |-> results[i].odd]
      BY <1>3, <2>1 DEF Poll
    <3>4. generation = segment - 1 /\ segment \in 1..MaxSegments
      BY <1>3 DEF Poll, Numbering
    <3>5. /\ Len(results[i].odd) >= Required
          /\ OwnWindows(results[i].odd, generation)
      BY <3>1 DEF ResultsAreOwn, CurrentChange
    <3>6. DetectorTypeOK'
      BY <1>3, <2>1, <3>2, <3>3, <3>4 DEF Poll
    <3>7. CutsAreJustified'
      <4>1. cut'.of = segment /\ cut'.by = results[i].odd /\ generation + 1 = segment
        BY <3>3, <3>4
      <4> HIDE DEF i
      <4> QED BY <3>5, <4>1 DEF CutsAreJustified, OwnWindows
    <3>8. Numbering' /\ JobsAreOwn' /\ OddAreOwn' /\ ResultsAreOwn'
      BY <1>3, <2>1 DEF Poll, Numbering, JobsAreOwn, OwnJob, OddAreOwn, OwnWindows, ResultsAreOwn
    <3> QED BY <3>6, <3>7, <3>8
  <2>2. CASE ~ \E i \in 1..Len(results) : CurrentChange(results[i])
    <3>1. DetectorTypeOK'
      BY <1>3, <2>2 DEF Poll
    <3>2. Numbering' /\ JobsAreOwn' /\ OddAreOwn' /\ ResultsAreOwn' /\ CutsAreJustified'
      BY <1>3, <2>2 DEF Poll, Numbering, JobsAreOwn, OwnJob, OddAreOwn, OwnWindows,
                        ResultsAreOwn, CutsAreJustified
    <3> QED BY <3>1, <3>2
  <2> QED BY <2>1, <2>2
<1>4. CASE OtherEnd
  <2>1. DetectorTypeOK' /\ Numbering'
    BY <1>4 DEF OtherEnd, Numbering
  <2>2. JobsAreOwn' /\ OddAreOwn' /\ ResultsAreOwn' /\ CutsAreJustified'
    BY <1>4 DEF OtherEnd, JobsAreOwn, OwnJob, OddAreOwn, OwnWindows, ResultsAreOwn, CutsAreJustified
  <2> QED BY <2>1, <2>2
<1>5. CASE Reset
  <2>1. DetectorTypeOK' /\ Numbering'
    BY <1>5 DEF Reset, NextGeneration, Numbering
  <2>2. JobsAreOwn' /\ OddAreOwn' /\ ResultsAreOwn' /\ CutsAreJustified'
    BY <1>5 DEF Reset, JobsAreOwn, OwnJob, OddAreOwn, OwnWindows, ResultsAreOwn, CutsAreJustified
  <2> QED BY <2>1, <2>2
<1>6. CASE Drop \/ Join
  <2>1. DetectorTypeOK' /\ Numbering'
    BY <1>6 DEF Drop, DropSender, Join, Numbering
  <2>2. JobsAreOwn' /\ OddAreOwn' /\ ResultsAreOwn' /\ CutsAreJustified'
    BY <1>6, ZenonT(30) DEF Drop, DropSender, Join, JobsAreOwn, OwnJob, OddAreOwn, OwnWindows,
                ResultsAreOwn, CutsAreJustified
  <2> QED BY <2>1, <2>2
<1>7. CASE Receive
  <2>1. /\ job' = jobs[1] /\ jobs[1] \in Jobs /\ OwnJob(jobs[1])
        /\ jobs' \in Seq(Jobs) /\ Len(jobs') = 0
    <3>1. jobs \in Seq(Jobs) /\ Len(jobs) = 1
      <4>1. jobs \in Seq(Jobs) /\ jobs # <<>> /\ Len(jobs) <= 1
        BY <1>7 DEF Receive
      <4>2. Len(jobs) \in Nat /\ Len(jobs) # 0
        BY <4>1, EmptySeq, LenProperties
      <4> HIDE DEF DetectorInv, DetectorTypeOK
      <4>3. \A n \in Nat : n # 0 /\ n <= 1 => n = 1
        BY SMT
      <4> QED BY <4>1, <4>2, <4>3
    <3>2. jobs[1] \in Jobs /\ Head(jobs) = jobs[1] /\ Tail(jobs) \in Seq(Jobs)
          /\ Len(Tail(jobs)) = 0
      <4>1. jobs # <<>>
        BY <1>7 DEF Receive
      <4> HIDE DEF DetectorInv, DetectorTypeOK
      <4>2. jobs[1] \in Jobs /\ Head(jobs) = jobs[1]
        <5>1. 1 \in 1..Len(jobs)
          BY <3>1
        <5>2. jobs[1] \in Jobs
          BY <3>1, <5>1, ElementOfSeq
        <5>3. Head(jobs) = jobs[1]
          BY <3>1
        <5> QED BY <5>2, <5>3
      <4> QED BY <3>1, <4>1, <4>2, HeadTailProperties
    <3>3. OwnJob(jobs[1])
      BY <3>1 DEF JobsAreOwn
    <3> QED BY <1>7, <3>2, <3>3 DEF Receive
  <2>2. known' = jobs[1].generation /\ known' \in Nat
    BY <1>7, <2>1 DEF Receive, ForgetIfNew, Jobs
  <2>3. (known = known' /\ anchored' = anchored /\ odd' = odd) \/ (anchored' = FALSE /\ odd' = <<>>)
    BY <1>7, <2>2 DEF Receive, ForgetIfNew
  <2>4. DetectorTypeOK'
    <3>1. job' \in Jobs /\ known' \in Nat
      BY <2>1, <2>2
    <3>2. anchored' \in BOOLEAN /\ odd' \in Seq(Windows)
      <4>1. <<>> \in Seq(Windows)
        OBVIOUS
      <4> QED BY <2>3, <4>1
    <3> QED BY <1>7, <2>1, <3>1, <3>2 DEF Receive
  <2>5. JobsAreOwn'
    BY <1>7, <2>1, <2>2 DEF Receive, JobsAreOwn, OwnJob
  <2>6. OddAreOwn'
    BY <2>3, SMTT(30) DEF OddAreOwn, OwnWindows
  <2>7. Numbering' /\ ResultsAreOwn' /\ CutsAreJustified'
    BY <1>7 DEF Receive, Numbering, OwnWindows, ResultsAreOwn, CutsAreJustified
  <2> QED BY <2>4, <2>5, <2>6, <2>7
<1>8. CASE End
  <2>1. DetectorTypeOK' /\ Numbering'
    BY <1>8 DEF End, Numbering
  <2>2. JobsAreOwn' /\ OddAreOwn' /\ ResultsAreOwn' /\ CutsAreJustified'
    BY <1>8 DEF End, JobsAreOwn, OwnJob, OddAreOwn, OwnWindows, ResultsAreOwn, CutsAreJustified
  <2> QED BY <2>1, <2>2
<1>9. CASE NoEmbedding \/ SetAnchor
  <2>1. OwnWindows(<<>>, known)
    BY DEF OwnWindows
  <2>2. thread = "computing" /\ Report(FALSE, <<>>) /\ odd' = odd /\ anchored' \in BOOLEAN
    BY <1>9 DEF NoEmbedding, SetAnchor
  <2>3. OwnWindows(odd', known)
    BY <2>2 DEF OddAreOwn
  <2>4. <<>> \in Seq(Windows) /\ odd' \in Seq(Windows)
    BY <2>2
  <2> QED BY <2>1, <2>2, <2>3, <2>4, ReportDetectorInv
<1>10. CASE Match
  <2>1. OwnWindows(<<>>, known)
    BY DEF OwnWindows
  <2>2. thread = "computing" /\ Report(FALSE, <<>>) /\ odd' = <<>> /\ anchored' \in BOOLEAN
    BY <1>10 DEF Match
  <2>3. <<>> \in Seq(Windows) /\ odd' \in Seq(Windows)
    BY <2>2
  <2> QED BY <2>1, <2>2, <2>3, ReportDetectorInv
<1>11. CASE Mismatch
  <2>1. /\ thread = "computing" /\ anchored' \in BOOLEAN
        /\ job \in Jobs /\ OwnJob(job) /\ known = job.generation
    BY <1>11 DEF Mismatch, JobsAreOwn
  <2>2. job.window \in Windows /\ job.window.of = known + 1
    BY <2>1 DEF Jobs, OwnJob
  <2>3. odd' \in Seq(Windows) /\ OwnWindows(odd', known)
    <3>1. CASE job.window.total < MinTurn
      <4>1. odd' = odd
        BY <1>11, <3>1 DEF Mismatch
      <4> QED BY <4>1 DEF OddAreOwn
    <3>2. CASE ~ (job.window.total < MinTurn)
      <4>1. odd' = Append(odd, job.window)
        BY <1>11, <3>2 DEF Mismatch
      <4>2. odd' \in Seq(Windows) /\ Len(odd') = Len(odd) + 1
        BY <2>2, <4>1
      <4>3. \A i \in 1..Len(odd') : odd'[i] = IF i <= Len(odd) THEN odd[i] ELSE job.window
        BY <2>2, <4>1
      <4>4. job.window.total >= MinTurn
        BY <2>2, <3>2 DEF Windows
      <4>5. \A i \in 1..Len(odd) : odd[i].of = known + 1 /\ odd[i].total >= MinTurn
        BY DEF OddAreOwn, OwnWindows
      <4>6. ASSUME NEW i \in 1..Len(odd')
            PROVE  odd'[i].of = known + 1 /\ odd'[i].total >= MinTurn
        <5>1. CASE i <= Len(odd)
          <6>1. i \in 1..Len(odd) /\ odd'[i] = odd[i]
            BY <4>3, <5>1
          <6> QED BY <4>5, <6>1
        <5>2. CASE ~ (i <= Len(odd))
          BY <2>2, <4>3, <4>4, <5>2
        <5> QED BY <5>1, <5>2
      <4> QED BY <4>2, <4>6 DEF OwnWindows
    <3> QED BY <3>1, <3>2
  <2>4. Report(odd' # odd /\ Enough(odd'), odd')
    BY <1>11 DEF Mismatch
  <2>5. (odd' # odd /\ Enough(odd')) \in BOOLEAN
        /\ ((odd' # odd /\ Enough(odd')) => Len(odd') >= Required)
    BY DEF Enough
  <2> QED BY <2>1, <2>3, <2>4, <2>5, ReportDetectorInv
<1>12. CASE UNCHANGED detectorVars
  BY <1>12 DEF detectorVars, Numbering, JobsAreOwn, OwnJob, OddAreOwn, OwnWindows, ResultsAreOwn,
               CutsAreJustified
<1> QED
  BY <1>1, <1>2, <1>3, <1>4, <1>5, <1>6, <1>7, <1>8, <1>9, <1>10, <1>11, <1>12
  DEF DetectorNext, Stream, Thread

LEMMA SpecDetectorInv == DetectorSpec => []DetectorInv
BY InitDetectorInv, NextDetectorInv, PTL DEF DetectorSpec

\* Every variable keeps its type, and at most one window waits for the thread.
THEOREM DetectorTypeCorrect == DetectorSpec => []DetectorTypeOK
<1>1. DetectorInv => DetectorTypeOK
  BY DEF DetectorInv
<1> QED BY <1>1, SpecDetectorInv, PTL

\* A segment is cut only for enough windows of its own, each taken late enough in it.
THEOREM CutsAreOwn == DetectorSpec => []CutsAreJustified
<1>1. DetectorInv => CutsAreJustified
  BY DEF DetectorInv
<1> QED BY <1>1, SpecDetectorInv, PTL
--------------------------------------------------------------------------------
Stretches == Nat \X Nat
Within(x, q) == x[1] <= q /\ q < x[2]
Covers(r, q) == \E k \in 1..Len(r) : Within(r[k], q)

\* Stretches in their order with something between any two.
Apart(r) ==
  /\ \A k \in 1..Len(r) : r[k][1] < r[k][2]
  /\ \A k \in 2..Len(r) : r[k - 1][2] < r[k][1]

BeginBy(r, first) == \A k \in 1..Len(r) : r[k][1] <= first

LEMMA EndIs ==
  ASSUME NEW t, IsTape(t), NEW i \in 1..Len(t.speech), t.speech[i]
  PROVE  LET e == EndOf(t, i) IN /\ e \in i..Len(t.speech) /\ \A k \in i..e : t.speech[k]
                                 /\ e = Len(t.speech) \/ ~t.speech[e + 1]
<1> DEFINE n == Len(t.speech)
           IsEnd(j) == (\A k \in i..j : t.speech[k]) /\ (j = n \/ ~t.speech[j + 1])
           T == {j \in 0..n : j < i \/ (\A k \in i..j : t.speech[k]) \/ \E e \in i..n : IsEnd(e)}
<1>1. n \in Nat
  BY DEF IsTape
<1>2. 0 \in T
  BY <1>1
<1>3. ASSUME NEW j \in 1..n, j - 1 \in T PROVE j \in T
  <2>1. CASE j <= i
    BY <1>1, <2>1
  <2>2. CASE i < j /\ (\A k \in i..(j - 1) : t.speech[k]) /\ t.speech[j]
    <3>1. \A k \in i..j : k \in i..(j - 1) \/ k = j
      BY <1>1
    <3> QED BY <1>1, <2>2, <3>1
  <2>3. CASE i < j /\ (\A k \in i..(j - 1) : t.speech[k]) /\ ~t.speech[j]
    <3>1. IsEnd(j - 1) /\ j - 1 \in i..n
      BY <1>1, <2>3
    <3> HIDE DEF IsEnd
    <3> QED BY <1>1, <3>1
  <2> HIDE DEF IsEnd
  <2> QED BY <1>1, <1>3, <2>1, <2>2, <2>3
<1>4. n \in T
  <2> HIDE DEF T, n
  <2>1. 0..n \subseteq T
    BY ONLY <1>1, <1>2, <1>3, InductionUpTo
  <2> QED BY <1>1, <2>1
<1>5. \E e \in i..n : IsEnd(e)
  BY <1>1, <1>4
<1> QED BY <1>5 DEF EndOf

LEMMA BeginIs ==
  ASSUME NEW t, IsTape(t), NEW b \in 1..Len(t.speech), t.speech[b]
  PROVE  \E i \in 1..b : Begins(t, i) /\ \A k \in i..b : t.speech[k]
<1> DEFINE n == Len(t.speech)
           From(i, j) == Begins(t, i) /\ \A k \in i..j : t.speech[k]
           T == {j \in 0..n : j = 0 \/ ~t.speech[j] \/ \E i \in 1..j : From(i, j)}
<1>1. n \in Nat
  BY DEF IsTape
<1>2. 0 \in T
  BY <1>1
<1>3. ASSUME NEW j \in 1..n, j - 1 \in T PROVE j \in T
  <2>1. CASE ~t.speech[j]
    BY <1>1, <2>1
  <2>2. CASE t.speech[j] /\ (j - 1 = 0 \/ ~t.speech[j - 1])
    <3>1. j \in 1..j /\ \A k \in j..j : k = j
      BY <1>1
    <3>2. From(j, j)
      BY <1>1, <2>2, <3>1 DEF Begins
    <3> HIDE DEF From
    <3> QED BY <1>1, <3>1, <3>2
  <2>3. CASE t.speech[j] /\ ~(j - 1 = 0 \/ ~t.speech[j - 1])
    <3>1. PICK i \in 1..(j - 1) : From(i, j - 1)
      BY <1>3, <2>3
    <3>2. i \in 1..j /\ \A k \in i..j : k \in i..(j - 1) \/ k = j
      BY <1>1
    <3>3. From(i, j)
      BY <2>3, <3>1, <3>2
    <3> HIDE DEF From
    <3> QED BY <1>1, <3>2, <3>3
  <2> QED BY <2>1, <2>2, <2>3
<1>4. b \in T
  <2> HIDE DEF T, n
  <2>1. 0..n \subseteq T
    BY ONLY <1>1, <1>2, <1>3, InductionUpTo
  <2>2. b \in 0..n
    BY DEF n
  <2> QED BY <2>1, <2>2
<1> QED BY <1>4

\* What joining makes of the stretches: what they were, with the new one.
LEMMA MergeIs ==
  ASSUME NEW r \in Seq(Stretches), Apart(r), NEW x \in Stretches, x[1] < x[2], BeginBy(r, x[1])
  PROVE  /\ Merge(r, x) \in Seq(Stretches) /\ Apart(Merge(r, x)) /\ BeginBy(Merge(r, x), x[1])
         /\ \A q \in Nat : Covers(Merge(r, x), q) <=> Covers(r, q) \/ Within(x, q)
<1> DEFINE j == Merge(r, x)
           n == Len(r)
<1>1. n \in Nat /\ x[1] \in Nat /\ x[2] \in Nat /\ \A k \in 1..n : r[k][1] \in Nat /\ r[k][2] \in Nat
  BY DEF Stretches
<1>2. CASE r # <<>> /\ x[1] <= r[n][2]
  <2> DEFINE y == <<r[n][1], IF x[2] > r[n][2] THEN x[2] ELSE r[n][2]>>
  <2>1. j = [r EXCEPT ![n] = y] /\ n \in 1..n
    <3>1. n \in 1..n
      BY <1>2
    <3> QED BY <1>2, <3>1 DEF Merge
  <2>2. y \in Stretches /\ y[1] = r[n][1] /\ y[2] >= x[2] /\ y[2] >= r[n][2] /\ y[2] \in {x[2], r[n][2]}
    BY <1>1, <2>1 DEF Stretches
  <2> HIDE DEF y
  <2>3. j \in Seq(Stretches) /\ Len(j) = n /\ j[n] = y /\ \A k \in 1..n : k # n => j[k] = r[k]
    BY <2>1, <2>2
  <2> HIDE DEF j
  <2>4. Apart(j)
    <3>1. \A k \in 1..n : j[k][1] = r[k][1] /\ r[k][2] <= j[k][2] /\ (k # n => j[k] = r[k])
      BY <1>1, <2>2, <2>3
    <3>2. \A k \in 2..n : k - 1 \in 1..n /\ k - 1 # n /\ k \in 1..n
      BY <1>1
    <3>3. \A k \in 1..n : j[k][1] < j[k][2]
      <4> SUFFICES ASSUME NEW k \in 1..n PROVE j[k][1] < j[k][2]
        OBVIOUS
      <4>1. r[k][1] < r[k][2]
        BY DEF Apart
      <4>2. j[k] \in Stretches
        BY <1>1, <2>3
      <4>3. j[k][2] \in Nat
        BY ONLY <4>2 DEF Stretches
      <4> QED BY <1>1, <3>1, <4>1, <4>3
    <3>4. \A k \in 2..n : j[k - 1][2] < j[k][1]
      BY <3>1, <3>2 DEF Apart
    <3> QED BY <2>3, <3>3, <3>4 DEF Apart
  <2>5. BeginBy(j, x[1])
    BY <2>2, <2>3 DEF BeginBy
  <2>6. ASSUME NEW q \in Nat PROVE Covers(j, q) <=> Covers(r, q) \/ Within(x, q)
    <3>1. r[n][1] <= x[1]
      BY <2>1 DEF BeginBy
    <3>2. Within(y, q) <=> Within(r[n], q) \/ Within(x, q)
      BY <1>1, <1>2, <2>1, <2>2, <3>1 DEF Within
    <3>3. \A k \in 1..n : k # n => (Within(j[k], q) <=> Within(r[k], q))
      BY <2>3
    <3> QED BY <2>1, <2>3, <3>2, <3>3 DEF Covers
  <2> QED BY <2>3, <2>4, <2>5, <2>6 DEF j
<1>3. CASE ~(r # <<>> /\ x[1] <= r[n][2])
  <2>1. j = Append(r, x)
    BY <1>3 DEF Merge
  <2>2. j \in Seq(Stretches) /\ Len(j) = n + 1 /\ j[n + 1] = x /\ \A k \in 1..n : j[k] = r[k]
    BY <2>1
  <2>3. n > 0 => r[n][2] < x[1]
    BY <1>1, <1>3
  <2> HIDE DEF j
  <2>4. \A k \in 1..n + 1 : k \in 1..n \/ k = n + 1
    BY <1>1
  <2>5. Apart(j)
    <3>1. \A k \in 1..n + 1 : j[k][1] < j[k][2]
      BY <2>2, <2>4 DEF Apart
    <3>2. ASSUME NEW k \in 2..n + 1 PROVE j[k - 1][2] < j[k][1]
      <4>1. CASE k \in 2..n
        <5>1. k \in 1..n /\ k - 1 \in 1..n
          BY <1>1, <4>1
        <5> QED BY <2>2, <4>1, <5>1 DEF Apart
      <4>2. CASE k = n + 1
        <5>1. k - 1 = n /\ n \in 1..n /\ n > 0
          BY <1>1, <4>2
        <5> QED BY <2>2, <2>3, <4>2, <5>1
      <4> QED BY <1>1, <4>1, <4>2
    <3> QED BY <2>2, <3>1, <3>2 DEF Apart
  <2>6. BeginBy(j, x[1])
    BY <1>1, <2>2, <2>4 DEF BeginBy
  <2>7. ASSUME NEW q \in Nat PROVE Covers(j, q) <=> Covers(r, q) \/ Within(x, q)
    <3>1. n + 1 \in 1..n + 1 /\ \A k \in 1..n : k \in 1..n + 1
      BY <1>1
    <3> QED BY <2>2, <2>4, <3>1 DEF Covers
  <2> QED BY <2>2, <2>5, <2>6, <2>7 DEF j
<1> QED BY <1>2, <1>3

\* Where what is kept around the speech at block i begins.
Before(i) == IF i - 1 > Pad THEN i - 1 - Pad ELSE 0

LEMMA PaddedIs ==
  ASSUME NEW t, IsTape(t), NEW i \in 1..Len(t.speech), Begins(t, i)
  PROVE  /\ Padded(t, i) \in Stretches /\ Padded(t, i)[1] = Before(i)
         /\ Padded(t, i)[1] < Padded(t, i)[2]
         /\ Padded(t, i)[2] = Least(EndOf(t, i) + Pad, Len(t.speech))
<1>1. EndOf(t, i) \in i..Len(t.speech) /\ Len(t.speech) \in Nat
  BY EndIs DEF Begins, IsTape
<1>2. Pad \in Nat
  BY TrimBounds
<1>3. PICK e \in Nat : e = EndOf(t, i) /\ i <= e /\ e <= Len(t.speech)
  BY <1>1
<1>4. Padded(t, i) = <<Before(i), Least(e + Pad, Len(t.speech))>>
  BY <1>3 DEF Padded, Before
<1>5. Before(i) \in Nat /\ Before(i) < i /\ Least(e + Pad, Len(t.speech)) \in Nat
      /\ Least(e + Pad, Len(t.speech)) >= e
  BY <1>1, <1>2, <1>3 DEF Before, Least
<1> QED BY <1>3, <1>4, <1>5 DEF Stretches
\* A block is kept because of the speech that begins at one of the first n.
KeptFor(t, n, q) == \E i \in 1..n : Begins(t, i) /\ Within(Padded(t, i), q)

TrimInv(r, t, n) ==
  /\ r \in Seq(Stretches) /\ Apart(r) /\ BeginBy(r, Before(n))
  /\ \A q \in Nat : Covers(r, q) <=> KeptFor(t, n, q)

LEMMA TrimStep ==
  ASSUME NEW t, IsTape(t), NEW n \in 1..Len(t.speech), NEW r, TrimInv(r, t, n - 1)
  PROVE  TrimInv(IF Begins(t, n) THEN Merge(r, Padded(t, n)) ELSE r, t, n)
<1>0. Len(t.speech) \in Nat /\ Pad \in Nat
  BY TrimBounds DEF IsTape
<1>1. BeginBy(r, Before(n)) /\ Before(n) \in Nat
  <2>1. \A k \in 1..Len(r) : r[k][1] \in Nat /\ r[k][1] <= Before(n - 1)
    BY DEF TrimInv, BeginBy, Stretches
  <2>2. Before(n) \in Nat /\ Before(n - 1) \in Nat /\ Before(n - 1) <= Before(n)
    BY <1>0 DEF Before
  <2> QED BY <2>1, <2>2 DEF BeginBy
<1>2. \A i \in 1..n : i \in 1..n - 1 \/ i = n
  BY <1>0
<1>3. n \in 1..n /\ \A i \in 1..n - 1 : i \in 1..n
  BY <1>0
<1>4. CASE ~Begins(t, n)
  <2>1. \A q : KeptFor(t, n, q) <=> KeptFor(t, n - 1, q)
    BY <1>2, <1>3, <1>4 DEF KeptFor
  <2> QED BY <1>1, <1>4, <2>1 DEF TrimInv
<1>5. CASE Begins(t, n)
  <2>1. PICK x : x = Padded(t, n)
    OBVIOUS
  <2>2. x \in Stretches /\ x[1] = Before(n) /\ x[1] < x[2]
    BY <1>5, <2>1, PaddedIs
  <2>3. r \in Seq(Stretches) /\ Apart(r) /\ BeginBy(r, x[1])
    BY <1>1, <2>2 DEF TrimInv
  <2>4. /\ Merge(r, x) \in Seq(Stretches) /\ Apart(Merge(r, x)) /\ BeginBy(Merge(r, x), x[1])
        /\ \A q \in Nat : Covers(Merge(r, x), q) <=> Covers(r, q) \/ Within(x, q)
    BY <2>2, <2>3, MergeIs
  <2>5. \A q : KeptFor(t, n, q) <=> KeptFor(t, n - 1, q) \/ Within(x, q)
    BY <1>2, <1>3, <1>5, <2>1 DEF KeptFor
  <2>6. TrimInv(Merge(r, x), t, n)
    BY <2>2, <2>4, <2>5 DEF TrimInv
  <2> QED BY <1>5, <2>1, <2>6
<1> QED BY <1>4, <1>5

\* The stretches of a tape, after all of its blocks.
LEMMA RangesAre == ASSUME NEW t, IsTape(t) PROVE TrimInv(Ranges(t), t, Len(t.speech))
<1> DEFINE n == Len(t.speech)
           Joined(r, i) == IF Begins(t, i) THEN Merge(r, Padded(t, i)) ELSE r
           A == Seq(Stretches)
           step == [p \in A \X (1..n) |-> IF TrimInv(p[1], t, p[2] - 1)
                                          THEN Joined(p[1], p[2]) ELSE <<>>]
           Rule(h) == [i \in 0..n |-> IF i = 0 THEN <<>>
                                      ELSE IF Begins(t, i) THEN Merge(h[i - 1], Padded(t, i)) ELSE h[i - 1]]
           all == CHOOSE h : h = Rule(h)
<1>0. n \in Nat
  BY DEF IsTape
<1>1. <<>> \in A
  OBVIOUS
<1>2. ASSUME NEW r, NEW i \in 1..n, TrimInv(r, t, i - 1) PROVE TrimInv(Joined(r, i), t, i)
  BY <1>2, TrimStep
<1>3. TrimInv(<<>>, t, 0)
  BY DEF TrimInv, Apart, BeginBy, Covers, KeptFor
<1>4. /\ step \in [A \X (1..n) -> A]
      /\ \A r \in A, i \in 1..n : TrimInv(r, t, i - 1) => step[<<r, i>>] = Joined(r, i)
  <2>1. ASSUME NEW r, NEW i \in 1..n, TrimInv(r, t, i - 1) PROVE Joined(r, i) \in A
    <3>1. TrimInv(Joined(r, i), t, i)
      BY <1>2, <2>1
    <3> HIDE DEF Joined
    <3> QED BY <3>1 DEF TrimInv
  <2> HIDE DEF Joined, A, n
  <2>2. ASSUME NEW p \in A \X (1..n) PROVE step[p] \in A
    BY <1>1, <2>1, <2>2
  <2>3. step \in [A \X (1..n) -> A]
    BY <2>2
  <2>4. ASSUME NEW r \in A, NEW i \in 1..n, TrimInv(r, t, i - 1) PROVE step[<<r, i>>] = Joined(r, i)
    <3>1. <<r, i>> \in A \X (1..n)
      OBVIOUS
    <3> QED BY <2>4, <3>1
  <2> QED BY <2>3, <2>4
<1> HIDE DEF step, A
<1>5. PICK g : Iterates(g, n, A, <<>>, step)
  <2> HIDE DEF n
  <2> QED BY ONLY <1>0, <1>1, <1>4, IterationExists
<1> DEFINE T == {i \in 0..n : TrimInv(g[i], t, i)}
<1>6. 0 \in T /\ \A i \in 1..n : i - 1 \in T => i \in T /\ g[i] = Joined(g[i - 1], i)
  <2>1. 0 \in T
    BY <1>0, <1>3, <1>5 DEF Iterates
  <2>2. ASSUME NEW i \in 1..n, i - 1 \in T PROVE i \in T /\ g[i] = Joined(g[i - 1], i)
    <3>1. TrimInv(g[i - 1], t, i - 1) /\ i \in 0..n
      BY <1>0, <2>2
    <3>2. g[i] = step[<<g[i - 1], i>>] /\ g[i - 1] \in A
      <4>1. i - 1 \in 0..n
        BY <2>2
      <4> QED BY <4>1, <1>5 DEF Iterates
    <3> HIDE DEF Joined
    <3>3. g[i] = Joined(g[i - 1], i)
      BY <1>4, <3>1, <3>2
    <3> QED BY <1>2, <3>1, <3>3
  <2> QED BY <2>1, <2>2
<1>7. 0..n \subseteq T
  <2> HIDE DEF T, n, Joined
  <2> QED BY ONLY <1>0, <1>6, InductionUpTo
<1>8. \A i \in 1..n : g[i] = Joined(g[i - 1], i)
  <2>1. \A i \in 1..n : i - 1 \in 0..n
    BY <1>0
  <2> HIDE DEF T, Joined
  <2> QED BY <1>6, <1>7, <2>1
<1>9. g = Rule(g)
  <2>1. \A i \in 0..n : i = 0 \/ i \in 1..n
    BY <1>0
  <2>2. g = [i \in 0..n |-> g[i]] /\ g[0] = <<>>
    BY <1>5 DEF Iterates
  <2> HIDE DEF n
  <2> QED BY <1>8, <2>1, <2>2
<1>10. all = Rule(all)
  <2> HIDE DEF Rule
  <2> QED BY <1>9, Zenon
<1>11. all[0] = <<>> /\ \A i \in 1..n : all[i] = Joined(all[i - 1], i)
  <2>1. 0 \in 0..n /\ \A i \in 1..n : i \in 0..n /\ i # 0
    BY <1>0
  <2> QED BY <1>10, <2>1, Zenon
<1>12. Ranges(t) = all[n]
  BY DEF Ranges
<1> HIDE DEF all, Rule
<1> DEFINE U == {i \in 0..n : TrimInv(all[i], t, i)}
<1>13. 0 \in U /\ \A i \in 1..n : i - 1 \in U => i \in U
  <2>1. 0 \in U
    BY <1>0, <1>3, <1>11
  <2>2. ASSUME NEW i \in 1..n, i - 1 \in U PROVE i \in U
    <3>1. TrimInv(all[i - 1], t, i - 1) /\ i \in 0..n
      BY <1>0, <2>2
    <3>2. all[i] = Joined(all[i - 1], i)
      BY <1>11
    <3> HIDE DEF Joined
    <3> QED BY <1>2, <3>1, <3>2
  <2> QED BY <2>1, <2>2
<1>14. 0..n \subseteq U
  <2> HIDE DEF U, n
  <2> QED BY ONLY <1>0, <1>13, InductionUpTo
<1> QED BY <1>0, <1>12, <1>14

\* A block is kept exactly when speech is near.
LEMMA KeptIsNear ==
  ASSUME NEW t, IsTape(t), NEW q \in 0..Len(t.speech) - 1
  PROVE  KeptFor(t, Len(t.speech), q) <=>
           \E b \in 1..Len(t.speech) : t.speech[b] /\ b - 1 <= q + Pad /\ q <= b - 1 + Pad
<1> DEFINE n == Len(t.speech)
           Near(b) == t.speech[b] /\ b - 1 <= q + Pad /\ q <= b - 1 + Pad
<1>0. n \in Nat /\ Pad \in Nat /\ q \in Nat /\ q < n
  BY TrimBounds DEF IsTape
<1>1. ASSUME NEW i \in 1..n, Begins(t, i), Within(Padded(t, i), q) PROVE \E b \in 1..n : Near(b)
  <2>1. PICK e \in i..n : e = EndOf(t, i) /\ \A k \in i..e : t.speech[k]
    BY <1>1, EndIs DEF Begins
  <2>2. Before(i) <= q /\ q < Least(e + Pad, n)
    BY <1>1, <2>1, PaddedIs DEF Within
  <2>3. CASE q < i - 1
    <3>1. t.speech[i] /\ i - 1 <= q + Pad /\ q <= i - 1 + Pad
      BY <1>0, <1>1, <2>2, <2>3 DEF Before, Begins
    <3> QED BY <3>1
  <2>4. CASE i - 1 <= q /\ q < e
    <3>1. q + 1 \in i..e /\ q + 1 \in 1..n
      BY <1>0, <2>4
    <3>2. t.speech[q + 1]
      BY <2>1, <3>1
    <3>3. Near(q + 1)
      BY <1>0, <3>2
    <3> HIDE DEF Near
    <3> QED BY <3>1, <3>3
  <2>5. CASE e <= q
    <3>1. q <= e - 1 + Pad /\ e - 1 <= q + Pad
      BY <1>0, <2>2, <2>5 DEF Least
    <3>2. e \in i..e /\ e \in 1..n
      BY <1>0
    <3> QED BY <2>1, <3>1, <3>2
  <2> QED BY <1>0, <2>3, <2>4, <2>5
<1>2. ASSUME NEW b \in 1..n, Near(b) PROVE \E i \in 1..n : Begins(t, i) /\ Within(Padded(t, i), q)
  <2>1. PICK i \in 1..b : Begins(t, i) /\ \A k \in i..b : t.speech[k]
    BY <1>2, BeginIs
  <2>6. i \in 1..n /\ t.speech[i]
    BY <1>0, <2>1 DEF Begins
  <2>2. PICK e \in i..n : e = EndOf(t, i) /\ (e = n \/ ~t.speech[e + 1])
    BY <2>6, EndIs
  <2>3. b <= e
    <3>1. CASE e < b
      <4>1. e + 1 \in i..b /\ e # n
        BY <1>0, <3>1
      <4> QED BY <2>1, <2>2, <4>1
    <3> QED BY <1>0, <3>1
  <2>4. Before(i) <= q /\ q < Least(e + Pad, n)
    BY <1>0, <1>2, <2>3 DEF Before, Least
  <2>5. Within(Padded(t, i), q) /\ i \in 1..n
    BY <1>0, <2>1, <2>2, <2>4, PaddedIs DEF Within
  <2> QED BY <2>1, <2>5
<1> QED BY <1>1, <1>2 DEF KeptFor
LEMMA Scaled ==
  ASSUME NEW x \in Nat, NEW y \in Nat, x < y
  PROVE  x * Block \in Nat /\ y * Block \in Nat /\ x * Block < y * Block
<1>1. Block \in Nat /\ Block > 0
  BY TrimBounds
<1>2. PICK d \in Nat : y = x + d /\ d >= 1
  <2>1. y - x \in Nat /\ y = x + (y - x) /\ y - x >= 1
    OBVIOUS
  <2> QED BY <2>1
<1>3. x * Block \in Nat /\ y * Block \in Nat /\ d * Block \in Nat
  BY <1>1
<1>4. y * Block = x * Block + d * Block
  BY <1>1, <1>2
<1>5. d * Block >= Block
  BY <1>1, <1>2
<1> QED BY <1>1, <1>3, <1>4, <1>5

LEMMA BlockOf ==
  ASSUME NEW n \in Nat, NEW m \in Nat
  PROVE  LET q == n \div Block IN /\ q \in Nat /\ (m * Block <= n <=> m <= q)
<1> DEFINE q == n \div Block
<1>1. Block \in Nat /\ Block > 0
  BY TrimBounds
<1>2. q \in Nat /\ q * Block <= n /\ n < (q + 1) * Block
  BY <1>1
<1> HIDE DEF q
<1>3. m <= q => m * Block <= q * Block
  BY <1>1, <1>2
<1>4. q + 1 <= m => (q + 1) * Block <= m * Block
  BY <1>1, <1>2
<1>5. m * Block \in Nat /\ q * Block \in Nat /\ (q + 1) * Block \in Nat
  BY <1>1, <1>2
<1>6. PICK x \in Nat, y \in Nat, z \in Nat : x = m * Block /\ y = q * Block /\ z = (q + 1) * Block
  BY <1>5
<1>7. y <= n /\ n < z /\ (m <= q => x <= y) /\ (q + 1 <= m => z <= x)
  BY <1>2, <1>3, <1>4, <1>6
<1>8. m <= q \/ q + 1 <= m
  BY <1>2
<1>9. x <= n <=> m <= q
  BY <1>2, <1>7, <1>8
<1> QED BY <1>2, <1>6, <1>9 DEF q

\* What is kept of a tape, of any length, is its speech with what is around it,
\* once and in order, whatever the detector says of its blocks.
THEOREM SilenceIsCut == IsTape(tape) => TrimKeepsSpeech
<1> SUFFICES ASSUME IsTape(tape) PROVE TrimKeepsSpeech
  OBVIOUS
<1> DEFINE n == Len(tape.speech)
           kept == Kept(tape)
<1>1. PICK r \in Seq(Stretches) : r = Ranges(tape) /\ TrimInv(r, tape, n)
  BY RangesAre DEF TrimInv
<1>2. Block \in Nat /\ Block > 0 /\ n \in Nat /\ tape.samples \in Nat /\ tape.samples <= n * Block
  BY TrimBounds DEF IsTape
<1>3. /\ DOMAIN kept = 1..Len(r) /\ Len(kept) = Len(r) /\ Len(r) \in Nat
      /\ \A k \in 1..Len(r) : kept[k] = <<r[k][1] * Block, Least(r[k][2] * Block, tape.samples)>>
  BY <1>1 DEF Kept
<1>4. \A k \in 1..Len(r) : r[k][1] \in Nat /\ r[k][2] \in Nat
  BY DEF Stretches
<1> HIDE DEF kept
<1>5. ASSUME NEW m \in 0..tape.samples - 1
      PROVE  (\E k \in DOMAIN kept : kept[k][1] <= m /\ m < kept[k][2])
             <=> \E b \in DOMAIN tape.speech : /\ tape.speech[b]
                                               /\ b - 1 <= m \div Block + Pad
                                               /\ m \div Block <= b - 1 + Pad
  <2> DEFINE q == m \div Block
  <2>1. m \in Nat /\ m < tape.samples
    BY <1>2
  <2>2. q \in Nat /\ \A i \in Nat : i * Block <= m <=> i <= q
    BY <2>1, BlockOf
  <2> HIDE DEF q
  <2>3. q < n
    <3>1. n * Block \in Nat /\ ~(n * Block <= m)
      BY <1>2, <2>1
    <3> QED BY <1>2, <2>2, <3>1
  <2>4. ASSUME NEW k \in 1..Len(r) PROVE (kept[k][1] <= m /\ m < kept[k][2]) <=> Within(r[k], q)
    <3>1. kept[k][1] = r[k][1] * Block /\ kept[k][2] = Least(r[k][2] * Block, tape.samples)
      BY <1>3
    <3>2. r[k][1] * Block <= m <=> r[k][1] <= q
      BY <1>4, <2>2
    <3>3. r[k][2] * Block <= m <=> r[k][2] <= q
      BY <1>4, <2>2
    <3>4. r[k][2] * Block \in Nat /\ r[k][2] \in Nat
      BY <1>2, <1>4
    <3>5. m < Least(r[k][2] * Block, tape.samples) <=> q < r[k][2]
      BY <1>2, <2>1, <2>2, <3>3, <3>4 DEF Least
    <3> QED BY <3>1, <3>2, <3>5 DEF Within
  <2>5. (\E k \in DOMAIN kept : kept[k][1] <= m /\ m < kept[k][2]) <=> KeptFor(tape, n, q)
    <3>1. (\E k \in DOMAIN kept : kept[k][1] <= m /\ m < kept[k][2]) <=> Covers(r, q)
      BY <1>3, <2>4 DEF Covers
    <3> QED BY <1>1, <2>2, <3>1 DEF TrimInv
  <2>6. q \in 0..n - 1
    BY <1>2, <2>2, <2>3
  <2>7. KeptFor(tape, n, q) <=>
           \E b \in 1..n : tape.speech[b] /\ b - 1 <= q + Pad /\ q <= b - 1 + Pad
    BY <2>6, KeptIsNear
  <2>8. DOMAIN tape.speech = 1..n
    BY DEF IsTape
  <2> QED BY <2>5, <2>7, <2>8 DEF q
<1>6. ASSUME NEW k \in 2..Len(kept) PROVE kept[k - 1][2] < kept[k][1]
  <2>1. k \in 1..Len(r) /\ k - 1 \in 1..Len(r) /\ k \in 2..Len(r)
    BY <1>3
  <2>2. r[k - 1][2] < r[k][1]
    BY <1>1, <2>1 DEF TrimInv, Apart
  <2>3. PICK x \in Nat, y \in Nat : x = r[k - 1][2] /\ y = r[k][1]
    BY <1>4, <2>1
  <2>4. x < y
    BY <2>2, <2>3
  <2>5. x * Block \in Nat /\ y * Block \in Nat /\ x * Block < y * Block
    BY ONLY <2>4, x \in Nat, y \in Nat, Scaled
  <2>7. kept[k - 1][2] = Least(x * Block, tape.samples) /\ kept[k][1] = y * Block
    BY <1>3, <2>1, <2>3
  <2>8. PICK a \in Nat, b \in Nat : a = x * Block /\ b = y * Block
    BY <2>5
  <2>9. Least(a, tape.samples) <= a
    BY <1>2, <2>8 DEF Least
  <2> HIDE DEF kept
  <2> QED BY ONLY <1>2, <2>5, <2>7, <2>8, <2>9 DEF Least
<1> QED BY <1>5, <1>6 DEF TrimKeepsSpeech, kept
================================================================================
