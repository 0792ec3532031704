------------------------------ MODULE SilenceTrim ------------------------------
(***************************************************************************)
(* The cutting of silence out of a recording: the blocks with speech, with *)
(* some blocks around them, joined where they meet, are what is kept       *)
(* (trim_silence in crates/talksage-audio/src/silence_trim.rs).  A tape is *)
(* the number of its samples and, for each block, whether the detector     *)
(* found speech in it; the last block may be short.                        *)
(***************************************************************************)
EXTENDS Naturals, Sequences

CONSTANTS
  Pad,                  \* blocks kept before and after speech
  Block                 \* samples of a block

ASSUME TrimBounds == Pad \in Nat /\ Block \in Nat \ {0}

VARIABLE tape

\* The last block has what is left of the samples, and is never empty.
IsTape(t) ==
  /\ t.speech \in Seq(BOOLEAN) /\ t.samples \in Nat
  /\ t.samples <= Len(t.speech) * Block /\ Len(t.speech) * Block < t.samples + Block

Least(m, n) == IF m < n THEN m ELSE n

\* Whether speech begins at block i, and where it ends, counted from 0.
Begins(t, i) == t.speech[i] /\ (i = 1 \/ ~t.speech[i - 1])
EndOf(t, i) == CHOOSE j \in i..Len(t.speech) :
                 /\ \A k \in i..j : t.speech[k]
                 /\ j = Len(t.speech) \/ ~t.speech[j + 1]

\* Speech from block i on, with what is kept around it.
Padded(t, i) == <<IF i - 1 > Pad THEN i - 1 - Pad ELSE 0,
                  Least(EndOf(t, i) + Pad, Len(t.speech))>>

\* Mutant: stretches that only touch or overlap stay two.
MergeNever(ranges, next) == Append(ranges, next)

\* A stretch that meets the last one, or touches it, goes on with it.
Merge(ranges, next) ==
  IF ranges # <<>> /\ next[1] <= ranges[Len(ranges)][2]
  THEN [ranges EXCEPT ![Len(ranges)] = <<@[1], IF next[2] > @[2] THEN next[2] ELSE @[2]>>]
  ELSE Append(ranges, next)

Ranges(t) ==
  LET ranges[n \in 0..Len(t.speech)] ==
        IF n = 0 THEN <<>>
        ELSE IF Begins(t, n) THEN Merge(ranges[n - 1], Padded(t, n)) ELSE ranges[n - 1]
  IN ranges[Len(t.speech)]

\* The samples of each stretch, from the first to before the last.
Kept(t) == LET r == Ranges(t) IN
  [k \in DOMAIN r |-> <<r[k][1] * Block, Least(r[k][2] * Block, t.samples)>>]

\* What is kept of a tape is its speech: a sample is kept exactly when its block
\* is within Pad blocks of one with speech, it is kept once, and the stretches are
\* in the order of the tape with silence between any two (silence_trim.rs:96-140).
TrimKeepsSpeech ==
  /\ \A n \in 0..tape.samples - 1 :
       (\E k \in DOMAIN Kept(tape) : Kept(tape)[k][1] <= n /\ n < Kept(tape)[k][2])
       <=> \E b \in DOMAIN tape.speech : /\ tape.speech[b]
                                         /\ b - 1 <= n \div Block + Pad
                                         /\ n \div Block <= b - 1 + Pad
  /\ \A k \in 2..Len(Kept(tape)) : Kept(tape)[k - 1][2] < Kept(tape)[k][1]
================================================================================
