---------------------------- MODULE TranscriptProofs ---------------------------
(***************************************************************************)
(* Proofs about what is heard, by whom, and how it is shown.               *)
(*                                                                         *)
(* Voiceprint: for any number of takes, of any length, the owner that is   *)
(* recognised is the owner that was enrolled.  The argument: what a file   *)
(* holds is a take that was saved, nothing, or what is left of a write,    *)
(* which is not loaded; and while one take alone is being written and      *)
(* nothing was removed under it, it has the file of that name open.        *)
(*                                                                         *)
(* Finals: for any texts, voices and streams, what both streams hear is    *)
(* shown once, the registry knows who was heard, and the observers see     *)
(* what is shown.  The argument: the history of the filter is the end of   *)
(* what was shown, whatever the parts of a segment do to it (a recursive   *)
(* function, followed part by part: PartKeeps); what is shown is in the    *)
(* order of the segments and of each stream's clock; and a voice that was  *)
(* given a number still has it, as a candidate or as a client              *)
(* (StartedInv).                                                           *)
(*                                                                         *)
(* TranscriptFeed: for any number of speakers and events and any buffer, a *)
(* page that missed nothing shows what the state says, and keeps what it   *)
(* has shown as final.  The argument: the state, the snapshot and the page *)
(* each tell the same events (StateInv, SnapshotTells, PageInv), the page  *)
(* those up to its position, and perhaps the one there, which comes again  *)
(* then (AgainTells); the fold of the snapshot is followed event by event  *)
(* (SnapshotLists); an open line is the last of its speaker.               *)
(***************************************************************************)
EXTENDS Finals, Voiceprint, TranscriptFeed, DataLemmas, SequenceTheorems, TLAPS

\* Some blocks in a row of a recording have the sound that the recording has there.
LEMMA SoundInPart ==
  ASSUME NEW s \in Seq(Levels), NEW a \in Nat \ {0}, NEW b \in 0..Len(s)
  PROVE  /\ SubSeq(s, a, b) \in Seq(Levels)
         /\ IsFiniteSet(Sound(SubSeq(s, a, b)))
         /\ Cardinality(Sound(SubSeq(s, a, b))) = Cardinality(Sound(s) \cap (a..b))
<1> DEFINE p == SubSeq(s, a, b)
           T == Sound(s) \cap (a..b)
           f == [i \in T |-> i - a + 1]
<1>0. Len(s) \in Nat /\ b \in Nat /\ a \in Nat /\ a >= 1 /\ b <= Len(s)
  BY LenProperties
<1>1. /\ p \in Seq(Levels) /\ Len(p) = IF a <= b THEN b - a + 1 ELSE 0
      /\ \A i \in 1..(b - a + 1) : p[i] = s[a + i - 1]
  <2>1. \A i \in a..b : s[i] \in Levels
    BY <1>0, ElementOfSeq
  <2> QED BY <1>0, <2>1, SubSeqProperties
<1> HIDE DEF p
<1>2. /\ \A i : i \in Sound(p) <=> i \in 1..Len(p) /\ p[i] >= Floor
      /\ \A i : i \in Sound(s) <=> i \in 1..Len(s) /\ s[i] >= Floor
  <2>1. DOMAIN p = 1..Len(p) /\ DOMAIN s = 1..Len(s)
    BY <1>1, LenProperties
  <2> QED BY <2>1, Zenon DEF Sound
<1>3. \A j \in a..b : j \in Sound(s) <=> j - a + 1 \in Sound(p)
  <2> SUFFICES ASSUME NEW j \in a..b PROVE j \in Sound(s) <=> j - a + 1 \in Sound(p)
    OBVIOUS
  <2>1. j \in 1..Len(s) /\ j - a + 1 \in 1..Len(p) /\ j - a + 1 \in 1..(b - a + 1)
    BY <1>0, <1>1
  <2>2. p[j - a + 1] = s[j]
    <3>1. a + (j - a + 1) - 1 = j
      BY <1>0
    <3> QED BY <1>1, <2>1, <3>1
  <2> QED BY <1>2, <2>1, <2>2, Zenon
<1>4. f \in Bijection(T, Sound(p))
  <2>1. \A j \in T : f[j] = j - a + 1 /\ f[j] \in Sound(p) /\ j \in Nat
    BY <1>0, <1>3
  <2>2. \A i \in Sound(p) : \E j \in T : f[j] = i
    <3> SUFFICES ASSUME NEW i \in Sound(p) PROVE \E j \in T : f[j] = i
      OBVIOUS
    <3>1. i \in 1..Len(p)
      BY <1>2, Zenon
    <3>2. i + a - 1 \in a..b /\ (i + a - 1) - a + 1 = i
      BY <1>0, <1>1, <3>1
    <3>3. i + a - 1 \in T
      BY <1>3, <3>2
    <3> QED BY <2>1, <3>2, <3>3
  <2>3. f \in [T -> Sound(p)]
    BY <2>1
  <2>4. \A i, j \in T : f[i] = f[j] => i = j
    BY <1>0, <2>1
  <2> HIDE DEF f, T
  <2> QED BY <2>2, <2>3, <2>4 DEF Bijection, Injection, Surjection, IsInjective
<1>5. IsFiniteSet(T)
  <2>1. IsFiniteSet(1..Len(s))
    BY <1>0, CardinalityOfFirst
  <2>2. T \subseteq 1..Len(s)
    BY <1>2
  <2> QED BY <2>1, <2>2, FS_Subset
<1> HIDE DEF f
<1>6. IsFiniteSet(Sound(p)) /\ Cardinality(Sound(p)) = Cardinality(T)
  <2> HIDE DEF T
  <2> QED BY <1>4, <1>5, FS_Bijection DEF ExistsBijection
<1> QED BY <1>1, <1>6 DEF p

\* A recording that is not empty when it has been prepared has a second of voice by
\* its own measure, which is never more than what there is of sound; and nothing is
\* prepared but what was recorded.
LEMMA PreparedIs ==
  ASSUME NEW s \in Seq(Levels)
  PROVE  /\ Prepared(s) \in Seq(Levels)
         /\ IsFiniteSet(Sound(s)) /\ IsFiniteSet(Sound(Prepared(s)))
         /\ Cardinality(Sound(Prepared(s))) <= Cardinality(Sound(s))
         /\ Prepared(s) # <<>> => /\ Cardinality(Voiced(s)) >= Second
                                 /\ Cardinality(Sound(s)) >= Second
<1> DEFINE V == Voiced(s)
           cropped == SubSeq(s, Min(V), Max(V))
<1>1. V \subseteq Sound(s) /\ Sound(s) \subseteq 1..Len(s) /\ Len(s) \in Nat
  BY LenProperties, Zenon DEF Voiced, Sound
<1>2. IsFiniteSet(Sound(s)) /\ IsFiniteSet(V)
  BY <1>1, CardinalityOfFirst, FS_Subset
<1>3. Prepared(s) = IF Cardinality(V) < Second
                         \/ Cardinality(V) * 100 < Len(cropped) * 35
                    THEN <<>> ELSE cropped
  BY DEF Prepared
<1>4. /\ Cardinality(V) \in Nat /\ Cardinality(Sound(s)) \in Nat /\ Second \in Nat \ {0}
      /\ Cardinality(V) <= Cardinality(Sound(s))
  BY <1>1, <1>2, FS_CardinalityType, FS_Subset, VoiceprintAssumption
<1>5. CASE Prepared(s) = <<>>
  <2>1. Sound(<<>>) = {}
    <3>1. DOMAIN <<>> = {}
      OBVIOUS
    <3> QED BY <3>1, Zenon DEF Sound
  <2>2. <<>> \in Seq(Levels) /\ IsFiniteSet({}) /\ Cardinality({}) = 0
    BY FS_EmptySet
  <2>3. 0 <= Cardinality(Sound(s))
    BY <1>4
  <2> QED BY <1>2, <1>5, <2>1, <2>2, <2>3, Zenon
<1>6. CASE Prepared(s) # <<>>
  <2>a. Prepared(s) = cropped /\ ~(Cardinality(V) < Second)
    BY <1>3, <1>6, Zenon
  <2>1. PICK W : W = V
    OBVIOUS
  <2>2. /\ W \subseteq 1..Len(s) /\ IsFiniteSet(W)
        /\ Cardinality(W) \in Nat /\ ~(Cardinality(W) < Second)
        /\ Cardinality(W) <= Cardinality(Sound(s)) /\ Cardinality(Sound(s)) \in Nat
        /\ Prepared(s) = SubSeq(s, Min(W), Max(W))
    BY <1>1, <1>2, <1>4, <2>a, <2>1, Zenon
  <2> HIDE DEF V, cropped
  <2>3. /\ Cardinality(W) >= Second /\ W # {} /\ W \subseteq Nat
        /\ Cardinality(Sound(s)) >= Second
    <3>1. Cardinality({}) = 0
      BY FS_EmptySet
    <3>2. Second \in Nat \ {0}
      BY VoiceprintAssumption
    <3>3. Cardinality(W) >= Second /\ Cardinality(W) # 0 /\ Cardinality(Sound(s)) >= Second
      BY <2>2, <3>2
    <3>4. W \subseteq Nat
      BY <1>1, <2>2
    <3> QED BY <3>1, <3>3, <3>4, Zenon
  <2>4. Min(W) \in W /\ Max(W) \in W
    <3>1. \E x \in W : \A y \in W : x <= y
      BY <2>3, SmallestNumber
    <3>2. \E x \in W : \A y \in W : x >= y
      BY <2>2, <2>3, LargestNumber
    <3> QED BY <3>1, <3>2 DEF Min, Max
  <2>5. Min(W) \in Nat \ {0} /\ Max(W) \in 0..Len(s)
    <3>1. \A i \in W : i \in 1..Len(s)
      BY <2>2
    <3> QED BY <1>1, <2>4, <3>1
  <2>6. /\ Prepared(s) \in Seq(Levels) /\ IsFiniteSet(Sound(Prepared(s)))
        /\ Cardinality(Sound(Prepared(s))) = Cardinality(Sound(s) \cap (Min(W)..Max(W)))
    <3>2. PICK low, high : low = Min(W) /\ high = Max(W)
      OBVIOUS
    <3>3. s \in Seq(Levels) /\ low \in Nat \ {0} /\ high \in 0..Len(s)
      BY <2>5, <3>2
    <3>4. /\ SubSeq(s, low, high) \in Seq(Levels)
          /\ IsFiniteSet(Sound(SubSeq(s, low, high)))
          /\ Cardinality(Sound(SubSeq(s, low, high))) = Cardinality(Sound(s) \cap (low..high))
      BY ONLY <3>3, SoundInPart
    <3> QED BY <2>2, <3>2, <3>4, Zenon
  <2>7. Cardinality(Sound(s) \cap (Min(W)..Max(W))) <= Cardinality(Sound(s))
    BY <1>2, FS_Subset
  <2> QED BY <1>2, <2>1, <2>3, <2>6, <2>7 DEF V
<1> QED BY <1>5, <1>6

\* A profile is made of a take that has a second of voice by its own measure, and two
\* seconds of sound, since each of two windows has a second by a measure of its own
\* (speaker.rs:30-63, 196-236).
LEMMA ProfilesHaveVoice == ProfilesAreOfVoice
<1> SUFFICES ASSUME NEW audio \in Recordings, EnrollmentProfile(audio)
             PROVE  /\ Cardinality(Voiced(audio)) >= Second
                    /\ Cardinality(Sound(audio)) >= 2 * Second
  BY DEF ProfilesAreOfVoice
<1>1. audio \in Seq(Levels)
  BY DEF Recordings
<1> DEFINE p == Prepared(audio)
           width == Width(p)
           last(k) == Min({k * width, Len(p)})
           window(k) == Window(p, k)
           good == Averaged(p)
<1>2. Cardinality(good) >= 2
  BY DEF EnrollmentProfile
<1>3. p \in Seq(Levels) /\ IsFiniteSet(Sound(p)) /\ Len(p) \in Nat /\ Second \in Nat \ {0}
  BY <1>1, PreparedIs, LenProperties, VoiceprintAssumption
<1>4. width \in Nat \ {0}
  <2>1. \A a, b \in Nat : Max({a, b}) = IF a >= b THEN a ELSE b
    BY DEF Max
  <2>2. Len(p) \div 3 \in Nat
    BY <1>3
  <2> QED BY <1>3, <2>1, <2>2 DEF Width
<1>5. \A k \in 1..3 : /\ last(k) \in 0..Len(p) /\ last(k) <= k * width
                      /\ (k - 1) * width + 1 \in Nat \ {0}
  <2>1. \A a, b \in Nat : Min({a, b}) \in {a, b} /\ Min({a, b}) <= a /\ Min({a, b}) <= b
    BY DEF Min
  <2> HIDE DEF width, p
  <2>2. ASSUME NEW k \in 1..3 PROVE k * width \in Nat /\ (k - 1) * width + 1 \in Nat \ {0}
    <3>1. CASE k = 1
      BY <1>4, <3>1
    <3>2. CASE k = 2
      BY <1>4, <3>2
    <3>3. CASE k = 3
      BY <1>4, <3>3
    <3> QED BY <3>1, <3>2, <3>3
  <2> SUFFICES ASSUME NEW k \in 1..3
               PROVE  /\ last(k) \in 0..Len(p) /\ last(k) <= k * width
                      /\ (k - 1) * width + 1 \in Nat \ {0}
    OBVIOUS
  <2> DEFINE a == k * width
             b == Len(p)
  <2>3. a \in Nat /\ b \in Nat /\ last(k) = Min({a, b})
    BY <1>3, <2>2
  <2>4. Min({a, b}) \in {a, b} /\ Min({a, b}) <= a /\ Min({a, b}) <= b
    BY <2>1, <2>3, Zenon
  <2> HIDE DEF last, a, b
  <2>5. last(k) \in 0..b /\ last(k) <= a
    BY <2>3, <2>4
  <2> QED BY <2>2, <2>5 DEF a, b
<1> DEFINE part(k) == Sound(p) \cap (((k - 1) * width + 1)..last(k))
<1>6. ASSUME NEW k \in good PROVE IsFiniteSet(part(k)) /\ Cardinality(part(k)) >= Second
  <2> HIDE DEF width, p, last
  <2>0. k \in 1..3 /\ window(k) = SubSeq(p, (k - 1) * width + 1, last(k))
    BY DEF Window, Averaged, width, last
  <2>1. window(k) \in Seq(Levels) /\ Cardinality(Sound(window(k))) = Cardinality(part(k))
    BY <1>3, <1>5, <2>0, SoundInPart
  <2>2. Prepared(window(k)) # <<>>
    BY DEF Averaged
  <2> HIDE DEF window
  <2>3. Cardinality(Sound(window(k))) >= Second
    BY <2>1, <2>2, PreparedIs
  <2>4. IsFiniteSet(part(k))
    BY <1>3, FS_Subset
  <2> QED BY <2>1, <2>3, <2>4
<1>7. PICK j \in good, k \in good : j < k
  <2> HIDE DEF window
  <2>1. good \subseteq 1..3
    BY DEF Averaged
  <2> HIDE DEF good
  <2>2. ASSUME NEW j \in good, good = {j} PROVE FALSE
    <3>1. Cardinality({j}) = 1
      BY FS_Singleton
    <3> QED BY <1>2, <2>2, <3>1
  <2>3. good # {}
    BY <1>2, FS_EmptySet
  <2>4. PICK j \in good : TRUE
    BY <2>3
  <2>5. PICK k \in good : k # j
    BY <2>2
  <2> QED BY <2>1, <2>4, <2>5
<1>8. part(j) \cap part(k) = {}
  <2>0. j \in 1..3 /\ k \in 1..3
    BY <1>7 DEF Averaged
  <2> HIDE DEF width, last, p, window, good
  <2>1. j \in 1..3 /\ k \in 1..3 /\ last(j) <= j * width /\ j <= k - 1
    BY <1>5, <1>7, <2>0
  <2>2. j * width <= (k - 1) * width
    BY <1>4, <2>1
  <2>3. last(j) \in Nat /\ j * width \in Nat /\ (k - 1) * width \in Nat
    BY <1>3, <1>4, <1>5, <2>1
  <2>4. \A i : ~(i <= last(j) /\ i >= (k - 1) * width + 1 /\ i \in Int)
    BY <2>1, <2>2, <2>3
  <2> QED BY <2>4
<1>9. /\ IsFiniteSet(part(j)) /\ Cardinality(part(j)) >= Second
      /\ IsFiniteSet(part(k)) /\ Cardinality(part(k)) >= Second
  BY <1>6, <1>7
<1>10. part(j) \cup part(k) \subseteq Sound(p)
  OBVIOUS
<1>11. Cardinality(Sound(p)) <= Cardinality(Sound(audio)) /\ IsFiniteSet(Sound(audio))
  BY <1>1, PreparedIs
<1> DEFINE A == part(j)
           B == part(k)
<1> HIDE DEF A, B, part, p
<1>12. Cardinality(A \cup B) = Cardinality(A) + Cardinality(B)
  <2>1. Cardinality(A \cup B) = Cardinality(A) + Cardinality(B) - Cardinality(A \cap B)
    BY <1>9, FS_Union DEF A, B
  <2>2. Cardinality(A \cap B) = 0
    BY <1>8, FS_EmptySet DEF A, B
  <2>3. Cardinality(A) \in Nat /\ Cardinality(B) \in Nat
    BY <1>9, FS_CardinalityType DEF A, B
  <2> QED BY <2>1, <2>2, <2>3
<1>13. Cardinality(A \cup B) <= Cardinality(Sound(p))
  BY <1>3, <1>10, FS_Subset DEF A, B
<1>14. /\ Cardinality(A) \in Nat /\ Cardinality(B) \in Nat
       /\ Cardinality(Sound(p)) \in Nat /\ Cardinality(Sound(audio)) \in Nat
  BY <1>3, <1>9, <1>11, FS_CardinalityType DEF A, B
<1>15. Cardinality(A) >= Second /\ Cardinality(B) >= Second
  BY <1>9 DEF A, B
<1>16. Cardinality(Sound(audio)) >= 2 * Second
  BY <1>3, <1>11, <1>12, <1>13, <1>14, <1>15
<1>17. Cardinality(Voiced(audio)) >= Second
  <2>1. Sound(<<>>) = {}
    <3>1. DOMAIN <<>> = {}
      OBVIOUS
    <3> QED BY <3>1, Zenon DEF Sound
  <2>2. Sound(p) # {}
    BY <1>3, <1>12, <1>13, <1>14, <1>15, FS_EmptySet
  <2>3. p # <<>>
    BY <2>1, <2>2
  <2> QED BY <1>1, <2>3, PreparedIs DEF p
<1> QED BY <1>16, <1>17
--------------------------------------------------------------------------------
\* What a file holds of a take that was saved, and which take has the file open.
ContentInv == \A f \in 1..Len(content) : content[f] \in Takes => take[content[f]] = "saved"

KeptInv ==
  ~spoiled =>
    /\ Open = {} => Load = latest /\ (file # 0 <=> latest # Nobody)
    /\ \A t \in Open : /\ Open = {t} /\ into[t] = file
                       /\ file # 0 /\ content[file] = "empty"

VoiceInv == VoiceTypeOK /\ ContentInv /\ OwnerIsWhole /\ KeptInv

LEMMA VoiceInitInv == VoiceInit => VoiceInv
<1> SUFFICES ASSUME VoiceInit PROVE VoiceInv
  OBVIOUS
<1>1. content = <<>> /\ Len(content) = 0 /\ content \in Seq(Takes \cup {"empty", "torn"})
  BY DEF VoiceInit
<1>2. VoiceTypeOK
  <2>1. /\ content \in Seq(Takes \cup {"empty", "torn"}) /\ Len(content) <= MaxFiles
        /\ file \in 0..Len(content) /\ 0 \in 0..Len(content)
    BY <1>1, VoiceprintAssumption DEF VoiceInit
  <2>2. into \in [Takes -> 0..Len(content)]
    BY <2>1, Zenon DEF VoiceInit
  <2> QED BY <2>1, <2>2 DEF VoiceInit, VoiceTypeOK
<1>3. Open = {} /\ Load = Nobody
  BY DEF VoiceInit, Open, Load
<1> QED BY <1>1, <1>2, <1>3 DEF VoiceInit, VoiceInv, ContentInv, OwnerIsWhole, KeptInv

\* What a session loads is a take that was saved, or nobody.
LEMMA LoadIsSaved ==
  ASSUME VoiceTypeOK, ContentInv
  PROVE  Load = Nobody \/ (Load \in Takes /\ take[Load] = "saved")
<1>1. CASE file = 0 \/ content[file] \in {"empty", "torn"}
  BY <1>1 DEF Load
<1>2. CASE file # 0 /\ content[file] \notin {"empty", "torn"}
  <2>1. file \in 1..Len(content)
    BY <1>2, LenProperties DEF VoiceTypeOK
  <2>2. content[file] \in Takes \cup {"empty", "torn"}
    BY <2>1, ElementOfSeq DEF VoiceTypeOK
  <2> QED BY <1>2, <2>1, <2>2 DEF Load, ContentInv
<1> QED BY <1>1, <1>2

\* A step of a take that writes nothing, by which none begins or ends to write.
LEMMA QuietStep ==
  ASSUME VoiceInv, VoiceTypeOK', UNCHANGED <<file, content, owner, latest, spoiled>>,
         \A t \in Takes : /\ take'[t] = "writing" <=> take[t] = "writing"
                          /\ take[t] = "saved" => take'[t] = "saved"
                          /\ take[t] = "writing" => into'[t] = into[t]
  PROVE  VoiceInv'
<1>1. Open' = Open /\ Load' = Load
  BY DEF Open, Load
<1>2. ContentInv'
  BY DEF VoiceInv, ContentInv
<1>3. OwnerIsWhole'
  BY DEF VoiceInv, OwnerIsWhole, VoiceTypeOK
<1>4. KeptInv'
  BY <1>1 DEF VoiceInv, KeptInv, Open
<1> QED BY <1>2, <1>3, <1>4 DEF VoiceInv

\* A take begins to write.
LEMMA EmptyStep ==
  ASSUME VoiceInv, NEW t \in Takes, Empty(t)
  PROVE  VoiceInv'
<1> DEFINE Kinds == Takes \cup {"empty", "torn"}
<1>1. /\ take[t] = "judged" /\ take' = [take EXCEPT ![t] = "writing"]
      /\ into' = [into EXCEPT ![t] = file'] /\ spoiled' = (Open # {})
      /\ UNCHANGED <<host, listening, owner, latest, padded>>
  BY DEF Empty
<1>2. /\ content' \in Seq(Kinds) /\ Len(content') <= MaxFiles /\ Len(content') >= Len(content)
      /\ file' \in 1..Len(content') /\ content'[file'] = "empty"
      /\ \A f \in 1..Len(content') : f # file' => f \in 1..Len(content) /\ content'[f] = content[f]
  <2>1. content \in Seq(Kinds) /\ Len(content) \in Nat /\ Len(content) <= MaxFiles
        /\ file \in 0..Len(content)
    BY LenProperties DEF VoiceInv, VoiceTypeOK
  <2>2. "empty" \in Kinds
    OBVIOUS
  <2> HIDE DEF Kinds
  <2>3. CASE file = 0
    <3>1. Len(content) < MaxFiles /\ file' = Len(content) + 1 /\ content' = Append(content, "empty")
      BY <2>3 DEF Empty
    <3>2. /\ content' \in Seq(Kinds) /\ Len(content') = Len(content) + 1
          /\ content'[Len(content) + 1] = "empty"
          /\ \A f \in 1..Len(content) : content'[f] = content[f]
      BY <2>1, <2>2, <3>1, AppendProperties
    <3>3. Len(content) + 1 <= MaxFiles
      BY <2>1, <3>1, VoiceprintAssumption
    <3> QED BY <2>1, <3>1, <3>2, <3>3
  <2>4. CASE file # 0
    <3>1. content' = [content EXCEPT ![file] = "empty"] /\ file' = file /\ file \in 1..Len(content)
      BY <2>1, <2>4 DEF Empty
    <3> QED BY <2>1, <2>2, <3>1, ExceptSeq
  <2> QED BY <2>3, <2>4
<1>3. VoiceTypeOK'
  <2>1. Len(content) \in Nat /\ Len(content') \in Nat
    BY <1>2, LenProperties DEF VoiceInv, VoiceTypeOK
  <2> QED BY <1>1, <1>2, <2>1 DEF VoiceInv, VoiceTypeOK
<1>4. ContentInv'
  BY <1>1, <1>2, VoiceprintAssumption DEF VoiceInv, VoiceTypeOK, ContentInv
<1>5. OwnerIsWhole'
  BY <1>1 DEF VoiceInv, VoiceTypeOK, OwnerIsWhole
<1>6. KeptInv'
  <2>1. Open' = Open \cup {t}
    BY <1>1 DEF Open, VoiceInv, VoiceTypeOK
  <2>2. into'[t] = file' /\ file' # 0
    BY <1>1, <1>2 DEF VoiceInv, VoiceTypeOK
  <2> QED BY <1>1, <1>2, <2>1, <2>2 DEF KeptInv
<1> QED BY <1>3, <1>4, <1>5, <1>6 DEF VoiceInv

\* A take has been written, or not to its end.
LEMMA WriteStep ==
  ASSUME VoiceInv, NEW t \in Takes, Write(t) \/ WriteFails(t)
  PROVE  VoiceInv'
<1> DEFINE Kinds == Takes \cup {"empty", "torn"}
<1>1. PICK what \in {t, "torn"} :
        /\ content' = [content EXCEPT ![into[t]] = what]
        /\ what = t => take' = [take EXCEPT ![t] = "saved"]
        /\ take' \in {[take EXCEPT ![t] = "saved"], [take EXCEPT ![t] = "failed"]}
        /\ ~spoiled' => /\ ~spoiled /\ latest' = t
                        /\ content[into[t]] = "empty" => what = t
  <2>1. CASE Write(t)
    <3>1. PICK what \in {t} \cup (IF content[into[t]] = "empty" THEN {} ELSE {"torn"}) :
            content' = [content EXCEPT ![into[t]] = what]
      BY <2>1 DEF Write
    <3>2. what \in {t, "torn"} /\ (content[into[t]] = "empty" => what = t)
      BY <3>1
    <3> QED BY <2>1, <3>1, <3>2 DEF Write
  <2>2. CASE WriteFails(t)
    <3>1. t # "torn"
      BY VoiceprintAssumption
    <3> QED BY <2>2, <3>1 DEF WriteFails
  <2> QED BY <2>1, <2>2
<1>2. take[t] = "writing" /\ into' = [into EXCEPT ![t] = 0]
      /\ UNCHANGED <<host, file, listening, owner, padded>>
  BY DEF Write, WriteFails
<1>3. content \in Seq(Kinds) /\ Len(content) \in Nat /\ into[t] \in 0..Len(content) /\ what \in Kinds
  BY <1>1, LenProperties DEF VoiceInv, VoiceTypeOK
<1>4. /\ content' \in Seq(Kinds) /\ Len(content') = Len(content)
      /\ \A f \in 1..Len(content) : content'[f] = IF f = into[t] THEN what ELSE content[f]
  <2> HIDE DEF Kinds
  <2>1. CASE into[t] = 0
    <3>1. content' = content
      <4>1. 0 \notin DOMAIN content
        BY <1>3, LenProperties
      <4>2. content = [f \in 1..Len(content) |-> content[f]]
        BY <1>3, LenProperties
      <4> QED BY <1>1, <2>1, <4>1, <4>2
    <3> QED BY <1>3, <2>1, <3>1
  <2>2. CASE into[t] \in 1..Len(content)
    BY <1>1, <1>3, <2>2, ExceptSeq
  <2> QED BY <1>3, <2>1, <2>2
<1>5. VoiceTypeOK'
  <2>1. take' \in [Takes -> {"none", "recording", "judged", "writing", "saved", "failed"}]
    BY <1>1 DEF VoiceInv, VoiceTypeOK
  <2>2. into' \in [Takes -> 0..Len(content')]
    BY <1>2, <1>3, <1>4 DEF VoiceInv, VoiceTypeOK
  <2>3. latest' \in Takes \cup {Nobody} /\ spoiled' \in BOOLEAN
    BY DEF Write, WriteFails, VoiceInv, VoiceTypeOK
  <2> QED BY <1>2, <1>4, <2>1, <2>2, <2>3 DEF VoiceInv, VoiceTypeOK
<1>6. /\ \A u \in Takes : u # t => take'[u] = take[u]
      /\ take'[t] \in {"saved", "failed"} /\ (what = t => take'[t] = "saved")
  BY <1>1 DEF VoiceInv, VoiceTypeOK
<1>7. ContentInv'
  <2> SUFFICES ASSUME NEW f \in 1..Len(content), content'[f] \in Takes
               PROVE  take'[content'[f]] = "saved"
    BY <1>4 DEF ContentInv
  <2>1. CASE f = into[t]
    BY <1>1, <1>4, <1>6, <2>1, VoiceprintAssumption
  <2>2. CASE f # into[t]
    BY <1>2, <1>4, <1>6, <2>2 DEF VoiceInv, ContentInv
  <2> QED BY <2>1, <2>2
<1>8. OwnerIsWhole'
  BY <1>2, <1>6 DEF VoiceInv, OwnerIsWhole, VoiceTypeOK
<1>9. KeptInv'
  <2>1. Open' = Open \ {t} /\ t \in Open
    BY <1>2, <1>6 DEF Open
  <2>2. CASE spoiled'
    BY <2>2 DEF KeptInv
  <2>3. CASE ~spoiled'
    <3>1. /\ ~spoiled /\ latest' = t
          /\ content[into[t]] = "empty" => what = t
      BY <1>1, <2>3
    <3>2. Open = {t} /\ into[t] = file /\ file # 0 /\ content[file] = "empty"
      BY <2>1, <3>1 DEF VoiceInv, KeptInv
    <3>3. Open' = {} /\ content'[file] = t
      BY <1>3, <1>4, <2>1, <3>1, <3>2
    <3>4. t \notin {"empty", "torn"} /\ t # Nobody
      BY VoiceprintAssumption
    <3>5. Load' = t
      BY <1>2, <3>2, <3>3, <3>4 DEF Load
    <3> QED BY <1>2, <3>1, <3>2, <3>3, <3>4, <3>5 DEF KeptInv
  <2> QED BY <2>2, <2>3
<1> QED BY <1>5, <1>7, <1>8, <1>9 DEF VoiceInv

LEMMA VoiceStep ==
  ASSUME VoiceInv, [VoiceNext]_voiceVars
  PROVE  VoiceInv'
<1>1. ASSUME NEW t \in Takes, Enroll(t) PROVE VoiceInv'
  <2>1. /\ take[t] = "none" /\ take' = [take EXCEPT ![t] = "recording"]
        /\ UNCHANGED <<host, into, file, content, listening, owner, latest, padded, spoiled>>
    BY <1>1 DEF Enroll
  <2>2. VoiceTypeOK'
    BY <2>1 DEF VoiceInv, VoiceTypeOK
  <2>3. \A u \in Takes : take'[u] = IF u = t THEN "recording" ELSE take[u]
    BY <2>1 DEF VoiceInv, VoiceTypeOK
  <2> QED BY <2>1, <2>2, <2>3, QuietStep
<1>2. ASSUME NEW t \in Takes, Judge(t) PROVE VoiceInv'
  <2>1. PICK what \in {"judged", "failed"} : take' = [take EXCEPT ![t] = what]
    BY <1>2 DEF Judge
  <2>2. /\ take[t] = "recording"
        /\ UNCHANGED <<host, into, file, content, listening, owner, latest, spoiled>>
        /\ padded' \in {padded, padded \cup {t}}
    BY <1>2 DEF Judge, Reject
  <2>3. VoiceTypeOK'
    BY <2>1, <2>2 DEF VoiceInv, VoiceTypeOK
  <2>4. \A u \in Takes : take'[u] = IF u = t THEN what ELSE take[u]
    BY <2>1 DEF VoiceInv, VoiceTypeOK
  <2> QED BY <2>1, <2>2, <2>3, <2>4, QuietStep
<1>3. CASE Removed
  <2>1. /\ file' = 0 /\ latest' = Nobody /\ spoiled' = (Open # {})
        /\ UNCHANGED <<host, take, into, content, listening, owner, padded>>
    BY <1>3 DEF Removed
  <2>2. VoiceTypeOK'
    BY <2>1, LenProperties DEF VoiceInv, VoiceTypeOK
  <2>3. ContentInv' /\ OwnerIsWhole'
    BY <2>1 DEF VoiceInv, ContentInv, OwnerIsWhole
  <2>4. Open' = Open /\ Load' = Nobody
    BY <2>1 DEF Open, Load
  <2>5. KeptInv'
    BY <2>1, <2>4 DEF KeptInv
  <2> QED BY <2>2, <2>3, <2>5 DEF VoiceInv
<1>4. CASE Listen \/ StopListening
  <2>1. /\ listening' \in BOOLEAN /\ owner' \in {Load, Nobody}
        /\ UNCHANGED <<host, take, into, file, content, latest, padded, spoiled>>
    BY <1>4 DEF Listen, StopListening
  <2>2. Load = Nobody \/ (Load \in Takes /\ take[Load] = "saved")
    BY LoadIsSaved DEF VoiceInv
  <2>3. VoiceTypeOK'
    BY <2>1, <2>2 DEF VoiceInv, VoiceTypeOK
  <2>4. ContentInv' /\ OwnerIsWhole'
    BY <2>1, <2>2 DEF VoiceInv, ContentInv, OwnerIsWhole
  <2>5. Open' = Open /\ Load' = Load
    BY <2>1 DEF Open, Load
  <2>6. KeptInv'
    BY <2>1, <2>5 DEF VoiceInv, KeptInv
  <2> QED BY <2>3, <2>4, <2>6 DEF VoiceInv
<1>5. CASE Restart
  <2>1. /\ take' = [t \in Takes |-> IF take[t] \in {"none", "saved"} THEN take[t] ELSE "failed"]
        /\ into' = [t \in Takes |-> 0] /\ listening' = FALSE /\ owner' = Nobody
        /\ spoiled' = (spoiled \/ Open # {})
        /\ UNCHANGED <<host, file, content, latest, padded>>
    BY <1>5 DEF Restart
  <2>2. VoiceTypeOK'
    <3>1. take' \in [Takes -> {"none", "recording", "judged", "writing", "saved", "failed"}]
      BY <2>1
    <3>2. 0 \in 0..Len(content')
      BY <2>1, LenProperties DEF VoiceInv, VoiceTypeOK
    <3>3. into' \in [Takes -> 0..Len(content')]
      BY <2>1, <3>2, Zenon
    <3>4. spoiled' \in BOOLEAN
      BY <2>1
    <3> QED BY <2>1, <3>1, <3>3, <3>4 DEF VoiceInv, VoiceTypeOK
  <2>3. ContentInv' /\ OwnerIsWhole'
    BY <2>1 DEF VoiceInv, ContentInv, OwnerIsWhole
  <2>4. Open' = {} /\ Load' = Load
    BY <2>1 DEF Open, Load
  <2>5. KeptInv'
    BY <2>1, <2>4 DEF VoiceInv, KeptInv
  <2> QED BY <2>2, <2>3, <2>5 DEF VoiceInv
<1>6. CASE UNCHANGED voiceVars
  <2>1. VoiceTypeOK'
    BY <1>6 DEF voiceVars, VoiceInv, VoiceTypeOK
  <2> QED BY <1>6, <2>1, QuietStep DEF voiceVars
<1> QED BY <1>1, <1>2, <1>3, <1>4, <1>5, <1>6, EmptyStep, WriteStep DEF VoiceNext

\* The owner that is recognised is the owner that was enrolled: one whole take
\* that was saved, the last one unless takes or a removal collided, and made of
\* enough voice (speaker.rs:216-236 and 415-448).
THEOREM OwnersAreKept == VoiceSpec => []OwnerIsKept
<1>1. VoiceInv => OwnerIsKept
  BY ProfilesHaveVoice DEF VoiceInv, KeptInv, OwnerIsKept, LatestIsKept, OwnerEnrolled
<1> QED BY <1>1, VoiceInitInv, VoiceStep, PTL DEF VoiceSpec
--------------------------------------------------------------------------------
\* The finals of a segment, and what its parts leave behind.

\* What a segment of the stream ends with, when the thread is about to handle it.
Ends(s, speech, end, voice) ==
  /\ segments < MaxSegments /\ s \in setup.streams
  /\ speech \in Speeches /\ end \in 1..MaxTime /\ voice \in Voices \cup {None}
  /\ end - LengthOf(speech) >= clock[s] /\ end > clock[s]
  /\ s \notin Classified => voice = None

\* How long the first parts of a speech are grows with their number.
LEMMA ElapsedIs ==
  ASSUME NEW speech \in Seq(Parts), NEW n, n = Len(speech), NEW sum, sum = Elapsed(speech)
  PROVE  /\ sum \in [0..n -> Nat]
         /\ \A i, j \in 0..n : i <= j => sum[i] <= sum[j]
<1> DEFINE f == [p \in Nat \X (1..n) |-> p[1] + speech[p[2]].length]
<1>0. n \in Nat /\ \A i \in 1..n : speech[i].length \in Nat
  <2>1. n \in Nat /\ \A i \in 1..n : speech[i] \in Parts
    BY LenProperties, ElementOfSeq
  <2> QED BY <2>1 DEF Parts
<1>1. /\ f \in [Nat \X (1..n) -> Nat]
      /\ \A x \in Nat, i \in 1..n : f[<<x, i>>] = x + speech[i].length
  BY <1>0
<1> HIDE DEF f
<1>2. PICK g \in [0..n -> Nat] : g[0] = 0 /\ \A i \in 1..n : g[i] = f[<<g[i - 1], i>>]
  <2>1. n \in Nat /\ 0 \in Nat /\ f \in [Nat \X (1..n) -> Nat]
    BY <1>0, <1>1
  <2>2. \E g : Iterates(g, n, Nat, 0, f)
    BY ONLY <2>1, IterationExists
  <2> QED BY <2>2 DEF Iterates
<1>3. g = [i \in 0..n |-> IF i = 0 THEN 0 ELSE g[i - 1] + speech[i].length]
  <2>1. ASSUME NEW i \in 1..n PROVE g[i] = g[i - 1] + speech[i].length
    <3>1. n \in Nat /\ i - 1 \in 0..n
      BY <1>0
    <3>2. g[i - 1] \in Nat
      BY <1>2, <3>1
    <3> QED BY <1>1, <1>2, <3>2
  <2> QED BY <1>0, <1>2, <2>1
<1>4. sum = [i \in 0..n |-> IF i = 0 THEN 0 ELSE sum[i - 1] + speech[i].length]
  <2>1. sum = CHOOSE h : h = [i \in 0..n |-> IF i = 0 THEN 0 ELSE h[i - 1] + speech[i].length]
    BY DEF Elapsed
  <2> QED BY <1>3, <2>1, Zenon
<1>5. sum[0] = 0 /\ \A i \in 1..n : sum[i] = sum[i - 1] + speech[i].length
  <2>1. 0 \in 0..n /\ \A i \in 1..n : i \in 0..n /\ i # 0
    BY <1>0
  <2> QED BY <1>4, <2>1, Zenon
<1>6. \A i \in 0..n : sum[i] \in Nat
  <2> DEFINE T == {i \in 0..n : sum[i] \in Nat}
  <2>1. 0 \in T
    BY <1>0, <1>5
  <2>2. ASSUME NEW i \in 1..n, i - 1 \in T PROVE i \in T
    <3>1. sum[i - 1] \in Nat /\ speech[i].length \in Nat /\ i \in 0..n
      BY <1>0, <2>2
    <3>2. sum[i] = sum[i - 1] + speech[i].length
      BY <1>5
    <3> QED BY <3>1, <3>2
  <2>3. 0..n \subseteq T
    <3> HIDE DEF T
    <3> QED BY <1>0, <2>1, <2>2, InductionUpTo
  <2> QED BY <2>3
<1>7. ASSUME NEW i \in 0..n PROVE \A j \in 0..n : i <= j => sum[i] <= sum[j]
  <2> DEFINE T == {j \in 0..n : i <= j => sum[i] <= sum[j]}
  <2>1. 0 \in T
    BY <1>0, <1>6
  <2>2. ASSUME NEW j \in 1..n, j - 1 \in T PROVE j \in T
    <3>1. j - 1 \in 0..n /\ j \in 0..n /\ sum[j] = sum[j - 1] + speech[j].length
      BY <1>0, <1>5
    <3>2. sum[i] \in Nat /\ sum[j] \in Nat /\ sum[j - 1] \in Nat /\ speech[j].length \in Nat
      BY <1>0, <1>6, <3>1
    <3>3. i <= j - 1 => sum[i] <= sum[j - 1]
      BY <2>2
    <3>4. i \in Int /\ j \in Int
      BY <1>0
    <3>5. i <= j => sum[i] <= sum[j]
      BY ONLY <3>1, <3>2, <3>3, <3>4
    <3> QED BY <3>1, <3>5
  <2>3. 0..n \subseteq T
    <3> HIDE DEF T
    <3> QED BY <1>0, <2>1, <2>2, InductionUpTo
  <2> QED BY <2>3
<1>8. sum \in [0..n -> Nat]
  BY <1>4, <1>6
<1> QED BY <1>7, <1>8

\* A query's number and centre, by what it decided.
LEMMA QueryIs ==
  ASSUME TypeOK, NEW s \in setup.streams, NEW voice \in Voices \cup {None},
         NEW q \in Queries(s, voice)
  PROVE  \/ q.decision = "fallback" /\ q.number = 0 /\ voice = None
         \/ q.decision = "owner" /\ q.number = 0 /\ IsOwner(s, voice) /\ voice # None
         \/ /\ q.decision = "existing" /\ q.number \in DOMAIN clients
            /\ q.centre \in Voices /\ voice # None
         \/ /\ q.decision = "confirmed" /\ q.number \in DOMAIN candidates
            /\ q.centre = voice /\ voice # None
            /\ Distance(candidates[q.number], voice) <= Near
         \/ /\ q.decision = "limit" /\ q.number = 0 /\ voice # None
            /\ Nearest(candidates, voice) = {}
         \/ /\ q.decision = "started" /\ q.number = nextId /\ nextId <= MaxClients
            /\ q.centre = voice /\ voice # None /\ Nearest(candidates, voice) = {}
<1> DEFINE known == Nearest(clients, voice)
           pending == Nearest(candidates, voice)
<1>1. CASE voice = None
  BY <1>1 DEF Queries, Fallback, Query
<1>2. CASE voice # None /\ IsOwner(s, voice)
  BY <1>2 DEF Queries, Query
<1>3. CASE voice # None /\ ~IsOwner(s, voice)
  <2>1. q \in CASE known # {} ->
                    UNION {{Query("existing", n, c) : c \in Between(clients[n], voice)}
                           : n \in known}
               [] known = {} /\ pending # {} ->
                    {Query("confirmed", n, voice) : n \in pending}
               [] known = {} /\ pending = {} /\ nextId > MaxClients ->
                    {Query("limit", 0, None)}
               [] OTHER -> {Query("started", nextId, voice)}
    BY <1>3, Zenon DEF Queries
  <2> HIDE DEF known, pending
  <2>2. CASE known # {}
    <3>1. PICK n \in known : \E c \in Between(clients[n], voice) : q = Query("existing", n, c)
      BY <2>1, <2>2
    <3>2. n \in DOMAIN clients
      BY <3>1 DEF known, Nearest
    <3> QED BY <1>3, <3>1, <3>2 DEF Query, Between
  <2>3. CASE known = {} /\ pending # {}
    <3>1. PICK n \in pending : q = Query("confirmed", n, voice)
      BY <2>1, <2>3
    <3>2. n \in DOMAIN candidates /\ Distance(candidates[n], voice) <= Near
      BY <3>1 DEF pending, Nearest
    <3> QED BY <1>3, <3>1, <3>2 DEF Query
  <2>4. CASE known = {} /\ pending = {} /\ nextId > MaxClients
    BY <1>3, <2>1, <2>4 DEF Query, pending
  <2>5. CASE known = {} /\ pending = {} /\ ~(nextId > MaxClients)
    <3>1. nextId <= MaxClients
      BY <2>5, FinalsAssumption DEF TypeOK
    <3>2. q = Query("started", nextId, voice)
      BY <2>1, <2>5
    <3> QED BY <1>3, <2>5, <3>1, <3>2 DEF Query, pending
  <2> QED BY <2>2, <2>3, <2>4, <2>5
<1> QED BY <1>1, <1>2, <1>3

\* If some candidate's voice is like what was heard, one of them is the nearest.
LEMMA SomeIsNearest ==
  ASSUME TypeOK, NEW voice \in Voices, NEW n \in DOMAIN candidates,
         Distance(candidates[n], voice) <= Near
  PROVE  Nearest(candidates, voice) # {}
<1> DEFINE d(m) == Distance(candidates[m], voice)
           All == {d(m) : m \in DOMAIN candidates}
<1>1. \A m \in DOMAIN candidates : d(m) \in Nat
  <2> SUFFICES ASSUME NEW m \in DOMAIN candidates PROVE d(m) \in Nat
    OBVIOUS
  <2>1. candidates[m] \in Int /\ voice \in Int
    BY FinalsAssumption DEF TypeOK
  <2> QED BY <2>1 DEF Distance
<1> HIDE DEF d
<1>2. All \subseteq Nat /\ All # {}
  BY <1>1
<1>3. PICK x \in All : \A y \in All : x <= y
  BY <1>2, SmallestNumber
<1>4. PICK m \in DOMAIN candidates : x = d(m)
  BY <1>3
<1>5. \A k \in DOMAIN candidates : d(m) <= d(k)
  BY <1>3, <1>4
<1>6. d(m) <= Near
  BY <1>1, <1>5, FinalsAssumption DEF d
<1> QED BY <1>5, <1>6 DEF Nearest, d

\* The finals of a segment are of their types, in the order of their times.
LEMMA FinalIs ==
  ASSUME TypeOK, NEW s, NEW speech, NEW end, NEW voice, Ends(s, speech, end, voice),
         NEW q \in Queries(s, voice)
  PROVE  \A i \in 1..Len(speech) :
           /\ FinalOf(s, speech, i, end, voice, q) \in Finals
           /\ FinalOf(s, speech, i, end, voice, q).ts \in clock[s]..end
           /\ \A j \in 1..Len(speech) : i <= j =>
                FinalOf(s, speech, i, end, voice, q).ts <= FinalOf(s, speech, j, end, voice, q).ts
<1> DEFINE n == Len(speech)
           sum == Elapsed(speech)
           f(i) == FinalOf(s, speech, i, end, voice, q)
<1>1. speech \in Seq(Parts) /\ n \in Nat
  BY FinalsAssumption, LenProperties DEF Ends
<1>2. \A i \in 1..n : speech[i].text \in Texts
  <2>1. \A i \in 1..n : speech[i] \in Parts
    BY <1>1, ElementOfSeq
  <2> QED BY <2>1 DEF Parts
<1>3. /\ sum \in [0..n -> Nat] /\ LengthOf(speech) = sum[n]
      /\ \A i, j \in 0..n : i <= j => sum[i] <= sum[j]
  BY <1>1, ElapsedIs DEF LengthOf
<1>4. /\ s \in Streams /\ clock[s] \in Nat /\ end \in Nat /\ end <= MaxTime /\ MaxTime \in Nat
      /\ end - sum[n] >= clock[s]
  <2>1. s \in Streams
    BY DEF Ends, TypeOK, Setups, Streams
  <2> HIDE DEF sum, n
  <2> QED BY <1>3, <2>1, FinalsAssumption DEF Ends, TypeOK
<1>5. ASSUME NEW i \in 1..n
      PROVE  /\ f(i).ts = end - sum[n] + sum[i]
             /\ f(i).ts \in clock[s]..end /\ f(i).ts \in 0..MaxTime
  <2>1. f(i).ts = end - sum[n] + sum[i]
    BY <1>3 DEF FinalOf
  <2> HIDE DEF f, sum, n
  <2>2. i \in 0..n /\ n \in 0..n /\ i <= n
    BY <1>1
  <2>3. sum[i] \in Nat /\ sum[n] \in Nat /\ sum[i] <= sum[n]
    BY <1>3, <2>2
  <2> QED BY <1>4, <2>1, <2>3
<1>6. ASSUME NEW i \in 1..n, NEW j \in 1..n, i <= j PROVE f(i).ts <= f(j).ts
  <2> HIDE DEF f, sum, n
  <2>1. i \in 0..n /\ j \in 0..n /\ n \in 0..n
    BY <1>1
  <2>2. sum[i] \in Nat /\ sum[j] \in Nat /\ sum[n] \in Nat /\ sum[i] <= sum[j]
    BY <1>3, <1>6, <2>1
  <2> QED BY <1>4, <1>5, <2>2
<1>7. /\ q.decision \in {"fallback", "owner", "existing", "confirmed", "limit", "started"}
      /\ q.number \in 0..MaxClients
      /\ q.decision \in {"existing", "confirmed", "started"} => q.number \in 1..MaxClients
  <2>1. \A m \in DOMAIN clients \cup DOMAIN candidates : m \in 1..MaxClients
    BY FinalsAssumption DEF TypeOK
  <2>2. nextId \in Nat /\ nextId >= 1 /\ MaxClients \in Nat
    BY FinalsAssumption DEF TypeOK
  <2>3. s \in setup.streams /\ voice \in Voices \cup {None}
    BY DEF Ends
  <2>4. q.number = 0 \/ q.number \in DOMAIN clients \/ q.number \in DOMAIN candidates
        \/ (q.number = nextId /\ nextId <= MaxClients)
    BY <2>3, QueryIs
  <2>5. q.decision \in {"existing", "confirmed", "started"} =>
          q.number \in DOMAIN clients \/ q.number \in DOMAIN candidates
          \/ (q.number = nextId /\ nextId <= MaxClients)
    BY <2>3, QueryIs
  <2>6. q.decision \in {"fallback", "owner", "existing", "confirmed", "limit", "started"}
    BY <2>3, QueryIs
  <2> QED BY <2>1, <2>2, <2>4, <2>5, <2>6
<1>8. ASSUME NEW i \in 1..n PROVE f(i) \in Finals
  <2>1. Label(s, q) \in {"me", "speaker", "other", "client"}
    BY DEF Label, FallbackLabel
  <2>2. VoiceOf(q) \in 0..MaxClients \cup {None}
    BY <1>7 DEF VoiceOf
  <2>3. segments + 1 \in 1..MaxSegments
    BY FinalsAssumption DEF Ends, TypeOK
  <2>4. voice \in Voices \cup {None}
    BY DEF Ends
  <2>5. end - LengthOf(speech) + sum[i] \in 0..MaxTime
    BY <1>3, <1>5
  <2> QED BY <1>2, <1>4, <1>7, <2>1, <2>2, <2>3, <2>4, <2>5 DEF FinalOf, Finals
<1> QED BY <1>5, <1>6, <1>8
--------------------------------------------------------------------------------
\* What the parts of a segment leave in the filters and in what was shown.
Accounts == [history : Seq(Finals), echoes : SUBSET Finals, shown : Seq(Finals),
             dispatched : Seq(Finals)]

\* The history is the end of what was shown.
HistoryIs(h, finals) ==
  /\ Len(h) = IF Len(finals) < HistoryCap THEN Len(finals) ELSE HistoryCap
  /\ \A i \in 1..Len(h) : h[i] = finals[Len(finals) - Len(h) + i]

\* EchoKeepsOne and EchoIsShownOnce, of any account.
EchoesKept(dropped, finals) ==
  \A e \in dropped : \E i \in 1..Len(finals) :
    /\ finals[i].stream # e.stream /\ SameWords(finals[i].text, e.text)
    /\ e.ts - finals[i].ts <= EchoWindow /\ finals[i].segment < e.segment

ShownOnce(finals) ==
  \A j \in 1..Len(finals) : \A i \in 1..(j - 1) :
    /\ j - i <= HistoryCap
    /\ finals[i].stream # finals[j].stream /\ SameWords(finals[i].text, finals[j].text)
    => Gap(finals[j].ts, finals[i].ts) > EchoWindow

\* The three things a part can do to the account.
LEMMA HandleIs ==
  ASSUME NEW a \in Accounts, NEW f \in Finals, NEW speech, NEW i,
         NEW b, b = Handle(a, speech, i, f)
  PROVE  /\ b \in Accounts
         /\ \/ b = a
            \/ /\ IsEcho(a, f) /\ b.history = a.history /\ b.shown = a.shown
               /\ b.echoes = a.echoes \cup {f} /\ b.dispatched = a.dispatched
            \/ /\ ~IsEcho(a, f) /\ b.history = Remember(a.history, f)
               /\ b.shown = Append(a.shown, f) /\ b.echoes = a.echoes
               /\ b.dispatched = IF i = Len(speech) THEN Append(a.dispatched, f)
                                 ELSE a.dispatched
<1>1. /\ a.history \in Seq(Finals) /\ a.shown \in Seq(Finals) /\ a.dispatched \in Seq(Finals)
      /\ a.echoes \subseteq Finals
      /\ a = [history |-> a.history, echoes |-> a.echoes, shown |-> a.shown,
              dispatched |-> a.dispatched]
  BY DEF Accounts
<1>2. CASE TooShort(speech[i])
  <2>1. b = [history |-> a.history, echoes |-> a.echoes, shown |-> a.shown,
             dispatched |-> a.dispatched]
    BY <1>1, <1>2 DEF Handle, Passes, Filter, Dispatch
  <2> QED BY <1>1, <2>1
<1>3. CASE ~TooShort(speech[i]) /\ IsEcho(a, f)
  <2>1. b = [history |-> a.history, echoes |-> a.echoes \cup {f}, shown |-> a.shown,
             dispatched |-> a.dispatched]
    BY <1>1, <1>3 DEF Handle, Passes, Filter, Dispatch, Dedup
  <2> QED BY <1>1, <1>3, <2>1 DEF Accounts
<1>4. CASE ~TooShort(speech[i]) /\ ~IsEcho(a, f)
  <2> DEFINE d == IF i = Len(speech) THEN Append(a.dispatched, f) ELSE a.dispatched
             h == Remember(a.history, f)
  <2>1. b = [history |-> h, echoes |-> a.echoes, shown |-> Append(a.shown, f), dispatched |-> d]
    BY <1>1, <1>4 DEF Handle, Passes, Filter, Dispatch, Dedup
  <2>2. Append(a.shown, f) \in Seq(Finals) /\ d \in Seq(Finals)
    BY <1>1, AppendProperties
  <2>3. h \in Seq(Finals)
    <3>1. Append(a.history, f) \in Seq(Finals) /\ Append(a.history, f) # <<>>
      BY <1>1, AppendProperties
    <3>2. Tail(Append(a.history, f)) \in Seq(Finals)
      BY <3>1, HeadTailProperties
    <3> QED BY <3>1, <3>2 DEF Remember
  <2> HIDE DEF d, h
  <2>3a. /\ b \in Accounts /\ b.history = h /\ b.echoes = a.echoes
         /\ b.shown = Append(a.shown, f) /\ b.dispatched = d
    BY <1>1, <2>1, <2>2, <2>3 DEF Accounts
  <2> QED BY <1>4, <2>3a DEF d, h
<1> QED BY <1>2, <1>3, <1>4

\* The history of a final more.
LEMMA RememberIs ==
  ASSUME NEW h \in Seq(Finals), NEW finals \in Seq(Finals), HistoryIs(h, finals),
         NEW f \in Finals
  PROVE  HistoryIs(Remember(h, f), Append(finals, f))
<1> DEFINE all == Append(h, f)
           said == Append(finals, f)
<1>0. HistoryCap \in Nat /\ HistoryCap >= 1
  BY FinalsAssumption
<1>1. /\ Len(h) \in Nat /\ Len(finals) \in Nat
      /\ all \in Seq(Finals) /\ Len(all) = Len(h) + 1 /\ all[Len(h) + 1] = f
      /\ \A i \in 1..Len(h) : all[i] = h[i]
      /\ Len(said) = Len(finals) + 1 /\ said[Len(finals) + 1] = f
      /\ \A i \in 1..Len(finals) : said[i] = finals[i]
  BY AppendProperties, LenProperties
<1> HIDE DEF all, said
<1>2. /\ Len(h) = IF Len(finals) < HistoryCap THEN Len(finals) ELSE HistoryCap
      /\ \A i \in 1..Len(h) : h[i] = finals[Len(finals) - Len(h) + i]
  BY DEF HistoryIs
<1>3. \A i \in 1..Len(all) : all[i] = said[Len(said) - Len(all) + i]
  <2> SUFFICES ASSUME NEW i \in 1..Len(all) PROVE all[i] = said[Len(said) - Len(all) + i]
    OBVIOUS
  <2>1. CASE i = Len(all)
    <3>1. Len(said) - Len(all) + i = Len(finals) + 1
      BY <1>1, <2>1
    <3> QED BY <1>1, <2>1, <3>1
  <2>2. CASE i # Len(all)
    <3>1. i \in 1..Len(h) /\ Len(said) - Len(all) + i = Len(finals) - Len(h) + i
      BY <1>1, <2>2
    <3>2. Len(finals) - Len(h) + i \in 1..Len(finals)
      BY <1>0, <1>1, <1>2, <3>1
    <3> QED BY <1>1, <1>2, <3>1, <3>2
  <2> QED BY <2>1, <2>2
<1>4. CASE Len(all) <= HistoryCap
  <2>1. Remember(h, f) = all
    BY <1>0, <1>1, <1>4 DEF Remember, all
  <2>2. Len(all) = IF Len(said) < HistoryCap THEN Len(said) ELSE HistoryCap
    BY <1>0, <1>1, <1>2, <1>4
  <2> QED BY <1>3, <2>1, <2>2, Zenon DEF HistoryIs, said
<1>5. CASE Len(all) > HistoryCap
  <2>1. Remember(h, f) = Tail(all)
    BY <1>0, <1>1, <1>5 DEF Remember, all
  <2>2. Len(h) = HistoryCap /\ Len(all) = HistoryCap + 1 /\ Len(said) > HistoryCap
    BY <1>0, <1>1, <1>2, <1>5
  <2>3. /\ Len(Tail(all)) = HistoryCap
        /\ \A i \in 1..HistoryCap : Tail(all)[i] = all[i + 1]
    <3>1. all # <<>>
      BY <1>0, <1>1, EmptySeq
    <3> QED BY <1>0, <1>1, <2>2, <3>1, HeadTailProperties
  <2>4. ASSUME NEW i \in 1..HistoryCap
        PROVE  Tail(all)[i] = said[Len(said) - HistoryCap + i]
    <3>1. i + 1 \in 1..Len(all) /\ Len(said) - Len(all) + (i + 1) = Len(said) - HistoryCap + i
      BY <1>0, <1>1, <2>2
    <3>2. all[i + 1] = said[Len(said) - Len(all) + (i + 1)]
      BY <1>3, <3>1
    <3> QED BY <2>3, <3>1, <3>2
  <2>5. Len(Tail(all)) = IF Len(said) < HistoryCap THEN Len(said) ELSE HistoryCap
    BY <1>0, <1>1, <2>2, <2>3
  <2>6. /\ Len(Remember(h, f)) = IF Len(said) < HistoryCap THEN Len(said) ELSE HistoryCap
        /\ Len(Remember(h, f)) = HistoryCap
        /\ \A i \in 1..HistoryCap : Remember(h, f)[i] = said[Len(said) - HistoryCap + i]
    BY <2>1, <2>3, <2>4, <2>5, Zenon
  <2> QED BY <2>6, Zenon DEF HistoryIs, said
<1> QED BY <1>0, <1>1, <1>4, <1>5

\* The account of what the streams said keeps its promises.
AccountInv(a) ==
  /\ a \in Accounts
  /\ HistoryIs(a.history, a.shown)
  /\ EchoesKept(a.echoes, a.shown)
  /\ ShownOnce(a.shown)

\* The places of the history in what was shown, and back.
LEMMA PlacesInHistory ==
  ASSUME NEW n \in Nat, NEW h \in Nat, NEW cap \in Nat, h <= n, h = cap \/ h = n
  PROVE  /\ \A k \in 1..h : n - h + k \in 1..n
         /\ \A k \in 1..n : n + 1 - k <= cap => k - (n - h) \in 1..h /\ n - h + (k - (n - h)) = k
OBVIOUS

\* One more part keeps them, if the other stream's finals are of earlier segments.
LEMMA HandleKeeps ==
  ASSUME NEW a, AccountInv(a), NEW f \in Finals, NEW speech, NEW i,
         NEW b, b = Handle(a, speech, i, f),
         \A k \in 1..Len(a.shown) :
           a.shown[k].stream # f.stream => a.shown[k].segment < f.segment
  PROVE  AccountInv(b)
<1>1. /\ a \in Accounts /\ a.history \in Seq(Finals) /\ a.shown \in Seq(Finals)
      /\ a.echoes \subseteq Finals
      /\ HistoryIs(a.history, a.shown) /\ EchoesKept(a.echoes, a.shown) /\ ShownOnce(a.shown)
  BY DEF AccountInv, Accounts
<1>2. Len(a.history) \in Nat /\ Len(a.shown) \in Nat /\ HistoryCap \in Nat /\ EchoWindow \in Nat
  BY <1>1, LenProperties, FinalsAssumption
<1>3. /\ Len(a.history) = IF Len(a.shown) < HistoryCap THEN Len(a.shown) ELSE HistoryCap
      /\ \A k \in 1..Len(a.history) :
           a.history[k] = a.shown[Len(a.shown) - Len(a.history) + k]
  BY <1>1 DEF HistoryIs
<1>3a. /\ Len(a.history) <= Len(a.shown)
       /\ Len(a.history) = HistoryCap \/ Len(a.history) = Len(a.shown)
  <2>1. Len(a.history) = IF Len(a.shown) < HistoryCap THEN Len(a.shown) ELSE HistoryCap
    BY <1>3
  <2> QED BY ONLY <1>2, <2>1
<1>3b. /\ \A k \in 1..Len(a.history) : Len(a.shown) - Len(a.history) + k \in 1..Len(a.shown)
       /\ \A k \in 1..Len(a.shown) : Len(a.shown) + 1 - k <= HistoryCap =>
            /\ k - (Len(a.shown) - Len(a.history)) \in 1..Len(a.history)
            /\ Len(a.shown) - Len(a.history) + (k - (Len(a.shown) - Len(a.history))) = k
  <2>1. PICK n, h : n = Len(a.shown) /\ h = Len(a.history)
    OBVIOUS
  <2>2. /\ n \in Nat /\ h \in Nat /\ HistoryCap \in Nat
        /\ h <= n /\ (h = HistoryCap \/ h = n)
    BY <1>2, <1>3a, <2>1
  <2>3. /\ \A k \in 1..h : n - h + k \in 1..n
        /\ \A k \in 1..n : n + 1 - k <= HistoryCap =>
             k - (n - h) \in 1..h /\ n - h + (k - (n - h)) = k
    BY ONLY <2>2, PlacesInHistory
  <2> QED BY <2>1, <2>3, Zenon
<1>4. b \in Accounts
  BY <1>1, HandleIs
<1>5. CASE b = a
  BY <1>5
<1>6. CASE /\ IsEcho(a, f) /\ b.history = a.history /\ b.shown = a.shown
           /\ b.echoes = a.echoes \cup {f}
  <2>1. PICK k \in 1..Len(a.history) :
          /\ a.history[k].stream # f.stream /\ Gap(f.ts, a.history[k].ts) <= EchoWindow
          /\ SameWords(a.history[k].text, f.text)
    BY <1>6 DEF IsEcho
  <2>2. PICK m \in 1..Len(a.shown) : a.shown[m] = a.history[k]
    <3>1. Len(a.shown) - Len(a.history) + k \in 1..Len(a.shown)
      BY <1>3b
    <3> QED BY <1>3, <3>1
  <2>3. a.shown[m].ts \in Nat /\ f.ts \in Nat
    <3>1. a.shown[m] \in Finals
      BY <1>1, ElementOfSeq
    <3>2. \A g \in Finals : g.ts \in Nat
      BY FinalsAssumption DEF Finals
    <3> QED BY <3>1, <3>2
  <2>4. f.ts - a.shown[m].ts <= EchoWindow
    <3>1. Gap(f.ts, a.shown[m].ts) <= EchoWindow
      BY <2>1, <2>2
    <3> QED BY <1>2, <2>3, <3>1 DEF Gap
  <2>5. /\ a.shown[m].stream # f.stream /\ SameWords(a.shown[m].text, f.text)
        /\ a.shown[m].segment < f.segment
    BY <2>1, <2>2
  <2>6. EchoesKept(b.echoes, b.shown)
    BY <1>1, <1>6, <2>4, <2>5 DEF EchoesKept
  <2> QED BY <1>1, <1>4, <1>6, <2>6 DEF AccountInv
<1>7. CASE /\ ~IsEcho(a, f) /\ b.history = Remember(a.history, f)
           /\ b.shown = Append(a.shown, f) /\ b.echoes = a.echoes
  <2>1. HistoryIs(b.history, b.shown)
    BY <1>1, <1>7, RememberIs
  <2>2. /\ Len(b.shown) = Len(a.shown) + 1 /\ b.shown[Len(a.shown) + 1] = f
        /\ \A k \in 1..Len(a.shown) : b.shown[k] = a.shown[k]
    BY <1>1, <1>7, AppendProperties
  <2>3. EchoesKept(b.echoes, b.shown)
    <3> SUFFICES ASSUME NEW e \in b.echoes
                 PROVE  \E k \in 1..Len(b.shown) :
                          /\ b.shown[k].stream # e.stream /\ SameWords(b.shown[k].text, e.text)
                          /\ e.ts - b.shown[k].ts <= EchoWindow
                          /\ b.shown[k].segment < e.segment
      BY DEF EchoesKept
    <3>1. PICK k \in 1..Len(a.shown) :
            /\ a.shown[k].stream # e.stream /\ SameWords(a.shown[k].text, e.text)
            /\ e.ts - a.shown[k].ts <= EchoWindow /\ a.shown[k].segment < e.segment
      BY <1>1, <1>7 DEF EchoesKept
    <3>2. k \in 1..Len(b.shown) /\ b.shown[k] = a.shown[k]
      BY <1>2, <2>2
    <3> QED BY <3>1, <3>2
  <2>4. ASSUME NEW k \in 1..Len(a.shown), Len(a.shown) + 1 - k <= HistoryCap,
               a.shown[k].stream # f.stream, SameWords(a.shown[k].text, f.text)
        PROVE  Gap(f.ts, a.shown[k].ts) > EchoWindow
    <3> DEFINE h == k - (Len(a.shown) - Len(a.history))
    <3>1. h \in 1..Len(a.history) /\ Len(a.shown) - Len(a.history) + h = k
      BY <1>3b, <2>4
    <3>2. a.history[h] = a.shown[k]
      BY <1>3, <3>1
    <3>3. ~(Gap(f.ts, a.shown[k].ts) <= EchoWindow)
      <4> HIDE DEF h
      <4>1. /\ a.history[h].stream # f.stream
            /\ SameWords(a.history[h].text, f.text)
        BY <2>4, <3>2
      <4>2. ~(Gap(f.ts, a.history[h].ts) <= EchoWindow)
        BY <1>7, <3>1, <4>1 DEF IsEcho
      <4> QED BY <3>2, <4>2
    <3>4. Gap(f.ts, a.shown[k].ts) \in Int
      <4>1. a.shown[k] \in Finals
        BY <1>1, ElementOfSeq
      <4>2. \A g \in Finals : g.ts \in Nat
        BY FinalsAssumption DEF Finals
      <4>3. f.ts \in Nat /\ a.shown[k].ts \in Nat
        BY <4>1, <4>2
      <4> QED BY <4>3 DEF Gap
    <3> QED BY <1>2, <3>3, <3>4
  <2>5. ShownOnce(b.shown)
    <3> SUFFICES ASSUME NEW j \in 1..Len(b.shown), NEW k \in 1..(j - 1),
                        j - k <= HistoryCap, b.shown[k].stream # b.shown[j].stream,
                        SameWords(b.shown[k].text, b.shown[j].text)
                 PROVE  Gap(b.shown[j].ts, b.shown[k].ts) > EchoWindow
      BY DEF ShownOnce
    <3>0. Len(b.shown) = Len(a.shown) + 1
      BY <2>2
    <3>1. k \in 1..Len(a.shown) /\ b.shown[k] = a.shown[k]
      <4>1. k \in 1..Len(a.shown)
        BY <1>2, <3>0
      <4> QED BY <2>2, <4>1
    <3>2. CASE j = Len(a.shown) + 1
      BY <2>2, <2>4, <3>1, <3>2
    <3>3. CASE j # Len(a.shown) + 1
      <4>1. j \in 1..Len(a.shown) /\ b.shown[j] = a.shown[j]
        <5>1. j \in 1..Len(a.shown)
          BY <1>2, <3>0, <3>3
        <5> QED BY <2>2, <5>1
      <4> QED BY <1>1, <3>1, <4>1 DEF ShownOnce
    <3> QED BY <3>2, <3>3
  <2> QED BY <1>4, <2>1, <2>3, <2>5 DEF AccountInv
<1>8. \/ b = a
      \/ /\ IsEcho(a, f) /\ b.history = a.history /\ b.shown = a.shown
         /\ b.echoes = a.echoes \cup {f}
      \/ /\ ~IsEcho(a, f) /\ b.history = Remember(a.history, f)
         /\ b.shown = Append(a.shown, f) /\ b.echoes = a.echoes
  BY <1>1, HandleIs
<1> QED BY <1>5, <1>6, <1>7, <1>8

\* What the first i parts of a segment, whose finals f are, have made of the account.
Said(a, f, i) ==
  /\ AccountInv(a)
  /\ Len(shown) <= Len(a.shown)
  /\ \A k \in 1..Len(shown) : a.shown[k] = shown[k]
  /\ \A k \in (Len(shown) + 1)..Len(a.shown) : \E c \in 1..i : a.shown[k] = f[c]
  /\ \A k, m \in (Len(shown) + 1)..Len(a.shown) :
       k <= m => a.shown[k].ts <= a.shown[m].ts
  /\ \/ a.dispatched = dispatched
     \/ /\ Len(shown) < Len(a.shown)
        /\ a.dispatched = Append(dispatched, a.shown[Len(a.shown)])

\* The finals of the segment that ends are the last ones.
AreTheNext(f, n, s) ==
  /\ f \in [1..n -> Finals]
  /\ \A c \in 1..n : f[c].segment = segments + 1 /\ f[c].stream = s
  /\ \A c, d \in 1..n : c <= d => f[c].ts <= f[d].ts

SegmentsEnded == \A k \in 1..Len(shown) : shown[k].segment <= segments

LEMMA PartKeeps ==
  ASSUME NEW speech, NEW n \in Nat, n = Len(speech), NEW f, NEW s, AreTheNext(f, n, s),
         segments \in Nat, shown \in Seq(Finals), SegmentsEnded,
         NEW i \in 1..n, NEW a, Said(a, f, i - 1), a.dispatched = dispatched,
         NEW b, b = Handle(a, speech, i, f[i])
  PROVE  Said(b, f, i) /\ (i # n => b.dispatched = dispatched)
<1>0. /\ f \in [1..n -> Finals]
      /\ \A c \in 1..n : f[c].segment = segments + 1 /\ f[c].stream = s
      /\ \A c, d \in 1..n : c <= d => f[c].ts <= f[d].ts
  BY DEF AreTheNext
<1>1. /\ AccountInv(a) /\ a \in Accounts /\ a.shown \in Seq(Finals)
      /\ Len(a.shown) \in Nat /\ Len(shown) \in Nat /\ Len(shown) <= Len(a.shown)
      /\ \A k \in 1..Len(shown) : a.shown[k] = shown[k]
      /\ \A k, m \in (Len(shown) + 1)..Len(a.shown) :
           k <= m => a.shown[k].ts <= a.shown[m].ts
  BY LenProperties DEF Said, AccountInv, Accounts
<1>2. ASSUME NEW k \in (Len(shown) + 1)..Len(a.shown)
      PROVE  \E c \in 1..i : c \in 1..n /\ c <= i /\ a.shown[k] = f[c]
  <2>1. PICK c \in 1..(i - 1) : a.shown[k] = f[c]
    BY DEF Said
  <2> QED BY <2>1
<1>3. ASSUME NEW k \in 1..Len(a.shown), a.shown[k].stream # s
      PROVE  a.shown[k].segment < segments + 1
  <2>1. CASE k \in 1..Len(shown)
    <3>1. a.shown[k] = shown[k] /\ shown[k].segment <= segments
      BY <1>1, <2>1 DEF SegmentsEnded
    <3>2. shown[k].segment \in Int
      <4>1. shown[k] \in Finals
        BY <2>1, ElementOfSeq
      <4> QED BY <4>1, FinalsAssumption DEF Finals
    <3> QED BY <3>1, <3>2
  <2>2. CASE k \notin 1..Len(shown)
    <3>1. k \in (Len(shown) + 1)..Len(a.shown)
      BY <1>1, <2>2
    <3>2. PICK c \in 1..n : a.shown[k] = f[c]
      BY <1>2, <3>1
    <3> QED BY <1>0, <1>3, <3>2
  <2> QED BY <2>1, <2>2
<1>4. f[i] \in Finals /\ f[i].stream = s /\ f[i].segment = segments + 1
  BY <1>0
<1>5. AccountInv(b)
  <2>1. \A k \in 1..Len(a.shown) :
          a.shown[k].stream # f[i].stream => a.shown[k].segment < f[i].segment
    BY <1>3, <1>4
  <2> QED BY <1>1, <1>4, <2>1, HandleKeeps
<1>6. CASE b.shown = a.shown /\ b.dispatched = a.dispatched
  <2>1. \A k \in (Len(shown) + 1)..Len(b.shown) : \E c \in 1..i : b.shown[k] = f[c]
    BY <1>2, <1>6
  <2> QED BY <1>1, <1>5, <1>6, <2>1, Zenon DEF Said
<1>7. CASE /\ b.shown = Append(a.shown, f[i])
           /\ b.dispatched = IF i = n THEN Append(a.dispatched, f[i]) ELSE a.dispatched
  <2>1. /\ Len(b.shown) = Len(a.shown) + 1 /\ b.shown[Len(b.shown)] = f[i]
        /\ \A k \in 1..Len(a.shown) : b.shown[k] = a.shown[k]
    BY <1>1, <1>4, <1>7, AppendProperties
  <2>2. Len(shown) < Len(b.shown) /\ Len(shown) <= Len(b.shown)
    BY <1>1, <2>1
  <2>3. \A k \in 1..Len(shown) : b.shown[k] = shown[k]
    BY <1>1, <2>1
  <2>4. ASSUME NEW k \in (Len(shown) + 1)..Len(b.shown)
        PROVE  \E c \in 1..i : c \in 1..n /\ c <= i /\ b.shown[k] = f[c]
    <3>1. CASE k = Len(b.shown)
      BY <2>1, <3>1
    <3>2. CASE k # Len(b.shown)
      <4>1. k \in (Len(shown) + 1)..Len(a.shown) /\ k \in 1..Len(a.shown)
        BY <1>1, <2>1, <3>2
      <4> QED BY <1>2, <2>1, <4>1
    <3> QED BY <3>1, <3>2
  <2>5. ASSUME NEW k \in (Len(shown) + 1)..Len(b.shown),
               NEW m \in (Len(shown) + 1)..Len(b.shown), k <= m
        PROVE  b.shown[k].ts <= b.shown[m].ts
    <3>1. CASE m = Len(b.shown)
      <4>1. PICK c \in 1..n : c <= i /\ b.shown[k] = f[c]
        BY <2>4
      <4>2. f[c].ts <= f[i].ts
        BY <1>0, <4>1
      <4> QED BY <2>1, <3>1, <4>1, <4>2
    <3>2. CASE m # Len(b.shown)
      <4>1. /\ k \in (Len(shown) + 1)..Len(a.shown) /\ k \in 1..Len(a.shown)
            /\ m \in (Len(shown) + 1)..Len(a.shown) /\ m \in 1..Len(a.shown)
        <5>1. /\ Len(a.shown) \in Nat /\ Len(shown) \in Nat
              /\ Len(b.shown) = Len(a.shown) + 1
          BY <1>1, <2>1
        <5> QED BY <2>5, <3>2, <5>1
      <4>2. b.shown[k] = a.shown[k] /\ b.shown[m] = a.shown[m]
        BY <2>1, <4>1
      <4> QED BY <1>1, <2>5, <4>1, <4>2
    <3> QED BY <3>1, <3>2
  <2>6. /\ b.dispatched = dispatched \/ b.dispatched = Append(dispatched, b.shown[Len(b.shown)])
        /\ i # n => b.dispatched = dispatched
    BY <1>7, <2>1
  <2>7. \A k \in (Len(shown) + 1)..Len(b.shown) : \E c \in 1..i : b.shown[k] = f[c]
    BY <2>4
  <2>8. \A k, m \in (Len(shown) + 1)..Len(b.shown) : k <= m => b.shown[k].ts <= b.shown[m].ts
    BY <2>5
  <2> QED BY <1>5, <2>2, <2>3, <2>6, <2>7, <2>8, Zenon DEF Said
<1>8. \/ b.shown = a.shown /\ b.dispatched = a.dispatched
      \/ /\ b.shown = Append(a.shown, f[i])
         /\ b.dispatched = IF i = n THEN Append(a.dispatched, f[i]) ELSE a.dispatched
  <2>1. a \in Accounts /\ f[i] \in Finals /\ b = Handle(a, speech, i, f[i])
    BY <1>1, <1>4
  <2>2. \/ b = a
        \/ b.shown = a.shown /\ b.dispatched = a.dispatched
        \/ /\ b.shown = Append(a.shown, f[i])
           /\ b.dispatched = IF i = Len(speech) THEN Append(a.dispatched, f[i])
                             ELSE a.dispatched
    BY ONLY <2>1, HandleIs
  <2> QED BY <2>2
<1> QED BY <1>6, <1>7, <1>8

\* What finish_speech makes of a segment, all its parts taken together.
LEMMA AfterIs ==
  ASSUME TypeOK, AccountInv(AccountNow), SegmentsEnded,
         NEW s, NEW speech, NEW end, NEW voice, Ends(s, speech, end, voice),
         NEW q \in Queries(s, voice),
         NEW n, n = Len(speech),
         NEW f, f = [i \in 1..n |-> FinalOf(s, speech, i, end, voice, q)]
  PROVE  f \in [1..n -> Finals] /\ Said(AfterSpeech(s, speech, end, voice, q), f, n)
<1>1. /\ n \in Nat /\ f \in [1..n -> Finals] /\ segments \in Nat /\ shown \in Seq(Finals)
      /\ \A c \in 1..n : f[c] = FinalOf(s, speech, c, end, voice, q)
  <2>1. speech \in Seq(Parts)
    BY FinalsAssumption DEF Ends
  <2>2. n \in Nat
    BY <2>1, LenProperties
  <2>3. \A i \in 1..n : FinalOf(s, speech, i, end, voice, q) \in Finals
    BY FinalIs
  <2>4. segments \in Nat /\ shown \in Seq(Finals)
    BY FinalsAssumption DEF TypeOK
  <2> QED BY <2>2, <2>3, <2>4
<1>2. \A c \in 1..n : f[c].segment = segments + 1 /\ f[c].stream = s
  BY <1>1 DEF FinalOf
<1>3. \A c, d \in 1..n : c <= d => f[c].ts <= f[d].ts
  <2>1. \A c, d \in 1..n : c <= d =>
          FinalOf(s, speech, c, end, voice, q).ts <= FinalOf(s, speech, d, end, voice, q).ts
    BY FinalIs
  <2> QED BY <1>1, <2>1
<1>3a. AreTheNext(f, n, s)
  BY <1>1, <1>2, <1>3 DEF AreTheNext
<1> DEFINE step == [p \in Accounts \X (1..n) |-> Handle(p[1], speech, p[2], f[p[2]])]
<1>4. /\ step \in [Accounts \X (1..n) -> Accounts]
      /\ \A a \in Accounts, i \in 1..n : step[<<a, i>>] = Handle(a, speech, i, f[i])
  <2>1. \A a \in Accounts, i \in 1..n : Handle(a, speech, i, f[i]) \in Accounts
    BY <1>1, HandleIs
  <2> QED BY <2>1
<1> HIDE DEF step
<1>5. PICK g : Iterates(g, n, Accounts, AccountNow, step)
  <2>1. AccountNow \in Accounts
    BY DEF AccountInv
  <2> QED BY ONLY <1>1, <1>4, <2>1, IterationExists
<1>6. /\ g \in [0..n -> Accounts] /\ g[0] = AccountNow
      /\ \A i \in 1..n : g[i] = Handle(g[i - 1], speech, i, f[i])
  <2>1. g \in [0..n -> Accounts] /\ g[0] = AccountNow
    BY <1>5 DEF Iterates
  <2>2. ASSUME NEW i \in 1..n PROVE g[i] = Handle(g[i - 1], speech, i, f[i])
    <3>1. g[i] = step[<<g[i - 1], i>>]
      BY <1>5 DEF Iterates
    <3>2. g[i - 1] \in Accounts
      BY <1>1, <2>1
    <3> QED BY <1>4, <3>1, <3>2
  <2> QED BY <2>1, <2>2
<1> DEFINE Rule(h) == [i \in 0..n |-> IF i = 0 THEN AccountNow
                        ELSE Handle(h[i - 1], speech, i, FinalOf(s, speech, i, end, voice, q))]
           acc == CHOOSE h : h = Rule(h)
<1>7. AfterSpeech(s, speech, end, voice, q) = acc[n]
  BY DEF AfterSpeech
<1>8. g = Rule(g)
  <2>1. \A i \in 1..n : g[i] = Handle(g[i - 1], speech, i, FinalOf(s, speech, i, end, voice, q))
    BY <1>1, <1>6
  <2>2. \A i \in 0..n : i = 0 \/ i \in 1..n
    BY <1>1
  <2> QED BY <1>6, <2>1, <2>2
<1>9. acc = Rule(acc)
  <2> HIDE DEF Rule
  <2> QED BY <1>8, Zenon
<1>10. /\ acc[0] = AccountNow
       /\ \A i \in 1..n : acc[i] = Handle(acc[i - 1], speech, i, f[i])
  <2> HIDE DEF acc
  <2>1. 0 \in 0..n /\ \A i \in 1..n : i \in 0..n /\ i # 0
    BY <1>1
  <2>2. \A i \in 0..n : acc[i] = IF i = 0 THEN AccountNow
          ELSE Handle(acc[i - 1], speech, i, FinalOf(s, speech, i, end, voice, q))
    BY <1>9, Zenon
  <2> QED BY <1>1, <2>1, <2>2, Zenon
<1> HIDE DEF acc
<1> DEFINE T == {i \in 0..n : Said(acc[i], f, i) /\ (i # n => acc[i].dispatched = dispatched)}
<1>11. 0 \in T
  <2>1. AccountNow.shown = shown /\ AccountNow.dispatched = dispatched
    BY DEF AccountNow
  <2>2. Len(shown) \in Nat
    BY <1>1, LenProperties
  <2>3. \A k \in (Len(shown) + 1)..Len(shown) : FALSE
    BY <2>2
  <2>4. Said(AccountNow, f, 0)
    BY <2>1, <2>2, <2>3 DEF Said
  <2>5. 0 \in 0..n
    BY <1>1
  <2> QED BY <1>10, <2>1, <2>4, <2>5, Zenon
<1>12. ASSUME NEW i \in 1..n, i - 1 \in T PROVE i \in T
  <2>1. Said(acc[i - 1], f, i - 1) /\ acc[i - 1].dispatched = dispatched /\ i \in 0..n
    <3>1. i - 1 # n
      BY <1>1
    <3> QED BY <1>12, <3>1
  <2>2. acc[i] = Handle(acc[i - 1], speech, i, f[i])
    BY <1>10
  <2>3. Said(acc[i], f, i) /\ (i # n => acc[i].dispatched = dispatched)
    <3>1. /\ n \in Nat /\ n = Len(speech) /\ i \in 1..n
          /\ segments \in Nat /\ shown \in Seq(Finals) /\ SegmentsEnded
      BY <1>1
    <3>3. PICK a : a = acc[i - 1]
      OBVIOUS
    <3>4. PICK b : b = acc[i]
      OBVIOUS
    <3>5. Said(a, f, i - 1) /\ a.dispatched = dispatched /\ b = Handle(a, speech, i, f[i])
      BY <2>1, <2>2, <3>3, <3>4
    <3>6. Said(b, f, i) /\ (i # n => b.dispatched = dispatched)
      BY ONLY <1>3a, <3>1, <3>5, PartKeeps
    <3> QED BY <3>4, <3>6
  <2> QED BY <2>1, <2>3
<1>13. n \in T
  <2>1. 0..n \subseteq T
    <3> HIDE DEF T
    <3> QED BY ONLY <1>1, <1>11, <1>12, InductionUpTo
  <2>2. n \in 0..n
    BY <1>1
  <2> QED BY <2>1, <2>2, Zenon
<1> QED BY <1>1, <1>7, <1>13
--------------------------------------------------------------------------------
\* The invariant.

\* What is shown is in the order of the segments, and of the times of a stream.
OrderInv ==
  /\ SegmentsEnded
  /\ \A k \in 1..Len(shown) : shown[k].ts <= clock[shown[k].stream]
  /\ \A k, m \in 1..Len(shown) : k <= m =>
       /\ shown[k].segment <= shown[m].segment
       /\ shown[k].stream = shown[m].stream => shown[k].ts <= shown[m].ts

\* A voice that was given a number has it: as a candidate, the voice itself; as a
\* client, since a voice like it was shown.
StartedInv ==
  \A i \in 1..Len(shown) :
    LET n == shown[i].number
    IN  shown[i].decision = "started" =>
          /\ n \in DOMAIN candidates \cup DOMAIN clients
          /\ shown[i].identity = None /\ shown[i].voice \in Voices
          /\ n \in DOMAIN candidates => shown[i].voice = candidates[n]
          /\ n \in DOMAIN clients =>
               \E k \in 1..Len(shown) :
                 /\ shown[k].decision = "confirmed" /\ shown[k].voice # None
                 /\ Distance(shown[k].voice, shown[i].voice) <= Near
                 /\ shown[k].segment > shown[i].segment

\* KnownWereShown, place by place.
KnownInv ==
  /\ \A n \in DOMAIN candidates : \E i \in 1..Len(shown) :
       /\ shown[i].decision = "started" /\ shown[i].number = n
       /\ shown[i].voice = candidates[n]
  /\ \A n \in DOMAIN clients : \E i, j \in 1..Len(shown) :
       /\ shown[i].decision = "started" /\ shown[i].number = n
       /\ shown[j].decision = "confirmed" /\ shown[j].number = n
       /\ i < j /\ Distance(shown[i].voice, shown[j].voice) <= Near
  /\ \A i \in 1..Len(shown) : shown[i].label = "client" => shown[i].number \in DOMAIN clients

FinalsInv ==
  /\ TypeOK /\ AccountInv(AccountNow) /\ OrderInv /\ StartedInv
  /\ KnownInv /\ AlternatingVoicesAreTold /\ NamesAreEarned
  /\ ObserversSeeWhatIsShown

\* What the end of a segment changes: a few finals more, all of one voice, and what
\* is known of it.
Ended(s, end, voice, q) ==
  /\ s \in setup.streams /\ s \in Streams /\ voice \in Voices \cup {None}
  /\ q \in Queries(s, voice)
  /\ end \in 1..MaxTime /\ end > clock[s]
  /\ segments < MaxSegments /\ segments' = segments + 1 /\ setup' = setup
  /\ clock' = [clock EXCEPT ![s] = end]
  /\ shown' \in Seq(Finals) /\ Len(shown) <= Len(shown')
  /\ \A k \in 1..Len(shown) : shown'[k] = shown[k]
  /\ \A k \in (Len(shown) + 1)..Len(shown') :
       /\ shown'[k].segment = segments + 1 /\ shown'[k].stream = s
       /\ shown'[k].voice = voice /\ shown'[k].decision = q.decision
       /\ shown'[k].number = q.number /\ shown'[k].label = Label(s, q)
       /\ shown'[k].identity = VoiceOf(q)
       /\ shown'[k].ts \in clock[s]..end
  /\ \A k, m \in (Len(shown) + 1)..Len(shown') : k <= m => shown'[k].ts <= shown'[m].ts
  /\ \/ dispatched' = dispatched
     \/ /\ Len(shown) < Len(shown')
        /\ dispatched' = Append(dispatched, shown'[Len(shown')])
  /\ IF Len(shown) < Len(shown') THEN Commit(q) ELSE UNCHANGED registryVars

LEMMA FinishIs ==
  ASSUME FinalsInv, NEW s \in Streams, Finish(s)
  PROVE  /\ AccountInv(AccountNow)'
         /\ \E end \in 1..MaxTime, voice \in Voices \cup {None} :
              \E q \in Queries(s, voice) : Ended(s, end, voice, q)
<1>1. PICK speech \in Speeches, end \in 1..MaxTime, voice \in Voices \cup {None} :
        /\ segments < MaxSegments /\ s \in setup.streams
        /\ end - LengthOf(speech) >= clock[s] /\ end > clock[s]
        /\ s \notin Classified => voice = None
        /\ segments' = segments + 1 /\ UNCHANGED setup
        /\ clock' = [clock EXCEPT ![s] = end]
        /\ \E q \in Queries(s, voice) :
             LET after == AfterSpeech(s, speech, end, voice, q)
             IN  /\ history' = after.history /\ echoes' = after.echoes
                 /\ shown' = after.shown /\ dispatched' = after.dispatched
                 /\ IF SpeakerIsCommitted(AccountNow, after) THEN Commit(q)
                    ELSE UNCHANGED registryVars
  BY Zenon DEF Finish
<1>2. Ends(s, speech, end, voice)
  BY <1>1 DEF Ends
<1>3. PICK q \in Queries(s, voice) :
        LET after == AfterSpeech(s, speech, end, voice, q)
        IN  /\ history' = after.history /\ echoes' = after.echoes
            /\ shown' = after.shown /\ dispatched' = after.dispatched
            /\ IF SpeakerIsCommitted(AccountNow, after) THEN Commit(q)
               ELSE UNCHANGED registryVars
  BY <1>1
<1>4. PICK n : n = Len(speech)
  OBVIOUS
<1>5. PICK f : f = [i \in 1..n |-> FinalOf(s, speech, i, end, voice, q)]
  OBVIOUS
<1>6. TypeOK /\ AccountInv(AccountNow) /\ SegmentsEnded
  BY DEF FinalsInv, OrderInv
<1>7. PICK after : after = AfterSpeech(s, speech, end, voice, q)
  OBVIOUS
<1>8. f \in [1..n -> Finals] /\ Said(after, f, n)
  BY <1>2, <1>4, <1>5, <1>6, <1>7, AfterIs
<1>9. /\ history' = after.history /\ echoes' = after.echoes
      /\ shown' = after.shown /\ dispatched' = after.dispatched
      /\ IF Len(shown) < Len(shown') THEN Commit(q) ELSE UNCHANGED registryVars
  <2>1. AccountNow.shown = shown
    BY DEF AccountNow
  <2>2. SpeakerIsCommitted(AccountNow, after) <=> Len(shown) < Len(shown')
    <3>1. Len(after.shown) \in Nat /\ Len(shown) \in Nat
      BY <1>6, <1>8, LenProperties DEF Said, AccountInv, Accounts, TypeOK
    <3>2. shown' = after.shown
      BY <1>3, <1>7
    <3> QED BY <2>1, <3>1, <3>2 DEF SpeakerIsCommitted
  <2>3. /\ history' = after.history /\ echoes' = after.echoes
        /\ shown' = after.shown /\ dispatched' = after.dispatched
        /\ IF SpeakerIsCommitted(AccountNow, after) THEN Commit(q) ELSE UNCHANGED registryVars
    BY <1>3, <1>7
  <2> QED BY <2>2, <2>3, Zenon
<1>10. AccountInv(AccountNow)'
  <2>1. AccountInv(after) /\ after \in Accounts
    BY <1>8 DEF Said, AccountInv
  <2>2. after = [history |-> after.history, echoes |-> after.echoes, shown |-> after.shown,
                 dispatched |-> after.dispatched]
    BY <2>1 DEF Accounts
  <2>3. AccountNow' = after
    BY <1>9, <2>2 DEF AccountNow
  <2>4. AccountInv(AccountNow)' <=> AccountInv(AccountNow')
    BY DEF AccountInv, HistoryIs, EchoesKept, ShownOnce
  <2> QED BY <2>1, <2>3, <2>4
<1>11. \A k \in (Len(shown) + 1)..Len(shown') :
         /\ shown'[k].segment = segments + 1 /\ shown'[k].stream = s
         /\ shown'[k].voice = voice /\ shown'[k].decision = q.decision
         /\ shown'[k].number = q.number /\ shown'[k].label = Label(s, q)
         /\ shown'[k].identity = VoiceOf(q)
         /\ shown'[k].ts \in clock[s]..end
  <2> SUFFICES ASSUME NEW k \in (Len(shown) + 1)..Len(shown')
               PROVE  /\ shown'[k].segment = segments + 1 /\ shown'[k].stream = s
                      /\ shown'[k].voice = voice /\ shown'[k].decision = q.decision
                      /\ shown'[k].number = q.number /\ shown'[k].label = Label(s, q)
                      /\ shown'[k].identity = VoiceOf(q)
                      /\ shown'[k].ts \in clock[s]..end
    BY Zenon
  <2>1. PICK c \in 1..n : shown'[k] = f[c]
    BY <1>8, <1>9 DEF Said
  <2>2. f[c] = FinalOf(s, speech, c, end, voice, q)
    BY <1>5
  <2>3. FinalOf(s, speech, c, end, voice, q).ts \in clock[s]..end
    BY <1>2, <1>4, <1>6, FinalIs
  <2> QED BY <2>1, <2>2, <2>3 DEF FinalOf
<1>12. /\ shown' \in Seq(Finals) /\ Len(shown) <= Len(shown')
       /\ \A k \in 1..Len(shown) : shown'[k] = shown[k]
       /\ \A k, m \in (Len(shown) + 1)..Len(shown') : k <= m => shown'[k].ts <= shown'[m].ts
       /\ \/ dispatched' = dispatched
          \/ /\ Len(shown) < Len(shown')
             /\ dispatched' = Append(dispatched, shown'[Len(shown')])
  BY <1>8, <1>9 DEF Said, AccountInv, Accounts
<1>13. Ended(s, end, voice, q)
  BY <1>1, <1>9, <1>11, <1>12 DEF Ended
<1> QED BY <1>10, <1>13

\* The places of what was shown, before the segment and by it.
LEMMA PlacesIs ==
  ASSUME TypeOK, NEW s, NEW end, NEW voice, NEW q, Ended(s, end, voice, q)
  PROVE  /\ Len(shown) \in Nat /\ Len(shown') \in Nat /\ Len(shown) <= Len(shown')
         /\ \A k \in 1..Len(shown) : k \in 1..Len(shown') /\ shown'[k] = shown[k]
         /\ \A k \in (Len(shown) + 1)..Len(shown') : k \in 1..Len(shown')
         /\ \A k \in 1..Len(shown') :
              k \in 1..Len(shown) \/ k \in (Len(shown) + 1)..Len(shown')
         /\ \A k \in 1..Len(shown) : shown[k] \in Finals
         /\ \A k \in 1..Len(shown') : shown'[k] \in Finals
         /\ \A k, m \in 1..Len(shown') : k <= m /\ m \in 1..Len(shown) => k \in 1..Len(shown)
<1>1. /\ shown \in Seq(Finals) /\ shown' \in Seq(Finals) /\ Len(shown) <= Len(shown')
      /\ \A k \in 1..Len(shown) : shown'[k] = shown[k]
  BY DEF TypeOK, Ended
<1>2. Len(shown) \in Nat /\ Len(shown') \in Nat
  BY <1>1, LenProperties
<1>3. /\ \A k \in 1..Len(shown) : shown[k] \in Finals
      /\ \A k \in 1..Len(shown') : shown'[k] \in Finals
  BY <1>1, ElementOfSeq
<1>4. /\ \A k \in 1..Len(shown) : k \in 1..Len(shown')
      /\ \A k \in (Len(shown) + 1)..Len(shown') : k \in 1..Len(shown')
      /\ \A k \in 1..Len(shown') : k \in 1..Len(shown) \/ k \in (Len(shown) + 1)..Len(shown')
      /\ \A k, m \in 1..Len(shown') : k <= m /\ m \in 1..Len(shown) => k \in 1..Len(shown)
  BY <1>1, <1>2
<1> QED BY <1>1, <1>2, <1>3, <1>4, Zenon

LEMMA FinalTypes ==
  ASSUME NEW f \in Finals
  PROVE  /\ f.segment \in Nat /\ f.ts \in Nat /\ f.stream \in Streams /\ f.number \in Nat
         /\ f.voice \in Voices \cup {None} /\ f.identity \in 0..MaxClients \cup {None}
BY FinalsAssumption DEF Finals

LEMMA OrderStep ==
  ASSUME TypeOK, OrderInv, NEW s, NEW end, NEW voice, NEW q, Ended(s, end, voice, q)
  PROVE  OrderInv'
<1>1. /\ s \in Streams /\ end \in Nat /\ clock[s] \in Nat /\ end > clock[s]
      /\ segments \in Nat /\ segments' = segments + 1
      /\ \A t \in Streams : clock[t] \in Nat /\ clock'[t] = IF t = s THEN end ELSE clock[t]
  BY FinalsAssumption DEF Ended, TypeOK
<1>2. /\ \A k \in 1..Len(shown) : k \in 1..Len(shown') /\ shown'[k] = shown[k]
      /\ \A k \in 1..Len(shown') : k \in 1..Len(shown) \/ k \in (Len(shown) + 1)..Len(shown')
      /\ \A k, m \in 1..Len(shown') : k <= m /\ m \in 1..Len(shown) => k \in 1..Len(shown)
  BY PlacesIs
<1>3. \A k \in 1..Len(shown') : /\ shown'[k].segment \in Nat /\ shown'[k].ts \in Nat
                                /\ shown'[k].stream \in Streams
  BY PlacesIs, FinalTypes
<1>4. \A k \in 1..Len(shown) : /\ shown[k].segment <= segments
                               /\ shown[k].ts <= clock[shown[k].stream]
  BY DEF OrderInv, SegmentsEnded
<1>5. \A k, m \in 1..Len(shown) : k <= m =>
        /\ shown[k].segment <= shown[m].segment
        /\ shown[k].stream = shown[m].stream => shown[k].ts <= shown[m].ts
  BY DEF OrderInv
<1>6. \A k \in (Len(shown) + 1)..Len(shown') :
        /\ shown'[k].segment = segments + 1 /\ shown'[k].stream = s
        /\ shown'[k].ts \in clock[s]..end
  BY DEF Ended
<1>7. \A k, m \in (Len(shown) + 1)..Len(shown') : k <= m => shown'[k].ts <= shown'[m].ts
  BY DEF Ended
<1>8. ASSUME NEW k \in 1..Len(shown')
      PROVE  shown'[k].segment <= segments' /\ shown'[k].ts <= clock'[shown'[k].stream]
  <2>1. CASE k \in 1..Len(shown)
    <3>1. shown'[k] = shown[k] /\ shown[k].segment <= segments
          /\ shown[k].ts <= clock[shown[k].stream]
      BY <1>2, <1>4, <2>1
    <3> QED BY <1>1, <1>3, <3>1
  <2>2. CASE k \in (Len(shown) + 1)..Len(shown')
    <3>1. /\ shown'[k].segment = segments + 1 /\ shown'[k].stream = s
          /\ shown'[k].ts \in clock[s]..end
      BY <1>6, <2>2
    <3> QED BY <1>1, <1>3, <3>1
  <2> QED BY <1>2, <2>1, <2>2
<1>9. ASSUME NEW k \in 1..Len(shown'), NEW m \in 1..Len(shown'), k <= m
      PROVE  /\ shown'[k].segment <= shown'[m].segment
             /\ shown'[k].stream = shown'[m].stream => shown'[k].ts <= shown'[m].ts
  <2>1. CASE m \in 1..Len(shown)
    <3>1. k \in 1..Len(shown)
      BY <1>2, <1>9, <2>1
    <3>2. shown'[k] = shown[k] /\ shown'[m] = shown[m]
      BY <1>2, <2>1, <3>1
    <3> QED BY <1>5, <1>9, <2>1, <3>1, <3>2
  <2>2. CASE m \in (Len(shown) + 1)..Len(shown') /\ k \in 1..Len(shown)
    <3>1. /\ shown'[k] = shown[k] /\ shown[k].segment <= segments
          /\ shown[k].ts <= clock[shown[k].stream]
      BY <1>2, <1>4, <2>2
    <3>2. /\ shown'[m].segment = segments + 1 /\ shown'[m].stream = s
          /\ shown'[m].ts \in clock[s]..end
      BY <1>6, <2>2
    <3>3. shown'[k].segment \in Nat /\ shown'[k].ts \in Nat
      BY <1>3
    <3>4. shown'[k].segment <= shown'[m].segment
      BY <1>1, <3>1, <3>2, <3>3
    <3>5. ASSUME shown'[k].stream = shown'[m].stream PROVE shown'[k].ts <= shown'[m].ts
      <4>1. shown'[k].ts <= clock[s]
        BY <3>1, <3>2, <3>5
      <4> QED BY <1>1, <3>2, <3>3, <4>1
    <3> QED BY <3>4, <3>5
  <2>3. CASE /\ m \in (Len(shown) + 1)..Len(shown')
             /\ k \in (Len(shown) + 1)..Len(shown')
    <3>1. shown'[k].segment = segments + 1 /\ shown'[m].segment = segments + 1
      BY <1>6, <2>3
    <3>2. shown'[k].ts <= shown'[m].ts
      BY <1>7, <1>9, <2>3
    <3> QED BY <1>1, <3>1, <3>2
  <2> QED BY <1>2, <2>1, <2>2, <2>3
<1> QED BY <1>8, <1>9 DEF OrderInv, SegmentsEnded

\* What is known, after the segment.
LEMMA RegistryIs ==
  ASSUME TypeOK, NEW s, NEW end, NEW voice, NEW q, Ended(s, end, voice, q)
  PROVE  \/ /\ UNCHANGED registryVars
            /\ q.decision \in {"started", "confirmed"} => Len(shown') = Len(shown)
         \/ /\ q.decision = "started" /\ q.number = nextId /\ nextId <= MaxClients
            /\ voice \in Voices /\ Len(shown) < Len(shown')
            /\ nextId' = nextId + 1 /\ clients' = clients
            /\ DOMAIN candidates' = DOMAIN candidates \cup {nextId}
            /\ candidates'[nextId] = voice
            /\ \A m \in DOMAIN candidates : m # nextId /\ candidates'[m] = candidates[m]
         \/ /\ q.decision = "confirmed" /\ q.number \in DOMAIN candidates
            /\ voice \in Voices /\ Len(shown) < Len(shown')
            /\ Distance(candidates[q.number], voice) <= Near
            /\ nextId' = nextId /\ clients'[q.number] = voice
            /\ DOMAIN clients' = DOMAIN clients \cup {q.number}
            /\ DOMAIN candidates' = DOMAIN candidates \ {q.number}
            /\ \A m \in DOMAIN clients : m # q.number /\ clients'[m] = clients[m]
            /\ \A m \in DOMAIN candidates' : candidates'[m] = candidates[m]
         \/ /\ q.decision = "existing" /\ q.number \in DOMAIN clients
            /\ nextId' = nextId /\ candidates' = candidates
            /\ DOMAIN clients' = DOMAIN clients
            /\ \A m \in DOMAIN clients : clients'[m] \in Voices
<1>1. /\ s \in setup.streams /\ voice \in Voices \cup {None} /\ q \in Queries(s, voice)
      /\ IF Len(shown) < Len(shown') THEN Commit(q) ELSE UNCHANGED registryVars
      /\ Len(shown) \in Nat /\ Len(shown') \in Nat /\ Len(shown) <= Len(shown')
  BY PlacesIs DEF Ended
<1>2. /\ DOMAIN candidates \cap DOMAIN clients = {}
      /\ DOMAIN candidates \cup DOMAIN clients = 1..(nextId - 1) /\ nextId \in Nat
      /\ \A n \in DOMAIN clients : clients[n] \in Voices
  BY FinalsAssumption DEF TypeOK
<1>3. CASE ~(Len(shown) < Len(shown'))
  <2>1. UNCHANGED registryVars /\ Len(shown') = Len(shown)
    BY <1>1, <1>3
  <2> QED BY <2>1
<1>4. CASE Len(shown) < Len(shown') /\ q.decision = "started"
  <2>1. /\ q.number = nextId /\ nextId <= MaxClients /\ q.centre = voice /\ voice # None
    BY <1>1, <1>4, QueryIs
  <2>2. candidates' = Put(candidates, nextId, voice) /\ nextId' = nextId + 1 /\ clients' = clients
    BY <1>1, <1>4, <2>1 DEF Commit, AddCandidate
  <2>3. nextId \notin DOMAIN candidates
    BY <1>2
  <2> QED BY <1>1, <1>4, <2>1, <2>2, <2>3 DEF Put
<1>5. CASE Len(shown) < Len(shown') /\ q.decision = "confirmed"
  <2>1. /\ q.number \in DOMAIN candidates /\ q.centre = voice /\ voice # None
        /\ Distance(candidates[q.number], voice) <= Near
    BY <1>1, <1>5, QueryIs
  <2>2. /\ clients' = Put(clients, q.number, voice)
        /\ candidates' = [m \in DOMAIN candidates \ {q.number} |-> candidates[m]]
        /\ nextId' = nextId
    BY <1>1, <1>5, <2>1 DEF Commit
  <2>3. q.number \notin DOMAIN clients
    BY <1>2, <2>1
  <2> QED BY <1>1, <1>5, <2>1, <2>2, <2>3 DEF Put
<1>6. CASE Len(shown) < Len(shown') /\ q.decision = "existing"
  <2>1. q.number \in DOMAIN clients /\ q.centre \in Voices
    BY <1>1, <1>6, QueryIs
  <2>2. clients' = [clients EXCEPT ![q.number] = q.centre] /\ UNCHANGED <<nextId, candidates>>
    BY <1>1, <1>6 DEF Commit
  <2> QED BY <1>2, <1>6, <2>1, <2>2
<1>7. CASE /\ Len(shown) < Len(shown')
           /\ q.decision # "started" /\ q.decision # "confirmed" /\ q.decision # "existing"
  BY <1>1, <1>7 DEF Commit, registryVars
<1> QED BY <1>3, <1>4, <1>5, <1>6, <1>7

LEMMA TypeStep ==
  ASSUME TypeOK, AccountInv(AccountNow)',
         NEW s, NEW end, NEW voice, NEW q, Ended(s, end, voice, q)
  PROVE  TypeOK'
<1>1. /\ setup' \in Setups /\ segments' \in 0..MaxSegments /\ clock' \in [Streams -> 0..MaxTime]
  <2>1. /\ setup' = setup /\ segments' = segments + 1 /\ segments < MaxSegments
        /\ clock' = [clock EXCEPT ![s] = end] /\ end \in 1..MaxTime
    BY DEF Ended
  <2>2. end \in 0..MaxTime
    BY <2>1, FinalsAssumption
  <2>3. /\ setup \in Setups /\ segments \in 0..MaxSegments /\ MaxSegments \in Nat
        /\ clock \in [Streams -> 0..MaxTime]
    BY FinalsAssumption DEF TypeOK
  <2>4. clock' \in [Streams -> 0..MaxTime]
    BY ONLY <2>1, <2>2, <2>3
  <2>5. segments' \in 0..MaxSegments
    BY ONLY <2>1, <2>3
  <2> QED BY <2>1, <2>3, <2>4, <2>5
<1>2. /\ history' \in Seq(Finals) /\ Len(history') <= HistoryCap
      /\ echoes' \subseteq Finals /\ shown' \in Seq(Finals) /\ dispatched' \in Seq(Finals)
  <2>1. /\ history' \in Seq(Finals) /\ echoes' \subseteq Finals /\ shown' \in Seq(Finals)
        /\ dispatched' \in Seq(Finals)
    BY DEF AccountInv, AccountNow, Accounts
  <2>2. Len(history') = IF Len(shown') < HistoryCap THEN Len(shown') ELSE HistoryCap
    BY DEF AccountInv, AccountNow, HistoryIs
  <2>3. Len(shown') \in Nat /\ HistoryCap \in Nat
    BY <2>1, LenProperties, FinalsAssumption
  <2> QED BY <2>1, <2>2, <2>3
<1>3. /\ nextId \in 1..(MaxClients + 1) /\ DOMAIN candidates \cup DOMAIN clients = 1..(nextId - 1)
      /\ DOMAIN candidates \cap DOMAIN clients = {}
      /\ \A n \in DOMAIN candidates : candidates[n] \in Voices
      /\ \A n \in DOMAIN clients : clients[n] \in Voices
      /\ MaxClients \in Nat
  BY FinalsAssumption DEF TypeOK
<1> DEFINE Known == /\ nextId \in 1..(MaxClients + 1)
                    /\ DOMAIN candidates \cup DOMAIN clients = 1..(nextId - 1)
                    /\ DOMAIN candidates \cap DOMAIN clients = {}
                    /\ \A n \in DOMAIN candidates : candidates[n] \in Voices
                    /\ \A n \in DOMAIN clients : clients[n] \in Voices
<1>4. CASE UNCHANGED registryVars
  BY <1>1, <1>2, <1>3, <1>4 DEF TypeOK, registryVars
<1>5. CASE /\ q.decision = "started" /\ nextId <= MaxClients /\ voice \in Voices
           /\ nextId' = nextId + 1 /\ clients' = clients
           /\ DOMAIN candidates' = DOMAIN candidates \cup {nextId}
           /\ candidates'[nextId] = voice
           /\ \A m \in DOMAIN candidates : m # nextId /\ candidates'[m] = candidates[m]
  <2>1. nextId' \in 1..(MaxClients + 1) /\ 1..(nextId' - 1) = 1..(nextId - 1) \cup {nextId}
        /\ nextId \notin 1..(nextId - 1)
    BY <1>3, <1>5
  <2>2. Known'
    BY <1>3, <1>5, <2>1
  <2> QED BY <1>1, <1>2, <2>2 DEF TypeOK
<1>6. CASE /\ q.decision = "confirmed" /\ q.number \in DOMAIN candidates
           /\ voice \in Voices /\ nextId' = nextId /\ clients'[q.number] = voice
           /\ DOMAIN clients' = DOMAIN clients \cup {q.number}
           /\ DOMAIN candidates' = DOMAIN candidates \ {q.number}
           /\ \A m \in DOMAIN clients : m # q.number /\ clients'[m] = clients[m]
           /\ \A m \in DOMAIN candidates' : candidates'[m] = candidates[m]
  <2>1. Known'
    BY <1>3, <1>6
  <2> QED BY <1>1, <1>2, <2>1 DEF TypeOK
<1>7. CASE /\ q.decision = "existing" /\ nextId' = nextId /\ candidates' = candidates
           /\ DOMAIN clients' = DOMAIN clients
           /\ \A m \in DOMAIN clients : clients'[m] \in Voices
  <2>1. Known'
    BY <1>3, <1>7
  <2> QED BY <1>1, <1>2, <2>1 DEF TypeOK
<1> QED BY <1>4, <1>5, <1>6, <1>7, RegistryIs

LEMMA StartedStep ==
  ASSUME TypeOK, OrderInv, StartedInv,
         NEW s, NEW end, NEW voice, NEW q, Ended(s, end, voice, q)
  PROVE  StartedInv'
<1>1. /\ \A k \in 1..Len(shown) : k \in 1..Len(shown') /\ shown'[k] = shown[k]
      /\ \A k \in 1..Len(shown') : k \in 1..Len(shown) \/ k \in (Len(shown) + 1)..Len(shown')
      /\ \A k \in (Len(shown) + 1)..Len(shown') : k \in 1..Len(shown')
      /\ \A k \in 1..Len(shown) : shown[k].segment \in Nat /\ shown[k].segment <= segments
  BY PlacesIs, FinalTypes DEF OrderInv, SegmentsEnded
<1>2. \A k \in (Len(shown) + 1)..Len(shown') :
        /\ shown'[k].segment = segments + 1 /\ shown'[k].voice = voice
        /\ shown'[k].decision = q.decision /\ shown'[k].number = q.number
        /\ shown'[k].identity = VoiceOf(q)
  BY DEF Ended
<1>3. /\ DOMAIN candidates \cap DOMAIN clients = {} /\ segments \in Nat
      /\ DOMAIN candidates \cup DOMAIN clients = 1..(nextId - 1) /\ nextId \in Nat
      /\ \A n \in DOMAIN candidates : candidates[n] \in Int
      /\ Len(shown) \in Nat /\ Len(shown') \in Nat
  <2>1. Len(shown) \in Nat /\ Len(shown') \in Nat
    BY PlacesIs
  <2>2. \A n \in DOMAIN candidates : candidates[n] \in Int
    BY FinalsAssumption DEF TypeOK
  <2>3. /\ DOMAIN candidates \cap DOMAIN clients = {} /\ segments \in Nat
        /\ DOMAIN candidates \cup DOMAIN clients = 1..(nextId - 1) /\ nextId \in Nat
    BY FinalsAssumption DEF TypeOK
  <2> QED BY <2>1, <2>2, <2>3
<1> DEFINE Confirmed(i) == \E k \in 1..Len(shown) :
             /\ shown[k].decision = "confirmed" /\ shown[k].voice # None
             /\ Distance(shown[k].voice, shown[i].voice) <= Near
             /\ shown[k].segment > shown[i].segment
           Later(i) == \E k \in 1..Len(shown') :
             /\ shown'[k].decision = "confirmed" /\ shown'[k].voice # None
             /\ Distance(shown'[k].voice, shown'[i].voice) <= Near
             /\ shown'[k].segment > shown'[i].segment
<1>4. ASSUME NEW i \in 1..Len(shown), shown[i].decision = "started"
      PROVE  /\ shown[i].number \in DOMAIN candidates \cup DOMAIN clients
             /\ shown[i].identity = None /\ shown[i].voice \in Voices
             /\ shown[i].number \in DOMAIN candidates =>
                  shown[i].voice = candidates[shown[i].number]
             /\ shown[i].number \in DOMAIN clients => Confirmed(i)
  BY <1>4 DEF StartedInv
<1>5. ASSUME NEW i \in 1..Len(shown), Confirmed(i) PROVE Later(i)
  <2>1. PICK k \in 1..Len(shown) :
             /\ shown[k].decision = "confirmed" /\ shown[k].voice # None
             /\ Distance(shown[k].voice, shown[i].voice) <= Near
             /\ shown[k].segment > shown[i].segment
    BY <1>5
  <2>2. k \in 1..Len(shown') /\ shown'[k] = shown[k] /\ shown'[i] = shown[i]
    BY <1>1
  <2> QED BY <2>1, <2>2
<1>6. ASSUME NEW i \in 1..Len(shown'), shown'[i].decision = "started"
      PROVE  /\ shown'[i].number \in DOMAIN candidates' \cup DOMAIN clients'
             /\ shown'[i].identity = None /\ shown'[i].voice \in Voices
             /\ shown'[i].number \in DOMAIN candidates' =>
                  shown'[i].voice = candidates'[shown'[i].number]
             /\ shown'[i].number \in DOMAIN clients' => Later(i)
  <2> HIDE DEF Confirmed, Later
  <2>1. CASE i \in 1..Len(shown)
    <3>1. /\ shown'[i] = shown[i] /\ shown[i].decision = "started"
          /\ shown[i].number \in DOMAIN candidates \cup DOMAIN clients
          /\ shown[i].identity = None /\ shown[i].voice \in Voices
          /\ shown[i].number \in DOMAIN candidates =>
               shown[i].voice = candidates[shown[i].number]
          /\ shown[i].number \in DOMAIN clients => Later(i)
      BY <1>1, <1>4, <1>5, <1>6, <2>1
    <3>2. CASE UNCHANGED registryVars
      BY <3>1, <3>2 DEF registryVars
    <3>3. CASE /\ clients' = clients /\ DOMAIN candidates' = DOMAIN candidates \cup {nextId}
               /\ \A m \in DOMAIN candidates : m # nextId /\ candidates'[m] = candidates[m]
      <4>1. shown[i].number # nextId
        BY <1>3, <3>1
      <4> QED BY <3>1, <3>3, <4>1
    <3>4. CASE /\ q.decision = "confirmed" /\ q.number \in DOMAIN candidates
               /\ voice \in Voices /\ Len(shown) < Len(shown')
               /\ Distance(candidates[q.number], voice) <= Near
               /\ DOMAIN clients' = DOMAIN clients \cup {q.number}
               /\ DOMAIN candidates' = DOMAIN candidates \ {q.number}
               /\ \A m \in DOMAIN candidates' : candidates'[m] = candidates[m]
      <4>1. CASE shown[i].number # q.number
        BY <3>1, <3>4, <4>1
      <4>2. CASE shown[i].number = q.number
        <5>1. Len(shown') \in (Len(shown) + 1)..Len(shown') /\ Len(shown') \in 1..Len(shown')
          BY <1>3, <3>4
        <5>2. /\ shown'[Len(shown')].segment = segments + 1
              /\ shown'[Len(shown')].voice = voice
              /\ shown'[Len(shown')].decision = "confirmed"
          BY <1>2, <3>4, <5>1
        <5>3. Distance(voice, shown'[i].voice) <= Near
          <6>1. voice \in Int /\ candidates[q.number] \in Int /\ Near \in Nat
            BY <1>3, <3>4, FinalsAssumption
          <6>2. shown'[i].voice = candidates[q.number]
            BY <3>1, <3>4, <4>2
          <6>3. Distance(voice, candidates[q.number]) = Distance(candidates[q.number], voice)
            BY <6>1 DEF Distance
          <6> QED BY <3>4, <6>2, <6>3
        <5>4. voice # None
          BY <3>4, FinalsAssumption
        <5>5. segments + 1 > shown'[i].segment
          BY <1>1, <1>3, <2>1, <3>1
        <5>6. Later(i)
          BY <5>1, <5>2, <5>3, <5>4, <5>5 DEF Later
        <5>7. shown'[i].number \in DOMAIN clients' /\ shown'[i].number \notin DOMAIN candidates'
          BY <3>1, <3>4, <4>2
        <5> QED BY <3>1, <5>6, <5>7
      <4> QED BY <4>1, <4>2
    <3>5. CASE candidates' = candidates /\ DOMAIN clients' = DOMAIN clients
      BY <3>1, <3>5
    <3> QED BY <3>2, <3>3, <3>4, <3>5, RegistryIs
  <2>2. CASE i \in (Len(shown) + 1)..Len(shown')
    <3>1. /\ q.decision = "started" /\ shown'[i].number = q.number
          /\ shown'[i].identity = VoiceOf(q) /\ shown'[i].voice = voice
      BY <1>2, <1>6, <2>2
    <3>2. Len(shown) < Len(shown') /\ Len(shown') # Len(shown)
      BY <1>3, <2>2
    <3>3. /\ q.number = nextId /\ voice \in Voices /\ clients' = clients
          /\ DOMAIN candidates' = DOMAIN candidates \cup {nextId}
          /\ candidates'[nextId] = voice
      BY <3>1, <3>2, RegistryIs
    <3>4. VoiceOf(q) = None
      BY <3>1 DEF VoiceOf
    <3>5. nextId \notin DOMAIN clients
      BY <1>3
    <3> QED BY <3>1, <3>3, <3>4, <3>5
  <2> QED BY <1>1, <2>1, <2>2
<1> QED BY <1>6 DEF StartedInv

LEMMA KnownStep ==
  ASSUME TypeOK, KnownInv,
         NEW s, NEW end, NEW voice, NEW q, Ended(s, end, voice, q)
  PROVE  KnownInv'
<1>1. /\ \A k \in 1..Len(shown) : k \in 1..Len(shown') /\ shown'[k] = shown[k]
      /\ \A k \in 1..Len(shown') : k \in 1..Len(shown) \/ k \in (Len(shown) + 1)..Len(shown')
      /\ Len(shown) \in Nat /\ Len(shown') \in Nat
  BY PlacesIs
<1>2. \A k \in (Len(shown) + 1)..Len(shown') :
        /\ shown'[k].voice = voice /\ shown'[k].label = Label(s, q)
        /\ shown'[k].decision = q.decision /\ shown'[k].number = q.number
  BY DEF Ended
<1>3. /\ s \in setup.streams /\ voice \in Voices \cup {None} /\ q \in Queries(s, voice)
  BY DEF Ended
<1>4. ASSUME NEW n \in DOMAIN candidates
      PROVE  \E i \in 1..Len(shown) :
               /\ i \in 1..Len(shown') /\ shown'[i] = shown[i]
               /\ shown[i].decision = "started" /\ shown[i].number = n
               /\ shown[i].voice = candidates[n]
  <2>1. PICK i \in 1..Len(shown) : /\ shown[i].decision = "started" /\ shown[i].number = n
                                  /\ shown[i].voice = candidates[n]
    BY DEF KnownInv
  <2> QED BY <1>1, <2>1
<1>5. ASSUME NEW n \in DOMAIN clients
      PROVE  \E i, j \in 1..Len(shown') :
               /\ shown'[i].decision = "started" /\ shown'[i].number = n
               /\ shown'[j].decision = "confirmed" /\ shown'[j].number = n
               /\ i < j /\ Distance(shown'[i].voice, shown'[j].voice) <= Near
  <2>1. PICK i \in 1..Len(shown), j \in 1..Len(shown) :
               /\ shown[i].decision = "started" /\ shown[i].number = n
               /\ shown[j].decision = "confirmed" /\ shown[j].number = n
               /\ i < j /\ Distance(shown[i].voice, shown[j].voice) <= Near
    BY DEF KnownInv
  <2>2. /\ i \in 1..Len(shown') /\ shown'[i] = shown[i]
        /\ j \in 1..Len(shown') /\ shown'[j] = shown[j]
    BY <1>1
  <2> QED BY <2>1, <2>2
<1>6. /\ \A n \in DOMAIN clients : n \in DOMAIN clients'
      /\ \A n \in DOMAIN candidates' :
           \/ n \in DOMAIN candidates /\ candidates'[n] = candidates[n]
           \/ /\ q.decision = "started" /\ n = q.number /\ candidates'[n] = voice
              /\ Len(shown) < Len(shown')
      /\ \A n \in DOMAIN clients' :
           \/ n \in DOMAIN clients
           \/ /\ q.decision = "confirmed" /\ n = q.number /\ n \in DOMAIN candidates
              /\ Distance(candidates[n], voice) <= Near /\ Len(shown) < Len(shown')
      /\ Len(shown) < Len(shown') /\ q.decision \in {"existing", "confirmed"} =>
           q.number \in DOMAIN clients'
  <2>1. CASE /\ UNCHANGED registryVars
             /\ q.decision \in {"started", "confirmed"} => Len(shown') = Len(shown)
    <3>1. q.decision = "existing" => q.number \in DOMAIN clients
      BY <1>3, QueryIs
    <3> QED BY <1>1, <2>1, <3>1 DEF registryVars
  <2>2. CASE ~(/\ UNCHANGED registryVars
               /\ q.decision \in {"started", "confirmed"} => Len(shown') = Len(shown))
    BY <2>2, RegistryIs
  <2> QED BY <2>1, <2>2
<1>7. Len(shown) < Len(shown') =>
        Len(shown') \in (Len(shown) + 1)..Len(shown') /\ Len(shown') \in 1..Len(shown')
  BY <1>1
<1>8. ASSUME NEW n \in DOMAIN candidates'
      PROVE  \E i \in 1..Len(shown') :
               /\ shown'[i].decision = "started" /\ shown'[i].number = n
               /\ shown'[i].voice = candidates'[n]
  <2>1. CASE n \in DOMAIN candidates /\ candidates'[n] = candidates[n]
    <3>1. PICK i \in 1..Len(shown) :
               /\ i \in 1..Len(shown') /\ shown'[i] = shown[i]
               /\ shown[i].decision = "started" /\ shown[i].number = n
               /\ shown[i].voice = candidates[n]
      BY <1>4, <2>1
    <3> QED BY <2>1, <3>1
  <2>2. CASE /\ q.decision = "started" /\ n = q.number /\ candidates'[n] = voice
             /\ Len(shown) < Len(shown')
    BY <1>2, <1>7, <2>2
  <2> QED BY <1>6, <2>1, <2>2
<1>9. ASSUME NEW n \in DOMAIN clients'
      PROVE  \E i, j \in 1..Len(shown') :
               /\ shown'[i].decision = "started" /\ shown'[i].number = n
               /\ shown'[j].decision = "confirmed" /\ shown'[j].number = n
               /\ i < j /\ Distance(shown'[i].voice, shown'[j].voice) <= Near
  <2>1. CASE n \in DOMAIN clients
    BY <1>5, <2>1
  <2>2. CASE /\ q.decision = "confirmed" /\ n = q.number /\ n \in DOMAIN candidates
             /\ Distance(candidates[n], voice) <= Near /\ Len(shown) < Len(shown')
    <3>1. PICK i \in 1..Len(shown) :
               /\ i \in 1..Len(shown') /\ shown'[i] = shown[i]
               /\ shown[i].decision = "started" /\ shown[i].number = n
               /\ shown[i].voice = candidates[n]
      BY <1>4, <2>2
    <3>2. /\ shown'[Len(shown')].decision = "confirmed" /\ shown'[Len(shown')].number = n
          /\ shown'[Len(shown')].voice = voice
      BY <1>2, <1>7, <2>2
    <3>3. i < Len(shown')
      BY <1>1, <2>2
    <3> QED BY <1>7, <2>2, <3>1, <3>2, <3>3
  <2> QED BY <1>6, <2>1, <2>2
<1>10. ASSUME NEW i \in 1..Len(shown'), shown'[i].label = "client"
       PROVE  shown'[i].number \in DOMAIN clients'
  <2>1. CASE i \in 1..Len(shown)
    <3>1. shown'[i] = shown[i]
      BY <1>1, <2>1
    <3>2. shown[i].number \in DOMAIN clients
      BY <1>10, <2>1, <3>1 DEF KnownInv
    <3> QED BY <1>6, <3>1, <3>2
  <2>2. CASE i \in (Len(shown) + 1)..Len(shown')
    <3>1. Label(s, q) = "client" /\ shown'[i].number = q.number
      BY <1>2, <1>10, <2>2
    <3>2. q.decision \in {"existing", "confirmed"}
      BY <3>1 DEF Label, FallbackLabel
    <3>3. Len(shown) < Len(shown')
      BY <1>1, <2>2
    <3> QED BY <1>6, <3>1, <3>2, <3>3
  <2> QED BY <1>1, <2>1, <2>2
<1> QED BY <1>8, <1>9, <1>10 DEF KnownInv

LEMMA AlternatingStep ==
  ASSUME TypeOK, OrderInv, StartedInv, AlternatingVoicesAreTold,
         NEW s, NEW end, NEW voice, NEW q, Ended(s, end, voice, q)
  PROVE  AlternatingVoicesAreTold'
<1>1. /\ \A k \in 1..Len(shown) : k \in 1..Len(shown') /\ shown'[k] = shown[k]
      /\ \A k \in 1..Len(shown') : k \in 1..Len(shown) \/ k \in (Len(shown) + 1)..Len(shown')
      /\ Len(shown) \in Nat /\ Len(shown') \in Nat
      /\ \A k \in 1..Len(shown) : shown[k].segment \in Nat /\ shown[k].segment <= segments
  BY PlacesIs, FinalTypes DEF OrderInv, SegmentsEnded
<1>2. \A k \in (Len(shown) + 1)..Len(shown') :
        /\ shown'[k].segment = segments + 1
        /\ shown'[k].voice = voice /\ shown'[k].decision = q.decision
  BY DEF Ended
<1>3. s \in setup.streams /\ voice \in Voices \cup {None} /\ q \in Queries(s, voice)
  BY DEF Ended
<1>3a. segments \in Nat
  BY FinalsAssumption DEF TypeOK
<1> SUFFICES ASSUME NEW j \in 1..Len(shown'), NEW i \in 1..(j - 1),
                    shown'[i].decision = "started",
                    shown'[j].voice # None, Distance(shown'[j].voice, shown'[i].voice) <= Near,
                    shown'[j].segment > shown'[i].segment,
                    \A k \in (i + 1)..(j - 1) :
                      /\ shown'[k].voice # None
                      /\ Distance(shown'[k].voice, shown'[i].voice) <= Near
                      /\ shown'[k].segment > shown'[i].segment
                      => shown'[k].segment = shown'[j].segment
             PROVE  shown'[j].decision \in {"owner", "existing", "confirmed"}
  BY DEF AlternatingVoicesAreTold
<1>4. CASE j \in 1..Len(shown)
  <2>1. /\ i \in 1..Len(shown) /\ shown'[i] = shown[i] /\ shown'[j] = shown[j]
        /\ \A k \in (i + 1)..(j - 1) : shown'[k] = shown[k]
    BY <1>1, <1>4
  <2>2. \A k \in (i + 1)..(j - 1) :
          /\ shown[k].voice # None
          /\ Distance(shown[k].voice, shown[i].voice) <= Near
          /\ shown[k].segment > shown[i].segment
          => shown[k].segment = shown[j].segment
    BY <2>1
  <2>3. /\ shown[i].decision = "started"
        /\ shown[j].voice # None /\ Distance(shown[j].voice, shown[i].voice) <= Near
        /\ shown[j].segment > shown[i].segment
    BY <2>1
  <2>4. shown[j].decision \in {"owner", "existing", "confirmed"}
    BY <1>4, <2>2, <2>3 DEF AlternatingVoicesAreTold
  <2> QED BY <2>1, <2>4
<1>5. CASE j \in (Len(shown) + 1)..Len(shown')
  <2>1. /\ shown'[j].segment = segments + 1
        /\ shown'[j].voice = voice /\ shown'[j].decision = q.decision
    BY <1>2, <1>5
  <2>2. i \in 1..Len(shown) /\ shown'[i] = shown[i]
    <3>1. i \in 1..Len(shown') /\ shown'[i].segment # segments + 1
      BY <1>1, <1>3a, <2>1
    <3> QED BY <1>1, <1>2, <3>1
  <2>3. voice \in Voices /\ voice # None /\ Distance(voice, shown[i].voice) <= Near
    BY <1>3, <2>1, <2>2
  <2>4. /\ shown[i].number \in DOMAIN candidates \cup DOMAIN clients
        /\ shown[i].voice \in Voices
        /\ shown[i].number \in DOMAIN candidates => shown[i].voice = candidates[shown[i].number]
        /\ shown[i].number \in DOMAIN clients =>
             \E k \in 1..Len(shown) :
               /\ shown[k].decision = "confirmed" /\ shown[k].voice # None
               /\ Distance(shown[k].voice, shown[i].voice) <= Near
               /\ shown[k].segment > shown[i].segment
    BY <2>2 DEF StartedInv
  <2>5. shown[i].number \notin DOMAIN clients
    <3> SUFFICES ASSUME shown[i].number \in DOMAIN clients PROVE FALSE
      OBVIOUS
    <3>1. PICK k \in 1..Len(shown) :
            /\ shown[k].voice # None
            /\ Distance(shown[k].voice, shown[i].voice) <= Near
            /\ shown[k].segment > shown[i].segment
      BY <2>4
    <3>2. shown'[k] = shown[k] /\ shown[k].segment # segments + 1
      BY <1>1, <1>3a
    <3>3. k > i
      <4>1. k <= i => shown[k].segment <= shown[i].segment
        BY <2>2 DEF OrderInv
      <4>2. shown[k].segment \in Nat /\ shown[i].segment \in Nat
        BY <1>1, <2>2
      <4> QED BY <2>2, <3>1, <4>1, <4>2
    <3>4. k \in (i + 1)..(j - 1)
      BY <1>1, <1>5, <3>3
    <3> QED BY <2>1, <2>2, <3>1, <3>2, <3>4
  <2>6. Nearest(candidates, voice) # {}
    <3>1. shown[i].number \in DOMAIN candidates /\ shown[i].voice = candidates[shown[i].number]
      BY <2>4, <2>5
    <3>2. voice \in Int /\ shown[i].voice \in Int /\ Near \in Nat
      BY <2>3, <2>4, FinalsAssumption
    <3>3. Distance(candidates[shown[i].number], voice) <= Near
      BY <2>3, <3>1, <3>2 DEF Distance
    <3> QED BY <2>3, <3>1, <3>3, SomeIsNearest
  <2>7. q.decision \in {"owner", "existing", "confirmed"}
    BY <1>3, <2>3, <2>6, QueryIs
  <2> QED BY <2>1, <2>7
<1> QED BY <1>1, <1>4, <1>5

LEMMA NamesStep ==
  ASSUME TypeOK, KnownInv, StartedInv, NamesAreEarned,
         NEW s, NEW end, NEW voice, NEW q, Ended(s, end, voice, q)
  PROVE  NamesAreEarned'
<1>1. /\ \A k \in 1..Len(shown) : k \in 1..Len(shown') /\ shown'[k] = shown[k]
      /\ \A k \in 1..Len(shown') : k \in 1..Len(shown) \/ k \in (Len(shown) + 1)..Len(shown')
      /\ Len(shown) \in Nat /\ Len(shown') \in Nat
  BY PlacesIs
<1>2. \A k \in (Len(shown) + 1)..Len(shown') :
        /\ shown'[k].stream = s /\ shown'[k].voice = voice /\ shown'[k].label = Label(s, q)
        /\ shown'[k].decision = q.decision /\ shown'[k].identity = VoiceOf(q)
  BY DEF Ended
<1>3. /\ s \in setup.streams /\ s \in Streams /\ voice \in Voices \cup {None}
      /\ q \in Queries(s, voice) /\ setup' = setup
  BY DEF Ended
<1>4. Classified' = Classified
  BY <1>3 DEF Classified
<1> SUFFICES ASSUME NEW i \in 1..Len(shown')
             PROVE  LET f == shown'[i]
                    IN  /\ f.label = "me" /\ f.stream \in Classified =>
                             setup.owner /\ f.identity \in {0, None}
                        /\ f.stream = Client => f.label # "me"
                        /\ f.identity = 0 => f.voice = OwnerVoice /\ setup.owner
                        /\ f.identity \in 1..MaxClients =>
                             \E k \in 1..(i - 1) :
                               shown'[k].number = f.identity /\ shown'[k].identity = None
  BY <1>3, <1>4, Zenon DEF NamesAreEarned
<1>5. CASE i \in 1..Len(shown)
  <2>1. shown'[i] = shown[i] /\ \A k \in 1..(i - 1) : shown'[k] = shown[k]
    BY <1>1, <1>5
  <2> QED BY <1>5, <2>1 DEF NamesAreEarned
<1>6. CASE i \in (Len(shown) + 1)..Len(shown')
  <2>1. /\ shown'[i].stream = s /\ shown'[i].voice = voice /\ shown'[i].label = Label(s, q)
        /\ shown'[i].decision = q.decision /\ shown'[i].identity = VoiceOf(q)
    BY <1>2, <1>6
  <2>2. /\ q.decision = "owner" => q.number = 0 /\ IsOwner(s, voice)
        /\ q.decision \in {"existing", "confirmed"} =>
             q.number \in DOMAIN candidates \cup DOMAIN clients
        /\ q.decision \in {"fallback", "owner", "existing", "confirmed", "limit", "started"}
    BY <1>3, QueryIs
  <2>3. IsOwner(s, voice) => s = User /\ setup.owner /\ voice = OwnerVoice
    BY DEF IsOwner
  <2>4. None \notin Int /\ User # Client
    BY FinalsAssumption
  <2>5. \A n \in DOMAIN candidates \cup DOMAIN clients : n \in Nat /\ n >= 1
    BY FinalsAssumption DEF TypeOK
  <2>6. FallbackLabel(s) = "me" => s # Client /\ (s \in Classified => setup.owner)
    BY <1>3 DEF FallbackLabel, Streams
  <2>7. Label(s, q) = "me" /\ s \in Classified =>
          setup.owner /\ VoiceOf(q) \in {0, None}
    BY <2>2, <2>3, <2>6 DEF Label, VoiceOf
  <2>8. s = Client => Label(s, q) # "me"
    BY <2>2, <2>3, <2>4, <2>6 DEF Label
  <2>9. VoiceOf(q) = 0 => voice = OwnerVoice /\ setup.owner
    BY <2>2, <2>3, <2>4, <2>5 DEF VoiceOf
  <2>10. ASSUME VoiceOf(q) \in 1..MaxClients
         PROVE  \E k \in 1..(i - 1) :
                  shown'[k].number = VoiceOf(q) /\ shown'[k].identity = None
    <3>1. VoiceOf(q) = q.number /\ q.number \in DOMAIN candidates \cup DOMAIN clients
      <4>1. VoiceOf(q) # None /\ VoiceOf(q) # 0
        BY <2>4, <2>10, FinalsAssumption
      <4> QED BY <2>2, <4>1 DEF VoiceOf
    <3>2. PICK k \in 1..Len(shown) :
            shown[k].decision = "started" /\ shown[k].number = q.number
      BY <3>1 DEF KnownInv
    <3>3. shown[k].identity = None
      BY <3>2 DEF StartedInv
    <3>4. k \in 1..(i - 1) /\ shown'[k] = shown[k]
      BY <1>1, <1>6
    <3> QED BY <3>1, <3>2, <3>3, <3>4
  <2> QED BY <2>1, <2>7, <2>8, <2>9, <2>10
<1> QED BY <1>1, <1>5, <1>6

LEMMA ObserversStep ==
  ASSUME TypeOK, OrderInv, ObserversSeeWhatIsShown,
         NEW s, NEW end, NEW voice, NEW q, Ended(s, end, voice, q)
  PROVE  ObserversSeeWhatIsShown'
<1>1. /\ \A k \in 1..Len(shown) : k \in 1..Len(shown') /\ shown'[k] = shown[k]
      /\ \A k \in 1..Len(shown') : k \in 1..Len(shown) \/ k \in (Len(shown) + 1)..Len(shown')
      /\ Len(shown) \in Nat /\ Len(shown') \in Nat
      /\ \A k \in 1..Len(shown) : shown[k].segment \in Nat /\ shown[k].segment <= segments
  BY PlacesIs, FinalTypes DEF OrderInv, SegmentsEnded
<1>2. \A k \in (Len(shown) + 1)..Len(shown') : shown'[k].segment = segments + 1
  BY DEF Ended
<1>3. segments \in Nat /\ dispatched \in Seq(Finals) /\ Len(dispatched) \in Nat
  BY FinalsAssumption, LenProperties DEF TypeOK
<1>4. ASSUME NEW i \in 1..Len(dispatched)
      PROVE  /\ dispatched[i].segment \in Nat /\ dispatched[i].segment <= segments
             /\ \E k \in 1..Len(shown') :
                  /\ shown'[k] = dispatched[i]
                  /\ \A m \in (k + 1)..Len(shown') : shown'[m].segment > shown'[k].segment
  <2>1. PICK k \in 1..Len(shown) :
          /\ shown[k] = dispatched[i]
          /\ \A m \in (k + 1)..Len(shown) : shown[m].segment > shown[k].segment
    BY DEF ObserversSeeWhatIsShown
  <2>2. k \in 1..Len(shown') /\ shown'[k] = dispatched[i]
    BY <1>1, <2>1
  <2>3. ASSUME NEW m \in (k + 1)..Len(shown') PROVE shown'[m].segment > shown'[k].segment
    <3>1. m \in 1..Len(shown')
      BY <1>1
    <3>2. CASE m \in 1..Len(shown)
      <4>1. m \in (k + 1)..Len(shown)
        BY <1>1, <3>2
      <4> QED BY <1>1, <2>1, <3>2, <4>1
    <3>3. CASE m \in (Len(shown) + 1)..Len(shown')
      <4>1. shown'[m].segment = segments + 1 /\ shown'[k] = shown[k]
            /\ shown[k].segment \in Nat /\ shown[k].segment <= segments
        BY <1>1, <1>2, <3>3
      <4> QED BY <1>3, <4>1
    <3> QED BY <1>1, <3>1, <3>2, <3>3
  <2>4. dispatched[i].segment \in Nat /\ dispatched[i].segment <= segments
    BY <1>1, <2>1
  <2> QED BY <2>2, <2>3, <2>4
<1>5. \A i \in 1..Len(dispatched) : \A k \in 1..(i - 1) :
        dispatched[k].segment < dispatched[i].segment
  BY DEF ObserversSeeWhatIsShown
<1>6. CASE dispatched' = dispatched
  BY <1>4, <1>5, <1>6 DEF ObserversSeeWhatIsShown
<1>7. CASE /\ Len(shown) < Len(shown')
           /\ dispatched' = Append(dispatched, shown'[Len(shown')])
  <2>1. Len(shown') \in 1..Len(shown') /\ Len(shown') \in (Len(shown) + 1)..Len(shown')
    BY <1>1, <1>7
  <2>2. shown'[Len(shown')] \in Finals /\ shown'[Len(shown')].segment = segments + 1
    BY <1>2, <2>1, PlacesIs
  <2>3. /\ Len(dispatched') = Len(dispatched) + 1
        /\ dispatched'[Len(dispatched) + 1] = shown'[Len(shown')]
        /\ \A i \in 1..Len(dispatched) : dispatched'[i] = dispatched[i]
    BY <1>3, <1>7, <2>2, AppendProperties
  <2>4. ASSUME NEW i \in 1..Len(dispatched')
        PROVE  \E k \in 1..Len(shown') :
                 /\ shown'[k] = dispatched'[i]
                 /\ \A m \in (k + 1)..Len(shown') : shown'[m].segment > shown'[k].segment
    <3>1. CASE i = Len(dispatched) + 1
      <4>1. \A m \in (Len(shown') + 1)..Len(shown') : FALSE
        BY <1>1
      <4> QED BY <2>1, <2>3, <3>1, <4>1
    <3>2. CASE i # Len(dispatched) + 1
      <4>1. i \in 1..Len(dispatched) /\ dispatched'[i] = dispatched[i]
        BY <1>3, <2>3, <3>2
      <4> QED BY <1>4, <4>1
    <3> QED BY <3>1, <3>2
  <2>5. ASSUME NEW i \in 1..Len(dispatched'), NEW k \in 1..(i - 1)
        PROVE  dispatched'[k].segment < dispatched'[i].segment
    <3>1. k \in 1..Len(dispatched) /\ dispatched'[k] = dispatched[k]
      BY <1>3, <2>3
    <3>2. CASE i = Len(dispatched) + 1
      <4>1. dispatched'[i].segment = segments + 1
        BY <2>2, <2>3, <3>2
      <4>2. dispatched[k].segment \in Nat /\ dispatched[k].segment <= segments
        BY <1>4, <3>1
      <4> QED BY <1>3, <3>1, <4>1, <4>2
    <3>3. CASE i # Len(dispatched) + 1
      <4>1. i \in 1..Len(dispatched) /\ dispatched'[i] = dispatched[i]
        BY <1>3, <2>3, <3>3
      <4> QED BY <1>5, <3>1, <4>1
    <3> QED BY <3>2, <3>3
  <2> QED BY <2>4, <2>5 DEF ObserversSeeWhatIsShown
<1> QED BY <1>6, <1>7 DEF Ended

LEMMA FinalsInitInv == FinalsInit => FinalsInv
<1> SUFFICES ASSUME FinalsInit PROVE FinalsInv
  OBVIOUS
<1>1. /\ setup \in Setups /\ segments = 0 /\ clock = [s \in Streams |-> 0]
      /\ nextId = 1 /\ candidates = <<>> /\ clients = <<>>
      /\ history = <<>> /\ echoes = {} /\ shown = <<>> /\ dispatched = <<>>
  BY DEF FinalsInit
<1>2. /\ shown \in Seq(Finals) /\ Len(shown) = 0 /\ Len(history) = 0 /\ Len(dispatched) = 0
      /\ history \in Seq(Finals) /\ dispatched \in Seq(Finals)
      /\ DOMAIN candidates = {} /\ DOMAIN clients = {}
  BY <1>1
<1>3. HistoryCap \in Nat /\ HistoryCap >= 1 /\ MaxClients \in Nat /\ MaxSegments \in Nat
      /\ MaxTime \in Nat
  BY FinalsAssumption
<1>4. TypeOK
  <2>1. clock \in [Streams -> 0..MaxTime]
    BY <1>1, <1>3
  <2> QED BY <1>1, <1>2, <1>3, <2>1 DEF TypeOK
<1>5. AccountInv(AccountNow)
  <2>1. AccountNow \in Accounts
    BY <1>1, <1>2 DEF AccountNow, Accounts
  <2>2. HistoryIs(history, shown) /\ EchoesKept(echoes, shown) /\ ShownOnce(shown)
    BY <1>1, <1>2, <1>3 DEF HistoryIs, EchoesKept, ShownOnce
  <2> QED BY <2>1, <2>2 DEF AccountInv, AccountNow
<1>6. OrderInv /\ StartedInv /\ KnownInv
  BY <1>2 DEF OrderInv, SegmentsEnded, StartedInv, KnownInv
<1>7. AlternatingVoicesAreTold /\ NamesAreEarned /\ ObserversSeeWhatIsShown
  BY <1>2 DEF AlternatingVoicesAreTold, NamesAreEarned, ObserversSeeWhatIsShown
<1> QED BY <1>4, <1>5, <1>6, <1>7 DEF FinalsInv

LEMMA FinalsStep == FinalsInv /\ [FinalsNext]_finalsVars => FinalsInv'
<1> SUFFICES ASSUME FinalsInv, [FinalsNext]_finalsVars PROVE FinalsInv'
  OBVIOUS
<1>1. ASSUME NEW s \in Streams, Finish(s) PROVE FinalsInv'
  <2>1. PICK end \in 1..MaxTime, voice \in Voices \cup {None} :
          \E q \in Queries(s, voice) : Ended(s, end, voice, q)
    BY <1>1, FinishIs
  <2>2. PICK q \in Queries(s, voice) : Ended(s, end, voice, q)
    BY <2>1
  <2>3. AccountInv(AccountNow)'
    BY <1>1, FinishIs
  <2>4. TypeOK /\ OrderInv /\ StartedInv /\ KnownInv /\ AlternatingVoicesAreTold
        /\ NamesAreEarned /\ ObserversSeeWhatIsShown
    BY DEF FinalsInv
  <2>5. TypeOK'
    BY <2>2, <2>3, <2>4, TypeStep
  <2>6. OrderInv' /\ StartedInv' /\ KnownInv'
    BY <2>2, <2>4, OrderStep, StartedStep, KnownStep
  <2>7. AlternatingVoicesAreTold' /\ NamesAreEarned' /\ ObserversSeeWhatIsShown'
    BY <2>2, <2>4, AlternatingStep, NamesStep, ObserversStep
  <2> QED BY <2>3, <2>5, <2>6, <2>7 DEF FinalsInv
<1>2. CASE UNCHANGED finalsVars
  BY <1>2 DEF finalsVars, registryVars, FinalsInv, TypeOK, AccountInv, AccountNow, HistoryIs,
    EchoesKept, ShownOnce, OrderInv, SegmentsEnded, StartedInv, KnownInv,
    AlternatingVoicesAreTold, NamesAreEarned, ObserversSeeWhatIsShown, Classified
<1> QED BY <1>1, <1>2 DEF FinalsNext

LEMMA FinalsInvariant == FinalsSpec => []FinalsInv
BY FinalsInitInv, FinalsStep, PTL DEF FinalsSpec

\* Since the times of a stream never go back, what is too late hides nothing.
LEMMA OrderFindsDuplicates ==
  ASSUME TypeOK, OrderInv
  PROVE  DuplicatesAreFound
<1>1. shown \in Seq(Finals) /\ Len(shown) \in Nat /\ DOMAIN shown = 1..Len(shown)
      /\ DuplicateWindow \in Nat
  BY LenProperties, FinalsAssumption DEF TypeOK
<1>2. \A k \in 1..Len(shown) : shown[k].ts \in Nat
  BY <1>1, ElementOfSeq, FinalTypes
<1>3. \A k, m \in 1..Len(shown) :
        k <= m /\ shown[k].stream = shown[m].stream => shown[k].ts <= shown[m].ts
  BY DEF OrderInv
<1> DEFINE Together(p) == /\ p[1] < p[2] /\ shown[p[1]].stream = shown[p[2]].stream
                          /\ Similar(shown[p[1]].text, shown[p[2]].text)
           Late(i, k) == Gap(shown[k].ts, shown[i].ts) > DuplicateWindow
           Reached(p) == ~\E k \in (p[1] + 1)..p[2] :
                            shown[k].stream = shown[p[1]].stream /\ Late(p[1], k)
           Close(p) == Gap(shown[p[2]].ts, shown[p[1]].ts) <= DuplicateWindow
<1>4. ASSUME NEW p \in (DOMAIN shown) \X (DOMAIN shown), Together(p)
      PROVE  Reached(p) <=> Close(p)
  <2>1. PICK i \in 1..Len(shown), j \in 1..Len(shown) : i = p[1] /\ j = p[2]
    BY <1>1
  <2>2. i < j /\ shown[i].stream = shown[j].stream
    BY <1>4, <2>1
  <2>3. shown[i].ts \in Nat /\ shown[j].ts \in Nat
    BY <1>2
  <2>4. ASSUME Reached(p) PROVE Close(p)
    <3>1. j \in (i + 1)..j
      BY <1>1, <2>2
    <3>2. ~(Gap(shown[j].ts, shown[i].ts) > DuplicateWindow)
      BY <2>1, <2>2, <2>4, <3>1
    <3>3. Gap(shown[j].ts, shown[i].ts) \in Nat
      BY <2>3 DEF Gap
    <3>4. Gap(shown[j].ts, shown[i].ts) <= DuplicateWindow
      BY <1>1, <3>2, <3>3
    <3> QED BY <2>1, <3>4
  <2>5. ASSUME Close(p), NEW k \in (i + 1)..j, shown[k].stream = shown[i].stream
        PROVE  ~(Gap(shown[k].ts, shown[i].ts) > DuplicateWindow)
    <3>1. k \in 1..Len(shown) /\ k <= j /\ shown[k].stream = shown[j].stream
      BY <1>1, <2>2, <2>5
    <3>2. shown[k].ts \in Nat /\ shown[k].ts <= shown[j].ts
      BY <1>2, <1>3, <3>1
    <3>3. Gap(shown[j].ts, shown[i].ts) <= DuplicateWindow
      BY <2>1, <2>5
    <3> QED BY <1>1, <2>3, <3>2, <3>3 DEF Gap
  <2>6. Close(p) => Reached(p)
    BY <2>1, <2>5
  <2> QED BY <2>4, <2>6
<1>5. Duplicates(shown) = {p \in (DOMAIN shown) \X (DOMAIN shown) : Together(p) /\ Reached(p)}
  BY DEF Duplicates
<1>6. {p \in (DOMAIN shown) \X (DOMAIN shown) :
         /\ p[1] < p[2] /\ shown[p[1]].stream = shown[p[2]].stream
         /\ Gap(shown[p[2]].ts, shown[p[1]].ts) <= DuplicateWindow
         /\ Similar(shown[p[1]].text, shown[p[2]].text)}
      = {p \in (DOMAIN shown) \X (DOMAIN shown) : Together(p) /\ Close(p)}
  OBVIOUS
<1> HIDE DEF Together, Reached, Close
<1>7. {p \in (DOMAIN shown) \X (DOMAIN shown) : Together(p) /\ Reached(p)}
      = {p \in (DOMAIN shown) \X (DOMAIN shown) : Together(p) /\ Close(p)}
  BY <1>4
<1> QED BY <1>5, <1>6, <1>7 DEF DuplicatesAreFound

\* The two streams together: a sentence that both hear is shown, and once; and the
\* search for what a stream said twice misses nothing (cross_stream_dedup.rs:1-2,
\* session lib.rs:97-125).
THEOREM EchoesDropped == FinalsSpec => []EchoesAreDropped
<1>1. ASSUME FinalsInv PROVE EchoesAreDropped
  <2>1. TypeOK /\ OrderInv /\ EchoesKept(echoes, shown) /\ ShownOnce(shown)
    BY <1>1 DEF FinalsInv, AccountInv, AccountNow
  <2>2. EchoKeepsOne /\ EchoIsShownOnce
    BY <2>1, Zenon DEF EchoesKept, ShownOnce, EchoKeepsOne, EchoIsShownOnce
  <2>3. DuplicatesAreFound
    BY <2>1, OrderFindsDuplicates
  <2> QED BY <2>1, <2>2, <2>3 DEF EchoesAreDropped
<1> QED BY <1>1, FinalsInvariant, PTL

\* Who is known was heard in what was shown, who was heard twice is known whatever
\* was heard between, and who has a name has earned it (speaker.rs:253-381,
\* speaker_assignment.rs:27-76).
THEOREM SpeakersKnown == FinalsSpec => []SpeakersAreKnown
<1>1. ASSUME KnownInv PROVE KnownWereShown
  <2>1. ASSUME NEW n \in DOMAIN candidates
        PROVE  \E i \in {k \in 1..Len(shown) : shown[k].decision = "started"
                                               /\ shown[k].number = n} :
                 shown[i].voice = candidates[n]
    BY <1>1 DEF KnownInv
  <2>2. ASSUME NEW n \in DOMAIN clients
        PROVE  \E i \in {k \in 1..Len(shown) : shown[k].decision = "started"
                                               /\ shown[k].number = n},
                  j \in {k \in 1..Len(shown) : shown[k].decision = "confirmed"
                                               /\ shown[k].number = n} :
                 i < j /\ Distance(shown[i].voice, shown[j].voice) <= Near
    <3>1. PICK i \in 1..Len(shown), j \in 1..Len(shown) :
            /\ shown[i].decision = "started" /\ shown[i].number = n
            /\ shown[j].decision = "confirmed" /\ shown[j].number = n
            /\ i < j /\ Distance(shown[i].voice, shown[j].voice) <= Near
      BY <1>1 DEF KnownInv
    <3> QED BY <3>1
  <2>3. \A i \in 1..Len(shown) : shown[i].label = "client" => shown[i].number \in DOMAIN clients
    BY <1>1 DEF KnownInv
  <2> QED BY <2>1, <2>2, <2>3 DEF KnownWereShown
<1>2. FinalsInv => SpeakersAreKnown
  BY <1>1 DEF FinalsInv, SpeakersAreKnown
<1> QED BY <1>2, FinalsInvariant, PTL

\* The observers are called with what is shown and nothing else, in its order, once
\* for a segment at most and with its last final (pipeline lib.rs:837-854).
THEOREM ObserversSeeIt == FinalsSpec => []ObserversSeeWhatIsShown
<1>1. FinalsInv => ObserversSeeWhatIsShown
  BY DEF FinalsInv
<1> QED BY <1>1, FinalsInvariant, PTL
--------------------------------------------------------------------------------
(* What the page shows *)

\* The events the sink has let into the state, whether broadcast or not.
WasSaid == IF emitting = Nothing THEN log ELSE Append(log, emitting)
Events == SegmentEvents \cup StatusEvents

Views == {v \in [lines : Seq(Lines), partialKey : [Speakers -> Nat]] :
            \A s \in Speakers :
              /\ v.partialKey[s] <= Len(v.lines)
              /\ v.partialKey[s] # 0 =>
                   /\ v.lines[v.partialKey[s]].speaker = s
                   /\ v.lines[v.partialKey[s]].partial}

\* Event t of q is a final of s; it is the hypothesis of s after n events.
IsOf(q, t, s) == q[t].kind = "segment" /\ q[t].speaker = s
FinalIn(q, s, t) == IsOf(q, t, s) /\ ~q[t].partial
OpenIn(q, n, s, t) ==
  IsOf(q, t, s) /\ q[t].partial /\ \A j \in (t + 1)..n : ~IsOf(q, j, s)

Numbered(q) == \A t \in 1..Len(q) : q[t].kind = "segment" => q[t].text = t

\* What a view says of the first n events of q, all of them; but event d may be on
\* two lines, if it is not 0.
LinesInOrder(v, d) ==
  /\ \A i \in 1..Len(v.lines) : v.lines[i].partial => v.partialKey[v.lines[i].speaker] = i
  /\ \A i, j \in 1..Len(v.lines) :
       i < j /\ v.lines[i].speaker = v.lines[j].speaker =>
         /\ ~v.lines[i].partial
         /\ v.lines[i].text < v.lines[j].text \/ (v.lines[i].text = d /\ v.lines[j].text = d)
  /\ \A i, j, m \in 1..Len(v.lines) :
       /\ i < j /\ j < m
       /\ v.lines[i].speaker = v.lines[j].speaker /\ v.lines[j].speaker = v.lines[m].speaker
       => v.lines[i].text < v.lines[m].text
Shown(v, s, t, p) ==
  \E i \in 1..Len(v.lines) :
    v.lines[i].speaker = s /\ v.lines[i].text = t /\ v.lines[i].partial = p
Says(v, q, n) ==
  /\ \A i \in 1..Len(v.lines) : v.lines[i].text <= n
  /\ \A s \in Speakers, t \in 1..n :
       (FinalIn(q, s, t) <=> Shown(v, s, t, FALSE)) /\ (OpenIn(q, n, s, t) <=> Shown(v, s, t, TRUE))
Tells(v, q, n, d) == LinesInOrder(v, d) /\ Says(v, q, n)

LineOf(e) == [speaker |-> e.speaker, text |-> e.text, partial |-> e.partial]
PlaceFor(v, e) ==
  IF v.partialKey[e.speaker] = 0 THEN Len(v.lines) + 1 ELSE v.partialKey[e.speaker]

\* w is v after e, which is on line k.
Pushed(v, e, w, k) ==
  /\ w \in Views
  /\ k \in 1..Len(w.lines) /\ w.lines[k] = LineOf(e)
  /\ Len(w.lines) = IF k = Len(v.lines) + 1 THEN k ELSE Len(v.lines)
  /\ k = Len(v.lines) + 1 \/ v.partialKey[e.speaker] = k
  /\ \A i \in 1..Len(v.lines) : i # k => w.lines[i] = v.lines[i]
  /\ w.partialKey[e.speaker] = IF e.partial THEN k ELSE 0
  /\ \A s \in Speakers : s # e.speaker => w.partialKey[s] = v.partialKey[s]

\* Push puts the segment on a new line or on the open line of its speaker.
LEMMA PushIs ==
  ASSUME NEW v \in Views, NEW e, e.speaker \in Speakers, e.partial \in BOOLEAN,
         e.text \in 1..MaxEvents, NEW w, w = Push(v, e), NEW k, k = PlaceFor(v, e)
  PROVE  Pushed(v, e, w, k)
<1>0. /\ v.lines \in Seq(Lines) /\ v.partialKey \in [Speakers -> Nat]
      /\ v = [lines |-> v.lines, partialKey |-> v.partialKey]
      /\ Len(v.lines) \in Nat
      /\ v.partialKey[e.speaker] \in Nat /\ v.partialKey[e.speaker] <= Len(v.lines)
      /\ LineOf(e) \in Lines
  BY DEF Views, LineOf, Lines
<1>1. \A s \in Speakers : /\ v.partialKey[s] \in Nat /\ v.partialKey[s] <= Len(v.lines)
                          /\ v.partialKey[s] # 0 =>
                              /\ v.lines[v.partialKey[s]].speaker = s
                              /\ v.lines[v.partialKey[s]].partial
  BY DEF Views
<1>2. CASE v.partialKey[e.speaker] = 0
  <2>1. k = Len(v.lines) + 1
    BY <1>2 DEF PlaceFor
  <2>2. w.lines = Append(v.lines, LineOf(e))
    BY <1>2 DEF Push, NewLine, LineOf
  <2>3. w.partialKey = IF e.partial THEN [v.partialKey EXCEPT ![e.speaker] = k]
                                    ELSE v.partialKey
    BY <1>2, <2>1 DEF Push, NewLine
  <2>4. /\ w.lines \in Seq(Lines) /\ Len(w.lines) = k /\ w.lines[k] = LineOf(e)
        /\ \A i \in 1..Len(v.lines) : w.lines[i] = v.lines[i]
    BY <1>0, <2>1, <2>2
  <2>5. /\ w.partialKey \in [Speakers -> Nat]
        /\ w.partialKey[e.speaker] = IF e.partial THEN k ELSE 0
        /\ \A s \in Speakers : s # e.speaker => w.partialKey[s] = v.partialKey[s]
    BY <1>0, <1>2, <2>1, <2>3
  <2>6. w = [lines |-> w.lines, partialKey |-> w.partialKey]
    BY <1>2 DEF Push, NewLine
  <2>7. w \in Views
    <3>1. ASSUME NEW s \in Speakers
          PROVE  /\ w.partialKey[s] <= Len(w.lines)
                 /\ w.partialKey[s] # 0 => /\ w.lines[w.partialKey[s]].speaker = s
                                           /\ w.lines[w.partialKey[s]].partial
      <4>1. CASE s = e.speaker
        BY <1>0, <2>1, <2>4, <2>5, <4>1 DEF LineOf
      <4>2. CASE s # e.speaker
        <5>1. w.partialKey[s] = v.partialKey[s]
          BY <2>5, <4>2
        <5> QED BY <1>0, <1>1, <2>1, <2>4, <5>1
      <4> QED BY <4>1, <4>2
    <3>2. w \in [lines : Seq(Lines), partialKey : [Speakers -> Nat]]
      BY <2>4, <2>5, <2>6
    <3> QED BY <3>1, <3>2 DEF Views
  <2> QED BY <1>0, <2>1, <2>4, <2>5, <2>7 DEF Pushed
<1>3. CASE v.partialKey[e.speaker] # 0
  <2>1. k = v.partialKey[e.speaker] /\ k \in 1..Len(v.lines) /\ k # Len(v.lines) + 1
    BY <1>0, <1>3 DEF PlaceFor
  <2>2. v.lines[k] \in Lines /\ v.lines[k].speaker = e.speaker
    BY <1>0, <1>1, <1>3, <2>1, ElementOfSeq
  <2>3. [v.lines[k] EXCEPT !.text = e.text, !.partial = e.partial] = LineOf(e)
    <3> DEFINE r == v.lines[k]
    <3>1. r = [speaker |-> r.speaker, text |-> r.text, partial |-> r.partial]
      BY <2>2 DEF Lines
    <3>2. r.speaker = e.speaker
      BY <2>2
    <3> HIDE DEF r
    <3>3. PICK t, p : r = [speaker |-> e.speaker, text |-> t, partial |-> p]
      BY <3>1, <3>2
    <3>4. PICK r1 : r1 = [r EXCEPT !.text = e.text]
      OBVIOUS
    <3>5. r1 = [speaker |-> e.speaker, text |-> e.text, partial |-> p]
      BY <3>3, <3>4
    <3>6. [r1 EXCEPT !.partial = e.partial] = LineOf(e)
      BY <3>5 DEF LineOf
    <3>7. [r EXCEPT !.text = e.text, !.partial = e.partial] = [r1 EXCEPT !.partial = e.partial]
      BY <3>4
    <3> QED BY <3>6, <3>7 DEF r
  <2>4. w.lines = [v.lines EXCEPT ![k] = LineOf(e)]
    BY <1>3, <2>1, <2>3 DEF Push, UpdateLine
  <2>5. w.partialKey = IF e.partial THEN v.partialKey
                                    ELSE [v.partialKey EXCEPT ![e.speaker] = 0]
    BY <1>3 DEF Push, UpdateLine
  <2>6. /\ w.lines \in Seq(Lines) /\ Len(w.lines) = Len(v.lines) /\ w.lines[k] = LineOf(e)
        /\ \A i \in 1..Len(v.lines) : i # k => w.lines[i] = v.lines[i]
    BY <1>0, <2>1, <2>4
  <2>7. /\ w.partialKey \in [Speakers -> Nat]
        /\ w.partialKey[e.speaker] = IF e.partial THEN k ELSE 0
        /\ \A s \in Speakers : s # e.speaker => w.partialKey[s] = v.partialKey[s]
    BY <1>0, <2>1, <2>5
  <2>8. w = [lines |-> w.lines, partialKey |-> w.partialKey]
    BY <1>3 DEF Push, UpdateLine
  <2>9. w \in Views
    <3>1. ASSUME NEW s \in Speakers
          PROVE  /\ w.partialKey[s] <= Len(w.lines)
                 /\ w.partialKey[s] # 0 => /\ w.lines[w.partialKey[s]].speaker = s
                                           /\ w.lines[w.partialKey[s]].partial
      <4>1. CASE s = e.speaker
        BY <1>0, <2>1, <2>6, <2>7, <4>1 DEF LineOf
      <4>2. CASE s # e.speaker
        <5>1. w.partialKey[s] = v.partialKey[s]
          BY <2>7, <4>2
        <5>2. v.partialKey[s] # 0 => v.partialKey[s] # k /\ v.partialKey[s] \in 1..Len(v.lines)
          BY <1>0, <1>1, <2>2, <4>2
        <5> QED BY <1>0, <1>1, <2>6, <5>1, <5>2
      <4> QED BY <4>1, <4>2
    <3>2. w \in [lines : Seq(Lines), partialKey : [Speakers -> Nat]]
      BY <2>6, <2>7, <2>8
    <3> QED BY <3>1, <3>2 DEF Views
  <2> QED BY <1>0, <2>1, <2>6, <2>7, <2>9 DEF Pushed
<1> QED BY <1>2, <1>3

\* What a further event adds to what has been said.
LEMMA NextSaid ==
  ASSUME NEW q, NEW n \in Nat, NEW s
  PROVE  /\ \A t \in 1..n : OpenIn(q, n + 1, s, t) <=> OpenIn(q, n, s, t) /\ ~IsOf(q, n + 1, s)
         /\ OpenIn(q, n + 1, s, n + 1) <=> IsOf(q, n + 1, s) /\ q[n + 1].partial
<1>1. ASSUME NEW t \in 1..n
      PROVE  OpenIn(q, n + 1, s, t) <=> OpenIn(q, n, s, t) /\ ~IsOf(q, n + 1, s)
  <2>1. (\A j \in (t + 1)..(n + 1) : ~IsOf(q, j, s))
          <=> ~IsOf(q, n + 1, s) /\ \A j \in (t + 1)..n : ~IsOf(q, j, s)
    <3>1. \A j : j \in (t + 1)..(n + 1) <=> j \in (t + 1)..n \/ j = n + 1
      OBVIOUS
    <3> QED BY <3>1, Zenon
  <2> QED BY <2>1 DEF OpenIn
<1>2. OpenIn(q, n + 1, s, n + 1) <=> IsOf(q, n + 1, s) /\ q[n + 1].partial
  <2>1. \A j : j \notin (n + 1 + 1)..(n + 1)
    OBVIOUS
  <2> QED BY <2>1 DEF OpenIn
<1> QED BY <1>1, <1>2

\* A view that tells the first n events tells one more when that is pushed.
LEMMA PushTells ==
  ASSUME NEW q, NEW n \in Nat, NEW v \in Views, NEW d, Tells(v, q, n, d), NEW e, e = q[n + 1],
         e \in SegmentEvents, e.text = n + 1
  PROVE  Push(v, e) \in Views /\ Tells(Push(v, e), q, n + 1, d)
<1>0. /\ e.speaker \in Speakers /\ e.partial \in BOOLEAN /\ e.text \in 1..MaxEvents
      /\ e.kind = "segment"
  BY DEF SegmentEvents
<1>0a. PICK w : w = Push(v, e)
  OBVIOUS
<1>0b. PICK k : k = PlaceFor(v, e)
  OBVIOUS
<1>0c. Pushed(v, e, w, k)
  BY ONLY v \in Views, <1>0, <1>0a, <1>0b, PushIs
<1>1. /\ w \in Views
      /\ k \in 1..Len(w.lines) /\ w.lines[k] = LineOf(e)
      /\ Len(w.lines) = IF k = Len(v.lines) + 1 THEN k ELSE Len(v.lines)
      /\ k = Len(v.lines) + 1 \/ v.partialKey[e.speaker] = k
      /\ \A i \in 1..Len(v.lines) : i # k => w.lines[i] = v.lines[i]
      /\ w.partialKey[e.speaker] = IF e.partial THEN k ELSE 0
      /\ \A s \in Speakers : s # e.speaker => w.partialKey[s] = v.partialKey[s]
  BY <1>0c DEF Pushed
\* k is the open line of the speaker, if there is one, and only that.
<1>2. /\ v.lines \in Seq(Lines) /\ Len(v.lines) \in Nat
      /\ \A i \in 1..Len(v.lines) :
           v.lines[i].speaker \in Speakers /\ v.lines[i].partial \in BOOLEAN
             /\ v.lines[i].text \in Nat /\ v.lines[i].text <= n
      /\ \A i \in 1..Len(v.lines) :
           v.lines[i].speaker = e.speaker /\ v.lines[i].partial <=> i = k
  <2>1. v.lines \in Seq(Lines) /\ Len(v.lines) \in Nat
    BY DEF Views
  <2>2. ASSUME NEW i \in 1..Len(v.lines)
        PROVE  v.lines[i].speaker \in Speakers /\ v.lines[i].partial \in BOOLEAN
                 /\ v.lines[i].text \in Nat /\ v.lines[i].text <= n
    <3>1. v.lines[i] \in Lines
      BY <2>1, ElementOfSeq
    <3> QED BY <3>1 DEF Lines, Tells, Says
  <2>3. ASSUME NEW i \in 1..Len(v.lines)
        PROVE  v.lines[i].speaker = e.speaker /\ v.lines[i].partial <=> i = k
    <3>1. v.lines[i].partial => v.partialKey[v.lines[i].speaker] = i
      BY DEF Tells, LinesInOrder
    <3>2. v.partialKey[e.speaker] # 0 => /\ v.lines[v.partialKey[e.speaker]].speaker = e.speaker
                                         /\ v.lines[v.partialKey[e.speaker]].partial
      BY <1>0 DEF Views
    <3>3. ASSUME v.lines[i].speaker = e.speaker, v.lines[i].partial PROVE i = k
      <4>1. v.partialKey[e.speaker] = i /\ i # 0
        BY <2>1, <3>1, <3>3
      <4> QED BY <1>0b, <4>1 DEF PlaceFor
    <3>4. ASSUME i = k PROVE v.lines[i].speaker = e.speaker /\ v.lines[i].partial
      <4>1. v.partialKey[e.speaker] # 0
        BY <1>0b, <2>1, <3>4 DEF PlaceFor
      <4>2. v.partialKey[e.speaker] = k
        BY <1>0b, <4>1 DEF PlaceFor
      <4> QED BY <3>2, <3>4, <4>1, <4>2
    <3> QED BY <3>3, <3>4
  <2> QED BY <2>1, <2>2, <2>3
<1>3. \A i \in 1..Len(w.lines) :
        i = k \/ (i \in 1..Len(v.lines) /\ i # k /\ w.lines[i] = v.lines[i])
  BY <1>1, <1>2
<1>4. /\ w.lines[k].speaker = e.speaker /\ w.lines[k].text = n + 1 /\ w.lines[k].partial = e.partial
  BY <1>1 DEF LineOf
<1>5. LinesInOrder(w, d)
  <2>1. ASSUME NEW i \in 1..Len(w.lines), w.lines[i].partial
        PROVE  w.partialKey[w.lines[i].speaker] = i
    <3>1. CASE i = k
      BY <1>1, <1>4, <2>1, <3>1
    <3>2. CASE i # k
      <4>1. i \in 1..Len(v.lines) /\ w.lines[i] = v.lines[i]
        BY <1>3, <3>2
      <4>2. v.lines[i].speaker \in Speakers /\ v.lines[i].speaker # e.speaker
        BY <1>2, <2>1, <3>2, <4>1
      <4>3. v.partialKey[v.lines[i].speaker] = i
        BY <2>1, <4>1 DEF Tells, LinesInOrder
      <4> QED BY <1>1, <4>1, <4>2, <4>3
    <3> QED BY <3>1, <3>2
  <2>2. ASSUME NEW i \in 1..Len(w.lines), NEW j \in 1..Len(w.lines), i < j,
               w.lines[i].speaker = w.lines[j].speaker
        PROVE  /\ ~w.lines[i].partial
               /\ w.lines[i].text < w.lines[j].text
                    \/ (w.lines[i].text = d /\ w.lines[j].text = d)
    <3>1. CASE j = k
      <4>1. i \in 1..Len(v.lines) /\ i # k /\ w.lines[i] = v.lines[i]
        BY <1>3, <2>2, <3>1
      <4>2. w.lines[i].text <= n /\ w.lines[i].text \in Nat /\ w.lines[j].text = n + 1
        BY <1>2, <1>4, <3>1, <4>1
      <4>3. v.lines[i].speaker = e.speaker
        BY <1>4, <2>2, <3>1, <4>1
      <4>4. ~w.lines[i].partial
        BY <1>2, <4>1, <4>3
      <4> QED BY <4>2, <4>4
    <3>2. CASE j # k
      <4>1. j \in 1..Len(v.lines) /\ w.lines[j] = v.lines[j]
        BY <1>3, <3>2
      <4>2. i \in 1..Len(v.lines)
        BY <1>2, <2>2, <4>1
      <4>3. v.lines[i].speaker = v.lines[j].speaker =>
              /\ ~v.lines[i].partial
              /\ v.lines[i].text < v.lines[j].text
                   \/ (v.lines[i].text = d /\ v.lines[j].text = d)
        BY <2>2, <4>1, <4>2 DEF Tells, LinesInOrder
      <4>4. i # k
        BY <1>2, <1>4, <2>2, <4>1, <4>2, <4>3
      <4> QED BY <1>3, <2>2, <4>1, <4>3, <4>4
    <3> QED BY <3>1, <3>2
  <2>3. ASSUME NEW i \in 1..Len(w.lines), NEW j \in 1..Len(w.lines), NEW m \in 1..Len(w.lines),
               i < j, j < m, w.lines[i].speaker = w.lines[j].speaker,
               w.lines[j].speaker = w.lines[m].speaker
        PROVE  w.lines[i].text < w.lines[m].text
    <3>1. ~w.lines[i].partial /\ ~w.lines[j].partial
      BY <2>2, <2>3
    <3>2. i \in 1..Len(v.lines) /\ j \in 1..Len(v.lines)
      BY <1>1, <1>2, <2>3
    <3>3. CASE m = k
      <4>1. i # k
        BY <2>3, <3>3
      <4>2. w.lines[i] = v.lines[i] /\ v.lines[i].text \in Nat /\ v.lines[i].text <= n
        BY <1>2, <1>3, <3>2, <4>1
      <4> QED BY <1>4, <3>3, <4>2
    <3>4. CASE m # k
      <4>1. m \in 1..Len(v.lines) /\ w.lines[m] = v.lines[m]
        BY <1>3, <3>4
      <4>2. ASSUME NEW x \in {i, j}, x = k PROVE FALSE
        <5>1. v.lines[x].speaker = e.speaker /\ v.lines[x].partial /\ x < m /\ x \in 1..Len(v.lines)
          BY <1>2, <2>3, <3>2, <4>2
        <5>2. v.lines[m].speaker = e.speaker
          BY <1>4, <2>3, <4>1, <4>2
        <5> QED BY <4>1, <5>1, <5>2 DEF Tells, LinesInOrder
      <4>3. w.lines[i] = v.lines[i] /\ w.lines[j] = v.lines[j]
        BY <1>3, <4>2
      <4> QED BY <2>3, <3>2, <4>1, <4>3 DEF Tells, LinesInOrder
    <3> QED BY <3>3, <3>4
  <2> QED BY <2>1, <2>2, <2>3 DEF LinesInOrder
<1>6. Says(w, q, n + 1)
  <2>1. ASSUME NEW i \in 1..Len(w.lines) PROVE w.lines[i].text <= n + 1
    BY <1>2, <1>3, <1>4
  <2>2. ASSUME NEW s \in Speakers, NEW t \in 1..(n + 1)
        PROVE  /\ FinalIn(q, s, t) <=> Shown(w, s, t, FALSE)
               /\ OpenIn(q, n + 1, s, t) <=> Shown(w, s, t, TRUE)
    <3>1. CASE t = n + 1
      <4>1. ASSUME NEW p \in BOOLEAN
            PROVE  Shown(w, s, t, p) <=> s = e.speaker /\ p = e.partial
        <5>1. \A i \in 1..Len(w.lines) : w.lines[i].text = t => i = k
          BY <1>2, <1>3, <3>1
        <5> QED BY <1>1, <1>4, <3>1, <5>1 DEF Shown
      <4>2. FinalIn(q, s, t) <=> s = e.speaker /\ ~e.partial
        BY <1>0, <3>1 DEF FinalIn, IsOf
      <4>3. OpenIn(q, n + 1, s, t) <=> s = e.speaker /\ e.partial
        BY <1>0, <3>1, NextSaid DEF IsOf
      <4> QED BY <1>0, <4>1, <4>2, <4>3
    <3>2. CASE t # n + 1
      <4>1. t \in 1..n
        BY <3>2
      <4>2. /\ FinalIn(q, s, t) <=> Shown(v, s, t, FALSE)
            /\ OpenIn(q, n, s, t) <=> Shown(v, s, t, TRUE)
        BY <4>1 DEF Tells, Says
      <4>3. OpenIn(q, n + 1, s, t) <=> OpenIn(q, n, s, t) /\ s # e.speaker
        BY <1>0, <4>1, NextSaid DEF IsOf
      <4>4. \A i \in 1..Len(v.lines) : i # k => i \in 1..Len(w.lines)
        BY <1>1, <1>2
      <4>5. Shown(w, s, t, FALSE) <=> Shown(v, s, t, FALSE)
        <5>1. ASSUME NEW i \in 1..Len(w.lines), w.lines[i].speaker = s, w.lines[i].text = t,
                     w.lines[i].partial = FALSE
              PROVE  Shown(v, s, t, FALSE)
          BY <1>3, <1>4, <3>2, <5>1 DEF Shown
        <5>2. ASSUME NEW i \in 1..Len(v.lines), v.lines[i].speaker = s, v.lines[i].text = t,
                     v.lines[i].partial = FALSE
              PROVE  Shown(w, s, t, FALSE)
          BY <1>1, <1>2, <4>4, <5>2 DEF Shown
        <5> QED BY <5>1, <5>2 DEF Shown
      <4>6. Shown(w, s, t, TRUE) <=> Shown(v, s, t, TRUE) /\ s # e.speaker
        <5>1. ASSUME NEW i \in 1..Len(w.lines), w.lines[i].speaker = s, w.lines[i].text = t,
                     w.lines[i].partial = TRUE
              PROVE  Shown(v, s, t, TRUE) /\ s # e.speaker
          BY <1>2, <1>3, <1>4, <3>2, <5>1 DEF Shown
        <5>2. ASSUME NEW i \in 1..Len(v.lines), v.lines[i].speaker = s, v.lines[i].text = t,
                     v.lines[i].partial = TRUE, s # e.speaker
              PROVE  Shown(w, s, t, TRUE)
          BY <1>1, <1>2, <4>4, <5>2 DEF Shown
        <5> QED BY <5>1, <5>2 DEF Shown
      <4> QED BY <4>2, <4>3, <4>5, <4>6
    <3> QED BY <3>1, <3>2
  <2> QED BY <2>1, <2>2 DEF Says
<1> QED BY <1>0a, <1>1, <1>5, <1>6 DEF Tells

\* Only what was said up to then matters.
LEMMA TellsTheFirst ==
  ASSUME NEW v, NEW d, NEW n \in Nat, NEW q, NEW r, \A t \in 1..n : q[t] = r[t], Tells(v, q, n, d)
  PROVE  Tells(v, r, n, d)
<1>1. ASSUME NEW s \in Speakers, NEW t \in 1..n
      PROVE  /\ FinalIn(q, s, t) <=> FinalIn(r, s, t)
             /\ OpenIn(q, n, s, t) <=> OpenIn(r, n, s, t)
  <2>1. q[t] = r[t] /\ \A j \in (t + 1)..n : q[j] = r[j]
    OBVIOUS
  <2> QED BY <2>1 DEF FinalIn, OpenIn, IsOf
<1> QED BY <1>1 DEF Tells, Says

\* A status event changes nothing of what the lines say.
LEMMA StatusTells ==
  ASSUME NEW v, NEW q, NEW d, NEW n \in Nat, Tells(v, q, n, d), q[n + 1].kind # "segment",
         \A i \in 1..Len(v.lines) : v.lines[i].text \in Nat
  PROVE  Tells(v, q, n + 1, d)
<1>1. ASSUME NEW s \in Speakers, NEW t \in 1..(n + 1)
      PROVE  /\ FinalIn(q, s, t) <=> Shown(v, s, t, FALSE)
             /\ OpenIn(q, n + 1, s, t) <=> Shown(v, s, t, TRUE)
  <2>1. CASE t \in 1..n
    <3>1. OpenIn(q, n + 1, s, t) <=> OpenIn(q, n, s, t)
      <4>1. ~IsOf(q, n + 1, s)
        BY DEF IsOf
      <4>2. OpenIn(q, n + 1, s, t) <=> OpenIn(q, n, s, t) /\ ~IsOf(q, n + 1, s)
        BY <2>1, NextSaid
      <4> QED BY <4>1, <4>2, Zenon
    <3>2. /\ FinalIn(q, s, t) <=> Shown(v, s, t, FALSE)
          /\ OpenIn(q, n, s, t) <=> Shown(v, s, t, TRUE)
      BY <2>1 DEF Tells, Says
    <3> QED BY <3>1, <3>2, Zenon
  <2>2. CASE t = n + 1
    <3>1. ~FinalIn(q, s, t) /\ ~OpenIn(q, n + 1, s, t)
      BY <2>2 DEF FinalIn, OpenIn, IsOf
    <3>2. \A i \in 1..Len(v.lines) : v.lines[i].text # t
      BY <2>2 DEF Tells, Says
    <3>3. ~Shown(v, s, t, TRUE) /\ ~Shown(v, s, t, FALSE)
      BY <3>2, Zenon DEF Shown
    <3> QED BY <3>1, <3>3, Zenon
  <2>3. t \in 1..n \/ t = n + 1
    OBVIOUS
  <2> QED BY <2>1, <2>2, <2>3, Zenon
<1>2. \A i \in 1..Len(v.lines) : v.lines[i].text <= n + 1
  BY DEF Tells, Says
<1> QED BY <1>1, <1>2 DEF Tells, Says

\* No event is on two lines of a view where none may be: so any one may.
LEMMA TellsAnyway ==
  ASSUME NEW v, NEW q, NEW n \in Nat, NEW d, Tells(v, q, n, 0),
         \A i \in 1..Len(v.lines) : v.lines[i].text \in Nat \ {0}
  PROVE  Tells(v, q, n, d)
BY DEF Tells, LinesInOrder

\* A view that tells the first n events is pushed the last of them again: a
\* hypothesis is on its speaker's open line, a final comes on a second line.
LEMMA AgainTells ==
  ASSUME NEW q, NEW n \in Nat \ {0}, NEW v \in Views, Tells(v, q, n, 0), NEW e, e = q[n],
         e \in SegmentEvents, e.text = n
  PROVE  Tells(Push(v, e), q, n, n)
<1>0. /\ e.speaker \in Speakers /\ e.partial \in BOOLEAN /\ e.text \in 1..MaxEvents
      /\ e.kind = "segment"
  BY DEF SegmentEvents
<1>0a. PICK w : w = Push(v, e)
  OBVIOUS
<1>0b. PICK k : k = PlaceFor(v, e)
  OBVIOUS
<1>0c. Pushed(v, e, w, k)
  BY ONLY v \in Views, <1>0, <1>0a, <1>0b, PushIs
<1>1. /\ w \in Views
      /\ k \in 1..Len(w.lines) /\ w.lines[k] = LineOf(e)
      /\ Len(w.lines) = IF k = Len(v.lines) + 1 THEN k ELSE Len(v.lines)
      /\ k = Len(v.lines) + 1 \/ v.partialKey[e.speaker] = k
      /\ \A i \in 1..Len(v.lines) : i # k => w.lines[i] = v.lines[i]
      /\ w.partialKey[e.speaker] = IF e.partial THEN k ELSE 0
      /\ \A s \in Speakers : s # e.speaker => w.partialKey[s] = v.partialKey[s]
  BY <1>0c DEF Pushed
<1>2. v.lines \in Seq(Lines) /\ Len(v.lines) \in Nat /\ \A i \in 1..Len(v.lines) : v.lines[i] \in Lines
  BY ElementOfSeq DEF Views
<1>3. IsOf(q, n, e.speaker) /\ (FinalIn(q, e.speaker, n) <=> ~e.partial)
      /\ (OpenIn(q, n, e.speaker, n) <=> e.partial)
  <2>1. \A j : j \notin (n + 1)..n
    OBVIOUS
  <2> QED BY <1>0, <2>1 DEF IsOf, FinalIn, OpenIn
<1>4. n \in 1..n
  OBVIOUS
<1>5. CASE e.partial
  <2>1. Shown(v, e.speaker, n, TRUE)
    BY <1>0, <1>3, <1>4, <1>5 DEF Tells, Says
  <2>2. PICK i \in 1..Len(v.lines) :
          v.lines[i].speaker = e.speaker /\ v.lines[i].text = n /\ v.lines[i].partial = TRUE
    BY <2>1 DEF Shown
  <2>3. v.partialKey[e.speaker] = i
    BY <2>2 DEF Tells, LinesInOrder
  <2>4. k = i /\ i # 0 /\ k # Len(v.lines) + 1
    BY <1>0b, <1>2, <2>3 DEF PlaceFor
  <2>5. LineOf(e) = v.lines[i]
    <3>1. PICK l : l = v.lines[i]
      OBVIOUS
    <3>2. l = [speaker |-> l.speaker, text |-> l.text, partial |-> l.partial]
      BY <1>2, <3>1 DEF Lines
    <3>3. l.speaker = e.speaker /\ l.text = e.text /\ l.partial = e.partial
      BY <1>0, <1>5, <2>2, <3>1
    <3> QED BY <3>1, <3>2, <3>3 DEF LineOf
  <2>6. Len(w.lines) = Len(v.lines) /\ \A j \in 1..Len(v.lines) : w.lines[j] = v.lines[j]
    BY <1>1, <2>4, <2>5
  <2>7. \A s \in Speakers : w.partialKey[s] = v.partialKey[s]
    BY <1>0, <1>1, <1>5, <2>3, <2>4
  <2>8. \A j \in 1..Len(v.lines) : v.lines[j].speaker \in Speakers /\ v.lines[j].text \in Nat \ {0}
    BY <1>2 DEF Lines
  <2>9. LinesInOrder(w, n)
    <3>1. LinesInOrder(v, n)
      BY <2>8, TellsAnyway DEF Tells
    <3>2. \A j \in 1..Len(w.lines) : w.lines[j].partial => w.partialKey[w.lines[j].speaker] = j
      BY <2>6, <2>7, <2>8, <3>1 DEF LinesInOrder
    <3>3. \A x, y \in 1..Len(w.lines) :
            x < y /\ w.lines[x].speaker = w.lines[y].speaker =>
              /\ ~w.lines[x].partial
              /\ w.lines[x].text < w.lines[y].text \/ (w.lines[x].text = n /\ w.lines[y].text = n)
      <4> HIDE DEF LinesInOrder
      <4>1. ASSUME NEW x \in 1..Len(w.lines), NEW y \in 1..Len(w.lines), x < y,
                   w.lines[x].speaker = w.lines[y].speaker
            PROVE  /\ ~w.lines[x].partial
                   /\ w.lines[x].text < w.lines[y].text
                        \/ (w.lines[x].text = n /\ w.lines[y].text = n)
        <5>1. /\ x \in 1..Len(v.lines) /\ w.lines[x] = v.lines[x]
              /\ y \in 1..Len(v.lines) /\ w.lines[y] = v.lines[y]
          BY <2>6
        <5> QED BY <3>1, <4>1, <5>1 DEF LinesInOrder
      <4> QED BY <4>1
    <3>4. ASSUME NEW x \in 1..Len(w.lines), NEW y \in 1..Len(w.lines), NEW z \in 1..Len(w.lines),
                 x < y, y < z, w.lines[x].speaker = w.lines[y].speaker,
                 w.lines[y].speaker = w.lines[z].speaker
          PROVE  w.lines[x].text < w.lines[z].text
      <4>1. /\ x \in 1..Len(v.lines) /\ w.lines[x] = v.lines[x]
            /\ y \in 1..Len(v.lines) /\ w.lines[y] = v.lines[y]
            /\ z \in 1..Len(v.lines) /\ w.lines[z] = v.lines[z]
        BY <2>6
      <4> QED BY <3>1, <3>4, <4>1 DEF LinesInOrder
    <3> QED BY <3>2, <3>3, <3>4 DEF LinesInOrder
  <2>10. Says(w, q, n)
    <3>1. \A s, t, p : Shown(w, s, t, p) <=> Shown(v, s, t, p)
      BY <2>6 DEF Shown
    <3>2. \A j \in 1..Len(w.lines) : w.lines[j].text <= n
      BY <2>6 DEF Tells, Says
    <3> QED BY <3>1, <3>2, Zenon DEF Tells, Says
  <2> QED BY <1>0a, <2>9, <2>10 DEF Tells
<1>6. CASE ~e.partial
  <2>1. \A i \in 1..Len(v.lines) :
          /\ v.lines[i].speaker \in Speakers /\ v.lines[i].partial \in BOOLEAN
          /\ v.lines[i].text \in 1..n
    <3>1. \A i \in 1..Len(v.lines) :
            /\ v.lines[i].speaker \in Speakers /\ v.lines[i].partial \in BOOLEAN
            /\ v.lines[i].text \in Nat \ {0}
      BY <1>2 DEF Lines
    <3> QED BY <3>1 DEF Tells, Says
  <2>2. ASSUME NEW i \in 1..Len(v.lines), v.lines[i].speaker = e.speaker, v.lines[i].partial
        PROVE  FALSE
    <3>1. PICK t : t = v.lines[i].text
      OBVIOUS
    <3>2. t \in 1..n /\ v.lines[i].partial = TRUE
      BY <2>1, <2>2, <3>1
    <3>3. Shown(v, e.speaker, t, TRUE)
      BY <2>2, <3>1, <3>2 DEF Shown
    <3>4. OpenIn(q, n, e.speaker, t)
      BY <1>0, <3>2, <3>3 DEF Tells, Says
    <3>5. t # n
      BY <1>3, <1>6, <3>4
    <3>6. n \in (t + 1)..n
      BY <3>2, <3>5
    <3> QED BY <1>3, <3>4, <3>6 DEF OpenIn
  <2>3. v.partialKey[e.speaker] = 0
    <3>1. PICK m : m = v.partialKey[e.speaker]
      OBVIOUS
    <3>2. m \in Nat /\ m <= Len(v.lines)
          /\ (m # 0 => v.lines[m].speaker = e.speaker /\ v.lines[m].partial)
      BY <1>0, <3>1 DEF Views
    <3> QED BY <1>2, <2>2, <3>1, <3>2
  <2>4. k = Len(v.lines) + 1 /\ Len(w.lines) = k
    BY <1>0b, <1>1, <2>3 DEF PlaceFor
  <2>5. /\ \A i \in 1..Len(w.lines) :
             i = k \/ (i \in 1..Len(v.lines) /\ i < k /\ w.lines[i] = v.lines[i])
        /\ \A i \in 1..Len(v.lines) : i \in 1..Len(w.lines) /\ w.lines[i] = v.lines[i]
    BY <1>1, <1>2, <2>4
  <2>6. /\ w.lines[k].speaker = e.speaker /\ w.lines[k].text = n /\ ~w.lines[k].partial
        /\ w.lines[k].partial = FALSE
    BY <1>0, <1>1, <1>6 DEF LineOf
  <2>7. \A s \in Speakers : w.partialKey[s] = v.partialKey[s]
    BY <1>0, <1>1, <1>6, <2>3
  <2>8. LinesInOrder(w, n)
    <3>1. ASSUME NEW i \in 1..Len(w.lines), w.lines[i].partial
          PROVE  w.partialKey[w.lines[i].speaker] = i
      <4>1. i \in 1..Len(v.lines) /\ w.lines[i] = v.lines[i]
        BY <2>5, <2>6, <3>1
      <4> QED BY <2>1, <2>7, <3>1, <4>1 DEF Tells, LinesInOrder
    <3>2. ASSUME NEW i \in 1..Len(w.lines), NEW j \in 1..Len(w.lines), i < j,
                 w.lines[i].speaker = w.lines[j].speaker
          PROVE  /\ ~w.lines[i].partial
                 /\ w.lines[i].text < w.lines[j].text
                      \/ (w.lines[i].text = n /\ w.lines[j].text = n)
      <4>1. i \in 1..Len(v.lines) /\ w.lines[i] = v.lines[i]
        BY <1>2, <2>4, <2>5, <3>2
      <4>2. CASE j = k
        BY <2>1, <2>2, <2>6, <3>2, <4>1, <4>2
      <4>3. CASE j # k
        <5>1. j \in 1..Len(v.lines) /\ w.lines[j] = v.lines[j]
          BY <2>5, <4>3
        <5> QED BY <2>1, <3>2, <4>1, <5>1 DEF Tells, LinesInOrder
      <4> QED BY <4>2, <4>3
    <3>3. ASSUME NEW i \in 1..Len(w.lines), NEW j \in 1..Len(w.lines), NEW m \in 1..Len(w.lines),
                 i < j, j < m, w.lines[i].speaker = w.lines[j].speaker,
                 w.lines[j].speaker = w.lines[m].speaker
          PROVE  w.lines[i].text < w.lines[m].text
      <4>1. /\ i \in 1..Len(v.lines) /\ w.lines[i] = v.lines[i]
            /\ j \in 1..Len(v.lines) /\ w.lines[j] = v.lines[j]
        BY <1>2, <2>4, <2>5, <3>3
      <4>2. v.lines[i].text < v.lines[j].text
        BY <2>1, <3>3, <4>1 DEF Tells, LinesInOrder
      <4>3. CASE m = k
        BY <2>1, <2>6, <4>1, <4>2, <4>3
      <4>4. CASE m # k
        <5>1. m \in 1..Len(v.lines) /\ w.lines[m] = v.lines[m]
          BY <2>5, <4>4
        <5> QED BY <3>3, <4>1, <5>1 DEF Tells, LinesInOrder
      <4> QED BY <4>3, <4>4
    <3> QED BY <3>1, <3>2, <3>3 DEF LinesInOrder
  <2>9. Says(w, q, n)
    <3>1. \A i \in 1..Len(w.lines) : w.lines[i].text <= n
      BY <2>1, <2>5, <2>6
    <3>2. Shown(v, e.speaker, n, FALSE)
      BY <1>0, <1>3, <1>4, <1>6 DEF Tells, Says
    <3>3. ASSUME NEW s, NEW t, NEW p PROVE Shown(w, s, t, p) <=> Shown(v, s, t, p)
      <4>1. ASSUME NEW i \in 1..Len(w.lines), w.lines[i].speaker = s, w.lines[i].text = t,
                   w.lines[i].partial = p
            PROVE  Shown(v, s, t, p)
        <5>1. CASE i = k
          BY <2>6, <3>2, <4>1, <5>1
        <5>2. CASE i # k
          BY <2>5, <4>1, <5>2 DEF Shown
        <5> QED BY <5>1, <5>2
      <4>2. ASSUME NEW i \in 1..Len(v.lines), v.lines[i].speaker = s, v.lines[i].text = t,
                   v.lines[i].partial = p
            PROVE  Shown(w, s, t, p)
        BY <2>5, <4>2 DEF Shown
      <4> QED BY <4>1, <4>2 DEF Shown
    <3> QED BY <3>1, <3>3, Zenon DEF Tells, Says
  <2> QED BY <1>0a, <2>8, <2>9 DEF Tells
<1> QED BY <1>0, <1>5, <1>6
--------------------------------------------------------------------------------
StateTypeInv ==
  /\ committed \in Seq([speaker : Speakers, text : 1..MaxEvents])
  /\ hypothesis \in [Speakers -> 1..MaxEvents \cup {Nothing}]

\* The speakers with a hypothesis have the ranks 1 to their number, each its own.
LEMMA RanksAreTheirOwn ==
  /\ Cardinality(Speaking) \in Nat
  /\ \A s, t \in Speaking : RankOf(s) = RankOf(t) => s = t
  /\ \A s \in Speaking : RankOf(s) \in 1..Cardinality(Speaking)
  /\ \A i \in 1..Cardinality(Speaking) : \E s \in Speaking : RankOf(s) = i
<1>0. /\ IsFiniteSet(Speaking) /\ Speaking \subseteq Nat /\ Cardinality(Speaking) \in Nat
  <2>1. Speaking \in SUBSET Speakers
    BY DEF Speaking
  <2> QED BY <2>1, FS_Subset, FS_CardinalityType, FeedAssumption
<1> DEFINE upTo(s) == {t \in Speaking : t <= s}
<1>1. ASSUME NEW s \in Speaking
      PROVE  IsFiniteSet(upTo(s)) /\ RankOf(s) = Cardinality(upTo(s)) /\ RankOf(s) \in Nat
             /\ RankOf(s) # 0 /\ RankOf(s) <= Cardinality(Speaking)
  <2>1. upTo(s) \in SUBSET Speaking /\ s \in upTo(s)
    BY <1>0
  <2>2. IsFiniteSet(upTo(s)) /\ Cardinality(upTo(s)) <= Cardinality(Speaking)
    BY <1>0, <2>1, FS_Subset
  <2>3. RankOf(s) = Cardinality(upTo(s))
    BY DEF RankOf
  <2> HIDE DEF upTo
  <2>4. Cardinality(upTo(s)) \in Nat
    BY <2>2, FS_CardinalityType
  <2>5. Cardinality(upTo(s)) # 0
    BY <2>1, <2>2, FS_EmptySet
  <2> QED BY <2>2, <2>3, <2>4, <2>5
<1>2. ASSUME NEW s \in Speaking, NEW t \in Speaking, s < t PROVE RankOf(s) # RankOf(t)
  <2>0. s \in Nat /\ t \in Nat /\ \A u \in Speaking : u \in Nat
    BY <1>0
  <2>1. upTo(s) \in SUBSET upTo(t) /\ t \in upTo(t) /\ t \notin upTo(s)
    <3>1. \A u \in Speaking : u <= s => u <= t
      BY <1>2, <2>0
    <3>2. t <= t /\ ~(t <= s)
      BY <1>2, <2>0
    <3> QED BY <3>1, <3>2
  <2>2. upTo(s) # upTo(t)
    BY <2>1
  <2>3. IsFiniteSet(upTo(t)) /\ RankOf(t) = Cardinality(upTo(t)) /\ RankOf(s) = Cardinality(upTo(s))
    BY <1>1
  <2> HIDE DEF upTo
  <2> QED BY <2>1, <2>2, <2>3, FS_Subset
<1>3. \A s, t \in Speaking : RankOf(s) = RankOf(t) => s = t
  <2>1. \A s, t \in Speaking : s = t \/ s < t \/ t < s
    BY <1>0
  <2> QED BY <1>2, <2>1
<1>4. \A s \in Speaking : RankOf(s) \in 1..Cardinality(Speaking)
  <2> HIDE DEF upTo
  <2> QED BY <1>0, <1>1
<1>5. \A i \in 1..Cardinality(Speaking) : \E s \in Speaking : RankOf(s) = i
  <2> DEFINE rank == [s \in Speaking |-> RankOf(s)]
             n == Cardinality(Speaking)
  <2>1. rank \in [Speaking -> 1..n] /\ \A s \in Speaking : rank[s] = RankOf(s)
    BY <1>4
  <2> HIDE DEF rank
  <2>2. rank \in Injection(Speaking, 1..n)
    BY <1>3, <2>1 DEF Injection, IsInjective
  <2>3. IsFiniteSet(1..n) /\ Cardinality(1..n) = n
    BY <1>0, CardinalityOfFirst
  <2>4. rank \in Surjection(Speaking, 1..n)
    BY <2>2, <2>3, FS_Injection
  <2>5. \A i \in 1..n : \E s \in Speaking : rank[s] = i
    BY <2>4 DEF Surjection
  <2> QED BY <2>1, <2>5
<1> QED BY <1>0, <1>3, <1>4, <1>5

SnapshotEvents == CommittedEvents \o HypothesisEvents
Reports == [speaker : Speakers, partial : BOOLEAN, text : 1..MaxEvents]

\* A snapshot names each committed segment, and then each hypothesis once.
LEMMA SnapshotNames ==
  ASSUME StateTypeInv, NEW E, E = SnapshotEvents
  PROVE  /\ E \in Seq(Reports)
         /\ \A i, j \in 1..Len(E) :
              i < j /\ E[i].partial => E[j].partial /\ E[i].speaker # E[j].speaker
         /\ Len(committed) <= Len(E)
         /\ \A i \in 1..Len(committed) :
              E[i].speaker = committed[i].speaker /\ E[i].text = committed[i].text /\ ~E[i].partial
         /\ \A i \in 1..Len(E) : E[i].partial \/ i <= Len(committed)
         /\ \A i \in 1..Len(E) : E[i].partial => E[i].text = hypothesis[E[i].speaker]
         /\ \A s \in Speaking : \E i \in 1..Len(E) : E[i].speaker = s /\ E[i].partial
<1> DEFINE C == Len(committed)
           n == Cardinality(Speaking)
           H == HypothesisEvents
<1>0. C \in Nat /\ n \in Nat /\ \A s \in Speaking : s \in Speakers /\ hypothesis[s] \in 1..MaxEvents
  <2>1. n \in Nat
    BY RanksAreTheirOwn
  <2> QED BY <2>1, LenProperties DEF StateTypeInv, Speaking
<1>1. /\ CommittedEvents \in Seq(Reports) /\ Len(CommittedEvents) = C
      /\ \A i \in 1..C : CommittedEvents[i] =
           [speaker |-> committed[i].speaker, partial |-> FALSE, text |-> committed[i].text]
  <2>1. \A i \in 1..C : committed[i] \in [speaker : Speakers, text : 1..MaxEvents]
    BY ElementOfSeq DEF StateTypeInv
  <2>2. \A i \in 1..C :
          [speaker |-> committed[i].speaker, partial |-> FALSE, text |-> committed[i].text] \in Reports
    BY <2>1 DEF Reports
  <2> QED BY <1>0, <2>2 DEF CommittedEvents
<1>2. ASSUME NEW i \in 1..n
      PROVE  \E s \in Speaking : /\ RankOf(s) = i
                             /\ H[i] = [speaker |-> s, partial |-> TRUE, text |-> hypothesis[s]]
                             /\ H[i] \in Reports
  <2> DEFINE c == CHOOSE s \in Speaking : RankOf(s) = i
  <2>1. H[i] = [speaker |-> c, partial |-> TRUE, text |-> hypothesis[c]]
    BY DEF HypothesisEvents
  <2>2. c \in Speaking /\ RankOf(c) = i
    <3>1. \E s \in Speaking : RankOf(s) = i
      BY RanksAreTheirOwn
    <3> QED BY <3>1
  <2> HIDE DEF c
  <2>3. H[i] \in Reports
    BY <1>0, <2>1, <2>2 DEF Reports
  <2> QED BY <2>1, <2>2, <2>3
<1>3. H \in Seq(Reports) /\ Len(H) = n
  <2>1. \A i \in 1..n : H[i] \in Reports
    BY <1>2
  <2>2. H = [i \in 1..n |-> H[i]]
    BY DEF HypothesisEvents
  <2> HIDE DEF H
  <2>3. H \in [1..n -> Reports]
    BY <2>1, <2>2
  <2> QED BY <1>0, <2>3
<1> HIDE DEF H
<1>4. /\ E \in Seq(Reports) /\ Len(E) = C + n
      /\ \A i \in 1..C : E[i] = CommittedEvents[i]
      /\ \A i \in 1..Len(E) : i > C => E[i] = H[i - C]
  <2>1. E = CommittedEvents \o H
    BY DEF SnapshotEvents, H
  <2>2. PICK D : D = CommittedEvents
    OBVIOUS
  <2>3. D \in Seq(Reports) /\ Len(D) = C
    BY <1>1, <2>2
  <2>4. /\ D \o H \in Seq(Reports) /\ Len(D \o H) = C + n
        /\ \A i \in 1..(C + n) : (D \o H)[i] = IF i <= C THEN D[i] ELSE H[i - C]
    <3>1. H \in Seq(Reports) /\ Len(H) = n
      BY <1>3
    <3>2. /\ D \o H \in Seq(Reports) /\ Len(D \o H) = Len(D) + Len(H)
          /\ \A i \in 1..(Len(D) + Len(H)) :
               (D \o H)[i] = IF i <= Len(D) THEN D[i] ELSE H[i - Len(D)]
      BY ONLY <2>3, <3>1, ConcatProperties
    <3>3. Len(D) = C /\ Len(H) = n
      BY <2>3, <3>1
    <3> QED BY <3>2, <3>3, Zenon
  <2>5. E = D \o H
    BY <2>1, <2>2
  <2>6. /\ E \in Seq(Reports) /\ Len(E) = C + n
        /\ \A i \in 1..(C + n) : E[i] = IF i <= C THEN D[i] ELSE H[i - C]
    BY ONLY <2>4, <2>5, Zenon
  <2>7. \A i \in 1..C : i \in 1..(C + n) /\ i <= C
    BY <1>0
  <2>8. \A i \in 1..C : E[i] = D[i]
    BY ONLY <2>6, <2>7
  <2>9. \A i \in 1..(C + n) : i > C => ~(i <= C)
    BY <1>0
  <2>10. \A i \in 1..(C + n) : i > C => E[i] = H[i - C]
    BY ONLY <2>6, <2>9
  <2> QED BY <2>2, <2>6, <2>8, <2>10
<1>5. \A i \in 1..C : /\ i \in 1..Len(E) /\ E[i].speaker = committed[i].speaker
                      /\ E[i].text = committed[i].text /\ ~E[i].partial
  <2>1. ASSUME NEW i \in 1..C
        PROVE  E[i] = [speaker |-> committed[i].speaker, partial |-> FALSE, text |-> committed[i].text]
    BY <1>1, <1>4
  <2>2. \A i \in 1..C : i \in 1..Len(E)
    BY <1>0, <1>4
  <2>3. ASSUME NEW i \in 1..C
        PROVE  /\ E[i].speaker = committed[i].speaker
               /\ E[i].text = committed[i].text /\ ~E[i].partial
    <3>1. PICK e, x, y : e = E[i] /\ e = [speaker |-> x, partial |-> FALSE, text |-> y]
                          /\ x = committed[i].speaker /\ y = committed[i].text
      BY <2>1, Zenon
    <3>2. e.speaker = x /\ e.text = y /\ e.partial = FALSE
      BY ONLY <3>1
    <3> QED BY <3>1, <3>2, Zenon
  <2> QED BY <2>2, <2>3
<1>6. ASSUME NEW i \in 1..Len(E), i > C
      PROVE  \E s \in Speaking : RankOf(s) = i - C /\ E[i].speaker = s /\ E[i].partial /\ E[i].text = hypothesis[s]
  <2>1. i - C \in 1..n
    BY <1>0, <1>4, <1>6
  <2>2. PICK s \in Speaking : /\ RankOf(s) = i - C
                          /\ H[i - C] = [speaker |-> s, partial |-> TRUE, text |-> hypothesis[s]]
    BY <1>2, <2>1
  <2> QED BY <1>4, <1>6, <2>2
<1>7. ASSUME NEW i \in 1..Len(E), E[i].partial PROVE i > C
  BY <1>0, <1>5, <1>7
<1>8. ASSUME NEW i \in 1..Len(E), NEW j \in 1..Len(E), i < j, E[i].partial
      PROVE  E[j].partial /\ E[i].speaker # E[j].speaker
  <2>1. i > C /\ j > C /\ i - C # j - C
    BY <1>0, <1>4, <1>7, <1>8
  <2>2. PICK s \in Speaking : RankOf(s) = i - C /\ E[i].speaker = s
    BY <1>6, <2>1
  <2>3. PICK t \in Speaking : RankOf(t) = j - C /\ E[j].speaker = t /\ E[j].partial
    BY <1>6, <2>1
  <2> QED BY <2>1, <2>2, <2>3
<1>9. ASSUME NEW s \in Speaking PROVE \E i \in 1..Len(E) : E[i].speaker = s /\ E[i].partial
  <2>1. RankOf(s) \in 1..n
    BY RanksAreTheirOwn
  <2>2. C + RankOf(s) \in 1..Len(E) /\ C + RankOf(s) > C /\ (C + RankOf(s)) - C = RankOf(s)
    BY <1>0, <1>4, <2>1
  <2>3. PICK t \in Speaking : /\ RankOf(t) = RankOf(s) /\ E[C + RankOf(s)].speaker = t
                          /\ E[C + RankOf(s)].partial
    BY <1>6, <2>2
  <2>4. t = s
    BY <2>3, RanksAreTheirOwn
  <2> QED BY <2>2, <2>3, <2>4
<1>10. ASSUME NEW i \in 1..Len(E) PROVE E[i].partial \/ i <= C
  <2>1. i > C \/ i <= C
    BY <1>0, <1>4
  <2> QED BY <1>6, <2>1
<1>11. ASSUME NEW i \in 1..Len(E), E[i].partial PROVE E[i].text = hypothesis[E[i].speaker]
  BY <1>6, <1>7, <1>11
<1>12. C <= Len(E)
  BY <1>0, <1>4
<1> QED BY <1>4, <1>5, <1>8, <1>9, <1>10, <1>11, <1>12
\* The first i events of a snapshot, each on a line of its own.
Lists(w, E, i) ==
  /\ w \in Views /\ Len(w.lines) = i
  /\ \A j \in 1..i : w.lines[j] = LineOf(E[j])
  /\ \A s \in Speakers : w.partialKey[s] = 0 =>
       \A j \in 1..i : E[j].partial => E[j].speaker # s

\* An empty page lists nothing.
LEMMA EmptyViewLists ==
  ASSUME NEW E
  PROVE  EmptyView \in Views /\ Lists(EmptyView, E, 0)
<1>1. /\ EmptyView.lines = <<>> /\ \A s \in Speakers : EmptyView.partialKey[s] = 0
      /\ EmptyView \in [lines : Seq(Lines), partialKey : [Speakers -> Nat]]
  BY DEF EmptyView
<1>2. Len(<<>>) = 0
  OBVIOUS
<1>3. EmptyView \in Views
  BY <1>1, <1>2 DEF Views
<1> QED BY <1>1, <1>2, <1>3 DEF Lists

\* An event of a snapshot opens a new line: no line of its speaker is open.
LEMMA PushLists ==
  ASSUME NEW E \in Seq(Reports), NEW i \in 1..Len(E), NEW v, Lists(v, E, i - 1),
         \A j \in 1..Len(E) : j < i /\ E[j].partial => E[j].speaker # E[i].speaker
  PROVE  Lists(Push(v, E[i]), E, i)
<1>0. /\ v \in Views /\ Len(v.lines) = i - 1 /\ \A j \in 1..(i - 1) : v.lines[j] = LineOf(E[j])
      /\ Len(E) \in Nat
  BY DEF Lists
<1>0a. v \in Views
  BY <1>0
<1>1. PICK e : e = E[i]
  OBVIOUS
<1>2. e.speaker \in Speakers /\ e.partial \in BOOLEAN /\ e.text \in 1..MaxEvents
  <2>1. e \in Reports
    BY <1>1, ElementOfSeq
  <2> QED BY <2>1 DEF Reports
<1>3. PICK w : w = Push(v, e)
  OBVIOUS
<1>4. PICK k : k = PlaceFor(v, e)
  OBVIOUS
<1>4a. Pushed(v, e, w, k)
  BY ONLY <1>0a, <1>2, <1>3, <1>4, PushIs
<1>5. /\ w \in Views
      /\ k \in 1..Len(w.lines) /\ w.lines[k] = LineOf(e)
      /\ Len(w.lines) = IF k = Len(v.lines) + 1 THEN k ELSE Len(v.lines)
      /\ k = Len(v.lines) + 1 \/ v.partialKey[e.speaker] = k
      /\ \A j \in 1..Len(v.lines) : j # k => w.lines[j] = v.lines[j]
      /\ w.partialKey[e.speaker] = IF e.partial THEN k ELSE 0
      /\ \A s \in Speakers : s # e.speaker => w.partialKey[s] = v.partialKey[s]
  BY <1>4a DEF Pushed
<1>6. v.partialKey[e.speaker] = 0
  <2>1. ASSUME v.partialKey[e.speaker] # 0 PROVE FALSE
    <3>1. PICK m : m = v.partialKey[e.speaker]
      OBVIOUS
    <3>2. m \in 1..(i - 1) /\ v.lines[m].speaker = e.speaker /\ v.lines[m].partial
      BY <1>0, <1>2, <2>1, <3>1 DEF Views
    <3>3. v.lines[m] = LineOf(E[m]) /\ m \in 1..Len(E) /\ m < i
      BY <1>0, <3>2
    <3>4. E[m].speaker = e.speaker /\ E[m].partial
      BY <3>2, <3>3 DEF LineOf
    <3> QED BY <1>1, <3>3, <3>4
  <2> QED BY <2>1
<1>7. k = i /\ Len(w.lines) = i
  BY <1>0, <1>4, <1>5, <1>6 DEF PlaceFor
<1>8. \A j \in 1..i : w.lines[j] = LineOf(E[j])
  <2>1. \A j \in 1..i : j = i \/ (j \in 1..(i - 1) /\ j # i)
    OBVIOUS
  <2> QED BY <1>0, <1>1, <1>5, <1>7, <2>1
<1>9. ASSUME NEW s \in Speakers, w.partialKey[s] = 0, NEW j \in 1..i, E[j].partial
      PROVE  E[j].speaker # s
  <2>1. CASE s = e.speaker
    <3>1. ~e.partial
      BY <1>5, <1>7, <1>9, <2>1
    <3>2. j # i
      BY <1>1, <1>9, <3>1
    <3>3. j \in 1..(i - 1)
      BY <3>2
    <3> QED BY <1>0, <1>6, <1>9, <2>1, <3>3 DEF Lists
  <2>2. CASE s # e.speaker
    <3>1. v.partialKey[s] = 0
      BY <1>5, <1>9, <2>2
    <3>2. j = i \/ j \in 1..(i - 1)
      OBVIOUS
    <3> QED BY <1>1, <1>9, <2>2, <3>1, <3>2 DEF Lists
  <2> QED BY <2>1, <2>2
<1> QED BY <1>1, <1>3, <1>5, <1>7, <1>8, <1>9 DEF Lists

\* What the page makes of a snapshot: a line for each of its events.
LEMMA SnapshotLists ==
  ASSUME StateTypeInv, NEW E, E = SnapshotEvents
  PROVE  Lists(SnapshotView, E, Len(E))
<1> DEFINE n == Len(E)
<1>1. /\ E \in Seq(Reports) /\ n \in Nat
      /\ \A i \in 1..n : E[i] \in Reports
      /\ \A i, j \in 1..n : i < j /\ E[i].partial => E[i].speaker # E[j].speaker
  <2>1. /\ E \in Seq(Reports)
        /\ \A i, j \in 1..n : i < j /\ E[i].partial => E[i].speaker # E[j].speaker
    BY SnapshotNames
  <2>2. n \in Nat /\ \A i \in 1..n : E[i] \in Reports
    BY <2>1, LenProperties, ElementOfSeq
  <2> QED BY <2>1, <2>2
<1> DEFINE step == [p \in Views \X (1..n) |-> Push(p[1], E[p[2]])]
<1>2. /\ step \in [Views \X (1..n) -> Views]
      /\ \A v \in Views, i \in 1..n : step[<<v, i>>] = Push(v, E[i])
  <2>1. ASSUME NEW v \in Views, NEW i \in 1..n PROVE Push(v, E[i]) \in Views
    <3>1. PICK e : e = E[i]
      OBVIOUS
    <3>2. e.speaker \in Speakers /\ e.partial \in BOOLEAN /\ e.text \in 1..MaxEvents
      <4>1. e \in Reports
        BY <1>1, <3>1
      <4> QED BY <4>1 DEF Reports
    <3>3. PICK w : w = Push(v, e)
      OBVIOUS
    <3>4. PICK k : k = PlaceFor(v, e)
      OBVIOUS
    <3>5. Pushed(v, e, w, k)
      BY ONLY v \in Views, <3>2, <3>3, <3>4, PushIs
    <3> QED BY <3>1, <3>3, <3>5 DEF Pushed
  <2> QED BY <2>1
<1> HIDE DEF step
<1>3. EmptyView \in Views /\ Lists(EmptyView, E, 0)
  BY EmptyViewLists
<1>4. PICK g : Iterates(g, n, Views, EmptyView, step)
  BY ONLY <1>1, <1>2, <1>3, IterationExists
<1>5. g \in [0..n -> Views] /\ g[0] = EmptyView /\ \A i \in 1..n : g[i] = Push(g[i - 1], E[i])
  <2>1. g \in [0..n -> Views] /\ g[0] = EmptyView
    BY <1>4 DEF Iterates
  <2>2. ASSUME NEW i \in 1..n PROVE g[i] = Push(g[i - 1], E[i])
    <3>1. g[i] = step[<<g[i - 1], i>>]
      BY <1>4 DEF Iterates
    <3>2. g[i - 1] \in Views
      BY <1>1, <2>1
    <3> QED BY <1>2, <3>1, <3>2
  <2> QED BY <2>1, <2>2
<1> DEFINE Rule(h) == [i \in 0..n |-> IF i = 0 THEN EmptyView ELSE Push(h[i - 1], E[i])]
           view == CHOOSE h : h = Rule(h)
<1>6. SnapshotView = view[n]
  BY DEF SnapshotView, SnapshotEvents
<1>7. g = Rule(g)
  <2>1. \A i \in 0..n : i = 0 \/ i \in 1..n
    BY <1>1
  <2> QED BY <1>5, <2>1
<1>8. view = Rule(view)
  <2> HIDE DEF Rule
  <2> QED BY <1>7, Zenon
<1>9. view[0] = EmptyView /\ \A i \in 1..n : view[i] = Push(view[i - 1], E[i])
  <2>1. 0 \in 0..n /\ \A i \in 1..n : i \in 0..n /\ i # 0
    BY <1>1
  <2> QED BY <1>8, <2>1, Zenon
<1> HIDE DEF view, Rule
<1> DEFINE T == {i \in 0..n : Lists(view[i], E, i)}
<1>10. 0 \in T
  BY <1>1, <1>3, <1>9
<1>11. ASSUME NEW i \in 1..n, i - 1 \in T PROVE i \in T
  <2>1. Lists(view[i - 1], E, i - 1) /\ i \in 0..n
    BY <1>1, <1>11
  <2>2. \A j \in 1..n : j < i /\ E[j].partial => E[j].speaker # E[i].speaker
    BY <1>1
  <2>3. PICK v : v = view[i - 1]
    OBVIOUS
  <2>4. Lists(Push(v, E[i]), E, i)
    BY ONLY <1>1, <2>1, <2>2, <2>3, i \in 1..n, PushLists
  <2>5. view[i] = Push(v, E[i])
    BY <1>9, <2>3
  <2> QED BY <2>1, <2>4, <2>5
<1>12. 0..n \subseteq T
  <2> HIDE DEF T
  <2> QED BY <1>1, <1>10, <1>11, InductionUpTo
<1>13. Lists(view[n], E, n)
  BY <1>1, <1>12
<1> QED BY <1>6, <1>13
--------------------------------------------------------------------------------
PageView == [lines |-> lines, partialKey |-> partialKey]

FeedTypeInv ==
  /\ StateTypeInv
  /\ applied \in 0..MaxEvents
  /\ position \in 1..(applied + 1) /\ missed \in BOOLEAN /\ twice \in 0..applied
  /\ emitting \in Events \cup {Nothing} /\ log \in Seq(Events)
  /\ PageView \in Views

SaidInv ==
  /\ WasSaid \in Seq(Events) /\ Len(WasSaid) = applied
  /\ \A t \in 1..applied : WasSaid[t].kind = "segment" => WasSaid[t].text = t

\* The state is what the events so far say.
StateInv ==
  /\ \A i \in 1..Len(committed) : committed[i].text <= applied
  /\ \A i, j \in 1..Len(committed) : i < j => committed[i].text < committed[j].text
  /\ \A s \in Speakers : hypothesis[s] # Nothing => hypothesis[s] <= applied
  /\ \A s \in Speakers, t \in 1..applied :
       /\ FinalIn(WasSaid, s, t) <=>
            \E i \in 1..Len(committed) : committed[i].speaker = s /\ committed[i].text = t
       /\ OpenIn(WasSaid, applied, s, t) <=> hypothesis[s] = t

\* So is the page, if it has missed none: up to the event it takes next, or with that
\* if it is in the snapshot.  Once that event has come again it may be on two lines.
Known   == IF position = twice THEN position ELSE position - 1
Doubled == IF position > twice THEN twice ELSE 0

PageInv ==
  /\ conn \in {"off", "stageRead"} => PageView = EmptyView
  /\ conn = "greeted" => Tells(PageView, WasSaid, position - 1, 0)
  /\ conn = "live" => position <= Len(log) + 1 /\ twice <= position
  /\ conn = "live" /\ ~missed => Tells(PageView, WasSaid, Known, Doubled)

\* What is one of a few values.
FewInv ==
  /\ slot \in {"empty", "starting", "running", "taken"} /\ stage \in Stages
  /\ conn \in {"off", "stageRead", "greeted", "live", "closed"}
  /\ greeting \in Stages \cup {Nothing} /\ ui \in {"idle", "listening", "paused"}

FeedInv == FeedTypeInv /\ SaidInv /\ StateInv /\ PageInv

\* An empty page tells what was said before the first event.
LEMMA EmptyViewTells ==
  ASSUME NEW q
  PROVE  Tells(EmptyView, q, 0, 0)
<1>1. EmptyView.lines = <<>> /\ Len(<<>>) = 0 /\ 1..0 = {}
  BY DEF EmptyView
<1> QED BY <1>1 DEF Tells, LinesInOrder, Says

\* The snapshot tells what the state is made of.
LEMMA SnapshotTells ==
  ASSUME StateTypeInv, StateInv, applied \in 0..MaxEvents
  PROVE  SnapshotView \in Views /\ Tells(SnapshotView, WasSaid, applied, 0)
<1>1. PICK E : E = SnapshotEvents
  OBVIOUS
<1>2. /\ E \in Seq(Reports)
      /\ \A i, j \in 1..Len(E) :
           i < j /\ E[i].partial => E[j].partial /\ E[i].speaker # E[j].speaker
      /\ Len(committed) <= Len(E)
      /\ \A i \in 1..Len(committed) :
           E[i].speaker = committed[i].speaker /\ E[i].text = committed[i].text /\ ~E[i].partial
      /\ \A i \in 1..Len(E) : E[i].partial \/ i <= Len(committed)
      /\ \A i \in 1..Len(E) : E[i].partial => E[i].text = hypothesis[E[i].speaker]
      /\ \A s \in Speaking : \E i \in 1..Len(E) : E[i].speaker = s /\ E[i].partial
  BY <1>1, SnapshotNames
<1>3. PICK w : w = SnapshotView
  OBVIOUS
<1>4. Lists(w, E, Len(E))
  BY <1>1, <1>3, SnapshotLists
<1>5. w \in Views /\ Len(w.lines) = Len(E) /\ Len(E) \in Nat /\ Len(committed) \in Nat
  BY <1>2, <1>4, LenProperties DEF Lists, StateTypeInv
<1>6. ASSUME NEW i \in 1..Len(E)
      PROVE  /\ w.lines[i].speaker = E[i].speaker /\ w.lines[i].text = E[i].text
             /\ w.lines[i].partial = E[i].partial
             /\ E[i].speaker \in Speakers /\ E[i].partial \in BOOLEAN /\ E[i].text \in 1..MaxEvents
             /\ E[i].text <= applied
  <2>1. w.lines[i] = LineOf(E[i])
    BY <1>4 DEF Lists
  <2>2. E[i] \in Reports
    BY <1>2, ElementOfSeq
  <2>3. E[i].speaker \in Speakers /\ E[i].partial \in BOOLEAN /\ E[i].text \in 1..MaxEvents
    BY <2>2 DEF Reports
  <2>4. E[i].text <= applied
    <3>1. CASE E[i].partial
      <4>1. E[i].text = hypothesis[E[i].speaker] /\ E[i].text # Nothing
        BY <1>2, <2>3, <3>1, FeedAssumption
      <4> QED BY <2>3, <4>1 DEF StateInv
    <3>2. CASE ~E[i].partial
      <4>1. i \in 1..Len(committed)
        BY <1>2, <1>5, <3>2
      <4> QED BY <1>2, <4>1 DEF StateInv
    <3> QED BY <3>1, <3>2
  <2> QED BY <2>1, <2>3, <2>4 DEF LineOf
<1>7. ASSUME NEW s \in Speakers, NEW t \in 1..applied
      PROVE  /\ FinalIn(WasSaid, s, t) <=> \E i \in 1..Len(E) : E[i].speaker = s /\ E[i].text = t /\ ~E[i].partial
             /\ OpenIn(WasSaid, applied, s, t) <=> \E i \in 1..Len(E) : E[i].speaker = s /\ E[i].text = t /\ E[i].partial
  <2>1. FinalIn(WasSaid, s, t) <=>
          \E i \in 1..Len(committed) : committed[i].speaker = s /\ committed[i].text = t
    BY DEF StateInv
  <2>2. (\E i \in 1..Len(committed) : committed[i].speaker = s /\ committed[i].text = t)
          <=> \E i \in 1..Len(E) : E[i].speaker = s /\ E[i].text = t /\ ~E[i].partial
    <3>1. \A i \in 1..Len(committed) : i \in 1..Len(E)
      BY <1>2, <1>5
    <3>2. \A i \in 1..Len(E) : ~E[i].partial => i \in 1..Len(committed)
      BY <1>2, <1>5
    <3> QED BY <1>2, <3>1, <3>2
  <2>3. OpenIn(WasSaid, applied, s, t) <=> hypothesis[s] = t
    BY DEF StateInv
  <2>4. hypothesis[s] = t <=> \E i \in 1..Len(E) : E[i].speaker = s /\ E[i].text = t /\ E[i].partial
    <3>1. ASSUME hypothesis[s] = t
          PROVE  \E i \in 1..Len(E) : E[i].speaker = s /\ E[i].text = t /\ E[i].partial
      <4>1. s \in Speaking
        BY <3>1, FeedAssumption DEF Speaking
      <4>2. PICK i \in 1..Len(E) : E[i].speaker = s /\ E[i].partial
        BY <1>2, <4>1
      <4> QED BY <1>2, <3>1, <4>2
    <3>2. ASSUME NEW i \in 1..Len(E), E[i].speaker = s, E[i].text = t, E[i].partial
          PROVE  hypothesis[s] = t
      BY <1>2, <3>2
    <3> QED BY <3>1, <3>2
  <2> QED BY <2>1, <2>2, <2>3, <2>4, Zenon
<1>8. LinesInOrder(w, 0)
  <2>1. ASSUME NEW i \in 1..Len(E), E[i].partial
        PROVE  w.partialKey[E[i].speaker] = i
    <3>1. PICK s, m : s = E[i].speaker /\ m = w.partialKey[s]
      OBVIOUS
    <3>2. s \in Speakers
      BY <1>6, <3>1
    <3>3. m \in Nat /\ m <= Len(E) /\ (m # 0 => w.lines[m].speaker = s /\ w.lines[m].partial)
      BY <1>5, <3>1, <3>2 DEF Views
    <3>4. m # 0
      BY <1>4, <2>1, <3>1, <3>2 DEF Lists
    <3>5. m \in 1..Len(E) /\ E[m].speaker = s /\ E[m].partial
      BY <1>5, <1>6, <3>3, <3>4
    <3> QED BY <1>2, <2>1, <3>1, <3>5
  <2>2. ASSUME NEW i \in 1..Len(E), NEW j \in 1..Len(E), i < j, E[i].speaker = E[j].speaker
        PROVE  ~E[i].partial /\ E[i].text < E[j].text
    <3>1. ~E[i].partial
      BY <1>2, <2>2
    <3>2. CASE ~E[j].partial
      <4>1. i \in 1..Len(committed) /\ j \in 1..Len(committed)
        BY <1>2, <1>5, <3>1, <3>2
      <4> QED BY <1>2, <2>2, <3>1, <4>1 DEF StateInv
    <3>3. CASE E[j].partial
      <4>1. PICK s, c, h : s = E[i].speaker /\ c = E[i].text /\ h = E[j].text
        OBVIOUS
      <4>2. s \in Speakers /\ c \in 1..applied /\ h \in 1..applied /\ s = E[j].speaker
        BY <1>6, <2>2, <4>1
      <4>3. FinalIn(WasSaid, s, c) /\ OpenIn(WasSaid, applied, s, h)
        BY <1>7, <3>1, <3>3, <4>1, <4>2
      <4>4. c # h /\ ~(h < c)
        <5>1. IsOf(WasSaid, c, s) /\ ~WasSaid[c].partial /\ WasSaid[h].partial
          BY <4>3 DEF FinalIn, OpenIn
        <5>2. h < c => c \in (h + 1)..applied
          BY <4>2
        <5>3. \A k \in (h + 1)..applied : ~IsOf(WasSaid, k, s)
          BY <4>3 DEF OpenIn
        <5> QED BY <5>1, <5>2, <5>3
      <4> QED BY <3>1, <4>1, <4>2, <4>4
    <3> QED BY <3>2, <3>3
  <2>3. \A i \in 1..Len(w.lines) : w.lines[i].partial => w.partialKey[w.lines[i].speaker] = i
    BY <1>5, <1>6, <2>1
  <2>4. \A i, j \in 1..Len(w.lines) :
          i < j /\ w.lines[i].speaker = w.lines[j].speaker =>
            ~w.lines[i].partial /\ w.lines[i].text < w.lines[j].text
    BY <1>5, <1>6, <2>2
  <2>5. ASSUME NEW i \in 1..Len(w.lines), NEW j \in 1..Len(w.lines), NEW m \in 1..Len(w.lines),
               i < j, j < m, w.lines[i].speaker = w.lines[j].speaker,
               w.lines[j].speaker = w.lines[m].speaker
        PROVE  w.lines[i].text < w.lines[m].text
    <3>1. w.lines[i].text < w.lines[j].text /\ w.lines[j].text < w.lines[m].text
      BY <2>4, <2>5
    <3>2. w.lines[i].text \in Nat /\ w.lines[j].text \in Nat /\ w.lines[m].text \in Nat
      BY <1>5, <1>6
    <3> QED BY <3>1, <3>2
  <2> QED BY <2>3, <2>4, <2>5 DEF LinesInOrder
<1>9. Says(w, WasSaid, applied)
  <2>1. \A i \in 1..Len(w.lines) : w.lines[i].text <= applied
    BY <1>5, <1>6
  <2>2. ASSUME NEW s \in Speakers, NEW t \in 1..applied
        PROVE  /\ FinalIn(WasSaid, s, t) <=> Shown(w, s, t, FALSE)
               /\ OpenIn(WasSaid, applied, s, t) <=> Shown(w, s, t, TRUE)
    <3>1. Shown(w, s, t, FALSE) <=> \E i \in 1..Len(E) : E[i].speaker = s /\ E[i].text = t /\ ~E[i].partial
      BY <1>5, <1>6 DEF Shown
    <3>2. Shown(w, s, t, TRUE) <=> \E i \in 1..Len(E) : E[i].speaker = s /\ E[i].text = t /\ E[i].partial
      BY <1>5, <1>6 DEF Shown
    <3>3. FinalIn(WasSaid, s, t) <=> \E i \in 1..Len(E) : E[i].speaker = s /\ E[i].text = t /\ ~E[i].partial
      BY ONLY <1>7, <2>2
    <3>4. OpenIn(WasSaid, applied, s, t) <=> \E i \in 1..Len(E) : E[i].speaker = s /\ E[i].text = t /\ E[i].partial
      BY ONLY <1>7, <2>2
    <3>5. FinalIn(WasSaid, s, t) <=> Shown(w, s, t, FALSE)
      BY ONLY <3>1, <3>3, Zenon
    <3>6. OpenIn(WasSaid, applied, s, t) <=> Shown(w, s, t, TRUE)
      BY ONLY <3>2, <3>4, Zenon
    <3> QED BY ONLY <3>5, <3>6, Zenon
  <2> QED BY <2>1, <2>2 DEF Says
<1> QED BY <1>3, <1>5, <1>8, <1>9 DEF Tells
\* r is q and one more event, which leaves what was said before it.
Grows(q, ev, n, r, s) ==
  /\ r \in Seq(Events) /\ Len(r) = n + 1 /\ r[n + 1] = ev /\ \A t \in 1..n : r[t] = q[t]
  /\ \A t \in 1..n :
       /\ FinalIn(r, s, t) <=> FinalIn(q, s, t)
       /\ OpenIn(r, n + 1, s, t) <=> OpenIn(q, n, s, t) /\ ~IsOf(r, n + 1, s)
  /\ OpenIn(r, n + 1, s, n + 1) <=> IsOf(r, n + 1, s) /\ ev.partial

LEMMA SaidGrows ==
  ASSUME NEW q \in Seq(Events), NEW ev \in Events, NEW n, n = Len(q), NEW r, r = Append(q, ev),
         NEW s
  PROVE  Grows(q, ev, n, r, s)
<1>1. n \in Nat /\ r \in Seq(Events) /\ Len(r) = n + 1 /\ r[n + 1] = ev /\ \A t \in 1..n : r[t] = q[t]
  OBVIOUS
<1>2. ASSUME NEW t \in 1..n
      PROVE  FinalIn(r, s, t) <=> FinalIn(q, s, t)
  BY <1>1 DEF FinalIn, IsOf
<1>3. ASSUME NEW t \in 1..n
      PROVE  OpenIn(r, n + 1, s, t) <=> OpenIn(q, n, s, t) /\ ~IsOf(r, n + 1, s)
  <2>1. OpenIn(r, n + 1, s, t) <=> OpenIn(r, n, s, t) /\ ~IsOf(r, n + 1, s)
    BY <1>1, NextSaid
  <2>2. OpenIn(r, n, s, t) <=> OpenIn(q, n, s, t)
    <3>1. r[t] = q[t] /\ \A j \in (t + 1)..n : r[j] = q[j]
      BY <1>1
    <3> QED BY <3>1 DEF OpenIn, IsOf
  <2> QED BY <2>1, <2>2, Zenon
<1>4. OpenIn(r, n + 1, s, n + 1) <=> IsOf(r, n + 1, s) /\ ev.partial
  <2>1. OpenIn(r, n + 1, s, n + 1) <=> IsOf(r, n + 1, s) /\ r[n + 1].partial
    BY <1>1, NextSaid
  <2> QED BY <1>1, <2>1, Zenon
<1> QED BY <1>1, <1>2, <1>3, <1>4 DEF Grows

\* The feed begins so.
LEMMA InitFeed == Init => FeedInv
<1> SUFFICES ASSUME Init PROVE FeedInv
  OBVIOUS
<1>1. WasSaid = <<>> /\ Len(WasSaid) = 0 /\ WasSaid \in Seq(Events) /\ applied = 0 /\ 1..0 = {}
  BY DEF Init, WasSaid
<1>2. PageView = EmptyView
  BY DEF Init, PageView, EmptyView
<1>3. FeedTypeInv
  <2>1. PageView \in Views
    BY <1>2, EmptyViewLists
  <2>2. 0 \in 0..MaxEvents
    BY FeedAssumption
  <2>3. committed = <<>> /\ log = <<>> /\ applied = 0 /\ position = 1 /\ missed = FALSE /\ twice = 0
        /\ emitting = Nothing /\ hypothesis = [s \in Speakers |-> Nothing]
    BY DEF Init
  <2>4. hypothesis \in [Speakers -> 1..MaxEvents \cup {Nothing}]
    BY <2>3
  <2>5. /\ committed \in Seq([speaker : Speakers, text : 1..MaxEvents]) /\ log \in Seq(Events)
        /\ position \in 1..(applied + 1) /\ missed \in BOOLEAN /\ twice \in 0..applied
    <3>1. <<>> \in Seq([speaker : Speakers, text : 1..MaxEvents]) /\ <<>> \in Seq(Events)
      OBVIOUS
    <3>2. 1 \in 1..(0 + 1) /\ FALSE \in BOOLEAN /\ 0 \in 0..0
      OBVIOUS
    <3> QED BY <2>3, <3>1, <3>2, Zenon
  <2>6. emitting \in Events \cup {Nothing} /\ applied \in 0..MaxEvents
    BY <2>2, <2>3, Zenon
  <2> QED BY <2>1, <2>4, <2>5, <2>6 DEF FeedTypeInv, StateTypeInv
<1>4. SaidInv
  BY <1>1 DEF SaidInv
<1>5. StateInv
  <2>1. Len(committed) = 0 /\ \A s \in Speakers : hypothesis[s] = Nothing
    BY DEF Init
  <2> QED BY <1>1, <2>1 DEF StateInv
<1>6. PageInv
  BY <1>2 DEF PageInv, Init
<1> QED BY <1>3, <1>4, <1>5, <1>6 DEF FeedInv

\* Emit lets one more event into the state, and into what has been said.
LEMMA EmitKeeps ==
  ASSUME FeedInv, Emit
  PROVE  FeedInv'
<1>0. PICK ev \in Events : Apply(ev) /\ (ev.kind = "segment" => ev.text = applied + 1)
                           /\ (ev.kind = "segment" => ev \in SegmentEvents)
  <2>1. applied \in 0..MaxEvents
    BY DEF FeedInv, FeedTypeInv
  <2>2. ASSUME NEW s \in Speakers, NEW p \in BOOLEAN,
               Apply([kind |-> "segment", speaker |-> s, partial |-> p, text |-> applied + 1])
        PROVE  \E ev \in Events : Apply(ev) /\ (ev.kind = "segment" => ev.text = applied + 1)
                                  /\ (ev.kind = "segment" => ev \in SegmentEvents)
    <3> DEFINE ev == [kind |-> "segment", speaker |-> s, partial |-> p, text |-> applied + 1]
    <3>1. applied + 1 \in 1..MaxEvents
      BY <2>1, <2>2, FeedAssumption DEF Apply
    <3>2. ev \in SegmentEvents /\ ev.text = applied + 1
      BY <3>1 DEF SegmentEvents
    <3> HIDE DEF ev
    <3>3. Apply(ev)
      BY <2>2 DEF ev
    <3> QED BY <3>2, <3>3 DEF Events
  <2>3. ASSUME NEW st \in Stages, Apply([kind |-> "status", stage |-> st])
        PROVE  \E ev \in Events : Apply(ev) /\ (ev.kind = "segment" => ev.text = applied + 1)
                                  /\ (ev.kind = "segment" => ev \in SegmentEvents)
    <3> DEFINE ev == [kind |-> "status", stage |-> st]
    <3>1. ev \in StatusEvents /\ ev.kind # "segment"
      BY DEF StatusEvents
    <3> HIDE DEF ev
    <3>2. Apply(ev)
      BY <2>3 DEF ev
    <3> QED BY <3>1, <3>2 DEF Events
  <2> QED BY <2>2, <2>3 DEF Emit
<1> DEFINE n == applied
<1>1. /\ emitting = Nothing /\ n < MaxEvents /\ applied' = n + 1 /\ emitting' = ev
      /\ UNCHANGED <<slot, log, conn, greeting, gapVars, position, viewVars>>
  BY <1>0 DEF Apply
<1>2. n \in Nat /\ applied' \in 0..MaxEvents /\ ev # Nothing
  <2>1. applied \in 0..MaxEvents
    BY DEF FeedInv, FeedTypeInv
  <2>2. ev # Nothing
    BY NothingIsNoEvent DEF Events
  <2> QED BY <1>1, <2>1, <2>2, FeedAssumption
<1>3. PICK q, r : q = WasSaid /\ r = WasSaid'
  OBVIOUS
<1>4. q = log /\ r = Append(q, ev) /\ q \in Seq(Events) /\ n = Len(q)
  <2>1. q = log
    BY <1>1, <1>3 DEF WasSaid
  <2>2. r = Append(log, ev)
    BY <1>1, <1>2, <1>3 DEF WasSaid
  <2>3. q \in Seq(Events) /\ n = Len(q)
    BY <1>3 DEF FeedInv, SaidInv
  <2> QED BY <2>1, <2>2, <2>3
<1>5. ASSUME NEW s
      PROVE  Grows(q, ev, n, r, s)
  <2>1. PICK m : m = n
    OBVIOUS
  <2>2. q \in Seq(Events) /\ r = Append(q, ev) /\ m = Len(q)
    BY <1>4, <2>1
  <2>3. Grows(q, ev, m, r, s)
    BY ONLY <2>2, ev \in Events, SaidGrows
  <2> QED BY <2>1, <2>3
<1>6. r \in Seq(Events) /\ Len(r) = n + 1 /\ r[n + 1] = ev /\ \A t \in 1..n : r[t] = q[t]
  BY <1>5 DEF Grows
<1>7. SaidInv'
  <2>1. ASSUME NEW t \in 1..(n + 1), r[t].kind = "segment" PROVE r[t].text = t
    <3>1. CASE t = n + 1
      BY <1>0, <1>6, <2>1, <3>1
    <3>2. CASE t # n + 1
      <4>1. t \in 1..n
        BY <1>2, <3>2
      <4>2. q[t].kind = "segment" => q[t].text = t
        BY <1>3, <4>1 DEF FeedInv, SaidInv
      <4> QED BY <1>6, <2>1, <4>1, <4>2
    <3> QED BY <3>1, <3>2
  <2> QED BY <1>1, <1>3, <1>6, <2>1 DEF SaidInv
\* The last of a speaker's events is the one that counts for the hypothesis.
<1>8a. /\ StateTypeInv
       /\ \A i \in 1..Len(committed) : committed[i].text <= n
       /\ \A i, j \in 1..Len(committed) : i < j => committed[i].text < committed[j].text
       /\ \A s \in Speakers : hypothesis[s] # Nothing => hypothesis[s] <= n
  BY DEF FeedInv, FeedTypeInv, StateInv
<1>8b. ASSUME NEW s \in Speakers, NEW t \in 1..n
       PROVE  /\ FinalIn(q, s, t) <=>
                   \E i \in 1..Len(committed) : committed[i].speaker = s /\ committed[i].text = t
              /\ OpenIn(q, n, s, t) <=> hypothesis[s] = t
  BY <1>3 DEF FeedInv, StateInv
<1>8c. /\ committed \in Seq([speaker : Speakers, text : 1..MaxEvents]) /\ Len(committed) \in Nat
       /\ hypothesis \in [Speakers -> 1..MaxEvents \cup {Nothing}]
       /\ \A i \in 1..Len(committed) :
            committed[i].speaker \in Speakers /\ committed[i].text \in Nat
  <2>1. committed \in Seq([speaker : Speakers, text : 1..MaxEvents])
        /\ hypothesis \in [Speakers -> 1..MaxEvents \cup {Nothing}]
    BY <1>8a DEF StateTypeInv
  <2>2. \A i \in 1..Len(committed) : committed[i] \in [speaker : Speakers, text : 1..MaxEvents]
    BY <2>1, ElementOfSeq
  <2>3. Len(committed) \in Nat
    BY <2>1, LenProperties
  <2> QED BY <2>1, <2>2, <2>3
<1>8. StateTypeInv' /\ StateInv'
  <2>1. CASE ev.kind = "segment"
    <3>1. UpdateHypothesis(ev) /\ committed' = IF ev.partial THEN committed
                     ELSE Append(committed, [speaker |-> ev.speaker, text |-> ev.text])
      BY <1>0, <2>1 DEF Apply, ApplySegment
    <3>2. /\ ev.speaker \in Speakers /\ ev.partial \in BOOLEAN /\ ev.text \in 1..MaxEvents
          /\ ev.text = n + 1
      BY <1>0, <2>1 DEF SegmentEvents
    <3>3. /\ hypothesis' \in [Speakers -> 1..MaxEvents \cup {Nothing}]
          /\ hypothesis'[ev.speaker] = IF ev.partial THEN n + 1 ELSE Nothing
          /\ \A s \in Speakers : s # ev.speaker => hypothesis'[s] = hypothesis[s]
      BY <1>8c, <3>1, <3>2 DEF UpdateHypothesis
    <3>4. \A s : IsOf(r, n + 1, s) <=> s = ev.speaker
      BY <1>6, <2>1 DEF IsOf
    <3>5. /\ committed' \in Seq([speaker : Speakers, text : 1..MaxEvents])
          /\ Len(committed') = IF ev.partial THEN Len(committed) ELSE Len(committed) + 1
          /\ \A i \in 1..Len(committed) : committed'[i] = committed[i]
          /\ ~ev.partial => /\ committed'[Len(committed) + 1].speaker = ev.speaker
                            /\ committed'[Len(committed) + 1].text = n + 1
      <4>1. CASE ev.partial
        BY <1>8c, <3>1, <4>1
      <4>2. CASE ~ev.partial
        <5>1. PICK c : c = [speaker |-> ev.speaker, text |-> ev.text]
          OBVIOUS
        <5>2. c \in [speaker : Speakers, text : 1..MaxEvents] /\ c.speaker = ev.speaker /\ c.text = n + 1
          BY <3>2, <5>1
        <5>3. committed' = Append(committed, c)
          BY <3>1, <4>2, <5>1
        <5> QED BY <1>8c, <4>2, <5>2, <5>3
      <4> QED BY <3>2, <4>1, <4>2
    <3>6. \A i \in 1..Len(committed') :
            i \in 1..Len(committed) \/ (i = Len(committed) + 1 /\ ~ev.partial)
      BY <1>8c, <3>5
    <3>7. ASSUME NEW i \in 1..Len(committed') PROVE committed'[i].text <= n + 1
      <4>1. CASE i \in 1..Len(committed)
        <5>1. committed'[i] = committed[i] /\ committed[i].text <= n /\ committed[i].text \in Nat
          BY <1>8a, <1>8c, <3>5, <4>1
        <5> QED BY <1>2, <5>1
      <4>2. CASE i = Len(committed) + 1 /\ ~ev.partial
        <5>1. committed'[i].text = n + 1
          BY <3>5, <4>2
        <5> QED BY <1>2, <5>1
      <4> QED BY <3>6, <4>1, <4>2
    <3>8. ASSUME NEW i \in 1..Len(committed'), NEW j \in 1..Len(committed'), i < j
          PROVE  committed'[i].text < committed'[j].text
      <4>1. i \in 1..Len(committed)
        BY <1>8c, <3>6, <3>8
      <4>2. committed'[i] = committed[i] /\ committed[i].text <= n /\ committed[i].text \in Nat
        BY <1>8a, <1>8c, <3>5, <4>1
      <4>3. CASE j \in 1..Len(committed)
        <5>1. committed'[j] = committed[j] /\ committed[i].text < committed[j].text
          BY <1>8a, <3>5, <3>8, <4>1, <4>3
        <5> QED BY <4>2, <5>1
      <4>4. CASE j = Len(committed) + 1 /\ ~ev.partial
        <5>1. committed'[j].text = n + 1
          BY <3>5, <4>4
        <5> QED BY <1>2, <4>2, <5>1
      <4> QED BY <3>6, <4>3, <4>4
    <3>9. \A s \in Speakers : hypothesis'[s] # Nothing => hypothesis'[s] <= n + 1
      <4>1. ASSUME NEW s \in Speakers, hypothesis'[s] # Nothing PROVE hypothesis'[s] <= n + 1
        <5>1. CASE s = ev.speaker
          BY <1>2, <3>3, <4>1, <5>1
        <5>2. CASE s # ev.speaker
          <6>1. hypothesis'[s] = hypothesis[s] /\ hypothesis[s] <= n /\ hypothesis[s] \in 1..MaxEvents
            BY <1>8a, <1>8c, <3>3, <4>1, <5>2
          <6> QED BY <1>2, <6>1
        <5> QED BY <5>1, <5>2
      <4> QED BY <4>1
    <3>10. ASSUME NEW s \in Speakers, NEW t \in 1..(n + 1)
           PROVE  /\ FinalIn(r, s, t) <=>
                       \E i \in 1..Len(committed') : committed'[i].speaker = s /\ committed'[i].text = t
                  /\ OpenIn(r, n + 1, s, t) <=> hypothesis'[s] = t
      <4>1. CASE t \in 1..n
        <5>1. FinalIn(r, s, t) <=>
                \E i \in 1..Len(committed) : committed[i].speaker = s /\ committed[i].text = t
          BY <1>5, <1>8b, <4>1 DEF Grows
        <5>2. (\E i \in 1..Len(committed) : committed[i].speaker = s /\ committed[i].text = t)
                <=> \E i \in 1..Len(committed') : committed'[i].speaker = s /\ committed'[i].text = t
          <6>1. t # n + 1
            BY <1>2, <4>1
          <6>2. \A i \in 1..Len(committed) : i \in 1..Len(committed')
            BY <1>8c, <3>5
          <6> QED BY <3>5, <3>6, <6>1, <6>2
        <5>3. OpenIn(r, n + 1, s, t) <=> hypothesis[s] = t /\ s # ev.speaker
          <6>1. OpenIn(r, n + 1, s, t) <=> OpenIn(q, n, s, t) /\ ~IsOf(r, n + 1, s)
            BY <1>5, <4>1 DEF Grows
          <6>2. OpenIn(q, n, s, t) <=> hypothesis[s] = t
            BY <1>8b, <4>1
          <6> QED BY <3>4, <6>1, <6>2, Zenon
        <5>4. (hypothesis[s] = t /\ s # ev.speaker) <=> hypothesis'[s] = t
          <6>1. t # n + 1 /\ t # Nothing
            BY <1>2, <4>1, FeedAssumption
          <6> QED BY <3>3, <6>1
        <5> QED BY <5>1, <5>2, <5>3, <5>4, Zenon
      <4>2. CASE t = n + 1
        <5>1. FinalIn(r, s, t) <=> s = ev.speaker /\ ~ev.partial
          BY <1>6, <2>1, <4>2 DEF FinalIn, IsOf
        <5>2. (\E i \in 1..Len(committed') : committed'[i].speaker = s /\ committed'[i].text = t)
                <=> s = ev.speaker /\ ~ev.partial
          <6>1. ASSUME NEW i \in 1..Len(committed) PROVE committed'[i].text # t
            <7>1. committed'[i] = committed[i] /\ committed[i].text <= n /\ committed[i].text \in Nat
              BY <1>8a, <1>8c, <3>5
            <7> QED BY <1>2, <4>2, <7>1
          <6>2. ~ev.partial => Len(committed) + 1 \in 1..Len(committed')
            BY <1>8c, <3>5
          <6> QED BY <3>5, <3>6, <4>2, <6>1, <6>2
        <5>3. OpenIn(r, n + 1, s, t) <=> s = ev.speaker /\ ev.partial
          BY <1>5, <3>4, <4>2 DEF Grows
        <5>4. hypothesis'[s] = t <=> s = ev.speaker /\ ev.partial
          <6>1. t # Nothing
            BY <1>2, <4>2, FeedAssumption
          <6>2. s # ev.speaker => hypothesis'[s] # t
            <7>1. ASSUME s # ev.speaker, hypothesis'[s] = t PROVE FALSE
              <8>1. hypothesis[s] = t /\ t <= n
                BY <1>8a, <3>3, <6>1, <7>1
              <8> QED BY <1>2, <4>2, <8>1
            <7> QED BY <7>1
          <6> QED BY <3>3, <4>2, <6>1, <6>2
        <5> QED BY <5>1, <5>2, <5>3, <5>4, Zenon
      <4>3. t \in 1..n \/ t = n + 1
        BY <1>2
      <4> QED BY <4>1, <4>2, <4>3, Zenon
    <3>11. StateTypeInv'
      BY <3>3, <3>5 DEF StateTypeInv
    <3> QED BY <1>1, <1>3, <3>7, <3>8, <3>9, <3>10, <3>11 DEF StateInv
  <2>2. CASE ev.kind # "segment"
    <3>1. committed' = committed /\ hypothesis' = hypothesis
      BY <1>0, <2>2 DEF Apply, ApplyStatus
    <3>2. \A s : ~IsOf(r, n + 1, s)
      BY <1>6, <2>2 DEF IsOf
    <3>3. \A i \in 1..Len(committed) : committed[i].text <= n + 1
      BY <1>2, <1>8a, <1>8c
    <3>4. ASSUME NEW s \in Speakers, hypothesis[s] # Nothing PROVE hypothesis[s] <= n + 1
      <4>1. hypothesis[s] <= n /\ hypothesis[s] \in 1..MaxEvents
        BY <1>8a, <1>8c, <3>4
      <4> QED BY <1>2, <4>1
    <3>5. ASSUME NEW s \in Speakers, NEW t \in 1..(n + 1)
          PROVE  /\ FinalIn(r, s, t) <=>
                      \E i \in 1..Len(committed) : committed[i].speaker = s /\ committed[i].text = t
                 /\ OpenIn(r, n + 1, s, t) <=> hypothesis[s] = t
      <4>1. CASE t \in 1..n
        <5>1. /\ FinalIn(r, s, t) <=> FinalIn(q, s, t)
              /\ OpenIn(r, n + 1, s, t) <=> OpenIn(q, n, s, t)
          BY <1>5, <3>2, <4>1 DEF Grows
        <5> QED BY <1>8b, <4>1, <5>1
      <4>2. CASE t = n + 1
        <5>1. ~FinalIn(r, s, t) /\ ~OpenIn(r, n + 1, s, t)
          BY <3>2, <4>2 DEF FinalIn, OpenIn
        <5>2. \A i \in 1..Len(committed) : committed[i].text # t
          BY <1>2, <1>8a, <1>8c, <4>2
        <5>3. hypothesis[s] # t
          <6>1. t # Nothing /\ ~(t <= n)
            BY <1>2, <4>2, FeedAssumption
          <6> QED BY <1>8a, <6>1
        <5> QED BY <5>1, <5>2, <5>3
      <4>3. t \in 1..n \/ t = n + 1
        BY <1>2
      <4> QED BY <4>1, <4>2, <4>3, Zenon
    <3>6. StateTypeInv'
      BY <1>8a, <3>1 DEF StateTypeInv
    <3> QED BY <1>1, <1>3, <1>8a, <3>1, <3>3, <3>4, <3>5, <3>6 DEF StateInv
  <2> QED BY <2>1, <2>2
<1>9. FeedTypeInv'
  <2>1. PageView' = PageView
    BY <1>1 DEF PageView, viewVars
  <2>2. log' = log /\ position' = position /\ missed' = missed /\ twice' = twice
    BY <1>1 DEF gapVars
  <2>3. position \in 1..(applied' + 1) /\ missed \in BOOLEAN /\ twice \in 0..applied'
    BY <1>1, <1>2 DEF FeedInv, FeedTypeInv
  <2> QED BY <1>1, <1>2, <1>8, <2>1, <2>2, <2>3 DEF FeedInv, FeedTypeInv
<1>10. PageInv'
  <2>1. PageView' = PageView
    BY <1>1 DEF PageView, viewVars
  <2>2. /\ log' = log /\ conn' = conn /\ position' = position
        /\ missed' = missed /\ twice' = twice /\ Known' = Known /\ Doubled' = Doubled
    BY <1>1 DEF gapVars, Known, Doubled
  <2>3. /\ conn \in {"off", "stageRead"} => PageView = EmptyView
        /\ conn = "greeted" => Tells(PageView, q, position - 1, 0)
        /\ conn = "live" => position <= Len(log) + 1 /\ twice <= position
        /\ conn = "live" /\ ~missed => Tells(PageView, q, Known, Doubled)
    BY <1>3 DEF FeedInv, PageInv
  <2>4. position - 1 \in 0..n /\ Known \in 0..n
    BY <1>2 DEF FeedInv, FeedTypeInv, Known
  <2>5. ASSUME NEW m \in 0..n, NEW d, Tells(PageView, q, m, d) PROVE Tells(PageView, r, m, d)
    <3>1. m \in Nat /\ \A t \in 1..m : q[t] = r[t]
      BY <1>2, <1>6
    <3> QED BY <2>5, <3>1, TellsTheFirst
  <2>6. /\ conn = "greeted" => Tells(PageView, r, position - 1, 0)
        /\ conn = "live" /\ ~missed => Tells(PageView, r, Known, Doubled)
    BY <2>3, <2>4, <2>5
  <2> QED BY <1>1, <1>3, <2>1, <2>2, <2>3, <2>6 DEF PageInv
<1> QED BY <1>7, <1>8, <1>9, <1>10 DEF FeedInv
\* Steps that touch neither the state nor what has been said.
LEMMA NothingSaid ==
  ASSUME FeedInv, UNCHANGED <<serverVars, WasSaid>>, log' = log,
         PageView' \in Views, position' \in 1..(applied + 1), missed' \in BOOLEAN,
         twice' \in 0..applied
  PROVE  FeedTypeInv' /\ SaidInv' /\ StateInv'
<1>1. /\ committed' = committed /\ hypothesis' = hypothesis /\ applied' = applied
      /\ emitting' = emitting /\ WasSaid' = WasSaid
  BY DEF serverVars
<1>2. FeedTypeInv'
  BY <1>1 DEF FeedInv, FeedTypeInv, StateTypeInv
<1>3. SaidInv'
  BY <1>1 DEF FeedInv, SaidInv
<1>4. StateInv'
  BY <1>1 DEF FeedInv, StateInv
<1> QED BY <1>2, <1>3, <1>4

\* The rest of the sink: what was said stays the same, more of it is in the log.
LEMMA BroadcastKeeps ==
  ASSUME FeedInv, Broadcast
  PROVE  FeedInv'
<1>1. /\ emitting # Nothing /\ log' = Append(log, emitting) /\ emitting' = Nothing
      /\ committed' = committed /\ hypothesis' = hypothesis /\ applied' = applied
      /\ conn' = conn /\ missed' = missed /\ twice' = twice /\ position' = position
      /\ lines' = lines /\ partialKey' = partialKey
  BY DEF Broadcast, viewVars, gapVars
<1>2. WasSaid' = WasSaid /\ PageView' = PageView /\ Known' = Known /\ Doubled' = Doubled
  BY <1>1 DEF WasSaid, PageView, Known, Doubled
<1>3. /\ log \in Seq(Events) /\ emitting \in Events
  BY <1>1 DEF FeedInv, FeedTypeInv
<1>4. log' \in Seq(Events) /\ Len(log') = Len(log) + 1 /\ Len(log) \in Nat
  BY <1>1, <1>3
<1>5. FeedTypeInv'
  BY <1>1, <1>2, <1>4 DEF FeedInv, FeedTypeInv, StateTypeInv
<1>6. SaidInv'
  BY <1>1, <1>2 DEF FeedInv, SaidInv
<1>7. StateInv'
  BY <1>1, <1>2 DEF FeedInv, StateInv
<1>8. PageInv'
  <2>1. conn = "live" => position <= Len(log) + 1 + 1 /\ twice <= position
    BY <1>4 DEF FeedInv, FeedTypeInv, PageInv
  <2> QED BY <1>1, <1>2, <1>4, <2>1 DEF FeedInv, PageInv
<1> QED BY <1>5, <1>6, <1>7, <1>8 DEF FeedInv

\* The slot, the end of a lagging connection and the look at the stage leave the
\* page as it is.
LEMMA QuietKeeps ==
  ASSUME FeedInv, Server \/ FallBehind \/ ReadStage
  PROVE  FeedInv'
<1>1. /\ UNCHANGED serverVars /\ log' = log /\ missed' = missed /\ twice' = twice /\ position' = position
      /\ lines' = lines /\ partialKey' = partialKey
      /\ conn' = conn \/ conn' = "closed" \/ (conn = "off" /\ conn' = "stageRead")
  BY DEF Server, StartListen, Started, StopListen, FallBehind, CloseOnLag, ReadStage, viewVars, gapVars
<1>2. emitting' = emitting
  BY <1>1 DEF serverVars
<1>3. /\ WasSaid' = WasSaid /\ PageView' = PageView /\ applied' = applied
      /\ Known' = Known /\ Doubled' = Doubled
  BY <1>1, <1>2 DEF WasSaid, PageView, serverVars, Known, Doubled
<1>4. FeedTypeInv' /\ SaidInv' /\ StateInv'
  <2>1. /\ PageView \in Views /\ position \in 1..(applied + 1)
        /\ missed \in BOOLEAN /\ twice \in 0..applied
    BY DEF FeedInv, FeedTypeInv
  <2> QED BY <1>1, <1>3, <2>1, NothingSaid
<1>5. PageInv'
  BY <1>1, <1>3 DEF FeedInv, PageInv
<1> QED BY <1>4, <1>5 DEF FeedInv

\* The page shows the snapshot.
LEMMA ReadTranscriptKeeps ==
  ASSUME FeedInv, ReadTranscript
  PROVE  FeedInv'
<1>1. /\ UNCHANGED serverVars /\ log' = log /\ missed' = missed /\ twice' = twice /\ position' = applied + 1
      /\ SetView(SnapshotView) /\ conn' = "greeted"
  BY DEF ReadTranscript, gapVars
<1>2. emitting' = emitting /\ applied' = applied /\ applied \in Nat
  BY <1>1, FeedAssumption DEF serverVars, FeedInv, FeedTypeInv
<1>3. WasSaid' = WasSaid
  BY <1>1, <1>2 DEF WasSaid
<1>4. SnapshotView \in Views /\ Tells(SnapshotView, WasSaid, applied, 0)
  BY SnapshotTells DEF FeedInv, FeedTypeInv
<1>5. PageView' = SnapshotView
  <2>1. lines' = SnapshotView.lines /\ partialKey' = SnapshotView.partialKey
    BY <1>1 DEF SetView
  <2>2. SnapshotView = [lines |-> SnapshotView.lines, partialKey |-> SnapshotView.partialKey]
    BY <1>4 DEF Views
  <2> QED BY <2>1, <2>2 DEF PageView
<1>6. FeedTypeInv' /\ SaidInv' /\ StateInv'
  <2>1. /\ position' \in 1..(applied + 1) /\ missed' \in BOOLEAN
        /\ twice' \in 0..applied
    BY <1>1, <1>2 DEF FeedInv, FeedTypeInv
  <2> QED BY <1>1, <1>3, <1>4, <1>5, <2>1, NothingSaid
<1>7. PageInv'
  <2>1. position' - 1 = applied
    BY <1>1, <1>2
  <2> QED BY <1>1, <1>3, <1>4, <1>5, <2>1 DEF PageInv
<1> QED BY <1>6, <1>7 DEF FeedInv

\* A page that is not greeted by a snapshot, or is loaded again, starts empty.
LEMMA EmptyPageKeeps ==
  ASSUME FeedInv, GreetWithoutSnapshot \/ Reload
  PROVE  FeedInv'
<1>1. /\ UNCHANGED serverVars /\ log' = log /\ position' = 1
      /\ missed' \in BOOLEAN /\ twice' \in {0, twice} /\ conn' \in {"greeted", "off"}
  BY DEF GreetWithoutSnapshot, Reload, gapVars, FeedInv, FeedTypeInv
<1>2. emitting' = emitting /\ applied' = applied /\ applied \in Nat
  BY <1>1, FeedAssumption DEF serverVars, FeedInv, FeedTypeInv
<1>3. WasSaid' = WasSaid
  BY <1>1, <1>2 DEF WasSaid
<1>4. PageView' = EmptyView
  <2>1. CASE GreetWithoutSnapshot
    <3>1. PageView = EmptyView
      BY <2>1 DEF GreetWithoutSnapshot, FeedInv, PageInv
    <3>2. lines' = lines /\ partialKey' = partialKey
      BY <2>1 DEF GreetWithoutSnapshot, viewVars
    <3> QED BY <3>1, <3>2 DEF PageView
  <2>2. CASE Reload
    BY <2>2 DEF Reload, SetView, EmptyView, PageView
  <2> QED BY <2>1, <2>2
<1>5. FeedTypeInv' /\ SaidInv' /\ StateInv'
  <2>1. position' \in 1..(applied + 1) /\ twice' \in 0..applied
    BY <1>1, <1>2 DEF FeedInv, FeedTypeInv
  <2> QED BY <1>1, <1>3, <1>4, <2>1, EmptyViewLists, NothingSaid
<1>6. PageInv'
  <2>1. Tells(EmptyView, WasSaid, 0, 0)
    BY EmptyViewTells
  <2>2. position' - 1 = 0
    BY <1>1
  <2> QED BY <1>1, <1>3, <1>4, <2>1, <2>2 DEF PageInv
<1> QED BY <1>5, <1>6 DEF FeedInv

\* The subscription: what the page knows is what comes before its place in the
\* channel, or one event more.
LEMMA SubscribeKeeps ==
  ASSUME FeedInv, Subscribe
  PROVE  FeedInv'
<1>1. /\ UNCHANGED serverVars /\ log' = log /\ position' = Len(log) + 1
      /\ missed' = (position < Len(log) + 1)
      /\ twice' = IF position > Len(log) + 1 THEN Len(log) + 1 ELSE 0
      /\ conn = "greeted" /\ conn' = "live"
      /\ lines' = lines /\ partialKey' = partialKey
  BY DEF Subscribe, NextToCome, viewVars
<1>2. emitting' = emitting /\ log \in Seq(Events) /\ Len(log) \in Nat
  BY <1>1, LenProperties DEF serverVars, FeedInv, FeedTypeInv
<1>3. WasSaid' = WasSaid /\ PageView' = PageView
  BY <1>1, <1>2 DEF WasSaid, PageView
<1>4. applied \in Nat /\ Len(log) <= applied /\ applied <= Len(log) + 1
  <2>1. applied = Len(WasSaid) /\ emitting \in Events \cup {Nothing}
    BY DEF FeedInv, SaidInv, FeedTypeInv
  <2>2. CASE emitting = Nothing
    BY <1>2, <2>1, <2>2 DEF WasSaid
  <2>3. CASE emitting # Nothing
    <3>1. WasSaid = Append(log, emitting) /\ emitting \in Events
      BY <2>1, <2>3 DEF WasSaid
    <3>2. Len(WasSaid) = Len(log) + 1
      BY <1>2, <3>1
    <3> QED BY <1>2, <2>1, <3>2
  <2> QED BY <2>2, <2>3
<1>5. position \in 1..(applied + 1)
  BY DEF FeedInv, FeedTypeInv
<1>6. FeedTypeInv' /\ SaidInv' /\ StateInv'
  <2>1. PageView \in Views /\ position' \in 1..(applied + 1) /\ missed' \in BOOLEAN
        /\ twice' \in 0..applied
    BY <1>1, <1>2, <1>4, <1>5 DEF FeedInv, FeedTypeInv
  <2> QED BY <1>1, <1>3, <2>1, NothingSaid
<1>7. PageInv'
  <2>1. position' <= Len(log') + 1 /\ twice' <= position'
    BY <1>1, <1>2
  <2>2. ~missed' => Known' = position - 1 /\ Doubled' = 0
    <3>1. CASE position < Len(log) + 1
      BY <1>1, <3>1
    <3>2. CASE position = Len(log) + 1
      <4>1. twice' = 0 /\ position' = position /\ position' > 0
        BY <1>1, <1>2, <3>2
      <4> QED BY <1>2, <1>5, <4>1 DEF Known, Doubled
    <3>3. CASE position > Len(log) + 1
      <4>1. twice' = Len(log) + 1 /\ position' = Len(log) + 1 /\ position = Len(log) + 2
        BY <1>1, <1>2, <1>4, <1>5, <3>3
      <4> QED BY <1>2, <4>1 DEF Known, Doubled
    <3> QED BY <1>2, <1>5, <3>1, <3>2, <3>3
  <2>3. Tells(PageView, WasSaid, position - 1, 0)
    BY <1>1 DEF FeedInv, PageInv
  <2>4. ~missed' => Tells(PageView', WasSaid', Known', Doubled')
    BY <1>3, <2>2, <2>3, Zenon
  <2> QED BY <1>1, <2>1, <2>4 DEF PageInv
<1> QED BY <1>6, <1>7 DEF FeedInv

\* The event delivered is one of those said, and the page handles it.
LEMMA DeliverKeeps ==
  ASSUME FeedInv, Deliver
  PROVE  FeedInv'
<1>1. /\ UNCHANGED serverVars /\ log' = log /\ position' = position + 1
      /\ missed' = missed /\ twice' = twice /\ conn = "live" /\ conn' = "live" /\ position <= Len(log)
      /\ Show(log[position])
  BY DEF Deliver, gapVars
<1>2. /\ emitting' = emitting /\ log \in Seq(Events) /\ Len(log) \in Nat
      /\ position \in 1..(applied + 1) /\ missed \in BOOLEAN /\ twice \in 0..applied
      /\ PageView \in Views
      /\ applied \in 0..MaxEvents /\ emitting \in Events \cup {Nothing}
  BY <1>1, LenProperties DEF serverVars, FeedInv, FeedTypeInv
<1>3. WasSaid' = WasSaid
  BY <1>1, <1>2 DEF WasSaid
<1>4. PICK n, e, v, q : n = position - 1 /\ e = log[position] /\ v = PageView /\ q = WasSaid
  OBVIOUS
<1>5. n \in Nat /\ n + 1 = position /\ position \in 1..Len(log) /\ e \in Events /\ v \in Views
  BY <1>1, <1>2, <1>4, ElementOfSeq
<1>6. q[n + 1] = e /\ position \in 1..applied
  <2>1. Len(WasSaid) = applied
    BY DEF FeedInv, SaidInv
  <2>2. WasSaid[position] = log[position] /\ Len(log) <= Len(WasSaid)
    <3>1. CASE emitting = Nothing
      BY <1>2, <3>1 DEF WasSaid
    <3>2. CASE emitting # Nothing
      <4>1. WasSaid = Append(log, emitting) /\ emitting \in Events
        BY <1>2, <3>2 DEF WasSaid
      <4> QED BY <1>2, <1>5, <4>1
    <3> QED BY <3>1, <3>2
  <2> QED BY <1>2, <1>4, <1>5, <2>1, <2>2
\* It is in the snapshot already, or it is the next.
<1>7. /\ ~missed /\ twice = position => Tells(v, q, n + 1, 0)
      /\ ~missed /\ twice # position => Tells(v, q, n, twice)
      /\ Known' = position /\ Doubled' = twice
  <2>1. twice <= position /\ (~missed => Tells(v, q, Known, Doubled))
    BY <1>1, <1>4 DEF FeedInv, PageInv
  <2>2. CASE twice = position
    <3>1. Known = n + 1 /\ Doubled = 0
      BY <1>2, <1>5, <2>2 DEF Known, Doubled
    <3>2. Known' = position /\ Doubled' = twice
      BY <1>1, <1>2, <1>5, <2>2 DEF Known, Doubled
    <3> QED BY <2>1, <2>2, <3>1, <3>2
  <2>3. CASE twice # position
    <3>1. Known = n /\ Doubled = twice
      BY <1>2, <1>4, <1>5, <2>1, <2>3 DEF Known, Doubled
    <3>2. Known' = position /\ Doubled' = twice
      BY <1>1, <1>2, <1>5, <2>1, <2>3 DEF Known, Doubled
    <3> QED BY <2>1, <2>3, <3>1, <3>2
  <2> QED BY <2>2, <2>3
<1>7a. \A i \in 1..Len(v.lines) : v.lines[i].text \in Nat \ {0}
  <2>1. v.lines \in Seq(Lines)
    BY <1>5 DEF Views
  <2>2. \A i \in 1..Len(v.lines) : v.lines[i] \in Lines
    BY <2>1, ElementOfSeq
  <2> QED BY <2>2 DEF Lines
<1>8. PageView' \in Views /\ (~missed => Tells(PageView', WasSaid, position, twice))
  <2>1. CASE e.kind = "segment"
    <3>1. e \in SegmentEvents /\ e.text = n + 1
      <4>1. e \in SegmentEvents
        BY <1>5, <2>1 DEF Events, StatusEvents
      <4>2. WasSaid[position] = e
        BY <1>4, <1>5, <1>6
      <4>3. e.text = position
        BY <1>6, <2>1, <4>2 DEF FeedInv, SaidInv
      <4> QED BY <1>5, <4>1, <4>3
    <3>2. e.speaker \in Speakers /\ e.partial \in BOOLEAN /\ e.text \in 1..MaxEvents
      BY <3>1 DEF SegmentEvents
    <3>3. PICK w, k : w = Push(v, e) /\ k = PlaceFor(v, e)
      OBVIOUS
    <3>4. w = Push(v, e)
      BY <3>3
    <3>5. k = PlaceFor(v, e)
      BY <3>3
    <3>6. Pushed(v, e, w, k)
      BY ONLY <1>5, v \in Views, <3>2, <3>4, <3>5, PushIs
    <3>7. w \in Views
      BY <3>6 DEF Pushed
    <3>8. PageView' = w
      <4>1. SetView(Push([lines |-> lines, partialKey |-> partialKey], e))
        BY <1>1, <1>4, <2>1 DEF Show
      <4>2. lines' = w.lines /\ partialKey' = w.partialKey
        BY <1>4, <3>4, <4>1 DEF SetView, PageView
      <4>3. w = [lines |-> w.lines, partialKey |-> w.partialKey]
        BY <3>7 DEF Views
      <4> QED BY <4>2, <4>3 DEF PageView
    <3>9. ASSUME ~missed PROVE Tells(w, q, n + 1, twice)
      <4>1. CASE twice # position
        <5>1. Tells(v, q, n, twice)
          BY <1>7, <3>9, <4>1
        <5>2. Tells(Push(v, e), q, n + 1, twice)
          BY ONLY <1>5, <1>6, <3>1, <5>1, PushTells
        <5> QED BY <3>4, <5>2
      <4>2. CASE twice = position
        <5>1. PICK m : m = n + 1
          OBVIOUS
        <5>2. Tells(v, q, m, 0) /\ m \in Nat \ {0} /\ e = q[m] /\ e.text = m
          BY <1>5, <1>6, <1>7, <3>1, <3>9, <4>2, <5>1
        <5>3. e \in SegmentEvents /\ v \in Views
          BY <1>5, <3>1
        <5>4. Tells(Push(v, e), q, m, m)
          BY ONLY <5>2, <5>3, AgainTells
        <5> QED BY <1>5, <3>4, <4>2, <5>1, <5>4
      <4> QED BY <4>1, <4>2
    <3> QED BY <1>4, <1>5, <3>7, <3>8, <3>9
  <2>2. CASE e.kind # "segment"
    <3>1. PageView' = v
      BY <1>1, <1>4, <2>2 DEF Show, PageView
    <3>2. ASSUME ~missed PROVE Tells(v, q, n + 1, twice)
      <4>1. CASE twice # position
        <5>1. Tells(v, q, n, twice) /\ q[n + 1].kind # "segment"
          BY <1>6, <1>7, <2>2, <3>2, <4>1
        <5>2. \A i \in 1..Len(v.lines) : v.lines[i].text \in Nat
          BY <1>7a
        <5> QED BY ONLY <1>5, <5>1, <5>2, StatusTells
      <4>2. CASE twice = position
        <5>1. Tells(v, q, n + 1, 0) /\ n + 1 \in Nat
          BY <1>5, <1>7, <3>2, <4>2
        <5> QED BY <1>7a, <5>1, TellsAnyway
      <4> QED BY <4>1, <4>2
    <3> QED BY <1>4, <1>5, <3>1, <3>2
  <2> QED BY <2>1, <2>2
<1>9. FeedTypeInv' /\ SaidInv' /\ StateInv'
  <2>1. position' \in 1..(applied + 1) /\ missed' \in BOOLEAN /\ twice' \in 0..applied
    BY <1>1, <1>2, <1>6
  <2> QED BY <1>1, <1>3, <1>8, <2>1, NothingSaid
<1>10. PageInv'
  <2>1. position' <= Len(log') + 1 /\ twice' <= position'
    <3>1. twice <= position
      BY <1>1 DEF FeedInv, PageInv
    <3> QED BY <1>1, <1>2, <3>1
  <2>2. ~missed' => Tells(PageView', WasSaid', Known', Doubled')
    BY <1>1, <1>3, <1>7, <1>8, Zenon
  <2> QED BY <1>1, <2>1, <2>2 DEF PageInv
<1> QED BY <1>9, <1>10 DEF FeedInv

\* And steps of other parts.
LEMMA StutterKeepsFeed ==
  ASSUME FeedInv, UNCHANGED vars
  PROVE  FeedInv'
<1>1. /\ UNCHANGED serverVars /\ log' = log /\ missed' = missed /\ twice' = twice /\ position' = position
      /\ lines' = lines /\ partialKey' = partialKey /\ conn' = conn
  BY DEF vars, viewVars, gapVars
<1>2. emitting' = emitting
  BY <1>1 DEF serverVars
<1>3. /\ WasSaid' = WasSaid /\ PageView' = PageView /\ applied' = applied
      /\ Known' = Known /\ Doubled' = Doubled
  BY <1>1, <1>2 DEF WasSaid, PageView, serverVars, Known, Doubled
<1>4. FeedTypeInv' /\ SaidInv' /\ StateInv'
  <2>1. /\ PageView \in Views /\ position \in 1..(applied + 1)
        /\ missed \in BOOLEAN /\ twice \in 0..applied
    BY DEF FeedInv, FeedTypeInv
  <2> QED BY <1>1, <1>3, <2>1, NothingSaid
<1>5. PageInv'
  BY <1>1, <1>3 DEF FeedInv, PageInv
<1> QED BY <1>4, <1>5 DEF FeedInv

\* So the invariant holds throughout.
LEMMA FeedAlways == Spec => []FeedInv
<1>1. FeedInv /\ [Next]_vars => FeedInv'
  <2>1. FeedInv /\ Next => FeedInv'
    BY EmitKeeps, BroadcastKeeps, QuietKeeps, ReadTranscriptKeeps, EmptyPageKeeps,
       SubscribeKeeps, DeliverKeeps, Zenon DEF Next, Page
  <2> QED BY <2>1, StutterKeepsFeed
<1> QED BY <1>1, InitFeed, PTL DEF Spec

LEMMA FewAlways == Spec => []FewInv
<1>1. Init => FewInv
  BY DEF Init, FewInv, Stages
<1>2. FewInv /\ [Next]_vars => FewInv'
  <2> SUFFICES ASSUME FewInv, [Next]_vars PROVE FewInv'
    OBVIOUS
  <2> USE DEF FewInv
  <2>1. CASE Emit
    <3>1. PICK ev : Apply(ev) /\ (ev.kind = "status" => ev.stage \in Stages)
      <4>1. ASSUME NEW s \in Speakers, NEW p \in BOOLEAN, NEW ev,
                   ev = [kind |-> "segment", speaker |-> s, partial |-> p, text |-> applied + 1]
            PROVE  ev.kind # "status"
        BY <4>1
      <4>2. ASSUME NEW st \in Stages, NEW ev, ev = [kind |-> "status", stage |-> st]
            PROVE  ev.stage \in Stages
        BY <4>2
      <4> QED BY <2>1, <4>1, <4>2, Zenon DEF Emit
    <3>2. stage' \in Stages
      BY <3>1 DEF Apply, ApplySegment, ApplyStatus
    <3> QED BY <3>1, <3>2 DEF Apply, viewVars
  <2>2. CASE Broadcast
    BY <2>2 DEF Broadcast, viewVars
  <2>3. CASE Server
    BY <2>3 DEF Server, StartListen, Started, StopListen, serverVars, viewVars
  <2>4. CASE ReadStage \/ ReadTranscript \/ GreetWithoutSnapshot \/ Subscribe
    BY <2>4 DEF ReadStage, ReadTranscript, GreetWithoutSnapshot, Subscribe, serverVars, viewVars
  <2>5. CASE Deliver
    <3>1. ui' \in {"idle", "listening", "paused"}
      BY <2>5 DEF Deliver, Show
    <3> QED BY <2>5, <3>1 DEF Deliver, serverVars
  <2>6. CASE FallBehind
    BY <2>6 DEF FallBehind, CloseOnLag, serverVars, viewVars
  <2>7. CASE Reload
    BY <2>7 DEF Reload, serverVars
  <2>8. CASE UNCHANGED vars
    BY <2>8 DEF vars, serverVars, viewVars
  <2> QED BY <2>1, <2>2, <2>3, <2>4, <2>5, <2>6, <2>7, <2>8 DEF Next, Page
<1> QED BY <1>1, <1>2, PTL DEF Spec

\* A page that is connected and missed nothing shows, when it is caught up, what the
\* state of the session says; each final once, but for the one event that may have
\* been in the snapshot and come again (transcript.rs, transcript.ts).
THEOREM PagesAgree == Spec => []CaughtUpAgrees
<1>1. FeedInv /\ FewInv => FeedTypeOK
  <2> SUFFICES ASSUME FeedInv, FewInv PROVE FeedTypeOK
    OBVIOUS
  <2>1. /\ lines \in Seq(Lines) /\ DOMAIN partialKey = Speakers
        /\ \A s \in Speakers : partialKey[s] \in 0..Len(lines)
    <3>1. /\ PageView.lines \in Seq(Lines) /\ PageView.partialKey \in [Speakers -> Nat]
          /\ \A s \in Speakers : PageView.partialKey[s] <= Len(PageView.lines)
      BY DEF FeedInv, FeedTypeInv, Views
    <3>2. PageView.lines = lines /\ PageView.partialKey = partialKey
      BY DEF PageView
    <3>3. Len(lines) \in Nat
      BY <3>1, <3>2, LenProperties
    <3> QED BY <3>1, <3>2, <3>3
  <2> QED BY <2>1, Zenon DEF FeedInv, FeedTypeInv, FewInv, FeedTypeOK, StateTypeInv, Events
<1>2. FeedInv => PageAgrees
  <2> SUFFICES ASSUME FeedInv, conn = "live", ~missed, CaughtUp, NEW s \in Speakers
               PROVE  /\ TextsOf(lines, FinalLines(s)) = TextsOf(committed, CommittedBy(s))
                      /\ InOrderBut(twice, lines, FinalLines(s)) /\ InOrder(committed, CommittedBy(s))
                      /\ TextsOf(lines, OpenLines(s)) = {hypothesis[s]} \ {Nothing}
                      /\ \A i, j \in OpenLines(s) : i = j
    BY DEF PageAgrees
  <2>1. /\ lines \in Seq(Lines) /\ Len(lines) \in Nat
        /\ PageView.lines = lines /\ PageView.partialKey = partialKey
        /\ \A i \in 1..Len(lines) : lines[i].text \in 1..MaxEvents /\ lines[i].partial \in BOOLEAN
    <3>1. lines \in Seq(Lines) /\ PageView.lines = lines /\ PageView.partialKey = partialKey
      BY DEF FeedInv, FeedTypeInv, PageView, Views
    <3>2. \A i \in 1..Len(lines) : lines[i] \in Lines
      BY <3>1, ElementOfSeq
    <3> QED BY <3>1, <3>2, LenProperties DEF Lines
  <2>2. /\ committed \in Seq([speaker : Speakers, text : 1..MaxEvents])
        /\ hypothesis[s] \in 1..MaxEvents \cup {Nothing}
        /\ \A i \in 1..Len(committed) : committed[i].text \in 1..MaxEvents
    <3>1. committed \in Seq([speaker : Speakers, text : 1..MaxEvents])
          /\ hypothesis[s] \in 1..MaxEvents \cup {Nothing}
      BY DEF FeedInv, FeedTypeInv, StateTypeInv
    <3>2. \A i \in 1..Len(committed) : committed[i] \in [speaker : Speakers, text : 1..MaxEvents]
      BY <3>1, ElementOfSeq
    <3> QED BY <3>1, <3>2
  <2>3. WasSaid = log /\ position - 1 = applied /\ applied \in Nat
    <3>1. WasSaid = log
      BY DEF CaughtUp, WasSaid
    <3>2. applied = Len(log) /\ Len(log) \in Nat
      BY <3>1, LenProperties DEF FeedInv, SaidInv
    <3> QED BY <3>1, <3>2 DEF CaughtUp
  <2>4. LinesInOrder(PageView, twice) /\ Says(PageView, WasSaid, applied)
    <3>1. twice \in 0..applied /\ position \in 1..(applied + 1)
      BY DEF FeedInv, FeedTypeInv
    <3>2. Known = applied /\ Doubled = twice
      BY <2>3, <3>1 DEF Known, Doubled
    <3>3. Tells(PageView, WasSaid, Known, Doubled)
      BY DEF FeedInv, PageInv
    <3> QED BY <3>2, <3>3 DEF Tells
  <2>5. ASSUME NEW t \in 1..applied
        PROVE  /\ (\E i \in 1..Len(lines) : lines[i].speaker = s /\ lines[i].text = t /\ lines[i].partial = FALSE)
                    <=> \E i \in 1..Len(committed) : committed[i].speaker = s /\ committed[i].text = t
               /\ (\E i \in 1..Len(lines) : lines[i].speaker = s /\ lines[i].text = t /\ lines[i].partial = TRUE)
                    <=> hypothesis[s] = t
    <3>1. /\ FinalIn(WasSaid, s, t) <=> Shown(PageView, s, t, FALSE)
          /\ OpenIn(WasSaid, applied, s, t) <=> Shown(PageView, s, t, TRUE)
      BY <2>4 DEF Says
    <3>2. /\ FinalIn(WasSaid, s, t) <=>
               \E i \in 1..Len(committed) : committed[i].speaker = s /\ committed[i].text = t
          /\ OpenIn(WasSaid, applied, s, t) <=> hypothesis[s] = t
      BY DEF FeedInv, StateInv
    <3>3. \A p : Shown(PageView, s, t, p) <=>
            \E i \in 1..Len(lines) : lines[i].speaker = s /\ lines[i].text = t /\ lines[i].partial = p
      BY <2>1 DEF Shown
    <3> QED BY <3>1, <3>2, <3>3, Zenon
  <2>6. \A i \in 1..Len(lines) : lines[i].text \in 1..applied
    BY <2>1, <2>3, <2>4 DEF Says
  <2>7. /\ \A i \in 1..Len(committed) : committed[i].text \in 1..applied
        /\ hypothesis[s] # Nothing => hypothesis[s] \in 1..applied
    BY <2>2, <2>3 DEF FeedInv, StateInv
  <2>8. TextsOf(lines, FinalLines(s)) = TextsOf(committed, CommittedBy(s))
    <3>1. ASSUME NEW i \in FinalLines(s) PROVE lines[i].text \in TextsOf(committed, CommittedBy(s))
      <4>1. i \in 1..Len(lines) /\ lines[i].speaker = s /\ ~lines[i].partial
        BY DEF FinalLines
      <4>2. lines[i].text \in 1..applied /\ lines[i].partial = FALSE
        BY <2>1, <2>6, <4>1
      <4>3. PICK j \in 1..Len(committed) : committed[j].speaker = s /\ committed[j].text = lines[i].text
        BY <2>5, <4>1, <4>2
      <4>4. j \in CommittedBy(s)
        BY <4>3 DEF CommittedBy
      <4> QED BY <4>3, <4>4 DEF TextsOf
    <3>2. ASSUME NEW i \in CommittedBy(s) PROVE committed[i].text \in TextsOf(lines, FinalLines(s))
      <4>1. i \in 1..Len(committed) /\ committed[i].speaker = s /\ committed[i].text \in 1..applied
        BY <2>7 DEF CommittedBy
      <4>2. PICK j \in 1..Len(lines) :
              lines[j].speaker = s /\ lines[j].text = committed[i].text /\ lines[j].partial = FALSE
        BY <2>5, <4>1
      <4>3. j \in FinalLines(s)
        BY <4>2 DEF FinalLines
      <4> QED BY <4>2, <4>3 DEF TextsOf
    <3> QED BY <3>1, <3>2 DEF TextsOf
  <2>9. InOrderBut(twice, lines, FinalLines(s)) /\ InOrder(committed, CommittedBy(s))
    <3>1. InOrderBut(twice, lines, FinalLines(s))
      <4>1. ASSUME NEW i \in FinalLines(s), NEW j \in FinalLines(s), i < j
            PROVE  lines[i].text < lines[j].text \/ (lines[i].text = twice /\ lines[j].text = twice)
        BY <2>1, <2>4, <4>1 DEF FinalLines, LinesInOrder
      <4>2. ASSUME NEW i \in FinalLines(s), NEW j \in FinalLines(s), NEW k \in FinalLines(s),
                   i < j, j < k
            PROVE  lines[i].text < lines[k].text
        BY <2>1, <2>4, <4>2 DEF FinalLines, LinesInOrder
      <4> QED BY <4>1, <4>2 DEF InOrderBut
    <3>2. InOrder(committed, CommittedBy(s))
      BY DEF InOrder, CommittedBy, FeedInv, StateInv
    <3> QED BY <3>1, <3>2
  <2>10. TextsOf(lines, OpenLines(s)) = {hypothesis[s]} \ {Nothing}
    <3>1. ASSUME NEW i \in OpenLines(s) PROVE lines[i].text = hypothesis[s] /\ hypothesis[s] # Nothing
      <4>1. i \in 1..Len(lines) /\ lines[i].speaker = s /\ lines[i].partial
        BY DEF OpenLines
      <4>2. lines[i].text \in 1..applied
        BY <2>6, <4>1
      <4>3. lines[i].partial = TRUE
        BY <2>1, <4>1
      <4>4. hypothesis[s] = lines[i].text
        BY <2>5, <4>1, <4>2, <4>3
      <4> QED BY <4>2, <4>4, FeedAssumption
    <3>2. ASSUME hypothesis[s] # Nothing PROVE \E i \in OpenLines(s) : lines[i].text = hypothesis[s]
      <4>1. PICK i \in 1..Len(lines) :
              lines[i].speaker = s /\ lines[i].text = hypothesis[s] /\ lines[i].partial = TRUE
        BY <2>5, <2>7, <3>2
      <4> QED BY <4>1 DEF OpenLines
    <3> QED BY <3>1, <3>2 DEF TextsOf
  <2>11. \A i, j \in OpenLines(s) : i = j
    BY <2>1, <2>4 DEF OpenLines, LinesInOrder
  <2> QED BY <2>8, <2>9, <2>10, <2>11
<1>3. FeedInv /\ FewInv => CaughtUpAgrees
  BY <1>1, <1>2 DEF CaughtUpAgrees
<1> QED BY <1>3, FeedAlways, FewAlways, PTL

\* While a page is connected, a line it has shown as final keeps its words and
\* its place (transcript.ts, push): an event changes the open line of
\* its speaker, which is never a final one, or adds a line.
THEOREM FinalsAreFinal == Spec => FinalLinesStay
<1> DEFINE A == conn = "live" /\ conn' = "live" =>
                  \A i \in 1..Len(lines) : ~lines[i].partial => lines'[i] = lines[i]
<1>1. FeedInv /\ [Next]_vars => A
  <2> SUFFICES ASSUME FeedInv, [Next]_vars, conn = "live", conn' = "live",
                      NEW i \in 1..Len(lines), ~lines[i].partial
               PROVE  lines'[i] = lines[i]
    OBVIOUS
  <2>1. CASE lines' = lines
    BY <2>1
  <2>2. CASE Deliver /\ log[position].kind = "segment"
    <3>1. PICK e, v : e = log[position] /\ v = PageView
      OBVIOUS
    <3>2. v \in Views /\ v.lines = lines
      BY <3>1 DEF FeedInv, FeedTypeInv, PageView
    <3>3. e.speaker \in Speakers /\ e.partial \in BOOLEAN /\ e.text \in 1..MaxEvents
      <4>1. log \in Seq(Events) /\ position \in 1..Len(log)
        BY <2>2, LenProperties DEF Deliver, FeedInv, FeedTypeInv
      <4>2. e \in Events
        BY <3>1, <4>1, ElementOfSeq
      <4> QED BY <2>2, <3>1, <4>2 DEF Events, SegmentEvents, StatusEvents
    <3>4. PICK w, k : w = Push(v, e) /\ k = PlaceFor(v, e)
      OBVIOUS
    <3>5. w = Push(v, e)
      BY <3>4
    <3>6. k = PlaceFor(v, e)
      BY <3>4
    <3>7. v \in Views
      BY <3>2
    <3>8. Pushed(v, e, w, k)
      BY ONLY <3>3, <3>5, <3>6, <3>7, PushIs
    <3>9. i # k
      <4>1. k # Len(lines) + 1 => lines[k].partial
        BY <3>2, <3>3, <3>6 DEF PlaceFor, Views
      <4>2. Len(lines) \in Nat
        BY <3>2 DEF Views
      <4> QED BY <4>1, <4>2
    <3>10. lines' = w.lines
      BY <2>2, <3>1, <3>5 DEF Deliver, Show, SetView, PageView
    <3> QED BY <3>2, <3>8, <3>9, <3>10 DEF Pushed
  <2>3. lines' = lines \/ (Deliver /\ log[position].kind = "segment")
    <3>1. CASE Next
      <4>1. CASE Emit
        BY <4>1 DEF Emit, Apply, viewVars
      <4>2. CASE Broadcast
        BY <4>2 DEF Broadcast, viewVars
      <4>3. CASE Server
        BY <4>3 DEF Server, viewVars
      <4>4. CASE Page
        BY <4>4 DEF Page, ReadStage, ReadTranscript, GreetWithoutSnapshot, Subscribe, Deliver,
                    FallBehind, Show, viewVars
      <4>5. CASE Reload
        BY <4>5 DEF Reload
      <4> QED BY <3>1, <4>1, <4>2, <4>3, <4>4, <4>5 DEF Next
    <3>2. CASE UNCHANGED vars
      BY <3>2 DEF vars, viewVars
    <3> QED BY <3>1, <3>2
  <2> QED BY <2>1, <2>2, <2>3
<1> QED BY <1>1, FeedAlways, PTL DEF Spec, FinalLinesStay
===============================================================================
