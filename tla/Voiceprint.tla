------------------------------ MODULE Voiceprint -------------------------------
(***************************************************************************)
(* The owner's voiceprint: takes that enrol it, its file, and the sessions *)
(* that load it (crates/talksage-pipeline/src/speaker.rs, service.rs, the  *)
(* API of crates/talksage-server/src/lib.rs and the commands of            *)
(* web/src-tauri/src/lib.rs).                                              *)
(*                                                                         *)
(* A take records for some seconds in a thread of its own, judges what it  *)
(* has recorded, and overwrites the file, which is first emptied and then  *)
(* written.  Nothing keeps takes, removals and sessions apart, except that *)
(* the desktop does not begin a take while it listens.                     *)
(***************************************************************************)
EXTENDS Naturals, SequencesExt

CONSTANTS
  Takes,                \* the takes, which stand for the voiceprints they result in
  MaxFiles,             \* bound: how often the file is created
  Second,               \* MIN_VOICED_SAMPLES, in blocks
  Levels,               \* how loud a block (of 20 ms) may be
  Floor,                \* the level below which nothing is voice, 0.0005
  MaxBlocks,            \* bound: the blocks of a recording
  Nobody

ASSUME VoiceprintAssumption ==
  /\ MaxFiles \in Nat \ {0} /\ MaxBlocks \in Nat /\ Second \in Nat \ {0}
  /\ Levels \subseteq Nat /\ Floor \in Nat \ {0}
  /\ Takes \cap {Nobody, "empty", "torn"} = {}

VARIABLES
  host,                 \* "desktop" or "server"
  take,                 \* each take: none, recording, judged, writing, saved, failed
  into,                 \* the file that a take has open: its number, or 0
  file,                 \* owner.vec: which file has that name, 0 for none
  content,              \* of each file ever created: a take, "empty" or "torn"
  listening,            \* a session is running
  owner,                \* the voiceprint it was built with, or Nobody
  latest,               \* the take saved last, Nobody if it was removed since
  padded,               \* the takes whose voiceprint is made of silence for the most part
  spoiled               \* the file was last written by several takes at once, removed
                        \*   under one, or not written to its end

voiceVars == <<host, take, into, file, content, listening, owner, latest, padded, spoiled>>

VoiceInit ==
  /\ host \in {"desktop", "server"}
  /\ take = [t \in Takes |-> "none"] /\ into = [t \in Takes |-> 0]
  /\ file = 0 /\ content = <<>>
  /\ listening = FALSE /\ owner = Nobody
  /\ latest = Nobody /\ padded = {} /\ spoiled = FALSE

Open == {t \in Takes : take[t] = "writing"}
--------------------------------------------------------------------------------
\* A recording: how loud each of its blocks is.
Recordings == UNION {[1..n -> Levels] : n \in 0..MaxBlocks}

\* The blocks with voice in them, by the measure of this piece of audio: a share of
\* its own peak.
Peak(audio)   == Max({0} \cup {audio[i] : i \in DOMAIN audio})
Voiced(audio) == {i \in DOMAIN audio : audio[i] >= Floor /\ audio[i] * 100 >= Peak(audio) * 8}

\* prepare_speaker_audio: without what is no voice at its ends; nothing, if there is
\* less than a second of voice or if more than 65 of 100 blocks are none.
Prepared(audio) ==
  LET voiced  == Voiced(audio)
      cropped == SubSeq(audio, Min(voiced), Max(voiced))
  IN  IF Cardinality(voiced) < Second \/ Cardinality(voiced) * 100 < Len(cropped) * 35
      THEN <<>> ELSE cropped

\* enrollment_profile cuts what it has prepared into windows, each a third of it or a
\* second.
Width(prepared)     == Max({Len(prepared) \div 3, Second})
Window(prepared, k) ==
  SubSeq(prepared, (k - 1) * Width(prepared) + 1, Min({k * Width(prepared), Len(prepared)}))

\* compute_embedding prepares a window once more, by the window's own peak; those of
\* the first three that are good are averaged, and two have to be.
Averaged(prepared)       == {k \in 1..3 : Prepared(Window(prepared, k)) # <<>>}
EnrollmentProfile(audio) == Cardinality(Averaged(Prepared(audio))) >= 2

\* Most of the windows averaged have less than a second of voice, by the measure of
\* the whole.
IsPadded(audio) ==
  LET prepared == Prepared(audio)
      width    == Width(prepared)
      voice(k) == Voiced(prepared) \cap (((k - 1) * width + 1)..(k * width))
      poor     == {k \in Averaged(prepared) : Cardinality(voice(k)) < Second}
  IN  2 * Cardinality(poor) > Cardinality(Averaged(prepared))

Verdicts == {[good |-> EnrollmentProfile(audio), padded |-> IsPadded(audio)] : audio \in Recordings}
--------------------------------------------------------------------------------
\* load_owner_embedding: no file, or not the whole of one, is no voiceprint.
Load == IF file = 0 \/ (file # 0 /\ content[file] \in {"empty", "torn"}) THEN Nobody
        ELSE content[file]

\* owner_enrolled, which the settings page shows, looks for the file alone.
OwnerEnrolled == file # 0
--------------------------------------------------------------------------------
\* enroll_voice and voiceprint_enroll_api: a thread begins to record.
Enroll(t) ==
  /\ take[t] = "none"
  /\ host = "desktop" => ~listening
  /\ take' = [take EXCEPT ![t] = "recording"]
  /\ UNCHANGED <<host, into, file, content, listening, owner, latest, padded, spoiled>>

\* Mutant: the file is emptied before the recording has been judged.
RejectOverwriting(t) ==
  content' = [f \in DOMAIN content |-> IF f = file THEN "empty" ELSE content[f]]

\* Nothing of a take that is no good is saved.
Reject(t) == UNCHANGED content

\* The microphone may have failed, too.
Judge(t) ==
  /\ take[t] = "recording"
  /\ \E verdict \in Verdicts :
       \/ /\ verdict.good /\ take' = [take EXCEPT ![t] = "judged"] /\ UNCHANGED content
          /\ padded' = IF verdict.padded THEN padded \cup {t} ELSE padded
       \/ /\ ~verdict.good /\ take' = [take EXCEPT ![t] = "failed"] /\ Reject(t)
          /\ UNCHANGED padded
  /\ UNCHANGED <<host, into, file, listening, owner, latest, spoiled>>

\* save_owner_embedding: fs::write creates the file or empties it, and then writes.
Empty(t) ==
  /\ take[t] = "judged" /\ take' = [take EXCEPT ![t] = "writing"]
  /\ IF file = 0
     THEN /\ Len(content) < MaxFiles
          /\ file' = Len(content) + 1 /\ content' = Append(content, "empty")
     ELSE content' = [content EXCEPT ![file] = "empty"] /\ UNCHANGED file
  /\ into' = [into EXCEPT ![t] = file']
  /\ spoiled' = (Open # {})
  /\ UNCHANGED <<host, listening, owner, latest, padded>>

\* Over what another take has written in the meantime, a shorter voiceprint leaves
\* the end of the longer one.  The file may have been removed from its directory.
Write(t) ==
  /\ take[t] = "writing" /\ take' = [take EXCEPT ![t] = "saved"]
  /\ \E what \in {t} \cup (IF content[into[t]] = "empty" THEN {} ELSE {"torn"}) :
       content' = [content EXCEPT ![into[t]] = what]
  /\ into' = [into EXCEPT ![t] = 0] /\ latest' = t
  /\ UNCHANGED <<host, file, listening, owner, padded, spoiled>>

WriteFails(t) ==
  /\ take[t] = "writing" /\ take' = [take EXCEPT ![t] = "failed"]
  /\ content' = [content EXCEPT ![into[t]] = "torn"]
  /\ into' = [into EXCEPT ![t] = 0] /\ spoiled' = TRUE
  /\ UNCHANGED <<host, file, listening, owner, latest, padded>>

\* remove_voiceprint and voiceprint_remove_api.  A removal that fails changes
\* nothing, which the server does not tell.
Removed ==
  /\ file # 0 /\ file' = 0
  /\ latest' = Nobody /\ spoiled' = (Open # {})
  /\ UNCHANGED <<host, take, into, content, listening, owner, padded>>

\* build_live_config of a session that names its speakers.  The session keeps what
\* it has loaded.
Listen ==
  /\ ~listening /\ listening' = TRUE /\ owner' = Load
  /\ UNCHANGED <<host, take, into, file, content, latest, padded, spoiled>>

StopListening ==
  /\ listening /\ listening' = FALSE /\ owner' = Nobody
  /\ UNCHANGED <<host, take, into, file, content, latest, padded, spoiled>>

\* The process ends and is started again.
Restart ==
  /\ take' = [t \in Takes |-> IF take[t] \in {"none", "saved"} THEN take[t] ELSE "failed"]
  /\ into' = [t \in Takes |-> 0]
  /\ listening' = FALSE /\ owner' = Nobody
  /\ spoiled' = (spoiled \/ Open # {})
  /\ UNCHANGED <<host, file, content, latest, padded>>

VoiceNext ==
  \/ \E t \in Takes : Enroll(t) \/ Judge(t) \/ Empty(t) \/ Write(t) \/ WriteFails(t)
  \/ Removed \/ Listen \/ StopListening \/ Restart

VoiceSpec == VoiceInit /\ [][VoiceNext]_voiceVars
--------------------------------------------------------------------------------
VoiceTypeOK ==
  /\ host \in {"desktop", "server"}
  /\ take \in [Takes -> {"none", "recording", "judged", "writing", "saved", "failed"}]
  /\ content \in Seq(Takes \cup {"empty", "torn"}) /\ Len(content) <= MaxFiles
  /\ file \in 0..Len(content) /\ into \in [Takes -> 0..Len(content)]
  /\ listening \in BOOLEAN /\ owner \in Takes \cup {Nobody}
  /\ latest \in Takes \cup {Nobody} /\ padded \subseteq Takes /\ spoiled \in BOOLEAN

\* A session's owner is one whole voiceprint that was saved, and never what a crash,
\* a full disk or two takes at once have left of the file (speaker.rs:424).
OwnerIsWhole == owner # Nobody => take[owner] = "saved"

\* The voiceprint saved last stays until it is replaced or removed: a take that is
\* no good, or the end of the process while it records, leaves it as it is; and what
\* the settings page shows is then what a session loads.
LatestIsKept ==
  Open = {} /\ ~spoiled => Load = latest /\ (OwnerEnrolled <=> latest # Nobody)

\* What a voiceprint is made of is not all noise: the take has a second of voice, by
\* the measure of its own peak, and two seconds of sound that is not next to nothing,
\* though a second is what each window asks for, by a measure of its own.
Sound(audio) == {i \in DOMAIN audio : audio[i] >= Floor}

ProfilesAreOfVoice ==
  \A audio \in Recordings : EnrollmentProfile(audio) =>
    Cardinality(Voiced(audio)) >= Second /\ Cardinality(Sound(audio)) >= 2 * Second

\* The owner that is recognised is the owner that was enrolled: the file holds what
\* was saved last, whole, and what was saved comes of a take with a voice in it
\* (speaker.rs:30-63, 196-236, 415-448).
OwnerIsKept == VoiceTypeOK /\ OwnerIsWhole /\ LatestIsKept /\ ProfilesAreOfVoice

\* What speaker.rs:216 says of the windows: a profile is taken from several of them so
\* that no silence dominates it.
SilenceDoesNotDominate == owner \notin padded
================================================================================
