------------------------------ MODULE MCTranscript ------------------------------
(***************************************************************************)
(* What was said, by whom, and what a page shows of it: a behaviour is one *)
(* of the finals of a session, of the takes by which the owner's voice is  *)
(* enrolled, or of a page that follows a session.  Of three sentences two  *)
(* sound alike and one is too short to be compared; they are said alone or *)
(* in pairs.                                                               *)
(***************************************************************************)
EXTENDS Finals, Voiceprint, TranscriptFeed

CONSTANTS Hello, Hallo, Yes

VARIABLE about          \* what the behaviour is of

allVars == <<about, finalsVars, voiceVars, vars>>

AnySetup == CHOOSE x \in Setups : TRUE

MCInit ==
  /\ about \in {"finals", "takes", "page"}
  /\ FinalsInit /\ VoiceInit /\ Init
  /\ about # "finals" => setup = AnySetup
  /\ about # "takes" => host = "server"

MCNext ==
  \/ about = "finals" /\ FinalsNext /\ UNCHANGED <<about, voiceVars, vars>>
  \/ about = "takes" /\ VoiceNext /\ UNCHANGED <<about, finalsVars, vars>>
  \/ about = "page" /\ Next /\ UNCHANGED <<about, finalsVars, voiceVars>>

MCSpec == MCInit /\ [][MCNext]_allVars /\ FeedFairness
--------------------------------------------------------------------------------
UserAndClient == {0, 1}

MCTexts    == {Hello, Hallo, Yes}
MCLong     == {Hello, Hallo}
MCAlike    == {{Hello, Hallo}}
Say(t, n)  == [text |-> t, length |-> n]
MCSpeeches == {<<>>, <<Say(Hello, 1)>>, <<Say(Hallo, 2)>>, <<Say(Yes, 2), Say(Hello, 2)>>,
               <<Say(Hello, 2), Say(Yes, 1)>>}
MCVoices   == {0, 1, 2, 4}
MCLevels   == {0, 2, 10, 30}
================================================================================
