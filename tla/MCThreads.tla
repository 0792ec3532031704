------------------------------- MODULE MCThreads -------------------------------
(***************************************************************************)
(* The threads of the audio: a behaviour is one of the loop and of the     *)
(* devices that fill its queues, or of a stream and the thread beside it   *)
(* that hears the speaker change.                                          *)
(***************************************************************************)
EXTENDS Capture, SpeakerChange

VARIABLE about          \* what the behaviour is of

allVars == <<about, captureVars, detectorVars>>

MCInit == about \in {"capture", "detector"} /\ CaptureInit /\ DetectorInit

MCNext ==
  \/ about = "capture" /\ CaptureNext /\ UNCHANGED <<about, detectorVars>>
  \/ about = "detector" /\ DetectorNext /\ UNCHANGED <<about, captureVars>>

\* CaptureFairness, whose loop builds its streams in the behaviours that are of it, and
\* DetectorFairness: the detector has nothing to do before a segment is open.
MCSpec ==
  /\ MCInit /\ [][MCNext]_allVars
  /\ WF_allVars(about = "capture" /\ LoopThread /\ UNCHANGED <<about, detectorVars>>)
  /\ \A s \in Streams : WF_captureVars(DeviceStops(s))
  /\ DetectorFairness

MCOrder == <<"user", "client">>
================================================================================
