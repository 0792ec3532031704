------------------------------ MODULE JobOutcomes ------------------------------
(***************************************************************************)
(* What the session's plugin executor promises to the pipeline, without    *)
(* saying how: a slow job handed to it is refused at once or accepted, an  *)
(* accepted job is settled at most once, and the event of a job reaches    *)
(* the event sink at most once and only if the job was accepted.           *)
(***************************************************************************)
EXTENDS Sequences

CONSTANT Jobs           \* one element per call of PluginExecutorHandle::submit

VARIABLES
  fate,                 \* what has become of each job
  sent                  \* the jobs whose events reached the sink, in order

Init ==
  /\ fate = [j \in Jobs |-> "unsubmitted"]
  /\ sent = <<>>

Become(j, from, to) ==
  /\ fate[j] = from
  /\ fate' = [fate EXCEPT ![j] = to]

Accept(j) == Become(j, "unsubmitted", "accepted") /\ UNCHANGED sent
Refuse(j) == Become(j, "unsubmitted", "refused") /\ UNCHANGED sent
Emit(j)   == Become(j, "accepted", "emitted") /\ sent' = Append(sent, j)

\* A shutdown may discard everything that is queued in one step.
Discard(S) ==
  /\ \A j \in S : fate[j] = "accepted"
  /\ fate' = [j \in Jobs |-> IF j \in S THEN "discarded" ELSE fate[j]]
  /\ UNCHANGED sent

Next ==
  \/ \E j \in Jobs : Accept(j) \/ Refuse(j) \/ Emit(j)
  \/ \E S \in SUBSET Jobs : Discard(S)

Spec == Init /\ [][Next]_<<fate, sent>>
================================================================================
