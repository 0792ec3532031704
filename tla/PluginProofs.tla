------------------------------ MODULE PluginProofs -----------------------------
(***************************************************************************)
(* Proofs about the plugins.                                               *)
(*                                                                         *)
(* PluginExecutor, for any number of jobs and workers and any queue bound: *)
(* its invariants, and that it keeps the promise of JobOutcomes.           *)
(*                                                                         *)
(* Configuration with PluginRegistry, for any table of plugins, keys,      *)
(* updates and files written by hand: what a session's plugins are, that a *)
(* save survives, and that no sequence of updates leaves settings that a   *)
(* session refuses.                                                        *)
(***************************************************************************)
EXTENDS PluginExecutor, Configuration, SequenceTheorems, TLAPS

\* A worker holds a job exactly while it runs it or sends its event.
HeldWhileBusy ==
  \A w \in Workers : (held[w] # NoJob) <=> (worker[w] \in {"busy", "emitting"})

\* How far shutdown has come fixes the flags it writes.
StopperInv ==
  /\ stopper = "running" => active
  /\ stopper \in {"closing", "joining"} => active = graceful
  /\ stopper = "returned" => active = (graceful /\ allJoined) /\ toJoin = {}
  /\ stopper \in {"running", "closing"} => toJoin = Present
  /\ stopper \in {"joining", "returned"} => ~accepting

\* As long as no join timed out, the workers joined so far have exited.
JoinedHaveExited ==
  allJoined => \A w \in Present \ toJoin : worker[w] = "exited"

\* A worker that was late once is past its last event: the session has stopped
\* for good and the worker is not about to send.
LateInv ==
  \A w \in Workers :
    /\ late[w] <= 1
    /\ late[w] = 1 => Stopped /\ worker[w] # "emitting"

IInv == TypeOK /\ NoStrandedJob /\ HeldWhileBusy /\ StopperInv /\ JoinedHaveExited /\ LateInv

USE DEF queueVars, stopVars, logVars, ghostVars

LEMMA InitIInv == Init => IInv
<1> SUFFICES ASSUME Init PROVE IInv
  OBVIOUS
<1> USE ExecutorAssumption DEF Init
<1>1. TypeOK
  <2>1. queue \in Seq(Jobs) /\ Len(queue) <= Capacity /\ emitted \in Seq(Jobs)
    BY SMT
  <2>2. worker \in [Workers -> {"absent", "ready", "waiting", "busy", "emitting", "exited"}]
    OBVIOUS
  <2>3. held \in [Workers -> Jobs \cup {NoJob}] /\ late \in [Workers -> Nat]
    OBVIOUS
  <2>4. toJoin \subseteq Workers /\ unfinished \subseteq Jobs
    OBVIOUS
  <2> QED BY <2>1, <2>2, <2>3, <2>4 DEF TypeOK
<1>2. NoStrandedJob /\ HeldWhileBusy
  BY DEF NoStrandedJob, HeldWhileBusy
<1>3. StopperInv /\ JoinedHaveExited
  BY DEF StopperInv, JoinedHaveExited, Present
<1>4. LateInv
  BY DEF LateInv
<1> QED BY <1>1, <1>2, <1>3, <1>4 DEF IInv

LEMMA NextIInv == IInv /\ [Next]_vars => IInv'
<1> SUFFICES ASSUME IInv, [Next]_vars PROVE IInv'
  OBVIOUS
<1> USE ExecutorAssumption DEF IInv, TypeOK
<1>1. ASSUME NEW j \in Jobs, Submit(j) PROVE IInv'
  <2>1. TypeOK'
    <3>1. CASE SubmitAccepted(j)
      <4>1. queue' \in Seq(Jobs) /\ Len(queue') <= Capacity
        BY <3>1 DEF SubmitAccepted, HasRoom
      <4>2. worker' \in [Workers -> {"absent", "ready", "waiting", "busy", "emitting", "exited"}]
        BY <3>1 DEF SubmitAccepted, NotifyOne, Waiting
      <4> QED BY <1>1, <3>1, <4>1, <4>2 DEF Submit, SubmitAccepted
    <3>2. CASE SubmitRefused(j)
      BY <1>1, <3>2 DEF Submit, SubmitRefused
    <3> QED BY <1>1, <3>1, <3>2 DEF Submit
  <2>2. NoStrandedJob'
    BY <1>1 DEF Submit, SubmitAccepted, SubmitRefused, HasRoom, NotifyOne, Waiting, NoStrandedJob
  <2>3. HeldWhileBusy'
    BY <1>1 DEF Submit, SubmitAccepted, SubmitRefused, HasRoom, NotifyOne, Waiting, HeldWhileBusy
  <2>4. StopperInv'
    BY <1>1 DEF Submit, SubmitAccepted, SubmitRefused, HasRoom, NotifyOne, Waiting, StopperInv, Present
  <2>5. JoinedHaveExited'
    BY <1>1 DEF Submit, SubmitAccepted, SubmitRefused, HasRoom, NotifyOne, Waiting, JoinedHaveExited, Present
  <2>6. LateInv'
    BY <1>1 DEF Submit, SubmitAccepted, SubmitRefused, HasRoom, NotifyOne, Waiting, LateInv, Stopped
  <2> QED BY <2>1, <2>2, <2>3, <2>4, <2>5, <2>6
<1>2. ASSUME NEW w \in Workers, Take(w) PROVE IInv'
  <2>1. TypeOK'
    BY <1>2 DEF Take, Pop
  <2>2. NoStrandedJob'
    BY <1>2 DEF Take, Pop, NoStrandedJob
  <2>3. HeldWhileBusy'
    BY <1>2 DEF Take, Pop, HeldWhileBusy
  <2>4. StopperInv'
    BY <1>2 DEF Take, Pop, StopperInv, Present
  <2>5. JoinedHaveExited'
    BY <1>2 DEF Take, Pop, JoinedHaveExited, Present
  <2>6. LateInv'
    BY <1>2 DEF Take, Pop, LateInv, Stopped
  <2> QED BY <2>1, <2>2, <2>3, <2>4, <2>5, <2>6
<1>3. ASSUME NEW w \in Workers, ExitOrWait(w) PROVE IInv'
  <2>1. TypeOK'
    BY <1>3 DEF ExitOrWait, NothingLeft
  <2>2. NoStrandedJob'
    BY <1>3 DEF ExitOrWait, NothingLeft, NoStrandedJob
  <2>3. HeldWhileBusy'
    BY <1>3 DEF ExitOrWait, NothingLeft, HeldWhileBusy
  <2>4. StopperInv'
    BY <1>3 DEF ExitOrWait, NothingLeft, StopperInv, Present
  <2>5. JoinedHaveExited'
    BY <1>3 DEF ExitOrWait, NothingLeft, JoinedHaveExited, Present
  <2>6. LateInv'
    BY <1>3 DEF ExitOrWait, NothingLeft, LateInv, Stopped
  <2> QED BY <2>1, <2>2, <2>3, <2>4, <2>5, <2>6
<1>4. ASSUME NEW w \in Workers, SpuriousWakeup(w) PROVE IInv'
  <2>1. TypeOK'
    BY <1>4 DEF SpuriousWakeup
  <2>2. NoStrandedJob'
    BY <1>4 DEF SpuriousWakeup, NoStrandedJob
  <2>3. HeldWhileBusy'
    BY <1>4 DEF SpuriousWakeup, HeldWhileBusy
  <2>4. StopperInv'
    BY <1>4 DEF SpuriousWakeup, StopperInv, Present
  <2>5. JoinedHaveExited'
    BY <1>4 DEF SpuriousWakeup, JoinedHaveExited, Present
  <2>6. LateInv'
    BY <1>4 DEF SpuriousWakeup, LateInv, Stopped
  <2> QED BY <2>1, <2>2, <2>3, <2>4, <2>5, <2>6
<1>5. ASSUME NEW w \in Workers, RunReturns(w) PROVE IInv'
  <2>1. TypeOK'
    BY <1>5 DEF RunReturns, FinishRun
  <2>2. NoStrandedJob'
    BY <1>5 DEF RunReturns, FinishRun, NoStrandedJob
  <2>3. HeldWhileBusy'
    BY <1>5 DEF RunReturns, FinishRun, HeldWhileBusy
  <2>4. StopperInv'
    BY <1>5 DEF RunReturns, FinishRun, StopperInv, Present
  <2>5. JoinedHaveExited'
    <3>1. \A v \in Workers : /\ worker[v] = "exited" => worker'[v] = "exited"
                             /\ worker'[v] # "absent" => worker[v] # "absent"
      BY <1>5 DEF RunReturns, FinishRun
    <3>2. UNCHANGED <<allJoined, toJoin>>
      BY <1>5 DEF RunReturns, FinishRun
    <3> QED BY <3>1, <3>2 DEF JoinedHaveExited, Present
  <2>6. LateInv'
    <3>1. \A v \in Workers : worker'[v] = "emitting" => worker[v] = "emitting" \/ ~Stopped
      BY <1>5 DEF RunReturns, FinishRun
    <3>2. UNCHANGED <<late, cancel, active>>
      BY <1>5 DEF RunReturns, FinishRun
    <3> QED BY <3>1, <3>2 DEF LateInv, Stopped
  <2> QED BY <2>1, <2>2, <2>3, <2>4, <2>5, <2>6
<1>6. ASSUME NEW w \in Workers, Emit(w) PROVE IInv'
  <2>1. TypeOK'
    BY <1>6 DEF Emit, HeldWhileBusy
  <2>2. NoStrandedJob'
    BY <1>6 DEF Emit, NoStrandedJob
  <2>3. HeldWhileBusy'
    BY <1>6 DEF Emit, HeldWhileBusy
  <2>4. StopperInv'
    BY <1>6 DEF Emit, StopperInv, Present
  <2>5. JoinedHaveExited'
    BY <1>6 DEF Emit, JoinedHaveExited, Present
  <2>6. LateInv'
    BY <1>6 DEF Emit, LateInv, Stopped
  <2> QED BY <2>1, <2>2, <2>3, <2>4, <2>5, <2>6
<1>7. CASE SetCancel
  <2>1. TypeOK'
    BY <1>7 DEF SetCancel
  <2>2. NoStrandedJob'
    BY <1>7 DEF SetCancel, NoStrandedJob
  <2>3. HeldWhileBusy'
    BY <1>7 DEF SetCancel, HeldWhileBusy
  <2>4. StopperInv'
    BY <1>7 DEF SetCancel, StopperInv, Present
  <2>5. JoinedHaveExited'
    BY <1>7 DEF SetCancel, JoinedHaveExited, Present
  <2>6. LateInv'
    BY <1>7 DEF SetCancel, LateInv, Stopped
  <2> QED BY <2>1, <2>2, <2>3, <2>4, <2>5, <2>6
<1>8. CASE BeginShutdown
  <2>1. TypeOK'
    BY <1>8 DEF BeginShutdown
  <2>2. NoStrandedJob'
    BY <1>8 DEF BeginShutdown, NoStrandedJob
  <2>3. HeldWhileBusy'
    BY <1>8 DEF BeginShutdown, HeldWhileBusy
  <2>4. StopperInv'
    BY <1>8 DEF BeginShutdown, StopperInv, Present
  <2>5. JoinedHaveExited'
    BY <1>8 DEF BeginShutdown, JoinedHaveExited, Present
  <2>6. LateInv'
    BY <1>8 DEF BeginShutdown, LateInv, Stopped, StopperInv
  <2> QED BY <2>1, <2>2, <2>3, <2>4, <2>5, <2>6
<1>9. CASE CloseQueue
  <2>1. TypeOK'
    <3>1. worker' \in [Workers -> {"absent", "ready", "waiting", "busy", "emitting", "exited"}]
      BY <1>9 DEF CloseQueue, NotifyAll
    <3>2. queue' \in Seq(Jobs) /\ Len(queue') <= Capacity
      BY <1>9 DEF CloseQueue
    <3> QED BY <1>9, <3>1, <3>2 DEF CloseQueue
  <2>2. NoStrandedJob'
    BY <1>9 DEF CloseQueue, NotifyAll, Waiting, NoStrandedJob
  <2>3. HeldWhileBusy'
    BY <1>9 DEF CloseQueue, NotifyAll, Waiting, HeldWhileBusy
  <2>4. StopperInv'
    BY <1>9 DEF CloseQueue, NotifyAll, Waiting, StopperInv, Present
  <2>5. JoinedHaveExited'
    BY <1>9 DEF CloseQueue, NotifyAll, Waiting, JoinedHaveExited, Present
  <2>6. LateInv'
    BY <1>9 DEF CloseQueue, NotifyAll, Waiting, LateInv, Stopped
  <2> QED BY <2>1, <2>2, <2>3, <2>4, <2>5, <2>6
<1>10. ASSUME NEW w \in Workers, Join(w) PROVE IInv'
  <2>1. TypeOK'
    BY <1>10 DEF Join, JoinWithTimeout
  <2>2. NoStrandedJob'
    BY <1>10 DEF Join, JoinWithTimeout, NoStrandedJob
  <2>3. HeldWhileBusy'
    BY <1>10 DEF Join, JoinWithTimeout, HeldWhileBusy
  <2>4. StopperInv'
    BY <1>10 DEF Join, JoinWithTimeout, StopperInv, Present
  <2>5. JoinedHaveExited'
    BY <1>10 DEF Join, JoinWithTimeout, JoinedHaveExited, Present
  <2>6. LateInv'
    BY <1>10 DEF Join, JoinWithTimeout, LateInv, Stopped
  <2> QED BY <2>1, <2>2, <2>3, <2>4, <2>5, <2>6
<1>11. CASE ReturnFromShutdown
  <2>1. TypeOK'
    <3>1. Queued \subseteq Jobs
      BY DEF Queued
    <3>2. {held[w] : w \in {v \in Workers : worker[v] = "busy"}} \subseteq Jobs
      BY DEF HeldWhileBusy
    <3> QED BY <1>11, <3>1, <3>2 DEF ReturnFromShutdown, ActiveAfterJoins
  <2>2. NoStrandedJob'
    BY <1>11 DEF ReturnFromShutdown, ActiveAfterJoins, NoStrandedJob
  <2>3. HeldWhileBusy'
    BY <1>11 DEF ReturnFromShutdown, ActiveAfterJoins, HeldWhileBusy
  <2>4. StopperInv'
    BY <1>11 DEF ReturnFromShutdown, ActiveAfterJoins, StopperInv, Present
  <2>5. JoinedHaveExited'
    BY <1>11 DEF ReturnFromShutdown, ActiveAfterJoins, JoinedHaveExited, Present
  <2>6. LateInv'
    BY <1>11 DEF ReturnFromShutdown, ActiveAfterJoins, LateInv, Stopped, StopperInv
  <2> QED BY <2>1, <2>2, <2>3, <2>4, <2>5, <2>6
<1>12. CASE UNCHANGED vars
  <2>1. TypeOK'
    BY <1>12 DEF vars
  <2>2. NoStrandedJob'
    BY <1>12 DEF vars, NoStrandedJob
  <2>3. HeldWhileBusy'
    BY <1>12 DEF vars, HeldWhileBusy
  <2>4. StopperInv'
    BY <1>12 DEF vars, StopperInv, Present
  <2>5. JoinedHaveExited'
    BY <1>12 DEF vars, JoinedHaveExited, Present
  <2>6. LateInv'
    BY <1>12 DEF vars, LateInv, Stopped
  <2> QED BY <2>1, <2>2, <2>3, <2>4, <2>5, <2>6
<1> QED BY <1>1, <1>2, <1>3, <1>4, <1>5, <1>6, <1>7, <1>8, <1>9, <1>10, <1>11, <1>12 DEF Next, Shutdown

LEMMA SpecIInv == Spec => []IInv
  BY InitIInv, NextIInv, PTL DEF Spec

\* Every variable of the executor keeps its type, and the queue its bound.
THEOREM TypeCorrect == Spec => []TypeOK
<1>1. IInv => TypeOK
  BY DEF IInv
<1> QED BY <1>1, SpecIInv, PTL

\* A worker thread only ends on a closed, empty queue.
THEOREM WorkersStrandNoJob == Spec => []NoStrandedJob
<1>1. IInv => NoStrandedJob
  BY DEF IInv
<1> QED BY <1>1, SpecIInv, PTL

\* A graceful shutdown that joined every worker has drained the executor.
THEOREM GracefulShutdownDrains == Spec => []GracefulDrains
<1>1. IInv => GracefulDrains
  <2> SUFFICES ASSUME IInv, stopper = "returned", graceful, allJoined, Present # {}
               PROVE queue = <<>> /\ Running = {}
    BY DEF GracefulDrains
  <2> USE DEF IInv
  <2>1. \A w \in Present : worker[w] = "exited"
    BY DEF StopperInv, JoinedHaveExited
  <2>2. queue = <<>>
    BY <2>1 DEF NoStrandedJob, Present
  <2>3. Running = {}
    BY <2>1 DEF HeldWhileBusy, Running, Present
  <2> QED BY <2>2, <2>3
<1> QED BY <1>1, SpecIInv, PTL

\* At most one event of each worker reaches the sink of a stopped session.
THEOREM LateEventsAreBounded == Spec => []OneLateEventEach
<1>1. IInv => OneLateEventEach
  BY DEF IInv, LateInv, OneLateEventEach
<1> QED BY <1>1, SpecIInv, PTL

\* Nothing comes after a shutdown that joined every worker.
THEOREM JoinedAreSilent == Spec => []SilentOnceJoined
<1>1. IInv => SilentOnceJoined
  BY DEF IInv, StopperInv, JoinedHaveExited, SilentOnceJoined
<1> QED BY <1>1, SpecIInv, PTL

\* No job is lost between the queue and the workers.
THEOREM JobsAreNotStranded == Spec => []NoJobIsStranded
  BY TypeCorrect, WorkersStrandNoJob, GracefulShutdownDrains, PTL DEF NoJobIsStranded

--------------------------------------------------------------------------------
\* The jobs that are queued or held, each in one place only.
Placed == {j \in Jobs : j \in Queued \/ \E w \in Workers : held[w] = j}

PlaceInv ==
  /\ accepted \cap refused = {}
  /\ SentEvents \subseteq accepted
  /\ Placed \subseteq accepted \ SentEvents
  /\ \A i, k \in 1..Len(queue) : queue[i] = queue[k] => i = k
  /\ \A w \in Workers : held[w] \notin Queued
  /\ \A v, w \in Workers : held[v] = held[w] /\ held[v] # NoJob => v = w

\* What FateOf makes of the sets of jobs sent, refused, accepted and placed.
FateIn(j, E, R, A, P) ==
  IF j \in E THEN "emitted" ELSE IF j \in R THEN "refused" ELSE
  IF j \notin A THEN "unsubmitted" ELSE IF j \in P THEN "accepted" ELSE "discarded"

\* The steps of the executor, as JobOutcomes sees them.
Effect ==
  \/ /\ UNCHANGED <<emitted, refused, accepted>> /\ Placed' = Placed
  \/ /\ UNCHANGED emitted
     /\ \E j \in Jobs \ (accepted \cup refused) :
          \/ accepted' = accepted \cup {j} /\ refused' = refused /\ Placed' = Placed \cup {j}
          \/ refused' = refused \cup {j} /\ accepted' = accepted /\ Placed' = Placed
  \/ /\ UNCHANGED <<emitted, refused, accepted>>
     /\ \E S \in SUBSET Placed : Placed' = Placed \ S
  \/ /\ UNCHANGED <<refused, accepted>>
     /\ \E j \in Placed : emitted' = Append(emitted, j) /\ Placed' = Placed \ {j}

LEMMA PlaceInit == Init => PlaceInv
BY ExecutorAssumption DEF Init, PlaceInv, Placed, Queued, SentEvents

LEMMA QueuedAppend ==
  ASSUME TypeOK, NEW j \in Jobs, queue' = Append(queue, j)
  PROVE  /\ Queued' = Queued \cup {j} /\ Len(queue') = Len(queue) + 1
         /\ \A i \in 1..Len(queue) : queue'[i] = queue[i]
         /\ queue'[Len(queue) + 1] = j /\ Len(queue) \in Nat
<1>1. /\ Len(queue) \in Nat /\ Len(queue') = Len(queue) + 1
      /\ \A i \in 1..Len(queue) : queue'[i] = queue[i]
      /\ queue'[Len(queue) + 1] = j
  BY AppendProperties DEF TypeOK
<1>2. Queued' \subseteq Queued \cup {j}
  BY <1>1 DEF Queued
<1>3. Queued \cup {j} \subseteq Queued'
  <2>1. ASSUME NEW i \in 1..Len(queue) PROVE queue[i] \in Queued'
    BY <1>1 DEF Queued
  <2>2. j \in Queued'
    BY <1>1 DEF Queued
  <2> QED BY <2>1, <2>2 DEF Queued
<1> QED BY <1>1, <1>2, <1>3

LEMMA SentAppend ==
  ASSUME TypeOK, NEW j \in Jobs, emitted' = Append(emitted, j)
  PROVE  SentEvents' = SentEvents \cup {j}
<1>1. /\ Len(emitted) \in Nat /\ Len(emitted') = Len(emitted) + 1
      /\ \A i \in 1..Len(emitted) : emitted'[i] = emitted[i]
      /\ emitted'[Len(emitted) + 1] = j
  BY AppendProperties DEF TypeOK
<1>2. SentEvents' \subseteq SentEvents \cup {j}
  BY <1>1 DEF SentEvents
<1>3. SentEvents \cup {j} \subseteq SentEvents'
  <2>1. ASSUME NEW i \in 1..Len(emitted) PROVE emitted[i] \in SentEvents'
    BY <1>1 DEF SentEvents
  <2>2. j \in SentEvents'
    BY <1>1 DEF SentEvents
  <2> QED BY <2>1, <2>2 DEF SentEvents
<1> QED BY <1>2, <1>3

LEMMA PlaceStep ==
  ASSUME IInv, PlaceInv, [Next]_vars
  PROVE  PlaceInv' /\ Effect
<1> USE ExecutorAssumption
<1>0. TypeOK /\ HeldWhileBusy
  BY DEF IInv
<1>1. ASSUME NEW j \in Jobs, Submit(j) PROVE PlaceInv' /\ Effect
  <2>1. /\ UNCHANGED <<held, emitted>> /\ SentEvents' = SentEvents
        /\ j \notin accepted /\ j \notin refused /\ j # NoJob
    BY <1>1 DEF Submit, SentEvents
  <2>2. CASE SubmitAccepted(j)
    <3>1. queue' = Append(queue, j) /\ accepted' = accepted \cup {j} /\ refused' = refused
      BY <2>2 DEF SubmitAccepted
    <3>2. Placed' = Placed \cup {j}
      BY <1>0, <2>1, <3>1, QueuedAppend DEF Placed
    <3>3. j \notin Placed
      BY <2>1 DEF PlaceInv
    <3>4. \A i \in 1..Len(queue) : queue[i] # j
      BY <3>3 DEF Placed, Queued
    <3>5. \A i, k \in 1..Len(queue') : queue'[i] = queue'[k] => i = k
      BY <1>0, <3>1, <3>4, QueuedAppend DEF PlaceInv
    <3>6. \A w \in Workers : held'[w] \notin Queued'
      BY <1>0, <2>1, <3>1, <3>3, QueuedAppend DEF PlaceInv, Placed
    <3>7. PlaceInv'
      BY <2>1, <3>1, <3>2, <3>5, <3>6 DEF PlaceInv
    <3> QED BY <2>1, <3>1, <3>2, <3>7 DEF Effect
  <2>3. CASE SubmitRefused(j)
    <3>1. UNCHANGED <<queue, accepted>> /\ refused' = refused \cup {j}
      BY <2>3 DEF SubmitRefused
    <3>2. Queued' = Queued /\ Placed' = Placed
      BY <2>1, <3>1 DEF Queued, Placed
    <3>3. PlaceInv'
      BY <2>1, <3>1, <3>2 DEF PlaceInv
    <3> QED BY <2>1, <3>1, <3>2, <3>3 DEF Effect
  <2> QED BY <1>1, <2>2, <2>3 DEF Submit
<1>2. ASSUME NEW w \in Workers, Take(w) PROVE PlaceInv' /\ Effect
  <2>1. /\ queue # <<>> /\ held' = [held EXCEPT ![w] = Head(queue)] /\ queue' = Tail(queue)
        /\ UNCHANGED <<accepted, refused, emitted>> /\ SentEvents' = SentEvents
        /\ worker[w] = "ready"
    BY <1>2 DEF Take, Pop, SentEvents
  <2>2. /\ Len(queue) \in Nat \ {0} /\ Len(queue') = Len(queue) - 1 /\ Head(queue) = queue[1]
        /\ \A i \in 1..Len(queue') : queue'[i] = queue[i + 1]
        /\ Head(queue) \in Jobs
    BY <1>0, <2>1, HeadTailProperties, EmptySeq DEF TypeOK
  <2>3. /\ held[w] = NoJob /\ held'[w] = Head(queue)
        /\ \A v \in Workers : v # w => held'[v] = held[v]
    BY <1>0, <2>1 DEF HeldWhileBusy, TypeOK
  <2>4. Queued' = Queued \ {Head(queue)} /\ Head(queue) \in Queued
    <3>1. Queued' \subseteq Queued \ {Head(queue)}
      BY <2>2 DEF Queued, PlaceInv
    <3>2. ASSUME NEW i \in 1..Len(queue), queue[i] # Head(queue) PROVE queue[i] \in Queued'
      <4>1. i - 1 \in 1..Len(queue') /\ queue'[i - 1] = queue[i]
        BY <2>2, <3>2
      <4> QED BY <4>1 DEF Queued
    <3>3. Head(queue) \in Queued
      BY <2>2 DEF Queued
    <3> QED BY <3>1, <3>2, <3>3 DEF Queued
  <2>5. Placed' = Placed
    BY <2>2, <2>3, <2>4 DEF Placed
  <2>6. \A i, k \in 1..Len(queue') : queue'[i] = queue'[k] => i = k
    <3> SUFFICES ASSUME NEW i \in 1..Len(queue'), NEW k \in 1..Len(queue'), queue'[i] = queue'[k]
                 PROVE  i = k
      OBVIOUS
    <3>1. i + 1 \in 1..Len(queue) /\ k + 1 \in 1..Len(queue) /\ queue[i + 1] = queue[k + 1]
      BY <2>2
    <3>2. i + 1 = k + 1
      BY <3>1 DEF PlaceInv
    <3> QED BY <2>2, <3>2
  <2>7. /\ \A v \in Workers : held'[v] \notin Queued'
        /\ \A u, v \in Workers : held'[u] = held'[v] /\ held'[u] # NoJob => u = v
    BY <2>2, <2>3, <2>4 DEF PlaceInv
  <2>8. PlaceInv'
    BY <2>1, <2>5, <2>6, <2>7 DEF PlaceInv
  <2> QED BY <2>1, <2>5, <2>8 DEF Effect
<1>3. ASSUME NEW w \in Workers, held[w] \in Jobs, UNCHANGED <<queue, accepted, refused>>,
             held' = [held EXCEPT ![w] = NoJob],
             SentEvents' = SentEvents \/ SentEvents' = SentEvents \cup {held[w]}
      PROVE  PlaceInv' /\ Placed' = Placed \ {held[w]} /\ held[w] \in Placed
  <2>1. held'[w] = NoJob /\ \A v \in Workers : v # w => held'[v] = held[v]
    BY <1>0, <1>3 DEF TypeOK
  <2>2. Queued' = Queued /\ held[w] \in Placed
    BY <1>3 DEF Queued, Placed
  <2>3. Placed' = Placed \ {held[w]}
    BY <1>3, <2>1, <2>2 DEF Placed, PlaceInv
  <2>4. NoJob \notin Queued
    BY <1>0 DEF Queued, TypeOK
  <2>5. /\ \A v \in Workers : held'[v] \notin Queued'
        /\ \A u, v \in Workers : held'[u] = held'[v] /\ held'[u] # NoJob => u = v
    BY <2>1, <2>2, <2>4 DEF PlaceInv
  <2>6. PlaceInv'
    BY <1>3, <2>2, <2>3, <2>5 DEF PlaceInv
  <2> QED BY <2>2, <2>3, <2>6
<1>4. CASE UNCHANGED <<queue, held, accepted, refused, emitted>>
  <2>1. Queued' = Queued /\ SentEvents' = SentEvents /\ Placed' = Placed
    BY <1>4 DEF Queued, SentEvents, Placed
  <2> QED BY <1>4, <2>1 DEF PlaceInv, Effect
<1>5. ASSUME NEW w \in Workers, RunReturns(w) PROVE PlaceInv' /\ Effect
  <2>1. PICK result \in Results, overdue \in BOOLEAN : FinishRun(w, result, overdue)
    BY <1>5 DEF RunReturns
  <2>2. held[w] \in Jobs /\ UNCHANGED <<queue, accepted, refused, emitted>>
    BY <1>0, <2>1 DEF FinishRun, HeldWhileBusy, TypeOK
  <2>3. held' = held \/ held' = [held EXCEPT ![w] = NoJob]
    BY <2>1 DEF FinishRun
  <2>4. CASE held' = [held EXCEPT ![w] = NoJob]
    <3>1. SentEvents' = SentEvents
      BY <2>2 DEF SentEvents
    <3> QED BY <1>3, <2>2, <2>4, <3>1 DEF Effect
  <2> QED BY <1>4, <2>2, <2>3, <2>4
<1>6. ASSUME NEW w \in Workers, Emit(w) PROVE PlaceInv' /\ Effect
  <2>1. /\ held[w] \in Jobs /\ UNCHANGED <<queue, accepted, refused>>
        /\ emitted' = Append(emitted, held[w]) /\ held' = [held EXCEPT ![w] = NoJob]
    BY <1>0, <1>6 DEF Emit, HeldWhileBusy, TypeOK
  <2>2. SentEvents' = SentEvents \cup {held[w]}
    BY <1>0, <2>1, SentAppend
  <2> QED BY <1>3, <2>1, <2>2 DEF Effect
<1>7. CASE CloseQueue
  <2>1. UNCHANGED <<held, accepted, refused, emitted>> /\ (queue' = queue \/ queue' = <<>>)
    BY <1>7 DEF CloseQueue
  <2>2. CASE queue' = <<>>
    <3>1. Queued' = {} /\ SentEvents' = SentEvents /\ Len(queue') = 0
      BY <2>1, <2>2 DEF Queued, SentEvents
    <3>2. Placed' = Placed \ (Placed \cap Queued)
      BY <2>1, <3>1 DEF Placed, PlaceInv
    <3>3. PlaceInv'
      BY <2>1, <3>1, <3>2 DEF PlaceInv
    <3> QED BY <2>1, <3>2, <3>3 DEF Effect
  <2> QED BY <1>4, <2>1, <2>2
<1>8. ASSUME NEW w \in Workers, ExitOrWait(w) \/ SpuriousWakeup(w) \/ Join(w)
      PROVE  PlaceInv' /\ Effect
  BY <1>4, <1>8 DEF ExitOrWait, SpuriousWakeup, Join
<1>9. CASE SetCancel \/ BeginShutdown \/ ReturnFromShutdown
  BY <1>4, <1>9 DEF SetCancel, BeginShutdown, ReturnFromShutdown
<1>10. CASE UNCHANGED vars
  BY <1>4, <1>10 DEF vars
<1> QED
  BY <1>1, <1>2, <1>5, <1>6, <1>7, <1>8, <1>9, <1>10 DEF Next, Shutdown

LEMMA SpecPlaceInv == Spec => []PlaceInv
BY PlaceInit, PlaceStep, SpecIInv, PTL DEF Spec

--------------------------------------------------------------------------------
\* What shutdown left undone when it returned is not sent, now or later: no worker
\* that has an event to send holds such a job.
UnfinishedInv ==
  /\ stopper # "returned" => unfinished = {}
  /\ SentEvents \cap unfinished = {}
  /\ \A w \in Workers : worker[w] = "emitting" => held[w] \notin unfinished

\* Once shutdown has returned, no worker finds that its result may be sent.
LEMMA NoneJudgedAfterwards ==
  ASSUME IInv, stopper = "returned", NEW w \in Workers, RunReturns(w)
  PROVE  worker'[w] # "emitting"
<1>1. PICK result \in Results, overdue \in BOOLEAN : FinishRun(w, result, overdue)
  BY DEF RunReturns
<1>2. worker[w] = "busy"
  BY <1>1 DEF FinishRun
<1>3. ~active
  BY <1>2 DEF IInv, StopperInv, JoinedHaveExited, Present
<1> QED BY <1>1, <1>3 DEF FinishRun, Stopped, IInv, TypeOK

LEMMA UnfinishedStep ==
  ASSUME IInv, PlaceInv, UnfinishedInv, [Next]_vars
  PROVE  UnfinishedInv'
<1> USE ExecutorAssumption
<1>0. TypeOK /\ HeldWhileBusy
  BY DEF IInv
<1>1. CASE ReturnFromShutdown
  <2> DEFINE busy == {held[w] : w \in {v \in Workers : worker[v] = "busy"}}
  <2>1. /\ unfinished' = Queued \cup busy /\ stopper' = "returned"
        /\ UNCHANGED <<worker, held, emitted>>
    BY <1>1 DEF ReturnFromShutdown
  <2>2. busy \subseteq Placed
    BY <1>0 DEF HeldWhileBusy, Placed, TypeOK
  <2>3. Queued \subseteq Placed
    BY <1>0 DEF Queued, Placed, TypeOK
  <2>4. SentEvents' \cap unfinished' = {}
    BY <2>1, <2>2, <2>3 DEF SentEvents, PlaceInv
  <2>5. ASSUME NEW w \in Workers, worker[w] = "emitting" PROVE held[w] \notin Queued \cup busy
    <3>1. held[w] # NoJob /\ held[w] \notin Queued
      BY <1>0, <2>5 DEF HeldWhileBusy, PlaceInv
    <3>2. \A v \in Workers : worker[v] = "busy" => held[v] # held[w]
      BY <2>5, <3>1 DEF PlaceInv
    <3> QED BY <3>1, <3>2
  <2> QED BY <2>1, <2>4, <2>5 DEF UnfinishedInv
<1>2. ASSUME NEW w \in Workers, Emit(w) PROVE UnfinishedInv'
  <2>1. /\ worker[w] = "emitting" /\ UNCHANGED <<stopper, unfinished>> /\ held[w] \in Jobs
        /\ emitted' = Append(emitted, held[w])
        /\ \A v \in Workers : worker'[v] = "emitting" => worker[v] = "emitting" /\ held'[v] = held[v]
    BY <1>0, <1>2 DEF Emit, HeldWhileBusy, TypeOK
  <2>2. SentEvents' = SentEvents \cup {held[w]}
    BY <1>0, <2>1, SentAppend
  <2> QED BY <2>1, <2>2 DEF UnfinishedInv
<1>3. ASSUME UNCHANGED <<emitted, unfinished>>, (stopper = "returned") => (stopper' = "returned"),
             \A w \in Workers : worker'[w] = "emitting" =>
                stopper # "returned" \/ (worker[w] = "emitting" /\ held'[w] = held[w])
      PROVE  UnfinishedInv'
  <2>1. SentEvents' = SentEvents
    BY <1>3 DEF SentEvents
  <2>2. stopper' # "returned" => unfinished' = {}
    BY <1>3 DEF UnfinishedInv
  <2>3. SentEvents' \cap unfinished' = {}
    BY <1>3, <2>1 DEF UnfinishedInv
  <2>4. ASSUME NEW w \in Workers, worker'[w] = "emitting" PROVE held'[w] \notin unfinished'
    BY <1>3, <2>4 DEF UnfinishedInv
  <2> QED BY <2>2, <2>3, <2>4 DEF UnfinishedInv
<1>4. ASSUME NEW w \in Workers, RunReturns(w) PROVE UnfinishedInv'
  <2>1. PICK result \in Results, overdue \in BOOLEAN : FinishRun(w, result, overdue)
    BY <1>4 DEF RunReturns
  <2>2. /\ UNCHANGED <<emitted, unfinished, stopper>>
        /\ \A v \in Workers \ {w} : worker'[v] = worker[v] /\ held'[v] = held[v]
    BY <1>0, <2>1 DEF FinishRun, TypeOK
  <2>3. stopper = "returned" => worker'[w] # "emitting"
    BY <1>4, NoneJudgedAfterwards
  <2> QED BY <1>3, <2>2, <2>3
<1>5. CASE \E j \in Jobs : Submit(j)
  <2>1. /\ stopper = "running" /\ UNCHANGED <<emitted, unfinished, stopper>>
    BY <1>5 DEF Submit
  <2> QED BY <1>3, <2>1
<1>6. ASSUME NEW w \in Workers, Take(w) \/ ExitOrWait(w) \/ SpuriousWakeup(w) \/ Join(w)
      PROVE  UnfinishedInv'
  <2>1. /\ UNCHANGED <<emitted, unfinished, stopper>>
        /\ \A v \in Workers : worker'[v] = "emitting" => worker[v] = "emitting" /\ held'[v] = held[v]
    BY <1>0, <1>6 DEF Take, Pop, ExitOrWait, SpuriousWakeup, Join, TypeOK
  <2> QED BY <1>3, <2>1
<1>7. CASE SetCancel \/ BeginShutdown \/ CloseQueue \/ UNCHANGED vars
  <2>1. /\ UNCHANGED <<emitted, unfinished, held>> /\ (stopper = "returned" => stopper' = "returned")
        /\ \A v \in Workers : worker'[v] = "emitting" => worker[v] = "emitting"
    BY <1>0, <1>7 DEF SetCancel, BeginShutdown, CloseQueue, NotifyAll, TypeOK, vars
  <2> QED BY <1>3, <2>1
<1> QED BY <1>1, <1>2, <1>4, <1>5, <1>6, <1>7 DEF Next, Shutdown

\* What plugins return after the end of a session hardly reaches it
\* (plugin_executor.rs:160-190, 240-263): for any number of jobs and workers.
THEOREM LateResultsStayOut == Spec => []LateResultsAreDropped
<1>1. Init => UnfinishedInv
  BY DEF Init, UnfinishedInv
<1>2. IInv /\ PlaceInv /\ UnfinishedInv /\ [Next]_vars => UnfinishedInv'
  BY UnfinishedStep
<1>3. UnfinishedInv => OverrunsAreDropped
  BY DEF UnfinishedInv, OverrunsAreDropped
<1> QED
  BY <1>1, <1>2, <1>3, SpecIInv, SpecPlaceInv, LateEventsAreBounded, JoinedAreSilent, PTL
  DEF Spec, LateResultsAreDropped

LEMMA Fates ==
  ASSUME PlaceInv
  PROVE  \A j \in Jobs : FateOf(j) = FateIn(j, SentEvents, refused, accepted, Placed)
BY DEF FateOf, FateIn, Placed, PlaceInv

\* The executor keeps its promise (plugin_executor.rs:93-260): a job is refused
\* at once or accepted, settled at most once, and its event sent at most once.
THEOREM PromiseIsKept == Spec => PromiseKept
<1>1. Init => Promise!Init
  <2> SUFFICES ASSUME Init PROVE Promise!Init
    OBVIOUS
  <2>1. /\ emitted = <<>> /\ accepted = {} /\ refused = {}
        /\ SentEvents = {} /\ PlaceInv
    BY PlaceInit DEF Init, SentEvents
  <2>2. \A j \in Jobs : FateOf(j) = "unsubmitted"
    BY <2>1, Fates DEF FateIn
  <2> QED BY <2>1, <2>2 DEF Promise!Init
<1>2. IInv /\ PlaceInv /\ [Next]_vars => [Promise!Next]_<<[j \in Jobs |-> FateOf(j)], emitted>>
  <2> SUFFICES ASSUME IInv, PlaceInv, [Next]_vars
               PROVE  [Promise!Next]_<<[j \in Jobs |-> FateOf(j)], emitted>>
    OBVIOUS
  <2> DEFINE E == SentEvents
             fate == [j \in Jobs |-> FateOf(j)]
  <2>1. PlaceInv' /\ Effect /\ TypeOK
    BY PlaceStep DEF IInv
  <2>2. \A j \in Jobs : FateOf(j)' = FateIn(j, E', refused', accepted', Placed')
    BY <2>1 DEF FateOf, FateIn, Placed, PlaceInv
  <2>3. /\ \A j \in Jobs : fate[j] = FateIn(j, E, refused, accepted, Placed)
        /\ \A j \in Jobs : fate'[j] = FateIn(j, E', refused', accepted', Placed')
        /\ fate = [j \in Jobs |-> fate[j]] /\ fate' = [j \in Jobs |-> fate'[j]]
    BY <2>2, Fates
  <2>4. emitted' = emitted => E' = E
    BY DEF SentEvents
  <2>5. (fate' = fate /\ emitted' = emitted) \/ Promise!Next
          => [Promise!Next]_<<[j \in Jobs |-> FateOf(j)], emitted>>
    OBVIOUS
  <2> SUFFICES (fate' = fate /\ emitted' = emitted) \/ Promise!Next
    BY <2>5
  <2>6. \A j \in Jobs : \A a, b : Promise!Become(j, a, b) <=>
          fate[j] = a /\ fate' = [fate EXCEPT ![j] = b]
    BY DEF Promise!Become
  <2>7. \A S : Promise!Discard(S) <=>
          /\ \A j \in S : fate[j] = "accepted"
          /\ fate' = [j \in Jobs |-> IF j \in S THEN "discarded" ELSE fate[j]]
          /\ emitted' = emitted
    BY DEF Promise!Discard
  <2> HIDE DEF fate, E
  <2>8. CASE UNCHANGED <<emitted, refused, accepted>> /\ Placed' = Placed
    <3>1. \A j \in Jobs : fate'[j] = fate[j]
      BY <2>3, <2>4, <2>8
    <3> QED BY <2>3, <2>8, <3>1
  <2>9. ASSUME NEW j \in Jobs \ (accepted \cup refused), UNCHANGED emitted,
               accepted' = accepted \cup {j}, refused' = refused, Placed' = Placed \cup {j}
        PROVE  Promise!Next
    <3>1. fate[j] = "unsubmitted" /\ fate'[j] = "accepted"
      BY <2>3, <2>4, <2>9 DEF FateIn, PlaceInv, E
    <3>2. \A k \in Jobs : k # j => fate'[k] = fate[k]
      BY <2>3, <2>4, <2>9 DEF FateIn
    <3>3. fate' = [fate EXCEPT ![j] = "accepted"]
      BY <2>3, <3>1, <3>2
    <3>4. Promise!Become(j, "unsubmitted", "accepted")
      BY <2>6, <3>1, <3>3
    <3> QED BY <2>9, <3>4 DEF Promise!Next, Promise!Accept
  <2>10. ASSUME NEW j \in Jobs \ (accepted \cup refused), UNCHANGED emitted,
                refused' = refused \cup {j}, accepted' = accepted, Placed' = Placed
         PROVE  Promise!Next
    <3>1. fate[j] = "unsubmitted" /\ fate'[j] = "refused"
      BY <2>3, <2>4, <2>10 DEF FateIn, PlaceInv, E
    <3>2. \A k \in Jobs : k # j => fate'[k] = fate[k]
      BY <2>3, <2>4, <2>10 DEF FateIn
    <3>3. fate' = [fate EXCEPT ![j] = "refused"]
      BY <2>3, <3>1, <3>2
    <3>4. Promise!Become(j, "unsubmitted", "refused")
      BY <2>6, <3>1, <3>3
    <3> QED BY <2>10, <3>4 DEF Promise!Next, Promise!Refuse
  <2>11. ASSUME NEW S \in SUBSET Placed, UNCHANGED <<emitted, refused, accepted>>,
                Placed' = Placed \ S
         PROVE  Promise!Next
    <3>0. S \subseteq Jobs
      BY DEF Placed
    <3>1. \A k \in S : fate[k] = "accepted" /\ fate'[k] = "discarded"
      BY <2>3, <2>4, <2>11, <3>0 DEF FateIn, PlaceInv, E
    <3>2. \A k \in Jobs : k \notin S => fate'[k] = fate[k]
      BY <2>3, <2>4, <2>11 DEF FateIn
    <3>3. fate' = [k \in Jobs |-> IF k \in S THEN "discarded" ELSE fate[k]]
      BY <2>3, <3>0, <3>1, <3>2
    <3> QED BY <2>7, <2>11, <3>0, <3>1, <3>3 DEF Promise!Next
  <2>12. ASSUME NEW j \in Placed, UNCHANGED <<refused, accepted>>,
                emitted' = Append(emitted, j), Placed' = Placed \ {j}
         PROVE  Promise!Next
    <3>0. j \in Jobs
      BY DEF Placed
    <3>1. E' = E \cup {j}
      BY <2>1, <2>12, <3>0, SentAppend DEF E
    <3>2. fate[j] = "accepted" /\ fate'[j] = "emitted"
      BY <2>3, <2>12, <3>0, <3>1 DEF FateIn, PlaceInv, E
    <3>3. \A k \in Jobs : k # j => fate'[k] = fate[k]
      BY <2>3, <2>12, <3>1 DEF FateIn
    <3>4. fate' = [fate EXCEPT ![j] = "emitted"]
      BY <2>3, <3>0, <3>2, <3>3
    <3>5. Promise!Become(j, "accepted", "emitted")
      BY <2>6, <3>0, <3>2, <3>4
    <3> QED BY <2>12, <3>0, <3>5 DEF Promise!Next, Promise!Emit
  <2> QED BY <2>1, <2>8, <2>9, <2>10, <2>11, <2>12 DEF Effect
<1> QED BY <1>1, <1>2, SpecIInv, SpecPlaceInv, PTL DEF Spec, PromiseKept, Promise!Spec
--------------------------------------------------------------------------------
Values == {"true", "false", "number", "absent"}

LEMMA IdsAre ==
  PluginIds = {"short_segment", "cross_stream_dedup", "conversation_metrics", "term_explainer",
         "translator", "brief_retriever", "key_point_extractor", "session_quality", "webhook"}
<1>1. Len(Builtin) = 9
  BY DEF Builtin
<1>2. 1..9 = {1, 2, 3, 4, 5, 6, 7, 8, 9}
  OBVIOUS
<1>3. /\ Builtin[1] = "short_segment" /\ Builtin[2] = "cross_stream_dedup"
      /\ Builtin[3] = "conversation_metrics" /\ Builtin[4] = "term_explainer"
      /\ Builtin[5] = "translator" /\ Builtin[6] = "brief_retriever"
      /\ Builtin[7] = "key_point_extractor" /\ Builtin[8] = "session_quality"
      /\ Builtin[9] = "webhook"
  BY DEF Builtin
<1> HIDE DEF Builtin
<1> QED BY <1>1, <1>2, <1>3 DEF PluginIds

\* The defaults of a plugin are an object that has the switch.
LEMMA DefaultIs ==
  ASSUME NEW id
  PROVE  /\ Default(id) \in Objects
         /\ Default(id)["enabled"] \in {"true", "false"}
         /\ Default("short_segment")["min_ms"] = "number"
<1>1. "enabled" \in Keys /\ "min_ms" \in Keys
  BY RegistryAssumption
<1>2. \A k \in Keys : Default(id)[k] \in Values
  BY DEF Default, Values
<1>3. Default(id) \in Objects
  BY <1>2 DEF Default, Objects, Values
<1> QED BY <1>1, <1>3 DEF Default

LEMMA OverIs ==
  ASSUME NEW f \in Objects, NEW g \in Objects
  PROVE  /\ Over(f, g) \in Objects
         /\ \A k \in Keys : Over(f, g)[k] = IF f[k] # "absent" THEN f[k] ELSE g[k]
<1>1. \A k \in Keys : f[k] \in Values /\ g[k] \in Values
  BY DEF Objects, Values
<1>2. \A k \in Keys : Over(f, g)[k] = IF f[k] # "absent" THEN f[k] ELSE g[k]
  BY DEF Over
<1>3. Over(f, g) \in Objects
  BY <1>1 DEF Over, Objects, Values
<1> QED BY <1>2, <1>3

LEMMA OnlyIs ==
  ASSUME NEW key \in Keys, NEW value \in Values
  PROVE  /\ Only(key, value) \in Objects /\ IsObject(Only(key, value))
         /\ \A k \in Keys : Only(key, value)[k] = IF k = key THEN value ELSE "absent"
BY RegistryAssumption DEF Only, Objects, IsObject, Values

\* What is valid stays so when it is put over what is valid, and conversely.
LEMMA ValidOver ==
  ASSUME NEW id, NEW f \in Objects, NEW g \in Objects, Valid(id, g)
  PROVE  Valid(id, Over(f, g)) <=> Valid(id, f)
<1>1. \A k \in Keys : Over(f, g)[k] = IF f[k] # "absent" THEN f[k] ELSE g[k]
  BY OverIs
<1> DEFINE Fits(k, v) == v # "absent" => TypeOf(v) = TypeOf(Default(id)[k])
<1>2. \A o : Valid(id, o) <=> \A k \in Keys : Fits(k, o[k])
  BY DEF Valid
<1>3. \A k \in Keys : Fits(k, "absent")
  OBVIOUS
<1> HIDE DEF Fits
<1> QED BY <1>1, <1>2, <1>3

LEMMA DefaultIsValid == ASSUME NEW id PROVE Valid(id, Default(id))
BY DEF Valid

\* What a patch leaves of an entry.
Patched(patch, old) == IF IsObject(old) THEN Over(patch, old) ELSE patch

LEMMA PatchedIs ==
  ASSUME NEW patch \in Objects, NEW old \in Objects \cup {NotAnObject}
  PROVE  /\ Patched(patch, old) \in Objects /\ IsObject(Patched(patch, old))
         /\ \A k \in Keys : patch[k] # "absent" => Patched(patch, old)[k] = patch[k]
         /\ \A k \in Keys : patch[k] = "absent" /\ IsObject(old) => Patched(patch, old)[k] = old[k]
<1>1. CASE old = NotAnObject
  BY <1>1, RegistryAssumption DEF Patched, IsObject
<1>2. CASE old \in Objects
  <2>1. IsObject(old)
    BY <1>2, RegistryAssumption DEF IsObject
  <2>2. Patched(patch, old) = Over(patch, old)
    BY <2>1 DEF Patched
  <2>3. \A o \in Objects : IsObject(o)
    BY RegistryAssumption DEF IsObject
  <2> QED BY <1>2, <2>1, <2>2, <2>3, OverIs
<1> QED BY <1>1, <1>2

LEMMA MergeEntryIs ==
  ASSUME NEW table \in Tables, NEW id \in Names, NEW patch \in Objects
  PROVE  /\ MergeEntry(table, id, patch) \in Tables
         /\ MergeEntry(table, id, patch)[id] = Patched(patch, table[id])
         /\ \A j \in Names : j # id => MergeEntry(table, id, patch)[j] = table[j]
<1>1. IsObject(patch) /\ table[id] \in Objects \cup {NotAnObject}
  BY RegistryAssumption DEF IsObject, Tables
<1>2. MergeEntry(table, id, patch) = [table EXCEPT ![id] = Patched(patch, table[id])]
  BY <1>1 DEF MergeEntry, Patched
<1>3. Patched(patch, table[id]) \in Objects
  BY <1>1, PatchedIs
<1> QED BY <1>2, <1>3 DEF Tables

\* What the service does to a user's entry: an analysis plugin that the scene does not
\* allow is switched off, another one is left alone.
LEMMA OverridesAre ==
  ASSUME NEW table \in Tables, NEW allowed, NEW switch \in {"true", "false"},
         NEW o, o = MergeEntry(Overrides(table, allowed), "webhook", Only("enabled", switch))
  PROVE  /\ o \in Tables
         /\ \A id \in Analysis : id \in allowed => o[id] = table[id]
         /\ \A id \in Analysis : id \notin allowed => IsObject(o[id]) /\ o[id]["enabled"] = "false"
         /\ \A id \in PluginIds : \/ o[id] = table[id]
                            \/ o[id] = Patched(Only("enabled", "true"), table[id])
                            \/ o[id] = Patched(Only("enabled", "false"), table[id])
                            \/ /\ id = "short_segment"
                               /\ o[id] = Patched(Only("min_ms", "number"), table[id])
<1>1. /\ PluginIds \subseteq Names /\ "enabled" \in Keys /\ "min_ms" \in Keys
      /\ {"short_segment", "cross_stream_dedup", "webhook"} \subseteq PluginIds /\ Analysis \subseteq PluginIds
  BY RegistryAssumption, IdsAre DEF Analysis
<1> DEFINE on == Only("enabled", "true")
           off == Only("enabled", "false")
           short == Only("min_ms", "number")
           first == MergeEntry(table, "short_segment", short)
           hosted == MergeEntry(first, "cross_stream_dedup", on)
           ruled == Overrides(table, allowed)
<1>2. /\ on \in Objects /\ off \in Objects /\ short \in Objects /\ Only("enabled", switch) \in Objects
      /\ off["enabled"] = "false" /\ Only("enabled", switch) \in {on, off}
  BY <1>1, OnlyIs DEF Values
<1> HIDE DEF on, off, short
<1>3. /\ first \in Tables /\ first["short_segment"] = Patched(short, table["short_segment"])
      /\ \A j \in Names : j # "short_segment" => first[j] = table[j]
  BY <1>1, <1>2, MergeEntryIs
<1> HIDE DEF first
<1>4. /\ hosted \in Tables /\ hosted["cross_stream_dedup"] = Patched(on, first["cross_stream_dedup"])
      /\ \A j \in Names : j # "cross_stream_dedup" => hosted[j] = first[j]
  BY <1>1, <1>2, <1>3, MergeEntryIs
<1>5. ruled = [id \in Names |-> IF id \in Analysis \ allowed THEN MergeEntry(hosted, id, off)[id]
                                ELSE hosted[id]]
  BY DEF Overrides, first, short, on, off
<1> HIDE DEF hosted
<1>6. \A id \in Names : MergeEntry(hosted, id, off)[id] = Patched(off, hosted[id])
  BY <1>2, <1>4, MergeEntryIs
<1>7. ASSUME NEW id \in Names
      PROVE  Patched(off, hosted[id]) \in Objects /\ IsObject(Patched(off, hosted[id]))
             /\ Patched(off, hosted[id])["enabled"] = "false"
  <2>1. hosted[id] \in Objects \cup {NotAnObject}
    BY <1>4 DEF Tables
  <2> QED BY <1>1, <1>2, <2>1, PatchedIs
<1>8. /\ \A id \in Names : id \in Analysis \ allowed => ruled[id] = Patched(off, hosted[id])
      /\ \A id \in Names : id \notin Analysis \ allowed => ruled[id] = hosted[id]
  BY <1>5, <1>6
<1>9. ruled \in Tables
  <2>1. \A id \in Names : hosted[id] \in Objects \cup {NotAnObject}
    BY <1>4 DEF Tables
  <2> QED BY <1>5, <1>6, <1>7, <2>1 DEF Tables
<1> HIDE DEF ruled
<1>10. /\ o \in Tables /\ o["webhook"] = Patched(Only("enabled", switch), ruled["webhook"])
       /\ \A j \in Names : j # "webhook" => o[j] = ruled[j]
  <2>1. o = MergeEntry(ruled, "webhook", Only("enabled", switch))
    BY DEF ruled
  <2>2. "webhook" \in Names
    BY <1>1
  <2>3. Only("enabled", switch) \in Objects
    BY <1>2
  <2> QED BY <1>9, <2>1, <2>2, <2>3, MergeEntryIs
<1>11. "webhook" \notin Analysis /\ "short_segment" \notin Analysis /\ "cross_stream_dedup" \notin Analysis
  BY DEF Analysis
<1>12. \A id \in Analysis : o[id] = ruled[id] /\ hosted[id] = table[id]
  BY <1>1, <1>3, <1>4, <1>10, <1>11
<1>13. \A id \in Analysis : id \in allowed => o[id] = table[id]
  BY <1>1, <1>8, <1>12
<1>14. \A id \in Analysis : id \notin allowed => o[id] = Patched(off, table[id])
  BY <1>1, <1>8, <1>12
<1>15. \A id \in Analysis : id \notin allowed => IsObject(o[id]) /\ o[id]["enabled"] = "false"
  BY <1>1, <1>7, <1>12, <1>14
<1>16. ASSUME NEW id \in PluginIds
       PROVE  \/ o[id] = table[id] \/ o[id] = Patched(on, table[id])
              \/ o[id] = Patched(off, table[id])
              \/ id = "short_segment" /\ o[id] = Patched(short, table[id])
  <2>1. CASE id \in Analysis
    BY <1>13, <1>14, <2>1
  <2>2. CASE id = "webhook"
    <3>1. ruled["webhook"] = table["webhook"]
      BY <1>1, <1>3, <1>4, <1>8, <1>11
    <3> QED BY <1>2, <1>10, <2>2, <3>1
  <2>3. CASE id \notin Analysis /\ id # "webhook"
    <3>1. o[id] = hosted[id]
      BY <1>1, <1>8, <1>10, <2>3
    <3> QED BY <1>1, <1>3, <1>4, <3>1
  <2> QED BY <2>1, <2>2, <2>3
<1> QED BY <1>10, <1>13, <1>15, <1>16 DEF on, off, short

\* The table of a session, and the state that it gives to a plugin.
LEMMA PreparedIs ==
  ASSUME NEW table \in Tables, NEW id \in PluginIds, NEW available
  PROVE  /\ Prepare(id, table, available) = "active" =>
              (IsObject(table[id]) => table[id]["enabled"] \in {"true", "absent"})
         /\ (IsObject(table[id]) => Valid(id, table[id])) =>
              Prepare(id, table, available) # "invalid_config"
<1> DEFINE cfg == MergeConfig(Default(id), table[id])
<1>1. table[id] \in Objects \cup {NotAnObject} /\ "enabled" \in Keys
  BY RegistryAssumption DEF Tables
<1>2. Default(id) \in Objects /\ Valid(id, Default(id))
  BY DefaultIs, DefaultIsValid
<1>3. CASE ~IsObject(table[id])
  <2>1. cfg = Default(id)
    BY <1>3 DEF MergeConfig
  <2> QED BY <1>2, <1>3, <2>1 DEF Prepare
<1>4. CASE IsObject(table[id])
  <2>1. cfg = Over(table[id], Default(id)) /\ table[id] \in Objects
    BY <1>1, <1>4 DEF MergeConfig, IsObject
  <2>2. Valid(id, cfg) <=> Valid(id, table[id])
    BY <1>2, <2>1, ValidOver
  <2>3. cfg["enabled"] = IF table[id]["enabled"] # "absent" THEN table[id]["enabled"]
                         ELSE Default(id)["enabled"]
    BY <1>1, <1>2, <2>1, OverIs
  <2>4. Prepare(id, table, available) =
          IF ~Valid(id, cfg) THEN "invalid_config" ELSE IF cfg["enabled"] # "true" THEN "disabled"
          ELSE IF ~(Capabilities(id) \subseteq available) THEN "unavailable" ELSE "active"
    BY DEF Prepare
  <2> HIDE DEF cfg
  <2>5. ASSUME Prepare(id, table, available) = "active"
        PROVE  table[id]["enabled"] \in {"true", "absent"}
    <3>1. cfg["enabled"] = "true"
      BY <2>4, <2>5
    <3> QED BY <2>3, <3>1
  <2>6. ASSUME Valid(id, table[id]) PROVE Prepare(id, table, available) # "invalid_config"
    BY <2>2, <2>4, <2>6
  <2> QED BY <1>4, <2>5, <2>6
<1> QED BY <1>3, <1>4

\* A session runs an analysis plugin only if the scene allows it and its entry does
\* not switch it off.
LEMMA SceneRules ==
  ASSUME NEW c \in Configs, NEW llm, NEW request \in [persist : BOOLEAN, kb : BOOLEAN],
         NEW id \in Analysis, SessionPlugins(c, llm, request)[id] = "active"
  PROVE  /\ id \in Allowed(c)
         /\ IsObject(c.plugins[id]) => c.plugins[id]["enabled"] \in {"true", "absent"}
<1> DEFINE switch == IF request.persist THEN "true" ELSE "false"
           o == MergeEntry(Overrides(c.plugins, Allowed(c)), "webhook", Only("enabled", switch))
<1>1. c.plugins \in Tables /\ id \in PluginIds /\ switch \in {"true", "false"}
  BY IdsAre DEF Configs, Analysis
<1>2. PICK available : SessionPlugins(c, llm, request)[id] = Prepare(id, o, available)
  BY <1>1 DEF SessionPlugins, Registrations
<1> HIDE DEF switch
<1>3. /\ o \in Tables
      /\ id \in Allowed(c) => o[id] = c.plugins[id]
      /\ id \notin Allowed(c) => IsObject(o[id]) /\ o[id]["enabled"] = "false"
  BY <1>1, OverridesAre
<1> HIDE DEF o
<1>4. IsObject(o[id]) => o[id]["enabled"] \in {"true", "absent"}
  BY <1>1, <1>2, <1>3, PreparedIs
<1> QED BY <1>3, <1>4

\* Every plugin's entry is one that its check lets pass.
ValidTable(table) == \A id \in PluginIds : table[id] \in Objects /\ Valid(id, table[id])

LEMMA OnlyIsValid ==
  ASSUME NEW id \in PluginIds
  PROVE  /\ Valid(id, Only("enabled", "true")) /\ Valid(id, Only("enabled", "false"))
         /\ Valid("short_segment", Only("min_ms", "number"))
<1>1. "enabled" \in Keys /\ "min_ms" \in Keys
  BY RegistryAssumption
<1>2. /\ \A k \in Keys : Only("enabled", "true")[k] = IF k = "enabled" THEN "true" ELSE "absent"
      /\ \A k \in Keys : Only("enabled", "false")[k] = IF k = "enabled" THEN "false" ELSE "absent"
      /\ \A k \in Keys : Only("min_ms", "number")[k] = IF k = "min_ms" THEN "number" ELSE "absent"
  BY <1>1, OnlyIs DEF Values
<1>3. /\ TypeOf(Default(id)["enabled"]) = TypeOf("true") /\ TypeOf("true") = TypeOf("false")
      /\ TypeOf(Default("short_segment")["min_ms"]) = TypeOf("number")
  BY DefaultIs DEF TypeOf
<1> QED BY <1>2, <1>3 DEF Valid

\* A patch that is valid keeps an entry valid.
LEMMA PatchedIsValid ==
  ASSUME NEW id, NEW patch \in Objects, Valid(id, patch), NEW old \in Objects, Valid(id, old)
  PROVE  Patched(patch, old) \in Objects /\ Valid(id, Patched(patch, old))
<1>1. Patched(patch, old) = Over(patch, old)
  BY RegistryAssumption DEF Patched, IsObject
<1> QED BY <1>1, OverIs, ValidOver

\* A session refuses no plugin's settings if the table has none to refuse.
LEMMA ValidSession ==
  ASSUME NEW c \in Configs, NEW llm, NEW request \in [persist : BOOLEAN, kb : BOOLEAN],
         NEW id \in PluginIds, ValidTable(c.plugins)
  PROVE  SessionPlugins(c, llm, request)[id] # "invalid_config"
<1> DEFINE switch == IF request.persist THEN "true" ELSE "false"
           o == MergeEntry(Overrides(c.plugins, Allowed(c)), "webhook", Only("enabled", switch))
           old == c.plugins[id]
<1>1. c.plugins \in Tables /\ switch \in {"true", "false"}
  BY DEF Configs
<1>2. PICK available : SessionPlugins(c, llm, request)[id] = Prepare(id, o, available)
  BY <1>1 DEF SessionPlugins, Registrations
<1> HIDE DEF switch
<1>3. /\ o \in Tables
      /\ \/ o[id] = old
         \/ o[id] = Patched(Only("enabled", "true"), old)
         \/ o[id] = Patched(Only("enabled", "false"), old)
         \/ id = "short_segment" /\ o[id] = Patched(Only("min_ms", "number"), old)
  BY <1>1, OverridesAre
<1> HIDE DEF o
<1>4. old \in Objects /\ Valid(id, old)
  BY DEF ValidTable
<1>5. /\ Only("enabled", "true") \in Objects /\ Only("enabled", "false") \in Objects
      /\ Only("min_ms", "number") \in Objects
  BY RegistryAssumption, OnlyIs DEF Values
<1> HIDE DEF old
<1>6. Valid(id, o[id])
  BY <1>3, <1>4, <1>5, OnlyIsValid, PatchedIsValid
<1> QED BY <1>2, <1>3, <1>6, PreparedIs
--------------------------------------------------------------------------------
Requests == [persist : BOOLEAN, kb : BOOLEAN]

ConfigTypeInv ==
  /\ ConfigTypeOK
  /\ env \in Words \cup {Nil}
  /\ building = Nil \/ building \in [config : Configs, request : Requests]
  /\ session = Nil \/ /\ session.config \in Configs /\ session.request \in Requests
                       /\ session.llm \in BOOLEAN

\* What was loaded has its names and its ranges, and the backend of the environment.
MemoryInv ==
  program = "up" =>
    /\ memory.gain \in 0..MaxGain
    /\ env # Nil => memory.backend = env
    /\ env = Nil => memory.backend # Blank

\* While nobody has edited the file, every table is valid.
ValidInv ==
  ~edited =>
    /\ file \in Configs => ValidTable(file.plugins)
    /\ memory \in Configs => ValidTable(memory.plugins)
    /\ building # Nil => ValidTable(building.config.plugins)
    /\ session # Nil => ValidTable(session.config.plugins)

SessionInv ==
  session # Nil =>
    session.plugins = SessionPlugins(session.config, session.llm, session.request)

ConfigInv == ConfigTypeInv /\ MemoryInv /\ SavedIsLoaded /\ ValidInv /\ SessionInv

\* A configuration, field by field.
LEMMA Fields ==
  ASSUME NEW c \in Configs
  PROVE  /\ c.engine \in Words /\ c.backend \in Words /\ c.gain \in Int /\ c.key \in BOOLEAN
         /\ c.kb \in BOOLEAN /\ c.recording \in BOOLEAN /\ c.mode \in Modes
         /\ c.custom \in SUBSET Names /\ c.plugins \in Tables
BY DEF Configs

LEMMA DefaultConfigIs ==
  /\ DefaultConfig \in Configs /\ DefaultConfig.gain \in 0..MaxGain
  /\ DefaultConfig.engine # Blank /\ DefaultConfig.backend # Blank
  /\ ValidTable(DefaultConfig.plugins)
<1>1. Empty \in Objects /\ \A id : Valid(id, Empty)
  BY DEF Empty, Objects, Valid
<1>2. Analysis \subseteq Names
  BY RegistryAssumption, IdsAre DEF Analysis
<1> DEFINE table == [id \in Names |-> Empty]
<1>3. table \in Tables
  BY <1>1 DEF Tables
<1>4. DefaultConfig \in Configs
  <2>1. DefaultConfig =
          [engine |-> "paraformer-zh", backend |-> "auto", gain |-> 0, key |-> FALSE,
           kb |-> FALSE, recording |-> TRUE, mode |-> "conversation", custom |-> Analysis,
           plugins |-> table]
    BY DEF DefaultConfig
  <2> HIDE DEF table
  <2>2. "conversation" \in Modes /\ Analysis \in SUBSET Names
    BY <1>2 DEF Modes
  <2>3. \A e, b \in Words, g \in Int, k, kb, r \in BOOLEAN, m \in Modes, a \in SUBSET Names,
            t \in Tables :
          [engine |-> e, backend |-> b, gain |-> g, key |-> k, kb |-> kb, recording |-> r,
           mode |-> m, custom |-> a, plugins |-> t] \in Configs
    BY DEF Configs
  <2>4. "paraformer-zh" \in Words /\ "auto" \in Words /\ 0 \in Int
    BY ConfigAssumption
  <2> QED BY <1>3, <2>1, <2>2, <2>3, <2>4
<1>5. ValidTable(DefaultConfig.plugins)
  BY <1>1, RegistryAssumption DEF ValidTable, DefaultConfig
<1> QED BY <1>4, <1>5 DEF DefaultConfig, MaxGain, Blank

\* What is loaded.
LEMMA LoadIs ==
  ASSUME NEW f, f \in Configs \/ f = Missing, NEW value \in Words \cup {Nil}
  PROVE  /\ LoadConfig(f, value) \in Configs
         /\ LoadConfig(f, value).gain \in 0..MaxGain /\ LoadConfig(f, value).engine # Blank
         /\ value # Nil => LoadConfig(f, value).backend = value
         /\ value = Nil => LoadConfig(f, value).backend # Blank
         /\ LoadConfig(f, value).plugins = IF f = Missing THEN DefaultConfig.plugins ELSE f.plugins
<1> DEFINE c == IF f = Missing THEN DefaultConfig ELSE MergeFile(f)
<1>1. /\ c \in Configs /\ c.gain \in 0..MaxGain /\ c.engine # Blank /\ c.backend # Blank
      /\ c.plugins = IF f = Missing THEN DefaultConfig.plugins ELSE f.plugins
  <2>1. CASE f = Missing
    BY <2>1, DefaultConfigIs
  <2>2. CASE f # Missing
    <3>1. f \in Configs
      BY <2>2
    <3>2. /\ TakeOr(f.engine, DefaultConfig.engine) \in Words \ {Blank}
          /\ TakeOr(f.backend, DefaultConfig.backend) \in Words \ {Blank}
          /\ Clamp(f.gain) \in 0..MaxGain
      BY <3>1, Fields, DefaultConfigIs DEF TakeOr, Clamp, MaxGain
    <3>3. c = [f EXCEPT !.engine = TakeOr(f.engine, DefaultConfig.engine),
                        !.backend = TakeOr(f.backend, DefaultConfig.backend),
                        !.gain = Clamp(f.gain)]
      BY <2>2 DEF MergeFile
    <3> HIDE DEF c
    <3>4. c \in Configs
      <4>1. Clamp(f.gain) \in Int
        BY <3>2 DEF MaxGain
      <4> QED BY <3>1, <3>2, <3>3, <4>1 DEF Configs
    <3>5. /\ c.engine = TakeOr(f.engine, DefaultConfig.engine)
          /\ c.backend = TakeOr(f.backend, DefaultConfig.backend)
          /\ c.gain = Clamp(f.gain) /\ c.plugins = f.plugins
      BY <3>1, <3>3 DEF Configs
    <3> QED BY <2>2, <3>2, <3>4, <3>5
  <2> QED BY <2>1, <2>2
<1>2. LoadConfig(f, value) = IF value = Nil THEN c ELSE [c EXCEPT !.backend = value]
  BY DEF LoadConfig, Override
<1> HIDE DEF c
<1>3. CASE value = Nil
  BY <1>1, <1>2, <1>3
<1>4. CASE value # Nil
  BY <1>1, <1>2, <1>4 DEF Configs
<1> QED BY <1>3, <1>4

\* Loading again what was loaded and written changes nothing but a blank name.
LEMMA LoadAgain ==
  ASSUME NEW c \in Configs, c # Missing, NEW value \in Words \cup {Nil}, c.gain \in 0..MaxGain,
         value # Nil => c.backend = value, value = Nil => c.backend # Blank
  PROVE  LoadConfig(c, value) = [c EXCEPT !.engine = TakeOr(@, DefaultConfig.engine)]
<1> DEFINE d == [c EXCEPT !.engine = TakeOr(@, DefaultConfig.engine)]
<1>1. Clamp(c.gain) = c.gain
  BY Fields DEF Clamp, MaxGain
<1>2. MergeFile(c) = [c EXCEPT !.engine = TakeOr(@, DefaultConfig.engine),
                               !.backend = TakeOr(@, DefaultConfig.backend)]
  BY <1>1 DEF MergeFile, Configs
<1>3. CASE value = Nil
  <2>1. TakeOr(c.backend, DefaultConfig.backend) = c.backend
    BY <1>3 DEF TakeOr
  <2>2. MergeFile(c) = d
    BY <1>2, <2>1 DEF Configs
  <2> QED BY <1>3, <2>2 DEF LoadConfig, Override
<1>4. CASE value # Nil
  <2>1. [MergeFile(c) EXCEPT !.backend = value] = d
    BY <1>2, <1>4 DEF Configs
  <2> QED BY <1>4, <2>1 DEF LoadConfig, Override
<1> QED BY <1>3, <1>4

\* What an update that was accepted makes of a configuration.
LEMMA UpdateIs ==
  ASSUME NEW c \in Configs, NEW u \in Changes, Accepted(u),
         NEW d, d \in {Apply(c, u), ApplyHeadless(c, u)}
  PROVE  /\ d \in Configs /\ d.backend = c.backend
         /\ c.gain \in 0..MaxGain => d.gain \in 0..MaxGain
         /\ ValidTable(c.plugins) => ValidTable(d.plugins)
<1>1. CASE d = c
  BY <1>1
<1>2. CASE d = Apply(c, u)
  <2>1. CASE u.part = "engine" /\ u.value \in Words
    BY <1>2, <2>1 DEF Apply, Configs
  <2>2. CASE u.part = "gain" /\ u.value \in Int
    <3>1. Clamp(u.value) \in 0..MaxGain
      BY <2>2 DEF Clamp, MaxGain
    <3> QED BY <1>2, <2>2, <3>1 DEF Apply, Configs
  <2>3. CASE u.part \in {"llm", "recording"} /\ u.value \in BOOLEAN
    BY <1>2, <2>3 DEF Apply, Configs
  <2>4. CASE u.part = "scene" /\ u.value \in Modes
    BY <1>2, <2>4 DEF Apply, Configs
  <2>5. CASE u.part = "custom" /\ u.value \in SUBSET Names
    BY <1>2, <2>5 DEF Apply, Configs
  <2>6. CASE u.part = "plugins" /\ u.id \in Names /\ u.value \in Objects \cup {NotAnObject}
    <3> DEFINE table == MergeEntry(c.plugins, u.id, u.value)
    <3>1. u.id \in PluginIds /\ u.value \in Objects /\ Valid(u.id, MergeConfig(Default(u.id), u.value))
      BY <2>6 DEF Accepted, ValidUpdate, IsObject
    <3>2. Valid(u.id, u.value)
      <4>1. MergeConfig(Default(u.id), u.value) = Over(u.value, Default(u.id))
        BY <3>1, RegistryAssumption DEF MergeConfig, IsObject
      <4> QED BY <3>1, <4>1, ValidOver, DefaultIs, DefaultIsValid
    <3>3. /\ table \in Tables /\ table[u.id] = Patched(u.value, c.plugins[u.id])
          /\ \A j \in Names : j # u.id => table[j] = c.plugins[j]
      BY <2>6, <3>1, Fields, MergeEntryIs
    <3>4. d = [c EXCEPT !.plugins = table]
      BY <1>2, <2>6 DEF Apply
    <3> HIDE DEF table
    <3>5. d \in Configs /\ d.backend = c.backend /\ d.gain = c.gain /\ d.plugins = table
      BY <3>3, <3>4 DEF Configs
    <3>6. ASSUME ValidTable(c.plugins) PROVE ValidTable(table)
      <4>1. table[u.id] \in Objects /\ Valid(u.id, table[u.id])
        BY <3>1, <3>2, <3>3, <3>6, PatchedIsValid DEF ValidTable
      <4> QED BY <3>3, <3>6, <4>1, RegistryAssumption DEF ValidTable
    <3> QED BY <3>5, <3>6
  <2> QED BY <2>1, <2>2, <2>3, <2>4, <2>5, <2>6 DEF Changes
<1> QED BY <1>1, <1>2 DEF ApplyHeadless

LEMMA InitConfigInv == ConfigInit => ConfigInv
<1> SUFFICES ASSUME ConfigInit PROVE ConfigInv
  OBVIOUS
<1>1. ConfigTypeInv
  <2>1. 0 \in 0..MaxSteps
    BY ConfigAssumption
  <2> QED BY <2>1, Zenon DEF ConfigInit, ConfigTypeInv, ConfigTypeOK
<1>2. MemoryInv /\ SavedIsLoaded /\ SessionInv
  BY DEF ConfigInit, MemoryInv, SavedIsLoaded, SessionInv
<1>3. ValidInv
  BY ConfigAssumption DEF ConfigInit, ValidInv
<1> QED BY <1>1, <1>2, <1>3 DEF ConfigInv

\* The step of a save, as far as it is about the configuration in memory.
LEMMA AppliedIs ==
  ASSUME ConfigInv, program = "up", NEW u \in Updates, Accepted(u), Applied(u)
  PROVE  /\ memory \in Configs /\ memory' \in Configs /\ memory' # Nil
         /\ memory'.backend = memory.backend /\ memory'.gain \in 0..MaxGain
         /\ memory.gain \in 0..MaxGain
         /\ env # Nil => memory.backend = env
         /\ env = Nil => memory.backend # Blank
         /\ ValidTable(memory.plugins) => ValidTable(memory'.plugins)
<1>1. /\ memory \in Configs /\ memory.gain \in 0..MaxGain
      /\ env # Nil => memory.backend = env
      /\ env = Nil => memory.backend # Blank
  BY DEF ConfigInv, ConfigTypeInv, ConfigTypeOK, MemoryInv
<1>2. u \in Changes /\ memory' \in {Apply(memory, u), ApplyHeadless(memory, u)}
  BY ConfigAssumption DEF Applied
<1>3. /\ memory' \in Configs /\ memory'.backend = memory.backend /\ memory'.gain \in 0..MaxGain
      /\ ValidTable(memory.plugins) => ValidTable(memory'.plugins)
  <2> DEFINE d == memory'
  <2>1. d \in {Apply(memory, u), ApplyHeadless(memory, u)}
    BY <1>2
  <2> HIDE DEF d
  <2>2. /\ d \in Configs /\ d.backend = memory.backend /\ d.gain \in 0..MaxGain
        /\ ValidTable(memory.plugins) => ValidTable(d.plugins)
    BY <1>1, <1>2, <2>1, UpdateIs
  <2> QED BY <2>2 DEF d
<1> QED BY <1>1, <1>3, ConfigAssumption

LEMMA NextConfigInv == ConfigInv /\ [ConfigNext]_configVars => ConfigInv'
<1> SUFFICES ASSUME ConfigInv, [ConfigNext]_configVars PROVE ConfigInv'
  OBVIOUS
<1>t. /\ program \in {"down", "up"} /\ (program = "up") = (memory # Nil)
      /\ file \in Configs \cup {Missing, Torn} /\ memory \in Configs \cup {Nil}
      /\ answer \in {"none", "ok", "error"} /\ edited \in BOOLEAN /\ steps \in 0..MaxSteps
      /\ (building # Nil \/ session # Nil) => program = "up"
      /\ env \in Words \cup {Nil}
      /\ building = Nil \/ building \in [config : Configs, request : Requests]
      /\ session = Nil \/ /\ session.config \in Configs /\ session.request \in Requests
                           /\ session.llm \in BOOLEAN
  BY DEF ConfigInv, ConfigTypeInv, ConfigTypeOK
<1>a. Nil \notin Configs /\ Missing \notin Configs /\ Torn \notin Configs /\ MaxSteps \in Nat
  BY ConfigAssumption
<1>i. MemoryInv /\ SavedIsLoaded /\ ValidInv /\ SessionInv
  BY DEF ConfigInv
<1>1. CASE Start
  <2>1. PICK value \in Backends : env' = value /\ memory' = LoadConfig(file, value)
    BY <1>1 DEF Start
  <2>2. value \in Words \cup {Nil} /\ (file \in Configs \/ file = Missing)
    BY <1>1, <1>t, ConfigAssumption DEF Start
  <2>3. /\ memory' \in Configs /\ memory'.gain \in 0..MaxGain /\ memory'.engine # Blank
        /\ value # Nil => memory'.backend = value
        /\ value = Nil => memory'.backend # Blank
        /\ memory'.plugins = IF file = Missing THEN DefaultConfig.plugins ELSE file.plugins
    BY <2>1, <2>2, LoadIs
  <2>4. /\ program = "down" /\ program' = "up" /\ answer' = "none"
        /\ UNCHANGED <<file, edited, steps, building, session>> /\ building = Nil /\ session = Nil
    BY <1>1, <1>t DEF Start
  <2>5. ConfigTypeInv' /\ MemoryInv' /\ SessionInv'
    BY <1>t, <1>a, <2>1, <2>2, <2>3, <2>4
    DEF ConfigTypeInv, ConfigTypeOK, MemoryInv, SessionInv
  <2>6. SavedIsLoaded'
    <3>1. [memory' EXCEPT !.engine = TakeOr(@, DefaultConfig.engine)] = memory'
      BY <2>3 DEF Configs, TakeOr
    <3>2. file # Torn
      BY <1>1 DEF Start
    <3> QED BY <2>1, <2>4, <3>1, <3>2 DEF SavedIsLoaded
  <2>7. ValidInv'
    BY <1>i, <1>a, <2>2, <2>3, <2>4, DefaultConfigIs DEF ValidInv
  <2> QED BY <2>5, <2>6, <2>7 DEF ConfigInv
<1>2. CASE Quit
  BY <1>2, <1>t, <1>a, <1>i
  DEF Quit, Down, ConfigInv, ConfigTypeInv, ConfigTypeOK, MemoryInv, SavedIsLoaded, ValidInv,
      SessionInv
<1>3. CASE EditFile
  BY <1>3, <1>t, <1>a, <1>i, ConfigAssumption
  DEF EditFile, ConfigInv, ConfigTypeInv, ConfigTypeOK, MemoryInv, SavedIsLoaded, ValidInv,
      SessionInv
<1>4. CASE Save
  <2>1. PICK u \in Updates : Accepted(u) /\ Applied(u)
    BY <1>4 DEF Save
  <2>2. /\ program = "up" /\ steps' \in 0..MaxSteps /\ file' = memory' /\ answer' = "ok"
        /\ UNCHANGED <<program, env, edited, building, session>>
    BY <1>4, <1>t, <1>a DEF Save
  <2>3. /\ memory \in Configs /\ memory' \in Configs /\ memory' # Nil
        /\ memory'.backend = memory.backend /\ memory'.gain \in 0..MaxGain
        /\ env # Nil => memory.backend = env
        /\ env = Nil => memory.backend # Blank
        /\ ValidTable(memory.plugins) => ValidTable(memory'.plugins)
    BY <2>1, <2>2, AppliedIs
  <2>4. ConfigTypeInv' /\ MemoryInv' /\ SessionInv'
    BY <1>t, <1>i, <2>2, <2>3 DEF ConfigTypeInv, ConfigTypeOK, MemoryInv, SessionInv
  <2>5. SavedIsLoaded'
    <3>1. memory' # Missing /\ memory' # Torn
      BY <1>a, <2>3
    <3>2. LoadConfig(memory', env) = [memory' EXCEPT !.engine = TakeOr(@, DefaultConfig.engine)]
      <4> DEFINE d == memory'
      <4>1. /\ d \in Configs /\ d.backend = memory.backend /\ d.gain \in 0..MaxGain /\ d # Missing
        BY <2>3, <3>1
      <4> HIDE DEF d
      <4>2. LoadConfig(d, env) = [d EXCEPT !.engine = TakeOr(@, DefaultConfig.engine)]
        BY <1>t, <2>3, <4>1, LoadAgain
      <4> QED BY <4>2 DEF d
    <3> QED BY <2>2, <3>1, <3>2 DEF SavedIsLoaded
  <2>6. ValidInv'
    BY <1>i, <2>2, <2>3 DEF ValidInv
  <2> QED BY <2>4, <2>5, <2>6 DEF ConfigInv
<1>5. CASE SaveFails
  <2>1. PICK u \in Updates : Accepted(u) /\ Applied(u)
    BY <1>5 DEF SaveFails
  <2>2. /\ program = "up" /\ steps' \in 0..MaxSteps /\ file' \in {file, Torn} /\ answer' = "error"
        /\ edited' \in BOOLEAN /\ (edited => edited') /\ UNCHANGED <<program, env, building, session>>
    BY <1>5, <1>t, <1>a DEF SaveFails
  <2>3. /\ memory \in Configs /\ memory' \in Configs /\ memory' # Nil
        /\ memory'.backend = memory.backend /\ memory'.gain \in 0..MaxGain
        /\ env # Nil => memory.backend = env
        /\ env = Nil => memory.backend # Blank
        /\ ValidTable(memory.plugins) => ValidTable(memory'.plugins)
    BY <2>1, <2>2, AppliedIs
  <2>4. ConfigTypeInv' /\ MemoryInv' /\ SessionInv' /\ SavedIsLoaded'
    BY <1>t, <1>i, <2>2, <2>3
    DEF ConfigTypeInv, ConfigTypeOK, MemoryInv, SessionInv, SavedIsLoaded
  <2>5. ValidInv'
    BY <1>i, <1>a, <2>2, <2>3 DEF ValidInv
  <2> QED BY <2>4, <2>5 DEF ConfigInv
<1>6. CASE CrashInSave
  BY <1>6, <1>t, <1>a, <1>i, DefaultConfigIs
  DEF CrashInSave, Down, ConfigInv, ConfigTypeInv, ConfigTypeOK, MemoryInv, SavedIsLoaded, ValidInv,
      SessionInv
<1>7. CASE BuildSession
  <2>1. PICK request \in Requests : building' = [config |-> memory, request |-> request]
    BY <1>7 DEF BuildSession, Requests
  <2>2. /\ program = "up" /\ session = Nil /\ memory \in Configs
        /\ UNCHANGED <<program, env, file, memory, answer, edited, steps, session>>
    BY <1>7, <1>t DEF BuildSession
  <2>3. building' \in [config : Configs, request : Requests] /\ building'.config = memory
    BY <2>1, <2>2
  <2>4. ConfigTypeInv' /\ MemoryInv' /\ SessionInv' /\ SavedIsLoaded'
    BY <1>t, <1>i, <2>2, <2>3
    DEF ConfigTypeInv, ConfigTypeOK, MemoryInv, SessionInv, SavedIsLoaded
  <2>5. ValidInv'
    BY <1>i, <2>2, <2>3 DEF ValidInv
  <2> QED BY <2>4, <2>5 DEF ConfigInv
<1>8. CASE StartSession
  <2> DEFINE s == [config  |-> building.config, request |-> building.request,
                   llm     |-> HasLlm(memory),
                   plugins |-> SessionPlugins(building.config, HasLlm(memory), building.request)]
  <2>1. /\ building \in [config : Configs, request : Requests] /\ program = "up"
        /\ memory \in Configs /\ HasLlm(memory) \in BOOLEAN
    BY <1>8, <1>t, Fields DEF StartSession, HasLlm
  <2>2. /\ session' = s /\ building' = Nil
        /\ UNCHANGED <<program, env, file, memory, answer, edited, steps>>
    BY <1>8 DEF StartSession
  <2>3. /\ s.config = building.config /\ s.request = building.request /\ s.llm = HasLlm(memory)
        /\ s.plugins = SessionPlugins(s.config, s.llm, s.request)
    OBVIOUS
  <2> HIDE DEF s
  <2>4. ConfigTypeInv' /\ MemoryInv' /\ SavedIsLoaded'
    BY <1>t, <1>i, <2>1, <2>2, <2>3
    DEF ConfigTypeInv, ConfigTypeOK, MemoryInv, SavedIsLoaded
  <2>5. SessionInv'
    BY <2>2, <2>3 DEF SessionInv
  <2>6. ValidInv'
    BY <1>i, <1>8, <2>2, <2>3 DEF ValidInv, StartSession
  <2> QED BY <2>4, <2>5, <2>6 DEF ConfigInv
<1>9. CASE StopSession
  BY <1>9, <1>t, <1>a, <1>i
  DEF StopSession, ConfigInv, ConfigTypeInv, ConfigTypeOK, MemoryInv, SavedIsLoaded, ValidInv,
      SessionInv
<1>10. CASE UNCHANGED configVars
  BY <1>10, <1>t, <1>a, <1>i
  DEF configVars, ConfigInv, ConfigTypeInv, ConfigTypeOK, MemoryInv, SavedIsLoaded, ValidInv,
      SessionInv
<1> QED BY <1>1, <1>2, <1>3, <1>4, <1>5, <1>6, <1>7, <1>8, <1>9, <1>10 DEF ConfigNext

LEMMA SpecConfigInv == ConfigSpec => []ConfigInv
BY InitConfigInv, NextConfigInv, PTL DEF ConfigSpec

\* A session runs what its scene and its settings give it, and the settings page has
\* said so: for any table of plugins and any sequence of saves, failures and crashes.
THEOREM ScenesAreKept == ConfigSpec => []SceneIsKept
<1>1. ConfigInv => SceneIsKept
  <2> SUFFICES ASSUME ConfigInv PROVE SceneIsKept
    OBVIOUS
  <2>1. ConfigTypeOK /\ SessionInv
    BY DEF ConfigInv, ConfigTypeInv
  <2>2. session # Nil => /\ session.config \in Configs /\ session.request \in Requests
                          /\ session.llm \in BOOLEAN
    BY DEF ConfigInv, ConfigTypeInv
  <2>3. SceneDecides
    BY <2>1, <2>2, SceneRules DEF SceneDecides, SessionInv, Requests
  <2>4. PreviewIsTrue
    <3> SUFFICES ASSUME session # Nil, session.request = [persist |-> TRUE, kb |-> FALSE],
                        session.llm = HasLlm(session.config)
                 PROVE  session.plugins = Preview(session.config)
      BY DEF PreviewIsTrue
    <3> DEFINE c == session.config
               r == [persist |-> TRUE, kb |-> FALSE]
    <3>1. session.plugins = SessionPlugins(c, HasLlm(c), r)
      BY <2>1 DEF SessionInv
    <3>2. r.persist = TRUE /\ r.kb = FALSE
      OBVIOUS
    <3>3. c.kb \in BOOLEAN /\ HasLlm(c) \in BOOLEAN
      BY <2>2, Fields DEF HasLlm
    <3> HIDE DEF c, r
    <3>4. SessionPlugins(c, HasLlm(c), r) = Preview(c)
      BY <3>2, <3>3 DEF SessionPlugins, Preview
    <3> QED BY <3>1, <3>4 DEF c
  <2> QED BY <2>1, <2>3, <2>4 DEF SceneIsKept
<1> QED BY <1>1, SpecConfigInv, PTL

\* Until a save reports an error, the next start loads what is in memory.
THEOREM SavesAreLoaded == ConfigSpec => []SavedIsLoaded
<1>1. ConfigInv => SavedIsLoaded
  BY DEF ConfigInv
<1> QED BY <1>1, SpecConfigInv, PTL

\* No sequence of updates leaves a plugin whose settings a session refuses.
THEOREM PluginsStayValid == ConfigSpec => []UpdatesKeepPluginsValid
<1>1. ConfigInv => UpdatesKeepPluginsValid
  <2> SUFFICES ASSUME ConfigInv, session # Nil, ~edited, NEW id \in PluginIds
               PROVE  session.plugins[id] # "invalid_config"
    BY DEF UpdatesKeepPluginsValid
  <2>1. /\ session.config \in Configs /\ session.request \in Requests
        /\ session.plugins = SessionPlugins(session.config, session.llm, session.request)
    BY DEF ConfigInv, ConfigTypeInv, SessionInv
  <2>2. ValidTable(session.config.plugins)
    BY DEF ConfigInv, ValidInv
  <2> QED BY <2>1, <2>2, ValidSession DEF Requests
<1> QED BY <1>1, SpecConfigInv, PTL
================================================================================
