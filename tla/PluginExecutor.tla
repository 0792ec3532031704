---------------------------- MODULE PluginExecutor ----------------------------
(***************************************************************************)
(* The session-wide executor of slow plugin jobs                           *)
(* (crates/talksage-pipeline/src/plugin_executor.rs): a bounded queue      *)
(* under a mutex and a condition variable, a fixed set of worker threads,  *)
(* and the shutdown the pipeline thread runs when the session ends.        *)
(*                                                                         *)
(* Three kinds of threads interleave here: the pipeline thread submits     *)
(* jobs and later shuts the executor down, the workers take and run jobs,  *)
(* and whoever stops the session raises the cancel flag.  A step of the    *)
(* model is one critical section or one access to an atomic.  A plugin's   *)
(* run may return an event, nothing, an error or a panic, in time or after *)
(* PLUGIN_RUN_TIMEOUT, and it may never return.                            *)
(***************************************************************************)
EXTENDS Naturals, Sequences, FiniteSets

CONSTANTS
  Jobs,                 \* one element per call of submit
  Workers,              \* the worker threads that new asks for
  Capacity,             \* bound of the queue (32 in run_loop)
  NoJob                 \* what a worker without a job holds

ASSUME ExecutorAssumption ==
  /\ IsFiniteSet(Jobs)
  /\ IsFiniteSet(Workers)
  /\ Capacity \in Nat \ {0}
  /\ NoJob \notin Jobs

\* What a call of SegmentObserver::run comes back with.
Results == {"event", "none", "error", "panic"}

VARIABLES
  queue,                \* QueueState.jobs
  accepting,            \* QueueState.accepting
  active,               \* Shared.active
  cancel,               \* the session's cancel flag
  worker,               \* where each worker thread is in worker_loop
  held,                 \* the job a worker has taken
  accepted, refused,    \* the jobs submit returned true, false for
  emitted,              \* the jobs whose event went to the sink, in order
  stopper,              \* where the pipeline thread is in shutdown
  graceful,             \* shutdown's argument
  toJoin, allJoined,    \* its locals: handles not yet joined, no join timed out
  late,                 \* events each worker sent once the session was stopped
  unfinished            \* the jobs queued or running when shutdown returned

queueVars == <<queue, accepting>>
stopVars  == <<stopper, graceful, toJoin, allJoined>>
logVars   == <<accepted, refused>>
ghostVars == <<late, unfinished>>     \* history: read by the properties only
vars == <<queueVars, active, cancel, worker, held, logVars, emitted, stopVars, ghostVars>>

Init ==
  /\ queue = <<>> /\ accepting = TRUE
  /\ active = TRUE /\ cancel = FALSE
     \* a thread that cannot be spawned is only logged
  /\ worker \in [Workers -> {"ready", "absent"}]
  /\ held = [w \in Workers |-> NoJob]
  /\ accepted = {} /\ refused = {} /\ emitted = <<>>
  /\ stopper = "running" /\ graceful = FALSE
  /\ toJoin = {w \in Workers : worker[w] # "absent"}
  /\ allJoined = TRUE
  /\ late = [w \in Workers |-> 0] /\ unfinished = {}
--------------------------------------------------------------------------------
Waiting == {w \in Workers : worker[w] = "waiting"}

\* notify_one wakes one waiting worker, if there is one; notify_all wakes all.
NotifyOne ==
  \/ Waiting = {} /\ UNCHANGED worker
  \/ \E w \in Waiting : worker' = [worker EXCEPT ![w] = "ready"]

NotifyAll == worker' = [w \in Workers |-> IF w \in Waiting THEN "ready" ELSE worker[w]]

Queued == {queue[i] : i \in 1..Len(queue)}

HasRoom == accepting /\ Len(queue) < Capacity

\* submit, called by the pipeline thread from on_final and therefore only
\* before that thread enters shutdown.
SubmitAccepted(j) ==
  /\ HasRoom
  /\ queue' = Append(queue, j)
  /\ accepted' = accepted \cup {j}
  /\ NotifyOne
  /\ UNCHANGED refused

SubmitRefused(j) ==
  /\ ~HasRoom
  /\ refused' = refused \cup {j}
  /\ UNCHANGED <<queue, accepted, worker>>

Submit(j) ==
  /\ stopper = "running"
  /\ j \notin accepted \cup refused
  /\ SubmitAccepted(j) \/ SubmitRefused(j)
  /\ UNCHANGED <<accepting, active, cancel, held, emitted, stopVars, ghostVars>>
--------------------------------------------------------------------------------
\* Mutant: the next job is looked at, not popped.
Peek(w) ==
  /\ queue # <<>>
  /\ held' = [held EXCEPT ![w] = Head(queue)]
  /\ UNCHANGED queue

Pop(w) ==
  /\ queue # <<>>
  /\ held' = [held EXCEPT ![w] = Head(queue)]
  /\ queue' = Tail(queue)

\* worker_loop, from acquiring the mutex to releasing it.
Take(w) ==
  /\ worker[w] = "ready"
  /\ Pop(w)
  /\ worker' = [worker EXCEPT ![w] = "busy"]
  /\ UNCHANGED <<accepting, active, cancel, logVars, emitted, stopVars, ghostVars>>

\* Mutant: the loop tests `accepting` before it looks for a job.
NothingLeftOrClosed == queue = <<>> \/ ~accepting

NothingLeft == queue = <<>>

ExitOrWait(w) ==
  /\ worker[w] = "ready"
  /\ NothingLeft
  /\ worker' = [worker EXCEPT ![w] = IF accepting THEN "waiting" ELSE "exited"]
  /\ UNCHANGED <<queueVars, active, cancel, held, logVars, emitted, stopVars, ghostVars>>

\* A condition variable may wake a thread for no reason.
SpuriousWakeup(w) ==
  /\ worker[w] = "waiting"
  /\ worker' = [worker EXCEPT ![w] = "ready"]
  /\ UNCHANGED <<queueVars, active, cancel, held, logVars, emitted, stopVars, ghostVars>>

\* Mutant: a worker that finishes after the stop looks at `active` alone.
InactiveOnly == ~active

Stopped == cancel \/ ~active

\* run returns (or unwinds) and the worker decides what becomes of the result:
\* it sends an event that came in time to a session still going on, and counts
\* everything else (stopped, overdue, no event, an error, a panic) as settled.
FinishRun(w, result, overdue) ==
  /\ worker[w] = "busy"
  /\ IF ~Stopped /\ ~overdue /\ result = "event"
     THEN worker' = [worker EXCEPT ![w] = "emitting"] /\ UNCHANGED held
     ELSE /\ worker' = [worker EXCEPT ![w] = "ready"]
          /\ held' = [held EXCEPT ![w] = NoJob]
  /\ UNCHANGED <<queueVars, active, cancel, logVars, emitted, stopVars, ghostVars>>

\* (job.emit)(event): by now the flags may have changed.
Emit(w) ==
  /\ worker[w] = "emitting"
  /\ emitted' = Append(emitted, held[w])
  /\ late' = [late EXCEPT ![w] = IF cancel \/ ~active THEN @ + 1 ELSE @]
  /\ worker' = [worker EXCEPT ![w] = "ready"]
  /\ held' = [held EXCEPT ![w] = NoJob]
  /\ UNCHANGED <<queueVars, active, cancel, logVars, stopVars, unfinished>>
--------------------------------------------------------------------------------
\* LivePipeline::stop, called on another thread at any time.
SetCancel ==
  /\ ~cancel /\ cancel' = TRUE
  /\ UNCHANGED <<queueVars, active, worker, held, logVars, emitted, stopVars, ghostVars>>

\* shutdown(!cancel) at the end of run_loop, or shutdown(false) from Drop when
\* run_loop returns early; it begins by clearing active unless it is graceful.
BeginShutdown ==
  /\ stopper = "running"
  /\ graceful' \in {~cancel, FALSE}
  /\ active' = graceful'
  /\ stopper' = "closing"
  /\ UNCHANGED <<queueVars, cancel, worker, held, logVars, emitted, toJoin, allJoined, ghostVars>>

\* The critical section of shutdown.
CloseQueue ==
  /\ stopper = "closing"
  /\ accepting' = FALSE
  /\ queue' = IF graceful THEN queue ELSE <<>>
  /\ NotifyAll
  /\ stopper' = "joining"
  /\ UNCHANGED <<active, cancel, held, logVars, emitted, graceful, toJoin, allJoined, ghostVars>>

\* Mutant: an unbounded join.
JoinForever(w) == worker[w] = "exited" /\ UNCHANGED allJoined

\* join_with_timeout on one handle: the thread ended, or the time is up and the
\* thread is left running.
JoinWithTimeout(w) ==
  \/ worker[w] = "exited" /\ UNCHANGED allJoined
  \/ worker[w] # "exited" /\ allJoined' = FALSE

Join(w) ==
  /\ stopper = "joining" /\ w \in toJoin
  /\ toJoin' = toJoin \ {w}
  /\ JoinWithTimeout(w)
  /\ UNCHANGED <<queueVars, active, cancel, worker, held, logVars, emitted, stopper, graceful, ghostVars>>

\* Mutant: a graceful shutdown leaves the executor active, joined or not.
GracefulStaysActive == active /\ graceful

ActiveAfterJoins == active /\ allJoined /\ graceful

ReturnFromShutdown ==
  /\ stopper = "joining" /\ toJoin = {}
  /\ active' = ActiveAfterJoins
  /\ stopper' = "returned"
  /\ unfinished' = Queued \cup {held[w] : w \in {v \in Workers : worker[v] = "busy"}}
  /\ UNCHANGED <<queueVars, cancel, worker, held, logVars, emitted, graceful, toJoin, allJoined, late>>
--------------------------------------------------------------------------------
Shutdown == BeginShutdown \/ CloseQueue \/ (\E w \in Workers : Join(w)) \/ ReturnFromShutdown

RunReturns(w) == \E result \in Results, overdue \in BOOLEAN : FinishRun(w, result, overdue)

Next ==
  \/ \E j \in Jobs : Submit(j)
  \/ \E w \in Workers : Take(w) \/ ExitOrWait(w) \/ SpuriousWakeup(w) \/ RunReturns(w) \/ Emit(w)
  \/ SetCancel
  \/ Shutdown

Spec == Init /\ [][Next]_vars

\* Threads that can run do run.  Nothing is assumed of the plugins, of the
\* user who cancels, nor of the moment the pipeline decides to shut down; once
\* begun, shutdown goes on because each of its joins is bounded in time.
SchedulerFairness ==
  /\ \A w \in Workers : WF_vars(Take(w)) /\ WF_vars(ExitOrWait(w)) /\ WF_vars(Emit(w))
  /\ WF_vars(CloseQueue) /\ WF_vars(ReturnFromShutdown)
  /\ \A w \in Workers : WF_vars(Join(w))

\* In addition, every plugin call returns (HTTP clients have timeouts).
PluginsReturn == \A w \in Workers : WF_vars(RunReturns(w))

FairSpec == Spec /\ SchedulerFairness
--------------------------------------------------------------------------------
TypeOK ==
  /\ queue \in Seq(Jobs) /\ Len(queue) <= Capacity /\ accepting \in BOOLEAN
  /\ active \in BOOLEAN /\ cancel \in BOOLEAN
  /\ worker \in [Workers -> {"absent", "ready", "waiting", "busy", "emitting", "exited"}]
  /\ held \in [Workers -> Jobs \cup {NoJob}]
  /\ accepted \subseteq Jobs /\ refused \subseteq Jobs
  /\ emitted \in Seq(Jobs)
  /\ stopper \in {"running", "closing", "joining", "returned"}
  /\ graceful \in BOOLEAN /\ toJoin \subseteq Workers /\ allJoined \in BOOLEAN
  /\ late \in [Workers -> Nat] /\ unfinished \subseteq Jobs

Running == {w \in Workers : held[w] # NoJob}
Present == {w \in Workers : worker[w] # "absent"}

\* A worker thread ends only when no job can be waiting for it: once one has
\* exited the queue is closed and empty, so no accepted job is stranded
\* (the order of the tests in worker_loop, and clear before notify_all).
NoStrandedJob ==
  (\E w \in Workers : worker[w] = "exited") => ~accepting /\ queue = <<>>

\* A graceful shutdown that joined every worker left nothing behind: the queue
\* is empty and no worker holds a job, as long as there was a worker at all.
GracefulDrains ==
  stopper = "returned" /\ graceful /\ allJoined /\ Present # {}
    => queue = <<>> /\ Running = {}

SentEvents == {emitted[i] : i \in 1..Len(emitted)}

\* A stopped session can still see late plugin events, but at most one per
\* worker: that of a run which had been judged before the flags changed.
OneLateEventEach == \A w \in Workers : late[w] <= 1

\* Nothing comes after a shutdown that joined every worker.
SilentOnceJoined ==
  stopper = "returned" /\ allJoined => \A w \in Present : worker[w] = "exited"

\* Where a worker outlives shutdown, what it was still running, and what was left
\* in the queue, never becomes an event: the executor is inactive by then.  Only the
\* worker that was already past its test of the flags has an event yet to send.
OverrunsAreDropped == SentEvents \cap unfinished = {}

\* No job is lost between the queue and the workers: while a worker could still
\* take it, on the way to the end, and after a graceful shutdown
\* (plugin_executor.rs:93-190, 226-260).
NoJobIsStranded == TypeOK /\ NoStrandedJob /\ GracefulDrains

\* What plugins return after the end of a session hardly reaches it: one event of
\* each worker at most once it is stopped, that of a run judged before; none of a
\* run that was still going on when shutdown returned; and none at all after a
\* shutdown that joined them all (plugin_executor.rs:160-190, 240-263).
LateResultsAreDropped == OneLateEventEach /\ SilentOnceJoined /\ OverrunsAreDropped

\* Shutdown is bounded in time, whatever the plugins do.
ShutdownReturns == (stopper = "closing") ~> (stopper = "returned")

\* Every accepted job is taken by a worker (or cleared): no wake-up is lost.
QueueIsServed ==
  \A j \in Jobs : (Present # {} /\ j \in Queued) ~> (j \notin Queued)

\* After shutdown every worker thread ends: none sleeps for ever on the queue.
WorkersEnd == (stopper = "returned") ~> (\A w \in Present : worker[w] = "exited")
--------------------------------------------------------------------------------
\* The executor implements the promise of JobOutcomes.
FateOf(j) ==
  CASE j \in SentEvents -> "emitted"
    [] j \in refused -> "refused"
    [] j \notin accepted \cup refused -> "unsubmitted"
    [] j \in Queued \/ (\E w \in Workers : held[w] = j) -> "accepted"
    [] OTHER -> "discarded"

Promise == INSTANCE JobOutcomes WITH fate <- [j \in Jobs |-> FateOf(j)], sent <- emitted

\* Every job is refused or settled at most once, and its event sent at most
\* once: the executor's steps are steps of JobOutcomes.
PromiseKept == Promise!Spec
================================================================================
