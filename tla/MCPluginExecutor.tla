--------------------------- MODULE MCPluginExecutor ---------------------------
(***************************************************************************)
(* PluginExecutor for TLC.  The liveness properties that need the plugins  *)
(* to return state that as a premise, so that one run under the            *)
(* scheduler's fairness alone checks everything.                           *)
(***************************************************************************)
EXTENDS PluginExecutor

\* As long as plugin calls return, every accepted job is served.
QueueIsServedIfPluginsReturn == PluginsReturn => QueueIsServed

\* As long as plugin calls return, no worker thread outlives the session.
WorkersEndIfPluginsReturn == PluginsReturn => WorkersEnd

\* The shutdown returns whatever the plugins do; and as long as they return, no
\* wake-up is lost and no thread sleeps for ever (plugin_executor.rs:117, 161-190).
ExecutorGoesOn == ShutdownReturns /\ QueueIsServedIfPluginsReturn /\ WorkersEndIfPluginsReturn
================================================================================
