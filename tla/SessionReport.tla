----------------------------- MODULE SessionReport -----------------------------
(***************************************************************************)
(* What happens to a session when it has ended: its finalizers run one     *)
(* after the other, each in a thread of its own and with a deadline; the   *)
(* first judges the quality and stores it with the session, the second     *)
(* has the session pushed to the configured addresses by yet another       *)
(* thread (run_finalizers_with_timeout in crates/talksage-plugins/src/     *)
(* registry.rs, crates/talksage-pipeline/src/finalize.rs, SessionMeta in   *)
(* crates/talksage-session/src/lib.rs, crates/talksage-core/src/           *)
(* webhook.rs).                                                            *)
(*                                                                         *)
(* Optional values are sets of at most one element.  Of the judgement only  *)
(* that it is one of several verdicts is modelled, not which.              *)
(***************************************************************************)
EXTENDS Naturals, Sequences, FiniteSets

CONSTANTS
  Verdicts,             \* what SessionMeta::evaluate may make of a session
  Settings,             \* webhook settings: [on, urls]
  Private,              \* addresses that are not to be called
  MaxChanges            \* of the webhook settings

ASSUME SettingsAssumption == Settings \subseteq [on : BOOLEAN, urls : Seq(STRING)]

VARIABLES
  measured,             \* the session's streams have left their statistics
  hooks,                \* the webhook settings
  changes,
  chain,                \* the finalizers still to run, the first perhaps running
  thread,               \* of each: idle, running, done, failed
  outcome,              \* what the chain has written down of each
  judged, stored,       \* the verdict, and the one in the session's row
  trouble,              \* the verdict could not be written
  pusher,               \* none, started, or the row that it read
  sent                  \* what the addresses were sent

reportVars == <<measured, hooks, changes, chain, thread, outcome, judged, stored, trouble, pusher, sent>>

\* The order that the descriptors ask for: the webhook after the quality.
Finalizers == <<"quality", "webhook">>

ReportInit ==
  /\ measured \in BOOLEAN
  /\ hooks \in Settings /\ changes = 0
  /\ chain \in {Finalizers, <<"quality">>, <<"webhook">>}
  /\ thread = [f \in {"quality", "webhook"} |-> "idle"]
  /\ outcome = [f \in {"quality", "webhook"} |-> "none"]
  /\ judged = {} /\ stored = {} /\ trouble = FALSE /\ pusher = {} /\ sent = <<>>
--------------------------------------------------------------------------------
Runs(f) == thread[f] = "running"
Awaited(f) == chain # <<>> /\ Head(chain) = f /\ Runs(f)

\* A thread that cannot be started is a failure; the next one's turn comes.
Spawn ==
  /\ chain # <<>> /\ thread[Head(chain)] = "idle"
  /\ \/ thread' = [thread EXCEPT ![Head(chain)] = "running"] /\ UNCHANGED <<chain, outcome>>
     \/ /\ chain' = Tail(chain) /\ outcome' = [outcome EXCEPT ![Head(chain)] = "failed"]
        /\ UNCHANGED thread
  /\ UNCHANGED <<measured, hooks, changes, judged, stored, trouble, pusher, sent>>

\* Mutant: the chain goes on without waiting.
WaitForNone ==
  /\ chain # <<>> /\ thread[Head(chain)] # "idle"
  /\ chain' = Tail(chain)
  /\ outcome' = [outcome EXCEPT ![Head(chain)] =
                   IF thread[Head(chain)] = "failed" THEN "failed" ELSE "completed"]
  /\ UNCHANGED <<measured, hooks, changes, thread, judged, stored, trouble, pusher, sent>>

\* recv_timeout: the thread has ended, by a panic too, or the deadline is over,
\* and the thread goes on by itself.
Wait ==
  /\ chain # <<>> /\ thread[Head(chain)] # "idle"
  /\ chain' = Tail(chain)
  /\ outcome' = [outcome EXCEPT ![Head(chain)] =
                   CASE thread[Head(chain)] = "done" -> "completed"
                     [] thread[Head(chain)] = "failed" -> "failed"
                     [] OTHER -> "late"]
  /\ UNCHANGED <<measured, hooks, changes, thread, judged, stored, trouble, pusher, sent>>

\* QualityHost::evaluate_and_store: nothing to judge without streams.
Judge ==
  /\ Runs("quality") /\ judged = {}
  /\ IF ~measured THEN thread' = [thread EXCEPT !["quality"] = "done"] /\ UNCHANGED judged
     ELSE \/ \E verdict \in Verdicts : judged' = {verdict} /\ UNCHANGED thread
          \/ thread' = [thread EXCEPT !["quality"] = "failed"] /\ UNCHANGED judged
  /\ UNCHANGED <<measured, hooks, changes, chain, outcome, stored, trouble, pusher, sent>>

\* A row that cannot be written is a warning, not a failure.
Store ==
  /\ Runs("quality") /\ judged # {}
  /\ \/ stored' = judged /\ UNCHANGED trouble
     \/ trouble' = TRUE /\ UNCHANGED stored
  /\ thread' = [thread EXCEPT !["quality"] = "done"]
  /\ UNCHANGED <<measured, hooks, changes, chain, outcome, judged, pusher, sent>>

Ready(h) == h.on /\ h.urls # <<>>

\* WebhookHost::push: the settings are those of this moment; the sending is a
\* thread of its own, which nobody waits for.
HandOver ==
  /\ Runs("webhook")
  /\ \/ /\ thread' = [thread EXCEPT !["webhook"] = "done"]
        /\ pusher' = IF Ready(hooks) THEN {[urls |-> hooks.urls, row |-> "unread"]} ELSE {}
     \/ thread' = [thread EXCEPT !["webhook"] = "failed"] /\ UNCHANGED pusher
  /\ UNCHANGED <<measured, hooks, changes, chain, outcome, judged, stored, trouble, sent>>

\* The thread reads the row as it is by then; a row that is gone is not sent.
ReadRow ==
  /\ \E p \in pusher :
       /\ p.row = "unread"
       /\ pusher' \in {{}, {[urls |-> p.urls, row |-> "read", meta |-> stored]}}
  /\ UNCHANGED <<measured, hooks, changes, chain, thread, outcome, judged, stored, trouble, sent>>

\* trigger_webhooks: each address in turn, whatever became of the one before.
SendOne ==
  /\ \E p \in pusher :
       /\ p.row = "read" /\ p.urls # <<>>
       /\ \E ok \in BOOLEAN :
            /\ Head(p.urls) \in Private => ~ok
            /\ sent' = Append(sent, [url |-> Head(p.urls), ok |-> ok, meta |-> p.meta])
       /\ pusher' = {[p EXCEPT !.urls = Tail(@)]}
  /\ UNCHANGED <<measured, hooks, changes, chain, thread, outcome, judged, stored, trouble>>

\* The settings may change at any time.
Configure ==
  /\ changes < MaxChanges /\ changes' = changes + 1
  /\ hooks' \in Settings \ {hooks}
  /\ UNCHANGED <<measured, chain, thread, outcome, judged, stored, trouble, pusher, sent>>

ReportNext ==
  \/ Spawn \/ Wait \/ Judge \/ Store \/ HandOver \/ ReadRow \/ SendOne \/ Configure

ReportSpec == ReportInit /\ [][ReportNext]_reportVars
--------------------------------------------------------------------------------
\* What is pushed carries the verdict that the session's row has in the end, if
\* the quality was judged in time and could be written: the order of the chain is
\* what makes that so, and the only thing (finalize.rs:107-113, registry.rs:
\* 411-460).
PushedWithQuality ==
  \A i \in DOMAIN sent :
    outcome["quality"] = "completed" /\ ~trouble => sent[i].meta = stored /\ stored = judged
================================================================================
