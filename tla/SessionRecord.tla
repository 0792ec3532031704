----------------------------- MODULE SessionRecord -----------------------------
(***************************************************************************)
(* What the record of a session promises to the history view and to        *)
(* webhooks, without the threads behind it: rows are only appended, and    *)
(* only until the record is sealed at the end of the session; the quality  *)
(* report is attached to a sealed record, once; and what a webhook is      *)
(* given are all the rows that the sealed record will ever have.           *)
(***************************************************************************)
EXTENDS Sequences

CONSTANTS Rows, None

VARIABLES
  sealed,               \* the session is over, for the database
  rows,                 \* its rows, in the order of insertion
  report,               \* sessions.meta
  payload               \* the rows a webhook was given, or None

vars == <<sealed, rows, report, payload>>

Init == sealed = FALSE /\ rows = <<>> /\ report = None /\ payload = None

AppendRow(r) ==
  /\ ~sealed
  /\ rows' = Append(rows, r)
  /\ UNCHANGED <<sealed, report, payload>>

Seal ==
  /\ ~sealed /\ sealed' = TRUE
  /\ UNCHANGED <<rows, report, payload>>

AttachReport ==
  /\ sealed /\ report = None
  /\ report' # None
  /\ UNCHANGED <<sealed, rows, payload>>

Publish ==
  /\ sealed /\ payload = None
  /\ payload' = rows
  /\ UNCHANGED <<sealed, rows, report>>

Next ==
  \/ \E r \in Rows : AppendRow(r)
  \/ Seal
  \/ AttachReport
  \/ Publish

Spec == Init /\ [][Next]_vars
================================================================================
