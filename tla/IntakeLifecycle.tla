-------------------------- MODULE IntakeLifecycle --------------------------
(***************************************************************************)
(* The shared lifecycle of one received document, as                       *)
(* src/server/documents/intake-lifecycle.ts projects it.  Four rows tell   *)
(* the same story to four audiences: the DocumentIntake, the import of the *)
(* transport that brought the bytes (a Zotero attachment import or a       *)
(* crawler import; a browser upload has none), the ImportBatch (the schema *)
(* lets it be absent) and the InboxEntry.  A projection moves all four in  *)
(* one transaction, or refuses and moves none.  This module is pure: a     *)
(* life is a record, a projection is a function from lives to lives.       *)
(***************************************************************************)
EXTENDS Naturals

Sources == {"BROWSER_UPLOAD", "ZOTERO_ATTACHMENT", "CRAWLER"}

IntakeStatuses == {"RESERVED", "QUEUED", "RECEIVING", "QUARANTINED",
                   "VALIDATING", "EXTRACTING", "READY", "ATTENTION",
                   "FAILED", "CANCEL_REQUESTED", "CANCELLED"}
ImportStatuses == {"NONE", "QUEUED", "FETCHING", "DOWNLOADING", "QUARANTINED",
                   "VALIDATING", "EXTRACTING", "READY", "ATTENTION",
                   "FAILED", "CANCELLED"}
BatchStatuses == {"NONE", "RUNNING", "SUCCEEDED", "PARTIAL", "FAILED", "CANCELLED"}
InboxStatuses == {"PENDING", "NEEDS_REVIEW", "IMPORTED", "FAILED", "REJECTED"}

Lives == [intake : IntakeStatuses, import : ImportStatuses,
          batch : BatchStatuses, inbox : InboxStatuses]

Stages == {"validation-claim", "validation-retry", "validation-accepted",
           "validation-failed", "extraction-claim", "extraction-retry",
           "extraction-ready", "extraction-attention"}

(***************************************************************************)
(* The table of desiredLifecycle.  The import goes to the same status as   *)
(* the intake, from the same set of statuses.                              *)
(***************************************************************************)
Desired == [stage \in Stages |->
  CASE stage \in {"validation-claim", "validation-retry"} ->
         [to |-> "VALIDATING", from |-> {"QUARANTINED", "VALIDATING"},
          batch |-> "RUNNING", batchFrom |-> {"RUNNING"},
          inboxFrom |-> {"NEEDS_REVIEW"}]
    [] stage = "validation-accepted" ->
         [to |-> "EXTRACTING", from |-> {"VALIDATING", "EXTRACTING"},
          batch |-> "RUNNING", batchFrom |-> {"RUNNING"},
          inboxFrom |-> {"NEEDS_REVIEW"}]
    [] stage \in {"extraction-claim", "extraction-retry"} ->
         [to |-> "EXTRACTING", from |-> {"EXTRACTING", "ATTENTION"},
          batch |-> "RUNNING", batchFrom |-> {"RUNNING", "PARTIAL"},
          inboxFrom |-> {"NEEDS_REVIEW", "IMPORTED"}]
    [] stage = "validation-failed" ->
         [to |-> "FAILED", from |-> {"QUARANTINED", "VALIDATING", "ATTENTION"},
          batch |-> "FAILED", batchFrom |-> {"RUNNING"},
          inboxFrom |-> {"PENDING", "NEEDS_REVIEW"}]
    [] stage = "extraction-ready" ->
         [to |-> "READY", from |-> {"EXTRACTING"},
          batch |-> "SUCCEEDED", batchFrom |-> {"RUNNING"},
          inboxFrom |-> {"NEEDS_REVIEW", "IMPORTED"}]
    [] stage = "extraction-attention" ->
         [to |-> "ATTENTION", from |-> {"EXTRACTING"},
          batch |-> "PARTIAL", batchFrom |-> {"RUNNING"},
          inboxFrom |-> {"NEEDS_REVIEW", "IMPORTED"}]]

\* The projection returns true: every row it would move is where it must be.
Projectable(stage, source, l) ==
  /\ l.intake \in Desired[stage].from
  /\ l.inbox \in Desired[stage].inboxFrom
  /\ l.batch # "NONE" => l.batch \in Desired[stage].batchFrom
  /\ source # "BROWSER_UPLOAD" => l.import \in Desired[stage].from

\* What the four rows become.  An inbox entry the user has already imported
\* stays imported; only a failed validation fails it.
Projected(stage, source, l) ==
  [intake |-> Desired[stage].to,
   import |-> IF source = "BROWSER_UPLOAD" THEN l.import ELSE Desired[stage].to,
   batch  |-> IF l.batch = "NONE" THEN "NONE" ELSE Desired[stage].batch,
   inbox  |-> IF stage = "validation-failed" THEN "FAILED"
              ELSE IF l.inbox = "IMPORTED" THEN "IMPORTED" ELSE "NEEDS_REVIEW"]

\* Wrong on purpose: the caller forgets to project.
ProjectionSkipped(stage, source, l) == l

\* A caller that goes on when the projection returns false.
ProjectedIfAllowed(stage, source, l) ==
  IF Projectable(stage, source, l) THEN Projected(stage, source, l) ELSE l

(***************************************************************************)
(* The transitions the DocumentIntake_update_guard trigger admits; any     *)
(* other change of status raises DocumentIntake_status_transition_check    *)
(* and aborts the transaction.                                             *)
(***************************************************************************)
Withdrawals == {"FAILED", "CANCEL_REQUESTED", "CANCELLED"}

IntakeSuccessors(s) ==
  CASE s = "RESERVED"         -> {"QUEUED", "RECEIVING"} \cup Withdrawals
    [] s = "QUEUED"           -> {"RECEIVING"} \cup Withdrawals
    [] s = "RECEIVING"        -> {"QUARANTINED"} \cup Withdrawals
    [] s = "QUARANTINED"      -> {"VALIDATING"} \cup Withdrawals
    [] s = "VALIDATING"       -> {"EXTRACTING", "ATTENTION"} \cup Withdrawals
    [] s = "EXTRACTING"       -> {"READY", "ATTENTION"} \cup Withdrawals
    [] s = "ATTENTION"        -> {"VALIDATING", "EXTRACTING", "READY"} \cup Withdrawals
    [] s = "CANCEL_REQUESTED" -> {"CANCELLED", "FAILED"}
    [] OTHER                  -> {}

IntakeStepAllowed(s, t) == s = t \/ t \in IntakeSuccessors(s)
=============================================================================
