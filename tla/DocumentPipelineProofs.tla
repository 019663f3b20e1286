----------------------- MODULE DocumentPipelineProofs -----------------------
(***************************************************************************)
(* Proofs about the document pipeline, for every set of documents, workers *)
(* and papers, every skew and every budget.                                *)
(***************************************************************************)
EXTENDS DocumentPipelineProperties, TLAPS

-----------------------------------------------------------------------------
(* The inductive invariant.  The ledger and the evidence are not inductive  *)
(* alone: that a fresh job finds no row, and that only the holder of a      *)
(* running attempt settles it, has to be carried along.                     *)

\* Bytes still on their way have no validation job yet, and a job that does
\* not exist has used no attempt.
JobsStartClean ==
  \A d \in Docs :
    /\ life[d].intake = "RECEIVING" => vjob[d].status = "NONE"
    /\ vjob[d].status = "NONE" => vjob[d].attempts = 0
    /\ xjob[d].status = "NONE" => xjob[d].attempts = 0

\* A worker that is not idle holds an attempt of a document, and a validator
\* that completes has a verdict.
HandsAreFull ==
  /\ \A w \in ValWorkers : vheld[w].phase # "idle" =>
       vheld[w].doc \in Docs /\ vheld[w].n \in 1..MaxAttempts
  /\ \A w \in ExtWorkers : xheld[w].phase # "idle" =>
       xheld[w].doc \in Docs /\ xheld[w].n \in 1..MaxAttempts
  /\ \A w \in ValWorkers : vheld[w].phase = "completing" => vheld[w].result \in Verdicts

IInv == TypeOK /\ LedgerAgrees /\ EvidenceAgrees /\ JobsStartClean /\ HandsAreFull
-----------------------------------------------------------------------------
(* The operators the actions are built from keep to their types.           *)

\* A job built by Job or Leased has the fields of a Job row.
LEMMA JobTypes ==
  /\ \A status \in JobStatuses, attempts \in 0..MaxAttempts, wait \in Int :
       Job(status, attempts, wait) \in Jobs
  /\ \A job \in Jobs, status \in JobStatuses : Job(status, job.attempts, 0) \in Jobs
  /\ \A n \in 0..MaxAttempts, l \in LeaseIds, w \in ValWorkers \cup ExtWorkers, left \in Int :
       Leased(n, l, w, left) \in Jobs
BY DEF Job, Leased, Jobs, JobStatuses

\* What a claim or a turn leaves in a worker's hands is a claim record.
LEMMA HeldTypes ==
  /\ Idle \in Holds
  /\ \A phase \in {"working", "completing", "failing", "deferring"}, d \in Docs,
        l \in LeaseIds, n \in 0..MaxAttempts :
       Held(phase, d, l, n, "NONE") \in Holds
  /\ \A h \in Holds, phase \in {"completing", "failing", "deferring"},
        result \in {"NONE"} \cup Verdicts \cup ValFailures \cup ExtFailures :
       Turned(h, phase, result) \in Holds
<1> USE DEF Held, Holds
<1>1. Idle \in Holds
  BY BoundsAssumption DEF Idle
<1>2. \A phase \in {"working", "completing", "failing", "deferring"}, d \in Docs,
        l \in LeaseIds, n \in 0..MaxAttempts :
       Held(phase, d, l, n, "NONE") \in Holds
  OBVIOUS
<1>3. \A h \in Holds, phase \in {"completing", "failing", "deferring"},
        result \in {"NONE"} \cup Verdicts \cup ValFailures \cup ExtFailures :
       Turned(h, phase, result) \in Holds
  BY DEF Turned
<1> QED
  BY <1>1, <1>2, <1>3

\* A projection gives four statuses of the schema.
LEMMA ProjectedTypes ==
  ASSUME NEW stage \in Stages, NEW source, NEW l \in Lives
  PROVE  /\ Projected(stage, source, l) \in Lives
         /\ ProjectedIfAllowed(stage, source, l) \in Lives
<1>1. Desired[stage].to \in {"VALIDATING", "EXTRACTING", "FAILED", "READY", "ATTENTION"}
  BY DEF Desired, Stages
<1>2. Desired[stage].batch \in {"RUNNING", "FAILED", "SUCCEEDED", "PARTIAL"}
  BY DEF Desired, Stages
<1>3. Projected(stage, source, l) \in Lives
  BY <1>1, <1>2 DEF Projected, Lives, IntakeStatuses, ImportStatuses, BatchStatuses, InboxStatuses
<1> QED
  BY <1>3 DEF ProjectedIfAllowed

\* An identifier drawn is one of the identifiers.
LEMMA FreshLeaseType == FreshLeases # {} => FreshLease \in LeaseIds \ UsedLeases
BY DEF FreshLeases, FreshLease

\* Closing a reaped attempt keeps a ledger a ledger.
LEMMA ReapedTypes ==
  ASSUME NEW job \in Jobs, NEW rows \in [1..MaxAttempts -> Rows], NEW status \in RowStatuses
  PROVE  Reaped(job, rows, status) \in [1..MaxAttempts -> Rows]
BY DEF Reaped, Row, Rows, Jobs
-----------------------------------------------------------------------------
(* Each way in which a transaction rewrites a job and its rows keeps the   *)
(* ledger: stated of one job and its rows, for both job types.             *)

\* A claim adds one running attempt and closes the one it takes over.
LEMMA LedgerClaimed ==
  ASSUME NEW job \in Jobs, NEW rows \in [1..MaxAttempts -> Rows], Ledger(job, rows),
         job.status \in Waiting \cup {"RUNNING"}, ~Exhausted(job),
         NEW l \in LeaseIds, NEW w \in ValWorkers \cup ExtWorkers, NEW left \in Int
  PROVE  LET n == job.attempts + 1
             claimed == [Reaped(job, rows, "FAILED") EXCEPT ![n] = Row("RUNNING", l)]
         IN  /\ n \in 1..MaxAttempts
             /\ Leased(n, l, w, left) \in Jobs
             /\ claimed \in [1..MaxAttempts -> Rows]
             /\ Ledger(Leased(n, l, w, left), claimed)
<1> DEFINE n == job.attempts + 1
           reaped == Reaped(job, rows, "FAILED")
<1>1. n \in 1..MaxAttempts
  BY BoundsAssumption DEF Jobs, Exhausted
<1>2. Leased(n, l, w, left) \in Jobs
  BY <1>1, JobTypes
<1>3. reaped \in [1..MaxAttempts -> Rows]
  BY ReapedTypes, BoundsAssumption DEF RowStatuses
<1>4. Row("RUNNING", l) \in Rows
  BY DEF Row, Rows, RowStatuses
<1>5. \A k \in 1..MaxAttempts :
        /\ reaped[k].status # "NONE" <=> k <= job.attempts
        /\ reaped[k].status \notin {"RUNNING", "SUCCEEDED"}
  <2>1. CASE job.status = "RUNNING"
    BY <2>1 DEF Reaped, Ledger, Row, Jobs, Waiting, Rows
  <2>2. CASE job.status # "RUNNING"
    BY <2>2 DEF Reaped, Ledger, Waiting
  <2> QED
    BY <2>1, <2>2
<1>6. Ledger(Leased(n, l, w, left), [reaped EXCEPT ![n] = Row("RUNNING", l)])
  <2> DEFINE claimed == [reaped EXCEPT ![n] = Row("RUNNING", l)]
  <2>1. /\ claimed[n] = Row("RUNNING", l)
        /\ \A k \in 1..MaxAttempts : k # n => claimed[k] = reaped[k]
    BY <1>1, <1>3
  <2>2. n \in Nat /\ \A k \in 1..MaxAttempts : k <= n <=> k <= job.attempts \/ k = n
    BY DEF Jobs
  <2> HIDE DEF n, reaped, claimed
  <2>3. l # None /\ n > 0
    BY <1>1, NoneAssumption
  <2>4. Ledger(Leased(n, l, w, left), claimed)
    BY <1>1, <1>5, <2>1, <2>2, <2>3 DEF Ledger, Leased, Row, Waiting
  <2> QED
    BY <2>4 DEF claimed
<1> QED
  BY <1>1, <1>2, <1>3, <1>4, <1>6

\* A claim that gives the job up closes the attempt it takes over.
LEMMA LedgerGivenUp ==
  ASSUME NEW job \in Jobs, NEW rows \in [1..MaxAttempts -> Rows], Ledger(job, rows),
         job.status \in Waiting \cup {"RUNNING"}, NEW status \in {"FAILED", "DEAD_LETTER"}
  PROVE  /\ Job("DEAD_LETTER", job.attempts, 0) \in Jobs
         /\ Reaped(job, rows, status) \in [1..MaxAttempts -> Rows]
         /\ Ledger(Job("DEAD_LETTER", job.attempts, 0), Reaped(job, rows, status))
<1>1. Job("DEAD_LETTER", job.attempts, 0) \in Jobs
  BY JobTypes DEF JobStatuses, Settled
<1>2. Reaped(job, rows, status) \in [1..MaxAttempts -> Rows]
  BY ReapedTypes DEF RowStatuses
<1>3. CASE job.status = "RUNNING"
  BY <1>1, <1>2, <1>3 DEF Reaped, Ledger, Row, Jobs, Waiting, Rows, Job
<1>4. CASE job.status # "RUNNING"
  BY <1>1, <1>2, <1>4 DEF Reaped, Ledger, Waiting, Job
<1> QED
  BY <1>1, <1>2, <1>3, <1>4

\* The holder of the running attempt settles it, or sends the job to a retry.
LEMMA LedgerClosed ==
  ASSUME NEW job \in Jobs, NEW rows \in [1..MaxAttempts -> Rows], Ledger(job, rows),
         job.status = "RUNNING", NEW wait \in Int,
         NEW js, NEW rs,
         \/ js = "SUCCEEDED" /\ rs = "SUCCEEDED"
         \/ js = "DEAD_LETTER" /\ rs = "DEAD_LETTER"
         \/ js = "RETRYING" /\ rs = "FAILED" /\ ~Exhausted(job)
  PROVE  LET closed == [rows EXCEPT ![job.attempts] = Row(rs, job.lease)]
         IN  /\ Job(js, job.attempts, wait) \in Jobs
             /\ closed \in [1..MaxAttempts -> Rows]
             /\ Ledger(Job(js, job.attempts, wait), closed)
<1>1. Job(js, job.attempts, wait) \in Jobs
  BY JobTypes DEF Jobs, JobStatuses, Settled, Waiting
<1>2. Row(rs, job.lease) \in Rows
  BY DEF Row, Rows, RowStatuses, Jobs
<1>3. Ledger(Job(js, job.attempts, wait), [rows EXCEPT ![job.attempts] = Row(rs, job.lease)])
  BY DEF Ledger, Job, Row, Waiting, Exhausted, Jobs
<1> QED
  BY <1>1, <1>2, <1>3

\* A deferral takes the running attempt back.
LEMMA LedgerDeferred ==
  ASSUME NEW job \in Jobs, NEW rows \in [1..MaxAttempts -> Rows], Ledger(job, rows),
         job.status = "RUNNING", NEW wait \in Int
  PROVE  LET taken == [rows EXCEPT ![job.attempts] = NoRow]
         IN  /\ Job("RETRYING", job.attempts - 1, wait) \in Jobs
             /\ taken \in [1..MaxAttempts -> Rows]
             /\ Ledger(Job("RETRYING", job.attempts - 1, wait), taken)
<1>1. job.attempts - 1 \in 0..MaxAttempts
  BY BoundsAssumption DEF Jobs, Ledger
<1>2. Job("RETRYING", job.attempts - 1, wait) \in Jobs
  BY <1>1, JobTypes DEF JobStatuses, Waiting
<1>3. NoRow \in Rows
  BY DEF NoRow, Row, Rows, RowStatuses
<1>4. Ledger(Job("RETRYING", job.attempts - 1, wait), [rows EXCEPT ![job.attempts] = NoRow])
  BY <1>1, BoundsAssumption DEF Ledger, Job, NoRow, Row, Waiting, Exhausted, Jobs
<1> QED
  BY <1>2, <1>3, <1>4

\* A cancellation cancels the running attempt with its job.
LEMMA LedgerCancelled ==
  ASSUME NEW job \in Jobs, NEW rows \in [1..MaxAttempts -> Rows], Ledger(job, rows)
  PROVE  /\ Cancelled(job) \in Jobs
         /\ CancelledRows(rows) \in [1..MaxAttempts -> Rows]
         /\ Ledger(Cancelled(job), CancelledRows(rows))
<1>1. Job("CANCELLED", job.attempts, 0) \in Jobs
  BY JobTypes DEF JobStatuses, Settled
<1>2. CancelledRows(rows) \in [1..MaxAttempts -> Rows]
  BY DEF CancelledRows, Row, Rows, RowStatuses
<1>3. \A n \in 1..MaxAttempts :
        /\ CancelledRows(rows)[n].status # "RUNNING"
        /\ CancelledRows(rows)[n].status = "NONE" <=> rows[n].status = "NONE"
        /\ CancelledRows(rows)[n].status = "SUCCEEDED" <=> rows[n].status = "SUCCEEDED"
  BY DEF CancelledRows, Row
<1>4. CASE job.status \in Waiting \cup {"RUNNING"}
  BY <1>1, <1>2, <1>3, <1>4 DEF Cancelled, Ledger, Job, Waiting
<1>5. CASE job.status \notin Waiting \cup {"RUNNING"}
  BY <1>2, <1>3, <1>5 DEF Cancelled, Ledger
<1> QED
  BY <1>1, <1>2, <1>4, <1>5

\* The clock and a heartbeat move countdowns only.
LEMMA LedgerAged ==
  ASSUME NEW job \in Jobs, NEW rows, Ledger(job, rows)
  PROVE  /\ Aged(job) \in Jobs /\ Ledger(Aged(job), rows)
         /\ \A left \in Int : LET renewed == [job EXCEPT !.left = left]
                              IN  renewed \in Jobs /\ Ledger(renewed, rows)
<1>1. \A x \in Int : Down(x) \in Int
  BY BoundsAssumption DEF Down
<1>2. Aged(job) \in Jobs
  BY <1>1 DEF Aged, Jobs
<1>3. Ledger(Aged(job), rows)
  BY DEF Aged, Ledger, Exhausted, Jobs
<1>4. \A left \in Int : LET renewed == [job EXCEPT !.left = left]
                        IN  renewed \in Jobs /\ Ledger(renewed, rows)
  BY DEF Jobs, Ledger, Exhausted
<1> QED
  BY <1>2, <1>3, <1>4
-----------------------------------------------------------------------------
(* One step at a time.  A transaction rewrites one document's validation   *)
(* side or extraction side, and leaves the other documents alone.          *)

LEMMA ValidationRewritten ==
  ASSUME TypeOK, LedgerAgrees, NEW d \in Docs, NEW job \in Jobs,
         NEW rows \in [1..MaxAttempts -> Rows], Ledger(job, rows),
         vjob' = [vjob EXCEPT ![d] = job], vrow' = [vrow EXCEPT ![d] = rows],
         \A e \in Docs : Ledger(xjob[e], xrow[e])'
  PROVE  /\ vjob' \in [Docs -> Jobs] /\ vrow' \in [Docs -> [1..MaxAttempts -> Rows]]
         /\ LedgerAgrees'
         /\ vjob'[d] = job /\ vrow'[d] = rows
         /\ \A e \in Docs : e # d => vjob'[e] = vjob[e] /\ vrow'[e] = vrow[e]
BY DEF TypeOK, LedgerAgrees

LEMMA ExtractionRewritten ==
  ASSUME TypeOK, LedgerAgrees, NEW d \in Docs, NEW job \in Jobs,
         NEW rows \in [1..MaxAttempts -> Rows], Ledger(job, rows),
         xjob' = [xjob EXCEPT ![d] = job], xrow' = [xrow EXCEPT ![d] = rows],
         \A e \in Docs : Ledger(vjob[e], vrow[e])'
  PROVE  /\ xjob' \in [Docs -> Jobs] /\ xrow' \in [Docs -> [1..MaxAttempts -> Rows]]
         /\ LedgerAgrees'
         /\ xjob'[d] = job /\ xrow'[d] = rows
         /\ \A e \in Docs : e # d => xjob'[e] = xjob[e] /\ xrow'[e] = xrow[e]
BY DEF TypeOK, LedgerAgrees

\* What complete, fail and defer know when they write.
LEMMA OwnsLast ==
  ASSUME NEW job, NEW rows, NEW h, NEW w, NEW skew, Owns(job, rows, h, w, skew)
  PROVE  job.status = "RUNNING" /\ h.lease = job.lease /\ h.n = job.attempts
BY DEF Owns, LeaseLive

\* A step that only changes what workers hold.
LEMMA HandsOnly ==
  ASSUME IInv, UNCHANGED database, HandsAreFull',
         vheld' \in [ValWorkers -> Holds], xheld' \in [ExtWorkers -> Holds]
  PROVE  IInv'
<1> USE DEF IInv, database
<1>1. TypeOK'
  BY DEF TypeOK
<1>2. LedgerAgrees'
  BY DEF LedgerAgrees, Ledger
<1>3. EvidenceAgrees'
  BY DEF EvidenceAgrees
<1>4. JobsStartClean'
  BY DEF JobsStartClean
<1> QED
  BY <1>1, <1>2, <1>3, <1>4

\* A validator turns to its next phase, or lets go.
LEMMA ValidatorTurns ==
  ASSUME IInv, NEW w \in ValWorkers, NEW h \in Holds, vheld[w].phase # "idle",
         UNCHANGED <<database, xheld>>, vheld' = [vheld EXCEPT ![w] = h],
         \/ h = Idle
         \/ h = Turned(vheld[w], "failing", h.result)
         \/ h = Turned(vheld[w], "completing", h.result) /\ h.result \in Verdicts
  PROVE  IInv'
<1>1. vheld' \in [ValWorkers -> Holds] /\ xheld' \in [ExtWorkers -> Holds]
  BY DEF IInv, TypeOK
<1>2. HandsAreFull'
  BY DEF IInv, TypeOK, HandsAreFull, Idle, Turned, Held
<1> QED
  BY <1>1, <1>2, HandsOnly

\* An extractor turns to its next phase, or lets go.
LEMMA ExtractorTurns ==
  ASSUME IInv, NEW w \in ExtWorkers, NEW h \in Holds, xheld[w].phase # "idle",
         UNCHANGED <<database, vheld>>, xheld' = [xheld EXCEPT ![w] = h],
         \/ h = Idle
         \/ \E phase \in {"completing", "failing", "deferring"} :
              h = Turned(xheld[w], phase, h.result)
  PROVE  IInv'
<1>1. vheld' \in [ValWorkers -> Holds] /\ xheld' \in [ExtWorkers -> Holds]
  BY DEF IInv, TypeOK
<1>2. HandsAreFull'
  BY DEF IInv, TypeOK, HandsAreFull, Idle, Turned, Held
<1> QED
  BY <1>1, <1>2, HandsOnly
-----------------------------------------------------------------------------
(* The validation job.                                                     *)

LEMMA AdmitStep ==
  ASSUME IInv, NEW d \in Docs, Admit(d)
  PROVE  IInv'
<1> USE DEF IInv
<1> DEFINE job == Job("QUEUED", 0, 0)
<1>1. vjob[d].status = "NONE" /\ vjob[d].attempts = 0
  BY DEF Admit, JobsStartClean
<1>2. job \in Jobs
  BY JobTypes, BoundsAssumption DEF JobStatuses, Waiting
<1>3. Ledger(job, vrow[d])
  BY <1>1, BoundsAssumption DEF LedgerAgrees, Ledger, Job, Waiting, Exhausted
<1>4. vjob' = [vjob EXCEPT ![d] = job] /\ vrow' = [vrow EXCEPT ![d] = vrow[d]]
  BY DEF Admit, TypeOK
<1>5. vrow[d] \in [1..MaxAttempts -> Rows]
  BY DEF TypeOK
<1>6. \A e \in Docs : Ledger(xjob[e], xrow[e])'
  BY DEF Admit, LedgerAgrees, Ledger
<1>7. /\ vjob' \in [Docs -> Jobs] /\ vrow' \in [Docs -> [1..MaxAttempts -> Rows]]
      /\ LedgerAgrees'
      /\ vjob'[d] = job
      /\ \A e \in Docs : e # d => vjob'[e] = vjob[e]
  BY <1>2, <1>3, <1>4, <1>5, <1>6, ValidationRewritten
<1>8. life' \in [Docs -> Lives]
  <2> DEFINE import == IF SourceOf[d] = "BROWSER_UPLOAD" THEN "NONE" ELSE "QUARANTINED"
  <2>1. life' = [life EXCEPT ![d] = [@ EXCEPT !.intake = "QUARANTINED", !.import = import]]
    BY DEF Admit
  <2>2. [life[d] EXCEPT !.intake = "QUARANTINED", !.import = import] \in Lives
    <3>1. import \in ImportStatuses /\ "QUARANTINED" \in IntakeStatuses
      BY DEF IntakeStatuses, ImportStatuses
    <3>2. life[d] \in Lives
      BY DEF TypeOK
    <3> HIDE DEF import
    <3> QED
      BY <3>1, <3>2 DEF Lives
  <2> QED
    BY <2>1, <2>2 DEF TypeOK
<1>9. TypeOK'
  BY <1>7, <1>8 DEF Admit, TypeOK
<1>10. EvidenceAgrees'
  BY <1>1, <1>7 DEF Admit, EvidenceAgrees, Job
<1>11. JobsStartClean'
  BY <1>7 DEF Admit, JobsStartClean, Job, TypeOK, Lives
<1>12. HandsAreFull'
  BY DEF Admit, HandsAreFull
<1> QED
  BY <1>7, <1>9, <1>10, <1>11, <1>12

LEMMA ClaimValidationStep ==
  ASSUME IInv, NEW w \in ValWorkers, NEW d \in Docs, ClaimValidation(w, d)
  PROVE  IInv'
<1> USE DEF IInv
<1> DEFINE n == vjob[d].attempts + 1
           l == FreshLease
           job == Leased(n, l, w, LeaseTtl + Skew[w])
           rows == [Reaped(vjob[d], vrow[d], "FAILED") EXCEPT ![n] = Row("RUNNING", l)]
<1>1. vjob[d] \in Jobs /\ vrow[d] \in [1..MaxAttempts -> Rows] /\ Ledger(vjob[d], vrow[d])
  BY DEF TypeOK, LedgerAgrees
<1>2. vjob[d].status \in Waiting \cup {"RUNNING"} /\ ~Exhausted(vjob[d])
  BY DEF ClaimValidation, Due, ValidationClaimable
<1>3. l \in LeaseIds
  BY FreshLeaseType DEF ClaimValidation
<1>4. LeaseTtl + Skew[w] \in Int
  BY BoundsAssumption
<1>5. /\ n \in 1..MaxAttempts /\ job \in Jobs
      /\ rows \in [1..MaxAttempts -> Rows] /\ Ledger(job, rows)
  BY <1>1, <1>2, <1>3, <1>4, LedgerClaimed
<1>6. vjob' = [vjob EXCEPT ![d] = job] /\ vrow' = [vrow EXCEPT ![d] = rows]
  BY DEF ClaimValidation
<1>7. \A e \in Docs : Ledger(xjob[e], xrow[e])'
  BY DEF ClaimValidation, LedgerAgrees, Ledger
<1>8. /\ vjob' \in [Docs -> Jobs] /\ vrow' \in [Docs -> [1..MaxAttempts -> Rows]]
      /\ LedgerAgrees'
      /\ vjob'[d] = job
      /\ \A e \in Docs : e # d => vjob'[e] = vjob[e] /\ vrow'[e] = vrow[e]
  <2> HIDE DEF job, rows
  <2> QED
    BY <1>5, <1>6, <1>7, ValidationRewritten
<1>9. Projected("validation-claim", SourceOf[d], life[d]) \in Lives
  BY ProjectedTypes DEF Stages, TypeOK
<1>10. Held("working", d, l, n, "NONE") \in Holds
  BY <1>3, <1>5, HeldTypes
<1>11. TypeOK'
  <2> HIDE DEF l, n
  <2>1. life' \in [Docs -> Lives]
    BY <1>9 DEF ClaimValidation, TypeOK
  <2>2. vheld' \in [ValWorkers -> Holds]
    BY <1>10 DEF ClaimValidation, TypeOK, l, n
  <2> QED
    BY <1>8, <2>1, <2>2 DEF ClaimValidation, TypeOK
<1>12. vjob'[d].status = "RUNNING" /\ vjob[d].status \notin {"NONE", "SUCCEEDED"}
  BY <1>2, <1>8 DEF Leased, Waiting
<1>13. EvidenceAgrees'
  BY <1>8, <1>12 DEF ClaimValidation, EvidenceAgrees
<1>14. JobsStartClean'
  <2>1. life'[d].intake # "RECEIVING" /\ \A e \in Docs : e # d => life'[e] = life[e]
    BY DEF ClaimValidation, Projected, Desired, Stages, TypeOK
  <2> QED
    BY <1>8, <1>12, <2>1 DEF ClaimValidation, JobsStartClean
<1>15. HandsAreFull'
  <2>1. vheld' = [vheld EXCEPT ![w] = Held("working", d, l, n, "NONE")] /\ UNCHANGED xheld
    BY DEF ClaimValidation
  <2> HIDE DEF l, n
  <2> QED
    BY <1>5, <2>1 DEF HandsAreFull, Held, TypeOK
<1> QED
  BY <1>8, <1>11, <1>13, <1>14, <1>15

LEMMA ReapValidationStep ==
  ASSUME IInv, NEW w \in ValWorkers, NEW d \in Docs, ReapValidation(w, d)
  PROVE  IInv'
<1> USE DEF IInv
<1> DEFINE job == Job("DEAD_LETTER", vjob[d].attempts, 0)
           status == IF Exhausted(vjob[d]) THEN "DEAD_LETTER" ELSE "FAILED"
           rows == Reaped(vjob[d], vrow[d], status)
<1>1. vjob[d] \in Jobs /\ vrow[d] \in [1..MaxAttempts -> Rows] /\ Ledger(vjob[d], vrow[d])
  BY DEF TypeOK, LedgerAgrees
<1>2. vjob[d].status \in Waiting \cup {"RUNNING"}
  BY DEF ReapValidation, Due
<1>3. job \in Jobs /\ rows \in [1..MaxAttempts -> Rows] /\ Ledger(job, rows)
  BY <1>1, <1>2, LedgerGivenUp
<1>4. vjob' = [vjob EXCEPT ![d] = job] /\ vrow' = [vrow EXCEPT ![d] = rows]
  BY DEF ReapValidation
<1>5. \A e \in Docs : Ledger(xjob[e], xrow[e])'
  BY DEF ReapValidation, LedgerAgrees, Ledger
<1>6. /\ vjob' \in [Docs -> Jobs] /\ vrow' \in [Docs -> [1..MaxAttempts -> Rows]]
      /\ LedgerAgrees'
      /\ vjob'[d] = job
      /\ \A e \in Docs : e # d => vjob'[e] = vjob[e] /\ vrow'[e] = vrow[e]
  <2> HIDE DEF job, rows
  <2> QED
    BY <1>3, <1>4, <1>5, ValidationRewritten
<1>7. ProjectedIfAllowed("validation-failed", SourceOf[d], life[d]) \in Lives
  BY ProjectedTypes DEF Stages, TypeOK
<1>8. TypeOK'
  BY <1>6, <1>7 DEF ReapValidation, TypeOK
<1>9. vjob'[d].status = "DEAD_LETTER" /\ vjob[d].status \notin {"NONE", "SUCCEEDED"}
  BY <1>2, <1>6 DEF Job, Waiting
<1>10. EvidenceAgrees'
  BY <1>6, <1>9 DEF ReapValidation, EvidenceAgrees
<1>11. JobsStartClean'
  <2>1. life'[d].intake # "RECEIVING" /\ \A e \in Docs : e # d => life'[e] = life[e]
    BY <1>9 DEF ReapValidation, ProjectedIfAllowed, Projected, Desired, Stages, TypeOK,
                JobsStartClean
  <2> QED
    BY <1>6, <1>9, <2>1 DEF ReapValidation, JobsStartClean
<1>12. HandsAreFull'
  BY DEF ReapValidation, HandsAreFull
<1> QED
  BY <1>6, <1>8, <1>10, <1>11, <1>12

LEMMA HeartbeatValidationStep ==
  ASSUME IInv, NEW w \in ValWorkers, HeartbeatValidation(w)
  PROVE  IInv'
<1> USE DEF IInv
<1> DEFINE d == vheld[w].doc
           job == [vjob[d] EXCEPT !.left = LeaseTtl + Skew[w]]
<1>1. d \in Docs
  BY DEF HeartbeatValidation, HandsAreFull
<1>2. LeaseTtl + Skew[w] \in Int
  BY BoundsAssumption
<1>3. /\ vjob[d] \in Jobs /\ vrow[d] \in [1..MaxAttempts -> Rows]
      /\ Ledger(vjob[d], vrow[d])
  BY <1>1 DEF TypeOK, LedgerAgrees
<1>4. job \in Jobs /\ Ledger(job, vrow[d])
  BY <1>2, <1>3, LedgerAged
<1>5. vjob' = [vjob EXCEPT ![d] = job] /\ vrow' = [vrow EXCEPT ![d] = vrow[d]]
  BY DEF HeartbeatValidation, TypeOK
<1>6. \A e \in Docs : Ledger(xjob[e], xrow[e])'
  BY DEF HeartbeatValidation, LedgerAgrees, Ledger
<1>7. /\ vjob' \in [Docs -> Jobs] /\ LedgerAgrees' /\ vjob'[d] = job
      /\ \A e \in Docs : e # d => vjob'[e] = vjob[e]
  <2> HIDE DEF job, d
  <2> QED
    BY <1>1, <1>3, <1>4, <1>5, <1>6, ValidationRewritten
<1>8. vjob'[d].status = vjob[d].status /\ vjob'[d].attempts = vjob[d].attempts
  BY <1>3, <1>7 DEF Jobs
<1> HIDE DEF job
<1>9. TypeOK'
  BY <1>7 DEF HeartbeatValidation, TypeOK
<1>10. EvidenceAgrees'
  BY <1>7, <1>8 DEF HeartbeatValidation, EvidenceAgrees
<1>11. JobsStartClean'
  BY <1>7, <1>8 DEF HeartbeatValidation, JobsStartClean
<1>12. HandsAreFull'
  BY DEF HeartbeatValidation, HandsAreFull
<1> QED
  BY <1>7, <1>9, <1>10, <1>11, <1>12

LEMMA CompleteValidationStep ==
  ASSUME IInv, NEW w \in ValWorkers, NEW answered \in BOOLEAN, CompleteValidation(w, answered)
  PROVE  IInv'
<1> USE DEF IInv
<1> DEFINE h == vheld[w]
           d == h.doc
           job == Job("SUCCEEDED", vjob[d].attempts, 0)
           rows == [vrow[d] EXCEPT ![vjob[d].attempts] = Row("SUCCEEDED", vjob[d].lease)]
           fresh == Job("QUEUED", 0, Skew[w])
           turned == IF answered THEN Idle ELSE Turned(h, "failing", "service_unavailable")
<1>1. d \in Docs /\ h \in Holds /\ h.n \in 1..MaxAttempts /\ h.result \in Verdicts
  BY DEF CompleteValidation, HandsAreFull, TypeOK
<1>2. /\ vjob[d] \in Jobs /\ vrow[d] \in [1..MaxAttempts -> Rows]
      /\ Ledger(vjob[d], vrow[d])
  BY <1>1 DEF TypeOK, LedgerAgrees
<1>3. vjob[d].status = "RUNNING" /\ h.lease = vjob[d].lease /\ h.n = vjob[d].attempts
  BY OwnsLast DEF CompleteValidation, ValidationCompletable
<1>4. job \in Jobs /\ rows \in [1..MaxAttempts -> Rows] /\ Ledger(job, rows)
  <2> HIDE DEF d
  <2>1. 0 \in Int
    OBVIOUS
  <2> QED
    BY <1>2, <1>3, <2>1, LedgerClosed
<1>5. vjob' = [vjob EXCEPT ![d] = job] /\ vrow' = [vrow EXCEPT ![d] = rows]
  BY <1>3 DEF CompleteValidation
<1>6. xjob[d].status = "NONE" /\ xjob[d].attempts = 0
  BY <1>1, <1>3 DEF EvidenceAgrees, JobsStartClean
<1>7. fresh \in Jobs /\ Ledger(fresh, xrow[d])
  <2>1. Skew[w] \in Int /\ 0 \in 0..MaxAttempts
    BY BoundsAssumption
  <2>2. fresh \in Jobs
    BY <2>1, JobTypes DEF JobStatuses, Waiting
  <2>3. Ledger(fresh, xrow[d])
    BY <1>1, <1>6, BoundsAssumption DEF LedgerAgrees, Ledger, Job, Waiting, Exhausted
  <2> QED
    BY <2>2, <2>3
<1>8. /\ xrow' = xrow
      /\ IF h.result = "ACCEPTED" THEN xjob' = [xjob EXCEPT ![d] = fresh] ELSE xjob' = xjob
  BY DEF CompleteValidation, Accepts
<1>9. xjob' \in [Docs -> Jobs] /\ \A e \in Docs : Ledger(xjob'[e], xrow'[e])
  <2> HIDE DEF fresh, d
  <2>1. CASE h.result = "ACCEPTED"
    BY <1>1, <1>7, <1>8, <2>1 DEF TypeOK, LedgerAgrees
  <2>2. CASE h.result # "ACCEPTED"
    BY <1>8, <2>2 DEF TypeOK, LedgerAgrees
  <2> QED
    BY <2>1, <2>2
<1>10. /\ vjob' \in [Docs -> Jobs] /\ vrow' \in [Docs -> [1..MaxAttempts -> Rows]]
       /\ LedgerAgrees'
       /\ vjob'[d] = job /\ vrow'[d] = rows
       /\ \A e \in Docs : e # d => vjob'[e] = vjob[e] /\ vrow'[e] = vrow[e]
  <2> HIDE DEF job, rows, d
  <2> QED
    BY <1>1, <1>4, <1>5, <1>9, ValidationRewritten
<1>11. TypeOK'
  <2>1. OutcomeStage(h) \in Stages
    BY DEF OutcomeStage, Stages
  <2>2. life' \in [Docs -> Lives]
    BY <1>1, <2>1, ProjectedTypes DEF CompleteValidation, TypeOK
  <2>3. turned \in Holds
    BY <1>1, HeldTypes DEF ValFailures
  <2>4. vheld' \in [ValWorkers -> Holds]
    <3>1. vheld' = [vheld EXCEPT ![w] = turned]
      BY DEF CompleteValidation
    <3> HIDE DEF turned
    <3> QED
      BY <2>3, <3>1 DEF TypeOK
  <2>5. h.lease \in LeaseIds \cup {None}
    BY <1>1 DEF Holds
  <2>6. attestation' \in [Docs -> [verdict : {"NONE"} \cup Verdicts,
                                   attempt : LeaseIds \cup {None}]]
    BY <1>1, <2>5 DEF CompleteValidation, TypeOK
  <2>7. PinOf[w] \in Toolchains
    BY DEF Toolchains
  <2>8. pin' \in [Docs -> Toolchains \cup {None}]
    BY <2>7 DEF CompleteValidation, TypeOK
  <2>9. /\ asset' \in [Docs -> {"UPLOADING", "QUARANTINED", "SCANNING", "READY", "REJECTED"}]
        /\ doc' \in [Docs -> {"PENDING", "PROCESSING", "READY", "FAILED", "ARCHIVED"}]
    BY DEF CompleteValidation, TypeOK
  <2> QED
    BY <1>9, <1>10, <2>2, <2>4, <2>6, <2>8, <2>9 DEF CompleteValidation, TypeOK
<1>12. EvidenceAgrees'
  <2>1. vjob'[d].status = "SUCCEEDED" /\ vjob'[d].attempts = h.n
    BY <1>3, <1>10 DEF Job
  <2>2. attestation'[d] = [verdict |-> h.result, attempt |-> h.lease]
    BY <1>1 DEF CompleteValidation, TypeOK
  <2>3. vrow'[d][h.n] = Row("SUCCEEDED", h.lease)
    BY <1>1, <1>2, <1>3, <1>10
  <2>4. xjob'[d].status # "NONE" <=> h.result = "ACCEPTED"
    BY <1>1, <1>6, <1>8 DEF Job, TypeOK
  <2>5. xjob'[d].status # "SUCCEEDED" /\ extraction'[d] = None /\ xjob[d].status # "SUCCEEDED"
    BY <1>1, <1>6, <1>8 DEF Job, TypeOK, CompleteValidation, EvidenceAgrees
  <2>6. \A e \in Docs : e # d => /\ attestation'[e] = attestation[e] /\ xjob'[e] = xjob[e]
                                /\ extraction'[e] = extraction[e] /\ xrow'[e] = xrow[e]
    BY <1>8 DEF CompleteValidation, TypeOK
  <2>7. ASSUME NEW e \in Docs
        PROVE  /\ attestation'[e].verdict # "NONE" <=> vjob'[e].status = "SUCCEEDED"
               /\ vjob'[e].status = "SUCCEEDED" =>
                    vrow'[e][vjob'[e].attempts] = Row("SUCCEEDED", attestation'[e].attempt)
               /\ xjob'[e].status # "NONE" <=> attestation'[e].verdict = "ACCEPTED"
               /\ extraction'[e] # None <=> xjob'[e].status = "SUCCEEDED"
               /\ extraction'[e] # None =>
                    xrow'[e][xjob'[e].attempts] = Row("SUCCEEDED", extraction'[e])
    <3>1. CASE e = d
      BY <1>1, <2>1, <2>2, <2>3, <2>4, <2>5, <3>1 DEF Verdicts
    <3>2. CASE e # d
      BY <1>10, <2>6, <3>2 DEF EvidenceAgrees
    <3> QED
      BY <3>1, <3>2
  <2> QED
    BY <2>7 DEF EvidenceAgrees
<1>13. JobsStartClean'
  <2>1. life'[d].intake # "RECEIVING" /\ \A e \in Docs : e # d => life'[e] = life[e]
    BY <1>1 DEF CompleteValidation, Projected, Desired, OutcomeStage, Stages, TypeOK
  <2>2. vjob'[d].status = "SUCCEEDED"
    BY <1>10 DEF Job
  <2>3. xjob'[d].attempts = 0 /\ \A e \in Docs : e # d => xjob'[e] = xjob[e]
    BY <1>1, <1>6, <1>8 DEF Job, TypeOK
  <2> QED
    BY <1>1, <1>10, <2>1, <2>2, <2>3 DEF JobsStartClean
<1>14. HandsAreFull'
  BY <1>1 DEF CompleteValidation, HandsAreFull, Idle, Turned, Held, TypeOK
<1> QED
  BY <1>10, <1>11, <1>12, <1>13, <1>14

LEMMA FailValidationStep ==
  ASSUME IInv, NEW w \in ValWorkers, FailValidation(w)
  PROVE  IInv'
<1> USE DEF IInv
<1> DEFINE h == vheld[w]
           d == h.doc
           retry == CanRetry(vjob[d], h)
           stage == IF retry THEN "validation-retry" ELSE "validation-failed"
           wait == IF retry THEN RetryDelay[vjob[d].attempts] + Skew[w] ELSE 0
           js == IF retry THEN "RETRYING" ELSE "DEAD_LETTER"
           rs == IF retry THEN "FAILED" ELSE "DEAD_LETTER"
           job == Job(js, vjob[d].attempts, wait)
           rows == [vrow[d] EXCEPT ![vjob[d].attempts] = Row(rs, vjob[d].lease)]
           written == /\ Owns(vjob[d], vrow[d], h, w, Skew[w])
                      /\ Projectable(stage, SourceOf[d], life[d])
<1>1. d \in Docs
  BY DEF FailValidation, HandsAreFull
<1>2. CASE ~written
  <2>1. UNCHANGED <<database, xheld>> /\ vheld' = [vheld EXCEPT ![w] = Idle]
    BY <1>2 DEF FailValidation, database
  <2>2. Idle \in Holds /\ vheld[w].phase # "idle"
    BY HeldTypes DEF FailValidation
  <2> HIDE DEF IInv
  <2> QED
    BY <2>1, <2>2, ValidatorTurns
<1>3. CASE written
  <2>1. /\ vjob[d] \in Jobs /\ vrow[d] \in [1..MaxAttempts -> Rows]
        /\ Ledger(vjob[d], vrow[d])
    BY <1>1 DEF TypeOK, LedgerAgrees
  <2>2. vjob[d].status = "RUNNING" /\ h.lease = vjob[d].lease /\ h.n = vjob[d].attempts
    BY <1>3, OwnsLast
  <2>3. wait \in Int
    <3>1. vjob[d].attempts \in 1..MaxAttempts
      BY <2>1, <2>2, BoundsAssumption DEF Ledger, Jobs
    <3>2. RetryDelay[vjob[d].attempts] \in Nat /\ Skew[w] \in Int
      BY <3>1, BoundsAssumption
    <3> QED
      BY <3>2
  <2>4. \/ js = "DEAD_LETTER" /\ rs = "DEAD_LETTER"
        \/ js = "RETRYING" /\ rs = "FAILED" /\ ~Exhausted(vjob[d])
    BY DEF CanRetry
  <2>5. job \in Jobs /\ rows \in [1..MaxAttempts -> Rows] /\ Ledger(job, rows)
    <3> HIDE DEF js, rs, wait, d
    <3> QED
      BY <2>1, <2>2, <2>3, <2>4, LedgerClosed
  <2>6. vjob' = [vjob EXCEPT ![d] = job] /\ vrow' = [vrow EXCEPT ![d] = rows]
    <3>1. CASE retry
      BY <1>3, <2>2, <3>1 DEF FailValidation
    <3>2. CASE ~retry
      BY <1>3, <2>2, <3>2 DEF FailValidation
    <3> QED
      BY <3>1, <3>2
  <2>7. \A e \in Docs : Ledger(xjob[e], xrow[e])'
    BY DEF FailValidation, LedgerAgrees, Ledger
  <2>8. /\ vjob' \in [Docs -> Jobs] /\ vrow' \in [Docs -> [1..MaxAttempts -> Rows]]
        /\ LedgerAgrees'
        /\ vjob'[d] = job
        /\ \A e \in Docs : e # d => vjob'[e] = vjob[e] /\ vrow'[e] = vrow[e]
    <3> HIDE DEF job, rows, d
    <3> QED
      BY <1>1, <2>5, <2>6, <2>7, ValidationRewritten
  <2>9. vjob'[d].status \in {"RETRYING", "DEAD_LETTER"}
    BY <2>8 DEF Job
  <2>10. Projected(stage, SourceOf[d], life[d]) \in Lives
    BY <1>1, ProjectedTypes DEF Stages, TypeOK
  <2>11. life' = [life EXCEPT ![d] = Projected(stage, SourceOf[d], life[d])]
    BY <1>3 DEF FailValidation
  <2>12. TypeOK'
    <3>1. life' \in [Docs -> Lives]
      BY <2>10, <2>11 DEF TypeOK
    <3>2. asset' \in [Docs -> {"UPLOADING", "QUARANTINED", "SCANNING", "READY", "REJECTED"}]
      <4>1. asset' = [asset EXCEPT ![d] = AssetAfterFailure(asset[d], retry, h.result)]
        BY <1>3 DEF FailValidation
      <4>2. AssetAfterFailure(asset[d], retry, h.result) \in {asset[d], "REJECTED", "QUARANTINED"}
        BY DEF AssetAfterFailure
      <4> HIDE DEF retry, d, h
      <4> QED
        BY <1>1, <4>1, <4>2 DEF TypeOK
    <3>3. doc' \in [Docs -> {"PENDING", "PROCESSING", "READY", "FAILED", "ARCHIVED"}]
      <4> DEFINE after == IF doc[d] # "PROCESSING" THEN doc[d]
                          ELSE IF retry THEN "PENDING" ELSE "FAILED"
      <4>1. doc' = [doc EXCEPT ![d] = after]
        BY <1>3 DEF FailValidation
      <4>2. after \in {doc[d], "PENDING", "FAILED"}
        OBVIOUS
      <4> HIDE DEF after, retry, d, h
      <4> QED
        BY <1>1, <4>1, <4>2 DEF TypeOK
    <3>4. vheld' \in [ValWorkers -> Holds]
      BY HeldTypes DEF FailValidation, TypeOK
    <3> QED
      BY <2>8, <3>1, <3>2, <3>3, <3>4 DEF FailValidation, TypeOK
  <2>13. EvidenceAgrees'
    BY <1>1, <2>2, <2>8, <2>9 DEF FailValidation, EvidenceAgrees
  <2>14. JobsStartClean'
    <3>1. life'[d].intake # "RECEIVING" /\ \A e \in Docs : e # d => life'[e] = life[e]
      BY <1>1, <2>11 DEF Projected, Desired, Stages, TypeOK
    <3> QED
      BY <2>8, <2>9, <3>1 DEF FailValidation, JobsStartClean
  <2>15. HandsAreFull'
    BY DEF FailValidation, HandsAreFull, Idle, Held, TypeOK
  <2> QED
    BY <2>8, <2>12, <2>13, <2>14, <2>15
<1> QED
  BY <1>2, <1>3
-----------------------------------------------------------------------------
(* The extraction job.                                                     *)

LEMMA ClaimExtractionStep ==
  ASSUME IInv, NEW w \in ExtWorkers, NEW d \in Docs, ClaimExtraction(w, d)
  PROVE  IInv'
<1> USE DEF IInv
<1> DEFINE n == xjob[d].attempts + 1
           l == FreshLease
           job == Leased(n, l, w, LeaseTtl)
           rows == [Reaped(xjob[d], xrow[d], "FAILED") EXCEPT ![n] = Row("RUNNING", l)]
<1>1. xjob[d] \in Jobs /\ xrow[d] \in [1..MaxAttempts -> Rows] /\ Ledger(xjob[d], xrow[d])
  BY DEF TypeOK, LedgerAgrees
<1>2. xjob[d].status \in Waiting \cup {"RUNNING"} /\ ~Exhausted(xjob[d])
  BY DEF ClaimExtraction, ExtractionDue, Due, ExtractionClaimable
<1>3. l \in LeaseIds /\ LeaseTtl \in Int
  BY FreshLeaseType, BoundsAssumption DEF ClaimExtraction
<1>4. /\ n \in 1..MaxAttempts /\ job \in Jobs
      /\ rows \in [1..MaxAttempts -> Rows] /\ Ledger(job, rows)
  BY <1>1, <1>2, <1>3, LedgerClaimed
<1>5. xjob' = [xjob EXCEPT ![d] = job] /\ xrow' = [xrow EXCEPT ![d] = rows]
  BY DEF ClaimExtraction
<1>6. \A e \in Docs : Ledger(vjob[e], vrow[e])'
  BY DEF ClaimExtraction, LedgerAgrees, Ledger
<1>7. /\ xjob' \in [Docs -> Jobs] /\ xrow' \in [Docs -> [1..MaxAttempts -> Rows]]
      /\ LedgerAgrees'
      /\ xjob'[d] = job
      /\ \A e \in Docs : e # d => xjob'[e] = xjob[e] /\ xrow'[e] = xrow[e]
  <2> HIDE DEF job, rows
  <2> QED
    BY <1>4, <1>5, <1>6, ExtractionRewritten
<1>8. Projected("extraction-claim", SourceOf[d], life[d]) \in Lives
  BY ProjectedTypes DEF Stages, TypeOK
<1>9. Held("working", d, l, n, "NONE") \in Holds
  BY <1>3, <1>4, HeldTypes
<1>10. TypeOK'
  <2> HIDE DEF l, n
  <2>1. life' \in [Docs -> Lives]
    BY <1>8 DEF ClaimExtraction, TypeOK
  <2>2. xheld' \in [ExtWorkers -> Holds]
    BY <1>9 DEF ClaimExtraction, TypeOK, l, n
  <2> QED
    BY <1>7, <2>1, <2>2 DEF ClaimExtraction, TypeOK
<1>11. xjob'[d].status = "RUNNING" /\ xjob[d].status \notin {"NONE", "SUCCEEDED"}
  BY <1>2, <1>7 DEF Leased, Waiting
<1>12. EvidenceAgrees'
  BY <1>7, <1>11 DEF ClaimExtraction, EvidenceAgrees
<1>13. JobsStartClean'
  <2>1. life'[d].intake # "RECEIVING" /\ \A e \in Docs : e # d => life'[e] = life[e]
    BY DEF ClaimExtraction, Projected, Desired, Stages, TypeOK
  <2> QED
    BY <1>7, <1>11, <2>1 DEF ClaimExtraction, JobsStartClean
<1>14. HandsAreFull'
  <2>1. xheld' = [xheld EXCEPT ![w] = Held("working", d, l, n, "NONE")] /\ UNCHANGED vheld
    BY DEF ClaimExtraction
  <2> HIDE DEF l, n
  <2> QED
    BY <1>4, <2>1 DEF HandsAreFull, Held, TypeOK
<1> QED
  BY <1>7, <1>10, <1>12, <1>13, <1>14

LEMMA ReapExtractionStep ==
  ASSUME IInv, NEW w \in ExtWorkers, NEW d \in Docs, ReapExtraction(w, d)
  PROVE  IInv'
<1> USE DEF IInv
<1> DEFINE job == Job("DEAD_LETTER", xjob[d].attempts, 0)
           status == IF Exhausted(xjob[d]) THEN "DEAD_LETTER" ELSE "FAILED"
           rows == Reaped(xjob[d], xrow[d], status)
<1>1. xjob[d] \in Jobs /\ xrow[d] \in [1..MaxAttempts -> Rows] /\ Ledger(xjob[d], xrow[d])
  BY DEF TypeOK, LedgerAgrees
<1>2. xjob[d].status \in Waiting \cup {"RUNNING"}
  BY DEF ReapExtraction, ExtractionDue, Due
<1>3. job \in Jobs /\ rows \in [1..MaxAttempts -> Rows] /\ Ledger(job, rows)
  BY <1>1, <1>2, LedgerGivenUp
<1>4. xjob' = [xjob EXCEPT ![d] = job] /\ xrow' = [xrow EXCEPT ![d] = rows]
  BY DEF ReapExtraction
<1>5. \A e \in Docs : Ledger(vjob[e], vrow[e])'
  BY DEF ReapExtraction, LedgerAgrees, Ledger
<1>6. /\ xjob' \in [Docs -> Jobs] /\ xrow' \in [Docs -> [1..MaxAttempts -> Rows]]
      /\ LedgerAgrees'
      /\ xjob'[d] = job
      /\ \A e \in Docs : e # d => xjob'[e] = xjob[e] /\ xrow'[e] = xrow[e]
  <2> HIDE DEF job, rows
  <2> QED
    BY <1>3, <1>4, <1>5, ExtractionRewritten
<1>7. ProjectedIfAllowed("extraction-attention", SourceOf[d], life[d]) \in Lives
  BY ProjectedTypes DEF Stages, TypeOK
<1>8. TypeOK'
  BY <1>6, <1>7 DEF ReapExtraction, TypeOK
<1>9. xjob'[d].status = "DEAD_LETTER" /\ xjob[d].status \notin {"NONE", "SUCCEEDED"}
  BY <1>2, <1>6 DEF Job, Waiting
<1>10. EvidenceAgrees'
  BY <1>6, <1>9 DEF ReapExtraction, EvidenceAgrees
<1>11. JobsStartClean'
  <2>1. /\ life'[d].intake = "RECEIVING" => life[d].intake = "RECEIVING"
        /\ \A e \in Docs : e # d => life'[e] = life[e]
    BY DEF ReapExtraction, ProjectedIfAllowed, Projected, Desired, Stages, TypeOK
  <2> QED
    BY <1>6, <1>9, <2>1 DEF ReapExtraction, JobsStartClean
<1>12. HandsAreFull'
  BY DEF ReapExtraction, HandsAreFull
<1> QED
  BY <1>6, <1>8, <1>10, <1>11, <1>12

LEMMA HeartbeatExtractionStep ==
  ASSUME IInv, NEW w \in ExtWorkers, HeartbeatExtraction(w)
  PROVE  IInv'
<1> USE DEF IInv
<1> DEFINE d == xheld[w].doc
           job == [xjob[d] EXCEPT !.left = LeaseTtl]
<1>1. d \in Docs
  BY DEF HeartbeatExtraction, HandsAreFull
<1>2. LeaseTtl \in Int
  BY BoundsAssumption
<1>3. /\ xjob[d] \in Jobs /\ xrow[d] \in [1..MaxAttempts -> Rows]
      /\ Ledger(xjob[d], xrow[d])
  BY <1>1 DEF TypeOK, LedgerAgrees
<1>4. job \in Jobs /\ Ledger(job, xrow[d])
  BY <1>2, <1>3, LedgerAged
<1>5. xjob' = [xjob EXCEPT ![d] = job] /\ xrow' = [xrow EXCEPT ![d] = xrow[d]]
  BY DEF HeartbeatExtraction, TypeOK
<1>6. \A e \in Docs : Ledger(vjob[e], vrow[e])'
  BY DEF HeartbeatExtraction, LedgerAgrees, Ledger
<1>7. /\ xjob' \in [Docs -> Jobs] /\ LedgerAgrees' /\ xjob'[d] = job
      /\ \A e \in Docs : e # d => xjob'[e] = xjob[e]
  <2> HIDE DEF job, d
  <2> QED
    BY <1>1, <1>3, <1>4, <1>5, <1>6, ExtractionRewritten
<1>8. xjob'[d].status = xjob[d].status /\ xjob'[d].attempts = xjob[d].attempts
  BY <1>3, <1>7 DEF Jobs
<1> HIDE DEF job
<1>9. TypeOK'
  BY <1>7 DEF HeartbeatExtraction, TypeOK
<1>10. EvidenceAgrees'
  BY <1>7, <1>8 DEF HeartbeatExtraction, EvidenceAgrees
<1>11. JobsStartClean'
  BY <1>7, <1>8 DEF HeartbeatExtraction, JobsStartClean
<1>12. HandsAreFull'
  BY DEF HeartbeatExtraction, HandsAreFull
<1> QED
  BY <1>7, <1>9, <1>10, <1>11, <1>12

LEMMA CompleteExtractionStep ==
  ASSUME IInv, NEW w \in ExtWorkers, NEW answered \in BOOLEAN, CompleteExtraction(w, answered)
  PROVE  IInv'
<1> USE DEF IInv
<1> DEFINE h == xheld[w]
           d == h.doc
           job == Job("SUCCEEDED", xjob[d].attempts, 0)
           rows == [xrow[d] EXCEPT ![xjob[d].attempts] = Row("SUCCEEDED", xjob[d].lease)]
           turned == IF answered THEN Idle ELSE Turned(h, "failing", "service_unavailable")
<1>1. d \in Docs /\ h \in Holds /\ h.n \in 1..MaxAttempts
  BY DEF CompleteExtraction, HandsAreFull, TypeOK
<1>2. /\ xjob[d] \in Jobs /\ xrow[d] \in [1..MaxAttempts -> Rows]
      /\ Ledger(xjob[d], xrow[d])
  BY <1>1 DEF TypeOK, LedgerAgrees
<1>3. xjob[d].status = "RUNNING" /\ h.lease = xjob[d].lease /\ h.n = xjob[d].attempts
  BY OwnsLast DEF CompleteExtraction, ExtractionCompletable
<1>4. job \in Jobs /\ rows \in [1..MaxAttempts -> Rows] /\ Ledger(job, rows)
  <2> HIDE DEF d
  <2>1. 0 \in Int
    OBVIOUS
  <2> QED
    BY <1>2, <1>3, <2>1, LedgerClosed
<1>5. xjob' = [xjob EXCEPT ![d] = job] /\ xrow' = [xrow EXCEPT ![d] = rows]
  BY <1>3 DEF CompleteExtraction
<1>6. \A e \in Docs : Ledger(vjob[e], vrow[e])'
  BY DEF CompleteExtraction, LedgerAgrees, Ledger
<1>7. /\ xjob' \in [Docs -> Jobs] /\ xrow' \in [Docs -> [1..MaxAttempts -> Rows]]
      /\ LedgerAgrees'
      /\ xjob'[d] = job /\ xrow'[d] = rows
      /\ \A e \in Docs : e # d => xjob'[e] = xjob[e] /\ xrow'[e] = xrow[e]
  <2> HIDE DEF job, rows, d
  <2> QED
    BY <1>1, <1>4, <1>5, <1>6, ExtractionRewritten
<1>8. h.lease \in LeaseIds
  BY <1>2, <1>3 DEF Ledger, Jobs
<1>9. extraction' = [extraction EXCEPT ![d] = h.lease]
  BY DEF CompleteExtraction
<1>10. life' = [life EXCEPT ![d] = Projected("extraction-ready", SourceOf[d], life[d])]
  BY DEF CompleteExtraction
<1>11. TypeOK'
  <2>1. life' \in [Docs -> Lives]
    BY <1>1, <1>10, ProjectedTypes DEF Stages, TypeOK
  <2>2. turned \in Holds
    BY <1>1, HeldTypes DEF ExtFailures
  <2>3. xheld' \in [ExtWorkers -> Holds]
    <3>1. xheld' = [xheld EXCEPT ![w] = turned]
      BY DEF CompleteExtraction
    <3> HIDE DEF turned
    <3> QED
      BY <2>2, <3>1 DEF TypeOK
  <2>4. extraction' \in [Docs -> LeaseIds \cup {None}]
    BY <1>8, <1>9 DEF TypeOK
  <2> QED
    BY <1>7, <2>1, <2>3, <2>4 DEF CompleteExtraction, TypeOK
<1>12. EvidenceAgrees'
  <2>1. xjob'[d].status = "SUCCEEDED" /\ xjob'[d].attempts = h.n
    BY <1>3, <1>7 DEF Job
  <2>2. extraction'[d] = h.lease /\ h.lease # None
    BY <1>1, <1>8, <1>9, NoneAssumption DEF TypeOK
  <2>3. xrow'[d][h.n] = Row("SUCCEEDED", h.lease)
    BY <1>1, <1>2, <1>3, <1>7
  <2>4. ASSUME NEW e \in Docs
        PROVE  /\ attestation'[e].verdict # "NONE" <=> vjob'[e].status = "SUCCEEDED"
               /\ vjob'[e].status = "SUCCEEDED" =>
                    vrow'[e][vjob'[e].attempts] = Row("SUCCEEDED", attestation'[e].attempt)
               /\ xjob'[e].status # "NONE" <=> attestation'[e].verdict = "ACCEPTED"
               /\ extraction'[e] # None <=> xjob'[e].status = "SUCCEEDED"
               /\ extraction'[e] # None =>
                    xrow'[e][xjob'[e].attempts] = Row("SUCCEEDED", extraction'[e])
    <3>1. CASE e = d
      BY <1>1, <1>3, <2>1, <2>2, <2>3, <3>1 DEF CompleteExtraction, EvidenceAgrees
    <3>2. CASE e # d
      BY <1>7, <1>9, <3>2 DEF CompleteExtraction, EvidenceAgrees, TypeOK
    <3> QED
      BY <3>1, <3>2
  <2> QED
    BY <2>4 DEF EvidenceAgrees
<1>13. JobsStartClean'
  <2>1. life'[d].intake # "RECEIVING" /\ \A e \in Docs : e # d => life'[e] = life[e]
    BY <1>1, <1>10 DEF Projected, Desired, Stages, TypeOK
  <2>2. xjob'[d].status = "SUCCEEDED"
    BY <1>7 DEF Job
  <2> QED
    BY <1>7, <2>1, <2>2 DEF CompleteExtraction, JobsStartClean
<1>14. HandsAreFull'
  BY <1>1 DEF CompleteExtraction, HandsAreFull, Idle, Turned, Held, TypeOK
<1> QED
  BY <1>7, <1>11, <1>12, <1>13, <1>14

\* A failure and a deferral both leave a job that has neither succeeded nor
\* disappeared.
LEMMA ExtractionUnsettled ==
  ASSUME IInv, NEW w \in ExtWorkers, NEW d \in Docs, NEW job \in Jobs,
         NEW rows \in [1..MaxAttempts -> Rows], Ledger(job, rows),
         job.status \in {"RETRYING", "DEAD_LETTER"}, xjob[d].status = "RUNNING",
         xjob' = [xjob EXCEPT ![d] = job], xrow' = [xrow EXCEPT ![d] = rows],
         NEW stage \in {"extraction-retry", "extraction-attention"},
         life' = [life EXCEPT ![d] = Projected(stage, SourceOf[d], life[d])],
         xheld' = [xheld EXCEPT ![w] = Idle],
         UNCHANGED <<doc, asset, paper, custody, vjob, vrow, attestation, pin,
                     extraction, vheld>>
  PROVE  IInv'
<1> USE DEF IInv
<1>1. \A e \in Docs : Ledger(vjob[e], vrow[e])'
  BY DEF LedgerAgrees, Ledger
<1>2. /\ xjob' \in [Docs -> Jobs] /\ xrow' \in [Docs -> [1..MaxAttempts -> Rows]]
      /\ LedgerAgrees'
      /\ xjob'[d] = job
      /\ \A e \in Docs : e # d => xjob'[e] = xjob[e] /\ xrow'[e] = xrow[e]
  BY <1>1, ExtractionRewritten
<1>3. TypeOK'
  <2>1. life' \in [Docs -> Lives]
    BY ProjectedTypes DEF Stages, TypeOK
  <2>2. xheld' \in [ExtWorkers -> Holds]
    BY HeldTypes DEF TypeOK
  <2> QED
    BY <1>2, <2>1, <2>2 DEF TypeOK
<1>4. EvidenceAgrees'
  BY <1>2 DEF EvidenceAgrees
<1>5. JobsStartClean'
  <2>1. life'[d].intake # "RECEIVING" /\ \A e \in Docs : e # d => life'[e] = life[e]
    BY DEF Projected, Desired, Stages, TypeOK
  <2> QED
    BY <1>2, <2>1 DEF JobsStartClean
<1>6. HandsAreFull'
  BY DEF HandsAreFull, Idle, Held, TypeOK
<1> QED
  BY <1>2, <1>3, <1>4, <1>5, <1>6

LEMMA FailExtractionStep ==
  ASSUME IInv, NEW w \in ExtWorkers, FailExtraction(w)
  PROVE  IInv'
<1> DEFINE h == xheld[w]
           d == h.doc
           retry == CanRetry(xjob[d], h)
           stage == IF retry THEN "extraction-retry" ELSE "extraction-attention"
           wait == IF retry THEN RetryDelay[xjob[d].attempts] ELSE 0
           js == IF retry THEN "RETRYING" ELSE "DEAD_LETTER"
           rs == IF retry THEN "FAILED" ELSE "DEAD_LETTER"
           job == Job(js, xjob[d].attempts, wait)
           rows == [xrow[d] EXCEPT ![xjob[d].attempts] = Row(rs, xjob[d].lease)]
           written == /\ Owns(xjob[d], xrow[d], h, w, 0)
                      /\ Projectable(stage, SourceOf[d], life[d])
<1>1. d \in Docs
  BY DEF FailExtraction, HandsAreFull, IInv
<1>2. CASE ~written
  <2>1. UNCHANGED <<database, vheld>> /\ xheld' = [xheld EXCEPT ![w] = Idle]
    BY <1>2 DEF FailExtraction, database
  <2>2. Idle \in Holds /\ xheld[w].phase # "idle"
    BY HeldTypes DEF FailExtraction
  <2> QED
    BY <2>1, <2>2, ExtractorTurns
<1>3. CASE written
  <2>1. /\ xjob[d] \in Jobs /\ xrow[d] \in [1..MaxAttempts -> Rows]
        /\ Ledger(xjob[d], xrow[d])
    BY <1>1 DEF IInv, TypeOK, LedgerAgrees
  <2>2. xjob[d].status = "RUNNING" /\ h.lease = xjob[d].lease /\ h.n = xjob[d].attempts
    BY <1>3, OwnsLast
  <2>3. wait \in Int
    <3>1. xjob[d].attempts \in 1..MaxAttempts
      BY <2>1, <2>2, BoundsAssumption DEF Ledger, Jobs
    <3>2. RetryDelay[xjob[d].attempts] \in Nat
      BY <3>1, BoundsAssumption
    <3> QED
      BY <3>2
  <2>4. \/ js = "DEAD_LETTER" /\ rs = "DEAD_LETTER"
        \/ js = "RETRYING" /\ rs = "FAILED" /\ ~Exhausted(xjob[d])
    BY DEF CanRetry
  <2>5. job \in Jobs /\ rows \in [1..MaxAttempts -> Rows] /\ Ledger(job, rows)
    <3> HIDE DEF js, rs, wait, d
    <3> QED
      BY <2>1, <2>2, <2>3, <2>4, LedgerClosed
  <2>6. xjob' = [xjob EXCEPT ![d] = job] /\ xrow' = [xrow EXCEPT ![d] = rows]
    <3>1. CASE retry
      BY <1>3, <2>2, <3>1 DEF FailExtraction
    <3>2. CASE ~retry
      BY <1>3, <2>2, <3>2 DEF FailExtraction
    <3> QED
      BY <3>1, <3>2
  <2>7. /\ life' = [life EXCEPT ![d] = Projected(stage, SourceOf[d], life[d])]
        /\ xheld' = [xheld EXCEPT ![w] = Idle]
        /\ UNCHANGED <<doc, asset, paper, custody, vjob, vrow, attestation, pin,
                       extraction, vheld>>
    BY <1>3 DEF FailExtraction
  <2>8. job.status \in {"RETRYING", "DEAD_LETTER"}
    BY DEF Job
  <2>9. stage \in {"extraction-retry", "extraction-attention"}
    OBVIOUS
  <2> HIDE DEF job, rows, stage, d
  <2> QED
    BY <1>1, <2>2, <2>5, <2>6, <2>7, <2>8, <2>9, ExtractionUnsettled
<1> QED
  BY <1>2, <1>3

LEMMA DeferExtractionStep ==
  ASSUME IInv, NEW w \in ExtWorkers, DeferExtraction(w)
  PROVE  IInv'
<1> DEFINE h == xheld[w]
           d == h.doc
           job == Job("RETRYING", xjob[d].attempts - 1, AdmissionDelay)
           rows == [xrow[d] EXCEPT ![xjob[d].attempts] = NoRow]
           written == /\ Owns(xjob[d], xrow[d], h, w, 0)
                      /\ Projectable("extraction-retry", SourceOf[d], life[d])
<1>1. d \in Docs
  BY DEF DeferExtraction, HandsAreFull, IInv
<1>2. CASE ~written
  <2>1. UNCHANGED <<database, vheld>> /\ xheld' = [xheld EXCEPT ![w] = Idle]
    BY <1>2 DEF DeferExtraction, database
  <2>2. Idle \in Holds /\ xheld[w].phase # "idle"
    BY HeldTypes DEF DeferExtraction
  <2> QED
    BY <2>1, <2>2, ExtractorTurns
<1>3. CASE written
  <2>1. /\ xjob[d] \in Jobs /\ xrow[d] \in [1..MaxAttempts -> Rows]
        /\ Ledger(xjob[d], xrow[d])
    BY <1>1 DEF IInv, TypeOK, LedgerAgrees
  <2>2. xjob[d].status = "RUNNING" /\ h.n = xjob[d].attempts
    BY <1>3, OwnsLast
  <2>3. job \in Jobs /\ rows \in [1..MaxAttempts -> Rows] /\ Ledger(job, rows)
    <3> HIDE DEF d
    <3>1. AdmissionDelay \in Int
      BY BoundsAssumption
    <3> QED
      BY <2>1, <2>2, <3>1, LedgerDeferred
  <2>4. xjob' = [xjob EXCEPT ![d] = job] /\ xrow' = [xrow EXCEPT ![d] = rows]
    BY <1>3, <2>2 DEF DeferExtraction
  <2>5. /\ life' = [life EXCEPT ![d] = Projected("extraction-retry", SourceOf[d], life[d])]
        /\ xheld' = [xheld EXCEPT ![w] = Idle]
        /\ UNCHANGED <<doc, asset, paper, custody, vjob, vrow, attestation, pin,
                       extraction, vheld>>
    BY <1>3 DEF DeferExtraction
  <2>6. job.status \in {"RETRYING", "DEAD_LETTER"}
    BY DEF Job
  <2> HIDE DEF job, rows, d
  <2> QED
    BY <1>1, <2>2, <2>3, <2>4, <2>5, <2>6, ExtractionUnsettled
<1> QED
  BY <1>2, <1>3
-----------------------------------------------------------------------------
(* The user and the clock.                                                 *)

LEMMA LinkStep ==
  ASSUME IInv, NEW d \in Docs, NEW p \in Papers, linkValidatedDocumentToWorkspacePaper(d, p)
  PROVE  IInv'
<1> USE DEF IInv, linkValidatedDocumentToWorkspacePaper
<1>1. /\ life' \in [Docs -> Lives]
      /\ \A e \in Docs : life'[e].intake = life[e].intake
  <2>1. life' = [life EXCEPT ![d] = [@ EXCEPT !.inbox = "IMPORTED"]]
    OBVIOUS
  <2>2. life[d] \in Lives
    BY DEF TypeOK
  <2>3. /\ [life[d] EXCEPT !.inbox = "IMPORTED"] \in Lives
        /\ [life[d] EXCEPT !.inbox = "IMPORTED"].intake = life[d].intake
    BY <2>2 DEF Lives, InboxStatuses
  <2> QED
    BY <2>1, <2>3 DEF TypeOK
<1>2. TypeOK'
  BY <1>1 DEF TypeOK
<1>3. LedgerAgrees' /\ EvidenceAgrees' /\ HandsAreFull'
  BY DEF LedgerAgrees, Ledger, EvidenceAgrees, HandsAreFull
<1>4. JobsStartClean'
  BY <1>1 DEF JobsStartClean
<1> QED
  BY <1>2, <1>3, <1>4

LEMMA DeletionStep ==
  ASSUME IInv, NEW d \in Docs, deleteCrawlerCustody(d)
  PROVE  IInv'
<1> USE DEF IInv
<1> DEFINE vj == Cancelled(vjob[d])
           vr == CancelledRows(vrow[d])
           xj == Cancelled(xjob[d])
           xr == CancelledRows(xrow[d])
<1>1. /\ vj \in Jobs /\ vr \in [1..MaxAttempts -> Rows] /\ Ledger(vj, vr)
      /\ xj \in Jobs /\ xr \in [1..MaxAttempts -> Rows] /\ Ledger(xj, xr)
  BY LedgerCancelled DEF TypeOK, LedgerAgrees
<1>2. /\ vjob' = [vjob EXCEPT ![d] = vj] /\ vrow' = [vrow EXCEPT ![d] = vr]
      /\ xjob' = [xjob EXCEPT ![d] = xj] /\ xrow' = [xrow EXCEPT ![d] = xr]
  BY DEF deleteCrawlerCustody
<1>3. /\ vjob' \in [Docs -> Jobs] /\ vrow' \in [Docs -> [1..MaxAttempts -> Rows]]
      /\ xjob' \in [Docs -> Jobs] /\ xrow' \in [Docs -> [1..MaxAttempts -> Rows]]
      /\ LedgerAgrees'
      /\ vjob'[d] = vj /\ vrow'[d] = vr /\ xjob'[d] = xj /\ xrow'[d] = xr
      /\ \A e \in Docs : e # d => /\ vjob'[e] = vjob[e] /\ vrow'[e] = vrow[e]
                                  /\ xjob'[e] = xjob[e] /\ xrow'[e] = xrow[e]
  <2> HIDE DEF vj, vr, xj, xr
  <2> QED
    BY <1>1, <1>2 DEF TypeOK, LedgerAgrees
<1>4. ASSUME NEW job \in Jobs
      PROVE  /\ Cancelled(job).attempts = job.attempts
             /\ Cancelled(job).status = "NONE" <=> job.status = "NONE"
             /\ Cancelled(job).status = "SUCCEEDED" <=> job.status = "SUCCEEDED"
  BY DEF Cancelled, Job, Waiting
<1>5. \A n \in 1..MaxAttempts : \A l :
        /\ vrow[d][n] = Row("SUCCEEDED", l) => vr[n] = Row("SUCCEEDED", l)
        /\ xrow[d][n] = Row("SUCCEEDED", l) => xr[n] = Row("SUCCEEDED", l)
  BY DEF CancelledRows, Row
<1>6. TypeOK'
  <2>1. life' \in [Docs -> Lives]
    <3> DEFINE active == ActiveImport(life[d].import)
               after == [intake |-> IF active THEN "CANCELLED" ELSE life[d].intake,
                         import |-> IF active THEN "CANCELLED" ELSE life[d].import,
                         batch  |-> IF active THEN "CANCELLED" ELSE life[d].batch,
                         inbox  |-> "REJECTED"]
    <3>1. life[d] \in Lives
      BY DEF TypeOK
    <3>2. after \in Lives
      BY <3>1 DEF Lives, IntakeStatuses, ImportStatuses, BatchStatuses, InboxStatuses
    <3>3. life' = [life EXCEPT ![d] = after]
      BY DEF deleteCrawlerCustody
    <3> HIDE DEF after
    <3> QED
      BY <3>2, <3>3 DEF TypeOK
  <2> QED
    BY <1>3, <2>1 DEF deleteCrawlerCustody, TypeOK
<1>7. EvidenceAgrees'
  <2>1. ASSUME NEW e \in Docs
        PROVE  /\ attestation'[e].verdict # "NONE" <=> vjob'[e].status = "SUCCEEDED"
               /\ vjob'[e].status = "SUCCEEDED" =>
                    vrow'[e][vjob'[e].attempts] = Row("SUCCEEDED", attestation'[e].attempt)
               /\ xjob'[e].status # "NONE" <=> attestation'[e].verdict = "ACCEPTED"
               /\ extraction'[e] # None <=> xjob'[e].status = "SUCCEEDED"
               /\ extraction'[e] # None =>
                    xrow'[e][xjob'[e].attempts] = Row("SUCCEEDED", extraction'[e])
    <3>1. UNCHANGED <<attestation, extraction>>
      BY DEF deleteCrawlerCustody
    <3>2. CASE e = d
      <4>1. /\ vjob[d] \in Jobs /\ Ledger(vjob[d], vrow[d])
            /\ xjob[d] \in Jobs /\ Ledger(xjob[d], xrow[d])
        BY DEF TypeOK, LedgerAgrees
      <4>2. /\ vj.attempts = vjob[d].attempts /\ xj.attempts = xjob[d].attempts
            /\ vj.status = "SUCCEEDED" <=> vjob[d].status = "SUCCEEDED"
            /\ xj.status = "SUCCEEDED" <=> xjob[d].status = "SUCCEEDED"
            /\ xj.status = "NONE" <=> xjob[d].status = "NONE"
        BY <1>4, <4>1
      <4>3. /\ vjob[d].status = "SUCCEEDED" => vjob[d].attempts \in 1..MaxAttempts
            /\ xjob[d].status = "SUCCEEDED" => xjob[d].attempts \in 1..MaxAttempts
        BY <4>1, BoundsAssumption DEF Ledger, Jobs
      <4> HIDE DEF vj, vr, xj, xr
      <4> QED
        BY <1>3, <1>5, <3>1, <3>2, <4>2, <4>3 DEF EvidenceAgrees
    <3>3. CASE e # d
      BY <1>3, <3>1, <3>3 DEF EvidenceAgrees
    <3> QED
      BY <3>2, <3>3
  <2> QED
    BY <2>1 DEF EvidenceAgrees
<1>8. JobsStartClean'
  <2>1. /\ life'[d].intake = "RECEIVING" => life[d].intake = "RECEIVING"
        /\ \A e \in Docs : e # d => life'[e] = life[e]
    BY DEF deleteCrawlerCustody, TypeOK
  <2>2. vjob[d] \in Jobs /\ xjob[d] \in Jobs
    BY DEF TypeOK
  <2>3. /\ vj.attempts = vjob[d].attempts /\ xj.attempts = xjob[d].attempts
        /\ vj.status = "NONE" <=> vjob[d].status = "NONE"
        /\ xj.status = "NONE" <=> xjob[d].status = "NONE"
    BY <1>4, <2>2
  <2> HIDE DEF vj, xj
  <2> QED
    BY <1>3, <2>1, <2>3 DEF JobsStartClean
<1>9. HandsAreFull'
  BY DEF deleteCrawlerCustody, HandsAreFull
<1> QED
  BY <1>3, <1>6, <1>7, <1>8, <1>9

LEMMA TickStep ==
  ASSUME IInv, Tick
  PROVE  IInv'
<1> USE DEF IInv
<1>1. \A d \in Docs : /\ vjob'[d] = Aged(vjob[d]) /\ xjob'[d] = Aged(xjob[d])
                      /\ vjob[d] \in Jobs /\ xjob[d] \in Jobs
  BY DEF Tick, TypeOK
<1>2. vjob' \in [Docs -> Jobs] /\ xjob' \in [Docs -> Jobs] /\ LedgerAgrees'
  <2>1. \A d \in Docs : /\ Aged(vjob[d]) \in Jobs /\ Ledger(Aged(vjob[d]), vrow[d])
                        /\ Aged(xjob[d]) \in Jobs /\ Ledger(Aged(xjob[d]), xrow[d])
    BY <1>1, LedgerAged DEF LedgerAgrees
  <2> QED
    BY <2>1 DEF Tick, LedgerAgrees
<1>3. \A d \in Docs : /\ vjob'[d].status = vjob[d].status
                      /\ vjob'[d].attempts = vjob[d].attempts
                      /\ xjob'[d].status = xjob[d].status
                      /\ xjob'[d].attempts = xjob[d].attempts
  BY <1>1 DEF Aged, Jobs
<1>4. TypeOK'
  BY <1>2 DEF Tick, TypeOK
<1>5. EvidenceAgrees' /\ JobsStartClean' /\ HandsAreFull'
  BY <1>3 DEF Tick, EvidenceAgrees, JobsStartClean, HandsAreFull
<1> QED
  BY <1>2, <1>4, <1>5
-----------------------------------------------------------------------------
(* The invariant and what follows from it.                                 *)

LEMMA InitIInv == Init => IInv
<1> SUFFICES ASSUME Init PROVE IInv
  OBVIOUS
<1> USE DEF Init
<1>1. TypeOK
  <2>1. NoJob \in Jobs /\ Idle \in Holds
    BY JobTypes, HeldTypes, BoundsAssumption DEF NoJob, JobStatuses
  <2>2. NoRows \in [1..MaxAttempts -> Rows]
    BY DEF NoRows, NoRow, Row, Rows, RowStatuses
  <2>3. \A d \in Docs : Receiving(SourceOf[d], HasBatch[d]) \in Lives
    BY SourcesAssumption DEF Receiving, Lives, IntakeStatuses, ImportStatuses, BatchStatuses,
                             InboxStatuses, Sources
  <2> QED
    BY <2>1, <2>2, <2>3 DEF TypeOK, NoAttestation
<1>2. LedgerAgrees
  BY BoundsAssumption DEF LedgerAgrees, Ledger, NoJob, Job, NoRows, NoRow, Row, Waiting
<1>3. EvidenceAgrees /\ JobsStartClean
  BY DEF EvidenceAgrees, JobsStartClean, NoAttestation, NoJob, Job
<1>4. HandsAreFull
  BY DEF HandsAreFull, Idle, Held
<1> QED
  BY <1>1, <1>2, <1>3, <1>4 DEF IInv

LEMMA ValidatorKeepsIInv ==
  ASSUME IInv, NEW w \in ValWorkers, ValidatorStep(w)
  PROVE  IInv'
<1>1. CASE \E d \in Docs : ClaimValidation(w, d) \/ ReapValidation(w, d)
  BY <1>1, ClaimValidationStep, ReapValidationStep
<1>2. CASE \E verdict \in Verdicts : ValidatorAnswers(w, verdict)
  <2>1. PICK verdict \in Verdicts : ValidatorAnswers(w, verdict)
    BY <1>2
  <2> DEFINE h == Turned(vheld[w], "completing", verdict)
  <2>2. h \in Holds
    BY HeldTypes DEF IInv, TypeOK
  <2>3. /\ vheld[w].phase # "idle" /\ vheld' = [vheld EXCEPT ![w] = h]
        /\ UNCHANGED <<database, xheld>>
        /\ h = Turned(vheld[w], "completing", h.result) /\ h.result \in Verdicts
    BY <2>1 DEF ValidatorAnswers, Turned, Held
  <2> HIDE DEF h
  <2> QED
    BY <2>2, <2>3, ValidatorTurns
<1>3. CASE \/ \E failure \in ValFailures : ValidatorFails(w, failure)
           \/ ValidationCompletionThrows(w)
  <2>1. PICK failure \in ValFailures :
          /\ vheld[w].phase # "idle"
          /\ vheld' = [vheld EXCEPT ![w] = Turned(@, "failing", failure)]
          /\ UNCHANGED <<database, xheld>>
    BY <1>3 DEF ValidatorFails, ValidationCompletionThrows, ValFailures
  <2> DEFINE h == Turned(vheld[w], "failing", failure)
  <2>2. h \in Holds
    BY HeldTypes DEF IInv, TypeOK
  <2>3. h = Turned(vheld[w], "failing", h.result) /\ vheld' = [vheld EXCEPT ![w] = h]
    BY <2>1 DEF Turned, Held
  <2> HIDE DEF h
  <2> QED
    BY <2>1, <2>2, <2>3, ValidatorTurns
<1>4. CASE ValidationOutcomeRefused(w) \/ CrashValidator(w)
  <2>1. /\ vheld[w].phase # "idle" /\ vheld' = [vheld EXCEPT ![w] = Idle]
        /\ UNCHANGED <<database, xheld>>
    BY <1>4 DEF ValidationOutcomeRefused, CrashValidator
  <2> QED
    BY <2>1, HeldTypes, ValidatorTurns
<1>5. CASE \E answered \in BOOLEAN : CompleteValidation(w, answered)
  BY <1>5, CompleteValidationStep
<1>6. CASE HeartbeatValidation(w) \/ FailValidation(w)
  BY <1>6, HeartbeatValidationStep, FailValidationStep
<1> QED
  BY <1>1, <1>2, <1>3, <1>4, <1>5, <1>6 DEF ValidatorStep

LEMMA ExtractorKeepsIInv ==
  ASSUME IInv, NEW w \in ExtWorkers, ExtractorStep(w)
  PROVE  IInv'
<1>1. CASE \E d \in Docs : ClaimExtraction(w, d) \/ ReapExtraction(w, d)
  BY <1>1, ClaimExtractionStep, ReapExtractionStep
<1>2. CASE \/ ExtractorAnswers(w) \/ ExtractorBusy(w)
           \/ \E failure \in ExtFailures : ExtractorFails(w, failure)
           \/ ExtractionCompletionThrows(w)
  <2>1. PICK phase \in {"completing", "failing", "deferring"},
             result \in {"NONE"} \cup Verdicts \cup ValFailures \cup ExtFailures :
          /\ xheld[w].phase # "idle"
          /\ xheld' = [xheld EXCEPT ![w] = Turned(@, phase, result)]
          /\ UNCHANGED <<database, vheld>>
    BY <1>2 DEF ExtractorAnswers, ExtractorBusy, ExtractorFails, ExtractorResponds,
                ExtractionCompletionThrows, ExtFailures
  <2> DEFINE h == Turned(xheld[w], phase, result)
  <2>2. h \in Holds
    BY HeldTypes DEF IInv, TypeOK
  <2>3. h = Turned(xheld[w], phase, h.result) /\ xheld' = [xheld EXCEPT ![w] = h]
    BY <2>1 DEF Turned, Held
  <2> HIDE DEF h
  <2> QED
    BY <2>1, <2>2, <2>3, ExtractorTurns
<1>3. CASE ExtractionOutcomeRefused(w) \/ CrashExtractor(w)
  <2>1. /\ xheld[w].phase # "idle" /\ xheld' = [xheld EXCEPT ![w] = Idle]
        /\ UNCHANGED <<database, vheld>>
    BY <1>3 DEF ExtractionOutcomeRefused, CrashExtractor
  <2> QED
    BY <2>1, HeldTypes, ExtractorTurns
<1>4. CASE \E answered \in BOOLEAN : CompleteExtraction(w, answered)
  BY <1>4, CompleteExtractionStep
<1>5. CASE HeartbeatExtraction(w) \/ FailExtraction(w) \/ DeferExtraction(w)
  BY <1>5, HeartbeatExtractionStep, FailExtractionStep, DeferExtractionStep
<1> QED
  BY <1>1, <1>2, <1>3, <1>4, <1>5 DEF ExtractorStep

LEMMA NextIInv == IInv /\ [Next]_vars => IInv'
<1> SUFFICES ASSUME IInv, [Next]_vars PROVE IInv'
  OBVIOUS
<1>1. CASE Next
  BY <1>1, ValidatorKeepsIInv, ExtractorKeepsIInv, AdmitStep, DeletionStep, LinkStep, TickStep
     DEF Next, UserStep
<1>2. CASE UNCHANGED vars
  <2>1. UNCHANGED <<database, vheld, xheld>>
    BY <1>2 DEF vars
  <2>2. HandsAreFull' /\ vheld' \in [ValWorkers -> Holds] /\ xheld' \in [ExtWorkers -> Holds]
    BY <2>1 DEF IInv, HandsAreFull, TypeOK
  <2> QED
    BY <2>1, <2>2, HandsOnly
<1> QED
  BY <1>1, <1>2

\* The ledger, the evidence and the hands of the workers agree in every state
\* of every instance of the pipeline.
THEOREM Inductive == Spec => []IInv
<1> QED
  BY InitIInv, NextIInv, PTL DEF Spec

\* Every row keeps to its column's type, whatever the budget and the skews.
THEOREM TypeCorrect == Spec => []TypeOK
<1>1. IInv => TypeOK
  BY DEF IInv
<1> QED
  BY <1>1, Inductive, PTL

\* Claims, takeovers, deferrals, settlements and cancellations never let a job
\* and its attempt rows disagree.
THEOREM LedgersAgree == Spec => []LedgerAgrees
<1>1. IInv => LedgerAgrees
  BY DEF IInv
<1> QED
  BY <1>1, Inductive, PTL

\* An attestation and an extraction exist exactly when their job succeeded,
\* under the lease of the attempt that produced them.
THEOREM EvidenceIsAttributed == Spec => []EvidenceAgrees
<1>1. IInv => EvidenceAgrees
  BY DEF IInv
<1> QED
  BY <1>1, Inductive, PTL
-----------------------------------------------------------------------------
(* Action properties.                                                      *)

\* What a step of document d's jobs may find and must leave alone.
Final(d) ==
  /\ attestation[d].verdict # "NONE" => attestation'[d] = attestation[d]
  /\ extraction[d] # None => extraction'[d] = extraction[d]
  /\ vjob[d].status \in Settled => vjob'[d] = vjob[d]
  /\ xjob[d].status \in Settled => xjob'[d] = xjob[d]

LEMMA ValidatorFinal ==
  ASSUME IInv, NEW w \in ValWorkers, ValidatorStep(w), NEW e \in Docs
  PROVE  Final(e)
<1> USE DEF Final, IInv
<1>1. CASE \E d \in Docs : ClaimValidation(w, d) \/ ReapValidation(w, d)
  <2>1. PICK d \in Docs : ClaimValidation(w, d) \/ ReapValidation(w, d)
    BY <1>1
  <2>2. vjob[d].status \notin Settled
    BY <2>1 DEF ClaimValidation, ReapValidation, Due, Waiting, Settled
  <2>3. /\ e # d => vjob'[e] = vjob[e]
        /\ UNCHANGED <<attestation, extraction, xjob>>
    BY <2>1 DEF ClaimValidation, ReapValidation, TypeOK
  <2> QED
    BY <2>2, <2>3
<1>2. CASE \E answered \in BOOLEAN : CompleteValidation(w, answered)
  <2> DEFINE d == vheld[w].doc
  <2>1. PICK answered \in BOOLEAN : CompleteValidation(w, answered)
    BY <1>2
  <2>2. vjob[d].status = "RUNNING"
    BY <2>1, OwnsLast DEF CompleteValidation, ValidationCompletable
  <2>3. /\ e # d => /\ vjob'[e] = vjob[e] /\ attestation'[e] = attestation[e]
                    /\ xjob'[e] = xjob[e]
        /\ UNCHANGED extraction
    BY <2>1 DEF CompleteValidation, TypeOK
  <2>4. e = d => attestation[e].verdict = "NONE" /\ xjob[e].status = "NONE"
    BY <2>2 DEF EvidenceAgrees
  <2> QED
    BY <2>2, <2>3, <2>4 DEF Settled
<1>3. CASE HeartbeatValidation(w) \/ FailValidation(w)
  <2> DEFINE d == vheld[w].doc
  <2>1. e # d => vjob'[e] = vjob[e]
    BY <1>3 DEF HeartbeatValidation, FailValidation, TypeOK
  <2>2. vjob' = vjob \/ vjob[d].status = "RUNNING"
    BY <1>3, OwnsLast DEF HeartbeatValidation, LeaseLive, FailValidation
  <2>3. UNCHANGED <<attestation, extraction, xjob>>
    BY <1>3 DEF HeartbeatValidation, FailValidation
  <2> QED
    BY <2>1, <2>2, <2>3 DEF Settled
<1>4. CASE \/ \E verdict \in Verdicts : ValidatorAnswers(w, verdict)
           \/ \E failure \in ValFailures : ValidatorFails(w, failure)
           \/ ValidationOutcomeRefused(w) \/ ValidationCompletionThrows(w)
           \/ CrashValidator(w)
  <2>1. UNCHANGED database
    BY <1>4 DEF ValidatorAnswers, ValidatorFails, ValidationOutcomeRefused,
                ValidationCompletionThrows, CrashValidator
  <2> QED
    BY <2>1 DEF database
<1> QED
  BY <1>1, <1>2, <1>3, <1>4 DEF ValidatorStep

LEMMA ExtractorFinal ==
  ASSUME IInv, NEW w \in ExtWorkers, ExtractorStep(w), NEW e \in Docs
  PROVE  Final(e)
<1> USE DEF Final, IInv
<1>1. CASE \E d \in Docs : ClaimExtraction(w, d) \/ ReapExtraction(w, d)
  <2>1. PICK d \in Docs : ClaimExtraction(w, d) \/ ReapExtraction(w, d)
    BY <1>1
  <2>2. xjob[d].status \notin Settled
    BY <2>1 DEF ClaimExtraction, ReapExtraction, ExtractionDue, Due, Waiting, Settled
  <2>3. /\ e # d => xjob'[e] = xjob[e]
        /\ UNCHANGED <<attestation, extraction, vjob>>
    BY <2>1 DEF ClaimExtraction, ReapExtraction, TypeOK
  <2> QED
    BY <2>2, <2>3
<1>2. CASE \E answered \in BOOLEAN : CompleteExtraction(w, answered)
  <2> DEFINE d == xheld[w].doc
  <2>1. PICK answered \in BOOLEAN : CompleteExtraction(w, answered)
    BY <1>2
  <2>2. xjob[d].status = "RUNNING"
    BY <2>1, OwnsLast DEF CompleteExtraction, ExtractionCompletable
  <2>3. /\ e # d => xjob'[e] = xjob[e] /\ extraction'[e] = extraction[e]
        /\ UNCHANGED <<vjob, attestation>>
    BY <2>1 DEF CompleteExtraction, TypeOK
  <2>4. e = d => extraction[e] = None
    BY <2>2 DEF EvidenceAgrees
  <2> QED
    BY <2>2, <2>3, <2>4 DEF Settled
<1>3. CASE HeartbeatExtraction(w) \/ FailExtraction(w) \/ DeferExtraction(w)
  <2> DEFINE d == xheld[w].doc
  <2>1. e # d => xjob'[e] = xjob[e]
    BY <1>3 DEF HeartbeatExtraction, FailExtraction, DeferExtraction, TypeOK
  <2>2. xjob' = xjob \/ xjob[d].status = "RUNNING"
    BY <1>3, OwnsLast DEF HeartbeatExtraction, LeaseLive, FailExtraction, DeferExtraction
  <2>3. UNCHANGED <<attestation, extraction, vjob>>
    BY <1>3 DEF HeartbeatExtraction, FailExtraction, DeferExtraction
  <2> QED
    BY <2>1, <2>2, <2>3 DEF Settled
<1>4. CASE \/ ExtractorAnswers(w) \/ ExtractorBusy(w)
           \/ \E failure \in ExtFailures : ExtractorFails(w, failure)
           \/ ExtractionOutcomeRefused(w) \/ ExtractionCompletionThrows(w)
           \/ CrashExtractor(w)
  <2>1. UNCHANGED database
    BY <1>4 DEF ExtractorAnswers, ExtractorBusy, ExtractorFails, ExtractorResponds,
                ExtractionOutcomeRefused, ExtractionCompletionThrows, CrashExtractor
  <2> QED
    BY <2>1 DEF database
<1> QED
  BY <1>1, <1>2, <1>3, <1>4 DEF ExtractorStep

LEMMA UserFinal ==
  ASSUME IInv, UserStep \/ Tick \/ UNCHANGED vars, NEW e \in Docs
  PROVE  Final(e)
<1> USE DEF Final, IInv
<1>1. CASE \E d \in Docs : Admit(d)
  <2>1. PICK d \in Docs : Admit(d)
    BY <1>1
  <2>2. vjob[d].status \notin Settled
    BY <2>1 DEF Admit, JobsStartClean, Settled
  <2> QED
    BY <2>1, <2>2 DEF Admit, TypeOK
<1>2. CASE \E d \in Docs : deleteCrawlerCustody(d)
  <2>1. PICK d \in Docs : deleteCrawlerCustody(d)
    BY <1>2
  <2>2. \A job : job.status \in Settled => Cancelled(job) = job
    BY DEF Cancelled, Settled, Waiting
  <2>3. /\ vjob' = [vjob EXCEPT ![d] = Cancelled(vjob[d])]
        /\ xjob' = [xjob EXCEPT ![d] = Cancelled(xjob[d])]
        /\ UNCHANGED <<attestation, extraction>>
    BY <2>1 DEF deleteCrawlerCustody
  <2> QED
    BY <2>2, <2>3 DEF TypeOK
<1>3. CASE \E d \in Docs, p \in Papers : linkValidatedDocumentToWorkspacePaper(d, p)
  BY <1>3 DEF linkValidatedDocumentToWorkspacePaper
<1>4. CASE Tick
  <2>1. \A job \in Jobs : job.status \in Settled => Aged(job) = job
    BY DEF Aged, Jobs, Settled, Waiting
  <2>2. vjob'[e] = Aged(vjob[e]) /\ xjob'[e] = Aged(xjob[e])
    BY <1>4 DEF Tick
  <2>3. vjob[e] \in Jobs /\ xjob[e] \in Jobs /\ UNCHANGED <<attestation, extraction>>
    BY <1>4 DEF Tick, TypeOK
  <2> QED
    BY <2>1, <2>2, <2>3
<1>5. CASE UNCHANGED vars
  BY <1>5 DEF vars, database
<1> QED
  BY <1>1, <1>2, <1>3, <1>4, <1>5 DEF UserStep

\* No late, replayed or retried completion replaces an attestation or an
\* extraction, and no transaction moves a job that has settled.
THEOREM EvidenceStaysFinal == Spec => EvidenceIsFinal
<1>1. IInv /\ [Next]_vars =>
        [\A d \in Docs :
           /\ attestation[d].verdict # "NONE" => attestation'[d] = attestation[d]
           /\ extraction[d] # None => extraction'[d] = extraction[d]
           /\ vjob[d].status \in Settled => vjob'[d] = vjob[d]
           /\ xjob[d].status \in Settled => xjob'[d] = xjob[d]]_vars
  <2> SUFFICES ASSUME IInv, [Next]_vars, NEW d \in Docs PROVE Final(d)
    BY DEF Final
  <2> QED
    BY ValidatorFinal, ExtractorFinal, UserFinal DEF Next
<1> QED
  BY <1>1, Inductive, PTL DEF Spec, EvidenceIsFinal

LEMMA ValidatorHonoursLease ==
  ASSUME TypeOK, NEW w \in ValWorkers, NEW v \in ValWorkers, ValidatorStep(v),
         StaleVal(w), vheld'[w] # vheld[w]
  PROVE  UNCHANGED database
<1>1. CASE \E d \in Docs : ClaimValidation(v, d) \/ ReapValidation(v, d)
  BY <1>1 DEF ClaimValidation, ReapValidation, StaleVal, TypeOK
<1>2. CASE \E answered \in BOOLEAN : CompleteValidation(v, answered)
  <2>1. v = w
    BY <1>2 DEF CompleteValidation, TypeOK
  <2> QED
    BY <1>2, <2>1 DEF CompleteValidation, ValidationCompletable, Owns, LeaseLive, Expired,
                      StaleVal, Lost
<1>3. CASE HeartbeatValidation(v)
  BY <1>3 DEF HeartbeatValidation
<1>4. CASE FailValidation(v)
  <2>1. v = w
    BY <1>4 DEF FailValidation, TypeOK
  <2>2. ~Owns(vjob[vheld[w].doc], vrow[vheld[w].doc], vheld[w], w, Skew[w])
    BY DEF Owns, LeaseLive, Expired, StaleVal, Lost
  <2> QED
    BY <1>4, <2>1, <2>2 DEF FailValidation, database
<1>5. CASE \/ \E verdict \in Verdicts : ValidatorAnswers(v, verdict)
           \/ \E failure \in ValFailures : ValidatorFails(v, failure)
           \/ ValidationOutcomeRefused(v) \/ ValidationCompletionThrows(v)
           \/ CrashValidator(v)
  BY <1>5 DEF ValidatorAnswers, ValidatorFails, ValidationOutcomeRefused,
              ValidationCompletionThrows, CrashValidator
<1> QED
  BY <1>1, <1>2, <1>3, <1>4, <1>5 DEF ValidatorStep

LEMMA ExtractorHonoursLease ==
  ASSUME TypeOK, NEW w \in ExtWorkers, NEW v \in ExtWorkers, ExtractorStep(v),
         StaleExt(w), xheld'[w] # xheld[w]
  PROVE  UNCHANGED database
<1>1. CASE \E d \in Docs : ClaimExtraction(v, d) \/ ReapExtraction(v, d)
  BY <1>1 DEF ClaimExtraction, ReapExtraction, ExtractionDue, StaleExt, TypeOK
<1>2. CASE \E answered \in BOOLEAN : CompleteExtraction(v, answered)
  <2>1. v = w
    BY <1>2 DEF CompleteExtraction, TypeOK
  <2> QED
    BY <1>2, <2>1 DEF CompleteExtraction, ExtractionCompletable, Owns, LeaseLive, Expired,
                      StaleExt, Lost
<1>3. CASE HeartbeatExtraction(v)
  BY <1>3 DEF HeartbeatExtraction
<1>4. CASE FailExtraction(v) \/ DeferExtraction(v)
  <2>1. v = w
    BY <1>4 DEF FailExtraction, DeferExtraction, TypeOK
  <2>2. ~Owns(xjob[xheld[w].doc], xrow[xheld[w].doc], xheld[w], w, 0)
    BY DEF Owns, LeaseLive, Expired, StaleExt, Lost
  <2> QED
    BY <1>4, <2>1, <2>2 DEF FailExtraction, DeferExtraction, database
<1>5. CASE \/ ExtractorAnswers(v) \/ ExtractorBusy(v)
           \/ \E failure \in ExtFailures : ExtractorFails(v, failure)
           \/ ExtractionOutcomeRefused(v) \/ ExtractionCompletionThrows(v)
           \/ CrashExtractor(v)
  BY <1>5 DEF ExtractorAnswers, ExtractorBusy, ExtractorFails, ExtractorResponds,
              ExtractionOutcomeRefused, ExtractionCompletionThrows, CrashExtractor
<1> QED
  BY <1>1, <1>2, <1>3, <1>4, <1>5 DEF ExtractorStep

LEMMA OthersKeepHands ==
  ASSUME [Next]_vars
  PROVE  /\ vheld' # vheld => \E v \in ValWorkers : ValidatorStep(v)
         /\ xheld' # xheld => \E v \in ExtWorkers : ExtractorStep(v)
<1>1. CASE \E v \in ValWorkers : ValidatorStep(v)
  BY <1>1 DEF ValidatorStep, ClaimValidation, ReapValidation, ValidatorAnswers, ValidatorFails,
              CompleteValidation, HeartbeatValidation, ValidationOutcomeRefused,
              ValidationCompletionThrows, FailValidation, CrashValidator
<1>2. CASE \E v \in ExtWorkers : ExtractorStep(v)
  BY <1>2 DEF ExtractorStep, ClaimExtraction, ReapExtraction, ExtractorAnswers, ExtractorBusy,
              ExtractorFails, ExtractorResponds, CompleteExtraction, HeartbeatExtraction,
              ExtractionOutcomeRefused, ExtractionCompletionThrows, FailExtraction,
              DeferExtraction, CrashExtractor
<1>3. CASE UserStep \/ Tick \/ UNCHANGED vars
  BY <1>3 DEF UserStep, Admit, deleteCrawlerCustody, linkValidatedDocumentToWorkspacePaper,
              Tick, vars
<1> QED
  BY <1>1, <1>2, <1>3 DEF Next

\* A fresh lease is not the one its job had.
LEMMA FreshLeaseIsNew ==
  ASSUME IInv, FreshLeases # {}, NEW d \in Docs
  PROVE  FreshLease # vjob[d].lease /\ FreshLease # xjob[d].lease
<1> USE DEF IInv
<1>1. FreshLease \in LeaseIds /\ FreshLease \notin UsedLeases
  BY FreshLeaseType
<1>2. FreshLease # vjob[d].lease
  <2>1. CASE vjob[d].status = "RUNNING"
    <3>1. vjob[d].attempts \in 1..MaxAttempts
      BY <2>1, BoundsAssumption DEF LedgerAgrees, Ledger, TypeOK, Jobs
    <3>2. vrow[d][vjob[d].attempts].lease = vjob[d].lease
      BY <2>1, <3>1 DEF LedgerAgrees, Ledger
    <3> QED
      BY <1>1, <3>1, <3>2 DEF UsedLeases
  <2>2. CASE vjob[d].status # "RUNNING"
    BY <1>1, <2>2, NoneAssumption DEF LedgerAgrees, Ledger
  <2> QED
    BY <2>1, <2>2
<1>3. FreshLease # xjob[d].lease
  <2>1. CASE xjob[d].status = "RUNNING"
    <3>1. xjob[d].attempts \in 1..MaxAttempts
      BY <2>1, BoundsAssumption DEF LedgerAgrees, Ledger, TypeOK, Jobs
    <3>2. xrow[d][xjob[d].attempts].lease = xjob[d].lease
      BY <2>1, <3>1 DEF LedgerAgrees, Ledger
    <3> QED
      BY <1>1, <3>1, <3>2 DEF UsedLeases
  <2>2. CASE xjob[d].status # "RUNNING"
    BY <1>1, <2>2, NoneAssumption DEF LedgerAgrees, Ledger
  <2> QED
    BY <2>1, <2>2
<1> QED
  BY <1>2, <1>3

\* A validator extends a lease by a heartbeat only.
LEMMA ValidatorExtends ==
  ASSUME IInv, NEW v \in ValWorkers, ValidatorStep(v), NEW e \in Docs
  PROVE  /\ Extended(vjob[e], vjob'[e]) => HeartbeatValidation(v) /\ vheld[v].doc = e
         /\ ~Extended(xjob[e], xjob'[e])
<1> USE DEF IInv
<1>1. vjob[e] \in Jobs /\ xjob[e] \in Jobs
  BY DEF TypeOK
<1>2. \A job \in Jobs : ~Extended(job, job)
  BY DEF Extended, Jobs
<1>3. \A job, status, n, wait : status # "RUNNING" => ~Extended(job, Job(status, n, wait))
  BY DEF Extended, Job
<1>4. CASE \E d \in Docs : ClaimValidation(v, d)
  <2>1. PICK d \in Docs : ClaimValidation(v, d)
    BY <1>4
  <2>2. vjob'[d].lease # vjob[d].lease
    BY <2>1, FreshLeaseIsNew DEF ClaimValidation, Leased, TypeOK
  <2>3. (e # d => vjob'[e] = vjob[e]) /\ xjob' = xjob
    BY <2>1 DEF ClaimValidation, TypeOK
  <2> QED
    BY <1>1, <1>2, <2>2, <2>3 DEF Extended
<1>5. CASE \E d \in Docs : ReapValidation(v, d)
  <2>1. PICK d \in Docs : ReapValidation(v, d)
    BY <1>5
  <2>2. /\ vjob'[e] = IF e = d THEN Job("DEAD_LETTER", vjob[d].attempts, 0) ELSE vjob[e]
        /\ xjob' = xjob
    BY <2>1 DEF ReapValidation, TypeOK
  <2> QED
    BY <1>1, <1>2, <1>3, <2>2
<1>6. CASE \E answered \in BOOLEAN : CompleteValidation(v, answered)
  <2>1. PICK answered \in BOOLEAN : CompleteValidation(v, answered)
    BY <1>6
  <2>2. /\ vjob'[e] = IF e = vheld[v].doc THEN Job("SUCCEEDED", vjob[e].attempts, 0) ELSE vjob[e]
        /\ xjob'[e] \in {xjob[e], Job("QUEUED", 0, Skew[v])}
    BY <2>1 DEF CompleteValidation, TypeOK
  <2> QED
    BY <1>1, <1>2, <1>3, <2>2
<1>7. CASE FailValidation(v)
  <2>1. xjob' = xjob /\ (e # vheld[v].doc => vjob'[e] = vjob[e])
    BY <1>7 DEF FailValidation, TypeOK
  <2>2. \/ vjob' = vjob
        \/ \E status \in {"RETRYING", "DEAD_LETTER"} : \E n, wait :
             vjob' = [vjob EXCEPT ![vheld[v].doc] = Job(status, n, wait)]
    BY <1>7 DEF FailValidation
  <2> QED
    BY <1>1, <1>2, <1>3, <2>1, <2>2 DEF TypeOK
<1>8. CASE HeartbeatValidation(v)
  <2>1. xjob' = xjob /\ (e # vheld[v].doc => vjob'[e] = vjob[e])
    BY <1>8 DEF HeartbeatValidation, TypeOK
  <2> QED
    BY <1>1, <1>2, <1>8, <2>1
<1>9. CASE \/ \E verdict \in Verdicts : ValidatorAnswers(v, verdict)
           \/ \E failure \in ValFailures : ValidatorFails(v, failure)
           \/ ValidationOutcomeRefused(v) \/ ValidationCompletionThrows(v)
           \/ CrashValidator(v)
  <2>1. UNCHANGED <<vjob, xjob>>
    BY <1>9 DEF ValidatorAnswers, ValidatorFails, ValidationOutcomeRefused,
                ValidationCompletionThrows, CrashValidator, database
  <2> QED
    BY <1>1, <1>2, <2>1
<1> QED
  BY <1>4, <1>5, <1>6, <1>7, <1>8, <1>9 DEF ValidatorStep

\* And so does an extractor.
LEMMA ExtractorExtends ==
  ASSUME IInv, NEW v \in ExtWorkers, ExtractorStep(v), NEW e \in Docs
  PROVE  /\ Extended(xjob[e], xjob'[e]) => HeartbeatExtraction(v) /\ xheld[v].doc = e
         /\ ~Extended(vjob[e], vjob'[e])
<1> USE DEF IInv
<1>1. vjob[e] \in Jobs /\ xjob[e] \in Jobs
  BY DEF TypeOK
<1>2. \A job \in Jobs : ~Extended(job, job)
  BY DEF Extended, Jobs
<1>3. \A job, status, n, wait : status # "RUNNING" => ~Extended(job, Job(status, n, wait))
  BY DEF Extended, Job
<1>4. CASE \E d \in Docs : ClaimExtraction(v, d)
  <2>1. PICK d \in Docs : ClaimExtraction(v, d)
    BY <1>4
  <2>2. xjob'[d].lease # xjob[d].lease
    BY <2>1, FreshLeaseIsNew DEF ClaimExtraction, Leased, TypeOK
  <2>3. (e # d => xjob'[e] = xjob[e]) /\ vjob' = vjob
    BY <2>1 DEF ClaimExtraction, TypeOK
  <2> QED
    BY <1>1, <1>2, <2>2, <2>3 DEF Extended
<1>5. CASE \E d \in Docs : ReapExtraction(v, d)
  <2>1. PICK d \in Docs : ReapExtraction(v, d)
    BY <1>5
  <2>2. /\ xjob'[e] = IF e = d THEN Job("DEAD_LETTER", xjob[d].attempts, 0) ELSE xjob[e]
        /\ vjob' = vjob
    BY <2>1 DEF ReapExtraction, TypeOK
  <2> QED
    BY <1>1, <1>2, <1>3, <2>2
<1>6. CASE \/ \E answered \in BOOLEAN : CompleteExtraction(v, answered)
           \/ FailExtraction(v) \/ DeferExtraction(v)
  <2>1. vjob' = vjob /\ (e # xheld[v].doc => xjob'[e] = xjob[e])
    BY <1>6 DEF CompleteExtraction, FailExtraction, DeferExtraction, TypeOK
  <2>2. \/ xjob' = xjob
        \/ \E status \in {"RETRYING", "DEAD_LETTER", "SUCCEEDED"} : \E n, wait :
             xjob' = [xjob EXCEPT ![xheld[v].doc] = Job(status, n, wait)]
    BY <1>6 DEF CompleteExtraction, FailExtraction, DeferExtraction
  <2> QED
    BY <1>1, <1>2, <1>3, <2>1, <2>2 DEF TypeOK
<1>7. CASE HeartbeatExtraction(v)
  <2>1. vjob' = vjob /\ (e # xheld[v].doc => xjob'[e] = xjob[e])
    BY <1>7 DEF HeartbeatExtraction, TypeOK
  <2> QED
    BY <1>1, <1>2, <1>7, <2>1
<1>8. CASE \/ ExtractorAnswers(v) \/ ExtractorBusy(v)
           \/ \E failure \in ExtFailures : ExtractorFails(v, failure)
           \/ ExtractionOutcomeRefused(v) \/ ExtractionCompletionThrows(v)
           \/ CrashExtractor(v)
  <2>1. UNCHANGED <<vjob, xjob>>
    BY <1>8 DEF ExtractorAnswers, ExtractorBusy, ExtractorFails, ExtractorResponds,
                ExtractionOutcomeRefused, ExtractionCompletionThrows, CrashExtractor, database
  <2> QED
    BY <1>1, <1>2, <2>1
<1> QED
  BY <1>4, <1>5, <1>6, <1>7, <1>8 DEF ExtractorStep

\* Neither a user nor the clock extends a lease.
LEMMA UserExtends ==
  ASSUME TypeOK, UserStep \/ Tick \/ UNCHANGED vars, NEW e \in Docs
  PROVE  ~Extended(vjob[e], vjob'[e]) /\ ~Extended(xjob[e], xjob'[e])
<1>1. vjob[e] \in Jobs /\ xjob[e] \in Jobs
  BY DEF TypeOK
<1>2. \A job \in Jobs : ~Extended(job, job) /\ ~Extended(job, Cancelled(job))
  BY DEF Extended, Jobs, Cancelled, Job
<1>3. \A job \in Jobs : ~Extended(job, Aged(job))
  <2>1. \A x \in Int : ~(Down(x) > x)
    BY BoundsAssumption DEF Down
  <2> QED
    BY <2>1 DEF Extended, Aged, Jobs
<1>4. CASE \E d \in Docs : Admit(d)
  <2>1. vjob'[e] \in {vjob[e], Job("QUEUED", 0, 0)} /\ xjob' = xjob
    BY <1>4 DEF Admit, TypeOK
  <2>2. ~Extended(vjob[e], Job("QUEUED", 0, 0))
    BY DEF Extended, Job
  <2> QED
    BY <1>1, <1>2, <2>1, <2>2
<1>5. CASE \E d \in Docs : deleteCrawlerCustody(d)
  <2>1. /\ vjob'[e] \in {vjob[e], Cancelled(vjob[e])}
        /\ xjob'[e] \in {xjob[e], Cancelled(xjob[e])}
    BY <1>5 DEF deleteCrawlerCustody, TypeOK
  <2> QED
    BY <1>1, <1>2, <2>1
<1>6. CASE \E d \in Docs, p \in Papers : linkValidatedDocumentToWorkspacePaper(d, p)
  BY <1>1, <1>2, <1>6 DEF linkValidatedDocumentToWorkspacePaper
<1>7. CASE Tick
  BY <1>1, <1>3, <1>7 DEF Tick
<1>8. CASE UNCHANGED vars
  BY <1>1, <1>2, <1>8 DEF vars, database
<1> QED
  BY <1>4, <1>5, <1>6, <1>7, <1>8 DEF UserStep

\* docs/UPLOAD-INTAKE.md: a stale worker cannot heartbeat, complete, reject or
\* promote after losing its lease, however late its step and whatever its
\* host's clock says.
THEOREM StaleWorkersAreFenced == Spec => StaleWorkersChangeNothing
<1>1. IInv /\ [Next]_vars =>
        [/\ \A w \in ValWorkers :
              StaleVal(w) /\ vheld'[w] # vheld[w] => UNCHANGED database
         /\ \A w \in ExtWorkers :
              StaleExt(w) /\ xheld'[w] # xheld[w] => UNCHANGED database
         /\ \A d \in Docs : Extended(vjob[d], vjob'[d]) =>
              \E w \in ValWorkers : vheld[w].phase = "working" /\ vheld[w].doc = d /\ ~StaleVal(w)
         /\ \A d \in Docs : Extended(xjob[d], xjob'[d]) =>
              \E w \in ExtWorkers : xheld[w].phase = "working" /\ xheld[w].doc = d /\ ~StaleExt(w)
        ]_vars
  <2> SUFFICES ASSUME IInv, [Next]_vars
               PROVE  /\ \A w \in ValWorkers :
                           StaleVal(w) /\ vheld'[w] # vheld[w] => UNCHANGED database
                      /\ \A w \in ExtWorkers :
                           StaleExt(w) /\ xheld'[w] # xheld[w] => UNCHANGED database
                      /\ \A d \in Docs : Extended(vjob[d], vjob'[d]) =>
                           \E w \in ValWorkers :
                             vheld[w].phase = "working" /\ vheld[w].doc = d /\ ~StaleVal(w)
                      /\ \A d \in Docs : Extended(xjob[d], xjob'[d]) =>
                           \E w \in ExtWorkers :
                             xheld[w].phase = "working" /\ xheld[w].doc = d /\ ~StaleExt(w)
    OBVIOUS
  <2>1. /\ \A w \in ValWorkers : StaleVal(w) /\ vheld'[w] # vheld[w] => UNCHANGED database
        /\ \A w \in ExtWorkers : StaleExt(w) /\ xheld'[w] # xheld[w] => UNCHANGED database
    BY OthersKeepHands, ValidatorHonoursLease, ExtractorHonoursLease DEF IInv
  <2>2. ASSUME NEW w \in ValWorkers, HeartbeatValidation(w)
        PROVE  vheld[w].phase = "working" /\ ~StaleVal(w)
    <3>1. vjob[vheld[w].doc].left \in Int /\ Skew[w] \in Int
      BY <2>2, BoundsAssumption DEF IInv, HandsAreFull, TypeOK, Jobs, HeartbeatValidation
    <3> QED
      BY <2>2, <3>1 DEF HeartbeatValidation, LeaseLive, Expired, StaleVal, Lost
  <2>3. ASSUME NEW w \in ExtWorkers, HeartbeatExtraction(w)
        PROVE  xheld[w].phase = "working" /\ ~StaleExt(w)
    <3>1. xjob[xheld[w].doc].left \in Int
      BY <2>3 DEF IInv, HandsAreFull, TypeOK, Jobs, HeartbeatExtraction
    <3> QED
      BY <2>3, <3>1 DEF HeartbeatExtraction, LeaseLive, Expired, StaleExt, Lost
  <2>4. ASSUME NEW d \in Docs
        PROVE  /\ Extended(vjob[d], vjob'[d]) => \E w \in ValWorkers :
                    vheld[w].phase = "working" /\ vheld[w].doc = d /\ ~StaleVal(w)
               /\ Extended(xjob[d], xjob'[d]) => \E w \in ExtWorkers :
                    xheld[w].phase = "working" /\ xheld[w].doc = d /\ ~StaleExt(w)
    <3>1. CASE \E v \in ValWorkers : ValidatorStep(v)
      BY <2>2, <3>1, ValidatorExtends
    <3>2. CASE \E v \in ExtWorkers : ExtractorStep(v)
      BY <2>3, <3>2, ExtractorExtends
    <3>3. CASE UserStep \/ Tick \/ UNCHANGED vars
      BY <3>3, UserExtends DEF IInv
    <3> QED
      BY <3>1, <3>2, <3>3 DEF Next
  <2> QED
    BY <2>1, <2>4
<1> QED
  BY <1>1, Inductive, PTL DEF Spec, StaleWorkersChangeNothing
=============================================================================
