--------------------- MODULE DocumentPipelineProperties ---------------------
(***************************************************************************)
(* What must be true of the document pipeline, and the abstract promise it *)
(* implements.                                                             *)
(***************************************************************************)
EXTENDS DocumentPipeline

Jobs == [status : JobStatuses, attempts : 0..MaxAttempts, lease : LeaseIds \cup {None},
         holder : ValWorkers \cup ExtWorkers \cup {None}, left : Int, wait : Int]
Rows == [status : RowStatuses, lease : LeaseIds \cup {None}]
Holds == [phase : {"idle", "working", "completing", "failing", "deferring"},
          doc : Docs \cup {None}, lease : LeaseIds \cup {None}, n : 0..MaxAttempts,
          result : {"NONE"} \cup Verdicts \cup ValFailures \cup ExtFailures]

\* Every row holds values of its columns' types.
TypeOK ==
  /\ doc \in [Docs -> {"PENDING", "PROCESSING", "READY", "FAILED", "ARCHIVED"}]
  /\ asset \in [Docs -> {"UPLOADING", "QUARANTINED", "SCANNING", "READY", "REJECTED"}]
  /\ life \in [Docs -> Lives]
  /\ paper \in [Docs -> Papers \cup {None}]
  /\ custody \in [Docs -> {"RETAINED", "DELETE_PENDING"}]
  /\ vjob \in [Docs -> Jobs] /\ vrow \in [Docs -> [1..MaxAttempts -> Rows]]
  /\ attestation \in [Docs -> [verdict : {"NONE"} \cup Verdicts, attempt : LeaseIds \cup {None}]]
  /\ xjob \in [Docs -> Jobs] /\ xrow \in [Docs -> [1..MaxAttempts -> Rows]]
  /\ pin \in [Docs -> Toolchains \cup {None}]
  /\ extraction \in [Docs -> LeaseIds \cup {None}]
  /\ vheld \in [ValWorkers -> Holds] /\ xheld \in [ExtWorkers -> Holds]
-----------------------------------------------------------------------------
(* Invariants.                                                             *)

Ledger(job, rows) ==
  /\ job.status = "RUNNING" <=> job.lease # None
  /\ \A n \in 1..MaxAttempts :
       /\ rows[n].status # "NONE" <=> n <= job.attempts
       /\ rows[n].status = "RUNNING" <=> job.status = "RUNNING" /\ n = job.attempts
       /\ rows[n].status = "SUCCEEDED" <=> job.status = "SUCCEEDED" /\ n = job.attempts
       /\ rows[n].status = "RUNNING" => rows[n].lease = job.lease
  /\ job.status \in {"RUNNING", "SUCCEEDED"} => job.attempts > 0
  /\ job.status \in Waiting => ~Exhausted(job)

\* The attempt ledger never disagrees with its job: exactly the attempts that
\* were claimed have a row, only the last can be running or have succeeded, a
\* running one carries the job's lease, and a job that waits has budget left.
\* Claims, reaping, deferral (which takes a row back) and cancellation each
\* rewrite both.
LedgerAgrees == \A d \in Docs : Ledger(vjob[d], vrow[d]) /\ Ledger(xjob[d], xrow[d])

\* The custody rows of a retained document are those its validation job calls
\* for: a worker that dies, is reaped or reports late never leaves an asset in
\* scanning or a document in processing behind, and only an accepted
\* attestation makes both READY.
ExpectedCustody(d) ==
  CASE vjob[d].status = "NONE"      -> {<<"UPLOADING", "PENDING">>}
    [] vjob[d].status \in Waiting   -> {<<"QUARANTINED", "PENDING">>}
    [] vjob[d].status = "RUNNING"   -> {<<"SCANNING", "PROCESSING">>}
    [] vjob[d].status = "SUCCEEDED" ->
         IF attestation[d].verdict = "ACCEPTED" THEN {<<"READY", "READY">>}
                                                ELSE {<<"REJECTED", "FAILED">>}
    [] OTHER -> {<<"QUARANTINED", "FAILED">>, <<"REJECTED", "FAILED">>}
CustodyAgrees ==
  \A d \in Docs : custody[d] = "RETAINED" => <<asset[d], doc[d]>> \in ExpectedCustody(d)

\* The intake status a retained document's two jobs call for.
ExpectedIntake(d) ==
  CASE vjob[d].status = "NONE"                   -> "RECEIVING"
    [] vjob[d].status = "QUEUED"                 -> "QUARANTINED"
    [] vjob[d].status \in {"RUNNING", "RETRYING"} -> "VALIDATING"
    [] vjob[d].status = "DEAD_LETTER" \/ attestation[d].verdict = "REJECTED" -> "FAILED"
    [] xjob[d].status = "SUCCEEDED"              -> "READY"
    [] xjob[d].status = "DEAD_LETTER"            -> "ATTENTION"
    [] OTHER                                     -> "EXTRACTING"

ExpectedBatch(d, intake) ==
  IF ~HasBatch[d] THEN "NONE"
  ELSE CASE intake = "READY" -> "SUCCEEDED" [] intake = "ATTENTION" -> "PARTIAL"
         [] intake = "FAILED" -> "FAILED" [] OTHER -> "RUNNING"

\* No transition of a job forgets the lifecycle rows and none of them is ahead
\* of its job: intake, import and batch of a retained document are a function
\* of the two jobs, whichever worker moved them, on time or late.
LifeAgrees(d, l) ==
  /\ l.intake = ExpectedIntake(d)
  /\ l.batch = ExpectedBatch(d, l.intake)
  /\ SourceOf[d] = "BROWSER_UPLOAD" => l.import = "NONE"
  /\ SourceOf[d] # "BROWSER_UPLOAD" /\ l.intake # "RECEIVING" => l.import = l.intake
  /\ l.inbox \in IF l.intake = "FAILED" THEN {"FAILED"} ELSE {"NEEDS_REVIEW", "IMPORTED"}
LifecycleAgrees == \A d \in Docs : custody[d] = "RETAINED" => LifeAgrees(d, life[d])

\* Evidence names the attempt that produced it: an attestation exists exactly
\* when its job succeeded, under the lease of the attempt that succeeded; an
\* extraction likewise, and only on top of an accepted validation.
EvidenceAgrees ==
  \A d \in Docs :
    /\ attestation[d].verdict # "NONE" <=> vjob[d].status = "SUCCEEDED"
    /\ vjob[d].status = "SUCCEEDED" =>
         vrow[d][vjob[d].attempts] = Row("SUCCEEDED", attestation[d].attempt)
    /\ xjob[d].status # "NONE" <=> attestation[d].verdict = "ACCEPTED"
    /\ extraction[d] # None <=> xjob[d].status = "SUCCEEDED"
    /\ extraction[d] # None => xrow[d][xjob[d].attempts] = Row("SUCCEEDED", extraction[d])

\* A paper has at most one document that is not archived, and a linked
\* document is one whose validation was accepted; archiving a document frees
\* its paper for another.
LinksAreSound ==
  /\ \A d, e \in Docs :
       paper[d] = paper[e] /\ paper[d] # None /\ "ARCHIVED" \notin {doc[d], doc[e]} => d = e
  /\ \A d \in Docs : paper[d] # None /\ doc[d] # "ARCHIVED" =>
       currentAcceptedValidation(d) /\ life[d].inbox = "IMPORTED"

\* README.md: "After validation, use the Inbox's explicit link control to
\* associate the PDF with one existing visible workspace paper."  An accepted
\* upload that waits for review can be linked to any paper nothing else holds.
ValidatedUploadsAreLinkable ==
  \A d \in Docs, p \in Papers :
    /\ SourceOf[d] = "BROWSER_UPLOAD" /\ currentAcceptedValidation(d)
    /\ life[d].inbox = "NEEDS_REVIEW" /\ ~PaperTaken(d, p)
    => LinkAdmissible(d, p)

\* The stage documentUploadStage derives for a stored upload.
documentUploadStage(d) ==
  IF asset[d] = "REJECTED" \/ doc[d] \in {"FAILED", "ARCHIVED"} THEN "failed"
  ELSE IF asset[d] = "READY" /\ doc[d] = "READY" THEN "ready"
  ELSE IF asset[d] = "SCANNING" \/ doc[d] = "PROCESSING" THEN "validating"
  ELSE IF asset[d] = "QUARANTINED" /\ doc[d] = "PENDING" THEN "quarantined"
  ELSE "failed"

\* The stage shown to the browser is never the fail-closed answer to a
\* contradiction, and never lags the intake: it reads "failed" exactly when the
\* intake failed, and "ready" exactly when every later boundary would accept
\* the validation.
StageIsHonest ==
  \A d \in Docs : SourceOf[d] = "BROWSER_UPLOAD" /\ life[d].intake # "RECEIVING" =>
    /\ documentUploadStage(d) = "failed" <=> life[d].intake = "FAILED"
    /\ documentUploadStage(d) = "ready" <=> currentAcceptedValidation(d)
    /\ documentUploadStage(d) = "validating" <=> vjob[d].status = "RUNNING"

\* The custody rows and the stage derived from them are those the validation
\* job calls for.
CustodyIsHonest == CustodyAgrees /\ StageIsHonest
-----------------------------------------------------------------------------
(* Action properties.                                                      *)

\* docs/UPLOAD-INTAKE.md: "A stale worker cannot heartbeat, complete, reject,
\* or promote after losing its lease."  A step that a worker takes with a lease
\* that was taken over, released, cancelled or has expired on its clock leaves
\* the database as it is; and only a worker that has not lost it extends a lease.
Lost(job, h, skew) == job.lease # h.lease \/ job.left <= skew
StaleVal(w) == vheld[w].phase # "idle" /\ Lost(vjob[vheld[w].doc], vheld[w], Skew[w])
StaleExt(w) == xheld[w].phase # "idle" /\ Lost(xjob[xheld[w].doc], xheld[w], 0)
Extended(job, next) ==
  next.status = "RUNNING" /\ next.lease = job.lease /\ next.left > job.left
StaleWorkersChangeNothing ==
  [][/\ \A w \in ValWorkers :
          StaleVal(w) /\ vheld'[w] # vheld[w] => UNCHANGED database
     /\ \A w \in ExtWorkers :
          StaleExt(w) /\ xheld'[w] # xheld[w] => UNCHANGED database
     /\ \A d \in Docs : Extended(vjob[d], vjob'[d]) =>
          \E w \in ValWorkers : vheld[w].phase = "working" /\ vheld[w].doc = d /\ ~StaleVal(w)
     /\ \A d \in Docs : Extended(xjob[d], xjob'[d]) =>
          \E w \in ExtWorkers : xheld[w].phase = "working" /\ xheld[w].doc = d /\ ~StaleExt(w)]_vars

\* An attestation or an extraction, once recorded, is never replaced, whatever
\* a late, retried or replayed completion does; nor does a job leave a settled
\* status.
EvidenceIsFinal ==
  [][\A d \in Docs :
       /\ attestation[d].verdict # "NONE" => attestation'[d] = attestation[d]
       /\ extraction[d] # None => extraction'[d] = extraction[d]
       /\ vjob[d].status \in Settled => vjob'[d] = vjob[d]
       /\ xjob[d].status \in Settled => xjob'[d] = xjob[d]]_vars

\* No transaction of the pipeline runs into the DocumentIntake_update_guard
\* trigger, which would abort it and leave the worker retrying for ever.
IntakeGuardNeverTrips ==
  [][\A d \in Docs : IntakeStepAllowed(life[d].intake, life'[d].intake)]_vars

\* A document the user has imported stays imported while extraction retries,
\* defers or ends in ATTENTION behind it; only deleting its custody undoes it.
ImportSurvivesExtraction ==
  [][\A d \in Docs : life[d].inbox = "IMPORTED" /\ custody'[d] = "RETAINED" =>
       life'[d].inbox = "IMPORTED" /\ paper'[d] = paper[d]]_vars

\* Projecting a job onto the lifecycle rows neither fails nor takes back what
\* the user decided.
ProjectionsAreSafe == IntakeGuardNeverTrips /\ ImportSurvivesExtraction

\* deleteCrawlerCustody: "either adoption commits first and is cleaned or
\* deletion wins and every later adoption is fenced".  After the deletion
\* nothing a worker or a user still does moves the document, its jobs, its
\* lifecycle or its evidence.
DeletionFences ==
  [][\A d \in Docs : custody[d] = "DELETE_PENDING" =>
       /\ doc'[d] = doc[d] /\ asset'[d] = asset[d] /\ life'[d] = life[d]
       /\ vjob'[d] = vjob[d] /\ vrow'[d] = vrow[d] /\ xjob'[d] = xjob[d] /\ xrow'[d] = xrow[d]
       /\ attestation'[d] = attestation[d] /\ extraction'[d] = extraction[d]
       /\ paper'[d] = paper[d] /\ custody'[d] = custody[d]]_vars
-----------------------------------------------------------------------------
(* The promise.                                                            *)

StageOf(d) ==
  IF custody[d] = "DELETE_PENDING" THEN "withdrawn"
  ELSE CASE life[d].intake = "RECEIVING" -> "receiving"
         [] life[d].intake \in {"QUARANTINED", "VALIDATING"} -> "held"
         [] life[d].intake = "EXTRACTING" -> "accepted"
         [] life[d].intake = "READY" -> "readable"
         [] life[d].intake = "ATTENTION" -> "unreadable"
         [] OTHER -> "refused"

Promise == INSTANCE DocumentPromise WITH
  Withdrawable <- {d \in Docs : SourceOf[d] = "CRAWLER"},
  stage <- [d \in Docs |-> StageOf(d)],
  verdict <- [d \in Docs |-> attestation[d].verdict],
  text <- [d \in Docs |-> extraction[d] # None]

\* The pipeline, seen from outside, does what DocumentPromise says and nothing
\* else: jobs, leases, retries and crashes are all stuttering.
ImplementsPromise == Promise!Spec
-----------------------------------------------------------------------------
(* Liveness.                                                               *)

\* The processes are supervised and poll: a worker that can claim does, one
\* that has work finishes it (the services' clients have timeouts) and reports
\* it.  Nothing forces a crash, a heartbeat or a user.
ValidatorProgress(w) ==
  \/ \E d \in Docs : ClaimValidation(w, d) \/ ReapValidation(w, d)
  \/ \E verdict \in Verdicts : ValidatorAnswers(w, verdict)
  \/ \E failure \in ValFailures : ValidatorFails(w, failure)
  \/ CompleteValidation(w, TRUE) \/ ValidationOutcomeRefused(w) \/ FailValidation(w)

ExtractorProgress(w) ==
  \/ \E d \in Docs : ClaimExtraction(w, d) \/ ReapExtraction(w, d)
  \/ CompleteExtraction(w, TRUE) \/ ExtractionOutcomeRefused(w)
  \/ FailExtraction(w) \/ DeferExtraction(w)

\* The extractor declines some requests, but not every one for ever.
ExtractorServes(w) ==
  ExtractorAnswers(w) \/ \E failure \in ExtFailures : ExtractorFails(w, failure)

FairSpec == /\ Spec /\ WF_vars(Tick)
            /\ \A w \in ValWorkers : WF_vars(ValidatorProgress(w))
            /\ \A w \in ExtWorkers : WF_vars(ExtractorProgress(w)) /\ SF_vars(ExtractorServes(w))

\* A document in custody does not stay "validating" or "extracting" for ever,
\* whatever crashes, expires or is deferred on the way: the pipeline does all
\* the promise says, its fairness included.
KeepsPromise == Promise!FairSpec
=============================================================================
