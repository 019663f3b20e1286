-------------------------- MODULE DocumentPipeline --------------------------
(***************************************************************************)
(* What happens to a PDF after its bytes have been received into private   *)
(* quarantine, until it is readable, refused or withdrawn:                 *)
(*                                                                         *)
(*  - the DOCUMENT_VALIDATE job (src/server/documents/validation-jobs.ts)  *)
(*    and the worker process that runs it;                                 *)
(*  - the TEXT_EXTRACTION job (src/server/documents/extraction-jobs.ts)    *)
(*    that an accepted validation enqueues, and its worker;                *)
(*  - the link of an accepted document to a paper of the workspace         *)
(*    (src/server/documents/document-paper-link.ts);                       *)
(*  - the user's deletion of a crawled document's custody                  *)
(*    (src/server/integrations/web-source/crawler-custody-deletion.ts).    *)
(*                                                                         *)
(* Every exported function of the jobs is one PostgreSQL transaction that  *)
(* first locks the Job row, so it is one action here.  Everything between  *)
(* two transactions interleaves: a worker that holds a lease and is slow,  *)
(* dead or cut off from the database is a record in "vheld" or "xheld"     *)
(* that no longer agrees with the Job row.                                 *)
(*                                                                         *)
(* Time is relative.  A job counts down the ticks until its lease expires  *)
(* ("left") or until it may run ("wait").  Extraction reads the clock of   *)
(* the database; validation compares timestamps with the clock of the      *)
(* worker's host, which Skew[w] ticks tell from the database's.            *)
(***************************************************************************)
EXTENDS Integers, IntakeLifecycle

CONSTANTS
  Docs,            \* documents under custody
  SourceOf,        \* the transport that brought each of them
  HasBatch,        \* whether its intake has an import batch
  Papers,          \* papers of the workspace a document can be linked to
  ValWorkers,      \* validation worker processes
  ExtWorkers,      \* extraction worker processes
  PinOf,           \* the extractor toolchain each validation worker pins
  ToolchainOf,     \* the toolchain each extraction worker runs
  Skew,            \* host clock minus database clock, per validation worker
  MaxSkew,         \* bound of the skew, and of how far a countdown runs past 0
  LeaseIds,        \* the UUIDs drawn for leases and job attempts
  MaxAttempts,     \* DOCUMENT_VALIDATION_MAX_ATTEMPTS and its extraction twin
  LeaseTtl,        \* ticks a claim or a heartbeat grants
  RetryDelay,      \* retryDelayMs of each attempt number, in ticks
  AdmissionDelay,  \* DOCUMENT_TEXT_EXTRACTION_ADMISSION_RETRY_DELAY_MS
  None

Toolchains == {PinOf[w] : w \in ValWorkers} \cup {ToolchainOf[w] : w \in ExtWorkers}

\* createWorkspaceUploadSession gives every browser upload a batch, and the
\* other transports need one.  The schema and the code also admit a browser
\* upload without: a receipt backfilled from an inbox entry that has none.
ASSUME SourcesAssumption ==
  /\ SourceOf \in [Docs -> Sources]
  /\ HasBatch \in [Docs -> BOOLEAN]
  /\ \A d \in Docs : SourceOf[d] # "BROWSER_UPLOAD" => HasBatch[d]
ASSUME BoundsAssumption ==
  /\ MaxAttempts \in Nat \ {0}
  /\ LeaseTtl \in Nat /\ AdmissionDelay \in Nat /\ MaxSkew \in Nat
  /\ RetryDelay \in [1..MaxAttempts -> Nat]
  /\ Skew \in [ValWorkers -> -MaxSkew..MaxSkew]
ASSUME NoneAssumption ==
  /\ None \notin LeaseIds /\ None \notin Docs /\ None \notin Papers
  /\ None \notin ValWorkers /\ None \notin ExtWorkers
  /\ \A w \in ValWorkers : PinOf[w] # None

VARIABLES
  doc,          \* Document.status
  asset,        \* Asset.status
  life,         \* the four lifecycle rows of IntakeLifecycle
  paper,        \* Document.workspacePaperId
  custody,      \* CrawlerImport.custodyStatus
  vjob, vrow,   \* the DOCUMENT_VALIDATE Job and its JobAttempt rows
  attestation,  \* DocumentValidationAttestation
  xjob, xrow,   \* the TEXT_EXTRACTION Job and its JobAttempt rows
  pin,          \* payload.toolchainDigest of the extraction job
  extraction,   \* DocumentTextExtraction.jobAttemptId
  vheld, xheld  \* what each worker process believes it holds

database == <<doc, asset, life, paper, custody, vjob, vrow, attestation,
              xjob, xrow, pin, extraction>>
vars == <<database, vheld, xheld>>
-----------------------------------------------------------------------------
(* Jobs, attempts and leases: the part both job types share.               *)

Waiting == {"QUEUED", "RETRYING"}
Settled == {"SUCCEEDED", "DEAD_LETTER", "CANCELLED"}
JobStatuses == {"NONE", "RUNNING"} \cup Waiting \cup Settled
RowStatuses == {"NONE", "RUNNING", "SUCCEEDED", "FAILED", "DEAD_LETTER", "CANCELLED"}

Job(status, attempts, wait) ==
  [status |-> status, attempts |-> attempts, lease |-> None, holder |-> None,
   left |-> 0, wait |-> wait]
Leased(n, lease, w, left) ==
  [status |-> "RUNNING", attempts |-> n, lease |-> lease, holder |-> w,
   left |-> left, wait |-> 0]
NoJob == Job("NONE", 0, 0)

Row(status, lease) == [status |-> status, lease |-> lease]
NoRow == Row("NONE", None)
NoRows == [n \in 1..MaxAttempts |-> NoRow]

\* What a worker process remembers of its claim.
Held(phase, d, lease, n, result) ==
  [phase |-> phase, doc |-> d, lease |-> lease, n |-> n, result |-> result]
Idle == Held("idle", None, None, 0, "NONE")
Turned(h, phase, result) == Held(phase, h.doc, h.lease, h.n, result)

\* randomUUID: an identifier nothing refers to any more.  Unused identifiers
\* are interchangeable, so the first of them stands for all.
UsedLeases ==
  {vrow[d][n].lease : d \in Docs, n \in 1..MaxAttempts}
    \cup {xrow[d][n].lease : d \in Docs, n \in 1..MaxAttempts}
    \cup {vheld[w].lease : w \in ValWorkers} \cup {xheld[w].lease : w \in ExtWorkers}
FreshLeases == LeaseIds \ UsedLeases
FreshLease == CHOOSE l \in FreshLeases : TRUE

\* Wrong on purpose: one attempt more than the budget.
ExhaustedTooLate(job) == job.attempts > MaxAttempts

Exhausted(job) == job.attempts >= MaxAttempts
Expired(job, skew) == job.left <= skew

\* Wrong on purpose: nobody takes over a waiting retry.
DueOnlyOnce(job, skew) ==
  \/ job.status = "QUEUED" /\ job.wait <= skew
  \/ job.status = "RUNNING" /\ Expired(job, skew)

\* The WHERE clause of the claiming SELECT.
Due(job, skew) ==
  \/ job.status \in Waiting /\ (job.wait <= skew \/ Exhausted(job))
  \/ job.status = "RUNNING" /\ Expired(job, skew)

\* Wrong on purpose: the taken-over attempt is left running.
ReapedByJobOnly(job, rows, status) == rows

\* The rows once a claim has closed the expired attempt it found, if it did.
Reaped(job, rows, status) ==
  IF job.status = "RUNNING"
    THEN [rows EXCEPT ![job.attempts] = Row(status, job.lease)] ELSE rows

\* The lease is this holder's and has not run out.
LeaseLive(job, h, w, skew) ==
  /\ job.status = "RUNNING" /\ job.lease = h.lease /\ job.holder = w
  /\ ~Expired(job, skew)

\* Wrong on purpose: any running job will do, the expiry is not looked at, or
\* only the attempt is.
OwnsRunningJob(job, rows, h, w, skew) == job.status = "RUNNING" /\ ~Expired(job, skew)
OwnsExpired(job, rows, h, w, skew) ==
  /\ job.status = "RUNNING" /\ job.lease = h.lease
  /\ rows[h.n] = Row("RUNNING", h.lease)
OwnsAttempt(job, rows, h, w, skew) == rows[h.n].lease = h.lease

\* The lease is live and the attempt it was given for still runs: what
\* complete, fail and defer require before they write anything.
Owns(job, rows, h, w, skew) ==
  /\ LeaseLive(job, h, w, skew)
  /\ job.attempts = h.n
  /\ rows[h.n] = Row("RUNNING", h.lease)

RetryableFailures == {"service_unavailable", "object_missing"}
IntegrityFailures == {"object_missing", "input_changed"}
ValFailures == {"service_unavailable", "object_missing", "input_changed",
                "response_invalid"}
ExtFailures == {"service_unavailable", "input_unsupported"}
Verdicts == {"ACCEPTED", "REJECTED"}
-----------------------------------------------------------------------------
NoAttestation == [verdict |-> "NONE", attempt |-> None]

\* The document is reserved and its transport is receiving the bytes.
Receiving(source, batched) ==
  [intake |-> "RECEIVING",
   import |-> CASE source = "CRAWLER" -> "FETCHING"
                [] source = "ZOTERO_ATTACHMENT" -> "DOWNLOADING"
                [] OTHER -> "NONE",
   batch  |-> IF batched THEN "RUNNING" ELSE "NONE", inbox |-> "NEEDS_REVIEW"]

Init ==
  /\ doc = [d \in Docs |-> "PENDING"]
  /\ asset = [d \in Docs |-> "UPLOADING"]
  /\ life = [d \in Docs |-> Receiving(SourceOf[d], HasBatch[d])]
  /\ paper = [d \in Docs |-> None]
  /\ custody = [d \in Docs |-> "RETAINED"]
  /\ vjob = [d \in Docs |-> NoJob] /\ vrow = [d \in Docs |-> NoRows]
  /\ attestation = [d \in Docs |-> NoAttestation]
  /\ xjob = [d \in Docs |-> NoJob] /\ xrow = [d \in Docs |-> NoRows]
  /\ pin = [d \in Docs |-> None]
  /\ extraction = [d \in Docs |-> None]
  /\ vheld = [w \in ValWorkers |-> Idle]
  /\ xheld = [w \in ExtWorkers |-> Idle]

\* The transaction in which a transport hands the received bytes over: the
\* ingest receipt exists, the asset is quarantined, the job is queued.
Admit(d) ==
  /\ life[d].intake = "RECEIVING"
  /\ asset' = [asset EXCEPT ![d] = "QUARANTINED"]
  /\ life' = [life EXCEPT ![d].intake = "QUARANTINED",
                          ![d].import = IF SourceOf[d] = "BROWSER_UPLOAD"
                                          THEN "NONE" ELSE "QUARANTINED"]
  /\ vjob' = [vjob EXCEPT ![d] = Job("QUEUED", 0, 0)]
  /\ UNCHANGED <<doc, paper, custody, vrow, attestation, xjob, xrow, pin,
                 extraction, vheld, xheld>>
-----------------------------------------------------------------------------
(* The validation job.                                                     *)

\* The authoritative re-read of the target.  A claim that found an expired
\* attempt has by then put a scanned asset and its document back.
ValidationTarget(d) ==
  LET reaped == vjob[d].status = "RUNNING"
  IN  /\ doc[d] = "PENDING" \/ (reaped /\ doc[d] = "PROCESSING")
      /\ asset[d] = "QUARANTINED" \/ (reaped /\ asset[d] = "SCANNING")

ValidationClaimable(d) ==
  /\ ~Exhausted(vjob[d])
  /\ ValidationTarget(d)
  /\ Projectable("validation-claim", SourceOf[d], life[d])

\* claimNextDocumentValidationJob returns a lease.
ClaimValidation(w, d) ==
  LET n == vjob[d].attempts + 1
  IN  /\ vheld[w].phase = "idle"
      /\ Due(vjob[d], Skew[w])
      /\ ValidationClaimable(d)
      /\ FreshLeases # {}
      /\ vjob' = [vjob EXCEPT ![d] = Leased(n, FreshLease, w, LeaseTtl + Skew[w])]
      /\ vrow' = [vrow EXCEPT ![d] =
                    [Reaped(vjob[d], vrow[d], "FAILED") EXCEPT ![n] = Row("RUNNING", FreshLease)]]
      /\ life' = [life EXCEPT ![d] = Projected("validation-claim", SourceOf[d], life[d])]
      /\ asset' = [asset EXCEPT ![d] = "SCANNING"]
      /\ doc' = [doc EXCEPT ![d] = "PROCESSING"]
      /\ vheld' = [vheld EXCEPT ![w] = Held("working", d, FreshLease, n, "NONE")]
      /\ UNCHANGED <<paper, custody, attestation, xjob, xrow, pin, extraction, xheld>>

\* One round of the claim loop that gives the job up instead: its budget is
\* spent, or failTargetWithoutClaim finds the target no longer valid.
ReapValidation(w, d) ==
  /\ vheld[w].phase = "idle"
  /\ Due(vjob[d], Skew[w])
  /\ ~ValidationClaimable(d)
  /\ vrow' = [vrow EXCEPT ![d] =
                Reaped(vjob[d], @, IF Exhausted(vjob[d]) THEN "DEAD_LETTER" ELSE "FAILED")]
  /\ vjob' = [vjob EXCEPT ![d] = Job("DEAD_LETTER", @.attempts, 0)]
  /\ life' = [life EXCEPT ![d] = ProjectedIfAllowed("validation-failed", SourceOf[d], @)]
  /\ asset' = [asset EXCEPT ![d] =
                 IF vjob[d].status = "RUNNING" /\ @ = "SCANNING" THEN "QUARANTINED" ELSE @]
  /\ doc' = [doc EXCEPT ![d] = IF @ \in {"PENDING", "PROCESSING"} THEN "FAILED" ELSE @]
  /\ UNCHANGED <<paper, custody, attestation, xjob, xrow, pin, extraction, vheld, xheld>>

\* heartbeatDocumentValidationLease updates one row.  When it updates none, or
\* the database does not answer, the worker aborts its operation: that is
\* ValidatorFails with "service_unavailable".
HeartbeatValidation(w) ==
  LET h == vheld[w]
  IN  /\ h.phase = "working"
      /\ LeaseLive(vjob[h.doc], h, w, Skew[w])
      /\ vjob' = [vjob EXCEPT ![h.doc].left = LeaseTtl + Skew[w]]
      /\ UNCHANGED <<doc, asset, life, paper, custody, vrow, attestation, xjob,
                     xrow, pin, extraction, vheld, xheld>>

\* The isolated service answers, or the operation throws.
ValidatorAnswers(w, verdict) ==
  /\ vheld[w].phase = "working"
  /\ vheld' = [vheld EXCEPT ![w] = Turned(@, "completing", verdict)]
  /\ UNCHANGED <<database, xheld>>

ValidatorFails(w, failure) ==
  /\ vheld[w].phase = "working"
  /\ vheld' = [vheld EXCEPT ![w] = Turned(@, "failing", failure)]
  /\ UNCHANGED <<database, xheld>>

Accepts(h) == h.result = "ACCEPTED"

\* Wrong on purpose: a rejection is projected like an acceptance.
OutcomeIsAcceptance(h) == "validation-accepted"

\* The outcome completeDocumentValidationLease projects.
OutcomeStage(h) == IF Accepts(h) THEN "validation-accepted" ELSE "validation-failed"

ValidationCompletable(w) ==
  LET h == vheld[w]
  IN  /\ Owns(vjob[h.doc], vrow[h.doc], h, w, Skew[w])
      /\ doc[h.doc] = "PROCESSING" /\ asset[h.doc] = "SCANNING"
      /\ Projectable(OutcomeStage(h), SourceOf[h.doc], life[h.doc])

\* completeDocumentValidationLease commits.  When the answer is lost the
\* worker sees an exception and turns to reporting a failure.
CompleteValidation(w, answered) ==
  LET h == vheld[w]
      d == h.doc
  IN  /\ h.phase = "completing"
      /\ ValidationCompletable(w)
      /\ life' = [life EXCEPT ![d] = Projected(OutcomeStage(h), SourceOf[d], @)]
      /\ attestation' = [attestation EXCEPT ![d] = [verdict |-> h.result, attempt |-> h.lease]]
      /\ asset' = [asset EXCEPT ![d] = IF Accepts(h) THEN "READY" ELSE "REJECTED"]
      /\ doc' = [doc EXCEPT ![d] = IF Accepts(h) THEN "READY" ELSE "FAILED"]
      /\ vrow' = [vrow EXCEPT ![d][h.n] = Row("SUCCEEDED", h.lease)]
      /\ vjob' = [vjob EXCEPT ![d] = Job("SUCCEEDED", @.attempts, 0)]
      /\ xjob' = IF Accepts(h) THEN [xjob EXCEPT ![d] = Job("QUEUED", 0, Skew[w])] ELSE xjob
      /\ pin' = IF Accepts(h) THEN [pin EXCEPT ![d] = PinOf[w]] ELSE pin
      /\ vheld' = [vheld EXCEPT ![w] =
                     IF answered THEN Idle ELSE Turned(h, "failing", "service_unavailable")]
      /\ UNCHANGED <<paper, custody, xrow, extraction, xheld>>

\* It returns null: the lease was lost, and nothing is written.
ValidationOutcomeRefused(w) ==
  /\ vheld[w].phase = "completing"
  /\ ~ValidationCompletable(w)
  /\ vheld' = [vheld EXCEPT ![w] = Idle]
  /\ UNCHANGED <<database, xheld>>

\* The transaction is rolled back: the worker reports a failure next.
ValidationCompletionThrows(w) ==
  /\ vheld[w].phase = "completing"
  /\ vheld' = [vheld EXCEPT ![w] = Turned(@, "failing", "service_unavailable")]
  /\ UNCHANGED <<database, xheld>>

CanRetry(job, h) == h.result \in RetryableFailures /\ ~Exhausted(job)

\* Wrong on purpose: the asset stays in scanning.
AssetAfterFailureForgotten(a, retry, failure) == a

\* A scanned asset goes back to quarantine; a custody integrity failure
\* rejects it once there is no other try.
AssetAfterFailure(a, retry, failure) ==
  IF a # "SCANNING" THEN a
  ELSE IF ~retry /\ failure \in IntegrityFailures THEN "REJECTED" ELSE "QUARANTINED"

\* failDocumentValidationLease, which changes nothing when it answers
\* "lease-lost".
FailValidation(w) ==
  LET h == vheld[w]
      d == h.doc
      retry == CanRetry(vjob[d], h)
      stage == IF retry THEN "validation-retry" ELSE "validation-failed"
  IN  /\ h.phase = "failing"
      /\ vheld' = [vheld EXCEPT ![w] = Idle]
      /\ IF Owns(vjob[d], vrow[d], h, w, Skew[w]) /\ Projectable(stage, SourceOf[d], life[d])
           THEN /\ life' = [life EXCEPT ![d] = Projected(stage, SourceOf[d], @)]
                /\ vrow' = [vrow EXCEPT ![d][h.n] =
                              Row(IF retry THEN "FAILED" ELSE "DEAD_LETTER", h.lease)]
                /\ vjob' = [vjob EXCEPT ![d] =
                     IF retry THEN Job("RETRYING", @.attempts, RetryDelay[@.attempts] + Skew[w])
                              ELSE Job("DEAD_LETTER", @.attempts, 0)]
                /\ asset' = [asset EXCEPT ![d] = AssetAfterFailure(@, retry, h.result)]
                /\ doc' = [doc EXCEPT ![d] =
                     IF @ # "PROCESSING" THEN @ ELSE IF retry THEN "PENDING" ELSE "FAILED"]
           ELSE UNCHANGED <<life, vrow, vjob, asset, doc>>
      /\ UNCHANGED <<paper, custody, attestation, xjob, xrow, pin, extraction, xheld>>

\* The process dies, or exits because reporting the failure failed, and is
\* started again with nothing in its hands.
CrashValidator(w) ==
  /\ vheld[w].phase # "idle"
  /\ vheld' = [vheld EXCEPT ![w] = Idle]
  /\ UNCHANGED <<database, xheld>>
-----------------------------------------------------------------------------
(* The extraction job.                                                     *)

\* The one predicate every later boundary asks of a validation.
currentAcceptedValidation(d) ==
  /\ attestation[d].verdict = "ACCEPTED"
  /\ vjob[d].status = "SUCCEEDED"
  /\ \E n \in 1..MaxAttempts : vrow[d][n] = Row("SUCCEEDED", attestation[d].attempt)
  /\ doc[d] = "READY" /\ asset[d] = "READY"

authoritativeExtractionTarget(d) ==
  /\ currentAcceptedValidation(d)
  /\ life[d].intake \in {"EXTRACTING", "ATTENTION", "READY"}

ExtractionClaimable(d) ==
  /\ ~Exhausted(xjob[d])
  /\ authoritativeExtractionTarget(d)
  /\ Projectable("extraction-claim", SourceOf[d], life[d])

\* A worker sees only the jobs pinned to the toolchain it runs.
ExtractionDue(w, d) ==
  /\ xheld[w].phase = "idle"
  /\ pin[d] = ToolchainOf[w]
  /\ Due(xjob[d], 0)

\* claimNextDocumentTextExtractionJob returns a lease.
ClaimExtraction(w, d) ==
  LET n == xjob[d].attempts + 1
  IN  /\ ExtractionDue(w, d)
      /\ ExtractionClaimable(d)
      /\ FreshLeases # {}
      /\ xjob' = [xjob EXCEPT ![d] = Leased(n, FreshLease, w, LeaseTtl)]
      /\ xrow' = [xrow EXCEPT ![d] =
                    [Reaped(xjob[d], xrow[d], "FAILED") EXCEPT ![n] = Row("RUNNING", FreshLease)]]
      /\ life' = [life EXCEPT ![d] = Projected("extraction-claim", SourceOf[d], @)]
      /\ xheld' = [xheld EXCEPT ![w] = Held("working", d, FreshLease, n, "NONE")]
      /\ UNCHANGED <<doc, asset, paper, custody, vjob, vrow, attestation, pin,
                     extraction, vheld>>

\* One round of the claim loop that dead-letters the job instead.
ReapExtraction(w, d) ==
  /\ ExtractionDue(w, d)
  /\ ~ExtractionClaimable(d)
  /\ xrow' = [xrow EXCEPT ![d] =
                Reaped(xjob[d], @, IF Exhausted(xjob[d]) THEN "DEAD_LETTER" ELSE "FAILED")]
  /\ xjob' = [xjob EXCEPT ![d] = Job("DEAD_LETTER", @.attempts, 0)]
  /\ life' = [life EXCEPT ![d] = ProjectedIfAllowed("extraction-attention", SourceOf[d], @)]
  /\ UNCHANGED <<doc, asset, paper, custody, vjob, vrow, attestation, pin,
                 extraction, vheld, xheld>>

HeartbeatExtraction(w) ==
  LET h == xheld[w]
  IN  /\ h.phase = "working"
      /\ LeaseLive(xjob[h.doc], h, w, 0)
      /\ xjob' = [xjob EXCEPT ![h.doc].left = LeaseTtl]
      /\ UNCHANGED <<doc, asset, life, paper, custody, vjob, vrow, attestation,
                     xrow, pin, extraction, vheld, xheld>>

\* The isolated extractor answers, throws, or declines to admit the request.
ExtractorResponds(w, phase, result) ==
  /\ xheld[w].phase = "working"
  /\ xheld' = [xheld EXCEPT ![w] = Turned(@, phase, result)]
  /\ UNCHANGED <<database, vheld>>
ExtractorAnswers(w) == ExtractorResponds(w, "completing", "NONE")
ExtractorFails(w, failure) == ExtractorResponds(w, "failing", failure)
ExtractorBusy(w) == ExtractorResponds(w, "deferring", "NONE")

ExtractionCompletable(w) ==
  LET h == xheld[w]
  IN  /\ Owns(xjob[h.doc], xrow[h.doc], h, w, 0)
      /\ extraction[h.doc] # h.lease
      /\ authoritativeExtractionTarget(h.doc)
      /\ Projectable("extraction-ready", SourceOf[h.doc], life[h.doc])

\* completeDocumentTextExtractionLease commits; the answer may be lost.
CompleteExtraction(w, answered) ==
  LET h == xheld[w]
      d == h.doc
  IN  /\ h.phase = "completing"
      /\ ExtractionCompletable(w)
      /\ life' = [life EXCEPT ![d] = Projected("extraction-ready", SourceOf[d], @)]
      /\ extraction' = [extraction EXCEPT ![d] = h.lease]
      /\ xrow' = [xrow EXCEPT ![d][h.n] = Row("SUCCEEDED", h.lease)]
      /\ xjob' = [xjob EXCEPT ![d] = Job("SUCCEEDED", @.attempts, 0)]
      /\ xheld' = [xheld EXCEPT ![w] =
                     IF answered THEN Idle ELSE Turned(h, "failing", "service_unavailable")]
      /\ UNCHANGED <<doc, asset, paper, custody, vjob, vrow, attestation, pin, vheld>>

ExtractionOutcomeRefused(w) ==
  /\ xheld[w].phase = "completing"
  /\ ~ExtractionCompletable(w)
  /\ xheld' = [xheld EXCEPT ![w] = Idle]
  /\ UNCHANGED <<database, vheld>>

ExtractionCompletionThrows(w) ==
  /\ xheld[w].phase = "completing"
  /\ xheld' = [xheld EXCEPT ![w] = Turned(@, "failing", "service_unavailable")]
  /\ UNCHANGED <<database, vheld>>

\* failDocumentTextExtractionLease: the accepted original stays READY, only
\* the extraction ends in ATTENTION.
FailExtraction(w) ==
  LET h == xheld[w]
      d == h.doc
      retry == CanRetry(xjob[d], h)
      stage == IF retry THEN "extraction-retry" ELSE "extraction-attention"
  IN  /\ h.phase = "failing"
      /\ xheld' = [xheld EXCEPT ![w] = Idle]
      /\ IF Owns(xjob[d], xrow[d], h, w, 0) /\ Projectable(stage, SourceOf[d], life[d])
           THEN /\ life' = [life EXCEPT ![d] = Projected(stage, SourceOf[d], @)]
                /\ xrow' = [xrow EXCEPT ![d][h.n] =
                              Row(IF retry THEN "FAILED" ELSE "DEAD_LETTER", h.lease)]
                /\ xjob' = [xjob EXCEPT ![d] =
                     IF retry THEN Job("RETRYING", @.attempts, RetryDelay[@.attempts])
                              ELSE Job("DEAD_LETTER", @.attempts, 0)]
           ELSE UNCHANGED <<life, xrow, xjob>>
      /\ UNCHANGED <<doc, asset, paper, custody, vjob, vrow, attestation, pin,
                     extraction, vheld>>

\* deferDocumentTextExtractionLeaseBeforeAdmission: the attempt never happened,
\* its row is deleted and its number is given out again.
DeferExtraction(w) ==
  LET h == xheld[w]
      d == h.doc
  IN  /\ h.phase = "deferring"
      /\ xheld' = [xheld EXCEPT ![w] = Idle]
      /\ IF Owns(xjob[d], xrow[d], h, w, 0) /\ Projectable("extraction-retry", SourceOf[d], life[d])
           THEN /\ life' = [life EXCEPT ![d] = Projected("extraction-retry", SourceOf[d], @)]
                /\ xrow' = [xrow EXCEPT ![d][h.n] = NoRow]
                /\ xjob' = [xjob EXCEPT ![d] = Job("RETRYING", @.attempts - 1, AdmissionDelay)]
           ELSE UNCHANGED <<life, xrow, xjob>>
      /\ UNCHANGED <<doc, asset, paper, custody, vjob, vrow, attestation, pin,
                     extraction, vheld>>

CrashExtractor(w) ==
  /\ xheld[w].phase # "idle"
  /\ xheld' = [xheld EXCEPT ![w] = Idle]
  /\ UNCHANGED <<database, vheld>>
-----------------------------------------------------------------------------
(* What a user may do meanwhile.                                           *)

\* Which custody linkValidatedDocumentToWorkspacePaper accepts.  The receipt
\* carries the batch of the intake, and a browser upload's must have none.
LinkSource(d) ==
  CASE SourceOf[d] = "BROWSER_UPLOAD" ->
         life[d].intake \in {"EXTRACTING", "READY", "ATTENTION"} /\ ~HasBatch[d]
    [] SourceOf[d] = "CRAWLER" -> life[d].intake = "READY" /\ life[d].import = "READY"
    [] OTHER -> FALSE

\* Wrong on purpose: nobody looks for another document on the paper.
PaperNeverTaken(d, p) == FALSE

PaperTaken(d, p) == \E e \in Docs \ {d} : paper[e] = p /\ doc[e] # "ARCHIVED"

LinkAdmissible(d, p) ==
  /\ paper[d] = None
  /\ ~PaperTaken(d, p)
  /\ life[d].inbox = "NEEDS_REVIEW"
  /\ LinkSource(d)
  /\ currentAcceptedValidation(d)

linkValidatedDocumentToWorkspacePaper(d, p) ==
  /\ LinkAdmissible(d, p)
  /\ paper' = [paper EXCEPT ![d] = p]
  /\ life' = [life EXCEPT ![d].inbox = "IMPORTED"]
  /\ UNCHANGED <<doc, asset, custody, vjob, vrow, attestation, xjob, xrow, pin,
                 extraction, vheld, xheld>>

\* Wrong on purpose: a running job is left to its worker.
CancelledIfWaiting(job) ==
  IF job.status \in Waiting THEN Job("CANCELLED", job.attempts, 0) ELSE job

\* A cancelled job keeps its attempts; the attempt that runs is cancelled too.
Cancelled(job) ==
  IF job.status \in Waiting \cup {"RUNNING"} THEN Job("CANCELLED", job.attempts, 0) ELSE job
CancelledRows(rows) ==
  [n \in 1..MaxAttempts |->
     IF rows[n].status = "RUNNING" THEN Row("CANCELLED", rows[n].lease) ELSE rows[n]]

\* Wrong on purpose: a settled import is cancelled as well.
AnyImport(status) == TRUE

\* The imports whose lifecycle the deletion also cancels.
ActiveImport(status) == status \notin {"READY", "FAILED", "CANCELLED"}

\* deleteCrawlerCustody, under the locks of the same Job rows.
deleteCrawlerCustody(d) ==
  LET active == ActiveImport(life[d].import)
  IN  /\ SourceOf[d] = "CRAWLER"
      /\ custody[d] = "RETAINED"
      /\ vjob' = [vjob EXCEPT ![d] = Cancelled(@)]
      /\ vrow' = [vrow EXCEPT ![d] = CancelledRows(@)]
      /\ xjob' = [xjob EXCEPT ![d] = Cancelled(@)]
      /\ xrow' = [xrow EXCEPT ![d] = CancelledRows(@)]
      /\ life' = [life EXCEPT ![d] =
                    [intake |-> IF active THEN "CANCELLED" ELSE @.intake,
                     import |-> IF active THEN "CANCELLED" ELSE @.import,
                     batch  |-> IF active THEN "CANCELLED" ELSE @.batch,
                     inbox  |-> "REJECTED"]]
      /\ custody' = [custody EXCEPT ![d] = "DELETE_PENDING"]
      /\ doc' = [doc EXCEPT ![d] = "ARCHIVED"]
      /\ asset' = [asset EXCEPT ![d] = "REJECTED"]
      /\ UNCHANGED <<paper, attestation, pin, extraction, vheld, xheld>>

\* One tick of the database clock.
Down(x) == IF x > -MaxSkew THEN x - 1 ELSE x
Aged(job) == [job EXCEPT !.left = IF job.status = "RUNNING" THEN Down(@) ELSE @,
                         !.wait = IF job.status \in Waiting THEN Down(@) ELSE @]
Tick ==
  /\ vjob' = [d \in Docs |-> Aged(vjob[d])]
  /\ xjob' = [d \in Docs |-> Aged(xjob[d])]
  /\ UNCHANGED <<doc, asset, life, paper, custody, vrow, attestation, xrow, pin,
                 extraction, vheld, xheld>>
-----------------------------------------------------------------------------
ValidatorStep(w) ==
  \/ \E d \in Docs : ClaimValidation(w, d) \/ ReapValidation(w, d)
  \/ \E verdict \in Verdicts : ValidatorAnswers(w, verdict)
  \/ \E failure \in ValFailures : ValidatorFails(w, failure)
  \/ \E answered \in BOOLEAN : CompleteValidation(w, answered)
  \/ HeartbeatValidation(w) \/ ValidationOutcomeRefused(w)
  \/ ValidationCompletionThrows(w) \/ FailValidation(w) \/ CrashValidator(w)

ExtractorStep(w) ==
  \/ \E d \in Docs : ClaimExtraction(w, d) \/ ReapExtraction(w, d)
  \/ \E failure \in ExtFailures : ExtractorFails(w, failure)
  \/ \E answered \in BOOLEAN : CompleteExtraction(w, answered)
  \/ HeartbeatExtraction(w) \/ ExtractorAnswers(w) \/ ExtractorBusy(w)
  \/ ExtractionOutcomeRefused(w) \/ ExtractionCompletionThrows(w)
  \/ FailExtraction(w) \/ DeferExtraction(w) \/ CrashExtractor(w)

UserStep ==
  \E d \in Docs : \/ Admit(d) \/ deleteCrawlerCustody(d)
                  \/ \E p \in Papers : linkValidatedDocumentToWorkspacePaper(d, p)

Next == \/ \E w \in ValWorkers : ValidatorStep(w)
        \/ \E w \in ExtWorkers : ExtractorStep(w)
        \/ UserStep \/ Tick

Spec == Init /\ [][Next]_vars
=============================================================================
