---------------------- MODULE DocumentLifecycleProofs ----------------------
(***************************************************************************)
(* More proofs about the document pipeline: the custody and lifecycle rows *)
(* follow the jobs, links are sound, a deletion fences, and the pipeline   *)
(* implements its promise.                                                 *)
(*                                                                         *)
(* Everything here is about one document at a time.  The first half shows  *)
(* that a step of the pipeline moves at most one document, in one of six   *)
(* ways (AtMostOneMoves); the second half looks at those six ways only.    *)
(***************************************************************************)
EXTENDS DocumentPipelineProofs

-----------------------------------------------------------------------------
(* The inductive invariant.                                                *)

Live == Waiting \cup {"RUNNING"}

\* While its bytes are on their way a document looks as it did when it was
\* reserved, and only an accepted one can have been imported.
RowsStartClean ==
  \A d \in Docs :
    /\ life[d].intake = "RECEIVING" => life[d] = Receiving(SourceOf[d], HasBatch[d])
    /\ life[d].inbox = "IMPORTED" => attestation[d].verdict = "ACCEPTED"

\* A withdrawn document came from the crawler, is archived, and has no job a
\* worker could still claim or finish.
WithdrawnAreQuiet ==
  \A d \in Docs : custody[d] = "DELETE_PENDING" =>
    /\ SourceOf[d] = "CRAWLER"
    /\ doc[d] = "ARCHIVED" /\ asset[d] = "REJECTED"
    /\ life[d].intake # "RECEIVING" /\ life[d].inbox = "REJECTED"
    /\ vjob[d].status \notin Live /\ xjob[d].status \notin Live

\* Only a withdrawal cancels a job.
RetainedAreNotCancelled ==
  \A d \in Docs : custody[d] = "RETAINED" =>
    vjob[d].status # "CANCELLED" /\ xjob[d].status # "CANCELLED"

\* A retained document that is linked was accepted, and is imported.
LinkedAreAccepted ==
  \A d \in Docs : custody[d] = "RETAINED" /\ paper[d] # None =>
    attestation[d].verdict = "ACCEPTED" /\ life[d].inbox = "IMPORTED"

\* A paper is linked to one document at most that is not archived.
PapersAreExclusive ==
  \A d, e \in Docs :
    paper[d] = paper[e] /\ paper[d] # None /\ "ARCHIVED" \notin {doc[d], doc[e]} => d = e

LInv == /\ IInv /\ CustodyAgrees /\ LifecycleAgrees
        /\ RowsStartClean /\ WithdrawnAreQuiet /\ RetainedAreNotCancelled
        /\ LinkedAreAccepted /\ PapersAreExclusive
-----------------------------------------------------------------------------
(* The ways in which a step moves a document.                              *)

\* The job is as it was, but for a countdown or a lease that only a live job
\* has.
SameJob(job, next) ==
  next.status = job.status /\ (job.status \notin Live => next = job)

SameCustody(d) == doc'[d] = doc[d] /\ asset'[d] = asset[d]
SameLink(d) == paper'[d] = paper[d] /\ custody'[d] = custody[d]
SameEvidence(d) == attestation'[d] = attestation[d] /\ extraction'[d] = extraction[d]

Same(d) == /\ SameCustody(d) /\ SameLink(d) /\ SameEvidence(d) /\ life'[d] = life[d]
           /\ SameJob(vjob[d], vjob'[d]) /\ SameJob(xjob[d], xjob'[d])
           /\ vrow'[d] = vrow[d] /\ xrow'[d] = xrow[d]

Admitted(d) ==
  /\ life[d].intake = "RECEIVING"
  /\ vjob'[d].status = "QUEUED" /\ xjob'[d] = xjob[d]
  /\ asset'[d] = "QUARANTINED" /\ doc'[d] = doc[d]
  /\ life'[d] = [life[d] EXCEPT !.intake = "QUARANTINED",
                   !.import = IF SourceOf[d] = "BROWSER_UPLOAD" THEN "NONE" ELSE "QUARANTINED"]
  /\ SameLink(d) /\ SameEvidence(d)

\* The validation job is claimed, sent to a retry or given up: no verdict.
ValidationPending(d, stage, js) ==
  /\ vjob[d].status \in Live
  /\ vjob'[d].status = js /\ xjob'[d] = xjob[d]
  /\ life'[d] = Projected(stage, SourceOf[d], life[d])
  /\ SameLink(d) /\ SameEvidence(d)
  /\ <<asset'[d], doc'[d]>> \in
       CASE js = "RUNNING"  -> {<<"SCANNING", "PROCESSING">>}
         [] js = "RETRYING" -> {<<"QUARANTINED", "PENDING">>}
         [] OTHER           -> {<<"QUARANTINED", "FAILED">>, <<"REJECTED", "FAILED">>}

PendingKinds == {<<"validation-claim", "RUNNING">>, <<"validation-retry", "RETRYING">>,
                 <<"validation-failed", "DEAD_LETTER">>}

ValidationDecided(d) ==
  /\ vjob[d].status = "RUNNING" /\ vjob'[d].status = "SUCCEEDED"
  /\ SameLink(d) /\ extraction'[d] = extraction[d]
  /\ \/ /\ attestation'[d].verdict = "ACCEPTED" /\ xjob'[d].status = "QUEUED"
        /\ life'[d] = Projected("validation-accepted", SourceOf[d], life[d])
        /\ asset'[d] = "READY" /\ doc'[d] = "READY"
     \/ /\ attestation'[d].verdict = "REJECTED" /\ xjob'[d] = xjob[d]
        /\ life'[d] = Projected("validation-failed", SourceOf[d], life[d])
        /\ asset'[d] = "REJECTED" /\ doc'[d] = "FAILED"

ExtractionMoved(d, stage, js) ==
  /\ xjob[d].status \in Live /\ xjob'[d].status = js /\ vjob'[d] = vjob[d]
  /\ life'[d] = Projected(stage, SourceOf[d], life[d])
  /\ SameCustody(d) /\ SameLink(d) /\ attestation'[d] = attestation[d]
  /\ IF js = "SUCCEEDED" THEN extraction'[d] # None ELSE extraction'[d] = extraction[d]

ExtractionKinds == {<<"extraction-claim", "RUNNING">>, <<"extraction-retry", "RETRYING">>,
                    <<"extraction-ready", "SUCCEEDED">>,
                    <<"extraction-attention", "DEAD_LETTER">>}

Linked(d) ==
  /\ \E p \in Papers : LinkAdmissible(d, p) /\ paper'[d] = p
  /\ life'[d] = [life[d] EXCEPT !.inbox = "IMPORTED"]
  /\ vjob'[d] = vjob[d] /\ xjob'[d] = xjob[d]
  /\ SameCustody(d) /\ custody'[d] = custody[d] /\ SameEvidence(d)

Withdrawn(d) ==
  /\ SourceOf[d] = "CRAWLER" /\ custody[d] = "RETAINED" /\ custody'[d] = "DELETE_PENDING"
  /\ vjob'[d].status \notin Live /\ xjob'[d].status \notin Live
  /\ doc'[d] = "ARCHIVED" /\ asset'[d] = "REJECTED"
  /\ life'[d].intake = IF ActiveImport(life[d].import) THEN "CANCELLED" ELSE life[d].intake
  /\ life'[d].inbox = "REJECTED"
  /\ paper'[d] = paper[d] /\ SameEvidence(d)

Moved(d) == \/ Admitted(d) \/ ValidationDecided(d) \/ Linked(d) \/ Withdrawn(d)
            \/ \E kind \in PendingKinds : ValidationPending(d, kind[1], kind[2])
            \/ \E kind \in ExtractionKinds : ExtractionMoved(d, kind[1], kind[2])

\* One document moves and the others stand still, or all do.
OneMoves == \/ \A e \in Docs : Same(e)
            \/ \E d \in Docs : Moved(d) /\ \A e \in Docs \ {d} : Same(e)
-----------------------------------------------------------------------------
(* What the invariant says of a document whose job is live.                *)

\* Only a retained document has a live job, its rows are then those the job
\* calls for, and every projection of that job goes through.
LEMMA LiveValidation ==
  ASSUME LInv, NEW d \in Docs, vjob[d].status \in Live
  PROVE  /\ custody[d] = "RETAINED" /\ xjob[d].status = "NONE"
         /\ <<asset[d], doc[d]>> = IF vjob[d].status = "RUNNING"
                                     THEN <<"SCANNING", "PROCESSING">>
                                     ELSE <<"QUARANTINED", "PENDING">>
         /\ Projectable("validation-claim", SourceOf[d], life[d])
         /\ Projectable("validation-retry", SourceOf[d], life[d])
         /\ Projectable("validation-failed", SourceOf[d], life[d])
         /\ vjob[d].status = "RUNNING" => Projectable("validation-accepted", SourceOf[d], life[d])
<1> USE DEF LInv
<1>1. custody[d] = "RETAINED"
  BY DEF WithdrawnAreQuiet, IInv, TypeOK
<1>2. <<asset[d], doc[d]>> = IF vjob[d].status = "RUNNING"
                               THEN <<"SCANNING", "PROCESSING">>
                               ELSE <<"QUARANTINED", "PENDING">>
  BY <1>1 DEF CustodyAgrees, ExpectedCustody, Live, Waiting
<1>3. attestation[d].verdict = "NONE" /\ xjob[d].status = "NONE"
  BY DEF IInv, EvidenceAgrees, Live, Waiting
<1>4. /\ life[d].intake \in {"QUARANTINED", "VALIDATING"}
      /\ vjob[d].status = "RUNNING" => life[d].intake = "VALIDATING"
  BY <1>1, <1>3 DEF LifecycleAgrees, LifeAgrees, ExpectedIntake, Live, Waiting
<1>5. /\ life[d].inbox = "NEEDS_REVIEW" /\ life[d].batch \in {"NONE", "RUNNING"}
      /\ SourceOf[d] # "BROWSER_UPLOAD" => life[d].import = life[d].intake
  BY <1>1, <1>3, <1>4 DEF LifecycleAgrees, LifeAgrees, ExpectedBatch, RowsStartClean
<1>6. \A stage \in {"validation-claim", "validation-retry", "validation-failed",
                    "validation-accepted"} :
        /\ "NEEDS_REVIEW" \in Desired[stage].inboxFrom
        /\ "RUNNING" \in Desired[stage].batchFrom
        /\ "VALIDATING" \in Desired[stage].from
        /\ stage # "validation-accepted" => "QUARANTINED" \in Desired[stage].from
  BY DEF Desired, Stages
<1> QED
  BY <1>1, <1>2, <1>3, <1>4, <1>5, <1>6 DEF Projectable

\* Likewise for the extraction job.
LEMMA LiveExtraction ==
  ASSUME LInv, NEW d \in Docs, xjob[d].status \in Live
  PROVE  /\ custody[d] = "RETAINED" /\ attestation[d].verdict = "ACCEPTED"
         /\ vjob[d].status = "SUCCEEDED"
         /\ Projectable("extraction-claim", SourceOf[d], life[d])
         /\ Projectable("extraction-retry", SourceOf[d], life[d])
         /\ Projectable("extraction-ready", SourceOf[d], life[d])
         /\ Projectable("extraction-attention", SourceOf[d], life[d])
<1> USE DEF LInv
<1>1. custody[d] = "RETAINED"
  BY DEF WithdrawnAreQuiet, IInv, TypeOK
<1>2. attestation[d].verdict = "ACCEPTED" /\ vjob[d].status = "SUCCEEDED"
  BY DEF IInv, EvidenceAgrees, Live, Waiting
<1>3. life[d].intake = "EXTRACTING"
  BY <1>1, <1>2 DEF LifecycleAgrees, LifeAgrees, ExpectedIntake, Live, Waiting
<1>4. /\ life[d].inbox \in {"NEEDS_REVIEW", "IMPORTED"} /\ life[d].batch \in {"NONE", "RUNNING"}
      /\ SourceOf[d] # "BROWSER_UPLOAD" => life[d].import = "EXTRACTING"
  BY <1>1, <1>3 DEF LifecycleAgrees, LifeAgrees, ExpectedBatch
<1>5. \A stage \in {"extraction-claim", "extraction-retry", "extraction-ready",
                    "extraction-attention"} :
        /\ "EXTRACTING" \in Desired[stage].from
        /\ {"NEEDS_REVIEW", "IMPORTED"} \subseteq Desired[stage].inboxFrom
        /\ "RUNNING" \in Desired[stage].batchFrom
  BY DEF Desired, Stages
<1> QED
  BY <1>1, <1>2, <1>3, <1>4, <1>5 DEF Projectable

\* What every later boundary asks of a validation, for a document that is
\* linked, claimed for extraction or shown: it was accepted and not withdrawn.
LEMMA CurrentlyAccepted ==
  ASSUME LInv, NEW d \in Docs
  PROVE  currentAcceptedValidation(d) <=>
           custody[d] = "RETAINED" /\ attestation[d].verdict = "ACCEPTED"
<1> USE DEF LInv
<1>1. ASSUME currentAcceptedValidation(d)
      PROVE  custody[d] = "RETAINED" /\ attestation[d].verdict = "ACCEPTED"
  BY <1>1 DEF currentAcceptedValidation, WithdrawnAreQuiet, IInv, TypeOK
<1>2. ASSUME custody[d] = "RETAINED", attestation[d].verdict = "ACCEPTED"
      PROVE  currentAcceptedValidation(d)
  <2>1. vjob[d].status = "SUCCEEDED"
    BY <1>2 DEF IInv, EvidenceAgrees
  <2>2. vjob[d].attempts \in 1..MaxAttempts
    BY <2>1, BoundsAssumption DEF IInv, TypeOK, Jobs, LedgerAgrees, Ledger
  <2>3. vrow[d][vjob[d].attempts] = Row("SUCCEEDED", attestation[d].attempt)
    BY <2>1 DEF IInv, EvidenceAgrees
  <2>4. doc[d] = "READY" /\ asset[d] = "READY"
    BY <1>2, <2>1 DEF CustodyAgrees, ExpectedCustody, Waiting
  <2> QED
    BY <1>2, <2>1, <2>2, <2>3, <2>4 DEF currentAcceptedValidation
<1> QED
  BY <1>1, <1>2
-----------------------------------------------------------------------------
(* What each step of a validation worker moves.                            *)

LEMMA ClaimValidationMoves ==
  ASSUME LInv, NEW w \in ValWorkers, NEW d \in Docs, ClaimValidation(w, d)
  PROVE  /\ ValidationPending(d, "validation-claim", "RUNNING")
         /\ \A e \in Docs \ {d} : Same(e)
<1> USE DEF ClaimValidation, LInv, IInv, TypeOK
<1>1. vjob[d].status \in Live
  BY DEF Due, Live
<1>2. vjob'[d].status = "RUNNING" /\ xjob'[d] = xjob[d]
  BY DEF Leased
<1>3. ValidationPending(d, "validation-claim", "RUNNING")
  BY <1>1, <1>2 DEF ValidationPending, SameLink, SameEvidence
<1>4. \A e \in Docs \ {d} : Same(e)
  BY DEF Same, SameCustody, SameLink, SameEvidence, SameJob
<1> QED
  BY <1>3, <1>4

LEMMA ReapValidationMoves ==
  ASSUME LInv, NEW w \in ValWorkers, NEW d \in Docs, ReapValidation(w, d)
  PROVE  /\ ValidationPending(d, "validation-failed", "DEAD_LETTER")
         /\ \A e \in Docs \ {d} : Same(e)
<1>1. vjob[d].status \in Live
  BY DEF ReapValidation, Due, Live
<1>2. /\ Projectable("validation-failed", SourceOf[d], life[d])
      /\ <<asset[d], doc[d]>> = IF vjob[d].status = "RUNNING"
                                  THEN <<"SCANNING", "PROCESSING">>
                                  ELSE <<"QUARANTINED", "PENDING">>
  BY <1>1, LiveValidation
<1> USE DEF ReapValidation, LInv, IInv, TypeOK
<1>3. vjob'[d].status = "DEAD_LETTER" /\ xjob'[d] = xjob[d]
  BY DEF Job
<1>4. life'[d] = Projected("validation-failed", SourceOf[d], life[d])
  BY <1>2 DEF ProjectedIfAllowed
<1>5. asset'[d] = "QUARANTINED" /\ doc'[d] = "FAILED"
  BY <1>1, <1>2
<1>6. ValidationPending(d, "validation-failed", "DEAD_LETTER")
  BY <1>1, <1>3, <1>4, <1>5 DEF ValidationPending, SameLink, SameEvidence
<1>7. \A e \in Docs \ {d} : Same(e)
  BY DEF Same, SameCustody, SameLink, SameEvidence, SameJob
<1> QED
  BY <1>6, <1>7

LEMMA CompleteValidationMoves ==
  ASSUME LInv, NEW w \in ValWorkers, NEW answered \in BOOLEAN, CompleteValidation(w, answered)
  PROVE  /\ vheld[w].doc \in Docs /\ ValidationDecided(vheld[w].doc)
         /\ \A e \in Docs \ {vheld[w].doc} : Same(e)
<1> DEFINE h == vheld[w]
           d == h.doc
<1>1. d \in Docs /\ h.result \in Verdicts
  BY DEF LInv, IInv, HandsAreFull, CompleteValidation
<1>2. vjob[d].status = "RUNNING"
  BY OwnsLast DEF CompleteValidation, ValidationCompletable
<1> USE DEF CompleteValidation, LInv, IInv, TypeOK
<1>3. vjob'[d].status = "SUCCEEDED" /\ attestation'[d].verdict = h.result
  BY <1>1 DEF Job
<1>4. ASSUME h.result = "ACCEPTED" PROVE ValidationDecided(d)
  <2>1. xjob'[d].status = "QUEUED" /\ asset'[d] = "READY" /\ doc'[d] = "READY"
    BY <1>1, <1>4 DEF Job, Accepts
  <2>2. life'[d] = Projected("validation-accepted", SourceOf[d], life[d])
    BY <1>1, <1>4 DEF OutcomeStage, Accepts
  <2>3. SameLink(d) /\ extraction'[d] = extraction[d]
    BY DEF SameLink
  <2> HIDE DEF CompleteValidation, LInv, IInv, TypeOK
  <2> QED
    BY <1>2, <1>3, <1>4, <2>1, <2>2, <2>3 DEF ValidationDecided
<1>5. ASSUME h.result = "REJECTED" PROVE ValidationDecided(d)
  <2>1. xjob'[d] = xjob[d] /\ asset'[d] = "REJECTED" /\ doc'[d] = "FAILED"
    BY <1>1, <1>5 DEF Accepts
  <2>2. life'[d] = Projected("validation-failed", SourceOf[d], life[d])
    BY <1>1, <1>5 DEF OutcomeStage, Accepts
  <2>3. SameLink(d) /\ extraction'[d] = extraction[d]
    BY DEF SameLink
  <2> HIDE DEF CompleteValidation, LInv, IInv, TypeOK
  <2> QED
    BY <1>2, <1>3, <1>5, <2>1, <2>2, <2>3 DEF ValidationDecided
<1>6. \A e \in Docs \ {d} : Same(e)
  BY DEF Same, SameCustody, SameLink, SameEvidence, SameJob
<1> QED
  BY <1>1, <1>4, <1>5, <1>6 DEF Verdicts

LEMMA FailValidationMoves ==
  ASSUME LInv, NEW w \in ValWorkers, FailValidation(w)
  PROVE  OneMoves
<1> DEFINE h == vheld[w]
           d == h.doc
           retry == CanRetry(vjob[d], h)
           stage == IF retry THEN "validation-retry" ELSE "validation-failed"
           written == /\ Owns(vjob[d], vrow[d], h, w, Skew[w])
                      /\ Projectable(stage, SourceOf[d], life[d])
<1>1. d \in Docs
  BY DEF LInv, IInv, HandsAreFull, FailValidation
<1>2. CASE ~written
  BY <1>2 DEF FailValidation, OneMoves, Same, SameCustody, SameLink, SameEvidence, SameJob
<1>3. CASE written
  <2>1. vjob[d].status = "RUNNING"
    BY <1>3, OwnsLast
  <2>2. asset[d] = "SCANNING" /\ doc[d] = "PROCESSING"
    BY <1>1, <2>1, LiveValidation DEF Live
  <2> USE DEF FailValidation, LInv, IInv, TypeOK
  <2>3. life'[d] = Projected(stage, SourceOf[d], life[d])
    BY <1>1, <1>3
  <2>4. SameLink(d) /\ SameEvidence(d) /\ xjob'[d] = xjob[d]
    BY DEF SameLink, SameEvidence
  <2>5. ASSUME retry PROVE Moved(d)
    <3>1. vjob'[d].status = "RETRYING" /\ asset'[d] = "QUARANTINED" /\ doc'[d] = "PENDING"
      BY <1>1, <1>3, <2>2, <2>5 DEF Job, AssetAfterFailure
    <3> HIDE DEF FailValidation, LInv, IInv, TypeOK
    <3>2. ValidationPending(d, "validation-retry", "RETRYING")
      BY <2>1, <2>3, <2>4, <2>5, <3>1 DEF ValidationPending, Live
    <3> QED
      BY <3>2 DEF Moved, PendingKinds
  <2>6. ASSUME ~retry PROVE Moved(d)
    <3>1. /\ vjob'[d].status = "DEAD_LETTER" /\ asset'[d] \in {"QUARANTINED", "REJECTED"}
          /\ doc'[d] = "FAILED"
      BY <1>1, <1>3, <2>2, <2>6 DEF Job, AssetAfterFailure
    <3> HIDE DEF FailValidation, LInv, IInv, TypeOK
    <3>2. ValidationPending(d, "validation-failed", "DEAD_LETTER")
      BY <2>1, <2>3, <2>4, <2>6, <3>1 DEF ValidationPending, Live
    <3> QED
      BY <3>2 DEF Moved, PendingKinds
  <2>7. \A e \in Docs \ {d} : Same(e)
    BY <1>3 DEF Same, SameCustody, SameLink, SameEvidence, SameJob
  <2> QED
    BY <1>1, <2>5, <2>6, <2>7 DEF OneMoves
<1> QED
  BY <1>2, <1>3

LEMMA HeartbeatMoves ==
  ASSUME LInv,
         \/ \E w \in ValWorkers : HeartbeatValidation(w)
         \/ \E w \in ExtWorkers : HeartbeatExtraction(w)
  PROVE  \A e \in Docs : Same(e)
<1>1. CASE \E w \in ValWorkers : HeartbeatValidation(w)
  <2>1. PICK w \in ValWorkers : HeartbeatValidation(w)
    BY <1>1
  <2> QED
    BY <2>1 DEF HeartbeatValidation, LeaseLive, LInv, IInv, TypeOK, Jobs, Live, Same,
                SameCustody, SameLink, SameEvidence, SameJob
<1>2. CASE \E w \in ExtWorkers : HeartbeatExtraction(w)
  <2>1. PICK w \in ExtWorkers : HeartbeatExtraction(w)
    BY <1>2
  <2> QED
    BY <2>1 DEF HeartbeatExtraction, LeaseLive, LInv, IInv, TypeOK, Jobs, Live, Same,
                SameCustody, SameLink, SameEvidence, SameJob
<1> QED
  BY <1>1, <1>2
-----------------------------------------------------------------------------
(* What each step of an extraction worker moves.                           *)

LEMMA ClaimExtractionMoves ==
  ASSUME LInv, NEW w \in ExtWorkers, NEW d \in Docs, ClaimExtraction(w, d)
  PROVE  /\ ExtractionMoved(d, "extraction-claim", "RUNNING")
         /\ \A e \in Docs \ {d} : Same(e)
<1> USE DEF ClaimExtraction, LInv, IInv, TypeOK
<1>1. xjob[d].status \in Live
  BY DEF ExtractionDue, Due, Live
<1>2. xjob'[d].status = "RUNNING" /\ vjob'[d] = vjob[d]
  BY DEF Leased
<1>3. ExtractionMoved(d, "extraction-claim", "RUNNING")
  BY <1>1, <1>2 DEF ExtractionMoved, SameCustody, SameLink
<1>4. \A e \in Docs \ {d} : Same(e)
  BY DEF Same, SameCustody, SameLink, SameEvidence, SameJob
<1> QED
  BY <1>3, <1>4

LEMMA ReapExtractionMoves ==
  ASSUME LInv, NEW w \in ExtWorkers, NEW d \in Docs, ReapExtraction(w, d)
  PROVE  /\ ExtractionMoved(d, "extraction-attention", "DEAD_LETTER")
         /\ \A e \in Docs \ {d} : Same(e)
<1>1. xjob[d].status \in Live
  BY DEF ReapExtraction, ExtractionDue, Due, Live
<1>2. Projectable("extraction-attention", SourceOf[d], life[d])
  BY <1>1, LiveExtraction
<1> USE DEF ReapExtraction, LInv, IInv, TypeOK
<1>3. xjob'[d].status = "DEAD_LETTER" /\ vjob'[d] = vjob[d]
  BY DEF Job
<1>4. life'[d] = Projected("extraction-attention", SourceOf[d], life[d])
  BY <1>2 DEF ProjectedIfAllowed
<1>5. ExtractionMoved(d, "extraction-attention", "DEAD_LETTER")
  BY <1>1, <1>3, <1>4 DEF ExtractionMoved, SameCustody, SameLink
<1>6. \A e \in Docs \ {d} : Same(e)
  BY DEF Same, SameCustody, SameLink, SameEvidence, SameJob
<1> QED
  BY <1>5, <1>6

LEMMA CompleteExtractionMoves ==
  ASSUME LInv, NEW w \in ExtWorkers, NEW answered \in BOOLEAN, CompleteExtraction(w, answered)
  PROVE  /\ xheld[w].doc \in Docs
         /\ ExtractionMoved(xheld[w].doc, "extraction-ready", "SUCCEEDED")
         /\ \A e \in Docs \ {xheld[w].doc} : Same(e)
<1> DEFINE h == xheld[w]
           d == h.doc
<1>1. d \in Docs
  BY DEF LInv, IInv, HandsAreFull, CompleteExtraction
<1>2. xjob[d].status = "RUNNING" /\ h.lease = xjob[d].lease
  BY OwnsLast DEF CompleteExtraction, ExtractionCompletable
<1>3. h.lease # None
  BY <1>1, <1>2 DEF LInv, IInv, LedgerAgrees, Ledger
<1> USE DEF CompleteExtraction, LInv, IInv, TypeOK
<1>4. /\ xjob'[d].status = "SUCCEEDED" /\ vjob'[d] = vjob[d] /\ extraction'[d] # None
      /\ life'[d] = Projected("extraction-ready", SourceOf[d], life[d])
  BY <1>1, <1>3 DEF Job
<1>5. ExtractionMoved(d, "extraction-ready", "SUCCEEDED")
  BY <1>2, <1>4 DEF ExtractionMoved, SameCustody, SameLink, Live
<1>6. \A e \in Docs \ {d} : Same(e)
  BY DEF Same, SameCustody, SameLink, SameEvidence, SameJob
<1> QED
  BY <1>1, <1>5, <1>6

LEMMA FailExtractionMoves ==
  ASSUME LInv, NEW w \in ExtWorkers, FailExtraction(w)
  PROVE  OneMoves
<1> DEFINE h == xheld[w]
           d == h.doc
           retry == CanRetry(xjob[d], h)
           stage == IF retry THEN "extraction-retry" ELSE "extraction-attention"
           js == IF retry THEN "RETRYING" ELSE "DEAD_LETTER"
           written == /\ Owns(xjob[d], xrow[d], h, w, 0)
                      /\ Projectable(stage, SourceOf[d], life[d])
<1>1. d \in Docs
  BY DEF LInv, IInv, HandsAreFull, FailExtraction
<1>2. CASE ~written
  BY <1>2 DEF FailExtraction, OneMoves, Same, SameCustody, SameLink, SameEvidence, SameJob
<1>3. CASE written
  <2>1. xjob[d].status = "RUNNING"
    BY <1>3, OwnsLast
  <2> USE DEF FailExtraction, LInv, IInv, TypeOK
  <2>2. life'[d] = Projected(stage, SourceOf[d], life[d])
    BY <1>1, <1>3
  <2>3. /\ SameCustody(d) /\ SameLink(d) /\ vjob'[d] = vjob[d]
        /\ attestation'[d] = attestation[d] /\ extraction'[d] = extraction[d]
    BY DEF SameCustody, SameLink
  <2>4. xjob'[d].status = js
    BY <1>1, <1>3 DEF Job
  <2>5. \A e \in Docs \ {d} : Same(e)
    BY <1>3 DEF Same, SameCustody, SameLink, SameEvidence, SameJob
  <2> HIDE DEF FailExtraction, LInv, IInv, TypeOK
  <2>6. ExtractionMoved(d, stage, js)
    BY <2>1, <2>2, <2>3, <2>4 DEF ExtractionMoved, Live
  <2>7. <<stage, js>> \in ExtractionKinds
    BY DEF ExtractionKinds
  <2>8. Moved(d)
    BY <2>6, <2>7 DEF Moved
  <2> QED
    BY <1>1, <2>5, <2>8 DEF OneMoves
<1> QED
  BY <1>2, <1>3

LEMMA DeferExtractionMoves ==
  ASSUME LInv, NEW w \in ExtWorkers, DeferExtraction(w)
  PROVE  OneMoves
<1> DEFINE h == xheld[w]
           d == h.doc
           written == /\ Owns(xjob[d], xrow[d], h, w, 0)
                      /\ Projectable("extraction-retry", SourceOf[d], life[d])
<1>1. d \in Docs
  BY DEF LInv, IInv, HandsAreFull, DeferExtraction
<1>2. CASE ~written
  BY <1>2 DEF DeferExtraction, OneMoves, Same, SameCustody, SameLink, SameEvidence, SameJob
<1>3. CASE written
  <2>1. xjob[d].status = "RUNNING"
    BY <1>3, OwnsLast
  <2> USE DEF DeferExtraction, LInv, IInv, TypeOK
  <2>2. /\ life'[d] = Projected("extraction-retry", SourceOf[d], life[d])
        /\ xjob'[d].status = "RETRYING"
    BY <1>1, <1>3 DEF Job
  <2>3. /\ SameCustody(d) /\ SameLink(d) /\ vjob'[d] = vjob[d]
        /\ attestation'[d] = attestation[d] /\ extraction'[d] = extraction[d]
    BY DEF SameCustody, SameLink
  <2>4. \A e \in Docs \ {d} : Same(e)
    BY <1>3 DEF Same, SameCustody, SameLink, SameEvidence, SameJob
  <2> HIDE DEF DeferExtraction, LInv, IInv, TypeOK
  <2>5. ExtractionMoved(d, "extraction-retry", "RETRYING")
    BY <2>1, <2>2, <2>3 DEF ExtractionMoved, Live
  <2>6. Moved(d)
    BY <2>5 DEF Moved, ExtractionKinds
  <2> QED
    BY <1>1, <2>4, <2>6 DEF OneMoves
<1> QED
  BY <1>2, <1>3
-----------------------------------------------------------------------------
(* What a user and the clock move.                                         *)

LEMMA AdmitMoves ==
  ASSUME LInv, NEW d \in Docs, Admit(d)
  PROVE  Admitted(d) /\ \A e \in Docs \ {d} : Same(e)
<1> USE DEF Admit, LInv, IInv, TypeOK
<1>1. life'[d] = [life[d] EXCEPT !.intake = "QUARANTINED",
                    !.import = IF SourceOf[d] = "BROWSER_UPLOAD" THEN "NONE" ELSE "QUARANTINED"]
  BY DEF Lives
<1>2. vjob'[d].status = "QUEUED"
  BY DEF Job
<1>3. Admitted(d)
  BY <1>1, <1>2 DEF Admitted, SameLink, SameEvidence
<1>4. \A e \in Docs \ {d} : Same(e)
  BY DEF Same, SameCustody, SameLink, SameEvidence, SameJob
<1> QED
  BY <1>3, <1>4

LEMMA LinkMoves ==
  ASSUME LInv, NEW d \in Docs, NEW p \in Papers, linkValidatedDocumentToWorkspacePaper(d, p)
  PROVE  Linked(d) /\ \A e \in Docs \ {d} : Same(e)
<1> USE DEF linkValidatedDocumentToWorkspacePaper, LInv, IInv, TypeOK
<1>1. life'[d] = [life[d] EXCEPT !.inbox = "IMPORTED"] /\ paper'[d] = p
  OBVIOUS
<1>2. Linked(d)
  BY <1>1 DEF Linked, SameCustody, SameEvidence
<1>3. \A e \in Docs \ {d} : Same(e)
  BY DEF Same, SameCustody, SameLink, SameEvidence, SameJob
<1> QED
  BY <1>2, <1>3

LEMMA DeletionMoves ==
  ASSUME LInv, NEW d \in Docs, deleteCrawlerCustody(d)
  PROVE  Withdrawn(d) /\ \A e \in Docs \ {d} : Same(e)
<1>1. \A job : Cancelled(job).status \notin Live
  BY DEF Cancelled, Job, Live, Waiting
<1> USE DEF deleteCrawlerCustody, LInv, IInv, TypeOK
<1>2. vjob'[d] = Cancelled(vjob[d]) /\ xjob'[d] = Cancelled(xjob[d])
  OBVIOUS
<1>3. /\ life'[d].intake = IF ActiveImport(life[d].import) THEN "CANCELLED" ELSE life[d].intake
      /\ life'[d].inbox = "REJECTED"
  OBVIOUS
<1>4. /\ doc'[d] = "ARCHIVED" /\ asset'[d] = "REJECTED" /\ custody'[d] = "DELETE_PENDING"
      /\ paper'[d] = paper[d] /\ SameEvidence(d)
  BY DEF SameEvidence
<1>5. Withdrawn(d)
  BY <1>1, <1>2, <1>3, <1>4 DEF Withdrawn
<1>6. \A e \in Docs \ {d} : Same(e)
  BY DEF Same, SameCustody, SameLink, SameEvidence, SameJob
<1> QED
  BY <1>5, <1>6

LEMMA TickMoves ==
  ASSUME LInv, Tick
  PROVE  \A e \in Docs : Same(e)
<1>1. \A job \in Jobs : SameJob(job, Aged(job))
  BY DEF SameJob, Aged, Jobs, Live
<1>2. \A e \in Docs : SameJob(vjob[e], vjob'[e]) /\ SameJob(xjob[e], xjob'[e])
  BY <1>1 DEF Tick, LInv, IInv, TypeOK
<1> QED
  BY <1>2 DEF Tick, Same, SameCustody, SameLink, SameEvidence
-----------------------------------------------------------------------------
(* At most one document moves.                                             *)

LEMMA ValidatorMoves ==
  ASSUME LInv, NEW w \in ValWorkers, ValidatorStep(w)
  PROVE  OneMoves
<1>1. CASE \E d \in Docs : ClaimValidation(w, d)
  BY <1>1, ClaimValidationMoves DEF OneMoves, Moved, PendingKinds
<1>2. CASE \E d \in Docs : ReapValidation(w, d)
  BY <1>2, ReapValidationMoves DEF OneMoves, Moved, PendingKinds
<1>3. CASE \E answered \in BOOLEAN : CompleteValidation(w, answered)
  BY <1>3, CompleteValidationMoves DEF OneMoves, Moved
<1>4. CASE FailValidation(w)
  BY <1>4, FailValidationMoves
<1>5. CASE HeartbeatValidation(w)
  BY <1>5, HeartbeatMoves DEF OneMoves
<1>6. CASE \/ \E verdict \in Verdicts : ValidatorAnswers(w, verdict)
           \/ \E failure \in ValFailures : ValidatorFails(w, failure)
           \/ ValidationOutcomeRefused(w) \/ ValidationCompletionThrows(w)
           \/ CrashValidator(w)
  <2>1. UNCHANGED database
    BY <1>6 DEF ValidatorAnswers, ValidatorFails, ValidationOutcomeRefused,
                ValidationCompletionThrows, CrashValidator
  <2> QED
    BY <2>1 DEF database, OneMoves, Same, SameCustody, SameLink, SameEvidence, SameJob
<1> QED
  BY <1>1, <1>2, <1>3, <1>4, <1>5, <1>6 DEF ValidatorStep

LEMMA ExtractorMoves ==
  ASSUME LInv, NEW w \in ExtWorkers, ExtractorStep(w)
  PROVE  OneMoves
<1>1. CASE \E d \in Docs : ClaimExtraction(w, d)
  BY <1>1, ClaimExtractionMoves DEF OneMoves, Moved, ExtractionKinds
<1>2. CASE \E d \in Docs : ReapExtraction(w, d)
  BY <1>2, ReapExtractionMoves DEF OneMoves, Moved, ExtractionKinds
<1>3. CASE \E answered \in BOOLEAN : CompleteExtraction(w, answered)
  BY <1>3, CompleteExtractionMoves DEF OneMoves, Moved, ExtractionKinds
<1>4. CASE FailExtraction(w) \/ DeferExtraction(w)
  BY <1>4, FailExtractionMoves, DeferExtractionMoves
<1>5. CASE HeartbeatExtraction(w)
  BY <1>5, HeartbeatMoves DEF OneMoves
<1>6. CASE \/ ExtractorAnswers(w) \/ ExtractorBusy(w)
           \/ \E failure \in ExtFailures : ExtractorFails(w, failure)
           \/ ExtractionOutcomeRefused(w) \/ ExtractionCompletionThrows(w)
           \/ CrashExtractor(w)
  <2>1. UNCHANGED database
    BY <1>6 DEF ExtractorAnswers, ExtractorBusy, ExtractorFails, ExtractorResponds,
                ExtractionOutcomeRefused, ExtractionCompletionThrows, CrashExtractor
  <2> QED
    BY <2>1 DEF database, OneMoves, Same, SameCustody, SameLink, SameEvidence, SameJob
<1> QED
  BY <1>1, <1>2, <1>3, <1>4, <1>5, <1>6 DEF ExtractorStep

\* Whoever takes it, a step moves one document in one of the ways above and
\* leaves every other one alone.
LEMMA AtMostOneMoves ==
  ASSUME LInv, [Next]_vars
  PROVE  OneMoves
<1>1. CASE \E d \in Docs : Admit(d)
  BY <1>1, AdmitMoves DEF OneMoves, Moved
<1>2. CASE \E d \in Docs : deleteCrawlerCustody(d)
  BY <1>2, DeletionMoves DEF OneMoves, Moved
<1>3. CASE \E d \in Docs, p \in Papers : linkValidatedDocumentToWorkspacePaper(d, p)
  BY <1>3, LinkMoves DEF OneMoves, Moved
<1>4. CASE Tick
  BY <1>4, TickMoves DEF OneMoves
<1>5. CASE UNCHANGED vars
  BY <1>5 DEF vars, database, OneMoves, Same, SameCustody, SameLink, SameEvidence, SameJob
<1> QED
  BY <1>1, <1>2, <1>3, <1>4, <1>5, ValidatorMoves, ExtractorMoves DEF Next, UserStep
-----------------------------------------------------------------------------
(* The invariant survives each way of moving, one part at a time.          *)

\* The parts of the invariant that are about one document.
RowsFit(d) ==
  /\ custody[d] = "RETAINED" =>
       /\ <<asset[d], doc[d]>> \in ExpectedCustody(d) /\ LifeAgrees(d, life[d])
       /\ vjob[d].status # "CANCELLED" /\ xjob[d].status # "CANCELLED"
  /\ life[d].intake = "RECEIVING" => life[d] = Receiving(SourceOf[d], HasBatch[d])
  /\ life[d].inbox = "IMPORTED" => attestation[d].verdict = "ACCEPTED"
  /\ custody[d] = "RETAINED" /\ paper[d] # None =>
       attestation[d].verdict = "ACCEPTED" /\ life[d].inbox = "IMPORTED"
  /\ custody[d] = "DELETE_PENDING" =>
       /\ SourceOf[d] = "CRAWLER"
       /\ doc[d] = "ARCHIVED" /\ asset[d] = "REJECTED"
       /\ life[d].intake # "RECEIVING" /\ life[d].inbox = "REJECTED"
       /\ vjob[d].status \notin Live /\ xjob[d].status \notin Live

LEMMA RowsFitEach == LInv <=> IInv /\ PapersAreExclusive /\ \A d \in Docs : RowsFit(d)
BY DEF LInv, RowsFit, CustodyAgrees, LifecycleAgrees, RowsStartClean, WithdrawnAreQuiet,
       RetainedAreNotCancelled, LinkedAreAccepted

\* What a document that stands still had, it keeps.
LEMMA SameKeeps ==
  ASSUME LInv, NEW d \in Docs, Same(d)
  PROVE  RowsFit(d)'
<1> USE DEF Same, SameCustody, SameLink, SameEvidence, SameJob
<1>1. ExpectedCustody(d)' = ExpectedCustody(d)
  BY DEF ExpectedCustody
<1>2. ExpectedIntake(d)' = ExpectedIntake(d)
  BY DEF ExpectedIntake
<1>3. LifeAgrees(d, life[d])' <=> LifeAgrees(d, life[d])
  BY <1>2 DEF LifeAgrees, ExpectedBatch
<1> QED
  BY <1>1, <1>3, RowsFitEach DEF RowsFit

LEMMA AdmittedKeeps ==
  ASSUME LInv, IInv', NEW d \in Docs, Admitted(d)
  PROVE  RowsFit(d)'
<1> USE DEF Admitted, SameLink, SameEvidence, LInv
<1>1. vjob[d].status = "NONE" /\ custody[d] = "RETAINED" /\ attestation[d].verdict = "NONE"
  BY DEF IInv, TypeOK, JobsStartClean, EvidenceAgrees, WithdrawnAreQuiet
<1>2. doc[d] = "PENDING"
  BY <1>1 DEF CustodyAgrees, ExpectedCustody
<1>3. life[d] = Receiving(SourceOf[d], HasBatch[d]) /\ SourceOf[d] \in Sources
  BY SourcesAssumption DEF RowsStartClean
<1>4. <<asset'[d], doc'[d]>> \in ExpectedCustody(d)'
  BY <1>1, <1>2 DEF ExpectedCustody, Waiting
<1>5. ExpectedIntake(d)' = "QUARANTINED"
  BY <1>1 DEF ExpectedIntake, IInv, EvidenceAgrees
<1>6. LifeAgrees(d, life[d])'
  BY <1>3, <1>5 DEF LifeAgrees, ExpectedBatch, Receiving, Sources
<1> QED
  BY <1>1, <1>3, <1>4, <1>6 DEF RowsFit, Receiving, LinkedAreAccepted, RetainedAreNotCancelled

\* A projection that goes through sets the intake, and with it the batch and
\* the import.
LEMMA ProjectedFits ==
  ASSUME NEW d \in Docs, NEW stage \in Stages, NEW l, NEW next,
         HasBatch[d] \in BOOLEAN,
         l.batch = ExpectedBatch(d, l.intake), Projectable(stage, SourceOf[d], l),
         SourceOf[d] = "BROWSER_UPLOAD" => l.import = "NONE",
         next = Projected(stage, SourceOf[d], l)
  PROVE  /\ next.intake = Desired[stage].to
         /\ next.batch = ExpectedBatch(d, next.intake)
         /\ SourceOf[d] = "BROWSER_UPLOAD" => next.import = "NONE"
         /\ SourceOf[d] # "BROWSER_UPLOAD" => next.import = next.intake
         /\ next.inbox = IF next.intake = "FAILED" THEN "FAILED"
                         ELSE IF l.inbox = "IMPORTED" THEN "IMPORTED" ELSE "NEEDS_REVIEW"
<1>1. /\ stage = "validation-failed" <=> Desired[stage].to = "FAILED"
      /\ Desired[stage].batch =
           CASE Desired[stage].to = "READY" -> "SUCCEEDED"
             [] Desired[stage].to = "ATTENTION" -> "PARTIAL"
             [] Desired[stage].to = "FAILED" -> "FAILED" [] OTHER -> "RUNNING"
      /\ Desired[stage].to \in {"VALIDATING", "EXTRACTING", "FAILED", "READY", "ATTENTION"}
  BY DEF Desired, Stages
<1>2. l.batch = "NONE" <=> ~HasBatch[d]
  <2>1. l.intake \in {"QUARANTINED", "VALIDATING", "EXTRACTING", "ATTENTION"}
    BY DEF Projectable, Desired, Stages
  <2> QED
    BY <2>1 DEF ExpectedBatch
<1>3. next.intake = Desired[stage].to
  BY DEF Projected
<1>4. next.batch = ExpectedBatch(d, next.intake)
  BY <1>1, <1>2, <1>3 DEF Projected, ExpectedBatch
<1> QED
  BY <1>1, <1>3, <1>4 DEF Projected

LEMMA PendingKeeps ==
  ASSUME LInv, IInv', NEW d \in Docs, NEW kind \in PendingKinds,
         ValidationPending(d, kind[1], kind[2])
  PROVE  RowsFit(d)'
<1> DEFINE stage == kind[1]
           js == kind[2]
<1> USE DEF ValidationPending, SameLink, SameEvidence
<1>1. /\ custody[d] = "RETAINED" /\ Projectable(stage, SourceOf[d], life[d])
      /\ stage \in Stages
  BY LiveValidation DEF PendingKinds, Stages
<1>2. attestation[d].verdict = "NONE"
  BY DEF LInv, IInv, EvidenceAgrees, Live, Waiting
<1>3. LifeAgrees(d, life[d]) /\ life[d].inbox # "IMPORTED"
  BY <1>1, <1>2 DEF LInv, LifecycleAgrees, RowsStartClean
<1>4. /\ life'[d].intake = Desired[stage].to
      /\ life'[d].batch = ExpectedBatch(d, life'[d].intake)
      /\ SourceOf[d] = "BROWSER_UPLOAD" => life'[d].import = "NONE"
      /\ SourceOf[d] # "BROWSER_UPLOAD" => life'[d].import = life'[d].intake
      /\ life'[d].inbox = IF life'[d].intake = "FAILED" THEN "FAILED" ELSE "NEEDS_REVIEW"
  <2> HIDE DEF stage
  <2>1. HasBatch[d] \in BOOLEAN /\ life'[d] = Projected(stage, SourceOf[d], life[d])
    BY SourcesAssumption DEF stage
  <2> QED
    BY <1>1, <1>3, <2>1, ProjectedFits DEF LifeAgrees
<1>5. Desired[stage].to = IF js = "DEAD_LETTER" THEN "FAILED" ELSE "VALIDATING"
  BY DEF PendingKinds, Desired, Stages
<1>6. ExpectedIntake(d)' = IF js = "DEAD_LETTER" THEN "FAILED" ELSE "VALIDATING"
  BY <1>2 DEF ExpectedIntake, PendingKinds, IInv, EvidenceAgrees
<1>7. LifeAgrees(d, life[d])'
  BY <1>4, <1>5, <1>6 DEF LifeAgrees, ExpectedBatch
<1>8. <<asset'[d], doc'[d]>> \in ExpectedCustody(d)'
  BY DEF ExpectedCustody, PendingKinds, Waiting
<1>9. paper[d] = None
  BY <1>1, <1>2 DEF LInv, LinkedAreAccepted
<1> QED
  BY <1>1, <1>4, <1>5, <1>7, <1>8, <1>9 DEF RowsFit, PendingKinds, LInv, RetainedAreNotCancelled

LEMMA DecidedKeeps ==
  ASSUME LInv, IInv', NEW d \in Docs, ValidationDecided(d)
  PROVE  RowsFit(d)'
<1> DEFINE stage == IF attestation'[d].verdict = "ACCEPTED"
                      THEN "validation-accepted" ELSE "validation-failed"
<1> USE DEF ValidationDecided, SameLink
<1>1. /\ custody[d] = "RETAINED" /\ Projectable(stage, SourceOf[d], life[d])
      /\ stage \in Stages /\ xjob[d].status = "NONE"
  BY LiveValidation DEF Live, Stages
<1>2. attestation[d].verdict = "NONE"
  BY DEF LInv, IInv, EvidenceAgrees, Live, Waiting
<1>3. LifeAgrees(d, life[d]) /\ life[d].inbox # "IMPORTED"
  BY <1>1, <1>2 DEF LInv, LifecycleAgrees, RowsStartClean
<1>4. /\ life'[d].intake = Desired[stage].to
      /\ life'[d].batch = ExpectedBatch(d, life'[d].intake)
      /\ SourceOf[d] = "BROWSER_UPLOAD" => life'[d].import = "NONE"
      /\ SourceOf[d] # "BROWSER_UPLOAD" => life'[d].import = life'[d].intake
      /\ life'[d].inbox = IF life'[d].intake = "FAILED" THEN "FAILED" ELSE "NEEDS_REVIEW"
  <2>1. HasBatch[d] \in BOOLEAN /\ life'[d] = Projected(stage, SourceOf[d], life[d])
    BY SourcesAssumption
  <2> HIDE DEF stage, ValidationDecided
  <2> QED
    BY <1>1, <1>3, <2>1, ProjectedFits DEF LifeAgrees
<1>5. /\ life'[d].intake = IF attestation'[d].verdict = "ACCEPTED" THEN "EXTRACTING" ELSE "FAILED"
      /\ ExpectedIntake(d)' = life'[d].intake
  BY <1>1, <1>4 DEF ExpectedIntake, Desired, Stages
<1>6. LifeAgrees(d, life[d])'
  BY <1>4, <1>5 DEF LifeAgrees, ExpectedBatch
<1>7. <<asset'[d], doc'[d]>> \in ExpectedCustody(d)'
  BY DEF ExpectedCustody, Waiting
<1>8. paper[d] = None
  BY <1>1, <1>2 DEF LInv, LinkedAreAccepted
<1> QED
  BY <1>1, <1>4, <1>5, <1>6, <1>7, <1>8 DEF RowsFit

LEMMA ExtractionKeeps ==
  ASSUME LInv, IInv', NEW d \in Docs, NEW kind \in ExtractionKinds,
         ExtractionMoved(d, kind[1], kind[2])
  PROVE  RowsFit(d)'
<1> DEFINE stage == kind[1]
           js == kind[2]
<1> USE DEF ExtractionMoved, SameCustody, SameLink
<1>1. /\ custody[d] = "RETAINED" /\ Projectable(stage, SourceOf[d], life[d])
      /\ attestation[d].verdict = "ACCEPTED" /\ vjob[d].status = "SUCCEEDED"
      /\ stage \in Stages
  BY LiveExtraction DEF ExtractionKinds, Stages
<1>2. LifeAgrees(d, life[d]) /\ life[d].inbox \in {"NEEDS_REVIEW", "IMPORTED"}
  BY <1>1 DEF LInv, LifecycleAgrees, Projectable, ExtractionKinds, Desired, Stages
<1>3. /\ life'[d].intake = Desired[stage].to
      /\ life'[d].batch = ExpectedBatch(d, life'[d].intake)
      /\ SourceOf[d] = "BROWSER_UPLOAD" => life'[d].import = "NONE"
      /\ SourceOf[d] # "BROWSER_UPLOAD" => life'[d].import = life'[d].intake
      /\ life'[d].inbox = IF life'[d].intake = "FAILED" THEN "FAILED" ELSE life[d].inbox
  <2> HIDE DEF stage
  <2>1. HasBatch[d] \in BOOLEAN /\ life'[d] = Projected(stage, SourceOf[d], life[d])
    BY SourcesAssumption DEF stage
  <2> QED
    BY <1>1, <1>2, <2>1, ProjectedFits DEF LifeAgrees
<1>4. Desired[stage].to = CASE js = "SUCCEEDED" -> "READY" [] js = "DEAD_LETTER" -> "ATTENTION"
                            [] OTHER -> "EXTRACTING"
  BY DEF ExtractionKinds, Desired, Stages
<1>5. ExpectedIntake(d)' = CASE js = "SUCCEEDED" -> "READY" [] js = "DEAD_LETTER" -> "ATTENTION"
                            [] OTHER -> "EXTRACTING"
  BY <1>1 DEF ExpectedIntake, ExtractionKinds
<1>6. life'[d].intake \in {"EXTRACTING", "READY", "ATTENTION"}
  BY <1>3 DEF ExtractionKinds, Desired, Stages
<1>7. LifeAgrees(d, life[d])'
  BY <1>2, <1>3, <1>4, <1>5, <1>6 DEF LifeAgrees, ExpectedBatch
<1>8. <<asset'[d], doc'[d]>> \in ExpectedCustody(d)'
  BY <1>1 DEF LInv, CustodyAgrees, ExpectedCustody
<1>9. paper[d] # None => life[d].inbox = "IMPORTED"
  BY <1>1 DEF LInv, LinkedAreAccepted
<1> QED
  BY <1>1, <1>3, <1>6, <1>7, <1>8, <1>9 DEF RowsFit, ExtractionKinds

LEMMA LinkedKeeps ==
  ASSUME LInv, NEW d \in Docs, Linked(d)
  PROVE  RowsFit(d)'
<1> USE DEF Linked, SameCustody, SameEvidence
<1>1. custody[d] = "RETAINED" /\ attestation[d].verdict = "ACCEPTED"
  BY CurrentlyAccepted DEF LinkAdmissible
<1>2. LifeAgrees(d, life[d]) /\ life[d].inbox = "NEEDS_REVIEW" /\ life[d].intake # "FAILED"
  BY <1>1 DEF LInv, LifecycleAgrees, LinkAdmissible, LifeAgrees
<1>3. /\ life'[d].intake = life[d].intake /\ life'[d].batch = life[d].batch
      /\ life'[d].import = life[d].import /\ life'[d].inbox = "IMPORTED"
  BY DEF LInv, IInv, TypeOK, Lives
<1>4. ExpectedIntake(d)' = ExpectedIntake(d) /\ ExpectedCustody(d)' = ExpectedCustody(d)
  BY DEF ExpectedIntake, ExpectedCustody
<1>5. LifeAgrees(d, life[d])'
  BY <1>2, <1>3, <1>4 DEF LifeAgrees, ExpectedBatch
<1>6. <<asset'[d], doc'[d]>> \in ExpectedCustody(d)'
  BY <1>1, <1>4 DEF LInv, CustodyAgrees
<1>7. life[d].intake # "RECEIVING"
  BY <1>1, <1>2 DEF LifeAgrees, ExpectedIntake, LInv, IInv, EvidenceAgrees
<1> QED
  BY <1>1, <1>3, <1>5, <1>6, <1>7 DEF RowsFit, LInv, RetainedAreNotCancelled

LEMMA WithdrawnKeeps ==
  ASSUME LInv, NEW d \in Docs, Withdrawn(d)
  PROVE  RowsFit(d)'
<1> USE DEF Withdrawn, SameEvidence
<1>1. life'[d].intake # "RECEIVING"
  <2>1. CASE life[d].intake = "RECEIVING"
    <3>1. life[d] = Receiving(SourceOf[d], HasBatch[d])
      BY <2>1 DEF LInv, RowsStartClean
    <3>2. life[d].import = "FETCHING"
      BY <3>1 DEF Receiving
    <3> QED
      BY <3>2 DEF ActiveImport
  <2>2. CASE life[d].intake # "RECEIVING"
    BY <2>2
  <2> QED
    BY <2>1, <2>2
<1> QED
  BY <1>1 DEF RowsFit
-----------------------------------------------------------------------------
(* The invariant is inductive.                                             *)

\* However a document moves, its rows still fit.
LEMMA MovedKeeps ==
  ASSUME LInv, IInv', NEW d \in Docs, Moved(d)
  PROVE  RowsFit(d)'
BY AdmittedKeeps, PendingKeeps, DecidedKeeps, ExtractionKeeps, LinkedKeeps, WithdrawnKeeps
   DEF Moved

\* A withdrawn document does not move.
LEMMA WithdrawnStandStill ==
  ASSUME LInv, NEW d \in Docs, custody[d] = "DELETE_PENDING"
  PROVE  ~Moved(d)
<1>1. /\ life[d].intake # "RECEIVING" /\ life[d].inbox = "REJECTED"
      /\ vjob[d].status \notin Live /\ xjob[d].status \notin Live
  BY DEF LInv, WithdrawnAreQuiet
<1> QED
  BY <1>1 DEF Moved, Admitted, ValidationPending, ValidationDecided, ExtractionMoved, Linked,
              LinkAdmissible, Withdrawn, Live

\* A paper changes hands only where it is linked, and is linked only when no
\* document that is not archived holds it.
LEMMA LinksKeep ==
  ASSUME LInv, OneMoves
  PROVE  PapersAreExclusive'
<1> USE DEF PapersAreExclusive
<1>1. ASSUME NEW e \in Docs, Same(e)
      PROVE  paper'[e] = paper[e] /\ doc'[e] = doc[e]
  BY <1>1 DEF Same, SameLink, SameCustody
<1>2. ASSUME NEW e \in Docs, Moved(e)
      PROVE  /\ doc[e] # "ARCHIVED"
             /\ ~Linked(e) => paper'[e] = paper[e]
  <2>1. custody[e] = "RETAINED"
    BY <1>2, WithdrawnStandStill DEF LInv, IInv, TypeOK
  <2>2. doc[e] # "ARCHIVED"
    BY <2>1 DEF LInv, CustodyAgrees, ExpectedCustody
  <2>3. ~Linked(e) => paper'[e] = paper[e]
    BY <1>2 DEF Moved, Admitted, ValidationPending, ValidationDecided, ExtractionMoved,
                Withdrawn, SameLink
  <2> QED
    BY <2>2, <2>3
<1>3. CASE \A e \in Docs : Same(e)
  BY <1>1, <1>3 DEF LInv
<1>4. ASSUME NEW d \in Docs, Moved(d), \A e \in Docs \ {d} : Same(e), ~Linked(d)
      PROVE  PapersAreExclusive'
  BY <1>1, <1>2, <1>4 DEF LInv
<1>5. ASSUME NEW d \in Docs, Linked(d), \A e \in Docs \ {d} : Same(e)
      PROVE  PapersAreExclusive'
  <2>1. PICK p \in Papers : LinkAdmissible(d, p) /\ paper'[d] = p
    BY <1>5 DEF Linked
  <2>2. \A e \in Docs \ {d} : paper[e] = p => doc[e] = "ARCHIVED"
    BY <2>1 DEF LinkAdmissible, PaperTaken
  <2> QED
    BY <1>1, <1>5, <2>1, <2>2 DEF LInv
<1> QED
  BY <1>3, <1>4, <1>5 DEF OneMoves

LEMMA InitLInv == Init => LInv
<1> SUFFICES ASSUME Init PROVE LInv
  OBVIOUS
<1>1. IInv
  BY InitIInv
<1>2. \A d \in Docs : RowsFit(d)
  BY SourcesAssumption DEF Init, RowsFit, ExpectedCustody, LifeAgrees, ExpectedIntake,
     ExpectedBatch, Receiving, NoJob, Job, Waiting, NoAttestation, Sources
<1>3. PapersAreExclusive
  BY DEF Init, PapersAreExclusive
<1> QED
  BY <1>1, <1>2, <1>3, RowsFitEach

LEMMA NextLInv == LInv /\ [Next]_vars => LInv'
<1> SUFFICES ASSUME LInv, [Next]_vars PROVE LInv'
  OBVIOUS
<1>1. IInv' /\ OneMoves
  BY NextIInv, AtMostOneMoves DEF LInv
<1>2. \A e \in Docs : RowsFit(e)'
  BY <1>1, SameKeeps, MovedKeeps DEF OneMoves
<1>3. PapersAreExclusive'
  BY <1>1, LinksKeep
<1> QED
  BY <1>1, <1>2, <1>3, RowsFitEach DEF LInv, CustodyAgrees, LifecycleAgrees, RowsStartClean,
     WithdrawnAreQuiet, RetainedAreNotCancelled, LinkedAreAccepted, RowsFit

\* The strengthened invariant holds of every behaviour.
THEOREM LifecycleInductive == Spec => []LInv
<1> QED
  BY InitLInv, NextLInv, PTL DEF Spec
-----------------------------------------------------------------------------
(* What the runs check of the custody, lifecycle and link rows.            *)

\* Whichever worker moved them, on time or late: intake, import, batch and
\* inbox of a retained document are those its two jobs call for.
THEOREM LifecyclesAgree == Spec => []LifecycleAgrees
<1>1. LInv => LifecycleAgrees
  BY DEF LInv
<1> QED
  BY <1>1, LifecycleInductive, PTL

\* The stage shown for an upload follows from rows that agree.
LEMMA HonestStage == LInv => StageIsHonest
<1> SUFFICES ASSUME LInv, NEW d \in Docs, SourceOf[d] = "BROWSER_UPLOAD",
                    life[d].intake # "RECEIVING"
             PROVE  /\ documentUploadStage(d) = "failed" <=> life[d].intake = "FAILED"
                    /\ documentUploadStage(d) = "ready" <=> currentAcceptedValidation(d)
                    /\ documentUploadStage(d) = "validating" <=> vjob[d].status = "RUNNING"
  BY DEF StageIsHonest
<1> USE DEF LInv
<1>1. custody[d] = "RETAINED"
  BY DEF WithdrawnAreQuiet, IInv, TypeOK
<1>2. <<asset[d], doc[d]>> \in ExpectedCustody(d) /\ life[d].intake = ExpectedIntake(d)
  BY <1>1 DEF CustodyAgrees, LifecycleAgrees, LifeAgrees
<1>3. /\ vjob[d].status \in JobStatuses /\ xjob[d].status \in JobStatuses
      /\ attestation[d].verdict \in {"NONE", "ACCEPTED", "REJECTED"}
      /\ attestation[d].verdict # "NONE" <=> vjob[d].status = "SUCCEEDED"
      /\ xjob[d].status # "NONE" <=> attestation[d].verdict = "ACCEPTED"
  BY DEF IInv, TypeOK, Jobs, Verdicts, EvidenceAgrees
<1>4. currentAcceptedValidation(d) <=> attestation[d].verdict = "ACCEPTED"
  BY <1>1, CurrentlyAccepted
<1>5. vjob[d].status # "NONE"
  BY <1>2, <1>3 DEF ExpectedIntake
<1>6. CASE vjob[d].status \in Waiting
  <2>1. asset[d] = "QUARANTINED" /\ doc[d] = "PENDING"
    BY <1>2, <1>6 DEF ExpectedCustody, Waiting
  <2>2. life[d].intake \in {"QUARANTINED", "VALIDATING"}
    BY <1>2, <1>3, <1>6 DEF ExpectedIntake, Waiting
  <2> QED
    BY <1>3, <1>4, <1>6, <2>1, <2>2 DEF documentUploadStage, Waiting
<1>7. CASE vjob[d].status = "RUNNING"
  <2>1. asset[d] = "SCANNING" /\ doc[d] = "PROCESSING"
    BY <1>2, <1>7 DEF ExpectedCustody, Waiting
  <2>2. life[d].intake = "VALIDATING"
    BY <1>2, <1>3, <1>7 DEF ExpectedIntake
  <2> QED
    BY <1>3, <1>4, <1>7, <2>1, <2>2 DEF documentUploadStage
<1>8. CASE vjob[d].status = "SUCCEEDED" /\ attestation[d].verdict = "ACCEPTED"
  <2>1. asset[d] = "READY" /\ doc[d] = "READY"
    BY <1>2, <1>8 DEF ExpectedCustody, Waiting
  <2>2. life[d].intake \in {"EXTRACTING", "READY", "ATTENTION"}
    BY <1>2, <1>3, <1>8 DEF ExpectedIntake
  <2> QED
    BY <1>4, <1>8, <2>1, <2>2 DEF documentUploadStage
<1>9. CASE vjob[d].status = "SUCCEEDED" /\ attestation[d].verdict = "REJECTED"
  <2>1. asset[d] = "REJECTED" /\ doc[d] = "FAILED"
    BY <1>2, <1>9 DEF ExpectedCustody, Waiting
  <2>2. life[d].intake = "FAILED"
    BY <1>2, <1>3, <1>9 DEF ExpectedIntake
  <2> QED
    BY <1>4, <1>9, <2>1, <2>2 DEF documentUploadStage
<1>10. CASE vjob[d].status = "DEAD_LETTER"
  <2>1. doc[d] = "FAILED"
    BY <1>2, <1>10 DEF ExpectedCustody, Waiting
  <2>2. life[d].intake = "FAILED"
    BY <1>2, <1>3, <1>10 DEF ExpectedIntake
  <2> QED
    BY <1>3, <1>4, <1>10, <2>1, <2>2 DEF documentUploadStage
<1>11. vjob[d].status # "CANCELLED"
  BY <1>1 DEF RetainedAreNotCancelled
<1> QED
  BY <1>3, <1>5, <1>6, <1>7, <1>8, <1>9, <1>10, <1>11 DEF JobStatuses, Settled, Waiting

\* The custody rows and the stage derived from them are those the validation
\* job calls for, whatever its worker did, late or not at all.
THEOREM CustodyStaysHonest == Spec => []CustodyIsHonest
<1>1. LInv => CustodyIsHonest
  BY HonestStage DEF LInv, CustodyIsHonest
<1> QED
  BY <1>1, LifecycleInductive, PTL

\* A paper has one document at most that is not archived, and that document
\* is one every later boundary accepts.
THEOREM LinksStaySound == Spec => []LinksAreSound
<1>1. LInv => LinksAreSound
  <2> SUFFICES ASSUME LInv, NEW d \in Docs, paper[d] # None, doc[d] # "ARCHIVED"
               PROVE  currentAcceptedValidation(d) /\ life[d].inbox = "IMPORTED"
    BY DEF LInv, PapersAreExclusive, LinksAreSound
  <2>1. custody[d] = "RETAINED"
    BY DEF LInv, IInv, TypeOK, WithdrawnAreQuiet
  <2> QED
    BY <2>1, CurrentlyAccepted DEF LInv, LinkedAreAccepted
<1> QED
  BY <1>1, LifecycleInductive, PTL
-----------------------------------------------------------------------------
(* What no step does.                                                      *)

\* The intake of a document that moves goes where the trigger lets it.
LEMMA MovesAreAllowed ==
  ASSUME LInv, NEW d \in Docs, Moved(d)
  PROVE  /\ IntakeStepAllowed(life[d].intake, life'[d].intake)
         /\ life[d].inbox = "IMPORTED" /\ custody'[d] = "RETAINED" =>
              life'[d].inbox = "IMPORTED" /\ paper'[d] = paper[d]
<1>1. CASE Admitted(d)
  <2>1. life[d].inbox = "NEEDS_REVIEW"
    <3>1. life[d] = Receiving(SourceOf[d], HasBatch[d])
      BY <1>1 DEF Admitted, LInv, RowsStartClean
    <3> QED
      BY <3>1 DEF Receiving
  <2>2. life'[d].intake = "QUARANTINED"
    BY <1>1 DEF Admitted, LInv, IInv, TypeOK, Lives
  <2> QED
    BY <1>1, <2>1, <2>2 DEF Admitted, IntakeStepAllowed, IntakeSuccessors
<1>2. ASSUME NEW kind \in PendingKinds, ValidationPending(d, kind[1], kind[2])
      PROVE  /\ IntakeStepAllowed(life[d].intake, life'[d].intake)
             /\ life[d].inbox # "IMPORTED"
  <2>1. life[d].intake \in {"QUARANTINED", "VALIDATING"} /\ life[d].inbox # "IMPORTED"
    BY <1>2, LiveValidation DEF ValidationPending, Projectable, Desired, Stages
  <2>2. life'[d].intake \in {"VALIDATING", "FAILED"}
    BY <1>2 DEF ValidationPending, PendingKinds, Projected, Desired, Stages
  <2> QED
    BY <2>1, <2>2 DEF IntakeStepAllowed, IntakeSuccessors, Withdrawals
<1>3. CASE ValidationDecided(d)
  <2>1. life[d].intake = "VALIDATING" /\ life[d].inbox # "IMPORTED"
    BY <1>3, LiveValidation DEF ValidationDecided, Live, Projectable, Desired, Stages, LInv,
       LifecycleAgrees, LifeAgrees, ExpectedIntake, IInv, EvidenceAgrees
  <2>2. life'[d].intake \in {"EXTRACTING", "FAILED"}
    BY <1>3 DEF ValidationDecided, Projected, Desired, Stages
  <2> QED
    BY <2>1, <2>2 DEF IntakeStepAllowed, IntakeSuccessors, Withdrawals
<1>4. ASSUME NEW kind \in ExtractionKinds, ExtractionMoved(d, kind[1], kind[2])
      PROVE  /\ IntakeStepAllowed(life[d].intake, life'[d].intake)
             /\ paper'[d] = paper[d]
             /\ life[d].inbox = "IMPORTED" => life'[d].inbox = "IMPORTED"
  <2>1. life[d].intake = "EXTRACTING"
    <3>1. Projectable("extraction-ready", SourceOf[d], life[d])
      BY <1>4, LiveExtraction DEF ExtractionMoved
    <3> QED
      BY <3>1 DEF Projectable, Desired, Stages
  <2>2. /\ life'[d].intake \in {"EXTRACTING", "READY", "ATTENTION"} /\ paper'[d] = paper[d]
        /\ life[d].inbox = "IMPORTED" => life'[d].inbox = "IMPORTED"
    BY <1>4 DEF ExtractionMoved, ExtractionKinds, Projected, Desired, Stages, SameLink
  <2> QED
    BY <2>1, <2>2 DEF IntakeStepAllowed, IntakeSuccessors
<1>5. CASE Linked(d)
  <2>1. life[d].inbox = "NEEDS_REVIEW" /\ life'[d].intake = life[d].intake
    BY <1>5 DEF Linked, LinkAdmissible, LInv, IInv, TypeOK, Lives
  <2> QED
    BY <2>1 DEF IntakeStepAllowed
<1>6. CASE Withdrawn(d)
  <2>1. life'[d].intake \in {life[d].intake, "CANCELLED"} /\ custody'[d] # "RETAINED"
    BY <1>6 DEF Withdrawn
  <2>2. ActiveImport(life[d].import) =>
          life[d].intake \in {"RECEIVING", "QUARANTINED", "VALIDATING", "EXTRACTING", "ATTENTION"}
    <3>1. LifeAgrees(d, life[d]) /\ SourceOf[d] = "CRAWLER"
      BY <1>6 DEF Withdrawn, LInv, LifecycleAgrees
    <3>2. ExpectedIntake(d) \in {"RECEIVING", "QUARANTINED", "VALIDATING", "EXTRACTING",
                                "ATTENTION", "READY", "FAILED"}
      BY DEF ExpectedIntake, LInv, IInv, TypeOK, Jobs, JobStatuses, Waiting, Settled,
             EvidenceAgrees, RetainedAreNotCancelled
    <3> QED
      BY <3>1, <3>2 DEF LifeAgrees, ActiveImport
  <2> QED
    BY <1>6, <2>1, <2>2 DEF Withdrawn, IntakeStepAllowed, IntakeSuccessors, Withdrawals
<1> QED
  BY <1>1, <1>2, <1>3, <1>4, <1>5, <1>6 DEF Moved

\* No transaction of the pipeline runs into the DocumentIntake_update_guard
\* trigger, and no job takes back what the user has imported.
THEOREM ProjectionsStaySafe == Spec => ProjectionsAreSafe
<1>1. LInv /\ [Next]_vars =>
        [\A d \in Docs : IntakeStepAllowed(life[d].intake, life'[d].intake)]_vars
  BY AtMostOneMoves, MovesAreAllowed DEF OneMoves, Same, IntakeStepAllowed
<1>2. LInv /\ [Next]_vars =>
        [\A d \in Docs : life[d].inbox = "IMPORTED" /\ custody'[d] = "RETAINED" =>
           life'[d].inbox = "IMPORTED" /\ paper'[d] = paper[d]]_vars
  BY AtMostOneMoves, MovesAreAllowed DEF OneMoves, Same, SameLink
<1> QED
  BY <1>1, <1>2, LifecycleInductive, PTL
     DEF Spec, ProjectionsAreSafe, IntakeGuardNeverTrips, ImportSurvivesExtraction

\* deleteCrawlerCustody: once the deletion has won, every later adoption is
\* fenced, whatever lease its worker still holds.
THEOREM DeletionIsFinal == Spec => DeletionFences
<1>1. LInv /\ [Next]_vars =>
        [\A d \in Docs : custody[d] = "DELETE_PENDING" =>
           /\ doc'[d] = doc[d] /\ asset'[d] = asset[d] /\ life'[d] = life[d]
           /\ vjob'[d] = vjob[d] /\ vrow'[d] = vrow[d] /\ xjob'[d] = xjob[d] /\ xrow'[d] = xrow[d]
           /\ attestation'[d] = attestation[d] /\ extraction'[d] = extraction[d]
           /\ paper'[d] = paper[d] /\ custody'[d] = custody[d]]_vars
  <2> SUFFICES ASSUME LInv, [Next]_vars, NEW d \in Docs, custody[d] = "DELETE_PENDING"
               PROVE  /\ doc'[d] = doc[d] /\ asset'[d] = asset[d] /\ life'[d] = life[d]
                      /\ vjob'[d] = vjob[d] /\ vrow'[d] = vrow[d]
                      /\ xjob'[d] = xjob[d] /\ xrow'[d] = xrow[d]
                      /\ attestation'[d] = attestation[d] /\ extraction'[d] = extraction[d]
                      /\ paper'[d] = paper[d] /\ custody'[d] = custody[d]
    OBVIOUS
  <2>1. Same(d)
    BY AtMostOneMoves, WithdrawnStandStill DEF OneMoves
  <2>2. vjob[d].status \notin Live /\ xjob[d].status \notin Live
    BY DEF LInv, WithdrawnAreQuiet
  <2> QED
    BY <2>1, <2>2 DEF Same, SameCustody, SameLink, SameEvidence, SameJob
<1> QED
  BY <1>1, LifecycleInductive, PTL DEF Spec, DeletionFences
-----------------------------------------------------------------------------
(* The pipeline implements its promise.                                    *)

\* Seen through the refinement, a document that stands still stutters and one
\* that moves takes a step of the promise or stutters.
LEMMA SameStutters ==
  ASSUME NEW d \in Docs, Same(d)
  PROVE  /\ StageOf(d)' = StageOf(d)
         /\ attestation'[d].verdict = attestation[d].verdict
         /\ (extraction'[d] # None) = (extraction[d] # None)
BY DEF Same, SameLink, SameEvidence, StageOf

PromiseStages == [d \in Docs |-> StageOf(d)]
PromiseVerdicts == [d \in Docs |-> attestation[d].verdict]
PromiseTexts == [d \in Docs |-> extraction[d] # None]

\* A document that moves leaves the three abstract functions alone elsewhere.
LEMMA MovesOneEntry ==
  ASSUME NEW d \in Docs, \A e \in Docs \ {d} : Same(e)
  PROVE  /\ PromiseStages' = [PromiseStages EXCEPT ![d] = StageOf(d)']
         /\ PromiseVerdicts' = [PromiseVerdicts EXCEPT ![d] = attestation'[d].verdict]
         /\ PromiseTexts' = [PromiseTexts EXCEPT ![d] = (extraction'[d] # None)]
BY SameStutters DEF PromiseStages, PromiseVerdicts, PromiseTexts

\* What each way of moving is in the promise's words.
LEMMA MoveInPromise ==
  ASSUME LInv, LInv', NEW d \in Docs, Moved(d)
  PROVE  LET from == StageOf(d)
             to == StageOf(d)'
             v == attestation[d].verdict
             w == attestation'[d].verdict
             t == extraction[d] # None
             u == extraction'[d] # None
         IN  \/ from = "receiving" /\ to = "held" /\ w = v /\ u = t
             \/ from = "held" /\ to = "held" /\ w = v /\ u = t
             \/ from = "held" /\ to = "accepted" /\ w = "ACCEPTED" /\ u = t
             \/ from = "held" /\ to = "refused" /\ w \in {"NONE", "REJECTED"} /\ u = t
             \/ from = "accepted" /\ to = "accepted" /\ w = v /\ u = t
             \/ from = "accepted" /\ to = "readable" /\ w = v /\ u
             \/ from = "accepted" /\ to = "unreadable" /\ w = v /\ u = t
             \/ from = to /\ w = v /\ u = t
             \/ /\ SourceOf[d] = "CRAWLER" /\ from # "withdrawn" /\ to = "withdrawn"
                /\ w = v /\ u = t
<1> USE DEF StageOf
<1>0. custody[d] = "RETAINED"
  BY WithdrawnStandStill DEF LInv, IInv, TypeOK
<1>1. CASE Admitted(d)
  <2>1. life'[d].intake = "QUARANTINED"
    BY <1>1 DEF Admitted, LInv, IInv, TypeOK, Lives
  <2> QED
    BY <1>0, <1>1, <2>1 DEF Admitted, SameLink, SameEvidence
<1>2. CASE \E kind \in PendingKinds : ValidationPending(d, kind[1], kind[2])
  <2>1. PICK kind \in PendingKinds : ValidationPending(d, kind[1], kind[2])
    BY <1>2
  <2>2. life[d].intake \in {"QUARANTINED", "VALIDATING"} /\ attestation[d].verdict = "NONE"
    <3>1. Projectable("validation-claim", SourceOf[d], life[d])
      BY <2>1, LiveValidation DEF ValidationPending
    <3> QED
      BY <2>1, <3>1 DEF Projectable, Desired, Stages, ValidationPending, LInv, IInv,
         EvidenceAgrees, Live, Waiting
  <2>3. life'[d].intake \in {"VALIDATING", "FAILED"}
    BY <2>1 DEF ValidationPending, PendingKinds, Projected, Desired, Stages
  <2> QED
    BY <1>0, <2>1, <2>2, <2>3 DEF ValidationPending, SameLink, SameEvidence
<1>3. CASE ValidationDecided(d)
  <2>1. life[d].intake \in {"QUARANTINED", "VALIDATING"}
    <3>1. Projectable("validation-claim", SourceOf[d], life[d])
      BY <1>3, LiveValidation DEF ValidationDecided, Live
    <3> QED
      BY <3>1 DEF Projectable, Desired, Stages
  <2>2. life'[d].intake = IF attestation'[d].verdict = "ACCEPTED" THEN "EXTRACTING" ELSE "FAILED"
    BY <1>3 DEF ValidationDecided, Projected, Desired, Stages
  <2> QED
    BY <1>0, <1>3, <2>1, <2>2 DEF ValidationDecided, SameLink
<1>4. CASE \E kind \in ExtractionKinds : ExtractionMoved(d, kind[1], kind[2])
  <2>1. PICK kind \in ExtractionKinds : ExtractionMoved(d, kind[1], kind[2])
    BY <1>4
  <2>2. life[d].intake = "EXTRACTING"
    <3>1. Projectable("extraction-ready", SourceOf[d], life[d])
      BY <2>1, LiveExtraction DEF ExtractionMoved
    <3> QED
      BY <3>1 DEF Projectable, Desired, Stages
  <2>3. /\ life'[d].intake = CASE kind[2] = "SUCCEEDED" -> "READY"
                               [] kind[2] = "DEAD_LETTER" -> "ATTENTION"
                               [] OTHER -> "EXTRACTING"
        /\ kind[2] \in {"RUNNING", "RETRYING", "SUCCEEDED", "DEAD_LETTER"}
    BY <2>1 DEF ExtractionMoved, ExtractionKinds, Projected, Desired, Stages
  <2> QED
    BY <1>0, <2>1, <2>2, <2>3 DEF ExtractionMoved, SameLink
<1>5. CASE Linked(d)
  <2>1. life'[d].intake = life[d].intake
    BY <1>5 DEF Linked, LInv, IInv, TypeOK, Lives
  <2> QED
    BY <1>5, <2>1 DEF Linked, SameEvidence
<1>6. CASE Withdrawn(d)
  BY <1>0, <1>6 DEF Withdrawn, SameEvidence
<1> QED
  BY <1>1, <1>2, <1>3, <1>4, <1>5, <1>6 DEF Moved

LEMMA InitPromise == Init => Promise!Init
<1> SUFFICES ASSUME Init PROVE Promise!Init
  OBVIOUS
<1>1. \A d \in Docs : /\ custody[d] = "RETAINED" /\ life[d].intake = "RECEIVING"
                      /\ attestation[d].verdict = "NONE" /\ extraction[d] = None
  BY DEF Init, Receiving, NoAttestation
<1>2. \A d \in Docs : StageOf(d) = "receiving"
  BY <1>1 DEF StageOf
<1> QED
  BY <1>1, <1>2 DEF Promise!Init

LEMMA NextPromise == LInv /\ LInv' /\ [Next]_vars => [Promise!Next]_Promise!vars
<1> SUFFICES ASSUME LInv, LInv', [Next]_vars PROVE [Promise!Next]_Promise!vars
  OBVIOUS
<1>1. CASE \A e \in Docs : Same(e)
  BY <1>1, SameStutters DEF Promise!vars
<1>2. ASSUME NEW d \in Docs, Moved(d), \A e \in Docs \ {d} : Same(e)
      PROVE  [Promise!Next]_Promise!vars
  <2> DEFINE from == StageOf(d)
             to == StageOf(d)'
             v == attestation[d].verdict
             w == attestation'[d].verdict
             t == extraction[d] # None
             u == extraction'[d] # None
  <2>1. /\ PromiseStages[d] = from /\ PromiseVerdicts[d] = v /\ PromiseTexts[d] = t
        /\ PromiseStages' = [PromiseStages EXCEPT ![d] = to]
        /\ PromiseVerdicts' = [PromiseVerdicts EXCEPT ![d] = w]
        /\ PromiseTexts' = [PromiseTexts EXCEPT ![d] = u]
    BY <1>2, MovesOneEntry DEF PromiseStages, PromiseVerdicts, PromiseTexts
  <2>2. /\ to = from => PromiseStages' = PromiseStages
        /\ w = v => PromiseVerdicts' = PromiseVerdicts
        /\ u = t => PromiseTexts' = PromiseTexts
    BY <2>1 DEF PromiseStages, PromiseVerdicts, PromiseTexts
  <2> HIDE DEF from, to, v, w, t, u
  <2>3. CASE to = from /\ w = v /\ u = t
    BY <2>2, <2>3 DEF Promise!vars, PromiseStages, PromiseVerdicts, PromiseTexts
  <2>4. CASE from = "receiving" /\ to = "held" /\ w = v /\ u = t
    <3>1. Promise!TakeCustody(d)
      BY <2>1, <2>2, <2>4 DEF Promise!TakeCustody, Promise!Move, PromiseStages,
         PromiseVerdicts, PromiseTexts
    <3> QED
      BY <3>1 DEF Promise!Next
  <2>5. CASE from = "held" /\ to = "accepted" /\ w = "ACCEPTED" /\ u = t
    <3>1. Promise!Accept(d)
      BY <2>1, <2>2, <2>5 DEF Promise!Accept, Promise!Move, PromiseStages,
         PromiseVerdicts, PromiseTexts
    <3> QED
      BY <3>1 DEF Promise!Next, Promise!Decide
  <2>6. CASE from = "held" /\ to = "refused" /\ w \in {"NONE", "REJECTED"} /\ u = t
    <3>1. Promise!Refuse(d)
      BY <2>1, <2>2, <2>6 DEF Promise!Refuse, Promise!Move, PromiseStages,
         PromiseVerdicts, PromiseTexts
    <3> QED
      BY <3>1 DEF Promise!Next, Promise!Decide
  <2>7. CASE from = "accepted" /\ to = "readable" /\ w = v /\ u = TRUE
    <3>1. Promise!Publish(d)
      BY <2>1, <2>2, <2>7 DEF Promise!Publish, Promise!Move, PromiseStages,
         PromiseVerdicts, PromiseTexts
    <3> QED
      BY <3>1 DEF Promise!Next, Promise!Finish
  <2>8. CASE from = "accepted" /\ to = "unreadable" /\ w = v /\ u = t
    <3>1. Promise!Withhold(d)
      BY <2>1, <2>2, <2>8 DEF Promise!Withhold, Promise!Move, PromiseStages,
         PromiseVerdicts, PromiseTexts
    <3> QED
      BY <3>1 DEF Promise!Next, Promise!Finish
  <2>9. CASE /\ SourceOf[d] = "CRAWLER" /\ from # "withdrawn" /\ to = "withdrawn"
            /\ w = v /\ u = t
    <3>1. Promise!Withdraw(d)
      BY <2>1, <2>2, <2>9 DEF Promise!Withdraw, Promise!Move, PromiseStages,
         PromiseVerdicts, PromiseTexts
    <3> QED
      BY <3>1 DEF Promise!Next
  <2> QED
    BY <1>2, <2>3, <2>4, <2>5, <2>6, <2>7, <2>8, <2>9, MoveInPromise DEF from, to, v, w, t, u
<1> QED
  BY <1>1, <1>2, AtMostOneMoves DEF OneMoves

\* The pipeline, with its jobs, leases, retries and crashes, does what
\* DocumentPromise says and nothing else.
THEOREM PipelineImplementsPromise == Spec => ImplementsPromise
<1> QED
  BY InitPromise, NextPromise, LifecycleInductive, PTL DEF Spec, ImplementsPromise, Promise!Spec
=============================================================================
