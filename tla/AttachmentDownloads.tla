------------------------ MODULE AttachmentDownloads -------------------------
(***************************************************************************)
(* One import of a PDF that is stored in Zotero, from the user's command   *)
(* to quarantine or failure:                                               *)
(*                                                                         *)
(*  - the command (integrations/zotero/attachment-service.ts);             *)
(*  - the DOCUMENT_DOWNLOAD job (attachment-download-jobs.ts);             *)
(*  - the worker (src/workers/zotero-attachment-download-worker.ts), which *)
(*    first cleans up and then claims.                                     *)
(*                                                                         *)
(* The command freezes what it was given under: the connection's           *)
(* credential generation, the policy's revision, the attachment's version. *)
(* Disconnecting, a new policy or a new version end that authority for     *)
(* ever; deselecting the library or losing sight of it only suspends it.   *)
(***************************************************************************)
EXTENDS IngressAttempts

VARIABLES
  authority,  \* what the import was commanded under: current, suspended, gone
  backoff     \* IntegrationConnection.providerBackoffUntil, in ticks

vars == <<ingressRows, store, hand, budget, authority, backoff>>

Init ==
  /\ IngressInit("NONE")
  /\ authority = "current" /\ backoff = 0

Connection == UNCHANGED <<authority, backoff>>
Rows == UNCHANGED <<ingressRows, authority, backoff>>

\* queueZoteroAttachmentImport, when it neither replays nor coalesces.
queueZoteroAttachmentImport ==
  /\ job.status = "NONE" /\ authority = "current"
  /\ job' = [job EXCEPT !.status = "QUEUED"]
  /\ command' = [command EXCEPT !.status = "QUEUED"]
  /\ target' = [target EXCEPT !.intake = "QUEUED"]
  /\ UNCHANGED <<row, ingress, receipt, store, hand, budget>> /\ Connection

\* A new policy revision, credential or attachment version; a selection.
AuthorityChanges(to) ==
  /\ authority # "gone" /\ authority # to
  /\ authority' = to
  /\ UNCHANGED <<ingressRows, store, hand, budget, backoff>>

\* A metadata pass or another download of the connection is told to wait.
OthersBackOff ==
  /\ backoff = 0
  /\ backoff' = RetryDelay + 1
  /\ budget > 0 /\ budget' = budget - 1
  /\ UNCHANGED <<ingressRows, store, hand, authority>>
-----------------------------------------------------------------------------
(* currentAuthorityMatches.                                                *)

TargetWaits(intake) ==
  /\ authority = "current"
  /\ target.intake = intake /\ ~target.released
  /\ target.asset = "UPLOADING" /\ target.document = "PENDING"

ClaimAuthority ==
  \/ job.status = "QUEUED" /\ command.status = "QUEUED" /\ TargetWaits("QUEUED")
  \/ job.status = "RETRYING" /\ command.status = "DOWNLOADING" /\ TargetWaits("RECEIVING")
FetchAuthority ==
  job.status = "RUNNING" /\ command.status = "DOWNLOADING" /\ TargetWaits("RECEIVING")

Unlocked(status, wait) == [job EXCEPT !.status = status, !.left = 0, !.wait = wait]

\* Wrong on purpose: a failed import gives its quota back at once.
ReleasedAtOnce(safe) == TRUE

Released(safe) == safe \/ target.released

\* terminalizeWithoutBytes.
Bound == command.status \in {"QUEUED", "DOWNLOADING", "FAILED"}
Terminalize(status, safe, charged) ==
  /\ job' = Unlocked(status, job.wait)
  /\ command' = IF command.status \in {"QUEUED", "DOWNLOADING"}
                  THEN [status |-> "FAILED", retry |-> None] ELSE command
  /\ target' =
       IF ~Bound THEN target
       ELSE [intake |-> "FAILED", released |-> Released(safe),
             asset |-> IF target.asset = "UPLOADING" THEN "REJECTED" ELSE target.asset,
             document |-> IF target.document = "PENDING" THEN "FAILED" ELSE target.document,
             inbox |-> IF target.inbox = "NEEDS_REVIEW" THEN "FAILED" ELSE target.inbox,
             batch |-> IF (safe \/ charged) /\ target.batch = "RUNNING" THEN "FAILED" ELSE target.batch]
-----------------------------------------------------------------------------
(* claimNextZoteroAttachmentDownloadJob.                                   *)

Claimable == job.status \in Waiting /\ ~Unsafe(ingress) /\ job.wait = 0 /\ job.attempts < MaxAttempts

ClaimRefused(w) ==
  /\ At(w, "idle") /\ Claimable /\ ~ClaimAuthority
  /\ Terminalize("DEAD_LETTER", TRUE, FALSE)
  /\ UNCHANGED <<row, ingress, receipt, store, hand, budget>> /\ Connection

ClaimPutOff(w) ==
  /\ At(w, "idle") /\ Claimable /\ ClaimAuthority /\ backoff > 0
  /\ job' = [job EXCEPT !.wait = backoff]
  /\ UNCHANGED <<row, ingress, command, target, receipt, store, hand, budget>> /\ Connection

claimNextZoteroAttachmentDownloadJob(w) ==
  LET n == job.attempts + 1
  IN  /\ At(w, "idle") /\ Claimable /\ ClaimAuthority /\ backoff = 0
      /\ job' = [status |-> "RUNNING", attempts |-> n, left |-> LeaseTtl, wait |-> 0]
      /\ row' = [row EXCEPT ![n] = "RUNNING"]
      /\ ingress' = [ingress EXCEPT ![n].status = "RECEIVING", ![n].left = LeaseTtl]
      /\ command' = [status |-> "DOWNLOADING", retry |-> None]
      /\ target' = [target EXCEPT !.intake = "RECEIVING"]
      /\ hand' = [hand EXCEPT ![w] = Hand("fetching", n, 0, TRUE)]
      /\ UNCHANGED <<receipt, store, budget>> /\ Connection

\* Wrong on purpose: a spent lease only gives the job back.
ReapedIngress(n) == ingress

AbandonedIngress(n) ==
  IF ingress[n].status \in Open
    THEN [ingress EXCEPT ![n].status = "ABANDONED", ![n].wait = 0] ELSE ingress

reapExpiredDownloadLease(w) ==
  LET n == job.attempts
  IN  /\ At(w, "idle") /\ job.status = "RUNNING" /\ job.left = 0
      /\ ingress' = AbandonedIngress(n)
      /\ row' = [row EXCEPT ![n] = IF Exhausted(n) THEN "DEAD_LETTER" ELSE "FAILED"]
      /\ job' = Unlocked("RETRYING", 0)
      /\ UNCHANGED <<command, target, receipt, store, hand, budget>> /\ Connection
-----------------------------------------------------------------------------
(* The holder of a lease.                                                  *)

\* Wrong on purpose: whether the lease ran out is not asked.
HoldsExpired(n) ==
  job.status = "RUNNING" /\ job.attempts = n /\ row[n] = "RUNNING" /\ ingress[n].status \in Open

Holds(n) == Leased(n) /\ row[n] = "RUNNING" /\ ingress[n].status \in Open

\* Wrong on purpose: the authority is compared by the claim only.
OwnsByLease(n) == Holds(n)

Owns(n) == Holds(n) /\ FetchAuthority

heartbeatZoteroAttachmentDownloadLease(w) ==
  LET n == hand[w].n
  IN  /\ hand[w].phase \in Streaming \cup {"stored", "written"} /\ Owns(n)
      /\ job' = [job EXCEPT !.left = LeaseTtl]
      /\ ingress' = [ingress EXCEPT ![n].left = LeaseTtl]
      /\ UNCHANGED <<row, command, target, receipt, store, hand, budget>> /\ Connection

recordWrittenZoteroAttachmentDownload(w, answered) ==
  LET n == hand[w].n
  IN  /\ At(w, "stored") /\ Owns(n) /\ ingress[n].status = "RECEIVING"
      /\ ingress' = [ingress EXCEPT ![n].status = "WRITTEN"]
      /\ Goes(w, IF answered THEN "written" ELSE "failing")
      /\ Answered(answered)
      /\ UNCHANGED <<job, row, command, target, receipt, store>> /\ Connection

completeZoteroAttachmentDownloadLease(w, answered) ==
  LET n == hand[w].n
  IN  /\ At(w, "written") /\ Owns(n) /\ ingress[n].status = "WRITTEN"
      /\ target' = [target EXCEPT !.asset = "QUARANTINED", !.intake = "QUARANTINED"]
      /\ command' = [status |-> "QUARANTINED", retry |-> None]
      /\ ingress' = [ingress EXCEPT ![n].status = "ADOPTED", ![n].wait = 0]
      /\ receipt' = n
      /\ row' = [row EXCEPT ![n] = "SUCCEEDED"]
      /\ job' = Unlocked("SUCCEEDED", job.wait)
      /\ IF answered THEN Rests(w) ELSE Goes(w, "failing")
      /\ Answered(answered)
      /\ UNCHANGED store /\ Connection

\* ZoteroAttachmentDownloadLeaseLostError is not retryable.
LeaseLost(w) ==
  /\ hand[w].phase \in {"stored", "written"} /\ ~Owns(hand[w].n)
  /\ hand' = [hand EXCEPT ![w].phase = "failing", ![w].retryable = FALSE]
  /\ Rows /\ UNCHANGED <<store, budget>>

TerminalFailure(w) == ~hand[w].retryable \/ ~FetchAuthority \/ Exhausted(hand[w].n)

\* failZoteroAttachmentDownloadLease; "wide" when the provider named an
\* instant for the whole connection.
failZoteroAttachmentDownloadLease(w, wide) ==
  LET n == hand[w].n
      wait == IF TerminalFailure(w) THEN 0 ELSE RetryDelay
  IN  /\ At(w, "failing") /\ Holds(n) /\ Goes(w, "failed")
      /\ ingress' = [ingress EXCEPT ![n].status = "FAILED", ![n].wait = 0]
      /\ row' = [row EXCEPT ![n] = IF TerminalFailure(w) THEN "DEAD_LETTER" ELSE "FAILED"]
      /\ job' = Unlocked("RETRYING", wait)
      /\ command' = IF command.status # "DOWNLOADING" THEN command
                    ELSE [command EXCEPT !.retry = IF TerminalFailure(w) THEN None ELSE wait]
      /\ backoff' = IF wide /\ ~TerminalFailure(w) THEN wait ELSE backoff
      /\ UNCHANGED <<target, receipt, store, budget, authority>>

FailureRefused(w) ==
  /\ At(w, "failing") /\ ~Holds(hand[w].n)
  /\ Rests(w)
  /\ Rows /\ UNCHANGED <<store, budget>>
-----------------------------------------------------------------------------
(* reconcileZoteroAttachmentDownloadCleanup and finishCleanup.             *)

CleanupDue(n) == ingress[n].status \in Given /\ ~ingress[n].cleaned /\ ingress[n].wait = 0

\* From the loop, or for the attempt the worker has just failed.
ClaimCleanup(w, n) ==
  /\ At(w, "idle") \/ (At(w, "failed") /\ hand[w].n = n)
  /\ CleanupDue(n)
  /\ ingress' = [ingress EXCEPT ![n].tries = @ + 1, ![n].wait = CleanupLease]
  /\ hand' = [hand EXCEPT ![w] = Hand("sweeping", n, ingress[n].tries + 1, TRUE)]
  /\ UNCHANGED <<job, row, command, target, receipt, store, budget>> /\ Connection

\* The fence: nobody else has claimed this cleanup since.
CleanupCurrent(w) ==
  LET ing == ingress[hand[w].n]
  IN  ing.status \in Given /\ ~ing.cleaned /\ ing.tries = hand[w].tries

CleanupIdle(w) ==
  /\ \/ At(w, "failed") /\ ~CleanupDue(hand[w].n)
     \/ hand[w].phase \in {"swept", "unswept"} /\ ~CleanupCurrent(w)
  /\ Rests(w)
  /\ Rows /\ UNCHANGED <<store, budget>>

NeedsAttention(n) == ingress[n].tries >= AttentionThreshold /\ job.status # "DEAD_LETTER"

CleanupPutOff(w) ==
  LET n == hand[w].n
  IN  /\ At(w, "unswept") /\ CleanupCurrent(w) /\ Rests(w)
      /\ ingress' = [ingress EXCEPT ![n].wait = CleanupDelay]
      /\ IF NeedsAttention(n)
           THEN /\ row' = [row EXCEPT ![n] = IF @ = "FAILED" THEN "DEAD_LETTER" ELSE @]
                /\ Terminalize("DEAD_LETTER", ~Unsafe(ingress'), TRUE)
           ELSE /\ job' = IF job.status = "RETRYING" THEN [job EXCEPT !.wait = CleanupDelay] ELSE job
                /\ UNCHANGED <<row, command, target>>
      /\ UNCHANGED <<receipt, store, budget>> /\ Connection

Ended(n) == \E m \in Attempts : row[m] = "DEAD_LETTER"

CleanupCompletes(w) ==
  LET n == hand[w].n
      cleaned == [ingress EXCEPT ![n].cleaned = TRUE, ![n].wait = 0]
      status == IF job.status = "DEAD_LETTER" \/ Exhausted(job.attempts) THEN "DEAD_LETTER" ELSE "FAILED"
  IN  /\ At(w, "swept") /\ CleanupCurrent(w) /\ Rests(w)
      /\ ingress' = cleaned
      /\ IF ~Unsafe(cleaned) /\ Ended(n)
           THEN Terminalize(status, TRUE, FALSE)
           ELSE UNCHANGED <<job, command, target>>
      /\ UNCHANGED <<row, receipt, store, budget>> /\ Connection
-----------------------------------------------------------------------------
\* Time passes.  A worker that is overtaken by it is one of the misfortunes.
Tick ==
  /\ JobTicksLeft \/ backoff > 0
  /\ IF \E w \in Workers : Overrun(w)
       THEN budget > 0 /\ budget' = budget - 1 ELSE budget' = budget
  /\ TickJob
  /\ backoff' = Less(backoff)
  /\ UNCHANGED authority

Continues(w) ==
  \/ (Stream(w) \/ Sweep(w)) /\ Connection
  \/ recordWrittenZoteroAttachmentDownload(w, TRUE)
  \/ completeZoteroAttachmentDownloadLease(w, TRUE)
  \/ LeaseLost(w) \/ FailureRefused(w)
  \/ \E wide \in BOOLEAN : failZoteroAttachmentDownloadLease(w, wide)
  \/ At(w, "failed") /\ \E n \in Attempts : ClaimCleanup(w, n)
  \/ CleanupIdle(w) \/ CleanupPutOff(w) \/ CleanupCompletes(w)

\* A round of the loop cleans up or, when there is nothing to do, claims.
CleansNext(w) == At(w, "idle") /\ \E n \in Attempts : ClaimCleanup(w, n)
ClaimsNext(w) ==
  /\ \A n \in Attempts : ~CleanupDue(n)
  /\ \/ ClaimRefused(w) \/ ClaimPutOff(w)
     \/ claimNextZoteroAttachmentDownloadJob(w) \/ reapExpiredDownloadLease(w)

GoesWrong(w) ==
  \/ (Crash(w) \/ TransactionFails(w) \/ SweepFails(w)) /\ Connection
  \/ (\E retryable \in BOOLEAN : ~Blocked(w) /\ StreamFails(w, retryable)) /\ Connection
  \/ recordWrittenZoteroAttachmentDownload(w, FALSE)
  \/ completeZoteroAttachmentDownloadLease(w, FALSE)

Next ==
  \/ queueZoteroAttachmentImport
  \/ \E to \in {"current", "suspended", "gone"} : AuthorityChanges(to)
  \/ OthersBackOff \/ Tick
  \/ \E w \in Workers :
       \/ CleansNext(w) \/ ClaimsNext(w) \/ Continues(w)
       \/ heartbeatZoteroAttachmentDownloadLease(w) \/ GoesWrong(w)

\* The worker's loop goes on, whatever the users do, and time passes.
Fairness ==
  /\ WF_vars(Tick)
  /\ \A w \in Workers : WF_vars(CleansNext(w)) /\ WF_vars(ClaimsNext(w)) /\ WF_vars(Continues(w))

Spec == Init /\ [][Next]_vars /\ Fairness
=============================================================================
