--------------------------- MODULE CrawlerImports ---------------------------
(***************************************************************************)
(* One governed crawler import, from the queued command to quarantine,     *)
(* refusal or deletion:                                                    *)
(*                                                                         *)
(*  - the CRAWL job (src/server/integrations/web-source/crawler-jobs.ts);  *)
(*  - the worker (src/workers/governed-crawler-worker.ts), which deletes   *)
(*    custody, cleans up and claims, in this order;                        *)
(*  - the user's deletion of the import's custody                          *)
(*    (crawler-custody-deletion.ts and storage.ts);                        *)
(*  - the Zotero download worker, whose cleanup does not ask for the type  *)
(*    of the job and so takes the crawler's attempts as well               *)
(*    (src/server/integrations/zotero/attachment-download-jobs.ts).        *)
(*                                                                         *)
(* The deferred constraint triggers of the migrations compare the rows at  *)
(* commit.  Only the cleanups can fail them, CleanupRefused and            *)
(* ZoteroCleanupRefused; for all other transactions the triggers are an    *)
(* invariant (CommitsAreAccepted).                                         *)
(***************************************************************************)
EXTENDS IngressAttempts

CONSTANTS
  ZoteroWorkers,  \* those of the Workers that are Zotero download workers
  DeletionLease,  \* DELETION_LEASE_MS
  DeletionDelay   \* deletionRetryDelayMs

ASSUME DeletionBounds ==
  ZoteroWorkers \subseteq Workers /\ DeletionLease \in Nat \ {0} /\ DeletionDelay \in Nat

VARIABLE custody  \* CrawlerImport.custodyStatus and its deletion columns

vars == <<ingressRows, store, hand, budget, custody>>

Init ==
  /\ IngressInit("QUEUED")
  /\ custody = [status |-> "RETAINED", after |-> 0, lease |-> 0, left |-> 0, tries |-> 0]

Rows == UNCHANGED <<ingressRows, custody>>
-----------------------------------------------------------------------------
(* What the transactions compare.                                          *)

TargetWaits(intake) ==
  /\ custody.status = "RETAINED"
  /\ target = [intake |-> intake, released |-> FALSE, asset |-> "UPLOADING",
               document |-> "PENDING", inbox |-> "NEEDS_REVIEW", batch |-> "RUNNING"]

\* jobAndAuthorityMatch, for a claim and for the holder of a lease.
ClaimAuthority ==
  \/ /\ job.status = "QUEUED" /\ command = [status |-> "QUEUED", retry |-> None]
     /\ TargetWaits("QUEUED")
  \/ /\ job.status = "RETRYING" /\ command = [status |-> "FETCHING", retry |-> job.wait]
     /\ TargetWaits("RECEIVING")
FetchAuthority ==
  job.status = "RUNNING" /\ command.status = "FETCHING" /\ TargetWaits("RECEIVING")

\* CrawlerImport_job_status_check, of the crawl's and the job's rows.
StatusesAgree(crawl, j) ==
  CASE crawl.status = "QUEUED" -> j.status = "QUEUED" /\ crawl.retry = None
    [] crawl.status = "FETCHING" ->
         \/ j.status = "RUNNING" /\ crawl.retry = None
         \/ j.status = "RETRYING" /\ crawl.retry = j.wait
    [] crawl.status = "QUARANTINED" -> j.status = "SUCCEEDED"
    [] crawl.status = "FAILED" -> j.status \in {"SUCCEEDED", "FAILED", "DEAD_LETTER"}
    [] crawl.status = "CANCELLED" -> j.status \in {"SUCCEEDED", "CANCELLED"}

Unlocked(status, wait) == [job EXCEPT !.status = status, !.left = 0, !.wait = wait]
\* Wrong on purpose: the import keeps the instant of an earlier retry.
RetriedAtForgotten(wait) == command

RetriedAt(wait) ==
  IF command.status = "FETCHING" THEN [command EXCEPT !.retry = wait] ELSE command

\* terminalizeWithoutBytes: the job is dead; the import it is bound to fails,
\* and its quota is released once no attempt can have a file.
Bound == custody.status = "RETAINED" /\ command.status \in {"QUEUED", "FETCHING", "FAILED"}
FailedCommand ==
  IF Bound /\ command.status # "FAILED" THEN [status |-> "FAILED", retry |-> None] ELSE command
DeadJob == Unlocked("DEAD_LETTER", 0)

\* Wrong on purpose: an import that is given up is no longer charged.
ReleasedWhenGivenUp(safe, charged) == safe \/ charged \/ target.released

Released(safe, charged) == safe \/ target.released

FailedTarget(safe, charged) ==
  IF ~Bound THEN target
  ELSE [intake |-> "FAILED", released |-> Released(safe, charged),
        asset |-> IF target.asset = "UPLOADING" THEN "REJECTED" ELSE target.asset,
        document |-> IF target.document = "PENDING" THEN "FAILED" ELSE target.document,
        inbox |-> IF target.inbox = "NEEDS_REVIEW" THEN "FAILED" ELSE target.inbox,
        batch |-> IF (safe \/ charged) /\ target.batch = "RUNNING" THEN "FAILED" ELSE target.batch]

Terminalize(ings, charged) ==
  /\ job' = DeadJob
  /\ command' = FailedCommand
  /\ target' = FailedTarget(~Unsafe(ings), charged)
-----------------------------------------------------------------------------
(* Claiming.  A claim finds no due job that it would have to refuse (see   *)
(* DueJobsAreClaimable), so its refusal is not an action.                  *)

Claimable == job.status \in Waiting /\ ~Unsafe(ingress) /\ job.wait = 0

claimNextCrawlerJob(w) ==
  LET n == job.attempts + 1
  IN  /\ At(w, "idle")
      /\ Claimable /\ job.attempts < MaxAttempts /\ ClaimAuthority
      /\ job' = [status |-> "RUNNING", attempts |-> n, left |-> LeaseTtl, wait |-> 0]
      /\ row' = [row EXCEPT ![n] = "RUNNING"]
      /\ ingress' = [ingress EXCEPT ![n].status = "RECEIVING", ![n].left = LeaseTtl]
      /\ command' = [status |-> "FETCHING", retry |-> None]
      /\ target' = [target EXCEPT !.intake = "RECEIVING"]
      /\ hand' = [hand EXCEPT ![w] = Hand("fetching", n, 0, TRUE)]
      /\ UNCHANGED <<receipt, store, budget, custody>>

\* reapExpiredCrawlerLease.  An adopted attempt is never found here: the same
\* transaction adopts it and closes the job.
reapExpiredCrawlerLease(w) ==
  LET n == job.attempts
  IN  /\ At(w, "idle")
      /\ job.status = "RUNNING" /\ job.left = 0
      /\ ingress' = IF ingress[n].status \in Open
                      THEN [ingress EXCEPT ![n].status = "ABANDONED", ![n].wait = 0] ELSE ingress
      /\ row' = [row EXCEPT ![n] = IF Exhausted(n) THEN "DEAD_LETTER" ELSE "FAILED"]
      /\ job' = Unlocked("RETRYING", 0)
      /\ command' = RetriedAt(0)
      /\ UNCHANGED <<target, receipt, store, hand, budget, custody>>
-----------------------------------------------------------------------------
(* The holder of a lease.                                                  *)

\* Wrong on purpose: only the lease is compared, not whether it ran out.
OwnsExpired(n) ==
  /\ job.status = "RUNNING" /\ job.attempts = n /\ FetchAuthority
  /\ row[n] = "RUNNING" /\ ingress[n].status \in Open

\* loadAndCheckCrawlerLease, activeLeaseMatches and the attempt's two rows.
Owns(n) ==
  /\ Leased(n) /\ FetchAuthority
  /\ row[n] = "RUNNING" /\ ingress[n].status \in Open

heartbeatCrawlerJob(w) ==
  LET n == hand[w].n
  IN  /\ hand[w].phase \in Streaming \cup {"stored", "written"}
      /\ Owns(n)
      /\ job' = [job EXCEPT !.left = LeaseTtl]
      /\ ingress' = [ingress EXCEPT ![n].left = LeaseTtl]
      /\ UNCHANGED <<row, command, target, receipt, store, hand, budget, custody>>

markCrawlerIngressWritten(w, answered) ==
  LET n == hand[w].n
  IN  /\ At(w, "stored") /\ Owns(n) /\ ingress[n].status = "RECEIVING"
      /\ ingress' = [ingress EXCEPT ![n].status = "WRITTEN"]
      /\ Goes(w, IF answered THEN "written" ELSE "failing")
      /\ Answered(answered)
      /\ UNCHANGED <<job, row, command, target, receipt, store, custody>>

\* The bytes become the original of the document: completeCrawlerJob.
completeCrawlerJob(w, answered) ==
  LET n == hand[w].n
  IN  /\ At(w, "written") /\ Owns(n) /\ ingress[n].status = "WRITTEN"
      /\ target' = [target EXCEPT !.asset = "QUARANTINED", !.intake = "QUARANTINED"]
      /\ command' = [status |-> "QUARANTINED", retry |-> None]
      /\ ingress' = [ingress EXCEPT ![n].status = "ADOPTED", ![n].wait = 0]
      /\ receipt' = n
      /\ row' = [row EXCEPT ![n] = "SUCCEEDED"]
      /\ job' = Unlocked("SUCCEEDED", 0)
      /\ IF answered THEN Rests(w) ELSE Goes(w, "failing")
      /\ Answered(answered)
      /\ UNCHANGED <<store, custody>>

\* Either of them finds the lease lost.
LeaseLost(w) ==
  /\ hand[w].phase \in {"stored", "written"} /\ ~Owns(hand[w].n)
  /\ hand' = [hand EXCEPT ![w].phase = "failing", ![w].retryable = TRUE]
  /\ Rows /\ UNCHANGED <<store, budget>>

\* crawlerFailureDisposition.
TerminalFailure(w) == ~hand[w].retryable \/ ~FetchAuthority \/ Exhausted(hand[w].n)

\* failCrawlerJob: even a terminal failure stays RETRYING until its file is
\* proved absent.
failCrawlerJob(w) ==
  LET n == hand[w].n
      wait == IF TerminalFailure(w) THEN 0 ELSE RetryDelay
  IN  /\ At(w, "failing") /\ Owns(n)
      /\ ingress' = [ingress EXCEPT ![n].status = "FAILED", ![n].wait = 0]
      /\ row' = [row EXCEPT ![n] = IF TerminalFailure(w) THEN "DEAD_LETTER" ELSE "FAILED"]
      /\ job' = Unlocked("RETRYING", wait)
      /\ command' = RetriedAt(wait)
      /\ Goes(w, "failed")
      /\ UNCHANGED <<target, receipt, store, budget, custody>>

FailureRefused(w) ==
  /\ At(w, "failing") /\ ~Owns(hand[w].n)
  /\ Rests(w)
  /\ Rows /\ UNCHANGED <<store, budget>>
-----------------------------------------------------------------------------
(* reconcileCrawlerJobCleanup and finishCrawlerCleanup.                    *)

\* Wrong on purpose: an adopted attempt is cleaned up as well.
AnyDue(n) == ingress[n].status \notin Open \cup {"NONE"} /\ ~ingress[n].cleaned /\ ingress[n].wait = 0

\* Wrong on purpose: the attempts of a job that is over are not looked at.
DueWhileWaiting(n) ==
  /\ job.status \in Waiting
  /\ ingress[n].status \in Given /\ ~ingress[n].cleaned /\ ingress[n].wait = 0

CleanupDue(n) == ingress[n].status \in Given /\ ~ingress[n].cleaned /\ ingress[n].wait = 0

\* From the loop, or for the attempt the worker has just failed.
ClaimCleanup(w, n, cost) ==
  /\ At(w, "idle") \/ (At(w, "failed") /\ hand[w].n = n)
  /\ budget >= cost /\ budget' = budget - cost
  /\ CleanupDue(n)
  /\ ingress' = [ingress EXCEPT ![n].tries = @ + 1, ![n].wait = CleanupLease]
  /\ hand' = [hand EXCEPT ![w] = Hand("sweeping", n, ingress[n].tries + 1, TRUE)]
  /\ UNCHANGED <<job, row, command, target, receipt, store, custody>>

OthersCleanUp(w) ==
  /\ At(w, "failed") /\ ~CleanupDue(hand[w].n)
  /\ Rests(w)
  /\ Rows /\ UNCHANGED <<store, budget>>

\* The fence: nobody else has claimed this cleanup since.
CleanupCurrent(w) ==
  LET ing == ingress[hand[w].n]
  IN  ing.status \in Given /\ ~ing.cleaned /\ ing.tries = hand[w].tries

CleanupOvertaken(w) ==
  /\ hand[w].phase \in {"swept", "unswept"} /\ ~CleanupCurrent(w)
  /\ Rests(w)
  /\ Rows /\ UNCHANGED <<store, budget>>

NeedsAttention(n) == ingress[n].tries >= AttentionThreshold /\ job.status # "DEAD_LETTER"

\* The rows when the removal failed: tried again later, and after too many
\* tries the import fails while its quota stays charged.
CleanupPutOff(w) ==
  LET n == hand[w].n
  IN  /\ At(w, "unswept") /\ CleanupCurrent(w) /\ Rests(w)
      /\ ingress' = [ingress EXCEPT ![n].wait = CleanupDelay]
      /\ IF NeedsAttention(n)
           THEN /\ row' = [row EXCEPT ![n] = IF @ = "FAILED" THEN "DEAD_LETTER" ELSE @]
                /\ StatusesAgree(FailedCommand, DeadJob)
                /\ Terminalize(ingress', TRUE)
           ELSE /\ job' = IF job.status = "RETRYING" THEN [job EXCEPT !.wait = CleanupDelay] ELSE job
                /\ command' = RetriedAt(CleanupDelay)
                /\ UNCHANGED <<row, target>>
      /\ UNCHANGED <<receipt, store, budget, custody>>

CleanedIngress(w) == [ingress EXCEPT ![hand[w].n].cleaned = TRUE, ![hand[w].n].wait = 0]
EndsJob(w) == ~Unsafe(CleanedIngress(w)) /\ \E n \in Attempts : row[n] = "DEAD_LETTER"

CleanupCompletes(w) ==
  /\ At(w, "swept") /\ CleanupCurrent(w) /\ Rests(w)
  /\ ingress' = CleanedIngress(w)
  /\ IF EndsJob(w)
       THEN StatusesAgree(FailedCommand, DeadJob) /\ Terminalize(ingress', FALSE)
       ELSE UNCHANGED <<job, command, target>>
  /\ UNCHANGED <<row, receipt, store, budget, custody>>

\* The transaction that ends the job is refused by the triggers at commit,
\* and nothing catches the exception: the process dies and is started again.
CleanupRefused(w) ==
  /\ \/ At(w, "swept") /\ CleanupCurrent(w) /\ EndsJob(w)
     \/ At(w, "unswept") /\ CleanupCurrent(w) /\ NeedsAttention(hand[w].n)
  /\ ~StatusesAgree(FailedCommand, DeadJob)
  /\ Rests(w)
  /\ Rows /\ UNCHANGED <<store, budget>>
-----------------------------------------------------------------------------
(* reconcileZoteroAttachmentDownloadCleanup and finishCleanup of the other *)
(* transport: the same claim and the same files, but no import is bound to *)
(* the job, so that only the job's own row moves.                          *)

ZoteroIngress(w) ==
  IF At(w, "swept") THEN CleanedIngress(w)
  ELSE [ingress EXCEPT ![hand[w].n].wait = CleanupDelay]

ZoteroJob(w) ==
  LET dead == job.status = "DEAD_LETTER" \/ Exhausted(job.attempts)
  IN  IF At(w, "swept")
      THEN IF ~EndsJob(w) THEN job ELSE IF dead THEN DeadJob ELSE Unlocked("FAILED", 0)
      ELSE IF NeedsAttention(hand[w].n) THEN DeadJob
      ELSE IF job.status = "RETRYING" THEN [job EXCEPT !.wait = CleanupDelay] ELSE job

ZoteroFinishing(w) == hand[w].phase \in {"swept", "unswept"} /\ CleanupCurrent(w)

\* Only a row that leaves job and import in agreement commits: in particular
\* no attempt is dead-lettered this way.
ZoteroCleansUp(w) ==
  /\ ZoteroFinishing(w) /\ Rests(w)
  /\ StatusesAgree(command, ZoteroJob(w))
  /\ job' = ZoteroJob(w) /\ ingress' = ZoteroIngress(w)
  /\ UNCHANGED <<row, command, target, receipt, store, budget, custody>>

ZoteroCleanupRefused(w) ==
  /\ ZoteroFinishing(w) /\ Rests(w)
  /\ ~StatusesAgree(command, ZoteroJob(w))
  /\ Rows /\ UNCHANGED <<store, budget>>

-----------------------------------------------------------------------------
(* The user's deletion, and the process that carries it out.               *)

JobActive == job.status \in {"QUEUED", "RUNNING", "RETRYING"}
LongestLease(ticks) == CHOOSE t \in ticks : \A u \in ticks : t >= u

DeletionAfter == LongestLease({job.left} \cup {ingress[n].left : n \in Attempts})

deleteCrawlerCustody ==
  LET active == command.status \in {"QUEUED", "FETCHING", "QUARANTINED"}
  IN  /\ custody.status = "RETAINED"
      /\ custody' = [custody EXCEPT !.status = "DELETE_PENDING", !.after = DeletionAfter]
      /\ row' = [n \in Attempts |-> IF row[n] = "RUNNING" THEN "CANCELLED" ELSE row[n]]
      /\ job' = IF JobActive THEN Unlocked("CANCELLED", 0) ELSE job
      /\ command' = IF active THEN [status |-> "CANCELLED", retry |-> None] ELSE command
      /\ target' = [target EXCEPT !.intake = IF active THEN "CANCELLED" ELSE @,
                                  !.batch = IF active THEN "CANCELLED" ELSE @,
                                  !.document = "ARCHIVED", !.asset = "REJECTED",
                                  !.inbox = "REJECTED"]
      /\ UNCHANGED <<ingress, receipt, store, hand, budget>>

DeletionDue ==
  /\ custody.status = "DELETE_PENDING" /\ custody.after = 0 /\ custody.left = 0
  /\ ~JobActive
  /\ \A n \in Attempts : ingress[n].left = 0

claimCrawlerCustodyDeletion(w) ==
  LET tries == custody.tries + 1
  IN  /\ At(w, "idle") /\ DeletionDue
      /\ custody' = [custody EXCEPT !.lease = tries, !.left = DeletionLease, !.tries = tries]
      /\ hand' = [hand EXCEPT ![w] = Hand("deleting", 0, tries, TRUE)]
      /\ UNCHANGED <<ingressRows, store, budget>>

EstablishTombstone(w) ==
  /\ At(w, "deleting") /\ Goes(w, "entombed")
  /\ store' = [store EXCEPT !.tomb = TRUE]
  /\ Rows /\ UNCHANGED budget

\* The live directory is renamed as a whole, with the copies in it.
RetireLiveNamespace(w) ==
  /\ At(w, "entombed") /\ Goes(w, "retired")
  /\ store' = [store EXCEPT !.live = FALSE, !.parts = {}, !.finals = {},
                            !.retired = @ \/ store.live, !.moved = @ \cup store.finals]
  /\ Rows /\ UNCHANGED budget

RemoveRetiredNamespaces(w) ==
  /\ At(w, "retired") /\ Goes(w, "removed")
  /\ store' = [store EXCEPT !.retired = FALSE, !.moved = {}]
  /\ Rows /\ UNCHANGED budget

\* custodyObjectNamespacesRemain: around again, or the absence is proved.
Rescan(w) ==
  /\ At(w, "removed")
  /\ Goes(w, IF store.live \/ store.retired THEN "entombed" ELSE "proved")
  /\ Rows /\ UNCHANGED <<store, budget>>

Deleting == {"deleting", "entombed", "retired", "removed"}

DeletionStorageFails(w) ==
  /\ hand[w].phase \in Deleting /\ Goes(w, "unproved")
  /\ budget > 0 /\ budget' = budget - 1
  /\ Rows /\ UNCHANGED store

DeletionCurrent(w) == custody.status = "DELETE_PENDING" /\ custody.lease = hand[w].tries

\* Every attempt is closed and counts as cleaned up.
DeletedIngress(ing) ==
  IF ing.status = "NONE" THEN ing
  ELSE [ing EXCEPT !.status = IF @ \in Open THEN "ABANDONED" ELSE @,
                   !.cleaned = TRUE, !.wait = 0]

finishCrawlerCustodyDeletion(w) ==
  /\ At(w, "proved") /\ DeletionCurrent(w) /\ Rests(w)
  /\ ingress' = [n \in Attempts |-> DeletedIngress(ingress[n])]
  /\ target' = [target EXCEPT !.asset = "DELETED", !.document = "ARCHIVED",
                              !.inbox = "REJECTED", !.released = TRUE]
  /\ custody' = [custody EXCEPT !.status = "DELETED", !.lease = 0, !.left = 0]
  /\ UNCHANGED <<job, row, command, receipt, store, budget>>

DeletionPutOff(w) ==
  /\ At(w, "unproved") /\ DeletionCurrent(w) /\ Rests(w)
  /\ custody' = [custody EXCEPT !.lease = 0, !.left = 0, !.after = DeletionDelay]
  /\ UNCHANGED <<ingressRows, store, budget>>

DeletionOvertaken(w) ==
  /\ hand[w].phase \in {"proved", "unproved"} /\ ~DeletionCurrent(w)
  /\ Rests(w)
  /\ Rows /\ UNCHANGED <<store, budget>>
-----------------------------------------------------------------------------
DeletionOverrun(w) ==
  hand[w].phase \in Deleting \cup {"proved", "unproved"} /\ DeletionCurrent(w) /\ custody.left = 1

\* Time passes.  A worker that is overtaken by it is one of the misfortunes.
Tick ==
  /\ JobTicksLeft \/ custody.after + custody.left > 0
  /\ IF \E w \in Workers : Overrun(w) \/ DeletionOverrun(w)
       THEN budget > 0 /\ budget' = budget - 1 ELSE budget' = budget
  /\ TickJob
  /\ custody' = [custody EXCEPT !.after = Less(@), !.left = Less(@)]

Cleans(w) ==
  \/ Sweep(w) /\ UNCHANGED custody
  \/ OthersCleanUp(w) \/ CleanupOvertaken(w) \/ CleanupPutOff(w)
  \/ CleanupCompletes(w) \/ CleanupRefused(w)
Deletes(w) ==
  \/ EstablishTombstone(w) \/ RetireLiveNamespace(w) \/ RemoveRetiredNamespaces(w)
  \/ Rescan(w) \/ finishCrawlerCustodyDeletion(w) \/ DeletionPutOff(w) \/ DeletionOvertaken(w)
Fetches(w) ==
  \/ Stream(w) /\ UNCHANGED custody
  \/ markCrawlerIngressWritten(w, TRUE) \/ completeCrawlerJob(w, TRUE)
  \/ LeaseLost(w) \/ failCrawlerJob(w) \/ FailureRefused(w)
  \/ At(w, "failed") /\ \E n \in Attempts : ClaimCleanup(w, n, 0)

\* What a worker does once it has taken something on.
Continues(w) == Fetches(w) \/ Cleans(w) \/ Deletes(w)
\* A round that finds a deletion due does not get as far as the cleanup.
CleansNext(w) ==
  /\ At(w, "idle") /\ ~DeletionDue
  /\ \E n \in Attempts : ClaimCleanup(w, n, 0)

GoesWrong(w) ==
  \/ (Crash(w) \/ TransactionFails(w) \/ SweepFails(w)) /\ UNCHANGED custody
  \/ (\E retryable \in BOOLEAN : ~Blocked(w) /\ StreamFails(w, retryable)) /\ UNCHANGED custody
  \/ markCrawlerIngressWritten(w, FALSE) \/ completeCrawlerJob(w, FALSE)
  \/ DeletionStorageFails(w)

\* The Zotero worker comes first now and then, at the cost of the budget.
ZoteroTakes(z) == \E n \in Attempts : ClaimCleanup(z, n, 1)
ZoteroContinues(z) ==
  \/ Sweep(z) /\ UNCHANGED custody
  \/ CleanupOvertaken(z) \/ ZoteroCleansUp(z) \/ ZoteroCleanupRefused(z)

Crawlers == Workers \ ZoteroWorkers

Next ==
  \/ deleteCrawlerCustody
  \/ Tick
  \/ \E z \in ZoteroWorkers :
       \/ ZoteroTakes(z) \/ ZoteroContinues(z)
       \/ (Crash(z) \/ SweepFails(z)) /\ UNCHANGED custody
  \/ \E w \in Crawlers :
       \/ claimCrawlerCustodyDeletion(w) \/ CleansNext(w)
       \/ claimNextCrawlerJob(w) \/ reapExpiredCrawlerLease(w)
       \/ Continues(w) \/ heartbeatCrawlerJob(w) \/ GoesWrong(w)

\* Every round of the worker's loop looks for a deletion, then for a cleanup,
\* then for a job; what it has taken on it goes on with; time passes.
Fairness ==
  /\ WF_vars(Tick)
  /\ \A z \in ZoteroWorkers : WF_vars(ZoteroContinues(z))
  /\ \A w \in Crawlers :
       /\ WF_vars(claimCrawlerCustodyDeletion(w)) /\ WF_vars(CleansNext(w))
       /\ WF_vars(claimNextCrawlerJob(w)) /\ WF_vars(reapExpiredCrawlerLease(w))
       /\ WF_vars(Continues(w))

Spec == Init /\ [][Next]_vars /\ Fairness
=============================================================================
