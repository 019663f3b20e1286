---------------------- MODULE CrawlerImportsProperties ----------------------
(* What CrawlerImports is expected to keep.                                *)
EXTENDS CrawlerImports

\* The rows, files and hands have the shapes the code gives them.
TypeOK ==
  /\ job \in [status : Waiting \cup {"RUNNING", "SUCCEEDED", "DEAD_LETTER", "CANCELLED"},
              attempts : 0..MaxAttempts, left : Nat, wait : Nat]
  /\ row \in [Attempts -> {"NONE", "RUNNING", "SUCCEEDED", "FAILED", "DEAD_LETTER", "CANCELLED"}]
  /\ ingress \in [Attempts -> [status : {"NONE", "ADOPTED"} \cup Open \cup Given, left : Nat,
                               wait : Nat, tries : Nat, cleaned : BOOLEAN]]
  /\ command \in [status : {"QUEUED", "FETCHING", "QUARANTINED", "FAILED", "CANCELLED"},
                  retry : Nat \cup {None}]
  /\ receipt \in Attempts \cup {None}
  /\ {store.parts, store.finals, store.moved} \subseteq SUBSET Attempts
  /\ custody.status \in {"RETAINED", "DELETE_PENDING", "DELETED"}
  /\ \A w \in Workers : hand[w].n \in 0..MaxAttempts

\* No transaction but the refused cleanups meets the deferred constraint triggers:
\* at every commit the import, its job, its intake, its batch, its receipt and
\* its custody tell the same story (CrawlerImport_consistency_check and
\* CrawlerImport_custody_consistency_check of the migrations).
CommitsAreAccepted ==
  /\ StatusesAgree(command, job)
  /\ target.intake = (IF command.status = "FETCHING" THEN "RECEIVING" ELSE command.status)
  /\ target.batch = (IF command.status \in {"FAILED", "CANCELLED"} THEN command.status ELSE "RUNNING")
  /\ command.status = "QUARANTINED" => receipt # None
  /\ custody.status # "RETAINED" =>
       /\ target.document = "ARCHIVED" /\ target.inbox = "REJECTED" /\ ~JobActive
       /\ \A n \in Attempts : row[n] # "RUNNING"
  /\ custody.status = "DELETED" =>
       /\ target.asset = "DELETED" /\ target.released
       /\ \A n \in Attempts : ingress[n].status # "NONE" => ingress[n].cleaned

\* A job that is due and has nothing left to clean up can be claimed: neither
\* an unequal retry instant nor a spent budget is ever found by a claim
\* (claimNextCrawlerJob would give the import up as "policy_changed").
DueJobsAreClaimable == Claimable => job.attempts < MaxAttempts /\ ClaimAuthority

\* What the rows of an import say, to each other and to the next claim.
RowsAgree == TypeOK /\ CommitsAreAccepted /\ DueJobsAreClaimable

\* The bytes a receipt names are on disk until a deletion fences them, no
\* matter which cleanup, retry or overtaken worker was at work meanwhile.
AdoptedBytesExist == receipt # None /\ ~store.tomb => receipt \in store.finals

\* Once the deletion is recorded no complete copy is left in the namespace or
\* in one renamed aside, and none is ever linked again, although overtaken
\* workers may still stream, and overtaken deleters still rename.
DeletedBytesStayGone ==
  custody.status = "DELETED" => store.finals = {} /\ store.moved = {}

\* Files come and go as the rows say.
FilesFollowTheRows == AdoptedBytesExist /\ DeletedBytesStayGone

\* The quota of the import is given back only when no attempt can have a file.
QuotaIsHeldForFiles == target.released => ~Unsafe(ingress) \/ custody.status = "DELETED"

\* A worker whose lease is lost writes no row, except to claim a cleanup.
OvertakenWorkersChangeNothing ==
  [][\A w \in Workers :
       hand[w].phase \in Executing /\ ~Leased(hand[w].n) /\ hand'[w] # hand[w]
         => UNCHANGED <<ingressRows, custody>>]_vars

\* Every import comes to an end: quarantined, failed or deleted.
EveryImportSettles == []<>(command.status \notin {"QUEUED", "FETCHING"})

\* A requested deletion is carried out, in spite of slow or dead deleters,
\* failing storage, and cleanups that run into it.
DeletionCompletes == custody.status = "DELETE_PENDING" ~> custody.status = "DELETED"

\* What a failed attempt left is cleaned up in the end.
LeftoversAreCleaned ==
  \A n \in Attempts : ingress[n].status \in Given ~> ingress[n].cleaned

\* Nothing is left half done for ever.
EverythingIsFinished == EveryImportSettles /\ DeletionCompletes /\ LeftoversAreCleaned

\* "Crawler command and crawl job lifecycle states must agree at commit."
\* (prisma/migrations/20260829240000_governed_crawler_intake/migration.sql)
NoCleanupIsRefused ==
  /\ \A w \in Crawlers : ~ENABLED CleanupRefused(w)
  /\ \A z \in ZoteroWorkers : ~ENABLED ZoteroCleanupRefused(z)

\* "terminal or post-write failures retain quota until exact cleanup proof"
\* (README.md), and not any longer.
QuotaReturnsWithTheProof ==
  command.status = "FAILED" /\ ~Unsafe(ingress) /\ custody.status = "RETAINED"
    => target.released

\* "remove final and partial objects, and rescan before returning a stable,
\* root-bound absence proof" (src/server/uploads/storage.ts:1219).
AbsenceIsStable ==
  custody.status = "DELETED" => ~store.live /\ ~store.retired
=============================================================================
