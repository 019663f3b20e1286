# PaperPilot, specified and proved in TLA+

PaperPilot is a research workspace.  PDFs come in by three transports (a browser
upload, a Zotero attachment, a governed crawl), are held in quarantine, validated by an
isolated service, extracted to text by another, and only then read, linked to a paper and
quoted as evidence.  The libraries of a Zotero account are mirrored by jobs of their own,
under keys obtained by OAuth.  People share a workspace by commands that carry a revision
and an operation id.  This directory models all of this, checks it with TLC on small
instances, and proves most of its safety with TLAPS for instances of every size.

Paths below are relative to the repository.  `server/` stands for `src/server/`.

## 1. Inventory

The program is a Next.js server, a few worker processes and one PostgreSQL database.
Processes never talk to each other: they meet in the rows of the database, under row
locks, and in the files of a quarantine directory.  Nearly all hard behaviour comes from
*leases*: a process claims a row for a time, works outside any transaction, and comes
back to a database that may have moved on.

| Component | State it keeps | Operations | What makes it correct |
| --- | --- | --- | --- |
| Upload intake (`server/uploads/service.ts`, `storage.ts`) | UploadSession, UploadAttempt, DocumentIntake, Asset, ImportBatch rows; `.part` and `.quarantine` files | reserve, claim, stream, mark written, finalize, reject | claims, attempts and lifecycles agree; a request that was overtaken harms nothing; the stored original exists |
| Upload reconciler (`server/uploads/reconciler.ts`) | the same rows; cleanup claims | expire, release a receive lease, clean up an attempt, repair a missing job | every reservation ends; files left behind are deleted; quota returns, and not early |
| Validation job and worker (`server/documents/validation-jobs.ts`, `src/workers/document-validation-worker.ts`) | Job, JobAttempt, attestation, asset and document status | enqueue, claim, reap, heartbeat, complete, fail | one verdict, by the holder of a live lease; no document stuck in PROCESSING |
| Extraction job and worker (`extraction-jobs.ts`, `document-extraction-worker.ts`) | Job, JobAttempt, extraction, chunks | claim by toolchain, reap, heartbeat, complete, fail, defer | text only behind an accepted validation; attempt numbers taken back do not collide |
| Lifecycle projection (`intake-lifecycle.ts`) | DocumentIntake, CrawlerImport or ZoteroAttachmentImport, ImportBatch, InboxEntry | eight stages | the four rows agree with the jobs; the update trigger is never hit |
| Document-paper link (`document-paper-link.ts`) | Document.workspacePaperId, InboxEntry | link | at most one live document per paper; only accepted ones |
| Crawler custody deletion (`server/integrations/web-source/crawler-custody-deletion.ts`) | custodyStatus, jobs, lifecycle | request, claim, remove files, finish | after the request nothing moves the document any more |
| Crawler imports (`crawler-jobs.ts`, `governed-crawler-worker.ts`) | Job, CrawlerImport, ingress attempts, quota, files | claim, reap, heartbeat, stream, adopt, fail, clean up | rows, files and quota tell one story; an overtaken worker writes nothing; every import and every deletion ends |
| Zotero sync (`server/integrations/zotero/sync-jobs.ts`, `library-service.ts`, worker) | Job, ZoteroSyncRun, stages, objects, inbox entries, connection and library rows | queue, schedule, claim, stage, publish, fail, select, refresh | what is shown of a library is one version of it; a pass overtaken by users or other workers writes nothing |
| Zotero OAuth (`oauth-service.ts`) | OAuth attempts, connection, outbox of pending revocations | start, callback, exchange, install, disconnect, revoke | every live key is accounted for; no installed key is being deleted; one callback wins |
| Zotero attachments (`attachment-service.ts`, `attachment-download-jobs.ts`, worker) | Job, import, ingress attempts, quota, files | command, claim, reap, heartbeat, stream, adopt, fail, clean up | as the crawler's, and nothing is adopted under an authority that has gone |
| WebMCP approval (`server/integrations/webmcp/`) | proposals, challenges, approvals | propose, prepare, approve | a challenge is consumed once, on what it was issued for |
| Workspaces, evidence, collaboration (`server/workspaces/`) | revision counter, receipts, evidence revisions, memberships, invitations | optimistic commands | once per operation id; what a browser was told is true; one successor per note; invitations come from members |
| Browser client (`src/components/live-paper-pilot-app.tsx`, `src/lib/workspace/`) | loaded revision, retained commands | send, repeat, give up, adopt answers | it never shows as done what was not, nor drops what may have been |
| Rate limits, auth, audit, health, PDF sandboxes | windows, sessions | - | limits hold across processes |
| Isolated services (`services/`), static reader (`spikes/`) | none shared | - | seen from the server only by what they answer or send |

How they interact: `finalizeUpload` (and its two sibling transports) enqueues the
validation job in the transaction that stores the document; an accepted validation
enqueues the extraction job in the transaction that records the attestation; both workers
project their progress on the intake rows; the validation worker's loop also runs the
upload reconciler; links and deletions by a user lock the same rows.  The workers of the
two server-side transports share a table of ingress attempts and, unlike their claims, the
Zotero worker's cleanup does not ask whose attempt it takes.  The sync workers
meet each other and the users in the row of the connection: every update of it moves its
`updatedAt`, and a pass goes on only while that is the value its claim read.

The hazards this leads to are listed, each at its line, in `PROJECT.json`; the properties
below are aimed at them.

## 2. Modules

| Module | What it is |
| --- | --- |
| `IntakeLifecycle` | Pure operators: the projection table of `intake-lifecycle.ts` (`Desired`, `Projectable`, `Projected`) and the transition table of the `DocumentIntake_update_guard` trigger |
| `DocumentPipeline` | From received bytes to readable text: both jobs, both workers, links and deletion.  Extends `IntakeLifecycle` |
| `DocumentPromise` | What the pipeline promises of one document, without jobs, leases or clocks |
| `DocumentPipelineProperties` | Invariants, action properties, the refinement mapping to `DocumentPromise`, fairness and liveness |
| `DocumentPipelineProofs`, `DocumentLifecycleProofs` | The theorems about `DocumentPipeline`: jobs, ledger and evidence in the first; custody, lifecycle, links, deletion and the refinement in the second, which extends it |
| `UploadIntake`, `UploadIntakeProperties` | From a reservation to the stored original: requests, files and the reconciler |
| `IngressAttempts` | What the crawler and the Zotero download have in common: job, attempt rows, private files, one stream into quarantine, the removal of what an attempt left |
| `CrawlerImports`, `CrawlerImportsProperties` | A governed crawl and the deletion of its custody; extends `IngressAttempts` |
| `AttachmentDownloads`, `AttachmentDownloadsProperties` | The import of a PDF stored in Zotero; extends `IngressAttempts` |
| `ZoteroSync`, `ZoteroSyncProperties` | The metadata sync of the libraries of one connection: jobs, runs, leases, staged rows, the worker's pass, and what users do to the connection meanwhile |
| `LibraryMirror` | What the sync promises of a library: one version of it is shown, and only later ones replace it |
| `ZoteroOAuth`, `ZoteroOAuthProperties` | The life of the keys of one connection: authorization, callback, exchange, installation, disconnect, revocation |
| `WorkspaceCommands`, `WorkspaceCommandsProperties` | The commands of a shared workspace and the browser that sends them: evidence, approvals, membership |
| `UploadIntakeProofs`, `AttachmentDownloadsProofs`, `CrawlerImportsProofs`, `ZoteroSyncProofs`, `ZoteroOAuthProofs`, `WorkspaceCommandsProofs` | The theorems about these components (section 5) |
| `MC...` | Instances for TLC, one for each of the above |

How they meet.  `UploadIntake!finalizeUpload`, `CrawlerImports!completeCrawlerJob` and
`AttachmentDownloads!completeZoteroAttachmentDownloadLease` are, on the other side, the
action `DocumentPipeline!Admit`: they store the document and enqueue its validation in one
transaction.  Before it `DocumentPipeline` only knows that the intake is RECEIVING; after
it `UploadIntake` only knows that validation moves the intake on (`ValidationMoves`) and
the other two stop at QUARANTINED.  `deleteCrawlerCustody` is in both: in
`DocumentPipeline` with what it does to validation and extraction, in `CrawlerImports`
with what it does to the download, and how its files go.  `ZoteroSync!Disconnect` and
`Reconnect` are the connection's side of `ZoteroOAuth`; `AttachmentDownloads!AuthorityChanges`
is what both mean to a download; `WorkspaceCommands!GenerationAdvances` is a completed
extraction of `DocumentPipeline`.

Operators whose comment begins "Wrong on purpose" are mutated forms of the operator below
them.  No action uses them: put in the place of the original they show that the property
they are listed with can fail (`mutants` in `PROJECT.json`).

### DocumentPipeline

*State.*  One variable per row or column: `doc`, `asset`, `life` (the record of the four
lifecycle rows), `paper`, `custody`, `vjob`/`vrow` and `xjob`/`xrow` (the Job and its
JobAttempt rows), `attestation`, `extraction`, `pin`.  `vheld` and `xheld` are what each
worker process remembers of its claim between transactions; they are not in the database
and a crash forgets them.

*Actions.*  Each exported function of the jobs is one transaction that locks the Job row
first, so each is one action (or two: the claim that returns a lease, and the round of the
claim loop that gives the job up).  What a worker does between transactions is the action
that changes its hands only: `ValidatorAnswers`, `ValidatorFails`, and so on.  Because the
two kinds interleave freely, a worker that is slow, dead or cut off is simply a record in
`vheld` that no longer agrees with `vjob`.

| Code | Action |
| --- | --- |
| `finalizeUpload` and its siblings | `Admit` |
| `claimNextDocumentValidationJob` | `ClaimValidation`; `ReapValidation` (with `failTargetWithoutClaim`) |
| `heartbeatDocumentValidationLease` | `HeartbeatValidation` |
| `completeDocumentValidationLease` | `CompleteValidation`; answers null: `ValidationOutcomeRefused`; throws: `ValidationCompletionThrows` |
| `failDocumentValidationLease` | `FailValidation` |
| `claimNextDocumentTextExtractionJob` | `ClaimExtraction`, `ReapExtraction` |
| `heartbeat...`, `complete...`, `fail...`, `deferDocumentTextExtractionLeaseBeforeAdmission` | `HeartbeatExtraction`, `CompleteExtraction` (and its two refusals), `FailExtraction`, `DeferExtraction` |
| `linkValidatedDocumentToWorkspacePaper`, `deleteCrawlerCustody` | actions of the same names |
| a process dies and is restarted | `CrashValidator`, `CrashExtractor` |

*Time* is relative: a lease counts down its ticks (`left`), a waiting job the ticks until
it may run (`wait`).  Validation compares timestamps with the clock of the worker's host,
extraction with the database's; `Skew[w]` is the difference, so a lease granted by one
host may be expired for another at once.

*Simplifications.*  A fresh UUID is the first unused identifier (unused ones are
interchangeable).  A lost answer of `fail` is the same as a crash after it, and is not a
separate action.  Countdown stops at `-MaxSkew`: no clock can tell values below apart.
The priority and order in which due jobs are claimed are left open.  The failure classes
stand for the error codes the code tells apart (retryable, integrity, other).

### UploadIntake

*State.*  `session`, `intake`, `released`, `asset`, `batch`, `attempt` are
columns; `writer[a]` is how far the request that claimed attempt `a` has got; `cleaner[r]`
the cleanup a reconciler is at; `parts` and `objects` the files on disk.  A transaction is
one action and so is one call to the file system, because a crash or an overtaking may
come between any two.

*Actions.*  `createWorkspaceUploadSession`, `claimUpload` (and `claimUploadExpires`, its
early end), `markUploadAttemptWritten`, `finalizeUpload`, `rejectClaim` and
`claimCleanupAttempts` carry their names.  `storeWorkspaceUploadContent` is the sequence
of a writer's phases, its catch block `CommitRefused`, `Recheck`, `UndoStore`;
`streamAuthorizedPdfToLocalQuarantine` is `OpenPart`, `LinkFinal`, `UnlinkPart` and
`StreamFails`; `removeLocalQuarantineAttemptObjects` is `RemoveFinal`, `SweepParts`;
`reconcileActiveSessions` is `ExpireSession` and `ReleaseReceiveLease`.

*Environment.*  The constant `Faults` says what may go wrong: processes that die, answers
that get lost, files that cannot be removed, requests that stall past their lease.
Properties that hold only without one of them are checked without that one, and the run
with it is in section 4.

*Simplifications.*  One clock; files of one unit; one workspace and one user, whose limit
is `MaxConcurrent`; session creation answers once (its idempotent replay returns the same
row and changes nothing).

### ZoteroSync

*State.*  `connection`, `library`, `mirror`, `inbox`, `job`, `ledger` (the statuses of the
JobAttempt rows), `runs` and `stages` are rows; `worker` is what each process has in its
hands in the middle of `runZoteroMetadataPass`, `refresh` how far a
`discoverZoteroLibraries` request is.  `history` is the provider: every version of every
library.  `seen` is the set of workers whose copy of `IntegrationConnection.updatedAt` is
still the row's: whether it is, is all that `leaseIsCurrent` asks.

| Code | Action |
| --- | --- |
| `queueSelectedZoteroSyncs`, `scheduleDueZoteroSyncs` | `QueueSelected`, `ScheduleDue` |
| `claimNextZoteroSyncJob`, one round of its loop | `Claim`, `PutOff` (the provider pauses), `TerminalInvalid` |
| `runZoteroMetadataPass`, one request each | `ListItems`, `ListCollections`, `FetchBodies`, `ListDeletions`; `VersionMoved`, `ProviderRefuses`, `NoCredential` when they end the pass |
| `stageZoteroSyncObjects`, `completeZoteroSyncLease`, `failZoteroSyncLease` | `Stage`, `Publish` and `PublishRefused`, `FailLease`; `DatabaseFails` when the transaction throws |
| `selectZoteroLibraries` | `SelectLibraries` |
| `discoverZoteroLibraries` | `RefreshStarts`, then `RefreshPublishes`, `RefreshFails` (`recordProviderFailure`) or `RefreshRefused` |
| disconnect, a new OAuth connection of the account | `Disconnect`, `Reconnect` |
| `fileWorkspaceImport` | `FileEntry` |
| a lease nobody renews, a deadline that passes, a process that dies | `LeaseExpires`, `BackoffElapses`, `Crash` |

*Simplifications.*  A deadline is a Boolean, still ahead or not; the retry delays of
seconds that bind one job are not waited for.  CONNECTED and DEGRADED are one status, as
every reader treats them.  The bodies of all items are one request, and those of all
collections another, instead of chunks of 50: what may happen between two chunks may happen
between these two.  Resource limits and malformed answers are failures with code "other".
An object is its version and whether it becomes an inbox entry.  Attachment rows,
provenance, audit and idempotency records are left out.

### IngressAttempts

*State.*  `job` is the Job row, with the ticks left of its lease and until `runAfter`;
`row` and `ingress` the JobAttempt and DocumentIngressAttempt of each claim; `command` the
import's status and `retryAt`; `target` intake, quota, asset, document, inbox entry and
batch; `receipt` the attempt whose bytes were adopted.  `store` is one directory of private
quarantine: whether it is there, its part files, its final files, whether one was renamed
aside and which complete copies went with it, its tombstone.  `hand[w]` is how far a worker process has got.

*Actions.*  One call to the disk is one action, because a suspension, a deletion or a
crash may come between any two.

| Code | Action |
| --- | --- |
| `streamAuthorizedPdfToLocalQuarantine` (`server/uploads/storage.ts`) | `ResolveNamespace`, `MakeDirectory`, `AdmitStream`, `OpenPart`, `SealPart`, `LinkFinal`, `UnlinkPart`; its `catch` and `finally`: `StreamFails` |
| `removeLocalQuarantineAttemptObjects` | `RemoveFinal`, `RemoveParts`, `SweepFails` |
| a process dies; a transaction of the executing part throws | `Crash`, `TransactionFails` |

*Time* is relative, as in `DocumentPipeline`.  `budget` bounds misfortunes: each crash,
failed transaction, lost answer, failed fetch, failed removal, and each tick in which a
worker at work loses its lease, costs one.

### CrawlerImports

| Code | Action |
| --- | --- |
| `claimNextCrawlerJob`, with its `reapExpiredCrawlerLease` | actions of the same names |
| `heartbeatCrawlerJob`, `markCrawlerIngressWritten`, `completeCrawlerJob` | the same; a lost lease is `LeaseLost` |
| `failCrawlerJob` | the same; `FailureRefused` when the lease has gone |
| `reconcileCrawlerJobCleanup`, `finishCrawlerCleanup` | `ClaimCleanup`; `CleanupCompletes`, `CleanupPutOff`, `CleanupOvertaken`; `CleanupRefused` when the database refuses the commit |
| `terminalizeWithoutBytes` | the operators `FailedCommand`, `FailedTarget`, `Terminalize` |
| `deleteCrawlerCustody` | the same |
| `reconcileCrawlerCustodyDeletion`, `deleteLocalQuarantineAssetCustody` | `claimCrawlerCustodyDeletion`; `EstablishTombstone`, `RetireLiveNamespace`, `RemoveRetiredNamespaces`, `Rescan`; `finishCrawlerCustodyDeletion`, `DeletionPutOff`, `DeletionOvertaken` |
| `reconcileZoteroAttachmentDownloadCleanup` of the other transport, on this job's attempts | `ZoteroTakes`; `ZoteroCleansUp`, `ZoteroCleanupRefused` |
| `CrawlerImport_job_status_check` and its deferred siblings (`prisma/migrations`) | `StatusesAgree`; the others are the invariant `CommitsAreAccepted` |

*Simplifications.*  A claim never meets a job it would have to refuse (checked:
`DueJobsAreClaimable`), so those branches are not actions; nor is reaping an adopted
attempt, which closes with its job in one transaction.  The bound on the loops of a
deletion (`MAX_CUSTODY_RETIRE_LOOPS`), storage generations and the disposition of derived
text are left out.  A claim by the Zotero worker costs one of the budget.

### AttachmentDownloads

| Code | Action |
| --- | --- |
| `queueZoteroAttachmentImport` (`attachment-service.ts`) | the same |
| `claimNextZoteroAttachmentDownloadJob` | the same; `ClaimRefused` when the authority has gone; `ClaimPutOff` while the provider pauses; `reapExpiredDownloadLease` |
| heartbeat, `recordWritten...`, `complete...`, `failZoteroAttachmentDownloadLease` | the same; `LeaseLost`, `FailureRefused` |
| `reconcileZoteroAttachmentDownloadCleanup`, `finishCleanup` | `ClaimCleanup`, `CleanupCompletes`, `CleanupPutOff`, `CleanupIdle` |
| policy, credential, attachment version, selection | `AuthorityChanges`; a pause of the whole connection is `OthersBackOff` |

*Simplifications.*  One import.  Branches that no state reaches are not actions: a claim
that finds the attempts spent, reaping an adopted attempt, the "replayed" completion, the
third branch of `finishCleanup` (`attachment-download-jobs.ts:1839-1854`).  The clamp of the
provider's delay is left out.

### ZoteroOAuth

*State.*  `attempt`, `connection`, `outbox` (its pending revocations) and `audited` (the
keys named by an event for manual cleanup) are rows; `zotero` is the provider's side;
`hand[p]` is a request, with what it read before a call to Zotero; `lost` are keys that a
process took with it when it died.

| Code | Action |
| --- | --- |
| `start`, `cleanupZoteroOAuthAttempts`, `finishPendingAttempt` | the same; `AttemptIsDeleted` is the cascade |
| `callback` | `ReadAttempt`, `ClaimAttempt`, `ExchangeAccessToken` or `ExchangeFails`, `persistConnection` or `PersistFails`, `CommitLands` (a COMMIT whose answer was lost and that lands late) |
| `reconcilePersistenceOutcome`, `recordCredentialPersistenceUncertain` | the same |
| `disconnectZoteroConnection` | the same |
| `retryPendingZoteroRevocations`, `processPendingRevocation` | the first by name; `ClaimRevocation`, `RevokeAccessToken`, `RevocationFails`, `confirmPendingRevocation`, `ReturnRevocation`, `ClaimGrowsStale` |
| `recordProviderFailure`, `failZoteroSyncLease`, `discoverZoteroLibraries` on the error code | `ProviderNeedsAttention`, `LibrariesDiscovered` |

*Simplifications.*  Time is not counted: what may expire, expires at any time.  Zotero may
issue a key again that it has issued and that lives.  The branch of a revocation for a key
that is installed again is unreachable (`InstalledKeyIsNotBeingDeleted`) and not an action.
Signatures, encryption and the two halves of a temporary credential are left out.

### WorkspaceCommands

*State.*  `log` is what each revision of the workspace did: its length is
`Workspace.version`, its entries are effects and receipts at once, as one transaction
writes both.  `role`, `invitation`, `challenges` are tables; `generation` the extraction
that is current for the cited document; `canonical` and `staged` the proposal and its
duplicate.  `desk[u]` is a browser, `post` the requests under way, `answer` the answer
under way, `heard` what the browsers took for certain.

| Code | Action |
| --- | --- |
| any command of `server/workspaces/` and `approval-service.ts`, one serializable transaction | `Apply`, `Replay` or `Refuse`, by its `Verdict` |
| its order of checks: membership, receipt, revision, own checks | `Authorized`, `Done` and `SameRequest`, `Overtaken` (a decision on an invitation has none), `Fits` |
| `captureEvidence...`, `verifyEvidence...`, `reanchorEvidence...` | kinds "capture", "verify", "reanchor" |
| `prepareApproval`, `approve` of `approval-service.ts` | `PrepareApproval`, kind "approve" |
| `collaboration-service.ts` | kinds "invite", "cancel", "decide", "role", "remove" |
| the browser: click, retry under the same id, select again, dismiss, reload, give up | `Submit`, `SendAgain`, `Reselect`, `Abandon`, `Refresh`, `GiveUp` |
| what it does with an answer | `HearSuccess`, `HearConflict`, `HearSourceChanged`, `HearRefusal` |

*Simplifications.*  A handler is atomic, as its transaction is serializable; the first
authorization of a preparation is subsumed by that of the transaction that stores the
challenge.  Collections, projects and imports share the frame of a plain "note".  Left out:
the refusal to remove a member with private projects, limits, sessions, rate limits; the
late answer to a request the browser has given up (it is dropped); a second challenge of one
person at one revision.

## 3. Runs that pass

| Run | Instance | What it shows |
| --- | --- | --- |
| `pipeline_leases` | one upload; two validation workers one tick ahead and one behind; two extraction workers; three attempts; fair | `LedgerAgrees`, `CustodyIsHonest`, `EvidenceAgrees`, `StaleWorkersChangeNothing`, `EvidenceIsFinal`, whichever worker dies, is overtaken or comes late; `KeepsPromise`: the pipeline refines `DocumentPromise` with its liveness, so every document is settled |
| `pipeline_custody` | a crawled document and an upload without a batch, one paper, one worker of each kind and an extractor of another toolchain, two attempts | `LifecycleAgrees`, `LinksAreSound`, `DeletionFences`, `ProjectionsAreSafe`, `ImplementsPromise` (the safety of the refinement, with users and several documents) |
| `upload_intake` | two reservations, two attempts, room for one retained file; crashes, failed removals, stalls; fair | `ClaimsAgree`, `QuotaIsHonest`, `StoredBytesExist`, `StaleWritersAreHarmless`, `EveryUploadEnds` |
| `sync_users` | one item, two workers, two runs; every failure, everything users do | `SnapshotExact`, `RunsAgree`, `CurrentLeasesCanPublish`, `OvertakenPassesChangeNothing` |
| `sync_settles` | one item, three versions, one worker, three runs of two attempts, a pause; entries are filed; fair | `InboxFollowsSource`, `EverySyncSettles`, `KeepsPromise`: the sync refines `LibraryMirror` |
| `crawler_custody` | two crawler workers and a Zotero worker, two attempts, three misfortunes; a deletion at any moment; fair | `RowsAgree`, `FilesFollowTheRows`, `QuotaIsHeldForFiles`, `OvertakenWorkersChangeNothing`, `EverythingIsFinished` |
| `downloads` | two workers, two attempts, three misfortunes; pauses and changes of authority; fair | `StoryAgrees`, `NothingIsAdoptedStale`, `OvertakenDownloadsChangeNothing`, `EveryDownloadSettles` |
| `oauth_keys` | two requests, two authorizations, two keys, an outbox of one, two faults, two disconnects | `KeysAreAccountedFor`, `InstalledKeyIsNotBeingDeleted`, `OneCallbackWins` |
| `commands_members` | an owner, an admin, an outsider; two commands sent twice; two challenges | `ConsentMatchesReview`, `InvitationsAreSound` |
| `commands_evidence` | two members, two commands sent twice, two generations of the text | `AnswersAreTrue`, `EvidenceIsAChain` |

*Why the bounds are enough.*  Two workers of a kind are what an overtaking needs; the
third attempt of `pipeline_leases` lets an attempt be overtaken, overtake and still be
followed by another.  Documents meet only through the paper they compete for, so two suffice
there, and one is enough for leases.  `LeaseIds` has one more than can be referred to at
once, so a claim is never refused for want of one.  Two upload attempts give one overtaking,
and a session needs no more: the third would find the first already terminal.  Delays are
one or two ticks, which is all that order can tell apart with one lease length.  For the
sync, two workers overtake each other on one library (they would fence each other across two
by the same `updatedAt`, which users move in `sync_users`); two versions let the library
move in the middle of a pass, and three let an item appear, go and return.  The `Budget` of
a run stands for its eight attempts: one and two tell a first, a last and a forbidden
attempt apart.  For the two downloads, two attempts and three misfortunes let a worker be
suspended past its lease, its successor fail for good, and the cleanup of either go wrong;
with an attention threshold of two the cleanup can be given up as well.  For the keys, two
requests are a callback and the disconnect, callback or revocation that races it, and
`MaxPending = 1` makes the outbox full with the first entry.  For the commands, two
operations are what one revision can decide between, and the second request of an operation
arrives before, between or after the other operation.

*Deadlock* is checked in `sync_users`, where users can always act.  In the other runs it is
not (`CHECK_DEADLOCK FALSE`): every instance has finitely many documents, sessions,
versions, commands and keys, and once all are settled the system really rests.  That it does
not rest before is what the liveness properties say.

*Fairness.*  Workers run under a supervisor and poll (the loops of `src/workers/` run until
they are stopped, and the deployments restart them); a claimed operation ends because the
clients of the services have deadlines; therefore weak fairness of each worker's own
progress and of the clock.  Crashes, heartbeats, lost answers and users are never fair.  The
extractor may decline requests and a declined attempt costs no budget, so an extractor that
declines for ever starves the job: the liveness of extraction assumes strong fairness of its
serving (`ExtractorServes`).  For uploads only the clock and the reconciler are fair: weakly
each of its sweeps over the sessions, strongly its cleanup steps, for it is not killed, nor
its disk broken, at the same point for ever.  The browser and the request are not fair at
all.  For the sync, a worker polls and finishes what it has in hand, leases and pauses run
out; the provider and the users are not fair, and may interfere for as long as their bounds
let them.  A crawler worker's round looks for a deletion, then for a cleanup, then for a job,
and each is fair by itself only as far as the one before it leaves room (`CleansNext`); a
Zotero worker is fair in what it has taken on, not in taking it.  For the downloads the same
holds of cleaning and claiming, whatever users do to the authority.

## 4. Where code and documents part

Two runs are expected to find a violation:

- `pipeline_uploads_linkable`: `README.md` says an uploaded PDF can be linked from the
  Inbox after validation.  `createWorkspaceUploadSession` gives every upload an import
  batch, and `linkValidatedDocumentToWorkspacePaper` refuses a browser upload with one.
- `crawler_refused`: "Crawler command and crawl job lifecycle states must agree at commit."
  When a user deletes a crawl whose last attempt failed for good and still waits for its
  cleanup, `finishCrawlerCleanup` sets the job DEAD_LETTER beside a CANCELLED import; the
  trigger refuses the commit, nothing catches it, and the worker dies, at each try until the
  deletion closes the attempt.

Ten more are kept as configurations that reproduce what was met while modelling; each
checks one property and finds it violated in seconds (`tlc -config <name>.cfg <module>`):

| Configuration, module | Property | What it shows |
| --- | --- | --- |
| `upload_lost_answer`, `MCUploadIntake` | `StoredBytesExist` | `docs/UPLOAD-INTAKE.md:89`: an adopted object is never deleted.  When the answer of `finalizeUpload` is lost and the re-read fails, or comes after a validation worker moved the intake, the request deletes the stored original (`service.ts:1300-1320`).  `upload_intake` therefore runs without lost answers. |
| `upload_leftovers`, `MCUploadIntake` | `LeftoversAreReconciled` | `storage.ts:871` leaves a failed compensation to "a later reconciler".  A cleanup that finished while the request was still writing is never looked at again (`reconciler.ts:588-591`). |
| `sync_revoked`, `MCZoteroSync` | `RevokedUntilReconnected` | `docs/ZOTERO-INTEGRATION.md:134`: a 401 leaves the connection revoked until it is reconnected.  A refresh that began before the worker's 401 and fails after it writes DEGRADED over REVOKED (`library-service.ts:1280-1299`), and the refused key is in use again. |
| `crawler_charged`, `MCCrawlerImports` | `QuotaReturnsWithTheProof` | `README.md:455`: failures retain quota until exact cleanup proof.  When the Zotero worker proves the last file of a failed crawl absent, no import is bound to the job it ends (`attachment-download-jobs.ts:1863-1953` does not filter by job type) and the quota stays charged; other such cleanups fail at commit and end the process. |
| `crawler_absence`, `MCCrawlerImports` | `AbsenceIsStable` | `storage.ts:1219`: a "stable, root-bound absence proof".  A suspended writer that had passed its first tombstone check creates the directory again (`storage.ts:722-729`) after the deletion was recorded, and nobody comes back for it; a deleter that was overtaken may rename it aside again.  It is empty or holds parts: `FilesComeAndGoWithTheRows` (section 5) proves that no complete copy is in it. |
| `downloads_stray`, `MCAttachmentDownloads` | `ReleasedMeansGone` | `docs/ZOTERO-INTEGRATION.md:197`: a failed write stays charged until deletion is proven.  A worker suspended past its lease opens its part file after the cleanup has proved it absent and released the quota. |
| `oauth_forgotten`, `MCZoteroOAuth` | `OutboxIsAnnounced` | `docs/ROADMAP.md:101`: revocations are retried.  `recordProviderFailure` (`library-service.ts:1293`) and `failZoteroSyncLease` (`sync-jobs.ts:1818`) overwrite the error code by which `retryPendingZoteroRevocations` finds the outbox. |
| `oauth_dead_key`, `MCZoteroOAuth` | `InstalledKeyLives` | `oauth-service.ts:2040`: installing a token after the claim of its revocation is forbidden.  A key Zotero hands out twice can have been deleted, and its outbox entry confirmed and gone, when the second callback installs it. |
| `commands_blind`, `MCWorkspaceCommands` | `NoBlindWrites` | `README.md:399`, `ui-state.ts:15-19`: a command carries the revision its sender has loaded.  A replayed answer carries the current revision, the browser adopts the number without the changes behind it, and its next command passes the revision check blindly. |
| `commands_forbidden`, `MCWorkspaceCommands` | `AnswersAreTrue` | `live-paper-pilot-app.tsx:2093`: "A closed failure proves no unknown final response remains".  An approval whose answer was lost has been carried out; its author is demoted meanwhile; the identical retry is answered 403 before its receipt is looked up (`approval-service.ts:837-845`), and the browser closes the review as not approved (`live-paper-pilot-app.tsx:2163-2177`).  `AnswersStayTrue` (section 5) proves that nothing else makes an answer untrue. |

Seen while reading, without a configuration: a refresh that succeeds overwrites the pause
another worker persisted meanwhile (`library-service.ts:1597`); the JobAttempt of a lease
that is invalid at its end stays RUNNING (`sync-jobs.ts:867`; nothing reads it); the
disconnect of one workspace revokes a key another workspace may hold; revocations are retried
only when a user starts an authorization; an operation id is "stable across retries"
(`contracts.ts:74`) but plain clicks mint one each (`app` calls `crypto.randomUUID()`); a
passage that is selected again keeps its operation id under a new hash, so that a request
that did arrive answers `idempotency_conflict`; an invitation whose sender was demoted can
neither be accepted nor rejected.

## 5. What is proved

The theorems hold for every set of documents, workers, sessions, users, keys and the rest,
every number of attempts and every length of leases and delays within the named assumptions
of the modules (`SourcesAssumption`, `BoundsAssumption`, `NoneAssumption`, `UploadBounds`,
`IngressBounds`, `DeletionBounds`, `KeysAssumption`, `BudgetAssumption`,
`SyncBoundsAssumption`, `CodesAssumption`, `MovesAssumption`, `NoWorkerAssumption`,
`OAuthBounds` and `CommandBounds`), which say that limits are naturals, that a budget of
attempts is positive, that the Zotero workers are among the workers, that an object is an
item or a collection and not both, what can fail and what users do, and that the null value
is none of the others.  TLC evaluates them in every run.  Theorems of the form `...Inductive`
state the inductive invariant of a component; the others follow from it, and each names a
property that a run of section 3 checks unless the table says otherwise.  Every inductive
invariant was checked by TLC on the instances of section 3 before it was proved.

### The pipeline

| Theorem | Says |
| --- | --- |
| `Inductive`, `TypeCorrect` | `Spec => []IInv`, `Spec => []TypeOK` |
| `LedgersAgree`, `EvidenceIsAttributed` | `Spec => []LedgerAgrees`, `Spec => []EvidenceAgrees` |
| `EvidenceStaysFinal`, `StaleWorkersAreFenced` | `Spec => EvidenceIsFinal`, `Spec => StaleWorkersChangeNothing` |
| `LifecycleInductive` | `Spec => []LInv` |
| `LifecyclesAgree`, `CustodyStaysHonest`, `LinksStaySound` | `Spec => []LifecycleAgrees`, `[]CustodyIsHonest`, `[]LinksAreSound` |
| `ProjectionsStaySafe`, `DeletionIsFinal` | `Spec => ProjectionsAreSafe`, `Spec => DeletionFences` |
| `PipelineImplementsPromise` | `Spec => ImplementsPromise`: every step is a step of `DocumentPromise` for one document, or a stutter |

`IInv` is `TypeOK`, `LedgerAgrees`, `EvidenceAgrees` and two facts they lean on.
`JobsStartClean` (no job while bytes are received; a job that does not exist has used no
attempt) is needed because `Admit` puts a job in place and must not disturb a ledger or an
attestation.  `HandsAreFull` (a busy worker holds an attempt of a document, a completing
validator a verdict) is needed because the completions index rows by what the worker
remembers.  The ledger is proved once for one job and its rows, as lemmas of the ways a
transaction rewrites them (claimed, reaped, settled, retried, deferred, cancelled, aged),
and each action of either job type cites the lemma it uses.  That an attempt row can be
overwritten by nobody but its owner follows from `Owns`: the job's lease, the attempt's
number and the row have to agree.

`LInv` adds custody and lifecycle, and what makes them inductive: a withdrawn document is
quiet (`WithdrawnAreQuiet`: no live job, so no worker can project on it), only a withdrawal
cancels a job, a linked document was accepted and is imported, and a paper has one document
that is not archived.  Each action is first shown to move one document in one of six ways
(admitted, validation pending, validation decided, extraction moved, linked, withdrawn), and
the invariant is shown for each way.  The refinement uses the same ways, and that no step moves two documents.

### Uploads

| Theorem | Says |
| --- | --- |
| `UploadInductive` | `Spec => []UInv` |
| `ClaimsStayAgreed`, `QuotaStaysHonest` | `Spec => []ClaimsAgree`, `Spec => []QuotaIsHonest` |
| `StaleWritersStayHarmless` | `Spec => StaleWritersAreHarmless` |
| `StoredBytesStay` | `"answer" \notin Faults` implies `Spec => []StoredBytesExist` |

`UInv` adds to the two properties that an attempt nobody has claimed is untouched, that the
original of a session was received for it (so two sessions never share a file), and that a
reconciler works only on attempts that have ended.  From the last it follows that the
branch in which a cleanup finds its attempt adopted is never taken.  The hypothesis of
`StoredBytesStay` is the finding of `upload_lost_answer`: with a lost answer the conclusion
is false.  It is the only fault the theorem excludes; crashes, stalls and removals that
fail are all allowed.  Its invariant `BytesAreKept` says when a file is on disk before it is
the original, and that nobody who could remove it is left once it is.

### Downloads from Zotero

| Theorem | Says |
| --- | --- |
| `DownloadsInductive` | `Spec => []AInv` |
| `StoriesStayAgreed` | `Spec => []StoryAgrees`, with `QuotaIsHeldForFiles` |
| `NothingIsEverAdoptedStale` | `Spec => NothingIsAdoptedStale` |
| `OvertakenWorkersWriteNothing` | `Spec => OvertakenDownloadsChangeNothing` |

The heart of `AInv` is `LastAttemptCounts`: of all attempts only the last may have a file,
because no attempt is opened before the others are proved clean.  With it one fence on the
last attempt protects all; without it a late cleanup could end a job that runs again.
`FilesAreInPlace` follows a file through the hands of its worker: two workers never fill the
same attempt, a worker that reports bytes written has linked them, and whoever removes files
works on an attempt that was given up.  Every transaction is shown to leave each attempt as
it was, give it up, move it on under its own worker, or open a new one (`Advances`), and
one lemma derives the files from that (`FilesStep`).

### Crawler imports

| Theorem | Says |
| --- | --- |
| `CrawlsInductive` | `Spec => []CInv` |
| `RowsTellOneStory` | `Spec => []RowsAgree`: types, what the triggers demand at commit, and that no claim finds a job it would have to give up |
| `FilesComeAndGoWithTheRows`, `QuotaOutlivesTheFiles` | `Spec => []FilesFollowTheRows`, `Spec => []QuotaIsHeldForFiles` |
| `OvertakenWorkersWriteNothing` | `Spec => OvertakenWorkersChangeNothing` |

`CInv` has the scheme of the downloads (`LastAttemptCounts`, `Advances`, `FilesStep`) and
adds the deletion and the foreign cleanups to it.  `WaitingIsWorthIt` is what a claim needs:
a retrying job whose attempts are spent has a dead-lettered attempt and a file still to be
cleaned up, so that its cleanup ends it before a claim finds it due.  It follows that every
cleanup that leaves the job waiting must find no dead-lettered attempt or leave a file.
`CommandFollows` makes the Zotero worker's cleanups harmless: where the trigger lets one
commit, the import has failed with its job already.

That deleted bytes stay gone is about the names on disk.  `Fenced` says that the tombstone
stands, no final name is left and every worker that has passed its last check of the
tombstone has lost its part file.  One renaming of the directory establishes it, and no step
of any writer or deleter ends it (`FenceStays`): a writer can open a part again only before
that check.  `Emptied` adds that nothing complete is left in a directory renamed aside.  A
deleter is at "removed" or "proved" only when this holds.  The attempted proof of an earlier,
stronger form of `DeletedBytesStayGone` (no directory is left renamed aside) failed, and TLC
found the counterexample with three crawlers; it is now `AbsenceIsStable` and false (section
4).

### Keys

| Theorem | Says |
| --- | --- |
| `OAuthInductive` | `Spec => []OInv` |
| `OneCallbackAlwaysWins`, `InstalledKeysAreNotDeleted`, `KeysStayAccountedFor` | `Spec => []` of `OneCallbackWins`, `InstalledKeyIsNotBeingDeleted`, `KeysAreAccountedFor` |
| `OutboxStaysBounded` | the outbox never exceeds its limit (no run checks it by itself) |

`OInv` says what each request holds between its transactions and calls; that an installed
key awaits no revocation; and that whoever has a DELETE on its way holds the lease of that
key's entry, from which it follows that the key is not installed meanwhile.

### Commands

| Theorem | Says |
| --- | --- |
| `CommandsInductive` | `Spec => [](DInv /\ BInv)` |
| `EvidenceStaysAChain`, `ConsentStaysBound`, `InvitationsStaySound` | `Spec => []` of `EvidenceIsAChain`, `ConsentMatchesReview`, `InvitationsAreSound` |
| `ClosedAnswersStayTrue` | `Spec => []ClosedAnswersAreTrue`: a command takes effect once at most, what was heard to be done is done, and what was heard to be refused is not and never will be (no run checks it by itself; it is `AnswersAreTrue` but for a 403 about an approval) |
| `AnswersStayTrue` | `Steady` implies `Spec => []AnswersAreTrue` |

`DInv` is about the database: each command is in the log once, and a note's successors and
an approval's challenge are told apart by what the log says before them.  `BInv` is about
the browsers: what is in the post, on a desk or in an answer names a command of its sender,
and a refusal that closes a command is about one that is superseded for good
(`SupersededStays`: the log only grows).  `Steady` says that nobody is demoted or removed
while proposals are approved; `commands_forbidden` shows why it is needed, and
`commands_evidence`, which checks the property, satisfies it.

### The sync

| Theorem | Says |
| --- | --- |
| `SyncInductive` | `Spec => []SInv` |
| `RowsTellOneStory`, `CurrentLeasesAlwaysCan` | `Spec => []RunsAgree`, `Spec => []CurrentLeasesCanPublish` |
| `CopyIsOneVersion`, `InboxTellsTheCopy` | `Spec => []SnapshotExact`, `Spec => []InboxFollowsSource` |
| `OvertakenPassesWriteNothing` | `Spec => OvertakenPassesChangeNothing` |
| `SyncKeepsPromise` | `Spec => KeepsPromise`: every step is a step of `LibraryMirror` or a stutter |

`SnapshotExact` alone is not inductive: that a publication installs one version depends on
what its pass has read, requests ago.  `ReadSoFar` says it phase by phase for the worker
that holds the lease: every row staged or in hand is the object as it was at the version
the pass observed (`TrueRow`), and every object that changed since the cursor has a row or
is still to be fetched.  It is true only because each request compares the version with
the one observed before (`Steady`), and it is kept when the library moves on, because
`HistoryIsTrue` says of the provider that an object carries the version of its last change
and older versions never change.  `BooksAgree` are the rows of one library; from it and
`HandAgrees` it follows that a current lease can publish, and that a lease that was lost
never comes back: attempts only grow.  At a publication, `CompletePass` says that an object
with a row is as in the observed version, and one without a row is in that version as it
was at the cursor, so the copy is the observed version whatever happened in between.  The
refinement follows from the same lemma (`ShowsAVersion`), with the provider's changes as
`Edit` and every other step a stutter (`OtherSteps`).

### Only model-checked

Liveness (fairness and ENABLED are outside the prover's reach): `EveryUploadEnds`,
`EverySyncSettles`, `EverythingIsFinished`, `EveryDownloadSettles`, and `KeepsPromise` of
the pipeline, which adds fairness to the refinement that `PipelineImplementsPromise`
proves.  Every other property of a passing run is the subject of a theorem.

## 6. Not modelled

`PROJECT.json` lists every component with its status.  Of the modelled parts: idempotent
replays of commands other than those of `WorkspaceCommands`, sessions and rate limits,
audit events other than the one that names a key, the contents of manifests, attestations
and receipts beyond what names them, and `reconcileMissingValidationJobs` (it repairs rows
that `finalizeUpload`, which stores and enqueues in one transaction, cannot leave) are left
out.  Readers of committed data (the PDF reader, DTOs) keep no state.  The governed fetch,
the adapters of providers and the isolated services are seen by what they answer: their
own work is parsing, policy on addresses and limits on bytes, without shared state.  The
object-storage variant of the quarantine store is not modelled.  The static reader under
`spikes/` shares nothing with the rest.  Most of the browser client is rendering; what it
keeps of a command is in `WorkspaceCommands`, its upload form is a request of
`UploadIntake`.

## 7. Plan

Models still worth having: rate limit windows, the staging of WebMCP proposals, the
direct transfer of a PDF in the browser with its idempotent reservation, and a composition
of `UploadIntake` and `DocumentPipeline` that shares `finalizeUpload`.

Proofs: every safety property, action property and refinement that a run checks is proved.
What a composition of `UploadIntake`, the two transports and `DocumentPipeline` would add is
a theorem across `finalizeUpload` and its siblings: the document one of them stores is the
one the pipeline admits.
