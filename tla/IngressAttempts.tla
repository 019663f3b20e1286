-------------------------- MODULE IngressAttempts ---------------------------
(***************************************************************************)
(* What the two server-side transports of a PDF have in common: a governed *)
(* crawler import and a Zotero attachment import.  Each has one download   *)
(* Job, and every claim of the job opens one attempt with its own lease,   *)
(* its JobAttempt row, its DocumentIngressAttempt row and its own file     *)
(* name in private quarantine.  The rows are in PostgreSQL; the files are  *)
(* written by src/server/uploads/storage.ts.                               *)
(*                                                                         *)
(* This module has the state, the steps of one stream into quarantine and  *)
(* the steps that remove what an attempt left.  CrawlerImports and         *)
(* AttachmentDownloads add the transactions of the two job modules.        *)
(*                                                                         *)
(* An attempt's number stands for its identifiers: each claim increments   *)
(* Job.attempts and draws a new lease, so n is also the lease of attempt   *)
(* n.  Time is relative: a lease or a delay is the ticks that are left.    *)
(* Everything that goes wrong takes one of "budget": a crash, a failed     *)
(* transaction or a lost answer, a failed fetch, a failing disk, a worker  *)
(* still at work when its lease runs out.                                  *)
(***************************************************************************)
EXTENDS Integers, FiniteSets

CONSTANTS
  Workers,             \* worker processes of the transport
  MaxAttempts,         \* CRAWLER_JOB_MAX_ATTEMPTS and its Zotero twin
  LeaseTtl,            \* ticks a claim or a heartbeat grants
  RetryDelay,          \* retryDelayMs, or what the provider asked for
  CleanupLease,        \* CLEANUP_LEASE_MS
  CleanupDelay,        \* cleanupDelayMs
  AttentionThreshold,  \* CRAWLER_CLEANUP_ATTENTION_THRESHOLD and its twin
  Budget,              \* how much may go wrong
  None

Attempts == 1..MaxAttempts

ASSUME IngressBounds ==
  /\ {MaxAttempts, LeaseTtl, AttentionThreshold} \subseteq Nat \ {0}
  /\ {RetryDelay, CleanupLease, CleanupDelay, Budget} \subseteq Nat
  /\ None \notin Nat

VARIABLES
  job,      \* Job: status, attempts, ticks of its lease, ticks until runAfter
  row,      \* JobAttempt.status of each attempt
  ingress,  \* DocumentIngressAttempt: status, lease, and its cleanup columns
  command,  \* the import's status and retryAt
  target,   \* intake, asset, document, inbox entry and batch of the import
  receipt,  \* DocumentIngestReceipt.ingressAttemptId
  store,    \* the asset's namespace in private quarantine
  hand,     \* what each worker is doing
  budget

ingressRows == <<job, row, ingress, command, target, receipt>>

Waiting == {"QUEUED", "RETRYING"}
Open == {"RECEIVING", "WRITTEN"}
Given == {"FAILED", "ABANDONED"}

Hand(phase, n, tries, retryable) ==
  [phase |-> phase, n |-> n, tries |-> tries, retryable |-> retryable]
Idle == Hand("idle", 0, 0, TRUE)
At(w, phase) == hand[w].phase = phase
Goes(w, phase) == hand' = [hand EXCEPT ![w].phase = phase]
Rests(w) == hand' = [hand EXCEPT ![w] = Idle]

NoIngress == [status |-> "NONE", left |-> 0, wait |-> 0, tries |-> 0, cleaned |-> FALSE]

\* An attempt whose file may still be on disk.
MayHaveFile(ing) ==
  \/ ing.status \in Open \cup {"ADOPTED"}
  \/ ing.status \in Given /\ ~ing.cleaned
Unsafe(ings) == \E n \in Attempts : MayHaveFile(ings[n])

IngressInit(status) ==
  /\ job = [status |-> status, attempts |-> 0, left |-> 0, wait |-> 0]
  /\ row = [n \in Attempts |-> "NONE"]
  /\ ingress = [n \in Attempts |-> NoIngress]
  /\ command = [status |-> status, retry |-> None]
  /\ target = [intake |-> status, released |-> FALSE, asset |-> "UPLOADING",
               document |-> "PENDING", inbox |-> "NEEDS_REVIEW", batch |-> "RUNNING"]
  /\ receipt = None
  /\ store = [live |-> FALSE, parts |-> {}, finals |-> {}, retired |-> FALSE, moved |-> {}, tomb |-> FALSE]
  /\ hand = [w \in Workers |-> Idle]
  /\ budget = Budget

\* The lease of attempt n is live.
Leased(n) == job.status = "RUNNING" /\ job.attempts = n /\ job.left > 0
Exhausted(n) == n >= MaxAttempts
-----------------------------------------------------------------------------
(* streamAuthorizedPdfToLocalQuarantine, one step per call to the disk.    *)

Streaming == {"fetching", "resolved", "made", "admitted", "writing", "sealed", "linked"}

FileUnchanged == UNCHANGED <<ingressRows, budget>>

\* requireNoCustodyTombstone once the namespace is known.
ResolveNamespace(w) ==
  /\ At(w, "fetching") /\ Goes(w, "resolved")
  /\ ~store.tomb
  /\ UNCHANGED store /\ FileUnchanged

MakeDirectory(w) ==
  /\ At(w, "resolved") /\ Goes(w, "made")
  /\ store' = [store EXCEPT !.live = TRUE]
  /\ FileUnchanged

\* Asked again, after the directory exists and before any byte.
AdmitStream(w) ==
  /\ At(w, "made") /\ Goes(w, "admitted")
  /\ ~store.tomb
  /\ UNCHANGED store /\ FileUnchanged

OpenPart(w) ==
  /\ At(w, "admitted") /\ Goes(w, "writing")
  /\ store.live
  /\ store' = [store EXCEPT !.parts = @ \cup {hand[w].n}]
  /\ FileUnchanged

\* The bytes are synced; the tombstone is asked for the last time.
SealPart(w) ==
  /\ At(w, "writing") /\ Goes(w, "sealed")
  /\ ~store.tomb
  /\ UNCHANGED store /\ FileUnchanged

\* link(partPath, finalPath): fails when the part has gone or been renamed.
LinkFinal(w) ==
  /\ At(w, "sealed") /\ Goes(w, "linked")
  /\ store.live /\ hand[w].n \in store.parts
  /\ store' = [store EXCEPT !.finals = @ \cup {hand[w].n}]
  /\ FileUnchanged

\* chmod(finalPath) and unlink(partPath).
UnlinkPart(w) ==
  /\ At(w, "linked") /\ Goes(w, "stored")
  /\ hand[w].n \in store.parts \cap store.finals
  /\ store' = [store EXCEPT !.parts = @ \ {hand[w].n}]
  /\ FileUnchanged

\* The next step of the stream cannot succeed any more.
Blocked(w) ==
  LET n == hand[w].n
  IN  \/ hand[w].phase \in {"fetching", "made", "writing"} /\ store.tomb
      \/ At(w, "admitted") /\ ~store.live
      \/ At(w, "sealed") /\ ~(store.live /\ n \in store.parts)
      \/ At(w, "linked") /\ n \notin store.parts \cap store.finals

\* The fetch or the stream throws, or the heartbeat aborts it; its own part,
\* and a final name it has linked, are unlinked on the way out.
StreamFails(w, retryable) ==
  /\ hand[w].phase \in Streaming
  /\ IF Blocked(w) THEN budget' = budget /\ retryable = ~store.tomb
                   ELSE budget > 0 /\ budget' = budget - 1
  /\ hand' = [hand EXCEPT ![w].phase = "failing", ![w].retryable = retryable]
  /\ store' = [store EXCEPT !.parts = @ \ {hand[w].n},
                            !.finals = IF At(w, "linked") THEN @ \ {hand[w].n} ELSE @]
  /\ UNCHANGED ingressRows

Stream(w) ==
  \/ ResolveNamespace(w) \/ MakeDirectory(w) \/ AdmitStream(w) \/ OpenPart(w)
  \/ SealPart(w) \/ LinkFinal(w) \/ UnlinkPart(w)
  \/ Blocked(w) /\ \E retryable \in BOOLEAN : StreamFails(w, retryable)
-----------------------------------------------------------------------------
(* removeLocalQuarantineAttemptObjects: the final name, then the parts.    *)

RemoveFinal(w) ==
  /\ At(w, "sweeping") /\ Goes(w, "sweeping parts")
  /\ store' = [store EXCEPT !.finals = @ \ {hand[w].n}]
  /\ FileUnchanged

RemoveParts(w) ==
  /\ At(w, "sweeping parts") /\ Goes(w, "swept")
  /\ store' = [store EXCEPT !.parts = @ \ {hand[w].n}]
  /\ FileUnchanged

SweepFails(w) ==
  /\ hand[w].phase \in {"sweeping", "sweeping parts"} /\ Goes(w, "unswept")
  /\ budget > 0 /\ budget' = budget - 1
  /\ UNCHANGED <<ingressRows, store>>

Sweep(w) == RemoveFinal(w) \/ RemoveParts(w)
-----------------------------------------------------------------------------
(* A process dies and is started again.                                    *)
Crash(w) ==
  /\ hand[w].phase # "idle"
  /\ Rests(w)
  /\ budget > 0 /\ budget' = budget - 1
  /\ UNCHANGED <<ingressRows, store>>

\* A transaction of the executing part throws; the worker reports a failure.
TransactionFails(w) ==
  /\ hand[w].phase \in {"stored", "written"}
  /\ hand' = [hand EXCEPT ![w].phase = "failing", ![w].retryable = TRUE]
  /\ budget > 0 /\ budget' = budget - 1
  /\ UNCHANGED <<ingressRows, store>>

\* What a transaction costs when it commits and its answer is lost.
Answered(answered) ==
  IF answered THEN budget' = budget ELSE budget > 0 /\ budget' = budget - 1

Executing == Streaming \cup {"stored", "written", "failing"}
Sweeping == {"sweeping", "sweeping parts", "swept", "unswept"}

Less(ticks) == IF ticks = 0 THEN 0 ELSE ticks - 1

\* Workers that are still at work when their lease runs out with this tick.
Overrun(w) ==
  LET h == hand[w]
  IN  \/ h.phase \in Executing /\ Leased(h.n) /\ job.left = 1
      \/ h.phase \in Sweeping /\ ingress[h.n].tries = h.tries /\ ingress[h.n].wait = 1

TickJob ==
  /\ job' = [job EXCEPT !.left = Less(@), !.wait = Less(@)]
  /\ ingress' = [n \in Attempts |-> [ingress[n] EXCEPT !.left = Less(@), !.wait = Less(@)]]
  /\ command' = [command EXCEPT !.retry = IF @ = None THEN None ELSE Less(@)]
  /\ UNCHANGED <<row, target, receipt, store, hand>>

JobTicksLeft ==
  job.left + job.wait > 0 \/ \E n \in Attempts : ingress[n].left + ingress[n].wait > 0
=============================================================================
