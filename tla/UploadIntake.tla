---------------------------- MODULE UploadIntake ----------------------------
(***************************************************************************)
(* How the bytes of a browser upload get into private quarantine:          *)
(*                                                                         *)
(*  - the reservation and the receive lease of a transfer, in PostgreSQL   *)
(*    (src/server/uploads/service.ts);                                     *)
(*  - the web process that streams one content request into a ".part"      *)
(*    file, links it to the final name of its attempt, and then tries to   *)
(*    make it the stored original (service.ts and storage.ts);             *)
(*  - the reconciler, run by every validation worker, that expires         *)
(*    reservations, releases dead leases and deletes what failed attempts  *)
(*    left behind (reconciler.ts).                                         *)
(*                                                                         *)
(* A transaction is one action, and so is one call to the file system.     *)
(* Between them a writer may be overtaken: its lease runs out, another     *)
(* request claims the session, the reconciler cleans up while it is still  *)
(* streaming.  What the environment may inflict is the constant Faults.    *)
(* All files are one unit long.                                            *)
(***************************************************************************)
EXTENDS Naturals, FiniteSets

CONSTANTS
  Sessions,       \* upload sessions, each with its intake, asset and batch
  Attempts,       \* the UUIDs drawn for receive claims
  Reconcilers,    \* processes that run reconcileUploadIntake
  SessionTtl,     \* sessionTtlMs, in ticks
  LeaseTtl,       \* leaseTtlMs
  CleanupLease,   \* CLEANUP_LEASE_MS, and the least back-off of a failed cleanup
  MaxConcurrent,  \* maxConcurrentUploadsPerUser
  MaxRetained,    \* maxRetainedBytesPerWorkspace, in files
  Faults,         \* which of AllFaults happen
  None

\* "crash": a process dies.  "answer": a transaction or a query fails, or it
\* commits and its answer is lost.  "storage": a file cannot be removed.
\* "stall": a request is still at its file when its lease or the whole
\* reservation runs out (the stream deadline is shorter than the lease, but a
\* request may be claimed a moment before the reservation expires).
AllFaults == {"crash", "answer", "storage", "stall"}

ASSUME UploadBounds ==
  /\ IsFiniteSet(Sessions) /\ IsFiniteSet(Attempts)
  /\ {SessionTtl, LeaseTtl, CleanupLease, MaxConcurrent, MaxRetained} \subseteq Nat
  /\ Faults \subseteq AllFaults
  /\ None \notin Sessions /\ None \notin Attempts

VARIABLES
  session,   \* UploadSession: status, claimId, and the ticks of its two expiries
  intake,    \* DocumentIntake.status
  released,  \* DocumentIntake.quotaReleasedAt is set
  asset,     \* Asset.status and Asset.objectKey
  batch,     \* ImportBatch.status
     \* "upload.session.expired" events
  attempt,   \* UploadAttempt: its session, status, cleanupAfter, cleanup result
  writer,    \* how far the request that claimed an attempt has got
  cleaner,   \* the cleanup claim each reconciler works on
  parts,     \* attempts with a ".part" file on disk
  objects    \* attempts with a final ".quarantine" file on disk

rows == <<session, intake, released, asset, batch, attempt>>
files == <<parts, objects>>
vars == <<rows, writer, cleaner, files>>
-----------------------------------------------------------------------------
\* Wrong on purpose: a session whose request died is not looked at.
ActiveIssuedOnly == {"ISSUED"}

Active == {"ISSUED", "RECEIVING"}
Receiving == {"RECEIVING", "WRITTEN"}
Terminal == {"FAILED", "ABANDONED"}

\* The session closed; its expiries no longer matter.
Closed(s, status) ==
  [session EXCEPT ![s] = [status |-> status, claim |-> None, left |-> 0, lease |-> 0]]

NoAttempt == [of |-> None, status |-> "NONE", wait |-> 0, cleanup |-> "pending"]
AttemptsOf(rws, s) == {a \in Attempts : rws[a].of = s}

\* randomUUID: the first of the identifiers no row has.
Fresh == {a \in Attempts : attempt[a] = NoAttempt}
FreshAttempt == IF Fresh = {} THEN None ELSE CHOOSE a \in Fresh : TRUE

\* The attempt's row closed, if it is still open; its cleanup is due at once.
ClosedAttempt(rws, a, status) ==
  IF a # None /\ rws[a].status \in Receiving
    THEN [rws EXCEPT ![a].status = status, ![a].wait = 0] ELSE rws

\* Wrong on purpose: only attempts that still receive hold the quota.
HoldsQuotaReceiving(row) == row.status \in Receiving

\* The attempts for which quota is retained: all but those cleaned up for good.
HoldsQuota(row) == row.status \notin Terminal \/ row.cleanup # "done"
Clean(rws, s) == \A a \in AttemptsOf(rws, s) : ~HoldsQuota(rws[a])

\* retainedWorkspaceIntakeBytes.
Retained ==
  Cardinality({s \in Sessions : intake[s] # "NONE" /\ ~released[s]})
    + Cardinality({a \in Attempts : attempt[a].status \in Terminal /\ attempt[a].cleanup = "pending"})

\* A claim that the database still honours.
ClaimLive(a) ==
  LET s == attempt[a].of
  IN  session[s].status = "RECEIVING" /\ session[s].claim = a /\ session[s].lease > 0

Init ==
  /\ session = [s \in Sessions |-> [status |-> "NONE", claim |-> None, left |-> 0, lease |-> 0]]
  /\ intake = [s \in Sessions |-> "NONE"]
  /\ released = [s \in Sessions |-> FALSE]
  /\ asset = [s \in Sessions |-> [status |-> "UPLOADING", key |-> None]]
  /\ batch = [s \in Sessions |-> "NONE"]
  /\ attempt = [a \in Attempts |-> NoAttempt]
  /\ writer = [a \in Attempts |-> "none"]
  /\ cleaner = [r \in Reconcilers |-> [phase |-> "idle", attempt |-> None]]
  /\ parts = {} /\ objects = {}
-----------------------------------------------------------------------------
(* Reserving and claiming.                                                 *)

createWorkspaceUploadSession(s) ==
  /\ session[s].status = "NONE"
  /\ Cardinality({t \in Sessions : session[t].status \in Active /\ session[t].left > 0})
       < MaxConcurrent
  /\ Retained + 1 <= MaxRetained
  /\ session' = [session EXCEPT ![s].status = "ISSUED", ![s].left = SessionTtl]
  /\ intake' = [intake EXCEPT ![s] = "RESERVED"]
  /\ batch' = [batch EXCEPT ![s] = "RUNNING"]
  /\ UNCHANGED <<released, asset, attempt, writer, cleaner, files>>

\* failBrowserDocumentIntake, when the attempt rows are about to be "rws".
failBrowserDocumentIntake(s, rws) ==
  /\ intake[s] \in {"RESERVED", "RECEIVING"} /\ ~released[s]
  /\ intake' = [intake EXCEPT ![s] = "FAILED"]
  /\ released' = [released EXCEPT ![s] = Clean(rws, s)]

\* claimUpload finds the reservation expired.
claimUploadExpires(s) ==
  LET rws == ClosedAttempt(attempt, session[s].claim, "ABANDONED")
  IN  /\ session[s].status \in Active /\ session[s].left = 0
      /\ attempt' = rws
      /\ failBrowserDocumentIntake(s, rws)
      /\ session' = Closed(s, "EXPIRED")
      /\ asset' = [asset EXCEPT ![s].status = "REJECTED"]
      /\ UNCHANGED <<batch, writer, cleaner, files>>

\* claimUpload gives the session to a new attempt, and with it to the request
\* that asked; a receive lease that ran out is taken over.
claimUpload(s, a) ==
  /\ session[s].status \in Active /\ session[s].left > 0
  /\ session[s].status = "ISSUED" \/ session[s].lease = 0
  /\ a = FreshAttempt
  /\ intake[s] \in {"RESERVED", "RECEIVING"} /\ ~released[s]
  /\ intake' = [intake EXCEPT ![s] = "RECEIVING"]
  /\ attempt' = [ClosedAttempt(attempt, session[s].claim, "ABANDONED")
                   EXCEPT ![a].of = s, ![a].status = "RECEIVING"]
  /\ session' = [session EXCEPT ![s].status = "RECEIVING", ![s].claim = a, ![s].lease = LeaseTtl]
  /\ writer' = [writer EXCEPT ![a] = "opening"]
  /\ UNCHANGED <<released, asset, batch, cleaner, files>>
-----------------------------------------------------------------------------
(* The request that holds, or held, the claim.                             *)

At(a, phase) == writer[a] = phase
Goes(a, phase) == writer' = [writer EXCEPT ![a] = phase]
LosesAnswer == "answer" \in Faults

\* Wrong on purpose: one final name for all attempts of an asset.
RemovedAll(a) == objects \ AttemptsOf(attempt, attempt[a].of)

\* removeLocalQuarantineObject takes the file of this attempt only.
Removed(a) == objects \ {a}

\* A removal whose failure the caller swallows.
RemovalTried(a) ==
  \/ objects' = Removed(a)
  \/ "storage" \in Faults /\ objects' = objects

OpenPart(a) ==
  /\ At(a, "opening") /\ Goes(a, "streaming")
  /\ parts' = parts \cup {a}
  /\ UNCHANGED <<rows, cleaner, objects>>

\* link(partPath, finalPath) fails when the part was swept meanwhile.
LinkFinal(a) ==
  /\ At(a, "streaming") /\ Goes(a, "linked")
  /\ a \in parts
  /\ objects' = objects \cup {a}
  /\ UNCHANGED <<rows, cleaner, parts>>

\* chmod and unlink(partPath).
UnlinkPart(a) ==
  /\ At(a, "linked") /\ Goes(a, "stored")
  /\ a \in parts
  /\ parts' = parts \ {a}
  /\ UNCHANGED <<rows, cleaner, objects>>

\* The body is cut off, late, or not the PDF announced, or a file operation
\* throws: the part and the final name are removed if they can be.
StreamFails(a) ==
  /\ writer[a] \in {"opening", "streaming", "linked"} /\ Goes(a, "rejecting")
  /\ \/ parts' = parts \ {a}
     \/ "storage" \in Faults /\ parts' = parts
  /\ IF At(a, "linked") THEN RemovalTried(a) ELSE objects' = objects
  /\ UNCHANGED <<rows, cleaner>>

DigestMismatch(a) ==
  /\ At(a, "stored") /\ Goes(a, "rejecting")
  /\ RemovalTried(a)
  /\ UNCHANGED <<rows, cleaner, parts>>

markUploadAttemptWritten(a) ==
  /\ At(a, "stored")
  /\ ClaimLive(a) /\ attempt[a].status = "RECEIVING"
  /\ attempt' = [attempt EXCEPT ![a].status = "WRITTEN"]
  /\ Goes(a, "written") \/ (LosesAnswer /\ Goes(a, "rechecking"))
  /\ UNCHANGED <<session, intake, released, asset, batch, cleaner, files>>

\* finalizeUpload commits: the object is the original, the attempt is COMMITTED
\* and the validation job is queued (DocumentPipeline's Admit).
finalizeUpload(a) ==
  LET s == attempt[a].of
  IN  /\ At(a, "written")
      /\ ClaimLive(a) /\ attempt[a].status \in Receiving
      /\ intake[s] = "RECEIVING" /\ ~released[s]
      /\ session' = Closed(s, "STORED")
      /\ intake' = [intake EXCEPT ![s] = "QUARANTINED"]
      /\ asset' = [asset EXCEPT ![s] = [status |-> "QUARANTINED", key |-> a]]
      /\ batch' = [batch EXCEPT ![s] = "RUNNING"]
      /\ attempt' = [attempt EXCEPT ![a].status = "COMMITTED"]
      /\ Goes(a, "gone") \/ (LosesAnswer /\ Goes(a, "rechecking"))
      /\ UNCHANGED <<released, cleaner, files>>

\* Either of the two throws and has changed nothing.
CommitRefused(a) ==
  /\ writer[a] \in {"stored", "written"} /\ Goes(a, "rechecking")
  /\ ~ClaimLive(a) \/ LosesAnswer
  /\ UNCHANGED <<rows, cleaner, files>>

\* After an exception the request looks whether its bytes were stored after
\* all.  It recognises them only until a validation worker has claimed them.
RecognisedAsStored(a) ==
  LET s == attempt[a].of
  IN  session[s].status = "STORED" /\ intake[s] = "QUARANTINED" /\ ~released[s]
        /\ asset[s].key = a
Recheck(a) ==
  /\ At(a, "rechecking")
  /\ \/ RecognisedAsStored(a) /\ Goes(a, "gone")
     \/ ~RecognisedAsStored(a) /\ Goes(a, "undoing")
     \/ LosesAnswer /\ Goes(a, "undoing")
  /\ UNCHANGED <<rows, cleaner, files>>

UndoStore(a) ==
  /\ At(a, "undoing") /\ Goes(a, "rejecting")
  /\ RemovalTried(a)
  /\ UNCHANGED <<rows, cleaner, parts>>

\* Wrong on purpose: the reject does not ask whose claim it is.
RejectsOpen(s, a) == session[s].status \in Active
RejectsOwn(s, a) == session[s].status = "RECEIVING" /\ session[s].claim = a

rejectClaim(a) ==
  LET s == attempt[a].of
      rws == ClosedAttempt(attempt, a, "FAILED")
  IN  /\ At(a, "rejecting") /\ Goes(a, "gone")
      /\ IF RejectsOwn(s, a)
           THEN /\ attempt' = rws
                /\ failBrowserDocumentIntake(s, rws)
                /\ session' = Closed(s, "REJECTED")
                /\ asset' = [asset EXCEPT ![s].status = "REJECTED"]
                /\ batch' = [batch EXCEPT ![s] = "FAILED"]
           ELSE UNCHANGED <<attempt, intake, released, session, asset, batch>>
      /\ UNCHANGED <<cleaner, files>>

\* Its exception is swallowed; or the process dies anywhere on the way.
WriterVanishes(a) ==
  /\ writer[a] \notin {"none", "gone"} /\ Goes(a, "gone")
  /\ "crash" \in Faults \/ (LosesAnswer /\ At(a, "rejecting"))
  /\ UNCHANGED <<rows, cleaner, files>>
-----------------------------------------------------------------------------
(* reconcileActiveSessions, for one session.                               *)

ExpireSession(s) ==
  LET rws == ClosedAttempt(attempt, session[s].claim, "ABANDONED")
  IN  /\ session[s].status \in Active /\ session[s].left = 0
      /\ intake[s] \in {"RESERVED", "RECEIVING"}
      /\ attempt' = rws
      /\ intake' = [intake EXCEPT ![s] = "FAILED"]
      /\ session' = Closed(s, "EXPIRED")
      /\ released' = [released EXCEPT ![s] = @ \/ Clean(rws, s)]
      /\ asset' = [asset EXCEPT ![s].status = "REJECTED"]
      /\ batch' = [batch EXCEPT ![s] = "FAILED"]
      /\ UNCHANGED <<writer, cleaner, files>>

\* Wrong on purpose: the attempt that held the lease is forgotten.
ReleasedForgotten(s) == attempt
ReleasedAttempt(s) == ClosedAttempt(attempt, session[s].claim, "ABANDONED")

ReleaseReceiveLease(s) ==
  /\ session[s].status = "RECEIVING" /\ session[s].left > 0 /\ session[s].lease = 0
  /\ intake[s] = "RECEIVING" /\ ~released[s]
  /\ attempt' = ReleasedAttempt(s)
  /\ session' = [session EXCEPT ![s].status = "ISSUED", ![s].claim = None]
  /\ UNCHANGED <<intake, released, asset, batch, writer, cleaner, files>>
-----------------------------------------------------------------------------
(* reconcileAttemptCleanup, for one attempt.                               *)

Turns(r, phase, a) == cleaner' = [cleaner EXCEPT ![r] = [phase |-> phase, attempt |-> a]]
Adopted(a) ==
  session[attempt[a].of].status = "STORED" /\ asset[attempt[a].of].key = a


claimCleanupAttempts(r, a) ==
  /\ cleaner[r].phase = "idle"
  /\ attempt[a].status \in Terminal /\ attempt[a].cleanup = "pending" /\ attempt[a].wait = 0
  /\ attempt' = [attempt EXCEPT ![a].wait = CleanupLease]
  /\ Turns(r, IF Adopted(a) THEN "adopted" ELSE "removing", a)
  /\ UNCHANGED <<session, intake, released, asset, batch, writer, files>>

\* removeLocalQuarantineAttemptObjects: the final file, then the parts.
RemoveFinal(r) ==
  /\ cleaner[r].phase = "removing"
  /\ objects' = Removed(cleaner[r].attempt)
  /\ Turns(r, "sweeping", cleaner[r].attempt)
  /\ UNCHANGED <<rows, writer, parts>>

SweepParts(r) ==
  /\ cleaner[r].phase = "sweeping"
  /\ parts' = parts \ {cleaner[r].attempt}
  /\ Turns(r, "removed", cleaner[r].attempt)
  /\ UNCHANGED <<rows, writer, objects>>

\* finishCleanupClaim, with releaseFailedIntakeQuotaWhenClean.
finishCleanupClaim(r) ==
  LET a == cleaner[r].attempt
      s == attempt[a].of
      result == IF cleaner[r].phase = "adopted" THEN "adopted" ELSE "done"
      rws == IF attempt[a].cleanup = "pending"
               THEN [attempt EXCEPT ![a].cleanup = result, ![a].wait = 0] ELSE attempt
  IN  /\ cleaner[r].phase \in {"adopted", "removed"}
      /\ attempt' = rws
      /\ released' = [released EXCEPT ![s] =
           @ \/ (attempt[a].cleanup = "pending" /\ intake[s] = "FAILED" /\ Clean(rws, s))]
      /\ Turns(r, "idle", None)
      /\ UNCHANGED <<session, intake, asset, batch, writer, files>>

\* A file could not be removed: try again later.
DeferCleanup(r) ==
  LET a == cleaner[r].attempt
  IN  /\ "storage" \in Faults
      /\ cleaner[r].phase \in {"removing", "sweeping"}
      /\ attempt' = IF attempt[a].cleanup = "pending"
                      THEN [attempt EXCEPT ![a].wait = CleanupLease] ELSE attempt
      /\ Turns(r, "idle", None)
      /\ UNCHANGED <<session, intake, released, asset, batch, writer, files>>

ReconcilerCrash(r) ==
  /\ "crash" \in Faults \/ LosesAnswer
  /\ cleaner[r].phase # "idle"
  /\ Turns(r, "idle", None)
  /\ UNCHANGED <<rows, writer, files>>
-----------------------------------------------------------------------------
\* DocumentPipeline takes a stored upload over and moves its intake on.
ValidationMoves(s) ==
  /\ \/ intake[s] = "QUARANTINED" /\ intake' = [intake EXCEPT ![s] = "VALIDATING"]
     \/ intake[s] = "VALIDATING" /\ intake' = [intake EXCEPT ![s] = "FAILED"]
  /\ UNCHANGED <<session, released, asset, batch, attempt, writer, cleaner, files>>

\* A request that would still be at its file after the next tick.
AtFile(a) ==
  /\ writer[a] \in {"opening", "streaming", "linked"}
  /\ LET s == attempt[a].of IN session[s].claim = a /\ 1 \in {session[s].left, session[s].lease}

Less(n) == IF n > 0 THEN n - 1 ELSE 0
Tick ==
  /\ "stall" \in Faults \/ \A a \in Attempts : ~AtFile(a)
  /\ session' = [s \in Sessions |->
       [session[s] EXCEPT !.left = Less(@), !.lease = Less(@)]]
  /\ attempt' = [a \in Attempts |-> [attempt[a] EXCEPT !.wait = Less(@)]]
  /\ UNCHANGED <<intake, released, asset, batch, writer, cleaner, files>>

WriterStep(a) ==
  \/ OpenPart(a) \/ LinkFinal(a) \/ UnlinkPart(a) \/ StreamFails(a) \/ DigestMismatch(a)
  \/ markUploadAttemptWritten(a) \/ finalizeUpload(a) \/ CommitRefused(a)
  \/ Recheck(a) \/ UndoStore(a) \/ rejectClaim(a)

CleanupStep(r) == RemoveFinal(r) \/ SweepParts(r) \/ finishCleanupClaim(r)

Next ==
  \/ \E s \in Sessions :
       \/ createWorkspaceUploadSession(s) \/ claimUploadExpires(s)
       \/ ExpireSession(s) \/ ReleaseReceiveLease(s) \/ ValidationMoves(s)
       \/ \E a \in Attempts : claimUpload(s, a)
  \/ \E a \in Attempts : WriterStep(a) \/ WriterVanishes(a)
  \/ \E r \in Reconcilers :
       \/ CleanupStep(r) \/ DeferCleanup(r) \/ ReconcilerCrash(r)
       \/ \E a \in Attempts : claimCleanupAttempts(r, a)
  \/ Tick

Spec == Init /\ [][Next]_vars
=============================================================================
