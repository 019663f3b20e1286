---------------------------- MODULE ZoteroOAuth -----------------------------
(***************************************************************************)
(* The life of the Zotero keys of one workspace and one Zotero account     *)
(* (src/server/integrations/zotero/oauth-service.ts): a user starts an     *)
(* authorization, Zotero calls back, the temporary credential is exchanged *)
(* for a key, the key is installed in the connection; a key that is        *)
(* superseded or disconnected goes into the connection's outbox of pending *)
(* revocations and is deleted at Zotero.                                   *)
(*                                                                         *)
(* Each transaction is one action; between them are the calls to Zotero,   *)
(* other requests, lost answers and the death of the process.  Zotero may  *)
(* hand out a key it has already handed out, as long as it lives: the code *)
(* expects it.  Time is not counted: what may expire expires at any time.  *)
(***************************************************************************)
EXTENDS Integers, FiniteSets

CONSTANTS
  Requests,    \* requests the servers work on at the same time
  Authorizations, \* ZoteroOAuthAttempt rows
  Keys,        \* keys Zotero may issue
  MaxPending,  \* MAX_PENDING_REVOCATIONS_PER_CONNECTION
  Faults,      \* how often a process dies or an answer is lost
  Disconnects, \* how often a user disconnects
  None

ASSUME OAuthBounds ==
  /\ MaxPending \in Nat \ {0} /\ {Faults, Disconnects} \subseteq Nat
  /\ None \notin Keys

VARIABLES
  attempt,     \* ZoteroOAuthAttempt.status
  connection,  \* IntegrationConnection: key, lastErrorCode, unresolved handles
  outbox,      \* its pendingRevocations: for each key its status and lease
  zotero,      \* each key at Zotero: unissued, live or deleted
  audited,     \* keys named by a credential_persistence_uncertain event
  lost,        \* keys whose process died with them in its memory
  hand,        \* what each request is doing
  left         \* what is left of the bounds

vars == <<attempt, connection, outbox, zotero, audited, lost, hand, left>>
rows == <<attempt, connection, outbox, audited>>

RevocationCodes == {"pending", "unconfirmed"}
NoEntry == [status |-> "none", lease |-> None, stale |-> FALSE]
Pending == [status |-> "pending", lease |-> None, stale |-> FALSE]
Entries(box) == {k \in Keys : box[k].status # "none"}

Hand(phase, a, k) == [phase |-> phase, a |-> a, key |-> k, doubt |-> FALSE]
Idle == Hand("idle", None, None)
At(p, phase) == hand[p].phase = phase
Goes(p, phase) == hand' = [hand EXCEPT ![p].phase = phase]
Rests(p) == hand' = [hand EXCEPT ![p] = Idle]
Faulty(cost) == left' = [left EXCEPT !.faults = @ - cost] /\ left.faults >= cost
Elsewhere == UNCHANGED <<zotero, lost>>

Init ==
  /\ attempt = [a \in Authorizations |-> "NONE"]
  /\ connection = [key |-> None, code |-> "none", unresolved |-> FALSE, unreadable |-> {}]
  /\ outbox = [k \in Keys |-> NoEntry]
  /\ zotero = [k \in Keys |-> "unissued"]
  /\ audited = {} /\ lost = {}
  /\ hand = [p \in Requests |-> Idle]
  /\ left = [faults |-> Faults, disconnects |-> Disconnects]
-----------------------------------------------------------------------------
(* Authorizations.                                                         *)

\* ZoteroOAuthLifecycleService.start, its transaction.
start(a) ==
  /\ attempt[a] = "NONE"
  /\ attempt' = [attempt EXCEPT ![a] = "PENDING"]
  /\ UNCHANGED <<connection, outbox, audited, hand, left>> /\ Elsewhere

\* cleanupZoteroOAuthAttempts: of another request's start.
cleanupZoteroOAuthAttempts(a) ==
  /\ attempt[a] \in {"PENDING", "CLAIMED"}
  /\ attempt' = [attempt EXCEPT ![a] = "EXPIRED"]
  /\ UNCHANGED <<connection, outbox, audited, hand, left>> /\ Elsewhere

\* Terminal attempts are deleted, and all of a member who is removed.
AttemptIsDeleted(a) ==
  /\ attempt[a] \notin {"NONE", "GONE"}
  /\ attempt' = [attempt EXCEPT ![a] = "GONE"]
  /\ Faulty(1)
  /\ UNCHANGED <<connection, outbox, audited, hand>> /\ Elsewhere

\* finishPendingAttempt: the callback came too late or with another token.
finishPendingAttempt(a) ==
  /\ attempt[a] = "PENDING"
  /\ attempt' = [attempt EXCEPT ![a] = "FAILED"]
  /\ UNCHANGED <<connection, outbox, audited, hand, left>> /\ Elsewhere
-----------------------------------------------------------------------------
(* complete: the callback.                                                 *)

ReadAttempt(p, a) ==
  /\ At(p, "idle") /\ attempt[a] = "PENDING"
  /\ hand' = [hand EXCEPT ![p] = Hand("read", a, None)]
  /\ UNCHANGED <<rows, left>> /\ Elsewhere

\* Wrong on purpose: the claim relies on the status that was read before.
ClaimableAsRead(a) == attempt[a] \in {"PENDING", "CLAIMED"}

ClaimableStill(a) == attempt[a] = "PENDING"

ClaimAttempt(p) ==
  LET a == hand[p].a
  IN  /\ At(p, "read")
      /\ IF ClaimableStill(a)
           THEN attempt' = [attempt EXCEPT ![a] = "CLAIMED"] /\ Goes(p, "claimed")
           ELSE Rests(p) /\ UNCHANGED attempt
      /\ UNCHANGED <<connection, outbox, audited, left>> /\ Elsewhere

ExchangeAccessToken(p, k) ==
  /\ At(p, "claimed") /\ zotero[k] # "deleted"
  /\ zotero' = [zotero EXCEPT ![k] = "live"]
  /\ hand' = [hand EXCEPT ![p] = Hand("exchanged", hand[p].a, k)]
  /\ UNCHANGED <<rows, lost, left>>

FailedAttempt(a) ==
  IF attempt[a] \in {"PENDING", "CLAIMED"} THEN [attempt EXCEPT ![a] = "FAILED"] ELSE attempt

ExchangeFails(p) ==
  /\ At(p, "claimed") /\ Rests(p)
  /\ attempt' = FailedAttempt(hand[p].a)
  /\ UNCHANGED <<connection, outbox, audited, left>> /\ Elsewhere

\* hasUnrecoverableRevocationHandle.
Unrecoverable(conn) == conn.unresolved \/ conn.unreadable # {}

\* Wrong on purpose: whether the key is just being deleted is not asked.
MayInstallAnyway(k) == TRUE

\* "Installing a token after the claim is forbidden."
MayInstall(k) == outbox[k].status # "processing"

Superseded(k) == IF connection.key \in {None, k} THEN {} ELSE {connection.key}

\* Wrong on purpose: the previous key is just overwritten.
OutboxOverwritten(k) == [outbox EXCEPT ![k] = NoEntry]

\* A revocation of this very key is cancelled, one of the previous added.
OutboxAfter(k) ==
  [j \in Keys |-> IF j = k THEN NoEntry ELSE IF j \in Superseded(k) THEN Pending ELSE outbox[j]]

CanPersist(p) ==
  LET k == hand[p].key
  IN  /\ attempt[hand[p].a] = "CLAIMED"
      /\ MayInstall(k)
      /\ Superseded(k) # {} => Cardinality(Entries(outbox) \ {k}) < MaxPending

Install(p) ==
  LET k == hand[p].key
      inherited == connection.code \in RevocationCodes
      unresolved == connection.unresolved
                    \/ (inherited /\ Entries(outbox) = {} /\ ~Unrecoverable(connection))
      conn == [connection EXCEPT !.key = k, !.unresolved = unresolved]
      cancelled == k \in Entries(outbox) /\ Entries(OutboxAfter(k)) = {} /\ ~Unrecoverable(conn)
  IN  /\ connection' = [conn EXCEPT !.code =
           IF inherited /\ ~cancelled THEN @ ELSE IF Superseded(k) # {} THEN "pending" ELSE "none"]
      /\ outbox' = OutboxAfter(k)
      /\ attempt' = [attempt EXCEPT ![hand[p].a] = "SUCCEEDED"]
      /\ UNCHANGED audited

\* persistConnection, and after it the revocation of the superseded key.
persistConnection(p) ==
  /\ At(p, "exchanged") /\ CanPersist(p) /\ Install(p)
  /\ hand' = [hand EXCEPT ![p] =
       IF Superseded(@.key) = {} THEN Idle ELSE Hand("due", None, connection.key)]
  /\ UNCHANGED left /\ Elsewhere

\* It throws, or the identity was refused before; "doubt" when the answer to
\* its COMMIT is lost.
PersistFails(p, doubt) ==
  /\ At(p, "exchanged")
  /\ hand' = [hand EXCEPT ![p].phase = "reconciling", ![p].doubt = doubt]
  /\ IF doubt THEN Faulty(1) ELSE UNCHANGED left
  /\ UNCHANGED rows /\ Elsewhere

\* The COMMIT in doubt takes effect after all.
CommitLands(p) ==
  /\ hand[p].doubt /\ CanPersist(p) /\ Install(p)
  /\ hand' = [hand EXCEPT ![p].doubt = FALSE]
  /\ UNCHANGED left /\ Elsewhere

\* reconcilePersistenceOutcome, then failAttemptBestEffort.
reconcilePersistenceOutcome(p) ==
  LET k == hand[p].key
  IN  /\ At(p, "reconciling")
      /\ IF attempt[hand[p].a] = "SUCCEEDED" /\ (connection.key = k \/ k \in Entries(outbox))
           THEN Rests(p) /\ UNCHANGED attempt
           ELSE Goes(p, "uncertain") /\ attempt' = FailedAttempt(hand[p].a)
      /\ UNCHANGED <<connection, outbox, audited, left>> /\ Elsewhere

Uncertain(p) == audited \cup {hand[p].key}

recordCredentialPersistenceUncertain(p) ==
  /\ At(p, "uncertain") /\ Rests(p)
  /\ audited' = Uncertain(p)
  /\ UNCHANGED <<attempt, connection, outbox, left>> /\ Elsewhere
-----------------------------------------------------------------------------
(* disconnectZoteroConnection.                                             *)

disconnectZoteroConnection(p) ==
  LET k == connection.key
      full == Cardinality(Entries(outbox)) >= MaxPending
      inherited == connection.code \in RevocationCodes
      unresolved == connection.unresolved
                    \/ (inherited /\ Entries(outbox) = {} /\ ~Unrecoverable(connection))
  IN  /\ At(p, "idle") /\ left.disconnects > 0
      /\ left' = [left EXCEPT !.disconnects = @ - 1]
      /\ connection' =
           [key |-> None, unresolved |-> unresolved,
            unreadable |-> connection.unreadable \cup (IF k # None /\ full THEN {k} ELSE {}),
            code |-> IF k # None /\ full THEN "unconfirmed"
                     ELSE IF inherited THEN connection.code
                     ELSE IF k # None THEN "pending" ELSE "none"]
      /\ outbox' = IF k # None /\ ~full THEN [outbox EXCEPT ![k] = Pending] ELSE outbox
      /\ hand' = IF k # None /\ ~full THEN [hand EXCEPT ![p] = Hand("due", None, k)] ELSE hand
      /\ UNCHANGED <<attempt, audited>> /\ Elsewhere
-----------------------------------------------------------------------------
(* The outbox.                                                             *)

\* retryPendingZoteroRevocations, of a request that starts an authorization:
\* it looks only at connections whose error code is one of its own.
retryPendingZoteroRevocations(p, k) ==
  /\ At(p, "idle") /\ connection.code \in RevocationCodes /\ k \in Entries(outbox)
  /\ hand' = [hand EXCEPT ![p] = Hand("due", None, k)]
  /\ UNCHANGED <<rows, left>> /\ Elsewhere

\* processPendingRevocation: the claim, unless the entry is gone or busy.
ClaimRevocation(p) ==
  LET k == hand[p].key
      entry == outbox[k]
  IN  /\ At(p, "due")
      /\ IF entry.status = "pending" \/ (entry.status = "processing" /\ entry.stale)
           THEN /\ outbox' = [outbox EXCEPT ![k] = [status |-> "processing", lease |-> p, stale |-> FALSE]]
                /\ Goes(p, "deleting")
           ELSE Rests(p) /\ UNCHANGED outbox
      /\ UNCHANGED <<attempt, connection, audited, left>> /\ Elsewhere

\* PENDING_REVOCATION_RETRY_GRACE_MS is longer than a DELETE may take.
ClaimGrowsStale(k) ==
  /\ outbox[k].status = "processing" /\ ~outbox[k].stale
  /\ \A p \in Requests : ~(At(p, "deleting") /\ hand[p].key = k)
  /\ outbox' = [outbox EXCEPT ![k].stale = TRUE]
  /\ UNCHANGED <<attempt, connection, audited, hand, left>> /\ Elsewhere

\* Zotero deletes the key, or does not know it any more.
RevokeAccessToken(p, answered) ==
  /\ At(p, "deleting")
  /\ zotero' = [zotero EXCEPT ![hand[p].key] = "deleted"]
  /\ Goes(p, IF answered THEN "deleted" ELSE "undeleted")
  /\ IF answered THEN UNCHANGED left ELSE Faulty(1)
  /\ UNCHANGED <<rows, lost>>

\* The DELETE does not reach Zotero, or Zotero refuses it.
RevocationFails(p) ==
  /\ At(p, "deleting") /\ Goes(p, "undeleted")
  /\ Faulty(1)
  /\ UNCHANGED rows /\ Elsewhere

Leases(p) == outbox[hand[p].key].status = "processing" /\ outbox[hand[p].key].lease = p

\* confirmPendingRevocation; when it fails, or has lost its lease, no row is
\* written.
confirmPendingRevocation(p) ==
  LET remaining == [outbox EXCEPT ![hand[p].key] = NoEntry]
      clear == /\ Entries(remaining) = {} /\ ~Unrecoverable(connection)
               /\ connection.code \in RevocationCodes
  IN  /\ At(p, "deleted") /\ Rests(p)
      /\ IF Leases(p)
           THEN /\ outbox' = remaining
                /\ connection' = IF clear THEN [connection EXCEPT !.code = "none"] ELSE connection
           ELSE UNCHANGED <<outbox, connection>>
      /\ UNCHANGED <<attempt, audited, left>> /\ Elsewhere

ReturnRevocation(p) ==
  /\ At(p, "undeleted") /\ Rests(p)
  /\ IF Leases(p)
       THEN /\ outbox' = [outbox EXCEPT ![hand[p].key] = Pending]
            /\ connection' = [connection EXCEPT !.code = "unconfirmed"]
       ELSE UNCHANGED <<outbox, connection>>
  /\ UNCHANGED <<attempt, audited, left>> /\ Elsewhere
-----------------------------------------------------------------------------
(* Other writers of the connection's error code, and the death of a process. *)

\* A refresh of the libraries or a sync meets an error: recordProviderFailure
\* and failZoteroSyncLease.
ProviderNeedsAttention ==
  /\ connection.key # None /\ connection.code # "other"
  /\ connection' = [connection EXCEPT !.code = "other"]
  /\ Faulty(1)
  /\ UNCHANGED <<attempt, outbox, audited, hand>> /\ Elsewhere

\* discoverZoteroLibraries succeeds: it keeps only the outbox's codes.
LibrariesDiscovered ==
  /\ connection.key # None /\ connection.code = "other"
  /\ connection' = [connection EXCEPT !.code = "none"]
  /\ UNCHANGED <<attempt, outbox, audited, hand, left>> /\ Elsewhere

Crash(p) ==
  /\ hand[p].phase # "idle" /\ Rests(p)
  /\ lost' = IF hand[p].phase \in {"exchanged", "reconciling", "uncertain"}
               THEN lost \cup {hand[p].key} ELSE lost
  /\ Faulty(1)
  /\ UNCHANGED <<rows, zotero>>

Next ==
  \/ \E a \in Authorizations :
       start(a) \/ cleanupZoteroOAuthAttempts(a) \/ AttemptIsDeleted(a) \/ finishPendingAttempt(a)
  \/ \E p \in Requests :
       \/ \E a \in Authorizations : ReadAttempt(p, a)
       \/ ClaimAttempt(p) \/ (\E k \in Keys : ExchangeAccessToken(p, k)) \/ ExchangeFails(p)
       \/ persistConnection(p) \/ (\E doubt \in BOOLEAN : PersistFails(p, doubt)) \/ CommitLands(p)
       \/ reconcilePersistenceOutcome(p) \/ recordCredentialPersistenceUncertain(p)
       \/ disconnectZoteroConnection(p)
       \/ (\E k \in Keys : retryPendingZoteroRevocations(p, k)) \/ ClaimRevocation(p)
       \/ (\E answered \in BOOLEAN : RevokeAccessToken(p, answered))
       \/ RevocationFails(p)
       \/ confirmPendingRevocation(p) \/ ReturnRevocation(p) \/ Crash(p)
  \/ \E k \in Keys : ClaimGrowsStale(k)
  \/ ProviderNeedsAttention \/ LibrariesDiscovered

Spec == Init /\ [][Next]_vars
=============================================================================
