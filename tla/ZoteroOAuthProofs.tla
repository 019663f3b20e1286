------------------------- MODULE ZoteroOAuthProofs --------------------------
(***************************************************************************)
(* Proofs about the Zotero keys of a connection: one callback exchanges a  *)
(* credential, a key on its way out is not installed, no key is forgotten, *)
(* and the outbox never outgrows its limit.                                *)
(***************************************************************************)
EXTENDS ZoteroOAuthProperties, FiniteSetTheorems, TLAPS

-----------------------------------------------------------------------------
(* The inductive invariant.                                                *)

\* From its claim on, a request holds the temporary credential.
Holding == {"claimed", "exchanged", "reconciling", "uncertain"}
\* From its exchange on it holds a key.
Bringing == {"exchanged", "reconciling", "uncertain"}
Removing == {"due", "deleting", "deleted", "undeleted"}

HandRow == [phase : {"idle", "read"} \cup Holding \cup Removing,
            a : Authorizations \cup {None}, key : Keys \cup {None}, doubt : BOOLEAN]

Typed == Shapes /\ hand \in [Requests -> HandRow]

\* An authorization that a request has read exists, and one that it has claimed
\* is not pending any more; whoever brings or removes a key has one; only a
\* request that reconciles has a COMMIT in doubt; whoever has a DELETE on its way
\* holds the lease on the key's entry; a deletion that was answered has happened.
HandIsSound(p) ==
  /\ hand[p].phase \in Holding \cup {"read"} =>
       /\ hand[p].a \in Authorizations /\ attempt[hand[p].a] # "NONE"
       /\ hand[p].phase # "read" => attempt[hand[p].a] # "PENDING"
  /\ hand[p].phase \in Bringing \cup Removing => hand[p].key \in Keys
  /\ hand[p].doubt => hand[p].phase \in {"reconciling", "uncertain"}
  /\ hand[p].phase = "deleting" =>
       outbox[hand[p].key] = [status |-> "processing", lease |-> p, stale |-> FALSE]
  /\ hand[p].phase = "deleted" => zotero[hand[p].key] = "deleted"

HandsAreSound == \A p \in Requests : HandIsSound(p)

\* The installed key awaits no revocation.
InstalledIsNotPending == connection.key # None => outbox[connection.key].status = "none"

\* The outbox never holds more than MAX_PENDING_REVOCATIONS_PER_CONNECTION
\* keys, whoever adds to it and however often a COMMIT lands late.
OutboxIsBounded ==
  IsFiniteSet(Entries(outbox)) /\ Cardinality(Entries(outbox)) <= MaxPending

OInv == /\ Typed /\ HandsAreSound /\ OneCallbackWins
        /\ InstalledIsNotPending /\ KeysAreAccountedFor /\ OutboxIsBounded
-----------------------------------------------------------------------------
(* What steps have in common.                                              *)

\* The outbox may only lose entries.
LEMMA OutboxShrinks ==
  ASSUME OutboxIsBounded, Entries(outbox') \subseteq Entries(outbox)
  PROVE  OutboxIsBounded'
<1>1. IsFiniteSet(Entries(outbox')) /\ Cardinality(Entries(outbox')) <= Cardinality(Entries(outbox))
  BY FS_Subset DEF OutboxIsBounded
<1>2. Cardinality(Entries(outbox')) \in Nat /\ Cardinality(Entries(outbox)) \in Nat /\ MaxPending \in Nat
  BY <1>1, FS_CardinalityType, OAuthBounds DEF OutboxIsBounded, OAuthBounds
<1> QED BY <1>1, <1>2 DEF OutboxIsBounded

\* One entry is added to an outbox that has room for it.
LEMMA OutboxGrows ==
  ASSUME IsFiniteSet(Entries(outbox)), NEW K, K \subseteq Entries(outbox),
         Cardinality(K) < MaxPending, NEW j, Entries(outbox') \subseteq K \cup {j}
  PROVE  OutboxIsBounded'
<1>1. IsFiniteSet(K) /\ Cardinality(K) \in Nat
  BY FS_Subset, FS_CardinalityType
<1>2. IsFiniteSet(K \cup {j}) /\ Cardinality(K \cup {j}) <= Cardinality(K) + 1 /\ Cardinality(K \cup {j}) \in Nat
  <2>1. IsFiniteSet(K \cup {j}) /\ Cardinality(K \cup {j}) = IF j \in K THEN Cardinality(K) ELSE Cardinality(K) + 1
    BY <1>1, FS_AddElement
  <2> QED BY <1>1, <2>1
<1>3. IsFiniteSet(Entries(outbox')) /\ Cardinality(Entries(outbox')) <= Cardinality(K \cup {j})
  BY <1>2, FS_Subset
<1>4. Cardinality(Entries(outbox')) \in Nat
  BY <1>3, FS_CardinalityType
<1>5. Cardinality(Entries(outbox')) <= MaxPending
  BY <1>1, <1>2, <1>3, <1>4, OAuthBounds DEF OAuthBounds
<1> QED BY <1>3, <1>5 DEF OutboxIsBounded

\* Authorizations only move on.
AttemptsAdvance ==
  \A a \in Authorizations :
    /\ attempt[a] # "NONE" => attempt'[a] # "NONE"
    /\ attempt[a] \notin {"NONE", "PENDING"} => attempt'[a] \notin {"NONE", "PENDING"}

\* A step of p leaves the other requests, their leases and what is deleted alone.
OthersRest(p) ==
  /\ \A q \in Requests \ {p} : hand'[q] = hand[q]
  /\ \A k \in Keys :
       /\ outbox[k].status = "processing" /\ outbox[k].lease # p /\ ~outbox[k].stale
            => outbox'[k] = outbox[k]
       /\ zotero[k] = "deleted" => zotero'[k] = "deleted"

\* A credential comes into the hand of p only by claiming it.
CredentialIsClaimed(p) ==
  hand'[p].phase \in Holding =>
    \/ hand[p].phase \in Holding /\ hand'[p].a = hand[p].a
    \/ attempt[hand'[p].a] = "PENDING"

LEMMA HandsStaySound ==
  ASSUME OInv, NEW p \in Requests, AttemptsAdvance, OthersRest(p),
         HandIsSound(p)', CredentialIsClaimed(p)
  PROVE  HandsAreSound' /\ OneCallbackWins'
<1>1. ASSUME NEW q \in Requests \ {p}
      PROVE  HandIsSound(q)'
  <2>1. HandIsSound(q) /\ hand'[q] = hand[q]
    BY DEF OInv, HandsAreSound, OthersRest
  <2> QED BY <2>1 DEF HandIsSound, OthersRest, AttemptsAdvance, Bringing, Removing
<1>2. ASSUME NEW q \in Requests \ {p}, hand[q].phase \in Holding, hand'[p].phase \in Holding
      PROVE  hand[q].a # hand'[p].a
  <2>1. attempt[hand[q].a] # "PENDING"
    BY <1>2 DEF OInv, HandsAreSound, HandIsSound, Holding
  <2> QED BY <1>2, <2>1 DEF OInv, OneCallbackWins, CredentialIsClaimed, Holding
<1>3. OneCallbackWins'
  BY <1>2 DEF OInv, OneCallbackWins, OthersRest, Holding
<1> QED BY <1>1, <1>3 DEF HandsAreSound

\* Where a key is, if Zotero has issued it.
Accounted(k) ==
  \/ k = connection.key \/ k \in Entries(outbox) \cup connection.unreadable
  \/ k \in audited \cup lost \/ Carried(k)

\* A key that a request carries is still carried when another one moves.
LEMMA OthersCarry ==
  ASSUME NEW p \in Requests, OthersRest(p), NEW k, Carried(k),
         hand[p].phase \in Bringing => hand[p].key # k
  PROVE  Carried(k)'
  BY DEF Carried, Bringing, OthersRest

\* A step of p that writes neither the connection nor the outbox keeps the
\* invariant, if the key it carried is still accounted for.
LEMMA QuietSteps ==
  ASSUME OInv, Typed', NEW p \in Requests, AttemptsAdvance, OthersRest(p),
         HandIsSound(p)', CredentialIsClaimed(p),
         UNCHANGED <<connection, outbox>>, audited \subseteq audited', lost \subseteq lost',
         \A k \in Keys : zotero'[k] = "live" => zotero[k] = "live" \/ Carried(k)',
         \A k \in Keys : hand[p].phase \in Bringing /\ hand[p].key = k => Accounted(k)'
  PROVE  OInv'
<1>1. HandsAreSound' /\ OneCallbackWins'
  BY HandsStaySound
<1>2. InstalledIsNotPending' /\ OutboxIsBounded'
  BY OutboxShrinks DEF OInv, InstalledIsNotPending, Entries
<1>3. ASSUME NEW k \in Keys, zotero'[k] = "live"
      PROVE  Accounted(k)'
  <2>1. CASE Carried(k)'
    BY <2>1 DEF Accounted
  <2>2. CASE zotero[k] = "live"
    <3>1. Accounted(k)
      BY <2>2 DEF OInv, KeysAreAccountedFor, Accounted
    <3>2. CASE Carried(k)
      <4>1. CASE hand[p].phase \in Bringing /\ hand[p].key = k
        BY <4>1
      <4>2. CASE hand[p].phase \in Bringing => hand[p].key # k
        BY <3>2, <4>2, OthersCarry DEF Accounted
      <4> QED BY <4>1, <4>2
    <3>3. CASE ~Carried(k)
      BY <3>1, <3>3 DEF Accounted, Entries
    <3> QED BY <3>2, <3>3
  <2> QED BY <1>3, <2>1, <2>2
<1>4. KeysAreAccountedFor'
  BY <1>3 DEF KeysAreAccountedFor, Accounted, Typed
<1> QED BY <1>1, <1>2, <1>4 DEF OInv

\* The facts about a hand that the steps below need.
LEMMA HandFacts ==
  ASSUME OInv, NEW p \in Requests
  PROVE  /\ Typed /\ HandIsSound(p) /\ hand \in [Requests -> HandRow] /\ hand[p] \in HandRow
         /\ \A phase : Goes(p, phase) => \A q \in Requests \ {p} : hand'[q] = hand[q]
         /\ Rests(p) => /\ hand'[p] = Idle
                        /\ \A q \in Requests \ {p} : hand'[q] = hand[q]
  BY DEF OInv, HandsAreSound, Typed, Goes, Rests

\* A request that rests is sound.
LEMMA RestIsSound ==
  ASSUME NEW p \in Requests, hand'[p] = Idle
  PROVE  /\ HandIsSound(p)' /\ CredentialIsClaimed(p) /\ hand'[p] \in HandRow
  BY DEF HandIsSound, CredentialIsClaimed, Idle, Hand, Holding, Bringing, Removing, HandRow
-----------------------------------------------------------------------------
(* The steps that write neither the connection nor the outbox.             *)

LEMMA AuthorizationsKeep ==
  ASSUME OInv, NEW a \in Authorizations,
         start(a) \/ cleanupZoteroOAuthAttempts(a) \/ AttemptIsDeleted(a) \/ finishPendingAttempt(a)
  PROVE  OInv'
<1>1. /\ \/ attempt[a] = "NONE" /\ attempt' = [attempt EXCEPT ![a] = "PENDING"]
         \/ attempt[a] # "NONE" /\ \E status \in {"EXPIRED", "GONE", "FAILED"} : attempt' = [attempt EXCEPT ![a] = status]
      /\ UNCHANGED <<connection, outbox, audited, hand, zotero, lost>>
  BY DEF start, cleanupZoteroOAuthAttempts, AttemptIsDeleted, finishPendingAttempt, Elsewhere
<1>2. Typed' /\ AttemptsAdvance
  BY <1>1 DEF OInv, Typed, Shapes, AttemptsAdvance
<1>3. HandsAreSound'
  BY <1>1, <1>2 DEF OInv, HandsAreSound, HandIsSound, AttemptsAdvance
<1>4. OneCallbackWins' /\ InstalledIsNotPending'
  BY <1>1 DEF OInv, OneCallbackWins, InstalledIsNotPending
<1>5. KeysAreAccountedFor'
  BY <1>1, <1>2 DEF OInv, KeysAreAccountedFor, Entries, Carried, Typed
<1>6. OutboxIsBounded'
  BY <1>1, OutboxShrinks DEF OInv, Entries
<1> QED BY <1>2, <1>3, <1>4, <1>5, <1>6 DEF OInv

LEMMA ReadKeeps ==
  ASSUME OInv, NEW p \in Requests, NEW a \in Authorizations, ReadAttempt(p, a)
  PROVE  OInv'
<1>1. /\ attempt[a] = "PENDING" /\ hand[p].phase = "idle"
      /\ hand' = [hand EXCEPT ![p] = Hand("read", a, None)]
      /\ UNCHANGED <<attempt, connection, outbox, audited, zotero, lost>>
  BY DEF ReadAttempt, At, rows, Elsewhere
<1>2. /\ hand'[p] = Hand("read", a, None) /\ OthersRest(p) /\ AttemptsAdvance
  BY <1>1, HandFacts DEF OthersRest, AttemptsAdvance
<1>3. Typed'
  BY <1>1, HandFacts DEF Typed, Shapes, Hand, HandRow
<1>4. HandIsSound(p)' /\ CredentialIsClaimed(p)
  BY <1>1, <1>2 DEF HandIsSound, CredentialIsClaimed, Hand, Holding, Bringing, Removing
<1> QED BY <1>1, <1>2, <1>3, <1>4, QuietSteps DEF Bringing

LEMMA ClaimKeeps ==
  ASSUME OInv, NEW p \in Requests, ClaimAttempt(p)
  PROVE  OInv'
<1> DEFINE a == hand[p].a
<1>1. hand[p].phase = "read" /\ a \in Authorizations /\ hand[p].doubt = FALSE
  BY HandFacts DEF ClaimAttempt, At, HandIsSound, HandRow
<1>2. UNCHANGED <<connection, outbox, audited, zotero, lost>>
  BY DEF ClaimAttempt, Elsewhere
<1>3. CASE attempt[a] = "PENDING"
  <2>1. /\ attempt' = [attempt EXCEPT ![a] = "CLAIMED"]
        /\ hand' = [hand EXCEPT ![p].phase = "claimed"]
    BY <1>3 DEF ClaimAttempt, ClaimableStill, Goes
  <2>2. /\ hand'[p].phase = "claimed" /\ hand'[p].a = a /\ hand'[p].doubt = FALSE
        /\ OthersRest(p) /\ AttemptsAdvance /\ attempt'[a] = "CLAIMED"
    BY <1>1, <1>2, <1>3, <2>1, HandFacts DEF OthersRest, AttemptsAdvance, HandRow, Typed, Shapes
  <2>3. Typed'
    BY <1>1, <1>2, <2>1, HandFacts DEF Typed, Shapes, HandRow, Holding
  <2>4. HandIsSound(p)' /\ CredentialIsClaimed(p)
    BY <1>1, <1>3, <2>2 DEF HandIsSound, CredentialIsClaimed, Holding, Bringing, Removing
  <2> QED BY <1>1, <1>2, <2>2, <2>3, <2>4, QuietSteps DEF Bringing
<1>4. CASE attempt[a] # "PENDING"
  <2>1. attempt' = attempt /\ Rests(p)
    BY <1>4 DEF ClaimAttempt, ClaimableStill
  <2>2. OthersRest(p) /\ AttemptsAdvance
    BY <1>2, <2>1, HandFacts DEF OthersRest, AttemptsAdvance
  <2>3. Typed' /\ HandIsSound(p)' /\ CredentialIsClaimed(p)
    BY <1>2, <2>1, HandFacts, RestIsSound DEF Typed, Shapes, Rests
  <2> QED BY <1>1, <1>2, <2>2, <2>3, QuietSteps DEF Bringing
<1> QED BY <1>3, <1>4

LEMMA ExchangeKeeps ==
  ASSUME OInv, NEW p \in Requests, NEW k \in Keys, ExchangeAccessToken(p, k)
  PROVE  OInv'
<1> DEFINE row == Hand("exchanged", hand[p].a, k)
<1>1. /\ hand[p].phase = "claimed" /\ zotero[k] # "deleted"
      /\ zotero' = [zotero EXCEPT ![k] = "live"]
      /\ hand' = [hand EXCEPT ![p] = row]
      /\ UNCHANGED <<attempt, connection, outbox, audited, lost>>
  BY DEF ExchangeAccessToken, At, rows
<1>2. row \in HandRow /\ row.phase = "exchanged" /\ row.a = hand[p].a /\ row.key = k /\ row.doubt = FALSE
  BY HandFacts DEF Hand, HandRow, Holding
<1> HIDE DEF row
<1>3. hand'[p] = row /\ OthersRest(p) /\ AttemptsAdvance
  BY <1>1, HandFacts DEF OthersRest, AttemptsAdvance, Typed, Shapes
<1>4. Typed'
  BY <1>1, <1>2, HandFacts DEF Typed, Shapes
<1>5. HandIsSound(p)' /\ CredentialIsClaimed(p)
  BY <1>1, <1>2, <1>3, HandFacts DEF HandIsSound, CredentialIsClaimed, Holding, Bringing, Removing
<1>6. \A j \in Keys : zotero'[j] = "live" => zotero[j] = "live" \/ Carried(j)'
  BY <1>1, <1>2, <1>3, HandFacts DEF Carried, Typed, Shapes
<1> QED BY <1>1, <1>3, <1>4, <1>5, <1>6, QuietSteps DEF Bringing

\* What a failure does to an authorization.
LEMMA FailureAdvances ==
  ASSUME OInv, NEW a \in Authorizations, attempt' = FailedAttempt(a)
  PROVE  AttemptsAdvance
         /\ attempt' \in [Authorizations -> {"NONE", "PENDING", "CLAIMED", "SUCCEEDED", "FAILED", "EXPIRED", "GONE"}]
  BY DEF OInv, Typed, Shapes, AttemptsAdvance, FailedAttempt

LEMMA ExchangeFailsKeeps ==
  ASSUME OInv, NEW p \in Requests, ExchangeFails(p)
  PROVE  OInv'
<1>1. /\ hand[p].phase = "claimed" /\ Rests(p) /\ attempt' = FailedAttempt(hand[p].a)
      /\ UNCHANGED <<connection, outbox, audited, zotero, lost>>
  BY DEF ExchangeFails, At, Elsewhere
<1>2. hand[p].a \in Authorizations
  BY <1>1, HandFacts DEF HandIsSound, Holding
<1>3. OthersRest(p) /\ AttemptsAdvance
  BY <1>1, <1>2, HandFacts, FailureAdvances DEF OthersRest
<1>4. Typed' /\ HandIsSound(p)' /\ CredentialIsClaimed(p)
  BY <1>1, <1>2, HandFacts, RestIsSound, FailureAdvances DEF Typed, Shapes, Rests
<1> QED BY <1>1, <1>3, <1>4, QuietSteps DEF Bringing

LEMMA PersistFailsKeeps ==
  ASSUME OInv, NEW p \in Requests, NEW doubt \in BOOLEAN, PersistFails(p, doubt)
  PROVE  OInv'
<1>1. /\ hand[p].phase = "exchanged"
      /\ hand' = [hand EXCEPT ![p] = [hand[p] EXCEPT !.phase = "reconciling", !.doubt = doubt]]
      /\ UNCHANGED <<attempt, connection, outbox, audited, zotero, lost>>
  BY Zenon DEF PersistFails, At, rows, Elsewhere
<1>2. [hand[p] EXCEPT !.phase = "reconciling", !.doubt = doubt]
        = [phase |-> "reconciling", a |-> hand[p].a, key |-> hand[p].key, doubt |-> doubt]
  <2> DEFINE one == [hand[p] EXCEPT !.phase = "reconciling"]
  <2>1. one = [phase |-> "reconciling", a |-> hand[p].a, key |-> hand[p].key, doubt |-> hand[p].doubt]
    BY HandFacts DEF HandRow
  <2>2. [hand[p] EXCEPT !.phase = "reconciling", !.doubt = doubt] = [one EXCEPT !.doubt = doubt]
    BY Zenon
  <2> HIDE DEF one
  <2> QED BY <2>1, <2>2
<1>3. hand' = [hand EXCEPT ![p] = [phase |-> "reconciling", a |-> hand[p].a, key |-> hand[p].key, doubt |-> doubt]]
  BY <1>1, <1>2, Zenon
<1>4. hand[p].phase = "exchanged" /\ UNCHANGED <<attempt, connection, outbox, audited, zotero, lost>>
  BY DEF PersistFails, At, rows, Elsewhere
<1> HIDE <1>1, <1>2
<1>5. /\ hand'[p].phase = "reconciling" /\ hand'[p].a = hand[p].a /\ hand'[p].key = hand[p].key
      /\ OthersRest(p) /\ AttemptsAdvance
  BY <1>3, <1>4, HandFacts DEF OthersRest, AttemptsAdvance
<1>6. Typed'
  <2>1. [phase |-> "reconciling", a |-> hand[p].a, key |-> hand[p].key, doubt |-> doubt] \in HandRow
    BY HandFacts DEF HandRow, Holding
  <2> QED BY <1>3, <1>4, <2>1, HandFacts DEF Typed, Shapes
<1>7. HandIsSound(p)' /\ CredentialIsClaimed(p)
  BY <1>4, <1>5, HandFacts DEF HandIsSound, CredentialIsClaimed, Holding, Bringing, Removing
<1>8. \A k \in Keys : hand[p].key = k => Accounted(k)'
  BY <1>5 DEF Accounted, Carried
<1> QED BY <1>4, <1>5, <1>6, <1>7, <1>8, QuietSteps DEF Bringing

LEMMA ReconcileKeeps ==
  ASSUME OInv, NEW p \in Requests, reconcilePersistenceOutcome(p)
  PROVE  OInv'
<1> DEFINE k == hand[p].key
<1>1. /\ hand[p].phase = "reconciling" /\ UNCHANGED <<connection, outbox, audited, zotero, lost>>
  BY DEF reconcilePersistenceOutcome, At, Elsewhere
<1>2. hand[p].a \in Authorizations /\ attempt[hand[p].a] \notin {"NONE", "PENDING"} /\ k \in Keys
  BY <1>1, HandFacts DEF HandIsSound, Holding, Bringing
<1>3. CASE Rests(p) /\ attempt' = attempt /\ (connection.key = k \/ k \in Entries(outbox))
  <2>1. OthersRest(p) /\ AttemptsAdvance
    BY <1>1, <1>3, HandFacts DEF OthersRest, AttemptsAdvance
  <2>2. Typed' /\ HandIsSound(p)' /\ CredentialIsClaimed(p)
    BY <1>1, <1>3, HandFacts, RestIsSound DEF Typed, Shapes, Rests
  <2>3. \A j \in Keys : hand[p].key = j => Accounted(j)'
    BY <1>1, <1>3 DEF Accounted, Entries
  <2> QED BY <1>1, <2>1, <2>2, <2>3, QuietSteps
<1>4. CASE Goes(p, "uncertain") /\ attempt' = FailedAttempt(hand[p].a)
  <2>1. OthersRest(p) /\ AttemptsAdvance
    BY <1>1, <1>2, <1>4, HandFacts, FailureAdvances DEF OthersRest
  <2>2. /\ hand'[p].phase = "uncertain" /\ hand'[p].a = hand[p].a /\ hand'[p].key = k
        /\ hand' \in [Requests -> HandRow]
    BY <1>4, HandFacts DEF Goes, HandRow, Holding
  <2>3. Typed'
    BY <1>1, <1>2, <1>4, <2>2, HandFacts, FailureAdvances DEF Typed, Shapes
  <2>4. HandIsSound(p)' /\ CredentialIsClaimed(p)
    <3>1. attempt'[hand[p].a] \notin {"NONE", "PENDING"}
      BY <1>2, <2>1 DEF AttemptsAdvance
    <3> QED BY <1>1, <1>2, <2>2, <3>1 DEF HandIsSound, CredentialIsClaimed, Holding, Bringing, Removing
  <2>5. \A j \in Keys : hand[p].key = j => Accounted(j)'
    BY <2>2 DEF Accounted, Carried
  <2> QED BY <1>1, <2>1, <2>3, <2>4, <2>5, QuietSteps
<1> QED BY <1>3, <1>4 DEF reconcilePersistenceOutcome

LEMMA RestingKeeps ==
  ASSUME OInv, NEW p \in Requests, recordCredentialPersistenceUncertain(p) \/ Crash(p)
  PROVE  OInv'
<1>1. /\ Rests(p) /\ UNCHANGED <<attempt, connection, outbox, zotero>>
      /\ audited \subseteq audited' /\ lost \subseteq lost'
      /\ hand[p].phase \in Bringing => hand[p].key \in audited' \cup lost'
      /\ audited' \cup lost' \subseteq audited \cup lost \cup {hand[p].key}
  BY DEF recordCredentialPersistenceUncertain, Uncertain, Crash, At, Elsewhere, Bringing, rows
<1>2. OthersRest(p) /\ AttemptsAdvance
  BY <1>1, HandFacts DEF OthersRest, AttemptsAdvance
<1>3. {audited', lost'} \subseteq SUBSET Keys
  <2>1. hand[p].phase \in Bringing => hand[p].key \in Keys
    BY HandFacts DEF HandIsSound
  <2>2. CASE recordCredentialPersistenceUncertain(p)
    BY <2>1, <2>2, HandFacts DEF recordCredentialPersistenceUncertain, Uncertain, At, Elsewhere, Bringing, Typed, Shapes
  <2>3. CASE Crash(p)
    BY <2>1, <2>3, HandFacts DEF Crash, rows, Bringing, Typed, Shapes
  <2> QED BY <2>2, <2>3
<1>4. Typed' /\ HandIsSound(p)' /\ CredentialIsClaimed(p)
  BY <1>1, <1>3, HandFacts, RestIsSound DEF Typed, Shapes, Rests
<1>5. \A k \in Keys : hand[p].phase \in Bringing /\ hand[p].key = k => Accounted(k)'
  BY <1>1 DEF Accounted
<1> QED BY <1>1, <1>2, <1>4, <1>5, QuietSteps

LEMMA RetryKeeps ==
  ASSUME OInv, NEW p \in Requests, NEW k \in Keys, retryPendingZoteroRevocations(p, k)
  PROVE  OInv'
<1>1. /\ hand[p].phase = "idle" /\ hand' = [hand EXCEPT ![p] = Hand("due", None, k)]
      /\ UNCHANGED <<attempt, connection, outbox, audited, zotero, lost>>
  BY DEF retryPendingZoteroRevocations, At, rows, Elsewhere
<1>2. /\ hand'[p] = Hand("due", None, k) /\ OthersRest(p) /\ AttemptsAdvance
  BY <1>1, HandFacts DEF OthersRest, AttemptsAdvance
<1>3. Typed'
  BY <1>1, HandFacts DEF Typed, Shapes, Hand, HandRow, Removing
<1>4. HandIsSound(p)' /\ CredentialIsClaimed(p)
  BY <1>2 DEF HandIsSound, CredentialIsClaimed, Hand, Holding, Bringing, Removing
<1> QED BY <1>1, <1>2, <1>3, <1>4, QuietSteps DEF Bringing

LEMMA RevokeKeeps ==
  ASSUME OInv, NEW p \in Requests,
         RevocationFails(p) \/ \E answered \in BOOLEAN : RevokeAccessToken(p, answered)
  PROVE  OInv'
<1>1. /\ hand[p].phase = "deleting" /\ UNCHANGED <<attempt, connection, outbox, audited, lost>>
      /\ \/ zotero' = [zotero EXCEPT ![hand[p].key] = "deleted"]
            /\ \E phase \in {"deleted", "undeleted"} : hand' = [hand EXCEPT ![p].phase = phase]
         \/ zotero' = zotero /\ hand' = [hand EXCEPT ![p].phase = "undeleted"]
  BY DEF RevocationFails, RevokeAccessToken, At, Goes, rows, Elsewhere
<1>2. hand[p].key \in Keys /\ hand[p].doubt = FALSE
  BY <1>1, HandFacts DEF HandIsSound, Removing, HandRow
<1>3. /\ hand'[p].phase \in {"deleted", "undeleted"} /\ hand'[p].key = hand[p].key /\ hand'[p].doubt = FALSE
      /\ hand'[p].phase = "deleted" => zotero'[hand[p].key] = "deleted"
      /\ hand' \in [Requests -> HandRow]
      /\ \A q \in Requests \ {p} : hand'[q] = hand[q]
  <2>1. PICK phase \in {"deleted", "undeleted"} :
          /\ hand' = [hand EXCEPT ![p].phase = phase]
          /\ phase = "deleted" => zotero' = [zotero EXCEPT ![hand[p].key] = "deleted"]
    BY <1>1
  <2>2. hand' \in [Requests -> HandRow]
    BY <2>1, HandFacts DEF HandRow, Removing
  <2>3. phase = "deleted" => zotero'[hand[p].key] = "deleted"
    BY <1>2, <2>1, HandFacts DEF Typed, Shapes
  <2> QED BY <1>2, <2>1, <2>2, <2>3, HandFacts DEF HandRow
<1>4. /\ zotero' \in [Keys -> {"unissued", "live", "deleted"}]
      /\ \A k \in Keys : zotero'[k] \in {zotero[k], "deleted"}
  BY <1>1, <1>2, HandFacts DEF Typed, Shapes
<1>5. OthersRest(p) /\ AttemptsAdvance
  BY <1>1, <1>3, <1>4 DEF OthersRest, AttemptsAdvance
<1>6. Typed'
  BY <1>1, <1>3, <1>4, HandFacts DEF Typed, Shapes
<1>7. HandIsSound(p)' /\ CredentialIsClaimed(p)
  BY <1>2, <1>3 DEF HandIsSound, CredentialIsClaimed, Holding, Bringing, Removing
<1> QED BY <1>1, <1>4, <1>5, <1>6, <1>7, QuietSteps DEF Bringing
-----------------------------------------------------------------------------
(* The steps that write the connection or the outbox.                      *)

ConnectionRow == [key : Keys \cup {None}, code : RevocationCodes \cup {"none", "other"},
                  unresolved : BOOLEAN, unreadable : SUBSET Keys]
Entry == [status : {"none", "pending", "processing"}, lease : Requests \cup {None}, stale : BOOLEAN]

LEMMA EntriesAreTyped == {NoEntry, Pending} \subseteq Entry
BY DEF NoEntry, Pending, Entry

\* Every key keeps its place, or takes another.
LEMMA PlacesSuffice ==
  ASSUME OInv, Typed', NEW p \in Requests, OthersRest(p),
         zotero' = zotero, audited' = audited, lost' = lost,
         connection.unreadable \subseteq connection'.unreadable,
         \A k \in Keys : k = connection.key \/ k \in Entries(outbox)
            => \/ k = connection'.key \/ k \in Entries(outbox') \cup connection'.unreadable
               \/ zotero[k] = "deleted",
         \A k \in Keys : hand[p].phase \in Bringing /\ hand[p].key = k => Accounted(k)'
  PROVE  KeysAreAccountedFor'
<1>1. ASSUME NEW k \in Keys, zotero[k] = "live"
      PROVE  Accounted(k)'
  <2>1. Accounted(k)
    BY <1>1 DEF OInv, KeysAreAccountedFor, Accounted
  <2>2. CASE Carried(k)
    <3>1. CASE hand[p].phase \in Bringing /\ hand[p].key = k
      BY <3>1
    <3>2. CASE hand[p].phase \in Bringing => hand[p].key # k
      BY <2>2, <3>2, OthersCarry DEF Accounted
    <3> QED BY <3>1, <3>2
  <2>3. CASE ~Carried(k)
    <3>1. \/ k = connection.key \/ k \in Entries(outbox)
          \/ k \in connection.unreadable \/ k \in audited \/ k \in lost
      BY <2>1, <2>3 DEF Accounted
    <3>2. zotero[k] # "deleted"
      BY <1>1
    <3> QED BY <3>1, <3>2 DEF Accounted
  <2> QED BY <2>2, <2>3
<1> QED BY <1>1 DEF KeysAreAccountedFor, Accounted, Typed

LEMMA ClaimRevocationKeeps ==
  ASSUME OInv, NEW p \in Requests, ClaimRevocation(p)
  PROVE  OInv'
<1> DEFINE k == hand[p].key
           claimed == [status |-> "processing", lease |-> p, stale |-> FALSE]
<1>1. /\ hand[p].phase = "due" /\ UNCHANGED <<attempt, connection, audited, zotero, lost>>
  BY DEF ClaimRevocation, At, Elsewhere
<1>2. k \in Keys /\ hand[p].doubt = FALSE
  BY <1>1, HandFacts DEF HandIsSound, Removing, HandRow
<1>3. CASE outbox[k].status = "pending" \/ (outbox[k].status = "processing" /\ outbox[k].stale)
  <2>1. outbox' = [outbox EXCEPT ![k] = claimed] /\ hand' = [hand EXCEPT ![p].phase = "deleting"]
    BY <1>3 DEF ClaimRevocation, Goes
  <2>2. /\ outbox' \in [Keys -> Entry] /\ hand' \in [Requests -> HandRow]
        /\ hand'[p].phase = "deleting" /\ hand'[p].key = k /\ hand'[p].doubt = FALSE
        /\ outbox'[k] = claimed /\ \A j \in Keys \ {k} : outbox'[j] = outbox[j]
    <3>1. claimed \in Entry
      BY DEF Entry
    <3>2. outbox \in [Keys -> Entry]
      BY HandFacts DEF Typed, Shapes, Entry
    <3>3. hand' \in [Requests -> HandRow]
      BY <2>1, HandFacts DEF HandRow, Removing
    <3>4. hand'[p].phase = "deleting" /\ hand'[p].key = k /\ hand'[p].doubt = FALSE
      BY <1>2, <2>1, HandFacts DEF HandRow
    <3> QED BY <1>2, <2>1, <3>1, <3>2, <3>3, <3>4
  <2>3. Typed'
    BY <1>1, <2>2, HandFacts DEF Typed, Shapes, Entry
  <2>4. OthersRest(p) /\ AttemptsAdvance
    BY <1>1, <1>3, <2>1, <2>2, HandFacts DEF OthersRest, AttemptsAdvance
  <2>5. HandIsSound(p)' /\ CredentialIsClaimed(p)
    BY <1>2, <2>2 DEF HandIsSound, CredentialIsClaimed, Holding, Bringing, Removing
  <2>6. InstalledIsNotPending'
    BY <1>1, <1>3, <2>2, HandFacts DEF OInv, InstalledIsNotPending, Typed, Shapes
  <2>7. Entries(outbox') = Entries(outbox)
    BY <1>2, <1>3, <2>2 DEF Entries
  <2>8. KeysAreAccountedFor'
    BY <1>1, <2>3, <2>4, <2>7, PlacesSuffice DEF Bringing
  <2> QED BY <2>3, <2>4, <2>5, <2>6, <2>7, <2>8, HandsStaySound, OutboxShrinks DEF OInv
<1>4. CASE Rests(p) /\ outbox' = outbox
  <2>1. OthersRest(p) /\ AttemptsAdvance
    BY <1>1, <1>4, HandFacts DEF OthersRest, AttemptsAdvance
  <2>2. Typed' /\ HandIsSound(p)' /\ CredentialIsClaimed(p)
    BY <1>1, <1>4, HandFacts, RestIsSound DEF Typed, Shapes, Rests
  <2> QED BY <1>1, <1>4, <2>1, <2>2, QuietSteps DEF Bringing
<1> QED BY <1>3, <1>4 DEF ClaimRevocation

LEMMA GrowingStaleKeeps ==
  ASSUME OInv, NEW k \in Keys, ClaimGrowsStale(k)
  PROVE  OInv'
<1>1. /\ outbox[k].status = "processing"
      /\ \A p \in Requests : hand[p].phase = "deleting" => hand[p].key # k
      /\ UNCHANGED <<attempt, connection, audited, hand, zotero, lost>>
  BY DEF ClaimGrowsStale, At, Elsewhere
<1>2. /\ outbox' \in [Keys -> Entry] /\ \A j \in Keys \ {k} : outbox'[j] = outbox[j]
      /\ outbox'[k].status = outbox[k].status
  <2>1. outbox \in [Keys -> Entry] /\ outbox' = [outbox EXCEPT ![k].stale = TRUE]
    BY HandFacts DEF OInv, Typed, Shapes, Entry, ClaimGrowsStale
  <2> QED BY <2>1 DEF Entry
<1>3. Typed'
  BY <1>1, <1>2 DEF OInv, Typed, Shapes, Entry
<1>4. HandsAreSound'
  <2> SUFFICES ASSUME NEW p \in Requests
               PROVE  HandIsSound(p)'
    BY DEF HandsAreSound
  <2>1. HandIsSound(p)
    BY DEF OInv, HandsAreSound
  <2> QED BY <1>1, <1>2, <2>1 DEF HandIsSound, Removing
<1>5. OneCallbackWins' /\ InstalledIsNotPending'
  BY <1>1, <1>2 DEF OInv, OneCallbackWins, InstalledIsNotPending, Typed, Shapes
<1>6. Entries(outbox') = Entries(outbox)
  BY <1>2 DEF Entries
<1>7. KeysAreAccountedFor'
  BY <1>1, <1>3, <1>6 DEF OInv, KeysAreAccountedFor, Carried, Typed
<1> QED BY <1>3, <1>4, <1>5, <1>6, <1>7, OutboxShrinks DEF OInv

LEMMA SettlingKeeps ==
  ASSUME OInv, NEW p \in Requests, confirmPendingRevocation(p) \/ ReturnRevocation(p)
  PROVE  OInv'
<1> DEFINE k == hand[p].key
<1>1. /\ hand[p].phase \in {"deleted", "undeleted"} /\ Rests(p)
      /\ UNCHANGED <<attempt, audited, zotero, lost>>
  BY DEF confirmPendingRevocation, ReturnRevocation, At, Elsewhere
<1>2. k \in Keys
  BY <1>1, HandFacts DEF HandIsSound, Removing
<1>3. /\ Leases(p) \/ outbox' = outbox
      /\ \/ outbox' = outbox
         \/ outbox' = [outbox EXCEPT ![k] = NoEntry] /\ hand[p].phase = "deleted"
         \/ outbox' = [outbox EXCEPT ![k] = Pending]
      /\ \/ connection' = connection
         \/ \E code \in {"none", "unconfirmed"} : connection' = [connection EXCEPT !.code = code]
  BY DEF confirmPendingRevocation, ReturnRevocation, At
<1>4. /\ connection' \in ConnectionRow
      /\ connection'.key = connection.key /\ connection'.unreadable = connection.unreadable
  BY <1>3, HandFacts DEF Typed, Shapes, ConnectionRow, RevocationCodes
<1>5. /\ outbox' \in [Keys -> Entry] /\ \A j \in Keys \ {k} : outbox'[j] = outbox[j]
      /\ outbox'[k] \in {outbox[k], NoEntry, Pending}
      /\ outbox'[k] = outbox[k] \/ outbox'[k] = Pending \/ zotero[k] = "deleted"
      /\ outbox'[k] # outbox[k] => outbox[k].status = "processing" /\ outbox[k].lease = p
  <2>1. outbox \in [Keys -> Entry]
    BY HandFacts DEF Typed, Shapes, Entry
  <2>2. hand[p].phase = "deleted" => zotero[k] = "deleted"
    BY HandFacts DEF HandIsSound
  <2> QED BY <1>2, <1>3, <2>1, <2>2, EntriesAreTyped DEF Leases
<1>6. Typed' /\ HandIsSound(p)' /\ CredentialIsClaimed(p)
  BY <1>1, <1>4, <1>5, HandFacts, RestIsSound DEF Typed, Shapes, Rests, Entry, ConnectionRow
<1>7. OthersRest(p) /\ AttemptsAdvance
  BY <1>1, <1>2, <1>5, HandFacts DEF OthersRest, AttemptsAdvance
<1>8. Entries(outbox') \subseteq Entries(outbox)
        /\ \A j \in Entries(outbox) : j \in Entries(outbox') \/ zotero[j] = "deleted"
  BY <1>2, <1>5 DEF Entries, Pending
<1>9. InstalledIsNotPending'
  BY <1>4, <1>5, HandFacts DEF OInv, InstalledIsNotPending, Typed, Shapes
<1>10. KeysAreAccountedFor'
  BY <1>1, <1>4, <1>6, <1>7, <1>8, PlacesSuffice DEF Bringing
<1> QED BY <1>6, <1>7, <1>8, <1>9, <1>10, HandsStaySound, OutboxShrinks DEF OInv

\* Only the error code is written.
LEMMA CodesKeep ==
  ASSUME OInv, ProviderNeedsAttention \/ LibrariesDiscovered
  PROVE  OInv'
<1>1. UNCHANGED <<attempt, outbox, audited, hand, zotero, lost>>
  BY DEF ProviderNeedsAttention, LibrariesDiscovered, Elsewhere
<1>2. /\ connection' \in ConnectionRow
      /\ connection'.key = connection.key /\ connection'.unreadable = connection.unreadable
  BY DEF OInv, Typed, Shapes, ConnectionRow, ProviderNeedsAttention, LibrariesDiscovered
<1>3. Typed'
  BY <1>1, <1>2 DEF OInv, Typed, Shapes, ConnectionRow
<1>4. HandsAreSound' /\ OneCallbackWins' /\ InstalledIsNotPending'
  BY <1>1, <1>2 DEF OInv, HandsAreSound, HandIsSound, OneCallbackWins, InstalledIsNotPending
<1>5. KeysAreAccountedFor'
  BY <1>1, <1>2, <1>3 DEF OInv, KeysAreAccountedFor, Carried, Entries, Typed
<1>6. OutboxIsBounded'
  BY <1>1, OutboxShrinks DEF OInv, Entries
<1> QED BY <1>3, <1>4, <1>5, <1>6 DEF OInv

LEMMA InstallKeeps ==
  ASSUME OInv, NEW p \in Requests, hand[p].phase \in Bringing, CanPersist(p), Install(p),
         \/ /\ hand[p].phase = "exchanged"
            /\ hand' = [hand EXCEPT ![p] =
                 IF Superseded(hand[p].key) = {} THEN Idle ELSE Hand("due", None, connection.key)]
         \/ hand' = [hand EXCEPT ![p].doubt = FALSE],
         Elsewhere
  PROVE  OInv'
<1> DEFINE k == hand[p].key
           a == hand[p].a
<1>1. /\ k \in Keys /\ a \in Authorizations /\ attempt[a] = "CLAIMED"
      /\ attempt' = [attempt EXCEPT ![a] = "SUCCEEDED"]
      /\ UNCHANGED <<audited, zotero, lost>>
  BY HandFacts DEF HandIsSound, Bringing, Holding, CanPersist, Install, Elsewhere
<1>2. /\ connection' \in ConnectionRow
      /\ connection'.key = k /\ connection'.unreadable = connection.unreadable
  <2> DEFINE unresolved == connection.unresolved
               \/ (connection.code \in RevocationCodes /\ Entries(outbox) = {} /\ ~Unrecoverable(connection))
             conn == [connection EXCEPT !.key = k, !.unresolved = unresolved]
  <2>1. conn = [key |-> k, code |-> connection.code, unresolved |-> unresolved,
                unreadable |-> connection.unreadable]
    <3> DEFINE one == [connection EXCEPT !.key = k]
    <3>1. one = [key |-> k, code |-> connection.code, unresolved |-> connection.unresolved,
                 unreadable |-> connection.unreadable]
      BY HandFacts DEF Typed, Shapes
    <3>2. conn = [one EXCEPT !.unresolved = unresolved]
      BY Zenon
    <3> HIDE DEF one, unresolved
    <3> QED BY <3>1, <3>2
  <2>2. unresolved \in BOOLEAN
    BY HandFacts DEF Typed, Shapes
  <2>3. \E code \in {connection.code, "pending", "none"} : connection' = [conn EXCEPT !.code = code]
    BY Zenon DEF Install
  <2>4. connection.code \in RevocationCodes \cup {"none", "other"} /\ connection.unreadable \in SUBSET Keys
    BY HandFacts DEF Typed, Shapes
  <2> HIDE DEF conn, unresolved
  <2>5. PICK code \in RevocationCodes \cup {"none", "other"} :
          connection' = [key |-> k, code |-> code, unresolved |-> unresolved,
                         unreadable |-> connection.unreadable]
    BY <2>1, <2>3, <2>4 DEF RevocationCodes
  <2> QED BY <1>1, <2>2, <2>4, <2>5 DEF ConnectionRow
<1>3. /\ outbox' = [j \in Keys |-> IF j = k THEN NoEntry ELSE IF j \in Superseded(k) THEN Pending ELSE outbox[j]]
      /\ outbox[k].status # "processing"
  BY DEF Install, OutboxAfter, CanPersist, MayInstall
<1>4. /\ outbox' \in [Keys -> Entry] /\ outbox'[k] = NoEntry
      /\ \A j \in Keys \ {k} : outbox'[j] = IF j = connection.key THEN Pending ELSE outbox[j]
  <2>1. outbox \in [Keys -> Entry]
    BY HandFacts DEF Typed, Shapes, Entry
  <2>2. \A j \in Keys \ {k} : j \in Superseded(k) <=> j = connection.key
    BY <1>1, OAuthBounds DEF OAuthBounds, Superseded
  <2> QED BY <1>1, <1>3, <2>1, <2>2, EntriesAreTyped
<1>5. connection.key # None => connection.key \in Keys /\ outbox[connection.key].status = "none"
  BY HandFacts DEF OInv, InstalledIsNotPending, Typed, Shapes
<1>6. /\ hand' \in [Requests -> HandRow] /\ \A q \in Requests \ {p} : hand'[q] = hand[q]
      /\ \/ hand'[p] = Idle
         \/ hand'[p] = Hand("due", None, connection.key) /\ connection.key \in Keys
         \/ /\ hand'[p].phase = hand[p].phase /\ hand'[p].key = k /\ hand'[p].a = a
            /\ hand'[p].doubt = FALSE
  <2>1. CASE hand' = [hand EXCEPT ![p].doubt = FALSE]
    BY <2>1, HandFacts DEF HandRow
  <2>2. CASE hand' = [hand EXCEPT ![p] = Idle]
    BY <2>2, HandFacts DEF HandRow, Idle, Hand
  <2>3. CASE hand' = [hand EXCEPT ![p] = Hand("due", None, connection.key)] /\ Superseded(k) # {}
    <3>1. connection.key \in Keys
      BY <1>5, <2>3 DEF Superseded
    <3>2. Hand("due", None, connection.key) \in HandRow
      BY <3>1 DEF Hand, HandRow, Removing
    <3> QED BY <2>3, <3>1, <3>2, HandFacts
  <2> QED BY <2>1, <2>2, <2>3
<1> HIDE DEF k, a
<1>7. Typed'
  BY <1>1, <1>2, <1>4, <1>6, HandFacts DEF Typed, Shapes, Entry, ConnectionRow
<1>8. OthersRest(p) /\ AttemptsAdvance
  BY <1>1, <1>3, <1>4, <1>5, <1>6, HandFacts, OAuthBounds DEF OAuthBounds, OthersRest, AttemptsAdvance, Typed, Shapes
<1>9. HandIsSound(p)' /\ CredentialIsClaimed(p)
  <2>1. attempt'[a] = "SUCCEEDED"
    BY <1>1, HandFacts DEF Typed, Shapes
  <2> QED BY <1>1, <1>6, <2>1, RestIsSound DEF HandIsSound, CredentialIsClaimed, Hand, Holding, Bringing, Removing, k, a
<1>10. InstalledIsNotPending'
  BY <1>2, <1>4 DEF InstalledIsNotPending, NoEntry
<1>11. KeysAreAccountedFor'
  <2>1. \A j \in Keys : j = connection.key \/ j \in Entries(outbox)
           => j = connection'.key \/ j \in Entries(outbox')
    BY <1>2, <1>4 DEF Entries, Pending
  <2>2. \A j \in Keys : hand[p].key = j => Accounted(j)'
    BY <1>2 DEF Accounted, k
  <2> QED BY <1>1, <1>2, <1>7, <1>8, <2>1, <2>2, PlacesSuffice
<1>12. OutboxIsBounded'
  <2>1. CASE Superseded(k) = {}
    <3>1. Entries(outbox') \subseteq Entries(outbox)
      BY <1>1, <1>3, <2>1 DEF Entries, NoEntry
    <3> QED BY <3>1, OutboxShrinks DEF OInv
  <2>2. CASE Superseded(k) # {}
    <3>1. Cardinality(Entries(outbox) \ {k}) < MaxPending
      BY <2>2 DEF CanPersist, k
    <3>2. Entries(outbox') \subseteq (Entries(outbox) \ {k}) \cup {connection.key}
      BY <1>4 DEF Entries, NoEntry
    <3> QED BY <3>1, <3>2, OutboxGrows DEF OInv, OutboxIsBounded
  <2> QED BY <2>1, <2>2
<1> QED BY <1>7, <1>8, <1>9, <1>10, <1>11, <1>12, HandsStaySound DEF OInv

LEMMA PersistKeeps ==
  ASSUME OInv, NEW p \in Requests, persistConnection(p) \/ CommitLands(p)
  PROVE  OInv'
<1>1. CASE persistConnection(p)
  BY <1>1, InstallKeeps DEF persistConnection, At, Bringing
<1>2. CASE CommitLands(p)
  <2>1. hand[p].phase \in Bringing
    BY <1>2, HandFacts DEF CommitLands, HandIsSound, Bringing
  <2> QED BY <1>2, <2>1, InstallKeeps DEF CommitLands
<1> QED BY <1>1, <1>2

LEMMA DisconnectKeeps ==
  ASSUME OInv, NEW p \in Requests, disconnectZoteroConnection(p)
  PROVE  OInv'
<1> DEFINE k == connection.key
           full == Cardinality(Entries(outbox)) >= MaxPending
           queued == k # None /\ ~full
<1>1. hand[p].phase = "idle" /\ UNCHANGED <<attempt, audited, zotero, lost>>
  BY DEF disconnectZoteroConnection, At, Elsewhere
<1>2. /\ connection' \in ConnectionRow /\ connection'.key = None
      /\ connection'.unreadable = connection.unreadable \cup (IF k # None /\ full THEN {k} ELSE {})
  BY HandFacts DEF disconnectZoteroConnection, Typed, Shapes, ConnectionRow, RevocationCodes
<1>3. /\ outbox' = IF queued THEN [outbox EXCEPT ![k] = Pending] ELSE outbox
      /\ hand' = IF queued THEN [hand EXCEPT ![p] = Hand("due", None, k)] ELSE hand
  BY DEF disconnectZoteroConnection
<1>4. k \in Keys \cup {None} /\ (k # None => outbox[k].status = "none")
  BY HandFacts DEF OInv, InstalledIsNotPending, Typed, Shapes
<1> HIDE DEF k
<1>5. /\ outbox' \in [Keys -> Entry]
      /\ \A j \in Keys : outbox'[j] = IF queued /\ j = k THEN Pending ELSE outbox[j]
  <2>1. outbox \in [Keys -> Entry]
    BY HandFacts DEF Typed, Shapes, Entry
  <2> QED BY <1>3, <1>4, <2>1, EntriesAreTyped
<1>6. /\ hand' \in [Requests -> HandRow] /\ \A q \in Requests \ {p} : hand'[q] = hand[q]
      /\ hand'[p] = hand[p] \/ (hand'[p] = Hand("due", None, k) /\ k \in Keys)
  <2>1. k \in Keys => Hand("due", None, k) \in HandRow
    BY DEF Hand, HandRow, Removing
  <2> QED BY <1>3, <1>4, <2>1, HandFacts
<1>7. Typed'
  BY <1>1, <1>2, <1>5, <1>6, HandFacts DEF Typed, Shapes, Entry, ConnectionRow
<1>8. OthersRest(p) /\ AttemptsAdvance
  BY <1>1, <1>4, <1>5, <1>6 DEF OthersRest, AttemptsAdvance
<1>9. HandIsSound(p)' /\ CredentialIsClaimed(p)
  BY <1>1, <1>6, HandFacts DEF HandIsSound, CredentialIsClaimed, Hand, Holding, Bringing, Removing
<1>10. InstalledIsNotPending'
  BY <1>2 DEF InstalledIsNotPending
<1>11. KeysAreAccountedFor'
  <2>1. \A j \in Keys : j = connection.key \/ j \in Entries(outbox)
           => j \in Entries(outbox') \cup connection'.unreadable
    BY <1>2, <1>4, <1>5, OAuthBounds DEF OAuthBounds, Entries, Pending, k
  <2> QED BY <1>1, <1>2, <1>7, <1>8, <2>1, PlacesSuffice DEF Bringing
<1>12. OutboxIsBounded'
  <2>1. CASE queued
    <3>1. Cardinality(Entries(outbox)) < MaxPending
      BY <2>1, FS_CardinalityType, OAuthBounds DEF OAuthBounds, OInv, OutboxIsBounded
    <3>2. Entries(outbox') \subseteq Entries(outbox) \cup {k}
      BY <1>5 DEF Entries
    <3> QED BY <3>1, <3>2, OutboxGrows DEF OInv, OutboxIsBounded
  <2>2. CASE ~queued
    <3>1. Entries(outbox') \subseteq Entries(outbox)
      BY <2>2, <1>5 DEF Entries
    <3> QED BY <3>1, OutboxShrinks DEF OInv
  <2> QED BY <2>1, <2>2
<1> QED BY <1>7, <1>8, <1>9, <1>10, <1>11, <1>12, HandsStaySound DEF OInv
-----------------------------------------------------------------------------
(* The theorems.                                                           *)

LEMMA InitOInv == Init => OInv
<1> SUFFICES ASSUME Init PROVE OInv
  OBVIOUS
<1>1. Typed
  BY DEF Init, Typed, Shapes, HandRow, Idle, Hand, NoEntry, RevocationCodes
<1>2. HandsAreSound /\ OneCallbackWins
  BY DEF Init, HandsAreSound, HandIsSound, OneCallbackWins, Idle, Hand, Holding, Bringing, Removing
<1>3. InstalledIsNotPending /\ Entries(outbox) = {}
  BY DEF Init, InstalledIsNotPending, Entries, NoEntry
<1>4. KeysAreAccountedFor
  BY <1>1 DEF Init, KeysAreAccountedFor, Typed
<1>5. OutboxIsBounded
  BY <1>3, FS_EmptySet, OAuthBounds DEF OAuthBounds, OutboxIsBounded
<1> QED BY <1>1, <1>2, <1>3, <1>4, <1>5 DEF OInv

LEMMA NextOInv == OInv /\ [Next]_vars => OInv'
<1> SUFFICES ASSUME OInv, [Next]_vars PROVE OInv'
  OBVIOUS
<1>1. ASSUME NEW a \in Authorizations,
             start(a) \/ cleanupZoteroOAuthAttempts(a) \/ AttemptIsDeleted(a) \/ finishPendingAttempt(a)
      PROVE  OInv'
  BY <1>1, AuthorizationsKeep
<1>2. ASSUME NEW p \in Requests,
             \/ \E a \in Authorizations : ReadAttempt(p, a)
             \/ ClaimAttempt(p) \/ (\E k \in Keys : ExchangeAccessToken(p, k)) \/ ExchangeFails(p)
             \/ persistConnection(p) \/ (\E doubt \in BOOLEAN : PersistFails(p, doubt)) \/ CommitLands(p)
             \/ reconcilePersistenceOutcome(p) \/ recordCredentialPersistenceUncertain(p)
             \/ disconnectZoteroConnection(p)
      PROVE  OInv'
  BY <1>2, ReadKeeps, ClaimKeeps, ExchangeKeeps, ExchangeFailsKeeps, PersistKeeps, PersistFailsKeeps,
     ReconcileKeeps, RestingKeeps, DisconnectKeeps
<1>3. ASSUME NEW p \in Requests,
             \/ (\E k \in Keys : retryPendingZoteroRevocations(p, k)) \/ ClaimRevocation(p)
             \/ (\E answered \in BOOLEAN : RevokeAccessToken(p, answered))
             \/ RevocationFails(p)
             \/ confirmPendingRevocation(p) \/ ReturnRevocation(p) \/ Crash(p)
      PROVE  OInv'
  BY <1>3, RetryKeeps, ClaimRevocationKeeps, RevokeKeeps, SettlingKeeps, RestingKeeps
<1>4. ASSUME NEW k \in Keys, ClaimGrowsStale(k)
      PROVE  OInv'
  BY <1>4, GrowingStaleKeeps
<1>5. CASE UNCHANGED vars
  <2>1. Typed' /\ HandsAreSound' /\ OneCallbackWins' /\ InstalledIsNotPending'
    BY <1>5 DEF vars, OInv, Typed, Shapes, HandsAreSound, HandIsSound, OneCallbackWins, InstalledIsNotPending
  <2>2. KeysAreAccountedFor'
    BY <1>5, <2>1 DEF vars, OInv, KeysAreAccountedFor, Entries, Carried, Typed
  <2>3. OutboxIsBounded'
    BY <1>5, OutboxShrinks DEF vars, OInv, Entries
  <2> QED BY <2>1, <2>2, <2>3 DEF OInv
<1> QED BY <1>1, <1>2, <1>3, <1>4, <1>5, CodesKeep DEF Next

\* The invariant holds of every run.
THEOREM OAuthInductive == Spec => []OInv
BY InitOInv, NextOInv, PTL DEF Spec

\* A temporary credential is exchanged by one callback only, however many
\* requests arrive for it.
THEOREM OneCallbackAlwaysWins == Spec => []OneCallbackWins
<1>1. OInv => OneCallbackWins
  BY DEF OInv
<1> QED BY <1>1, OAuthInductive, PTL

\* No DELETE is on its way for the key that is installed.
THEOREM InstalledKeysAreNotDeleted == Spec => []InstalledKeyIsNotBeingDeleted
<1>1. OInv => InstalledKeyIsNotBeingDeleted
  <2> SUFFICES ASSUME OInv, NEW p \in Requests, hand[p].phase = "deleting"
               PROVE  hand[p].key # connection.key
    BY DEF InstalledKeyIsNotBeingDeleted, At
  <2>1. hand[p].key \in Keys /\ outbox[hand[p].key].status = "processing"
    <3>1. HandIsSound(p)
      BY HandFacts
    <3>2. hand[p].key \in Keys
      BY <3>1 DEF HandIsSound, Removing
    <3>3. outbox[hand[p].key] = [status |-> "processing", lease |-> p, stale |-> FALSE]
      BY <3>1 DEF HandIsSound
    <3> QED BY <3>2, <3>3
  <2> QED BY <2>1, OAuthBounds DEF OAuthBounds, OInv, InstalledIsNotPending
<1> QED BY <1>1, OAuthInductive, PTL

\* A live key is installed, awaits its revocation, is in somebody's hand, is
\* audited, or was lost with a process that died.
THEOREM KeysStayAccountedFor == Spec => []KeysAreAccountedFor
<1>1. OInv => KeysAreAccountedFor
  BY DEF OInv
<1> QED BY <1>1, OAuthInductive, PTL

\* The outbox of a connection never outgrows its limit.
THEOREM OutboxStaysBounded == Spec => []OutboxIsBounded
<1>1. OInv => OutboxIsBounded
  BY DEF OInv
<1> QED BY <1>1, OAuthInductive, PTL
=============================================================================
