------------------------- MODULE UploadIntakeProofs -------------------------
(***************************************************************************)
(* Proofs about the receipt of an upload: claims and rows agree, the quota *)
(* is honest, a request that lost its claim is harmless, and a stored      *)
(* upload's bytes exist wherever no answer of the database is lost.        *)
(***************************************************************************)
EXTENDS UploadIntakeProperties, FiniteSetTheorems, TLAPS

-----------------------------------------------------------------------------
(* The inductive invariant.                                                *)

\* A session that was never reserved has no intake.
NewSessionsAreEmpty ==
  \A s \in Sessions : session[s].status = "NONE" => intake[s] = "NONE"

\* An identifier that no claim has drawn has no row to speak of and no request.
UnclaimedAreUntouched ==
  \A a \in Attempts : attempt[a].of = None => attempt[a] = NoAttempt /\ writer[a] = "none"

\* The original of an upload was received for that upload.
OriginalsAreOwn ==
  \A s \in Sessions : asset[s].key # None => attempt[asset[s].key].of = s

\* A reconciler cleans up attempts that have ended, and never finds that one of
\* them was adopted by a stored upload.
CleanersWorkOnEnded ==
  \A r \in Reconcilers : cleaner[r].phase # "idle" =>
    /\ cleaner[r].phase # "adopted"
    /\ cleaner[r].attempt \in Attempts
    /\ attempt[cleaner[r].attempt].status \in Terminal

UInv == /\ ClaimsAgree /\ NewSessionsAreEmpty /\ UnclaimedAreUntouched
        /\ OriginalsAreOwn /\ CleanersWorkOnEnded /\ QuotaIsHonest

\* Where no answer is lost, the file of an attempt that has not ended is on disk
\* from its link on, and nobody works on the file of a committed one.
BytesAreKept ==
  \A a \in Attempts :
    /\ attempt[a].status \notin Terminal /\ writer[a] \in {"linked", "stored", "written"}
         => a \in objects
    /\ attempt[a].status = "COMMITTED" => writer[a] = "gone" /\ a \in objects
-----------------------------------------------------------------------------
(* The operators.                                                          *)

AttemptRow == [of : Sessions \cup {None},
               status : {"NONE", "COMMITTED"} \cup Receiving \cup Terminal,
               wait : 0..CleanupLease, cleanup : {"pending", "adopted", "done"}]

SessionRow == [status : {"NONE", "STORED", "REJECTED", "EXPIRED"} \cup Active,
               claim : Attempts \cup {None}, left : 0..SessionTtl, lease : 0..LeaseTtl]

\* Rows of which several columns are written, spelled out.
LEMMA ReservedRow ==
  ASSUME NEW row \in SessionRow, NEW status, NEW left
  PROVE  [row EXCEPT !.status = status, !.left = left]
           = [status |-> status, claim |-> row.claim, left |-> left, lease |-> row.lease]
<1> DEFINE one == [row EXCEPT !.status = status]
<1>1. one = [status |-> status, claim |-> row.claim, left |-> row.left, lease |-> row.lease]
  BY DEF SessionRow
<1>2. [row EXCEPT !.status = status, !.left = left] = [one EXCEPT !.left = left]
  BY Zenon
<1> HIDE DEF one
<1> QED BY <1>1, <1>2

LEMMA ClaimedRow ==
  ASSUME NEW row \in SessionRow, NEW a
  PROVE  [row EXCEPT !.status = "RECEIVING", !.claim = a, !.lease = LeaseTtl]
           = [status |-> "RECEIVING", claim |-> a, left |-> row.left, lease |-> LeaseTtl]
<1> DEFINE one == [row EXCEPT !.status = "RECEIVING"]
<1> DEFINE two == [one EXCEPT !.claim = a]
<1>1. one = [status |-> "RECEIVING", claim |-> row.claim, left |-> row.left, lease |-> row.lease]
  BY DEF SessionRow
<1>2. [row EXCEPT !.status = "RECEIVING", !.claim = a, !.lease = LeaseTtl] = [two EXCEPT !.lease = LeaseTtl]
  BY Zenon
<1>3. two = [status |-> "RECEIVING", claim |-> a, left |-> row.left, lease |-> row.lease]
  <2> HIDE DEF one
  <2> QED BY <1>1
<1> HIDE DEF two
<1> QED BY <1>2, <1>3

LEMMA ReleasedRow ==
  ASSUME NEW row \in SessionRow
  PROVE  [row EXCEPT !.status = "ISSUED", !.claim = None]
           = [status |-> "ISSUED", claim |-> None, left |-> row.left, lease |-> row.lease]
<1> DEFINE one == [row EXCEPT !.status = "ISSUED"]
<1>1. one = [status |-> "ISSUED", claim |-> row.claim, left |-> row.left, lease |-> row.lease]
  BY DEF SessionRow
<1>2. [row EXCEPT !.status = "ISSUED", !.claim = None] = [one EXCEPT !.claim = None]
  BY Zenon
<1> HIDE DEF one
<1> QED BY <1>1, <1>2

LEMMA TickedRow ==
  ASSUME NEW row \in SessionRow
  PROVE  [row EXCEPT !.left = Less(row.left), !.lease = Less(row.lease)]
           = [status |-> row.status, claim |-> row.claim, left |-> Less(row.left), lease |-> Less(row.lease)]
<1> DEFINE one == [row EXCEPT !.left = Less(row.left)]
<1>1. one = [status |-> row.status, claim |-> row.claim, left |-> Less(row.left), lease |-> row.lease]
  BY DEF SessionRow
<1>2. [row EXCEPT !.left = Less(row.left), !.lease = Less(row.lease)] = [one EXCEPT !.lease = Less(row.lease)]
  BY Zenon
<1> HIDE DEF one
<1> QED BY <1>1, <1>2

LEMMA SettledRow ==
  ASSUME NEW row \in AttemptRow
  PROVE  [row EXCEPT !.cleanup = "done", !.wait = 0]
           = [of |-> row.of, status |-> row.status, wait |-> 0, cleanup |-> "done"]
<1> DEFINE one == [row EXCEPT !.cleanup = "done"]
<1>1. one = [of |-> row.of, status |-> row.status, wait |-> row.wait, cleanup |-> "done"]
  BY DEF AttemptRow
<1>2. [row EXCEPT !.cleanup = "done", !.wait = 0] = [one EXCEPT !.wait = 0]
  BY Zenon
<1> HIDE DEF one
<1> QED BY <1>1, <1>2

LEMMA DrawnRow ==
  ASSUME NEW row \in AttemptRow, NEW of, NEW status
  PROVE  [row EXCEPT !.of = of, !.status = status]
           = [of |-> of, status |-> status, wait |-> row.wait, cleanup |-> row.cleanup]
<1> DEFINE one == [row EXCEPT !.of = of]
<1>1. one = [of |-> of, status |-> row.status, wait |-> row.wait, cleanup |-> row.cleanup]
  BY DEF AttemptRow
<1>2. [row EXCEPT !.of = of, !.status = status] = [one EXCEPT !.status = status]
  BY Zenon
<1> HIDE DEF one
<1> QED BY <1>1, <1>2

\* What closing the attempt c does to the rows: it changes the status of c, if
\* that was still open, and its wait.
ClosedRows(rws, next, c, status) ==
  \A a \in Attempts :
    /\ next[a].of = rws[a].of /\ next[a].cleanup = rws[a].cleanup
    /\ next[a].status = IF a = c /\ rws[a].status \in Receiving THEN status ELSE rws[a].status
    /\ a # c \/ rws[a].status \notin Receiving => next[a] = rws[a]

LEMMA ClosingAnAttempt ==
  ASSUME NEW rws \in [Attempts -> AttemptRow], NEW c \in Attempts \cup {None},
         NEW status \in Terminal
  PROVE  /\ ClosedAttempt(rws, c, status) \in [Attempts -> AttemptRow]
         /\ ClosedRows(rws, ClosedAttempt(rws, c, status), c, status)
  BY UploadBounds DEF UploadBounds, ClosedAttempt, ClosedRows, AttemptRow, Receiving, Terminal

\* An attempt that no longer holds quota ended and was cleaned up.
LEMMA CleanMeansDone ==
  ASSUME NEW rws, NEW s, Clean(rws, s), NEW a \in AttemptsOf(rws, s)
  PROVE  rws[a].status \in Terminal /\ rws[a].cleanup = "done"
  BY DEF Clean, HoldsQuota

\* Counting down stays within a bound.
LEMMA LessStays ==
  ASSUME NEW m \in Nat, NEW n \in 0..m
  PROVE  Less(n) \in 0..m
  BY DEF Less
-----------------------------------------------------------------------------
(* How the claims may move.                                                *)

\* The claims, the statuses and the owners are what they were.
SameClaims ==
  /\ \A s \in Sessions :
       /\ session'[s].status = session[s].status /\ session'[s].claim = session[s].claim
       /\ asset'[s].key = asset[s].key
  /\ \A a \in Attempts :
       attempt'[a].of = attempt[a].of /\ attempt'[a].status = attempt[a].status

\* No unclaimed attempt gets a request, and its row stays what it was.
SameUnclaimed ==
  \A a \in Attempts : attempt[a].of = None => attempt'[a] = attempt[a] /\ writer'[a] = writer[a]

LEMMA SameClaimsKeep ==
  ASSUME ClaimsAgree, TypeOK', SameClaims, 
         \A s \in Sessions : intake'[s] \in {"RESERVED", "RECEIVING"} <=> intake[s] \in {"RESERVED", "RECEIVING"}
  PROVE  ClaimsAgree'
<1>1. \A a \in Attempts :
        /\ (attempt[a].status \in Receiving <=> attempt[a].of # None /\ session[attempt[a].of].claim = a)'
        /\ (attempt[a].status = "COMMITTED" <=>
              attempt[a].of # None /\ session[attempt[a].of].status = "STORED" /\ asset[attempt[a].of].key = a)'
  BY UploadBounds DEF UploadBounds, ClaimsAgree, TypeOK, SameClaims
<1>2. \A s \in Sessions :
        /\ (session[s].claim # None <=> session[s].status = "RECEIVING")'
        /\ (session[s].claim # None => attempt[session[s].claim].of = s)'
        /\ (session[s].status \in Active <=> intake[s] \in {"RESERVED", "RECEIVING"})'
        /\ (session[s].status = "STORED" <=> asset[s].key # None)'
  BY UploadBounds DEF UploadBounds, ClaimsAgree, TypeOK, SameClaims
<1> QED BY <1>1, <1>2 DEF ClaimsAgree

\* The reservation s ends without its bytes, and with it the attempt it had.
Ends(s) ==
  /\ s \in Sessions /\ session[s].status \in Active
  /\ \E status \in {"EXPIRED", "REJECTED"} : session' = Closed(s, status)
  /\ \E status \in Terminal : attempt' = ClosedAttempt(attempt, session[s].claim, status)
  /\ intake' = [intake EXCEPT ![s] = "FAILED"]
  /\ asset' = [asset EXCEPT ![s].status = "REJECTED"]

LEMMA EndTypes ==
  ASSUME TypeOK, NEW s, Ends(s)
  PROVE  /\ session' \in [Sessions -> SessionRow]
         /\ intake' \in [Sessions -> {"NONE", "RESERVED", "RECEIVING", "QUARANTINED", "VALIDATING", "FAILED"}]
         /\ asset' \in [Sessions -> [status : {"UPLOADING", "QUARANTINED", "REJECTED"},
                             key : Attempts \cup {None}]]
         /\ attempt' \in [Attempts -> AttemptRow]
<1>1. /\ s \in Sessions
      /\ session[s].claim \in Attempts \cup {None}
      /\ attempt \in [Attempts -> AttemptRow]
  BY DEF TypeOK, Ends, AttemptRow
<1>2. attempt' \in [Attempts -> AttemptRow]
  BY <1>1, ClosingAnAttempt DEF Ends
<1> QED BY <1>1, <1>2, UploadBounds DEF UploadBounds, TypeOK, Ends, Closed, Active, SessionRow

LEMMA EndKeeps ==
  ASSUME ClaimsAgree, TypeOK', NEW s, Ends(s)
  PROVE  /\ ClaimsAgree'
         /\ \A b \in Attempts : 
              /\ attempt'[b].of = attempt[b].of /\ attempt'[b].cleanup = attempt[b].cleanup
              /\ attempt[b].status \in Terminal => attempt'[b].status \in Terminal
              /\ attempt'[b].status \notin Terminal => attempt'[b] = attempt[b]
              /\ attempt[b].status \notin Receiving => attempt'[b] = attempt[b]
         /\ \A t \in Sessions :
              /\ asset'[t].key = asset[t].key
              /\ t # s => session'[t] = session[t] /\ intake'[t] = intake[t]
         /\ session'[s].status \in {"EXPIRED", "REJECTED"} /\ intake'[s] = "FAILED"
<1> DEFINE c == session[s].claim
<1>1. /\ s \in Sessions /\ c \in Attempts \cup {None} /\ TypeOK
      /\ attempt \in [Attempts -> AttemptRow]
  BY DEF ClaimsAgree, TypeOK, Ends, AttemptRow
<1>2. PICK status \in Terminal : attempt' = ClosedAttempt(attempt, c, status)
  BY DEF Ends
<1>3. \A b \in Attempts :
        /\ attempt'[b].of = attempt[b].of /\ attempt'[b].cleanup = attempt[b].cleanup
        /\ attempt'[b].status = IF b = c /\ attempt[b].status \in Receiving THEN status ELSE attempt[b].status
        /\ b # c \/ attempt[b].status \notin Receiving => attempt'[b] = attempt[b]
  <2> HIDE DEF c
  <2>1. ClosedRows(attempt, attempt', c, status)
    BY <1>1, <1>2, ClosingAnAttempt
  <2> QED BY <2>1 DEF ClosedRows
<1>4. /\ \A t \in Sessions : t # s => session'[t] = session[t] /\ intake'[t] = intake[t]
      /\ session'[s].status \in {"EXPIRED", "REJECTED"} /\ session'[s].claim = None
      /\ intake'[s] = "FAILED"
      /\ \A t \in Sessions : asset'[t].key = asset[t].key
  BY <1>1 DEF TypeOK, Ends, Closed
<1>5. /\ c # None => attempt[c].of = s /\ attempt[c].status \in Receiving
      /\ session[s].status # "STORED" /\ asset[s].key = None
  BY <1>1, UploadBounds DEF UploadBounds, ClaimsAgree, Active, Ends
<1>6. ASSUME NEW a \in Attempts
      PROVE  /\ (attempt[a].status \in Receiving <=> attempt[a].of # None /\ session[attempt[a].of].claim = a)'
             /\ (attempt[a].status = "COMMITTED" <=>
                   attempt[a].of # None /\ session[attempt[a].of].status = "STORED" /\ asset[attempt[a].of].key = a)'
  <2>1. attempt[a].of \in Sessions \cup {None}
    BY <1>1 DEF TypeOK
  <2> QED BY <1>1, <1>3, <1>4, <1>5, <2>1, UploadBounds DEF UploadBounds, ClaimsAgree, Receiving, Terminal
<1>7. ASSUME NEW t \in Sessions
      PROVE  /\ (session[t].claim # None <=> session[t].status = "RECEIVING")'
             /\ (session[t].claim # None => attempt[session[t].claim].of = t)'
             /\ (session[t].status \in Active <=> intake[t] \in {"RESERVED", "RECEIVING"})'
             /\ (session[t].status = "STORED" <=> asset[t].key # None)'
  <2>1. CASE t = s
    BY <2>1, <1>1, <1>4, <1>5 DEF Active
  <2>2. CASE t # s
    <3>1. session[t].claim \in Attempts \cup {None}
      BY <1>1 DEF TypeOK
    <3> QED BY <2>2, <3>1, <1>3, <1>4 DEF ClaimsAgree
  <2> QED BY <2>1, <2>2
<1>8. ClaimsAgree'
  BY <1>6, <1>7 DEF ClaimsAgree
<1> QED BY <1>3, <1>4, <1>8 DEF Terminal, Receiving
-----------------------------------------------------------------------------
(* The quota.                                                              *)

\* The sessions whose intakes hold quota.
Holding == {s \in Sessions : intake[s] # "NONE" /\ ~released[s]}

\* What is counted is finite.
LEMMA RetainedIsANumber ==
  /\ IsFiniteSet(Holding) /\ Cardinality(Holding) \in Nat
  /\ Retained \in Nat /\ Cardinality(Holding) <= Retained
<1> DEFINE left == {a \in Attempts : attempt[a].status \in Terminal /\ attempt[a].cleanup = "pending"}
<1>1. IsFiniteSet(Holding) /\ IsFiniteSet(left)
  BY UploadBounds, FS_Subset DEF UploadBounds, Holding
<1>2. Cardinality(Holding) \in Nat /\ Cardinality(left) \in Nat
  BY <1>1, FS_CardinalityType
<1>3. Retained = Cardinality(Holding) + Cardinality(left)
  BY DEF Retained, Holding
<1> QED BY <1>1, <1>2, <1>3

\* An intake that stops holding quota takes nothing from the ceiling.
LEMMA CeilingKept ==
  ASSUME ReservationsWithinCeiling, Holding' \subseteq Holding
  PROVE  ReservationsWithinCeiling'
<1>1. Cardinality(Holding') \in Nat /\ Cardinality(Holding') <= Cardinality(Holding)
  BY RetainedIsANumber, FS_Subset, FS_CardinalityType
<1>2. Cardinality(Holding) <= MaxRetained /\ Cardinality(Holding) \in Nat /\ MaxRetained \in Nat
  BY RetainedIsANumber, UploadBounds DEF UploadBounds, ReservationsWithinCeiling, Holding
<1>3. Cardinality(Holding') <= MaxRetained
  BY <1>1, <1>2
<1> QED BY <1>3 DEF ReservationsWithinCeiling, Holding

\* A reservation is granted only below the ceiling.
LEMMA CeilingGuarded ==
  ASSUME ReservationsWithinCeiling, Retained + 1 <= MaxRetained,
         NEW s \in Sessions, Holding' \subseteq Holding \cup {s}
  PROVE  ReservationsWithinCeiling'
<1>1. /\ IsFiniteSet(Holding \cup {s})
      /\ Cardinality(Holding \cup {s}) <= Cardinality(Holding) + 1
      /\ Cardinality(Holding \cup {s}) \in Nat
  <2>1. IsFiniteSet(Holding) /\ Cardinality(Holding) \in Nat
    BY RetainedIsANumber
  <2>2. /\ IsFiniteSet(Holding \cup {s})
        /\ Cardinality(Holding \cup {s}) = IF s \in Holding THEN Cardinality(Holding) ELSE Cardinality(Holding) + 1
    BY <2>1, FS_AddElement
  <2> QED BY <2>1, <2>2
<1>2. Cardinality(Holding') \in Nat /\ Cardinality(Holding') <= Cardinality(Holding \cup {s})
  BY <1>1, FS_Subset, FS_CardinalityType
<1>3. Cardinality(Holding') <= MaxRetained
  BY <1>1, <1>2, RetainedIsANumber, UploadBounds DEF UploadBounds
<1> QED BY <1>3 DEF ReservationsWithinCeiling, Holding
-----------------------------------------------------------------------------
(* The actions that write no row.                                          *)

\* The attempts' requests and the reconcilers' claims are no new ones.
NothingStarts ==
  /\ \A a \in Attempts : writer[a] = "none" => writer'[a] = "none"
  /\ \A r \in Reconcilers : cleaner'[r].phase # "idle" =>
       /\ cleaner[r].phase # "idle" /\ cleaner'[r].attempt = cleaner[r].attempt
       /\ cleaner'[r].phase # "adopted" \/ cleaner[r].phase = "adopted"

LEMMA RowsKept ==
  ASSUME UInv, TypeOK', UNCHANGED rows, NothingStarts
  PROVE  UInv'
<1>1. TypeOK
  BY DEF UInv, ClaimsAgree
<1>2. ClaimsAgree'
  BY SameClaimsKeep DEF UInv, SameClaims, rows
<1>3. NewSessionsAreEmpty' /\ UnclaimedAreUntouched' /\ OriginalsAreOwn'
  BY <1>1 DEF UInv, NewSessionsAreEmpty, UnclaimedAreUntouched, OriginalsAreOwn, rows, NothingStarts, NoAttempt
<1>4. CleanersWorkOnEnded'
  BY DEF UInv, CleanersWorkOnEnded, rows, NothingStarts
<1>5. QuotaIsHonest'
  BY CeilingKept DEF UInv, QuotaIsHonest, QuotaAgrees, AttemptsOf, rows, Holding
<1> QED BY <1>2, <1>3, <1>4, <1>5 DEF UInv

LEMMA FileStepsKeep ==
  ASSUME UInv, NEW a \in Attempts,
         OpenPart(a) \/ LinkFinal(a) \/ UnlinkPart(a) \/ StreamFails(a) \/ DigestMismatch(a)
           \/ CommitRefused(a) \/ Recheck(a) \/ UndoStore(a) \/ WriterVanishes(a)
  PROVE  UInv'
<1>1. TypeOK
  BY DEF UInv, ClaimsAgree
<1>2. UNCHANGED rows /\ UNCHANGED cleaner
  BY DEF OpenPart, LinkFinal, UnlinkPart, StreamFails, DigestMismatch, CommitRefused,
         Recheck, UndoStore, WriterVanishes
<1>3. /\ writer[a] # "none"
      /\ \E phase \in {"streaming", "linked", "stored", "rechecking", "undoing", "rejecting", "gone"} :
           writer' = [writer EXCEPT ![a] = phase]
      /\ parts' \subseteq Attempts /\ objects' \subseteq Attempts
  BY <1>1 DEF OpenPart, LinkFinal, UnlinkPart, StreamFails, DigestMismatch, CommitRefused,
         Recheck, UndoStore, WriterVanishes, At, Goes, RemovalTried, Removed, files, TypeOK
<1>4. TypeOK'
  BY <1>1, <1>2, <1>3 DEF TypeOK, rows
<1>5. NothingStarts
  BY <1>1, <1>2, <1>3 DEF NothingStarts, TypeOK
<1> QED BY <1>2, <1>4, <1>5, RowsKept

LEMMA SweepsKeep ==
  ASSUME UInv, NEW r \in Reconcilers, RemoveFinal(r) \/ SweepParts(r) \/ ReconcilerCrash(r)
  PROVE  UInv'
<1>1. TypeOK
  BY DEF UInv, ClaimsAgree
<1>2. UNCHANGED rows /\ UNCHANGED writer
  BY DEF RemoveFinal, SweepParts, ReconcilerCrash
<1>3. /\ cleaner[r].phase # "idle"
      /\ \/ \E phase \in {"sweeping", "removed"} :
              cleaner' = [cleaner EXCEPT ![r] = [phase |-> phase, attempt |-> cleaner[r].attempt]]
         \/ cleaner' = [cleaner EXCEPT ![r] = [phase |-> "idle", attempt |-> None]]
      /\ parts' \subseteq Attempts /\ objects' \subseteq Attempts
  BY <1>1 DEF RemoveFinal, SweepParts, ReconcilerCrash, Turns, Removed, files, TypeOK
<1>4. TypeOK'
  <2>1. cleaner' \in [Reconcilers -> [phase : {"idle", "adopted", "removing", "sweeping", "removed"},
                                       attempt : Attempts \cup {None}]]
    <3>1. cleaner[r].attempt \in Attempts \cup {None}
      BY <1>1 DEF TypeOK
    <3> QED BY <1>1, <1>3, <3>1 DEF TypeOK
  <2> QED BY <1>1, <1>2, <1>3, <2>1 DEF TypeOK, rows
<1>5. NothingStarts
  BY <1>1, <1>2, <1>3 DEF NothingStarts, TypeOK
<1> QED BY <1>2, <1>4, <1>5, RowsKept
-----------------------------------------------------------------------------
(* The actions that end a reservation.                                     *)

\* A released intake failed, and each attempt of it is done with.
ReleasedIsDone(s, a) ==
  released[s] => /\ intake[s] = "FAILED"
                 /\ attempt[a].of = s => attempt[a].status \in Terminal /\ attempt[a].cleanup = "done"

\* If there is an attempt at all, the quota agrees when each attempt agrees.
LEMMA QuotaByAttempt ==
  (\A s \in Sessions : released[s] => intake[s] = "FAILED")
    /\ (\A s \in Sessions, a \in Attempts : ReleasedIsDone(s, a)) <=> QuotaAgrees
  BY DEF QuotaAgrees, AttemptsOf, ReleasedIsDone

LEMMA EndingKeeps ==
  ASSUME UInv, NEW s \in Sessions, Ends(s),
         released' \in [Sessions -> BOOLEAN],
         \A t \in Sessions : released'[t] <=> released[t] \/ (t = s /\ Clean(attempt', s)),
         batch' \in [Sessions -> {"NONE", "RUNNING", "FAILED"}],
         \/ writer' = writer
         \/ \E a \in Attempts : writer[a] # "none" /\ writer' = [writer EXCEPT ![a] = "gone"],
         UNCHANGED <<cleaner, files>>
  PROVE  UInv'
<1>1. TypeOK
  BY DEF UInv, ClaimsAgree
<1>2. TypeOK'
  BY <1>1, EndTypes DEF TypeOK, files, AttemptRow, SessionRow
<1>3. /\ ClaimsAgree'
      /\ \A b \in Attempts : 
           /\ attempt'[b].of = attempt[b].of /\ attempt'[b].cleanup = attempt[b].cleanup
           /\ attempt[b].status \in Terminal => attempt'[b].status \in Terminal
           /\ attempt[b].status \notin Receiving => attempt'[b] = attempt[b]
      /\ \A t \in Sessions :
           /\ asset'[t].key = asset[t].key
           /\ t # s => session'[t] = session[t] /\ intake'[t] = intake[t]
      /\ session'[s].status \in {"EXPIRED", "REJECTED"} /\ intake'[s] = "FAILED"
  BY <1>2, EndKeeps DEF UInv
<1>4. NewSessionsAreEmpty'
  BY <1>3 DEF UInv, NewSessionsAreEmpty
<1>5. UnclaimedAreUntouched'
  <2> SUFFICES ASSUME NEW a \in Attempts, attempt'[a].of = None
               PROVE  attempt'[a] = NoAttempt /\ writer'[a] = "none"
    BY DEF UnclaimedAreUntouched, NoAttempt
  <2>1. attempt[a] = NoAttempt /\ writer[a] = "none"
    BY <1>3 DEF UInv, UnclaimedAreUntouched
  <2>2. attempt[a].status \notin Receiving
    BY <2>1 DEF NoAttempt, Receiving
  <2> QED BY <2>1, <2>2, <1>1, <1>3 DEF TypeOK
<1>6. OriginalsAreOwn' /\ CleanersWorkOnEnded'
  BY <1>1, <1>3 DEF UInv, OriginalsAreOwn, CleanersWorkOnEnded, TypeOK
<1>7. QuotaAgrees'
  <2>1. \A t \in Sessions : released'[t] => intake'[t] = "FAILED"
    BY <1>3, QuotaByAttempt DEF UInv, QuotaIsHonest
  <2>2. ASSUME NEW t \in Sessions, NEW a \in Attempts
        PROVE  ReleasedIsDone(t, a)'
    <3>1. CASE released[t]
      BY <3>1, <1>3, <2>1, QuotaByAttempt DEF UInv, QuotaIsHonest, ReleasedIsDone
    <3>2. CASE t = s /\ Clean(attempt', s)
      BY <3>2, <1>3, CleanMeansDone DEF AttemptsOf, ReleasedIsDone
    <3> QED BY <3>1, <3>2 DEF ReleasedIsDone
  <2> QED BY <2>1, <2>2 DEF QuotaAgrees, AttemptsOf, ReleasedIsDone
<1>8. Holding' \subseteq Holding
  <2>1. intake[s] # "NONE"
    BY DEF UInv, ClaimsAgree, Ends
  <2> QED BY <2>1, <1>1, <1>3 DEF Holding, TypeOK
<1> QED BY <1>3, <1>4, <1>5, <1>6, <1>7, <1>8, CeilingKept DEF UInv, QuotaIsHonest

LEMMA ExpiryKeeps ==
  ASSUME UInv, NEW s \in Sessions, claimUploadExpires(s) \/ ExpireSession(s)
  PROVE  UInv'
<1>1. TypeOK
  BY DEF UInv, ClaimsAgree
<1>2. Ends(s)
  BY DEF claimUploadExpires, ExpireSession, failBrowserDocumentIntake, Ends, Terminal
<1>3. /\ released' \in [Sessions -> BOOLEAN]
      /\ \A t \in Sessions : released'[t] <=> released[t] \/ (t = s /\ Clean(attempt', s))
  <2>1. CASE claimUploadExpires(s)
    <3>1. ~released[s] /\ released' = [released EXCEPT ![s] = Clean(attempt', s)]
      BY <2>1 DEF claimUploadExpires, failBrowserDocumentIntake
    <3>2. Clean(attempt', s) \in BOOLEAN
      BY DEF Clean
    <3> QED BY <1>1, <3>1, <3>2 DEF TypeOK
  <2>2. CASE ExpireSession(s)
    <3>1. released' = [released EXCEPT ![s] = released[s] \/ Clean(attempt', s)]
      BY <2>2 DEF ExpireSession
    <3> QED BY <1>1, <3>1 DEF TypeOK
  <2> QED BY <2>1, <2>2
<1>4. /\ batch' \in [Sessions -> {"NONE", "RUNNING", "FAILED"}]
      /\ UNCHANGED <<writer, cleaner, files>>
  BY <1>1 DEF claimUploadExpires, ExpireSession, TypeOK
<1> QED BY <1>2, <1>3, <1>4, EndingKeeps

LEMMA RejectionKeeps ==
  ASSUME UInv, NEW a \in Attempts, rejectClaim(a)
  PROVE  UInv'
<1> DEFINE s == attempt[a].of
<1>1. TypeOK /\ writer[a] = "rejecting" /\ writer' = [writer EXCEPT ![a] = "gone"]
      /\ UNCHANGED <<cleaner, files>>
  BY DEF UInv, ClaimsAgree, rejectClaim, At, Goes
<1>2. s \in Sessions
  BY <1>1 DEF UInv, UnclaimedAreUntouched, TypeOK
<1>3. CASE RejectsOwn(s, a)
  <2>1. Ends(s)
    BY <1>2, <1>3 DEF rejectClaim, RejectsOwn, Ends, Terminal, Active, failBrowserDocumentIntake
  <2>2. /\ released' \in [Sessions -> BOOLEAN]
        /\ \A t \in Sessions : released'[t] <=> released[t] \/ (t = s /\ Clean(attempt', s))
    <3>1. ~released[s] /\ released' = [released EXCEPT ![s] = Clean(attempt', s)]
      BY <1>3 DEF rejectClaim, failBrowserDocumentIntake
    <3>2. Clean(attempt', s) \in BOOLEAN
      BY DEF Clean
    <3> QED BY <1>1, <1>2, <3>1, <3>2 DEF TypeOK
  <2>3. batch' \in [Sessions -> {"NONE", "RUNNING", "FAILED"}]
    BY <1>1, <1>2, <1>3 DEF rejectClaim, TypeOK
  <2>4. writer[a] # "none"
    BY <1>1
  <2> HIDE DEF s
  <2> QED BY <1>1, <1>2, <2>1, <2>2, <2>3, <2>4, EndingKeeps
<1>4. CASE ~RejectsOwn(s, a)
  <2>1. UNCHANGED rows
    BY <1>4 DEF rejectClaim, rows
  <2>2. TypeOK'
    BY <1>1, <2>1 DEF TypeOK, rows, files
  <2>3. NothingStarts
    BY <1>1 DEF NothingStarts, TypeOK
  <2> QED BY <2>1, <2>2, <2>3, RowsKept
<1> QED BY <1>3, <1>4
-----------------------------------------------------------------------------
(* The other actions.                                                      *)

LEMMA ReservationKeeps ==
  ASSUME UInv, NEW s \in Sessions, createWorkspaceUploadSession(s)
  PROVE  UInv'
<1>1. TypeOK
  BY DEF UInv, ClaimsAgree
<1>2. TypeOK'
  <2>1. session' \in [Sessions -> SessionRow]
    <3>1. session' = [session EXCEPT ![s] = [session[s] EXCEPT !.status = "ISSUED", !.left = SessionTtl]]
      BY Zenon DEF createWorkspaceUploadSession
    <3>2. session \in [Sessions -> SessionRow] /\ session[s] \in SessionRow
      BY <1>1 DEF TypeOK, SessionRow
    <3>3. session' = [session EXCEPT ![s] = [status |-> "ISSUED", claim |-> session[s].claim,
                                              left |-> SessionTtl, lease |-> session[s].lease]]
      BY <3>1, <3>2, ReservedRow
    <3> QED BY <3>2, <3>3, UploadBounds DEF UploadBounds, SessionRow, Active
  <2> QED BY <1>1, <2>1 DEF createWorkspaceUploadSession, TypeOK, files, SessionRow
<1>3. /\ session[s].status = "NONE" /\ intake[s] = "NONE" /\ ~released[s]
      /\ session'[s].status = "ISSUED" /\ session'[s].claim = session[s].claim
      /\ intake'[s] = "RESERVED"
      /\ \A t \in Sessions : t # s => session'[t] = session[t] /\ intake'[t] = intake[t]
      /\ UNCHANGED <<released, asset, attempt, writer, cleaner>>
  BY <1>1 DEF createWorkspaceUploadSession, UInv, NewSessionsAreEmpty, QuotaIsHonest, QuotaAgrees, TypeOK
<1>4. ClaimsAgree'
  <2>1. ASSUME NEW a \in Attempts
        PROVE  /\ (attempt[a].status \in Receiving <=> attempt[a].of # None /\ session[attempt[a].of].claim = a)'
               /\ (attempt[a].status = "COMMITTED" <=>
                     attempt[a].of # None /\ session[attempt[a].of].status = "STORED" /\ asset[attempt[a].of].key = a)'
    <3>1. attempt[a].of \in Sessions \cup {None}
      BY <1>1 DEF TypeOK
    <3> QED BY <3>1, <1>3 DEF UInv, ClaimsAgree
  <2>2. ASSUME NEW t \in Sessions
        PROVE  /\ (session[t].claim # None <=> session[t].status = "RECEIVING")'
               /\ (session[t].claim # None => attempt[session[t].claim].of = t)'
               /\ (session[t].status \in Active <=> intake[t] \in {"RESERVED", "RECEIVING"})'
               /\ (session[t].status = "STORED" <=> asset[t].key # None)'
    <3>1. /\ session[t].claim # None <=> session[t].status = "RECEIVING"
          /\ session[t].claim # None => attempt[session[t].claim].of = t
          /\ session[t].status \in Active <=> intake[t] \in {"RESERVED", "RECEIVING"}
          /\ session[t].status = "STORED" <=> asset[t].key # None
      BY DEF UInv, ClaimsAgree
    <3> QED BY <3>1, <1>3 DEF Active
  <2> QED BY <1>2, <2>1, <2>2 DEF ClaimsAgree
<1>5. NewSessionsAreEmpty' /\ UnclaimedAreUntouched' /\ OriginalsAreOwn' /\ CleanersWorkOnEnded'
  BY <1>3 DEF UInv, NewSessionsAreEmpty, UnclaimedAreUntouched, OriginalsAreOwn, CleanersWorkOnEnded, NoAttempt
<1>6. QuotaAgrees'
  BY <1>3 DEF UInv, QuotaIsHonest, QuotaAgrees, AttemptsOf
<1>7. ReservationsWithinCeiling'
  <2>1. Holding' \subseteq Holding \cup {s}
    BY <1>3 DEF Holding
  <2> QED BY <2>1, CeilingGuarded DEF UInv, QuotaIsHonest, createWorkspaceUploadSession
<1> QED BY <1>4, <1>5, <1>6, <1>7 DEF UInv, QuotaIsHonest

LEMMA ClaimKeeps ==
  ASSUME UInv, NEW s \in Sessions, NEW a \in Attempts, claimUpload(s, a)
  PROVE  UInv'
<1> DEFINE c == session[s].claim
<1> DEFINE rws == ClosedAttempt(attempt, c, "ABANDONED")
<1>1. TypeOK /\ ClaimsAgree
  BY DEF UInv, ClaimsAgree
<1>2. attempt[a] = NoAttempt
  <2>1. Fresh # {} /\ a = CHOOSE b \in Fresh : TRUE
    BY UploadBounds DEF UploadBounds, claimUpload, FreshAttempt
  <2> QED BY <2>1 DEF Fresh
<1>3. /\ attempt[a].of = None /\ attempt[a].status = "NONE" /\ attempt[a].cleanup = "pending"
      /\ attempt[a].wait = 0
  BY <1>2 DEF NoAttempt
<1>4. /\ c \in Attempts \cup {None} /\ c # a
      /\ c # None => attempt[c].of = s /\ attempt[c].status \in Receiving
  <2>1. c \in Attempts \cup {None}
    BY <1>1 DEF TypeOK
  <2>2. c # None => attempt[c].of = s /\ attempt[c].status \in Receiving
    BY <1>1, <2>1, UploadBounds DEF UploadBounds, ClaimsAgree
  <2> QED BY <2>1, <2>2, <1>3, UploadBounds DEF UploadBounds
<1>5. /\ rws \in [Attempts -> AttemptRow]
      /\ ClosedRows(attempt, rws, c, "ABANDONED")
  <2>1. attempt \in [Attempts -> AttemptRow] /\ "ABANDONED" \in Terminal
    BY <1>1 DEF TypeOK, AttemptRow, Terminal
  <2> HIDE DEF c
  <2> QED BY <1>4, <2>1, ClosingAnAttempt
<1>6. attempt' = [rws EXCEPT ![a].of = s, ![a].status = "RECEIVING"]
  BY DEF claimUpload
<1>7. /\ attempt' \in [Attempts -> AttemptRow]
      /\ attempt'[a] = [of |-> s, status |-> "RECEIVING", wait |-> 0, cleanup |-> "pending"]
      /\ \A b \in Attempts : b # a => attempt'[b] = rws[b]
  <2>1. rws[a] = [of |-> None, status |-> "NONE", wait |-> 0, cleanup |-> "pending"]
    BY <1>5, <1>4, <1>2, <1>3 DEF ClosedRows, NoAttempt
  <2>2. attempt'[a] = [of |-> s, status |-> "RECEIVING", wait |-> 0, cleanup |-> "pending"]
    <3> HIDE DEF rws
    <3>1. attempt' = [rws EXCEPT ![a] = [rws[a] EXCEPT !.of = s, !.status = "RECEIVING"]]
      BY <1>6, Zenon
    <3>2. [rws[a] EXCEPT !.of = s, !.status = "RECEIVING"]
            = [of |-> s, status |-> "RECEIVING", wait |-> 0, cleanup |-> "pending"]
      <4> HIDE DEF rws
      <4>1. rws[a] \in AttemptRow /\ rws[a].wait = 0 /\ rws[a].cleanup = "pending"
        BY <1>5, <2>1
      <4>2. [rws[a] EXCEPT !.of = s, !.status = "RECEIVING"]
              = [of |-> s, status |-> "RECEIVING", wait |-> rws[a].wait, cleanup |-> rws[a].cleanup]
        BY <4>1, DrawnRow, Zenon
      <4> QED BY <4>1, <4>2, Zenon
    <3>3. attempt'[a] = [rws[a] EXCEPT !.of = s, !.status = "RECEIVING"]
      BY <1>5, <3>1, Zenon
    <3> QED BY <3>2, <3>3, Zenon
  <2>3. attempt'[a] \in AttemptRow
    BY <2>2, UploadBounds DEF UploadBounds, AttemptRow, Receiving
  <2> HIDE DEF rws
  <2> QED BY <1>5, <1>6, <2>2, <2>3
<1>8. \A b \in Attempts : b # a =>
        /\ attempt'[b].of = attempt[b].of /\ attempt'[b].cleanup = attempt[b].cleanup
        /\ attempt'[b].status = IF b = c THEN "ABANDONED" ELSE attempt[b].status
        /\ b # c => attempt'[b] = attempt[b]
  <2> HIDE DEF rws, c
  <2> QED BY <1>4, <1>5, <1>7, UploadBounds DEF UploadBounds, ClosedRows
<1>9. /\ session[s].status \in Active /\ intake[s] \in {"RESERVED", "RECEIVING"} /\ ~released[s]
      /\ session'[s].status = "RECEIVING" /\ session'[s].claim = a /\ intake'[s] = "RECEIVING"
      /\ \A t \in Sessions : t # s => session'[t] = session[t] /\ intake'[t] = intake[t]
      /\ writer' = [writer EXCEPT ![a] = "opening"]
      /\ UNCHANGED <<released, asset, batch, cleaner, files>>
  BY <1>1 DEF claimUpload, TypeOK
<1>10. TypeOK'
  <2>1. session' \in [Sessions -> SessionRow]
    <3>1. session' = [session EXCEPT ![s] =
                        [session[s] EXCEPT !.status = "RECEIVING", !.claim = a, !.lease = LeaseTtl]]
      BY Zenon DEF claimUpload
    <3>2. session \in [Sessions -> SessionRow] /\ session[s] \in SessionRow
      BY <1>1 DEF TypeOK, SessionRow
    <3>3. [session[s] EXCEPT !.status = "RECEIVING", !.claim = a, !.lease = LeaseTtl]
            = [status |-> "RECEIVING", claim |-> a, left |-> session[s].left, lease |-> LeaseTtl]
      BY <3>2, ClaimedRow, Zenon
    <3>4. session' = [session EXCEPT ![s] = [status |-> "RECEIVING", claim |-> a,
                                              left |-> session[s].left, lease |-> LeaseTtl]]
      BY <3>1, <3>3, Zenon
    <3> QED BY <3>2, <3>4, UploadBounds DEF UploadBounds, SessionRow, Active
  <2>2. intake' \in [Sessions -> {"NONE", "RESERVED", "RECEIVING", "QUARANTINED", "VALIDATING", "FAILED"}]
    BY <1>1 DEF claimUpload, TypeOK
  <2> QED BY <1>1, <1>7, <1>9, <2>1, <2>2 DEF TypeOK, files, AttemptRow, SessionRow
<1> HIDE DEF rws, c
<1>11. ClaimsAgree'
  <2>1. session[s].claim = c /\ session[s].status # "STORED" /\ asset[s].key = None
    BY <1>1, <1>9 DEF c, ClaimsAgree, Active
  <2>2. ASSUME NEW b \in Attempts
        PROVE  /\ (attempt[b].status \in Receiving <=> attempt[b].of # None /\ session[attempt[b].of].claim = b)'
               /\ (attempt[b].status = "COMMITTED" <=>
                     attempt[b].of # None /\ session[attempt[b].of].status = "STORED" /\ asset[attempt[b].of].key = b)'
    <3>1. attempt[b].of \in Sessions \cup {None}
      BY <1>1 DEF TypeOK
    <3>2. CASE b = a
      BY <3>2, <1>7, <1>9, UploadBounds DEF UploadBounds, Receiving
    <3>3. CASE b # a
      <4>1. /\ attempt[b].status \in Receiving <=> attempt[b].of # None /\ session[attempt[b].of].claim = b
            /\ attempt[b].status = "COMMITTED" <=>
                 attempt[b].of # None /\ session[attempt[b].of].status = "STORED" /\ asset[attempt[b].of].key = b
        BY <1>1 DEF ClaimsAgree
      <4> QED BY <3>1, <3>3, <4>1, <2>1, <1>4, <1>8, <1>9, UploadBounds DEF UploadBounds, Receiving
    <3> QED BY <3>2, <3>3
  <2>3. ASSUME NEW t \in Sessions
        PROVE  /\ (session[t].claim # None <=> session[t].status = "RECEIVING")'
               /\ (session[t].claim # None => attempt[session[t].claim].of = t)'
               /\ (session[t].status \in Active <=> intake[t] \in {"RESERVED", "RECEIVING"})'
               /\ (session[t].status = "STORED" <=> asset[t].key # None)'
    <3>1. CASE t = s
      BY <3>1, <2>1, <1>7, <1>9, UploadBounds DEF UploadBounds, Active
    <3>2. CASE t # s
      <4>1. /\ session[t].claim # None <=> session[t].status = "RECEIVING"
            /\ session[t].claim # None => attempt[session[t].claim].of = t
            /\ session[t].status \in Active <=> intake[t] \in {"RESERVED", "RECEIVING"}
            /\ session[t].status = "STORED" <=> asset[t].key # None
            /\ session[t].claim \in Attempts \cup {None}
        BY <1>1 DEF ClaimsAgree, TypeOK
      <4>2. session[t].claim # a
        BY <4>1, <1>3, <3>2, UploadBounds DEF UploadBounds
      <4> QED BY <3>2, <4>1, <4>2, <1>8, <1>9
    <3> QED BY <3>1, <3>2
  <2> QED BY <1>10, <2>2, <2>3 DEF ClaimsAgree
<1>12. NewSessionsAreEmpty'
  BY <1>9 DEF UInv, NewSessionsAreEmpty
<1>13. UnclaimedAreUntouched'
  <2> SUFFICES ASSUME NEW b \in Attempts, attempt'[b].of = None
               PROVE  attempt'[b] = NoAttempt /\ writer'[b] = "none"
    BY DEF UnclaimedAreUntouched, NoAttempt
  <2>1. b # a
    BY <1>7, UploadBounds DEF UploadBounds
  <2>2. b # c
    BY <2>1, <1>4, <1>8, UploadBounds DEF UploadBounds
  <2> QED BY <2>1, <2>2, <1>1, <1>8, <1>9 DEF UInv, UnclaimedAreUntouched, TypeOK
<1>14. OriginalsAreOwn'
  <2> SUFFICES ASSUME NEW t \in Sessions, asset[t].key # None
               PROVE  attempt'[asset[t].key].of = t
    BY <1>9 DEF OriginalsAreOwn
  <2>1. asset[t].key \in Attempts /\ attempt[asset[t].key].of = t
    BY <1>1 DEF UInv, OriginalsAreOwn, TypeOK
  <2> QED BY <2>1, <1>3, <1>8, UploadBounds DEF UploadBounds
<1>15. CleanersWorkOnEnded'
  <2> SUFFICES ASSUME NEW r \in Reconcilers, cleaner[r].phase # "idle"
               PROVE  /\ cleaner[r].phase # "adopted" /\ cleaner[r].attempt \in Attempts
                      /\ attempt'[cleaner[r].attempt].status \in Terminal
    BY <1>9 DEF CleanersWorkOnEnded
  <2>1. /\ cleaner[r].phase # "adopted" /\ cleaner[r].attempt \in Attempts
        /\ attempt[cleaner[r].attempt].status \in Terminal
    BY DEF UInv, CleanersWorkOnEnded
  <2> QED BY <2>1, <1>3, <1>8 DEF Terminal
<1>16. QuotaAgrees'
  <2> SUFFICES ASSUME NEW t \in Sessions, released[t], NEW b \in Attempts
               PROVE  /\ intake'[t] = "FAILED"
                      /\ attempt'[b].of = t => attempt'[b].status \in Terminal /\ attempt'[b].cleanup = "done"
    <3>1. \A t \in Sessions : released[t] => intake'[t] = "FAILED"
      BY <1>9 DEF UInv, QuotaIsHonest, QuotaAgrees
    <3> QED BY <3>1, <1>9 DEF QuotaAgrees, AttemptsOf
  <2>1. t # s /\ intake[t] = "FAILED"
    BY <1>9 DEF UInv, QuotaIsHonest, QuotaAgrees
  <2>2. b # a => (attempt[b].of = t => attempt[b].status \in Terminal /\ attempt[b].cleanup = "done")
    BY DEF UInv, QuotaIsHonest, QuotaAgrees, AttemptsOf
  <2> QED BY <2>1, <2>2, <1>7, <1>8, <1>9 DEF Terminal
<1>17. Holding' \subseteq Holding
  BY <1>9 DEF Holding
<1> QED BY <1>11, <1>12, <1>13, <1>14, <1>15, <1>16, <1>17, CeilingKept DEF UInv, QuotaIsHonest

LEMMA WrittenKeeps ==
  ASSUME UInv, NEW a \in Attempts, markUploadAttemptWritten(a)
  PROVE  UInv'
<1>1. TypeOK /\ ClaimsAgree
  BY DEF UInv, ClaimsAgree
<1>2. /\ attempt[a].status = "RECEIVING" /\ writer[a] = "stored"
      /\ attempt' = [attempt EXCEPT ![a].status = "WRITTEN"]
      /\ \E phase \in {"written", "rechecking"} : writer' = [writer EXCEPT ![a] = phase]
      /\ UNCHANGED <<session, intake, released, asset, batch, cleaner, files>>
  BY DEF markUploadAttemptWritten, At, Goes
<1>3. TypeOK'
  <2>1. attempt' \in [Attempts -> AttemptRow]
    <3>1. attempt \in [Attempts -> AttemptRow] /\ "WRITTEN" \in Receiving
      BY <1>1 DEF TypeOK, AttemptRow, Receiving
    <3>2. attempt' = [attempt EXCEPT ![a].status = "WRITTEN"]
      BY <1>2
    <3> QED BY <3>1, <3>2 DEF AttemptRow
  <2> QED BY <1>1, <1>2, <2>1 DEF TypeOK, files, AttemptRow
<1>4. \A b \in Attempts :
        /\ attempt'[b].of = attempt[b].of /\ attempt'[b].cleanup = attempt[b].cleanup
        /\ attempt'[b].status = IF b = a THEN "WRITTEN" ELSE attempt[b].status
        /\ b # a => attempt'[b] = attempt[b] /\ writer'[b] = writer[b]
  BY <1>1, <1>2 DEF TypeOK
<1>5. ClaimsAgree'
  <2>1. ASSUME NEW b \in Attempts
        PROVE  /\ (attempt[b].status \in Receiving <=> attempt[b].of # None /\ session[attempt[b].of].claim = b)'
               /\ (attempt[b].status = "COMMITTED" <=>
                     attempt[b].of # None /\ session[attempt[b].of].status = "STORED" /\ asset[attempt[b].of].key = b)'
    BY <1>1, <1>2, <1>4 DEF ClaimsAgree, Receiving
  <2>2. ASSUME NEW t \in Sessions
        PROVE  /\ (session[t].claim # None <=> session[t].status = "RECEIVING")'
               /\ (session[t].claim # None => attempt[session[t].claim].of = t)'
               /\ (session[t].status \in Active <=> intake[t] \in {"RESERVED", "RECEIVING"})'
               /\ (session[t].status = "STORED" <=> asset[t].key # None)'
    BY <1>1, <1>2, <1>4 DEF ClaimsAgree, TypeOK
  <2> QED BY <1>3, <2>1, <2>2 DEF ClaimsAgree
<1>6. NewSessionsAreEmpty' /\ OriginalsAreOwn'
  BY <1>1, <1>2, <1>4 DEF UInv, NewSessionsAreEmpty, OriginalsAreOwn, TypeOK
<1>7. UnclaimedAreUntouched'
  BY <1>1, <1>2, <1>4 DEF UInv, UnclaimedAreUntouched, NoAttempt
<1>8. CleanersWorkOnEnded'
  BY <1>2, <1>4 DEF UInv, CleanersWorkOnEnded, Terminal
<1>9. QuotaAgrees'
  BY <1>2, <1>4 DEF UInv, QuotaIsHonest, QuotaAgrees, AttemptsOf, Terminal
<1>10. Holding' \subseteq Holding
  BY <1>2 DEF Holding
<1> QED BY <1>5, <1>6, <1>7, <1>8, <1>9, <1>10, CeilingKept DEF UInv, QuotaIsHonest

LEMMA FinalizeKeeps ==
  ASSUME UInv, NEW a \in Attempts, finalizeUpload(a)
  PROVE  UInv'
<1> DEFINE s == attempt[a].of
<1>1. TypeOK /\ ClaimsAgree
  BY DEF UInv, ClaimsAgree
<1>2. writer[a] = "written" /\ attempt[a].status \in Receiving
  BY DEF finalizeUpload, At
<1>3. s \in Sessions /\ s # None /\ session[s].claim = a
  BY <1>1, <1>2, UploadBounds DEF UploadBounds, ClaimsAgree, TypeOK
<1>4. /\ session[s].status = "RECEIVING" /\ intake[s] = "RECEIVING" /\ ~released[s]
      /\ session' = [session EXCEPT ![s] = [status |-> "STORED", claim |-> None, left |-> 0, lease |-> 0]]
      /\ intake' = [intake EXCEPT ![s] = "QUARANTINED"]
      /\ asset' = [asset EXCEPT ![s] = [status |-> "QUARANTINED", key |-> a]]
      /\ batch' = [batch EXCEPT ![s] = "RUNNING"]
      /\ attempt' = [attempt EXCEPT ![a].status = "COMMITTED"]
      /\ \E phase \in {"gone", "rechecking"} : writer' = [writer EXCEPT ![a] = phase]
      /\ UNCHANGED <<released, cleaner, files>>
  BY DEF finalizeUpload, ClaimLive, Closed, Goes
<1> HIDE DEF s
<1>5. TypeOK'
  <2>1. attempt' \in [Attempts -> AttemptRow] /\ session' \in [Sessions -> SessionRow]
    <3>1. attempt \in [Attempts -> AttemptRow] /\ session \in [Sessions -> SessionRow]
      BY <1>1 DEF TypeOK, AttemptRow, SessionRow
    <3>2. attempt' = [attempt EXCEPT ![a].status = "COMMITTED"]
      BY <1>4
    <3>3. session' = [session EXCEPT ![s] = [status |-> "STORED", claim |-> None, left |-> 0, lease |-> 0]]
      BY <1>4
    <3>4. attempt' \in [Attempts -> AttemptRow]
      <4>1. attempt[a] \in AttemptRow
        BY <3>1
      <4>2. [attempt[a] EXCEPT !.status = "COMMITTED"] \in AttemptRow
        BY <4>1 DEF AttemptRow
      <4> QED BY <3>1, <3>2, <4>2
    <3>5. session' \in [Sessions -> SessionRow]
      <4>1. [status |-> "STORED", claim |-> None, left |-> 0, lease |-> 0] \in SessionRow
        BY UploadBounds DEF UploadBounds, SessionRow
      <4> QED BY <3>1, <3>3, <4>1
    <3> QED BY <3>4, <3>5
  <2>2. asset' \in [Sessions -> [status : {"UPLOADING", "QUARANTINED", "REJECTED"},
                                 key : Attempts \cup {None}]]
    BY <1>1, <1>4 DEF TypeOK
  <2>3. intake' \in [Sessions -> {"NONE", "RESERVED", "RECEIVING", "QUARANTINED", "VALIDATING", "FAILED"}]
    BY <1>1, <1>4 DEF TypeOK
  <2> QED BY <1>1, <1>4, <2>1, <2>2, <2>3 DEF TypeOK, files, AttemptRow, SessionRow
<1>6. /\ \A b \in Attempts :
           /\ attempt'[b].of = attempt[b].of /\ attempt'[b].cleanup = attempt[b].cleanup
           /\ attempt'[b].status = IF b = a THEN "COMMITTED" ELSE attempt[b].status
           /\ b # a => attempt'[b] = attempt[b] /\ writer'[b] = writer[b]
      /\ session'[s].status = "STORED" /\ session'[s].claim = None
      /\ intake'[s] = "QUARANTINED" /\ asset'[s].key = a
      /\ \A t \in Sessions : t # s =>
           session'[t] = session[t] /\ intake'[t] = intake[t] /\ asset'[t] = asset[t]
  BY <1>1, <1>3, <1>4 DEF TypeOK
<1>7. ClaimsAgree'
  <2>1. ASSUME NEW b \in Attempts
        PROVE  /\ (attempt[b].status \in Receiving <=> attempt[b].of # None /\ session[attempt[b].of].claim = b)'
               /\ (attempt[b].status = "COMMITTED" <=>
                     attempt[b].of # None /\ session[attempt[b].of].status = "STORED" /\ asset[attempt[b].of].key = b)'
    <3>1. CASE b = a
      BY <3>1, <1>3, <1>6, UploadBounds DEF UploadBounds, s, Receiving
    <3>2. CASE b # a
      <4>1. /\ attempt[b].status \in Receiving <=> attempt[b].of # None /\ session[attempt[b].of].claim = b
            /\ attempt[b].status = "COMMITTED" <=>
                 attempt[b].of # None /\ session[attempt[b].of].status = "STORED" /\ asset[attempt[b].of].key = b
            /\ attempt[b].of \in Sessions \cup {None}
        BY <1>1 DEF ClaimsAgree, TypeOK
      <4> QED BY <3>2, <4>1, <1>3, <1>4, <1>6, UploadBounds DEF UploadBounds
    <3> QED BY <3>1, <3>2
  <2>2. ASSUME NEW t \in Sessions
        PROVE  /\ (session[t].claim # None <=> session[t].status = "RECEIVING")'
               /\ (session[t].claim # None => attempt[session[t].claim].of = t)'
               /\ (session[t].status \in Active <=> intake[t] \in {"RESERVED", "RECEIVING"})'
               /\ (session[t].status = "STORED" <=> asset[t].key # None)'
    <3>1. CASE t = s
      BY <3>1, <1>6, UploadBounds DEF UploadBounds, Active
    <3>2. CASE t # s
      <4>1. session[t].claim \in Attempts \cup {None}
        BY <1>1 DEF TypeOK
      <4> QED BY <3>2, <4>1, <1>1, <1>6 DEF ClaimsAgree
    <3> QED BY <3>1, <3>2
  <2> QED BY <1>5, <2>1, <2>2 DEF ClaimsAgree
<1>8. NewSessionsAreEmpty'
  BY <1>6 DEF UInv, NewSessionsAreEmpty
<1>9. OriginalsAreOwn'
  <2> SUFFICES ASSUME NEW t \in Sessions, asset'[t].key # None
               PROVE  attempt'[asset'[t].key].of = t
    BY DEF OriginalsAreOwn
  <2>1. CASE t = s
    BY <2>1, <1>6 DEF s
  <2>2. CASE t # s
    BY <2>2, <1>1, <1>6 DEF UInv, OriginalsAreOwn, TypeOK
  <2> QED BY <2>1, <2>2
<1>10. UnclaimedAreUntouched'
  BY <1>3, <1>6 DEF UInv, UnclaimedAreUntouched, NoAttempt, s
<1>11. CleanersWorkOnEnded'
  BY <1>2, <1>4, <1>6 DEF UInv, CleanersWorkOnEnded, Terminal, Receiving
<1>12. QuotaAgrees'
  BY <1>1, <1>2, <1>3, <1>4, <1>6 DEF UInv, QuotaIsHonest, QuotaAgrees, AttemptsOf, Terminal, Receiving
<1>13. Holding' \subseteq Holding
  BY <1>1, <1>4, <1>6 DEF Holding
<1> QED BY <1>7, <1>8, <1>9, <1>10, <1>11, <1>12, <1>13, CeilingKept DEF UInv, QuotaIsHonest

LEMMA ReleaseKeeps ==
  ASSUME UInv, NEW s \in Sessions, ReleaseReceiveLease(s)
  PROVE  UInv'
<1> DEFINE c == session[s].claim
<1>1. TypeOK /\ ClaimsAgree
  BY DEF UInv, ClaimsAgree
<1>2. /\ session[s].status = "RECEIVING" /\ intake[s] = "RECEIVING"
      /\ attempt' = ClosedAttempt(attempt, c, "ABANDONED")
      /\ UNCHANGED <<intake, released, asset, batch, writer, cleaner, files>>
  BY DEF ReleaseReceiveLease, ReleasedAttempt
<1>3. /\ c \in Attempts /\ attempt[c].of = s /\ attempt[c].status \in Receiving
  BY <1>1, <1>2, UploadBounds DEF UploadBounds, ClaimsAgree, TypeOK
<1>4. attempt' \in [Attempts -> AttemptRow] /\ ClosedRows(attempt, attempt', c, "ABANDONED")
  <2>1. attempt \in [Attempts -> AttemptRow] /\ "ABANDONED" \in Terminal
    BY <1>1 DEF TypeOK, AttemptRow, Terminal
  <2> HIDE DEF c
  <2> QED BY <1>2, <1>3, <2>1, ClosingAnAttempt
<1>5. session' \in [Sessions -> SessionRow]
  <2>1. session[s] \in SessionRow /\ session \in [Sessions -> SessionRow]
    BY <1>1 DEF TypeOK, SessionRow
  <2>2. session' = [session EXCEPT ![s] = [session[s] EXCEPT !.status = "ISSUED", !.claim = None]]
    BY Zenon DEF ReleaseReceiveLease
  <2>3. [session[s] EXCEPT !.status = "ISSUED", !.claim = None]
          = [status |-> "ISSUED", claim |-> None, left |-> session[s].left, lease |-> session[s].lease]
    BY <2>1, ReleasedRow, Zenon
  <2>4. session' = [session EXCEPT ![s] = [status |-> "ISSUED", claim |-> None,
                                            left |-> session[s].left, lease |-> session[s].lease]]
    BY <2>2, <2>3, Zenon
  <2> QED BY <2>1, <2>4 DEF SessionRow, Active
<1>6. /\ session'[s].status = "ISSUED" /\ session'[s].claim = None
      /\ \A t \in Sessions : t # s => session'[t] = session[t]
  BY <1>1 DEF ReleaseReceiveLease, TypeOK
<1>7. TypeOK'
  BY <1>1, <1>2, <1>4, <1>5 DEF TypeOK, AttemptRow, SessionRow, files
<1>8. \A b \in Attempts :
        /\ attempt'[b].of = attempt[b].of /\ attempt'[b].cleanup = attempt[b].cleanup
        /\ attempt'[b].status = IF b = c THEN "ABANDONED" ELSE attempt[b].status
        /\ b # c => attempt'[b] = attempt[b]
  <2> HIDE DEF c
  <2> QED BY <1>3, <1>4 DEF ClosedRows
<1> HIDE DEF c
<1>9. ClaimsAgree'
  <2>1. session[s].claim = c /\ session[s].status # "STORED" /\ asset[s].key = None
    BY <1>1, <1>2 DEF c, ClaimsAgree
  <2>2. ASSUME NEW b \in Attempts
        PROVE  /\ (attempt[b].status \in Receiving <=> attempt[b].of # None /\ session[attempt[b].of].claim = b)'
               /\ (attempt[b].status = "COMMITTED" <=>
                     attempt[b].of # None /\ session[attempt[b].of].status = "STORED" /\ asset[attempt[b].of].key = b)'
    <3>1. /\ attempt[b].status \in Receiving <=> attempt[b].of # None /\ session[attempt[b].of].claim = b
          /\ attempt[b].status = "COMMITTED" <=>
               attempt[b].of # None /\ session[attempt[b].of].status = "STORED" /\ asset[attempt[b].of].key = b
          /\ attempt[b].of \in Sessions \cup {None}
      BY <1>1 DEF ClaimsAgree, TypeOK
    <3> QED BY <3>1, <2>1, <1>2, <1>3, <1>6, <1>8, UploadBounds DEF UploadBounds, Receiving
  <2>3. ASSUME NEW t \in Sessions
        PROVE  /\ (session[t].claim # None <=> session[t].status = "RECEIVING")'
               /\ (session[t].claim # None => attempt[session[t].claim].of = t)'
               /\ (session[t].status \in Active <=> intake[t] \in {"RESERVED", "RECEIVING"})'
               /\ (session[t].status = "STORED" <=> asset[t].key # None)'
    <3>1. CASE t = s
      BY <3>1, <2>1, <1>2, <1>6 DEF Active
    <3>2. CASE t # s
      <4>1. session[t].claim \in Attempts \cup {None}
        BY <1>1 DEF TypeOK
      <4> QED BY <3>2, <4>1, <1>1, <1>2, <1>6, <1>8 DEF ClaimsAgree
    <3> QED BY <3>1, <3>2
  <2> QED BY <1>7, <2>2, <2>3 DEF ClaimsAgree
<1>10. NewSessionsAreEmpty' /\ OriginalsAreOwn'
  BY <1>1, <1>2, <1>6, <1>8 DEF UInv, NewSessionsAreEmpty, OriginalsAreOwn, TypeOK
<1>11. UnclaimedAreUntouched'
  BY <1>2, <1>3, <1>8, UploadBounds DEF UploadBounds, UInv, UnclaimedAreUntouched, NoAttempt
<1>12. CleanersWorkOnEnded'
  BY <1>2, <1>8 DEF UInv, CleanersWorkOnEnded, Terminal
<1>13. QuotaAgrees'
  BY <1>2, <1>8 DEF UInv, QuotaIsHonest, QuotaAgrees, AttemptsOf, Terminal
<1>14. Holding' \subseteq Holding
  BY <1>2 DEF Holding
<1> QED BY <1>9, <1>10, <1>11, <1>12, <1>13, <1>14, CeilingKept DEF UInv, QuotaIsHonest

LEMMA ValidationKeeps ==
  ASSUME UInv, NEW s \in Sessions, ValidationMoves(s)
  PROVE  UInv'
<1>1. TypeOK /\ ClaimsAgree
  BY DEF UInv, ClaimsAgree
<1>2. /\ intake[s] \in {"QUARANTINED", "VALIDATING"} /\ intake'[s] \in {"VALIDATING", "FAILED"}
      /\ \A t \in Sessions : t # s => intake'[t] = intake[t]
      /\ UNCHANGED <<session, released, asset, batch, attempt, writer, cleaner, files>>
  BY <1>1 DEF ValidationMoves, TypeOK
<1>3. TypeOK'
  <2>1. intake' \in [Sessions -> {"NONE", "RESERVED", "RECEIVING", "QUARANTINED", "VALIDATING", "FAILED"}]
    BY <1>1 DEF ValidationMoves, TypeOK
  <2> QED BY <1>1, <1>2, <2>1 DEF TypeOK, files
<1>4. ClaimsAgree'
  BY <1>1, <1>2, <1>3, SameClaimsKeep DEF SameClaims
<1>5. NewSessionsAreEmpty' /\ UnclaimedAreUntouched' /\ OriginalsAreOwn' /\ CleanersWorkOnEnded'
  BY <1>2 DEF UInv, NewSessionsAreEmpty, UnclaimedAreUntouched, OriginalsAreOwn, CleanersWorkOnEnded, NoAttempt
<1>6. QuotaAgrees' /\ Holding' \subseteq Holding
  BY <1>2 DEF UInv, QuotaIsHonest, QuotaAgrees, AttemptsOf, Holding
<1> QED BY <1>4, <1>5, <1>6, CeilingKept DEF UInv, QuotaIsHonest

LEMMA TickKeeps ==
  ASSUME UInv, Tick
  PROVE  UInv'
<1>1. TypeOK /\ ClaimsAgree
  BY DEF UInv, ClaimsAgree
<1>2. /\ session' = [s \in Sessions |-> [session[s] EXCEPT !.left = Less(session[s].left),
                                                          !.lease = Less(session[s].lease)]]
      /\ attempt' = [a \in Attempts |-> [attempt[a] EXCEPT !.wait = Less(attempt[a].wait)]]
  BY Zenon DEF Tick
<1> UNCHANGED <<intake, released, asset, batch, writer, cleaner, files>>
  BY DEF Tick
<1>3. ASSUME NEW s \in Sessions
      PROVE  /\ session'[s] \in SessionRow
             /\ session'[s].status = session[s].status /\ session'[s].claim = session[s].claim
  <2>1. session[s] \in SessionRow
    BY <1>1 DEF TypeOK, SessionRow
  <2>2. session'[s] = [session[s] EXCEPT !.left = Less(session[s].left), !.lease = Less(session[s].lease)]
    BY <1>2, Zenon
  <2>3. [session[s] EXCEPT !.left = Less(session[s].left), !.lease = Less(session[s].lease)]
          = [status |-> session[s].status, claim |-> session[s].claim,
             left |-> Less(session[s].left), lease |-> Less(session[s].lease)]
    BY <2>1, TickedRow, Zenon
  <2>4. session'[s] = [status |-> session[s].status, claim |-> session[s].claim,
                       left |-> Less(session[s].left), lease |-> Less(session[s].lease)]
    BY <2>2, <2>3, Zenon
  <2>5. Less(session[s].left) \in 0..SessionTtl /\ Less(session[s].lease) \in 0..LeaseTtl
    BY <2>1, LessStays, UploadBounds DEF UploadBounds, SessionRow
  <2> QED BY <2>1, <2>4, <2>5 DEF SessionRow
<1>4. ASSUME NEW a \in Attempts
      PROVE  /\ attempt'[a] \in AttemptRow
             /\ attempt'[a].of = attempt[a].of /\ attempt'[a].status = attempt[a].status
             /\ attempt'[a].cleanup = attempt[a].cleanup
             /\ attempt[a].wait = 0 => attempt'[a] = attempt[a]
  <2>1. attempt[a] \in AttemptRow
    BY <1>1 DEF TypeOK, AttemptRow
  <2>2. attempt'[a] = [attempt[a] EXCEPT !.wait = Less(attempt[a].wait)]
    BY <1>2, Zenon
  <2>3. Less(attempt[a].wait) \in 0..CleanupLease
    BY <2>1, LessStays, UploadBounds DEF UploadBounds, AttemptRow
  <2>4. attempt[a].wait = 0 => Less(attempt[a].wait) = attempt[a].wait
    BY DEF Less
  <2> HIDE DEF Less
  <2> QED BY <2>1, <2>2, <2>3, <2>4 DEF AttemptRow
<1>5. TypeOK'
  <2>1. session' \in [Sessions -> SessionRow] /\ attempt' \in [Attempts -> AttemptRow]
    <3>1. /\ session' = [s \in Sessions |-> session'[s]]
          /\ attempt' = [a \in Attempts |-> attempt'[a]]
      BY <1>2, Zenon
    <3> QED BY <1>3, <1>4, <3>1
  <2> QED BY <1>1, <2>1 DEF TypeOK, SessionRow, AttemptRow, files
<1>6. ClaimsAgree'
  BY <1>1, <1>3, <1>4, <1>5, SameClaimsKeep DEF SameClaims
<1>7. NewSessionsAreEmpty' /\ OriginalsAreOwn'
  BY <1>1, <1>3, <1>4 DEF UInv, NewSessionsAreEmpty, OriginalsAreOwn, TypeOK
<1>8. CleanersWorkOnEnded'
  BY <1>4 DEF UInv, CleanersWorkOnEnded
<1>9. UnclaimedAreUntouched'
  BY <1>4 DEF UInv, UnclaimedAreUntouched, NoAttempt
<1>10. QuotaAgrees' /\ Holding' \subseteq Holding
  BY <1>4 DEF UInv, QuotaIsHonest, QuotaAgrees, AttemptsOf, Holding
<1> QED BY <1>6, <1>7, <1>8, <1>9, <1>10, CeilingKept DEF UInv, QuotaIsHonest

LEMMA CleanupClaimKeeps ==
  ASSUME UInv, NEW r \in Reconcilers, NEW a \in Attempts, claimCleanupAttempts(r, a)
  PROVE  UInv'
<1>1. TypeOK /\ ClaimsAgree
  BY DEF UInv, ClaimsAgree
<1>2. /\ attempt[a].status \in Terminal
      /\ attempt' = [attempt EXCEPT ![a].wait = CleanupLease]
      /\ UNCHANGED <<session, intake, released, asset, batch, writer, files>>
  BY DEF claimCleanupAttempts
<1>3. ~Adopted(a)
  <2>1. attempt[a].of \in Sessions
    BY <1>1, <1>2, UploadBounds DEF UInv, UnclaimedAreUntouched, NoAttempt, Terminal, TypeOK
  <2> QED BY <1>1, <1>2, <2>1, UploadBounds DEF UploadBounds, ClaimsAgree, Adopted, Terminal
<1>4. cleaner' = [cleaner EXCEPT ![r] = [phase |-> "removing", attempt |-> a]]
  BY <1>3 DEF claimCleanupAttempts, Turns
<1>5. \A b \in Attempts :
        /\ attempt'[b].of = attempt[b].of /\ attempt'[b].cleanup = attempt[b].cleanup
        /\ attempt'[b].status = attempt[b].status
        /\ b # a => attempt'[b] = attempt[b]
  BY <1>1, <1>2 DEF TypeOK
<1>6. TypeOK'
  <2>1. attempt' \in [Attempts -> AttemptRow]
    <3>1. attempt \in [Attempts -> AttemptRow] /\ CleanupLease \in 0..CleanupLease
      BY <1>1, UploadBounds DEF UploadBounds, TypeOK, AttemptRow
    <3>2. attempt[a] \in AttemptRow
      BY <3>1
    <3>3. [attempt[a] EXCEPT !.wait = CleanupLease] \in AttemptRow
      BY <3>1, <3>2 DEF AttemptRow
    <3> QED BY <1>2, <3>1, <3>3
  <2> QED BY <1>1, <1>2, <1>4, <2>1 DEF TypeOK, AttemptRow, files
<1>7. ClaimsAgree'
  BY <1>1, <1>2, <1>5, <1>6, SameClaimsKeep DEF SameClaims
<1>8. NewSessionsAreEmpty' /\ OriginalsAreOwn'
  BY <1>1, <1>2, <1>5 DEF UInv, NewSessionsAreEmpty, OriginalsAreOwn, TypeOK
<1>9. UnclaimedAreUntouched'
  BY <1>2, <1>5 DEF UInv, UnclaimedAreUntouched, NoAttempt, Terminal
<1>10. CleanersWorkOnEnded'
  BY <1>1, <1>2, <1>4, <1>5 DEF UInv, CleanersWorkOnEnded, TypeOK
<1>11. QuotaAgrees' /\ Holding' \subseteq Holding
  BY <1>2, <1>5 DEF UInv, QuotaIsHonest, QuotaAgrees, AttemptsOf, Holding
<1> QED BY <1>7, <1>8, <1>9, <1>10, <1>11, CeilingKept DEF UInv, QuotaIsHonest

\* A reconciler that lets go of its attempt, whatever it writes of its cleanup.
LEMMA LettingGoKeeps ==
  ASSUME UInv, TypeOK', NEW r \in Reconcilers, NEW a \in Attempts, attempt[a].status \in Terminal,
         \A b \in Attempts :
           /\ attempt'[b].of = attempt[b].of /\ attempt'[b].status = attempt[b].status
           /\ attempt[b].cleanup # "pending" => attempt'[b].cleanup = attempt[b].cleanup
           /\ b # a => attempt'[b] = attempt[b],
         \A s \in Sessions : released[s] => released'[s],
         \A s \in Sessions : released'[s] /\ ~released[s] => intake[s] = "FAILED" /\ Clean(attempt', s),
         cleaner' = [cleaner EXCEPT ![r] = [phase |-> "idle", attempt |-> None]],
         UNCHANGED <<session, intake, asset, batch, writer, files>>
  PROVE  UInv'
<1>1. TypeOK /\ ClaimsAgree
  BY DEF UInv, ClaimsAgree
<1>2. ClaimsAgree'
  BY <1>1, SameClaimsKeep DEF SameClaims
<1>3. NewSessionsAreEmpty' /\ OriginalsAreOwn'
  BY <1>1 DEF UInv, NewSessionsAreEmpty, OriginalsAreOwn, TypeOK
<1>4. UnclaimedAreUntouched'
  BY DEF UInv, UnclaimedAreUntouched, NoAttempt, Terminal
<1>5. CleanersWorkOnEnded'
  BY <1>1 DEF UInv, CleanersWorkOnEnded, TypeOK
<1>6. QuotaAgrees'
  <2>1. \A t \in Sessions : released'[t] => intake'[t] = "FAILED"
    BY QuotaByAttempt DEF UInv, QuotaIsHonest
  <2>2. ASSUME NEW t \in Sessions, NEW b \in Attempts
        PROVE  ReleasedIsDone(t, b)'
    <3>1. CASE released[t]
      BY <3>1, <2>1, QuotaByAttempt DEF UInv, QuotaIsHonest, ReleasedIsDone
    <3>2. CASE ~released[t] /\ Clean(attempt', t)
      BY <3>2, <2>1, CleanMeansDone DEF AttemptsOf, ReleasedIsDone
    <3> QED BY <3>1, <3>2 DEF ReleasedIsDone
  <2> QED BY <2>1, <2>2 DEF QuotaAgrees, AttemptsOf, ReleasedIsDone
<1>7. Holding' \subseteq Holding
  BY DEF Holding
<1> QED BY <1>2, <1>3, <1>4, <1>5, <1>6, <1>7, CeilingKept DEF UInv, QuotaIsHonest

LEMMA FinishKeeps ==
  ASSUME UInv, NEW r \in Reconcilers, finishCleanupClaim(r)
  PROVE  UInv'
<1> DEFINE a == cleaner[r].attempt
           s == attempt[a].of
           rws == IF attempt[a].cleanup = "pending"
                    THEN [attempt EXCEPT ![a].cleanup = "done", ![a].wait = 0] ELSE attempt
<1>1. TypeOK
  BY DEF UInv, ClaimsAgree
<1>2. /\ cleaner[r].phase = "removed"
      /\ a \in Attempts /\ attempt[a].status \in Terminal
  BY DEF UInv, CleanersWorkOnEnded, finishCleanupClaim
<1>3. /\ cleaner' = [cleaner EXCEPT ![r] = [phase |-> "idle", attempt |-> None]]
      /\ UNCHANGED <<session, intake, asset, batch, writer, files>>
  BY DEF finishCleanupClaim, Turns
<1>4. /\ attempt' = rws
      /\ released' = [released EXCEPT ![s] = released[s] \/
           (attempt[a].cleanup = "pending" /\ intake[s] = "FAILED" /\ Clean(rws, s))]
  BY <1>2, Zenon DEF finishCleanupClaim
<1>5. /\ attempt' \in [Attempts -> AttemptRow]
      /\ \A b \in Attempts :
           /\ attempt'[b].of = attempt[b].of /\ attempt'[b].status = attempt[b].status
           /\ attempt[b].cleanup # "pending" => attempt'[b].cleanup = attempt[b].cleanup
           /\ b # a => attempt'[b] = attempt[b]
  <2> HIDE DEF a
  <2>1. attempt \in [Attempts -> AttemptRow] /\ attempt[a] \in AttemptRow
    BY <1>1, <1>2 DEF TypeOK, AttemptRow
  <2>2. CASE attempt[a].cleanup = "pending"
    <3>1. attempt' = [attempt EXCEPT ![a] = [attempt[a] EXCEPT !.cleanup = "done", !.wait = 0]]
      BY <1>4, <2>2, Zenon
    <3>2. [attempt[a] EXCEPT !.cleanup = "done", !.wait = 0]
            = [of |-> attempt[a].of, status |-> attempt[a].status, wait |-> 0, cleanup |-> "done"]
      BY <2>1, SettledRow, Zenon
    <3>3. attempt' = [attempt EXCEPT ![a] =
            [of |-> attempt[a].of, status |-> attempt[a].status, wait |-> 0, cleanup |-> "done"]]
      BY <3>1, <3>2, Zenon
    <3> QED BY <1>2, <2>1, <2>2, <3>3, UploadBounds DEF UploadBounds, AttemptRow
  <2>3. CASE attempt[a].cleanup # "pending"
    BY <1>4, <2>1, <2>3
  <2> QED BY <2>2, <2>3
<1>6. /\ released' \in [Sessions -> BOOLEAN]
      /\ \A t \in Sessions : released'[t] <=>
           released[t] \/ (t = s /\ attempt[a].cleanup = "pending" /\ intake[s] = "FAILED" /\ Clean(attempt', s))
  <2> HIDE DEF s, rws, a
  <2> QED BY <1>1, <1>4 DEF TypeOK
<1>7. TypeOK'
  BY <1>1, <1>3, <1>5, <1>6 DEF TypeOK, AttemptRow, files
<1> HIDE DEF a, s, rws
<1> QED BY <1>2, <1>3, <1>5, <1>6, <1>7, LettingGoKeeps

LEMMA DeferKeeps ==
  ASSUME UInv, NEW r \in Reconcilers, DeferCleanup(r)
  PROVE  UInv'
<1> DEFINE a == cleaner[r].attempt
<1>1. TypeOK
  BY DEF UInv, ClaimsAgree
<1>2. a \in Attempts /\ attempt[a].status \in Terminal
  BY DEF UInv, CleanersWorkOnEnded, DeferCleanup
<1>3. /\ cleaner' = [cleaner EXCEPT ![r] = [phase |-> "idle", attempt |-> None]]
      /\ attempt' = IF attempt[a].cleanup = "pending" THEN [attempt EXCEPT ![a].wait = CleanupLease] ELSE attempt
      /\ UNCHANGED <<session, intake, released, asset, batch, writer, files>>
  BY DEF DeferCleanup, Turns
<1> HIDE DEF a
<1>4. /\ attempt' \in [Attempts -> AttemptRow]
      /\ \A b \in Attempts :
           /\ attempt'[b].of = attempt[b].of /\ attempt'[b].status = attempt[b].status
           /\ attempt'[b].cleanup = attempt[b].cleanup
           /\ b # a => attempt'[b] = attempt[b]
  <2>1. attempt \in [Attempts -> AttemptRow]
    BY <1>1 DEF TypeOK, AttemptRow
  <2> QED BY <1>2, <1>3, <2>1, UploadBounds DEF UploadBounds, AttemptRow
<1>5. TypeOK'
  BY <1>1, <1>3, <1>4 DEF TypeOK, AttemptRow, files
<1> QED BY <1>2, <1>3, <1>4, <1>5, LettingGoKeeps
-----------------------------------------------------------------------------
(* The invariant of the specification.                                     *)

LEMMA InitUInv == Init => UInv
<1> SUFFICES ASSUME Init PROVE UInv
  OBVIOUS
<1>1. TypeOK
  BY UploadBounds DEF UploadBounds, Init, TypeOK, NoAttempt
<1>2. ClaimsAgree
  BY <1>1, UploadBounds DEF UploadBounds, Init, ClaimsAgree, NoAttempt, Active, Receiving
<1>3. NewSessionsAreEmpty /\ UnclaimedAreUntouched /\ OriginalsAreOwn /\ CleanersWorkOnEnded
  BY DEF Init, NewSessionsAreEmpty, UnclaimedAreUntouched, OriginalsAreOwn, CleanersWorkOnEnded, NoAttempt
<1>4. QuotaAgrees
  BY DEF Init, QuotaAgrees
<1>5. ReservationsWithinCeiling
  <2>1. {s \in Sessions : intake[s] # "NONE" /\ ~released[s]} = {}
    BY DEF Init
  <2> QED BY <2>1, FS_EmptySet, UploadBounds DEF UploadBounds, ReservationsWithinCeiling
<1> QED BY <1>2, <1>3, <1>4, <1>5 DEF UInv, QuotaIsHonest

LEMMA NextUInv == UInv /\ [Next]_vars => UInv'
<1> SUFFICES ASSUME UInv, [Next]_vars PROVE UInv'
  OBVIOUS
<1>1. ASSUME NEW s \in Sessions,
             createWorkspaceUploadSession(s) \/ claimUploadExpires(s) \/ ExpireSession(s)
               \/ ReleaseReceiveLease(s) \/ ValidationMoves(s)
      PROVE  UInv'
  BY <1>1, ReservationKeeps, ExpiryKeeps, ReleaseKeeps, ValidationKeeps
<1>2. ASSUME NEW s \in Sessions, NEW a \in Attempts, claimUpload(s, a)
      PROVE  UInv'
  BY <1>2, ClaimKeeps
<1>3. ASSUME NEW a \in Attempts, WriterStep(a) \/ WriterVanishes(a)
      PROVE  UInv'
  BY <1>3, FileStepsKeep, WrittenKeeps, FinalizeKeeps, RejectionKeeps DEF WriterStep
<1>4. ASSUME NEW r \in Reconcilers, CleanupStep(r) \/ DeferCleanup(r) \/ ReconcilerCrash(r)
      PROVE  UInv'
  BY <1>4, SweepsKeep, FinishKeeps, DeferKeeps DEF CleanupStep
<1>5. ASSUME NEW r \in Reconcilers, NEW a \in Attempts, claimCleanupAttempts(r, a)
      PROVE  UInv'
  BY <1>5, CleanupClaimKeeps
<1>6. CASE UNCHANGED vars
  <2>1. TypeOK' /\ UNCHANGED rows /\ NothingStarts
    BY <1>6 DEF UInv, ClaimsAgree, TypeOK, vars, rows, files, NothingStarts
  <2> QED BY <2>1, RowsKept
<1> QED BY <1>1, <1>2, <1>3, <1>4, <1>5, <1>6, TickKeeps DEF Next

\* The invariant holds of every run.
THEOREM UploadInductive == Spec => []UInv
BY InitUInv, NextUInv, PTL DEF Spec

\* The claim, the attempts and the lifecycle of a session always tell one story,
\* whatever takeovers, releases, expiries, rejections and commits interleave.
THEOREM ClaimsStayAgreed == Spec => []ClaimsAgree
<1>1. UInv => ClaimsAgree
  BY DEF UInv
<1> QED BY <1>1, UploadInductive, PTL

\* Quota is returned only for what has failed and was cleaned up, and what is
\* reserved stays within the workspace's ceiling.
THEOREM QuotaStaysHonest == Spec => []QuotaIsHonest
<1>1. UInv => QuotaIsHonest
  BY DEF UInv
<1> QED BY <1>1, UploadInductive, PTL
-----------------------------------------------------------------------------
(* Requests that lost their claim.                                         *)

\* A step of one request that moves another attempt's request is the step that
\* starts it.
LEMMA StaleStep ==
  ASSUME UInv, [Next]_vars, NEW a \in Attempts,
         writer'[a] # writer[a], writer[a] # "none", session[attempt[a].of].claim # a
  PROVE  /\ UNCHANGED rows
         /\ objects \ {a} = objects' \ {a} /\ parts \ {a} = parts' \ {a}
<1>1. TypeOK /\ ClaimsAgree /\ attempt[a].of \in Sessions
  BY DEF UInv, ClaimsAgree, UnclaimedAreUntouched, TypeOK
<1>2. ASSUME NEW b \in Attempts, NEW phase, Goes(b, phase)
      PROVE  a = b
  BY <1>1, <1>2 DEF Goes, TypeOK
<1>3. WriterStep(a) \/ WriterVanishes(a)
  <2>1. ASSUME NEW b \in Attempts, WriterStep(b) \/ WriterVanishes(b)
        PROVE  WriterStep(a) \/ WriterVanishes(a)
    <3>1. \E phase \in {"streaming", "linked", "stored", "written", "rechecking", "undoing", "rejecting", "gone"} :
            Goes(b, phase)
      BY <2>1 DEF WriterStep, OpenPart, LinkFinal, UnlinkPart, StreamFails, DigestMismatch,
           markUploadAttemptWritten, finalizeUpload, CommitRefused, Recheck, UndoStore, rejectClaim, WriterVanishes
    <3> QED BY <2>1, <3>1, <1>2
  <2>2. ASSUME NEW s \in Sessions, NEW b \in Attempts, claimUpload(s, b)
        PROVE  FALSE
    <3>1. Fresh # {} /\ b = CHOOSE c \in Fresh : TRUE
      BY <2>2, UploadBounds DEF UploadBounds, claimUpload, FreshAttempt
    <3>2. attempt[b] = NoAttempt
      BY <3>1 DEF Fresh
    <3>3. a = b
      BY <2>2, <1>2 DEF claimUpload, Goes
    <3> QED BY <1>1, <3>2, <3>3, UploadBounds DEF UploadBounds, NoAttempt
  <2>3. writer' # writer
    OBVIOUS
  <2>4. ASSUME NEW s \in Sessions,
               createWorkspaceUploadSession(s) \/ claimUploadExpires(s) \/ ExpireSession(s)
                 \/ ReleaseReceiveLease(s) \/ ValidationMoves(s)
        PROVE  FALSE
    BY <2>3, <2>4 DEF createWorkspaceUploadSession, claimUploadExpires, ExpireSession,
         ReleaseReceiveLease, ValidationMoves
  <2>5. ASSUME NEW r \in Reconcilers,
               \/ CleanupStep(r) \/ DeferCleanup(r) \/ ReconcilerCrash(r)
               \/ \E b \in Attempts : claimCleanupAttempts(r, b)
        PROVE  FALSE
    BY <2>3, <2>5 DEF CleanupStep, RemoveFinal, SweepParts, finishCleanupClaim, DeferCleanup,
         ReconcilerCrash, claimCleanupAttempts
  <2>6. ~Tick /\ ~UNCHANGED vars
    BY <2>3 DEF Tick, vars
  <2> QED BY <2>1, <2>2, <2>4, <2>5, <2>6 DEF Next
<1>4. ~ClaimLive(a) /\ ~RejectsOwn(attempt[a].of, a)
  BY DEF ClaimLive, RejectsOwn
<1>5. UNCHANGED rows
  BY <1>3, <1>4 DEF WriterStep, OpenPart, LinkFinal, UnlinkPart, StreamFails, DigestMismatch,
       markUploadAttemptWritten, finalizeUpload, CommitRefused, Recheck, UndoStore, rejectClaim,
       WriterVanishes, rows
<1>6. objects \ {a} = objects' \ {a} /\ parts \ {a} = parts' \ {a}
  BY <1>3, <1>4 DEF WriterStep, OpenPart, LinkFinal, UnlinkPart, StreamFails, DigestMismatch,
       markUploadAttemptWritten, finalizeUpload, CommitRefused, Recheck, UndoStore, rejectClaim,
       WriterVanishes, RemovalTried, Removed, files
<1> QED BY <1>5, <1>6

\* A request that lost its claim changes no row, and of the files only its own.
THEOREM StaleWritersStayHarmless == Spec => StaleWritersAreHarmless
<1>1. UInv /\ [Next]_vars =>
        [\A a \in Attempts :
           writer'[a] # writer[a] /\ writer[a] # "none" /\ session[attempt[a].of].claim # a =>
             /\ UNCHANGED rows
             /\ objects \ {a} = objects' \ {a} /\ parts \ {a} = parts' \ {a}]_vars
  BY StaleStep
<1> QED BY <1>1, UploadInductive, PTL DEF Spec, StaleWritersAreHarmless
-----------------------------------------------------------------------------
(* The bytes of a stored upload.                                           *)

LEMMA BytesStep ==
  ASSUME "answer" \notin Faults, UInv, UInv', BytesAreKept, [Next]_vars
  PROVE  BytesAreKept'
<1>1. TypeOK
  BY DEF UInv, ClaimsAgree
<1>2. CASE UNCHANGED vars
  BY <1>2 DEF BytesAreKept, vars, rows, files
<1> DEFINE Kept(a) == /\ attempt[a].status \notin Terminal /\ writer[a] \in {"linked", "stored", "written"}
                           => a \in objects
                      /\ attempt[a].status = "COMMITTED" => writer[a] = "gone" /\ a \in objects
           Same(a) == attempt'[a].status \in Terminal \/ attempt'[a].status = attempt[a].status
<1>3. \A a \in Attempts : Kept(a)
  BY DEF BytesAreKept
\* The steps that touch neither a request nor a final file.
<1>4. ASSUME \A a \in Attempts : Same(a), writer' = writer, objects' = objects
      PROVE  BytesAreKept'
  BY <1>3, <1>4 DEF BytesAreKept, Terminal
\* The steps that touch the request or the file of one attempt.
<1>5. ASSUME NEW a \in Attempts, \A b \in Attempts \ {a} : Same(b) /\ writer'[b] = writer[b],
             objects \ {a} = objects' \ {a}, Kept(a)'
      PROVE  BytesAreKept'
  <2> SUFFICES ASSUME NEW b \in Attempts
               PROVE  Kept(b)'
    BY DEF BytesAreKept
  <2>1. CASE b = a
    BY <2>1, <1>5
  <2>2. CASE b # a
    BY <2>2, <1>3, <1>5 DEF Terminal
  <2> QED BY <2>1, <2>2
<1>6. ASSUME NEW c \in Attempts \cup {None}, NEW status \in Terminal,
             attempt' = ClosedAttempt(attempt, c, status)
      PROVE  \A a \in Attempts : Same(a)
  <2>1. attempt \in [Attempts -> AttemptRow]
    BY <1>1 DEF TypeOK, AttemptRow
  <2>2. ClosedRows(attempt, attempt', c, status)
    BY <1>6, <2>1, ClosingAnAttempt
  <2> QED BY <2>2 DEF ClosedRows
<1>7. ASSUME NEW s \in Sessions, createWorkspaceUploadSession(s) \/ ValidationMoves(s)
      PROVE  BytesAreKept'
  BY <1>4, <1>7 DEF createWorkspaceUploadSession, ValidationMoves, files
<1>8. ASSUME NEW s \in Sessions, claimUploadExpires(s) \/ ExpireSession(s) \/ ReleaseReceiveLease(s)
      PROVE  BytesAreKept'
  <2>1. /\ session[s].claim \in Attempts \cup {None} /\ "ABANDONED" \in Terminal
        /\ attempt' = ClosedAttempt(attempt, session[s].claim, "ABANDONED")
        /\ writer' = writer /\ objects' = objects
    BY <1>1, <1>8 DEF claimUploadExpires, ExpireSession, ReleaseReceiveLease, ReleasedAttempt, files, TypeOK, Terminal
  <2>2. \A a \in Attempts : Same(a)
    BY <2>1, <1>6
  <2> QED BY <1>4, <2>1, <2>2
<1>9. ASSUME NEW s \in Sessions, NEW a \in Attempts, claimUpload(s, a)
      PROVE  BytesAreKept'
  <2> DEFINE c == session[s].claim
             rws == ClosedAttempt(attempt, c, "ABANDONED")
  <2>1. /\ c \in Attempts \cup {None} /\ "ABANDONED" \in Terminal
        /\ attempt \in [Attempts -> AttemptRow]
    BY <1>1 DEF TypeOK, Terminal, AttemptRow
  <2>2. rws \in [Attempts -> AttemptRow] /\ ClosedRows(attempt, rws, c, "ABANDONED")
    <3> HIDE DEF c
    <3> QED BY <2>1, ClosingAnAttempt
  <2>3. /\ attempt' = [rws EXCEPT ![a].of = s, ![a].status = "RECEIVING"]
        /\ writer' = [writer EXCEPT ![a] = "opening"]
        /\ objects' = objects
    BY <1>9 DEF claimUpload, files
  <2> HIDE DEF c, rws
  <2>4. \A b \in Attempts \ {a} : attempt'[b] = rws[b] /\ writer'[b] = writer[b]
    <3>1. attempt' = [rws EXCEPT ![a] = [rws[a] EXCEPT !.of = s, !.status = "RECEIVING"]]
      BY <2>3, Zenon
    <3>2. \A b \in Attempts \ {a} : attempt'[b] = rws[b]
      <4> DEFINE row == [rws[a] EXCEPT !.of = s, !.status = "RECEIVING"]
      <4>1. attempt' = [rws EXCEPT ![a] = row]
        BY <3>1
      <4> HIDE DEF row
      <4> QED BY <4>1, <2>2
    <3>3. writer' = [writer EXCEPT ![a] = "opening"]
      BY <2>3
    <3> QED BY <1>1, <3>2, <3>3 DEF TypeOK
  <2>5. \A b \in Attempts \ {a} : Same(b)
    BY <2>1, <2>2, <2>4 DEF ClosedRows
  <2>6. writer'[a] = "opening" /\ attempt'[a].status # "COMMITTED"
    <3>1. attempt'[a].of = s
      BY <2>2, <2>3 DEF AttemptRow
    <3>2. session'[s].status = "RECEIVING"
      BY <1>1, <1>9 DEF claimUpload, TypeOK
    <3>3. writer'[a] = "opening"
      <4>1. writer' = [writer EXCEPT ![a] = "opening"]
        BY <2>3
      <4> QED BY <4>1, <1>1 DEF TypeOK
    <3> QED BY <3>1, <3>2, <3>3 DEF UInv, ClaimsAgree
  <2>7. objects' = objects
    BY <2>3
  <2> QED BY <1>5, <2>4, <2>5, <2>6, <2>7
<1>10. ASSUME NEW a \in Attempts, WriterStep(a) \/ WriterVanishes(a)
       PROVE  BytesAreKept'
  <2>2. objects \ {a} = objects' \ {a}
    BY <1>10 DEF WriterStep, OpenPart, LinkFinal, UnlinkPart, StreamFails, DigestMismatch,
       markUploadAttemptWritten, finalizeUpload, CommitRefused, Recheck, UndoStore, rejectClaim,
       WriterVanishes, RemovalTried, Removed, files
  <2>3. PICK phase : Goes(a, phase)
    BY <1>10 DEF WriterStep, OpenPart, LinkFinal, UnlinkPart, StreamFails, DigestMismatch,
       markUploadAttemptWritten, finalizeUpload, CommitRefused, Recheck, UndoStore, rejectClaim, WriterVanishes
  <2>4. writer'[a] = phase /\ \A b \in Attempts \ {a} : writer'[b] = writer[b]
    BY <1>1, <2>3 DEF Goes, TypeOK
  <2>5. ASSUME OpenPart(a) \/ LinkFinal(a) \/ UnlinkPart(a) \/ StreamFails(a) \/ DigestMismatch(a)
                 \/ CommitRefused(a) \/ Recheck(a) \/ UndoStore(a) \/ WriterVanishes(a)
        PROVE  BytesAreKept'
    <3>1. attempt' = attempt
      BY <2>5 DEF OpenPart, LinkFinal, UnlinkPart, StreamFails, DigestMismatch,
         CommitRefused, Recheck, UndoStore, WriterVanishes, rows
    <3>2. \/ writer'[a] \in {"streaming", "rejecting", "rechecking", "undoing"} /\ writer[a] # "gone"
          \/ writer'[a] = "linked" /\ a \in objects' /\ writer[a] # "gone"
          \/ writer'[a] = "stored" /\ writer[a] = "linked" /\ objects' = objects
          \/ writer'[a] = "gone" /\ objects' = objects
          \/ writer'[a] = "gone" /\ writer[a] # "gone"
      BY <1>1, <2>5 DEF OpenPart, LinkFinal, UnlinkPart, StreamFails, DigestMismatch,
         CommitRefused, Recheck, UndoStore, WriterVanishes, At, Goes, TypeOK, files
    <3>3. Kept(a)'
      BY <1>3, <3>1, <3>2, <2>5, <1>1 DEF WriterVanishes, files, TypeOK
    <3> QED BY <1>5, <2>2, <2>4, <3>1, <3>3
  <2>6. ASSUME markUploadAttemptWritten(a)
        PROVE  BytesAreKept'
    <3>1. /\ attempt' = [attempt EXCEPT ![a].status = "WRITTEN"] /\ attempt[a].status = "RECEIVING"
          /\ writer[a] = "stored" /\ objects' = objects
      BY <2>6 DEF markUploadAttemptWritten, At, files
    <3>2. /\ \A b \in Attempts \ {a} : attempt'[b] = attempt[b]
          /\ attempt'[a].status = "WRITTEN"
      BY <1>1, <3>1 DEF TypeOK
    <3>3. Kept(a)'
      BY <1>3, <3>1, <3>2 DEF Terminal
    <3> QED BY <1>5, <2>2, <2>4, <3>2, <3>3
  <2>7. ASSUME finalizeUpload(a)
        PROVE  BytesAreKept'
    <3>1. /\ attempt' = [attempt EXCEPT ![a].status = "COMMITTED"] /\ attempt[a].status \in Receiving
          /\ writer[a] = "written" /\ objects' = objects /\ Goes(a, "gone")
      BY <2>7 DEF finalizeUpload, At, files, LosesAnswer
    <3>2. /\ \A b \in Attempts \ {a} : attempt'[b] = attempt[b]
          /\ attempt'[a].status = "COMMITTED" /\ writer'[a] = "gone"
      BY <1>1, <3>1 DEF TypeOK, Goes
    <3>3. Kept(a)'
      BY <1>3, <3>1, <3>2 DEF Terminal, Receiving
    <3> QED BY <1>5, <2>2, <2>4, <3>2, <3>3
  <2>8. ASSUME rejectClaim(a)
        PROVE  BytesAreKept'
    <3>1. /\ "FAILED" \in Terminal /\ writer[a] = "rejecting"
          /\ attempt' = ClosedAttempt(attempt, a, "FAILED") \/ attempt' = attempt
      BY <2>8 DEF rejectClaim, Terminal, At
    <3>2. \A b \in Attempts : Same(b)
      BY <1>6, <3>1
    <3>3. writer'[a] = "gone"
      BY <1>1, <2>8 DEF rejectClaim, Goes, TypeOK
    <3>4. Kept(a)'
      BY <1>3, <3>1, <3>2, <3>3 DEF Terminal
    <3> QED BY <1>5, <2>2, <2>4, <3>2, <3>4
  <2> QED BY <1>10, <2>5, <2>6, <2>7, <2>8 DEF WriterStep
<1>11. ASSUME NEW r \in Reconcilers, RemoveFinal(r)
       PROVE  BytesAreKept'
  <2>1. /\ cleaner[r].attempt \in Attempts /\ attempt[cleaner[r].attempt].status \in Terminal
        /\ objects' = objects \ {cleaner[r].attempt} /\ attempt' = attempt /\ writer' = writer
    BY <1>11 DEF RemoveFinal, Removed, UInv, CleanersWorkOnEnded, rows
  <2> QED BY <1>5, <2>1 DEF Terminal
<1>12. ASSUME NEW r \in Reconcilers, SweepParts(r) \/ ReconcilerCrash(r)
       PROVE  BytesAreKept'
  BY <1>4, <1>12 DEF SweepParts, ReconcilerCrash, rows, files
<1>13. ASSUME NEW r \in Reconcilers,
              \/ finishCleanupClaim(r) \/ DeferCleanup(r)
              \/ \E a \in Attempts : claimCleanupAttempts(r, a)
       PROVE  BytesAreKept'
  <2>1. \A a \in Attempts : attempt'[a].status = attempt[a].status
    BY <1>1, <1>13 DEF finishCleanupClaim, DeferCleanup, claimCleanupAttempts, TypeOK
  <2>2. writer' = writer /\ objects' = objects
    BY <1>13 DEF finishCleanupClaim, DeferCleanup, claimCleanupAttempts, files
  <2> QED BY <1>4, <2>1, <2>2
<1>14. CASE Tick
  <2>1. attempt' = [a \in Attempts |-> [attempt[a] EXCEPT !.wait = Less(attempt[a].wait)]]
    BY <1>14, Zenon DEF Tick
  <2>2. \A a \in Attempts : attempt'[a].status = attempt[a].status
    BY <1>1, <2>1 DEF TypeOK
  <2>3. writer' = writer /\ objects' = objects
    BY <1>14 DEF Tick, files
  <2> QED BY <1>4, <2>2, <2>3
<1> QED BY <1>2, <1>7, <1>8, <1>9, <1>10, <1>11, <1>12, <1>13, <1>14 DEF Next, CleanupStep

\* Where every answer of the database arrives, whatever crashes, stalls and
\* failing disks do, the original of a stored upload is on disk.  (With lost
\* answers it is not: the run upload_lost_answer.)
THEOREM StoredBytesStay ==
  ASSUME "answer" \notin Faults
  PROVE  Spec => []StoredBytesExist
<1>1. Init => BytesAreKept
  BY DEF Init, BytesAreKept, NoAttempt
<1>2. UInv /\ UInv' /\ BytesAreKept /\ [Next]_vars => BytesAreKept'
  BY BytesStep
<1>3. UInv /\ BytesAreKept => StoredBytesExist
  <2> SUFFICES ASSUME UInv, BytesAreKept, NEW s \in Sessions, session[s].status = "STORED"
               PROVE  asset[s].key \in objects
    BY DEF StoredBytesExist
  <2>1. asset[s].key \in Attempts /\ attempt[asset[s].key].of = s
    BY DEF UInv, ClaimsAgree, TypeOK, OriginalsAreOwn
  <2>2. attempt[asset[s].key].status = "COMMITTED"
    BY <2>1, UploadBounds DEF UploadBounds, UInv, ClaimsAgree
  <2> QED BY <2>1, <2>2 DEF BytesAreKept
<1> QED BY <1>1, <1>2, <1>3, UploadInductive, PTL DEF Spec
=============================================================================
