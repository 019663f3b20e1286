------------------------ MODULE CrawlerImportsProofs ------------------------
(***************************************************************************)
(* Proofs about a governed crawler import: its rows tell one story that    *)
(* the next claim can go on with, its bytes come and go as the rows say,   *)
(* its quota is held for its files, and an overtaken worker writes no row. *)
(***************************************************************************)
EXTENDS CrawlerImportsProperties, TLAPS

-----------------------------------------------------------------------------
(* The inductive invariant.                                                *)

\* A worker that may still put bytes of its attempt in place.
Filling == Streaming \cup {"stored"}
\* A worker that carries out a deletion.
Deleters == Deleting \cup {"proved", "unproved"}

JobRow == [status : Waiting \cup {"RUNNING", "SUCCEEDED", "DEAD_LETTER", "CANCELLED"},
           attempts : 0..MaxAttempts, left : Nat, wait : Nat]
RowStatuses == {"NONE", "RUNNING", "SUCCEEDED", "FAILED", "DEAD_LETTER", "CANCELLED"}
IngressRow == [status : {"NONE", "ADOPTED"} \cup Open \cup Given, left : Nat,
               wait : Nat, tries : Nat, cleaned : BOOLEAN]
CommandRow == [status : {"QUEUED", "FETCHING", "QUARANTINED", "FAILED", "CANCELLED"}, retry : Nat \cup {None}]
TargetRow == [intake : {"QUEUED", "RECEIVING", "QUARANTINED", "FAILED", "CANCELLED"}, released : BOOLEAN,
              asset : {"UPLOADING", "QUARANTINED", "REJECTED", "DELETED"},
              document : {"PENDING", "FAILED", "ARCHIVED"}, inbox : {"NEEDS_REVIEW", "FAILED", "REJECTED"},
              batch : {"RUNNING", "FAILED", "CANCELLED"}]
StoreRow == [live : BOOLEAN, parts : SUBSET Attempts, finals : SUBSET Attempts, retired : BOOLEAN,
             moved : SUBSET Attempts, tomb : BOOLEAN]
HandRow == [phase : {"idle", "failing", "failed", "written"} \cup Filling \cup Sweeping \cup Deleters,
            n : 0..MaxAttempts, tries : Nat, retryable : BOOLEAN]
\* The ticks of a deletion are compared with none of a job's.
CustodyTyped ==
  /\ custody = [status |-> custody.status, after |-> custody.after, lease |-> custody.lease,
                left |-> custody.left, tries |-> custody.tries]
  /\ custody.status \in {"RETAINED", "DELETE_PENDING", "DELETED"} /\ custody.tries \in Nat

Typed ==
  /\ job \in JobRow /\ row \in [Attempts -> RowStatuses] /\ ingress \in [Attempts -> IngressRow]
  /\ command \in CommandRow /\ receipt \in Attempts \cup {None} /\ target \in TargetRow
  /\ store \in StoreRow /\ hand \in [Workers -> HandRow] /\ CustodyTyped

\* The import follows its job until the user deletes it.
CommandFollows ==
  /\ StatusesAgree(command, job)
  /\ command.status = "FAILED" => job.status = "DEAD_LETTER"
  /\ custody.status = "RETAINED" => command.status # "CANCELLED"
  /\ custody.status # "RETAINED" => command.status \in {"FAILED", "CANCELLED"}

TargetFollows ==
  /\ target.intake = (IF command.status = "FETCHING" THEN "RECEIVING" ELSE command.status)
  /\ target.batch = (IF command.status \in {"FAILED", "CANCELLED"} THEN command.status ELSE "RUNNING")
  /\ command.status \in {"QUEUED", "FETCHING"} => TargetWaits(target.intake)
  /\ custody.status # "RETAINED" => target.document = "ARCHIVED" /\ target.inbox = "REJECTED"
  /\ custody.status = "DELETED" => target.asset = "DELETED" /\ target.released
  /\ target.released => custody.status = "DELETED" \/ (command.status = "FAILED" /\ ~Unsafe(ingress))

\* Only the last attempt may have a file: it is open while the job runs, and
\* adopted when the job has succeeded.
LastAttemptCounts ==
  /\ \A n \in Attempts :
       /\ MayHaveFile(ingress[n]) => n = job.attempts
       /\ n > job.attempts => ingress[n].status = "NONE"
       /\ ingress[n].status = "ADOPTED" <=> receipt = n
       /\ ingress[n].status \in Open => job.status = "RUNNING" \/ custody.status # "RETAINED"
       /\ ingress[n].status \in Open \cup {"NONE"} => ~ingress[n].cleaned
       /\ ingress[n].status # "NONE" /\ custody.status = "DELETED" => ingress[n].cleaned
       /\ row[n] = "RUNNING" => custody.status = "RETAINED"
  /\ job.status = "RUNNING" => job.attempts \in Attempts /\ ingress[job.attempts].status \in Open
  /\ job.status = "SUCCEEDED" <=> receipt # None

\* A job that waits has an attempt left, or a file that ends it when it goes.
WaitingIsWorthIt ==
  /\ job.status = "QUEUED" => job.attempts = 0
  /\ job.status = "RETRYING" =>
       /\ job.attempts \in Attempts
       /\ Exhausted(job.attempts) => row[job.attempts] = "DEAD_LETTER" /\ Unsafe(ingress)

\* No name is left that a writer could still link.
Fenced ==
  /\ store.tomb /\ store.finals = {}
  /\ \A w \in Workers : hand[w].phase = "sealed" => hand[w].n \notin store.parts
Emptied == Fenced /\ store.moved = {}

HandIsSound(w) ==
  LET h == hand[w] status == ingress[h.n].status
  IN  /\ h.phase \notin {"idle"} \cup Deleters => h.n \in Attempts /\ h.n <= job.attempts
      /\ h.phase \in Filling => status \in {"RECEIVING"} \cup Given
      /\ h.phase = "stored" /\ status = "RECEIVING" => h.n \in store.finals \/ store.tomb
      /\ h.phase \in Sweeping => status \in Given
      /\ h.phase = "entombed" => store.tomb
      /\ h.phase = "retired" => Fenced
      /\ h.phase \in {"removed", "proved"} => Emptied
HandsAreApart ==
  \A v, w \in Workers :
    hand[v].phase \in Filling /\ hand[w].phase \in Filling /\ hand[v].n = hand[w].n => v = w
FilesAreInPlace ==
  /\ \A n \in Attempts : ingress[n].status \in {"WRITTEN", "ADOPTED"} => n \in store.finals \/ store.tomb
  /\ \A w \in Workers : HandIsSound(w)
  /\ HandsAreApart
  /\ custody.status = "DELETED" => Emptied

CInv == Typed /\ CommandFollows /\ TargetFollows /\ LastAttemptCounts /\ WaitingIsWorthIt /\ FilesAreInPlace
-----------------------------------------------------------------------------
(* What a worker does with files, and what it gives up.                    *)

LEMMA CFacts ==
  ASSUME CInv
  PROVE  /\ job \in JobRow /\ row \in [Attempts -> RowStatuses] /\ ingress \in [Attempts -> IngressRow]
         /\ command \in CommandRow /\ receipt \in Attempts \cup {None} /\ target \in TargetRow
         /\ store \in StoreRow /\ hand \in [Workers -> HandRow] /\ CustodyTyped
         /\ job.attempts \in Nat /\ job.attempts \in 0..MaxAttempts /\ MaxAttempts \in Nat
         /\ CommandFollows /\ TargetFollows /\ LastAttemptCounts /\ WaitingIsWorthIt /\ FilesAreInPlace
         /\ StatusesAgree(command, job)
  BY IngressBounds DEF CInv, Typed, JobRow, CommandFollows

LEMMA HandFacts ==
  ASSUME CInv, NEW w \in Workers
  PROVE  /\ hand[w] \in HandRow /\ hand[w].n \in 0..MaxAttempts /\ hand[w].n \in Nat
         /\ hand[w].tries \in Nat /\ hand[w].retryable \in BOOLEAN
         /\ hand[w].phase \in {"idle", "failing", "failed", "written"} \cup Filling \cup Sweeping \cup Deleters
         /\ HandIsSound(w)
         /\ hand[w].phase \notin {"idle"} \cup Deleters => hand[w].n \in Attempts
<1>1. hand[w] \in HandRow /\ HandIsSound(w)
  BY CFacts DEF FilesAreInPlace
<1> QED BY <1>1, IngressBounds DEF HandRow, HandIsSound

\* Of the files only those of the worker's own attempt come and go, until a
\* tombstone stands.
FilesMove(w, held) ==
  /\ store' \in StoreRow /\ (store.tomb => store'.tomb)
  /\ Fenced => store'.finals \subseteq store.finals
  /\ store'.moved \subseteq store.moved \cup store.finals
  /\ \A m \in store'.parts \ store.parts :
       hand[w].phase \in Filling \ {"sealed"} /\ held.phase # "sealed" /\ m = hand[w].n
  /\ \A m \in store.finals \ store'.finals :
       store'.tomb \/ (m = hand[w].n /\ hand[w].phase \in Streaming \cup Sweeping)
  /\ held.phase = "sealed" => ~store.tomb \/ (hand[w].phase = "sealed" /\ held.n = hand[w].n)

LEMMA FenceStays ==
  ASSUME CInv, NEW w \in Workers, NEW held \in HandRow, hand' = [hand EXCEPT ![w] = held], FilesMove(w, held)
  PROVE  (Fenced => Fenced') /\ (Emptied => Emptied')
<1>1. hand'[w] = held /\ \A v \in Workers \ {w} : hand'[v] = hand[v]
  BY CFacts
<1>2. ASSUME Fenced
      PROVE  Fenced'
  <2>1. store'.tomb /\ store'.finals = {}
    BY <1>2 DEF Fenced, FilesMove
  <2>2. ASSUME NEW v \in Workers, hand'[v].phase = "sealed", hand'[v].n \in store'.parts
        PROVE  FALSE
    <3>1. hand[v].phase = "sealed" /\ hand'[v].n = hand[v].n
      BY <1>1, <1>2, <2>2 DEF FilesMove, Fenced
    <3>2. hand[v].n \notin store.parts
      BY <1>2, <3>1 DEF Fenced
    <3>3. hand[w].phase \in Filling \ {"sealed"} /\ held.phase # "sealed" /\ hand[v].n = hand[w].n
      BY <2>2, <3>1, <3>2 DEF FilesMove
    <3>4. hand[v].phase \in Filling
      BY <3>1 DEF Filling, Streaming
    <3>5. v = w
      BY <3>3, <3>4, CFacts DEF FilesAreInPlace, HandsAreApart
    <3> QED BY <1>1, <2>2, <3>3, <3>5
  <2> QED BY <2>1, <2>2 DEF Fenced
<1>3. Emptied => Emptied'
  BY <1>2 DEF Emptied, Fenced, FilesMove
<1> QED BY <1>2, <1>3

\* A worker's hand moves and the files with it; the rows stay.
LEMMA HandStep ==
  ASSUME CInv, NEW w \in Workers, UNCHANGED <<ingressRows, custody>>,
         NEW held \in HandRow, hand' = [hand EXCEPT ![w] = held], FilesMove(w, held),
         held.phase \notin {"idle"} \cup Deleters => held.n = hand[w].n /\ hand[w].phase \notin {"idle"} \cup Deleters,
         held.phase \in Filling => hand[w].phase \in Filling,
         held.phase = "stored" => held.n \in store'.finals \/ store'.tomb,
         held.phase \in Sweeping => hand[w].phase \in Sweeping,
         held.phase = "entombed" => store'.tomb, held.phase = "retired" => Fenced',
         held.phase \in {"removed", "proved"} => Emptied'
  PROVE  CInv'
<1>1. UNCHANGED <<job, row, ingress, command, target, receipt, custody>>
  BY DEF ingressRows
<1>2. Typed'
  BY <1>1, CFacts DEF Typed, FilesMove, CustodyTyped
<1>3. CommandFollows' /\ TargetFollows' /\ LastAttemptCounts' /\ WaitingIsWorthIt'
  BY <1>1, CFacts DEF CommandFollows, TargetFollows, TargetWaits, LastAttemptCounts, WaitingIsWorthIt
<1>4. hand'[w] = held /\ \A v \in Workers \ {w} : hand'[v] = hand[v]
  BY CFacts
<1>5. (Fenced => Fenced') /\ (Emptied => Emptied') /\ (store.tomb => store'.tomb)
  BY FenceStays DEF FilesMove
<1>6. ASSUME NEW n \in Attempts, ingress[n].status \in {"WRITTEN", "ADOPTED"}
      PROVE  n \in store'.finals \/ store'.tomb
  <2>1. n \in store.finals \/ store.tomb
    BY <1>6, CFacts DEF FilesAreInPlace
  <2>2. hand[w].phase \in Streaming \cup Sweeping /\ n = hand[w].n => ingress[n].status \in {"RECEIVING"} \cup Given
    BY HandFacts DEF HandIsSound, Filling
  <2> QED BY <1>5, <1>6, <2>1, <2>2 DEF Given, FilesMove
<1>7. ASSUME NEW v \in Workers
      PROVE  HandIsSound(v)'
  <2>1. CASE v = w
    <3>1. HandIsSound(w)
      BY HandFacts
    <3>2. held.phase \in Filling \cup Sweeping => held.phase \notin {"idle"} \cup Deleters
      BY DEF Filling, Streaming, Sweeping, Deleters, Deleting
    <3>3. held.phase \notin {"idle"} \cup Deleters => held.n \in Attempts /\ held.n <= job.attempts
      BY <3>1 DEF HandIsSound
    <3>4. held.phase \in Filling => ingress[held.n].status \in {"RECEIVING"} \cup Given
      BY <3>1, <3>2 DEF HandIsSound
    <3>5. held.phase \in Sweeping => ingress[held.n].status \in Given
      BY <3>1, <3>2 DEF HandIsSound
    <3> QED BY <1>1, <1>4, <2>1, <3>3, <3>4, <3>5 DEF HandIsSound
  <2>2. CASE v # w
    <3>1. hand'[v] = hand[v] /\ HandIsSound(v)
      BY <1>4, <2>2, HandFacts
    <3>2. ASSUME hand[v].phase = "stored", ingress[hand[v].n].status = "RECEIVING"
          PROVE  hand[v].n \in store'.finals \/ store'.tomb
      <4>1. hand[v].n \in store.finals \/ store.tomb
        BY <3>1, <3>2 DEF HandIsSound
      <4>2. hand[w].phase \in Streaming /\ hand[w].n = hand[v].n => FALSE
        BY <2>2, <3>2, CFacts DEF FilesAreInPlace, HandsAreApart, Filling
      <4>3. hand[w].phase \in Sweeping /\ hand[w].n = hand[v].n => FALSE
        BY <3>2, HandFacts DEF HandIsSound, Given
      <4> QED BY <1>5, <4>1, <4>2, <4>3 DEF FilesMove
    <3> QED BY <1>1, <1>5, <3>1, <3>2 DEF HandIsSound
  <2> QED BY <2>1, <2>2
<1>8. HandsAreApart'
  <2>1. held.phase \in Filling => hand[w].phase \in Filling /\ held.n = hand[w].n
    BY DEF Filling, Streaming, Deleters, Deleting
  <2>2. HandsAreApart
    BY CFacts DEF FilesAreInPlace
  <2> QED BY <1>4, <2>1, <2>2 DEF HandsAreApart
<1>9. custody'.status = "DELETED" => Emptied'
  BY <1>1, <1>5, CFacts DEF FilesAreInPlace
<1> QED BY <1>1, <1>2, <1>3, <1>6, <1>7, <1>8, <1>9 DEF CInv, FilesAreInPlace

\* The phase moves and nothing else.
LEMMA PhaseStep ==
  ASSUME CInv, NEW w \in Workers, UNCHANGED <<ingressRows, custody>>,
         NEW phase \in {"failing", "failed", "written"} \cup Filling \cup Sweeping \cup Deleters,
         Goes(w, phase), FilesMove(w, [hand[w] EXCEPT !.phase = phase]),
         phase \notin Deleters => hand[w].phase \notin {"idle"} \cup Deleters,
         phase \in Filling => hand[w].phase \in Filling,
         phase = "stored" => hand[w].n \in store'.finals \/ store'.tomb,
         phase \in Sweeping => hand[w].phase \in Sweeping,
         phase = "entombed" => store'.tomb, phase = "retired" => Fenced',
         phase \in {"removed", "proved"} => Emptied'
  PROVE  CInv'
<1> DEFINE h == [hand[w] EXCEPT !.phase = phase]
<1>1. h \in HandRow /\ h.phase = phase /\ h.n = hand[w].n
  BY HandFacts DEF HandRow
<1>2. hand' = [hand EXCEPT ![w] = h]
  BY DEF Goes
<1>3. FilesMove(w, h)
  OBVIOUS
<1>4. phase # "idle"
  BY DEF Filling, Streaming, Sweeping, Deleters, Deleting
<1> HIDE DEF h
<1> QED BY <1>1, <1>2, <1>3, <1>4, HandStep

\* The worker fails, retryably or not.
LEMMA FailingStep ==
  ASSUME CInv, NEW w \in Workers, UNCHANGED <<ingressRows, custody>>,
         NEW retryable \in BOOLEAN, hand[w].phase \notin {"idle"} \cup Deleters,
         hand' = [hand EXCEPT ![w].phase = "failing", ![w].retryable = retryable],
         store' \in StoreRow, store'.tomb = store.tomb, store'.moved = store.moved,
         store'.parts \subseteq store.parts, store'.finals \subseteq store.finals,
         \A m \in store.finals \ store'.finals : m = hand[w].n /\ hand[w].phase \in Streaming \cup Sweeping
  PROVE  CInv'
<1> DEFINE h == [hand[w] EXCEPT !.phase = "failing", !.retryable = retryable]
<1>1. h \in HandRow /\ h.phase = "failing" /\ h.n = hand[w].n
  BY HandFacts DEF HandRow
<1>2. hand' = [hand EXCEPT ![w] = h]
  BY Zenon
<1> HIDE DEF h
<1>3. h.phase \notin Filling \cup Sweeping \cup Deleters
  BY <1>1 DEF Filling, Streaming, Sweeping, Deleters, Deleting
<1>4. FilesMove(w, h)
  BY <1>1 DEF FilesMove
<1> QED BY <1>1, <1>2, <1>3, <1>4, HandStep

LEMMA RestingStep ==
  ASSUME CInv, NEW w \in Workers, UNCHANGED <<ingressRows, custody, store>>, Rests(w)
  PROVE  CInv'
<1>1. Idle \in HandRow /\ Idle.phase = "idle" /\ hand' = [hand EXCEPT ![w] = Idle]
  BY IngressBounds DEF Idle, Hand, HandRow, Rests
<1>2. Idle.phase \notin Filling \cup Sweeping \cup Deleters
  BY <1>1 DEF Filling, Streaming, Sweeping, Deleters, Deleting
<1> HIDE DEF Idle
<1>3. FilesMove(w, Idle)
  BY <1>1, CFacts DEF FilesMove
<1> QED BY <1>1, <1>2, <1>3, HandStep

LEMMA StreamKeeps ==
  ASSUME CInv, NEW w \in Workers, Stream(w) \/ \E retryable \in BOOLEAN : StreamFails(w, retryable), UNCHANGED custody
  PROVE  CInv'
<1> DEFINE n == hand[w].n
<1>1. store \in StoreRow /\ (hand[w].phase \notin {"idle"} \cup Deleters => n \in Attempts)
  BY CFacts, HandFacts
<1>2. UNCHANGED ingressRows
  BY DEF Stream, StreamFails, ResolveNamespace, MakeDirectory, AdmitStream, OpenPart, SealPart, LinkFinal, UnlinkPart,
         FileUnchanged
<1> USE DEF Filling, Streaming, Sweeping, Deleters, Deleting
<1>3. CASE ResolveNamespace(w) \/ AdmitStream(w) \/ SealPart(w)
  <2>1. /\ UNCHANGED store
        /\ \/ Goes(w, "resolved") /\ hand[w].phase = "fetching"
           \/ Goes(w, "admitted") /\ hand[w].phase = "made"
           \/ Goes(w, "sealed") /\ hand[w].phase = "writing" /\ ~store.tomb
    BY <1>3 DEF ResolveNamespace, AdmitStream, SealPart, At
  <2>2. PICK phase \in {"resolved", "admitted", "sealed"} :
          /\ Goes(w, phase) /\ hand[w].phase \in {"fetching", "made", "writing"}
          /\ phase = "sealed" => ~store.tomb
    BY <2>1
  <2>3. FilesMove(w, [hand[w] EXCEPT !.phase = phase])
    BY <1>1, <2>1, <2>2, HandFacts DEF FilesMove, HandRow
  <2> QED BY <1>2, <2>2, <2>3, PhaseStep
<1>4. CASE MakeDirectory(w)
  <2>1. Goes(w, "made") /\ hand[w].phase = "resolved" /\ store' = [store EXCEPT !.live = TRUE]
    BY <1>4 DEF MakeDirectory, At
  <2>2. /\ store' \in StoreRow /\ store'.finals = store.finals /\ store'.parts = store.parts
        /\ store'.moved = store.moved /\ store'.tomb = store.tomb
    BY <1>1, <2>1 DEF StoreRow
  <2>3. FilesMove(w, [hand[w] EXCEPT !.phase = "made"])
    BY <2>2, HandFacts DEF FilesMove, HandRow
  <2> QED BY <1>2, <2>1, <2>3, PhaseStep
<1>5. CASE OpenPart(w)
  <2>1. Goes(w, "writing") /\ hand[w].phase = "admitted" /\ store' = [store EXCEPT !.parts = @ \cup {n}]
    BY <1>5 DEF OpenPart, At
  <2>2. /\ store' \in StoreRow /\ store'.finals = store.finals /\ store'.parts = store.parts \cup {n}
        /\ store'.moved = store.moved /\ store'.tomb = store.tomb
    BY <1>1, <2>1 DEF StoreRow
  <2>3. FilesMove(w, [hand[w] EXCEPT !.phase = "writing"])
    BY <2>1, <2>2, HandFacts DEF FilesMove, HandRow
  <2> QED BY <1>2, <2>1, <2>3, PhaseStep
<1>6. CASE LinkFinal(w)
  <2>1. /\ Goes(w, "linked") /\ hand[w].phase = "sealed" /\ store' = [store EXCEPT !.finals = @ \cup {n}]
        /\ n \in store.parts
    BY <1>6 DEF LinkFinal, At
  <2>2. /\ store' \in StoreRow /\ store'.finals = store.finals \cup {n} /\ store'.parts = store.parts
        /\ store'.moved = store.moved /\ store'.tomb = store.tomb
    BY <1>1, <2>1 DEF StoreRow
  <2>3. ~Fenced
    BY <2>1 DEF Fenced
  <2>4. FilesMove(w, [hand[w] EXCEPT !.phase = "linked"])
    BY <2>2, <2>3, HandFacts DEF FilesMove, HandRow
  <2> QED BY <1>2, <2>1, <2>4, PhaseStep
<1>7. CASE UnlinkPart(w)
  <2>1. /\ Goes(w, "stored") /\ hand[w].phase = "linked" /\ store' = [store EXCEPT !.parts = @ \ {n}]
        /\ n \in store.finals
    BY <1>7 DEF UnlinkPart, At
  <2>2. /\ store' \in StoreRow /\ store'.finals = store.finals /\ store'.parts = store.parts \ {n}
        /\ store'.moved = store.moved /\ store'.tomb = store.tomb
    BY <1>1, <2>1 DEF StoreRow
  <2>3. FilesMove(w, [hand[w] EXCEPT !.phase = "stored"])
    BY <2>2, HandFacts DEF FilesMove, HandRow
  <2> QED BY <1>2, <2>1, <2>2, <2>3, PhaseStep
<1>8. ASSUME NEW retryable \in BOOLEAN, StreamFails(w, retryable)
      PROVE  CInv'
  <2>1. /\ hand[w].phase \in Streaming /\ hand' = [hand EXCEPT ![w].phase = "failing", ![w].retryable = retryable]
        /\ store' = [store EXCEPT !.parts = @ \ {hand[w].n},
                                  !.finals = IF At(w, "linked") THEN @ \ {hand[w].n} ELSE @]
    BY <1>8 DEF StreamFails
  <2>2. /\ store' \in StoreRow /\ (store'.finals = store.finals \/ store'.finals = store.finals \ {n})
        /\ store'.parts = store.parts \ {n} /\ store'.moved = store.moved /\ store'.tomb = store.tomb
    BY <1>1, <2>1 DEF StoreRow
  <2> QED BY <1>2, <2>1, <2>2, FailingStep
<1> QED BY <1>3, <1>4, <1>5, <1>6, <1>7, <1>8 DEF Stream

LEMMA SweepKeeps ==
  ASSUME CInv, NEW w \in Workers, Sweep(w) \/ SweepFails(w), UNCHANGED custody
  PROVE  CInv'
<1> DEFINE n == hand[w].n
<1> USE DEF Filling, Streaming, Sweeping, Deleters, Deleting
<1>1. store \in StoreRow /\ UNCHANGED ingressRows
  BY CFacts DEF Sweep, RemoveFinal, RemoveParts, SweepFails, FileUnchanged
<1>2. CASE RemoveFinal(w)
  <2>1. Goes(w, "sweeping parts") /\ hand[w].phase = "sweeping" /\ store' = [store EXCEPT !.finals = @ \ {n}]
    BY <1>2 DEF RemoveFinal, At
  <2>2. /\ store' \in StoreRow /\ store'.finals = store.finals \ {n} /\ store'.parts = store.parts
        /\ store'.moved = store.moved /\ store'.tomb = store.tomb
    BY <1>1, <2>1 DEF StoreRow
  <2>3. FilesMove(w, [hand[w] EXCEPT !.phase = "sweeping parts"])
    BY <2>1, <2>2, HandFacts DEF FilesMove, HandRow
  <2> QED BY <1>1, <2>1, <2>3, PhaseStep
<1>3. CASE RemoveParts(w)
  <2>1. Goes(w, "swept") /\ hand[w].phase = "sweeping parts" /\ store' = [store EXCEPT !.parts = @ \ {n}]
    BY <1>3 DEF RemoveParts, At
  <2>2. /\ store' \in StoreRow /\ store'.finals = store.finals /\ store'.parts = store.parts \ {n}
        /\ store'.moved = store.moved /\ store'.tomb = store.tomb
    BY <1>1, <2>1 DEF StoreRow
  <2>3. FilesMove(w, [hand[w] EXCEPT !.phase = "swept"])
    BY <2>2, HandFacts DEF FilesMove, HandRow
  <2> QED BY <1>1, <2>1, <2>3, PhaseStep
<1>4. CASE SweepFails(w)
  <2>1. Goes(w, "unswept") /\ hand[w].phase \in {"sweeping", "sweeping parts"} /\ store' = store
    BY <1>4 DEF SweepFails
  <2>2. FilesMove(w, [hand[w] EXCEPT !.phase = "unswept"])
    BY <1>1, <2>1, HandFacts DEF FilesMove, HandRow
  <2> QED BY <1>1, <2>1, <2>2, PhaseStep
<1> QED BY <1>2, <1>3, <1>4 DEF Sweep

LEMMA GivingUpKeeps ==
  ASSUME CInv, NEW w \in Workers, UNCHANGED custody,
         \/ Crash(w) \/ TransactionFails(w) \/ LeaseLost(w) \/ FailureRefused(w)
         \/ OthersCleanUp(w) \/ CleanupOvertaken(w) \/ CleanupRefused(w) \/ ZoteroCleanupRefused(w)
         \/ DeletionOvertaken(w)
  PROVE  CInv'
<1>1. UNCHANGED <<ingressRows, store>>
  BY DEF Crash, TransactionFails, LeaseLost, FailureRefused, OthersCleanUp, CleanupOvertaken, CleanupRefused,
         ZoteroCleanupRefused, DeletionOvertaken, Rows
<1>2. CASE Rests(w)
  BY <1>1, <1>2, RestingStep
<1>3. CASE TransactionFails(w) \/ LeaseLost(w)
  <2>1. /\ hand[w].phase \in {"stored", "written"}
        /\ \E r \in BOOLEAN : hand' = [hand EXCEPT ![w].phase = "failing", ![w].retryable = r]
    BY <1>3 DEF TransactionFails, LeaseLost
  <2>2. hand[w].phase \notin {"idle"} \cup Deleters /\ store' \in StoreRow
    BY <1>1, <2>1, CFacts DEF Deleters, Deleting
  <2> QED BY <1>1, <2>1, <2>2, FailingStep
<1> QED BY <1>2, <1>3 DEF Crash, FailureRefused, OthersCleanUp, CleanupOvertaken, CleanupRefused,
         ZoteroCleanupRefused, DeletionOvertaken

\* What a deleter does with the namespace: the tombstone first, and each round
\* leaves no name that a writer could still link.
LEMMA RemovalKeeps ==
  ASSUME CInv, NEW w \in Workers,
         \/ EstablishTombstone(w) \/ RetireLiveNamespace(w) \/ RemoveRetiredNamespaces(w)
         \/ Rescan(w) \/ DeletionStorageFails(w)
  PROVE  CInv'
<1> USE DEF Filling, Streaming, Sweeping, Deleters, Deleting
<1>1. store \in StoreRow /\ HandIsSound(w) /\ hand[w] \in HandRow
  BY CFacts, HandFacts
<1>2. UNCHANGED <<ingressRows, custody>>
  BY DEF EstablishTombstone, RetireLiveNamespace, RemoveRetiredNamespaces, Rescan, DeletionStorageFails, Rows
<1>3. CASE EstablishTombstone(w)
  <2>1. Goes(w, "entombed") /\ hand[w].phase = "deleting" /\ store' = [store EXCEPT !.tomb = TRUE]
    BY <1>3 DEF EstablishTombstone, At
  <2>2. /\ store' \in StoreRow /\ store'.finals = store.finals /\ store'.parts = store.parts
        /\ store'.moved = store.moved /\ store'.tomb
    BY <1>1, <2>1 DEF StoreRow
  <2>3. FilesMove(w, [hand[w] EXCEPT !.phase = "entombed"])
    BY <1>1, <2>2 DEF FilesMove, HandRow
  <2> QED BY <1>2, <2>1, <2>2, <2>3, PhaseStep
<1>4. CASE RetireLiveNamespace(w)
  <2>1. /\ Goes(w, "retired") /\ hand[w].phase = "entombed"
        /\ store' = [store EXCEPT !.live = FALSE, !.parts = {}, !.finals = {},
                                  !.retired = @ \/ store.live, !.moved = @ \cup store.finals]
    BY <1>4 DEF RetireLiveNamespace, At
  <2>2. store.tomb
    BY <1>1, <2>1 DEF HandIsSound
  <2>3. /\ store' \in StoreRow /\ store'.finals = {} /\ store'.parts = {}
        /\ store'.moved = store.moved \cup store.finals /\ store'.tomb
    BY <1>1, <2>1, <2>2 DEF StoreRow
  <2>4. FilesMove(w, [hand[w] EXCEPT !.phase = "retired"])
    BY <1>1, <2>3 DEF FilesMove, HandRow
  <2>5. Fenced'
    BY <2>3 DEF Fenced
  <2> QED BY <1>2, <2>1, <2>4, <2>5, PhaseStep
<1>5. CASE RemoveRetiredNamespaces(w)
  <2>1. /\ Goes(w, "removed") /\ hand[w].phase = "retired"
        /\ store' = [store EXCEPT !.retired = FALSE, !.moved = {}]
    BY <1>5 DEF RemoveRetiredNamespaces, At
  <2>2. Fenced
    BY <1>1, <2>1 DEF HandIsSound
  <2>3. /\ store' \in StoreRow /\ store'.finals = store.finals /\ store'.parts = store.parts
        /\ store'.moved = {} /\ store'.tomb = store.tomb
    BY <1>1, <2>1 DEF StoreRow
  <2> DEFINE h == [hand[w] EXCEPT !.phase = "removed"]
  <2>4. FilesMove(w, h)
    BY <1>1, <2>3 DEF FilesMove, HandRow
  <2>5. h \in HandRow /\ hand' = [hand EXCEPT ![w] = h]
    BY <1>1, <2>1 DEF HandRow, Goes
  <2>6. Fenced'
    BY <2>2, <2>4, <2>5, FenceStays
  <2>7. Emptied'
    BY <2>3, <2>6 DEF Emptied
  <2> QED BY <1>2, <2>1, <2>4, <2>7, PhaseStep
<1>6. CASE Rescan(w)
  <2>1. /\ Goes(w, "entombed") \/ Goes(w, "proved")
        /\ hand[w].phase = "removed" /\ store' = store
    BY <1>6 DEF Rescan, At
  <2>2. Emptied /\ store.tomb
    BY <1>1, <2>1 DEF HandIsSound, Emptied, Fenced
  <2>3. PICK phase \in {"entombed", "proved"} : Goes(w, phase)
    BY <2>1
  <2> DEFINE h == [hand[w] EXCEPT !.phase = phase]
  <2>4. FilesMove(w, h)
    BY <1>1, <2>1 DEF FilesMove, HandRow
  <2>5. h \in HandRow /\ hand' = [hand EXCEPT ![w] = h]
    BY <1>1, <2>3 DEF HandRow, Goes
  <2>6. Emptied'
    BY <2>2, <2>4, <2>5, FenceStays
  <2> QED BY <1>2, <2>1, <2>2, <2>3, <2>4, <2>6, PhaseStep
<1>7. CASE DeletionStorageFails(w)
  <2>1. Goes(w, "unproved") /\ store' = store
    BY <1>7 DEF DeletionStorageFails, Rows
  <2>2. FilesMove(w, [hand[w] EXCEPT !.phase = "unproved"])
    BY <1>1, <2>1 DEF FilesMove, HandRow
  <2> QED BY <1>2, <2>1, <2>2, PhaseStep
<1> QED BY <1>3, <1>4, <1>5, <1>6, <1>7
-----------------------------------------------------------------------------
(* The transactions: what each has to show.                                *)

\* Attempt n stays as it was, is given up, goes on to the state its file is
\* in, or is new.
Advances(n) ==
  \/ ingress'[n].status = ingress[n].status
  \/ ingress'[n].status \in Given
  \/ /\ ingress'[n].status \in {"WRITTEN", "ADOPTED"} /\ ingress[n].status \in Open
     /\ n \in store.finals \/ store.tomb
     /\ \A v \in Workers : hand'[v].phase \in Filling => hand'[v].n # n
  \/ ingress'[n].status = "RECEIVING" /\ n > job.attempts

\* Worker w keeps what it had in hand, lets go of it, or begins.
Holding(w, held) ==
  \/ held = hand[w]
  \/ held.phase \in {"idle", "failing", "failed", "written", "deleting", "unproved"} \cup Sweeping
  \/ held.phase = "fetching" /\ held.n > job.attempts /\ ingress'[held.n].status = "RECEIVING"

LEMMA FilesStep ==
  ASSUME CInv, NEW w \in Workers, NEW held \in HandRow, hand' = [hand EXCEPT ![w] = held], store' = store,
         ingress' \in [Attempts -> IngressRow], job'.attempts \in Nat, job'.attempts >= job.attempts,
         \A n \in Attempts : Advances(n), Holding(w, held),
         held.phase \notin {"idle"} \cup Deleters => held.n \in Attempts /\ held.n <= job'.attempts,
         held.phase \in Sweeping => ingress'[held.n].status \in Given,
         custody'.status = "DELETED" => custody.status = "DELETED" \/ hand[w].phase = "proved"
  PROVE  FilesAreInPlace'
<1>1. hand'[w] = held /\ \A v \in Workers \ {w} : hand'[v] = hand[v]
  BY CFacts
<1>2. ASSUME NEW v \in Workers
      PROVE  /\ hand[v] \in HandRow /\ HandIsSound(v) /\ hand[v].n \in Nat /\ job.attempts \in Nat
             /\ hand[v].phase \in Filling \cup Sweeping => hand[v].phase \notin {"idle"} \cup Deleters
  BY CFacts, HandFacts DEF Filling, Streaming, Sweeping, Deleters, Deleting
<1>3. ASSUME NEW n \in Attempts, ingress'[n].status \in {"WRITTEN", "ADOPTED"}
      PROVE  n \in store'.finals \/ store'.tomb
  BY <1>3, CFacts DEF Advances, Given, FilesAreInPlace
<1>4. (Fenced => Fenced') /\ (Emptied => Emptied')
  <2>1. held.phase = "sealed" => held = hand[w]
    BY DEF Holding, Sweeping
  <2>2. FilesMove(w, held)
    BY <2>1, CFacts DEF FilesMove
  <2> QED BY <2>2, FenceStays
<1>5. ASSUME NEW v \in Workers, hand'[v] = hand[v]
      PROVE  HandIsSound(v)'
  <2> DEFINE n == hand[v].n
  <2>1. hand[v].phase \notin {"idle"} \cup Deleters => n \in Attempts /\ n <= job.attempts /\ n <= job'.attempts
    BY <1>2 DEF HandIsSound
  <2>2. ASSUME hand[v].phase \in Filling
        PROVE  ingress'[n].status \in {"RECEIVING"} \cup Given
    <3>1. ingress[n].status \in {"RECEIVING"} \cup Given
      BY <1>2, <2>2 DEF HandIsSound
    <3>2. Advances(n)
      BY <1>2, <2>1, <2>2
    <3> QED BY <1>5, <2>2, <3>1, <3>2 DEF Advances
  <2>3. ASSUME hand[v].phase = "stored", ingress'[n].status = "RECEIVING"
        PROVE  n \in store'.finals \/ store'.tomb
    <3>1. Advances(n) /\ ~(n > job.attempts)
      BY <1>2, <2>1, <2>3 DEF Filling
    <3>2. ingress[n].status = "RECEIVING"
      BY <2>3, <3>1 DEF Advances, Given
    <3> QED BY <1>2, <2>3, <3>2 DEF HandIsSound
  <2>4. ASSUME hand[v].phase \in Sweeping
        PROVE  ingress'[n].status \in Given
    <3>1. Advances(n) /\ ~(n > job.attempts)
      BY <1>2, <2>1, <2>4
    <3>2. ingress[n].status \in Given
      BY <1>2, <2>4 DEF HandIsSound
    <3> QED BY <3>1, <3>2 DEF Advances, Given, Open
  <2>5. /\ hand[v].phase = "entombed" => store'.tomb
        /\ hand[v].phase = "retired" => Fenced'
        /\ hand[v].phase \in {"removed", "proved"} => Emptied'
    BY <1>2, <1>4 DEF HandIsSound
  <2> HIDE DEF n
  <2> QED BY <1>5, <2>1, <2>2, <2>3, <2>4, <2>5 DEF HandIsSound, n
<1>6. HandIsSound(w)'
  <2>1. CASE held = hand[w]
    BY <1>1, <1>5, <2>1
  <2>2. CASE held.phase \in {"idle", "failing", "failed", "written", "deleting", "unproved"} \cup Sweeping
    BY <1>1, <2>2 DEF HandIsSound, Filling, Streaming, Sweeping, Deleters, Deleting
  <2>3. CASE held.phase = "fetching" /\ ingress'[held.n].status = "RECEIVING"
    BY <1>1, <2>3 DEF HandIsSound, Filling, Streaming, Sweeping, Deleters, Deleting
  <2> QED BY <2>1, <2>2, <2>3 DEF Holding
<1>7. ASSUME NEW u \in Workers, NEW v \in Workers, hand'[u].phase \in Filling, hand'[v].phase \in Filling,
             hand'[u].n = hand'[v].n
      PROVE  u = v
  <2>1. HandsAreApart
    BY CFacts DEF FilesAreInPlace
  <2>2. CASE held = hand[w]
    BY <1>1, <1>7, <2>1, <2>2 DEF HandsAreApart
  <2>3. CASE held.phase \notin Filling
    BY <1>1, <1>7, <2>1, <2>3 DEF HandsAreApart
  <2>4. CASE held.phase = "fetching" /\ held.n > job.attempts
    <3>1. \A x \in Workers : hand[x].phase \in Filling => hand[x].n <= job.attempts
      BY <1>2 DEF HandIsSound
    <3>2. \A x \in Workers : hand[x].phase \in Filling => hand[x].n # held.n
      BY <1>2, <2>4, <3>1 DEF HandRow
    <3> QED BY <1>1, <1>7, <2>1, <3>2 DEF HandsAreApart
  <2> QED BY <2>2, <2>3, <2>4 DEF Holding, Filling, Streaming, Sweeping
<1>8. HandsAreApart'
  BY <1>7 DEF HandsAreApart
<1>9. \A v \in Workers : HandIsSound(v)'
  BY <1>1, <1>5, <1>6
<1>10. custody'.status = "DELETED" => Emptied'
  BY <1>2, <1>4, CFacts DEF FilesAreInPlace, HandIsSound
<1> QED BY <1>3, <1>8, <1>9, <1>10 DEF FilesAreInPlace

\* The transactions that leave every worker as it is.
LEMMA SameHands ==
  ASSUME CInv, hand' = hand, store' = store,
         ingress' \in [Attempts -> IngressRow], job'.attempts = job.attempts,
         \A n \in Attempts : Advances(n), custody'.status = "DELETED" => custody.status = "DELETED"
  PROVE  FilesAreInPlace'
<1>1. CASE Workers = {}
  <2>1. ASSUME NEW n \in Attempts, ingress'[n].status \in {"WRITTEN", "ADOPTED"}
        PROVE  n \in store'.finals \/ store'.tomb
    BY <2>1, CFacts DEF Advances, Given, FilesAreInPlace
  <2>2. Emptied => Emptied'
    BY DEF Emptied, Fenced
  <2> QED BY <1>1, <2>1, <2>2, CFacts DEF FilesAreInPlace, HandsAreApart
<1>2. ASSUME NEW w \in Workers
      PROVE  FilesAreInPlace'
  <2> DEFINE held == hand[w]
  <2>1. held \in HandRow /\ hand' = [hand EXCEPT ![w] = held] /\ job.attempts \in Nat /\ HandIsSound(w)
    BY CFacts, HandFacts
  <2>2. /\ held.phase \notin {"idle"} \cup Deleters => held.n \in Attempts /\ held.n <= job'.attempts
        /\ Holding(w, held)
    BY <2>1 DEF HandIsSound, Holding
  <2>3. ASSUME held.phase \in Sweeping
        PROVE  ingress'[held.n].status \in Given
    <3>0. held.phase \notin {"idle"} \cup Deleters
      BY <2>3 DEF Sweeping, Deleters, Deleting
    <3>1. ingress[held.n].status \in Given /\ held.n \in Attempts /\ ~(held.n > job.attempts)
      BY <2>1, <2>3, <3>0, HandFacts DEF HandIsSound, HandRow
    <3>2. Advances(held.n)
      BY <3>1
    <3> QED BY <3>1, <3>2 DEF Advances, Given, Open
  <2>4. job'.attempts \in Nat /\ job'.attempts >= job.attempts
    BY <2>1
  <2> HIDE DEF held
  <2> QED BY <2>1, <2>2, <2>3, <2>4, FilesStep
<1> QED BY <1>1, <1>2

\* The worker rests.
LEMMA RestingHands ==
  ASSUME CInv, NEW w \in Workers, Rests(w), store' = store, ingress' \in [Attempts -> IngressRow],
         job'.attempts = job.attempts, \A m \in Attempts : Advances(m),
         custody'.status = "DELETED" => custody.status = "DELETED" \/ hand[w].phase = "proved"
  PROVE  FilesAreInPlace' /\ hand' \in [Workers -> HandRow]
<1>1. Idle \in HandRow /\ Idle.phase = "idle" /\ hand' = [hand EXCEPT ![w] = Idle]
  BY IngressBounds DEF Idle, Hand, HandRow, Rests
<1>2. Holding(w, Idle) /\ Idle.phase \notin Sweeping
  BY <1>1 DEF Holding, Sweeping
<1>3. job.attempts \in Nat /\ job'.attempts >= job.attempts /\ hand \in [Workers -> HandRow]
  BY CFacts
<1> HIDE DEF Idle
<1>4. FilesAreInPlace'
  BY <1>1, <1>2, <1>3, FilesStep
<1> QED BY <1>1, <1>3, <1>4

\* What the statuses say of each other.
LEMMA Counterparts ==
  ASSUME CInv
  PROVE  /\ job.status = "QUEUED" => command = [status |-> "QUEUED", retry |-> None]
         /\ job.status = "RUNNING" => command = [status |-> "FETCHING", retry |-> None]
         /\ job.status = "RETRYING" => command = [status |-> "FETCHING", retry |-> job.wait]
         /\ job.status = "SUCCEEDED" => command.status \in {"QUARANTINED", "CANCELLED"}
         /\ job.status = "DEAD_LETTER" => command.status = "FAILED"
         /\ job.status = "CANCELLED" => command.status = "CANCELLED"
         /\ command.status \in {"QUEUED", "FETCHING"} => TargetWaits(target.intake) /\ custody.status = "RETAINED"
<1>1. command \in CommandRow /\ command = [status |-> command.status, retry |-> command.retry]
  BY CFacts DEF CommandRow
<1>2. StatusesAgree(command, job) /\ (command.status = "FAILED" => job.status = "DEAD_LETTER")
  BY CFacts DEF CommandFollows
<1>3. CASE command.status = "QUEUED"
  BY <1>1, <1>2, <1>3, CFacts DEF StatusesAgree, TargetFollows, TargetWaits
<1>4. CASE command.status = "FETCHING"
  BY <1>1, <1>2, <1>4, CFacts DEF StatusesAgree, TargetFollows, TargetWaits
<1>5. CASE command.status = "QUARANTINED"
  BY <1>2, <1>5 DEF StatusesAgree
<1>6. CASE command.status = "FAILED"
  BY <1>2, <1>6 DEF StatusesAgree
<1>7. CASE command.status = "CANCELLED"
  BY <1>2, <1>7 DEF StatusesAgree
<1> QED BY <1>1, <1>3, <1>4, <1>5, <1>6, <1>7 DEF CommandRow
-----------------------------------------------------------------------------
(* The transactions, one lemma for each.                                   *)

LEMMA ClaimKeeps ==
  ASSUME CInv, NEW w \in Workers, claimNextCrawlerJob(w)
  PROVE  CInv'
<1> DEFINE n == job.attempts + 1
           r == [ingress[n] EXCEPT !.status = "RECEIVING", !.left = LeaseTtl]
           held == Hand("fetching", n, 0, TRUE)
<1>1. /\ job \in JobRow /\ ingress \in [Attempts -> IngressRow] /\ row \in [Attempts -> RowStatuses]
      /\ hand \in [Workers -> HandRow] /\ LastAttemptCounts
  BY CFacts
<1>2. /\ UNCHANGED <<receipt, store, custody>> /\ job.status \in Waiting /\ ~Unsafe(ingress) /\ job.attempts < MaxAttempts
      /\ ClaimAuthority
  BY DEF claimNextCrawlerJob, Claimable
<1>3. n \in Attempts /\ n > job.attempts /\ n \in Nat /\ LeaseTtl \in Nat /\ MaxAttempts \in Nat /\ job.attempts \in Nat
  BY <1>2, CFacts, IngressBounds DEF Attempts
<1>4. job' = [status |-> "RUNNING", attempts |-> n, left |-> LeaseTtl, wait |-> 0]
  BY DEF claimNextCrawlerJob
<1>5. job' \in JobRow /\ job'.status = "RUNNING" /\ job'.attempts = n
  BY <1>3, <1>4 DEF JobRow, Attempts
<1>6. row' \in [Attempts -> RowStatuses]
  BY <1>1 DEF claimNextCrawlerJob, RowStatuses
<1>7. ingress' = [ingress EXCEPT ![n] = r]
  <2>1. ingress' = [ingress EXCEPT ![n].status = "RECEIVING", ![n].left = LeaseTtl]
    BY DEF claimNextCrawlerJob
  <2> HIDE DEF n
  <2> QED BY <2>1, Zenon
<1>8. r \in IngressRow /\ r.status = "RECEIVING" /\ MayHaveFile(r) /\ ~r.cleaned
  <2>1. ingress[n] \in IngressRow /\ ~ingress[n].cleaned
    BY <1>1, <1>3 DEF LastAttemptCounts
  <2> HIDE DEF n
  <2> QED BY <1>3, <2>1 DEF IngressRow, Open, MayHaveFile
<1>9. held \in HandRow /\ held.phase = "fetching" /\ held.n = n
  BY <1>3 DEF Hand, HandRow, Filling, Streaming, Attempts
<1>10. hand' = [hand EXCEPT ![w] = held]
  BY DEF claimNextCrawlerJob
<1>11. command' = [status |-> "FETCHING", retry |-> None] /\ command' \in CommandRow
  BY DEF claimNextCrawlerJob, CommandRow
<1>12. /\ custody.status = "RETAINED"
       /\ target' = [intake |-> "RECEIVING", released |-> FALSE, asset |-> "UPLOADING",
                     document |-> "PENDING", inbox |-> "NEEDS_REVIEW", batch |-> "RUNNING"]
  <2>1. TargetWaits("QUEUED") \/ TargetWaits("RECEIVING")
    BY <1>2 DEF ClaimAuthority
  <2>2. PICK intake \in {"QUEUED", "RECEIVING"} :
          /\ custody.status = "RETAINED"
          /\ target = [intake |-> intake, released |-> FALSE, asset |-> "UPLOADING",
                       document |-> "PENDING", inbox |-> "NEEDS_REVIEW", batch |-> "RUNNING"]
    BY <2>1 DEF TargetWaits
  <2>3. target' = [target EXCEPT !.intake = "RECEIVING"]
    BY DEF claimNextCrawlerJob
  <2> QED BY <2>2, <2>3
<1>13. target' \in TargetRow
  BY <1>12 DEF TargetRow
<1> HIDE DEF r, held, n
<1>14. /\ ingress' \in [Attempts -> IngressRow]
       /\ ingress'[n] = r /\ \A m \in Attempts : m # n => ingress'[m] = ingress[m]
  BY <1>1, <1>3, <1>7, <1>8
<1>15. hand' \in [Workers -> HandRow]
  BY <1>1, <1>9, <1>10
<1>16. Typed'
  BY <1>2, <1>5, <1>6, <1>11, <1>13, <1>14, <1>15, CFacts DEF Typed, CustodyTyped
<1>17. CommandFollows'
  BY <1>2, <1>5, <1>11, <1>12 DEF CommandFollows, StatusesAgree
<1>18. TargetFollows'
  BY <1>2, <1>11, <1>12 DEF TargetFollows, TargetWaits
<1>19. LastAttemptCounts'
  <2>1. receipt = None /\ job.status # "RUNNING" /\ None \notin Attempts
    BY <1>1, <1>2, IngressBounds DEF LastAttemptCounts, Waiting, Attempts
  <2>2. ASSUME NEW m \in Attempts
        PROVE  /\ MayHaveFile(ingress'[m]) => m = n
               /\ m > n => ingress'[m].status = "NONE"
               /\ ingress'[m].status = "ADOPTED" <=> receipt = m
               /\ ingress'[m].status \in Open \cup {"NONE"} => ~ingress'[m].cleaned
    <3>1. CASE m = n
      BY <1>3, <1>8, <1>14, <2>1, <3>1
    <3>2. CASE m # n
      <4>1. ingress'[m] = ingress[m] /\ ~MayHaveFile(ingress[m])
        BY <1>2, <1>14, <3>2 DEF Unsafe
      <4>2. m > n => m > job.attempts
        BY <1>3 DEF Attempts
      <4> QED BY <1>1, <3>2, <4>1, <4>2 DEF LastAttemptCounts
    <3> QED BY <3>1, <3>2
  <2> QED BY <1>2, <1>3, <1>5, <1>8, <1>12, <1>14, <2>1, <2>2 DEF LastAttemptCounts, Open
<1>20. WaitingIsWorthIt'
  BY <1>5 DEF WaitingIsWorthIt
<1>21. FilesAreInPlace'
  <2>1. \A m \in Attempts : Advances(m)
    BY <1>3, <1>8, <1>14 DEF Advances
  <2>2. Holding(w, held)
    BY <1>3, <1>8, <1>9, <1>14 DEF Holding
  <2>3. held.phase \notin Sweeping
    BY <1>9 DEF Sweeping
  <2>4. job'.attempts \in Nat /\ job'.attempts >= job.attempts /\ held.n \in Attempts /\ held.n <= job'.attempts
    BY <1>3, <1>5, <1>9
  <2> QED BY <1>2, <1>9, <1>10, <1>14, <2>1, <2>2, <2>3, <2>4, FilesStep
<1> QED BY <1>16, <1>17, <1>18, <1>19, <1>20, <1>21 DEF CInv

\* The last attempt of a running job is closed, and the job waits again.
LEMMA ClosingStep ==
  ASSUME CInv, job.status = "RUNNING", NEW n \in Attempts, n = job.attempts,
         NEW r \in IngressRow, r.status \in Given, r.cleaned = ingress[n].cleaned, ingress' = [ingress EXCEPT ![n] = r],
         NEW wait \in Nat, job' = Unlocked("RETRYING", wait), command' = RetriedAt(wait),
         NEW outcome \in {"FAILED", "DEAD_LETTER"}, row' = [row EXCEPT ![n] = outcome],
         Exhausted(n) => outcome = "DEAD_LETTER", UNCHANGED <<target, receipt, custody>>
  PROVE  /\ job' \in JobRow /\ job'.attempts = job.attempts /\ row' \in [Attempts -> RowStatuses]
         /\ ingress' \in [Attempts -> IngressRow] /\ command' \in CommandRow
         /\ CommandFollows' /\ TargetFollows' /\ LastAttemptCounts' /\ WaitingIsWorthIt'
         /\ \A m \in Attempts : Advances(m)
<1>1. /\ job \in JobRow /\ ingress \in [Attempts -> IngressRow] /\ row \in [Attempts -> RowStatuses]
      /\ LastAttemptCounts /\ CommandFollows /\ TargetFollows
  BY CFacts
<1>2. command = [status |-> "FETCHING", retry |-> None] /\ custody.status = "RETAINED" /\ TargetWaits(target.intake)
  BY Counterparts
<1>3. ingress' \in [Attempts -> IngressRow] /\ ingress'[n] = r /\ \A m \in Attempts : m # n => ingress'[m] = ingress[m]
  BY <1>1
<1>4. row' \in [Attempts -> RowStatuses] /\ row'[n] = outcome
  BY <1>1 DEF RowStatuses
<1>5. job' \in JobRow /\ job'.status = "RETRYING" /\ job'.attempts = job.attempts /\ job'.wait = wait
  BY <1>1 DEF Unlocked, JobRow, Waiting
<1>6. command' = [status |-> "FETCHING", retry |-> wait] /\ command' \in CommandRow
  BY <1>2 DEF RetriedAt, CommandRow
<1>7. CommandFollows'
  BY <1>2, <1>5, <1>6 DEF CommandFollows, StatusesAgree
<1>8. TargetFollows'
  BY <1>1, <1>2, <1>6 DEF TargetFollows, TargetWaits
<1>9. receipt = None /\ None \notin Attempts
  BY <1>1, IngressBounds DEF LastAttemptCounts, Attempts
<1>10. ~r.cleaned /\ MayHaveFile(r)
  <2>1. ~ingress[n].cleaned
    BY <1>1 DEF LastAttemptCounts
  <2> QED BY <2>1 DEF MayHaveFile
<1>11. ASSUME NEW m \in Attempts
       PROVE  /\ MayHaveFile(ingress'[m]) => m = n
              /\ m > n => ingress'[m].status = "NONE"
              /\ ingress'[m].status \notin Open /\ ingress'[m].status # "ADOPTED"
              /\ ingress'[m].status = "NONE" => ~ingress'[m].cleaned
  <2>1. CASE m = n
    BY <1>3, <2>1 DEF Given, Open, Attempts
  <2>2. CASE m # n
    <3>1. ingress'[m] = ingress[m] /\ ~MayHaveFile(ingress[m])
      BY <1>1, <1>3, <2>2 DEF LastAttemptCounts
    <3> QED BY <1>1, <2>2, <3>1 DEF LastAttemptCounts, MayHaveFile
  <2> QED BY <2>1, <2>2
<1>12. LastAttemptCounts'
  BY <1>2, <1>5, <1>9, <1>11 DEF LastAttemptCounts
<1>13. Unsafe(ingress)'
  BY <1>3, <1>10 DEF Unsafe
<1>14. WaitingIsWorthIt'
  BY <1>4, <1>5, <1>13 DEF WaitingIsWorthIt
<1>15. \A m \in Attempts : Advances(m)
  BY <1>3 DEF Advances
<1> QED BY <1>3, <1>4, <1>5, <1>6, <1>7, <1>8, <1>12, <1>14, <1>15

LEMMA ReapKeeps ==
  ASSUME CInv, NEW w \in Workers, reapExpiredCrawlerLease(w)
  PROVE  CInv'
<1> DEFINE n == job.attempts
           r == [ingress[n] EXCEPT !.status = "ABANDONED", !.wait = 0]
           outcome == IF Exhausted(n) THEN "DEAD_LETTER" ELSE "FAILED"
<1>1. ingress \in [Attempts -> IngressRow] /\ LastAttemptCounts
  BY CFacts
<1>2. /\ UNCHANGED <<target, receipt, store, hand, custody>> /\ job.status = "RUNNING"
      /\ job' = Unlocked("RETRYING", 0) /\ command' = RetriedAt(0) /\ row' = [row EXCEPT ![n] = outcome]
  BY DEF reapExpiredCrawlerLease
<1>3. n \in Attempts /\ ingress[n].status \in Open
  BY <1>1, <1>2 DEF LastAttemptCounts
<1>4. ingress' = [ingress EXCEPT ![n] = r]
  <2>1. ingress' = [ingress EXCEPT ![n].status = "ABANDONED", ![n].wait = 0]
    BY <1>3 DEF reapExpiredCrawlerLease
  <2> HIDE DEF n
  <2> QED BY <2>1, Zenon
<1>5. r \in IngressRow /\ r.status \in Given /\ r.cleaned = ingress[n].cleaned
  <2>1. ingress[n] \in IngressRow
    BY <1>1, <1>3
  <2> QED BY <2>1 DEF IngressRow, Given
<1>6. outcome \in {"FAILED", "DEAD_LETTER"} /\ (Exhausted(n) => outcome = "DEAD_LETTER") /\ 0 \in Nat
  OBVIOUS
<1> HIDE DEF r, outcome
<1>7. /\ job' \in JobRow /\ job'.attempts = job.attempts /\ row' \in [Attempts -> RowStatuses]
      /\ ingress' \in [Attempts -> IngressRow] /\ command' \in CommandRow
      /\ CommandFollows' /\ TargetFollows' /\ LastAttemptCounts' /\ WaitingIsWorthIt'
      /\ \A m \in Attempts : Advances(m)
  BY <1>2, <1>3, <1>4, <1>5, <1>6, ClosingStep
<1>8. Typed'
  BY <1>2, <1>7, CFacts DEF Typed, CustodyTyped
<1>9. FilesAreInPlace'
  BY <1>2, <1>7, SameHands
<1> QED BY <1>7, <1>8, <1>9 DEF CInv

\* What the holder of a lease knows.
LEMMA HeldAttempt ==
  ASSUME CInv, NEW w \in Workers, hand[w].phase \notin {"idle"} \cup Deleters, Owns(hand[w].n)
  PROVE  /\ job.status = "RUNNING" /\ hand[w].n = job.attempts /\ job.left > 0
         /\ hand[w].n \in Attempts /\ ingress[hand[w].n].status \in Open
         /\ ingress[hand[w].n] \in IngressRow /\ custody.status = "RETAINED"
         /\ command = [status |-> "FETCHING", retry |-> None] /\ TargetWaits("RECEIVING")
<1>1. hand[w].n \in Attempts /\ ingress \in [Attempts -> IngressRow]
  BY CFacts, HandFacts
<1> QED BY <1>1, Counterparts DEF Owns, Leased, FetchAuthority, TargetWaits

\* The status of the job, of the import and of each attempt stays.
LEMMA SameStatusKeeps ==
  ASSUME CInv, UNCHANGED <<row, target, receipt, store, hand>>, custody'.status = custody.status, CustodyTyped',
         job' \in JobRow, job'.status = job.status, job'.attempts = job.attempts,
         command' \in CommandRow, command'.status = command.status, StatusesAgree(command, job)',
         ingress' \in [Attempts -> IngressRow],
         \A n \in Attempts : ingress'[n].status = ingress[n].status /\ ingress'[n].cleaned = ingress[n].cleaned
  PROVE  CInv'
<1>1. Typed'
  BY CFacts DEF Typed
<1>2. \A n \in Attempts : MayHaveFile(ingress[n])' = MayHaveFile(ingress[n])
  BY DEF MayHaveFile
<1>3. Unsafe(ingress)' = Unsafe(ingress)
  BY <1>2 DEF Unsafe
<1>4. CommandFollows' /\ TargetFollows' /\ WaitingIsWorthIt'
  BY <1>3, CFacts DEF CommandFollows, TargetFollows, TargetWaits, WaitingIsWorthIt
<1>5. LastAttemptCounts'
  <2>1. LastAttemptCounts
    BY CFacts
  <2> QED BY <1>2, <2>1 DEF LastAttemptCounts
<1>6. FilesAreInPlace'
  BY SameHands DEF Advances
<1> QED BY <1>1, <1>4, <1>5, <1>6 DEF CInv

LEMMA HeartbeatKeeps ==
  ASSUME CInv, NEW w \in Workers, heartbeatCrawlerJob(w)
  PROVE  CInv'
<1> DEFINE n == hand[w].n  r == [ingress[n] EXCEPT !.left = LeaseTtl]
<1>1. job \in JobRow /\ ingress \in [Attempts -> IngressRow] /\ command \in CommandRow /\ LeaseTtl \in Nat
  BY CFacts, IngressBounds
<1>2. /\ UNCHANGED <<row, command, target, receipt, store, hand, custody>> /\ job' = [job EXCEPT !.left = LeaseTtl]
      /\ hand[w].phase \notin {"idle"} \cup Deleters /\ Owns(n)
  BY DEF heartbeatCrawlerJob, Streaming, Deleters, Deleting
<1>3. job' \in JobRow /\ job'.status = job.status /\ job'.attempts = job.attempts /\ job'.wait = job.wait
  BY <1>1, <1>2 DEF JobRow
<1>4. n \in Attempts /\ ingress[n] \in IngressRow
  BY <1>2, HeldAttempt
<1>5. r \in IngressRow /\ r.status = ingress[n].status /\ r.cleaned = ingress[n].cleaned
  BY <1>1, <1>4 DEF IngressRow
<1>6. ingress' = [ingress EXCEPT ![n] = r]
  BY DEF heartbeatCrawlerJob
<1> HIDE DEF r
<1>7. /\ ingress' \in [Attempts -> IngressRow]
      /\ \A m \in Attempts : ingress'[m].status = ingress[m].status /\ ingress'[m].cleaned = ingress[m].cleaned
  BY <1>1, <1>4, <1>5, <1>6
<1>8. StatusesAgree(command, job)'
  BY <1>2, <1>3, CFacts DEF StatusesAgree
<1>9. CustodyTyped'
  BY <1>2, CFacts DEF CustodyTyped
<1> QED BY <1>1, <1>2, <1>3, <1>7, <1>8, <1>9, SameStatusKeeps

LEMMA MarkKeeps ==
  ASSUME CInv, NEW w \in Workers, NEW answered \in BOOLEAN, markCrawlerIngressWritten(w, answered)
  PROVE  CInv'
<1> DEFINE n == hand[w].n
           r == [ingress[n] EXCEPT !.status = "WRITTEN"]
           phase == IF answered THEN "written" ELSE "failing"
           held == [hand[w] EXCEPT !.phase = phase]
<1>1. /\ ingress \in [Attempts -> IngressRow] /\ hand \in [Workers -> HandRow] /\ hand[w] \in HandRow
      /\ HandIsSound(w) /\ LastAttemptCounts
  BY CFacts, HandFacts
<1>2. /\ UNCHANGED <<job, row, command, target, receipt, store, custody>> /\ hand[w].phase = "stored"
      /\ Owns(n) /\ ingress[n].status = "RECEIVING"
  BY DEF markCrawlerIngressWritten, At
<1>3. /\ n \in Attempts /\ n = job.attempts /\ job.status = "RUNNING" /\ ingress[n] \in IngressRow
      /\ custody.status = "RETAINED" /\ TargetWaits("RECEIVING") /\ command.status = "FETCHING"
  BY <1>2, HeldAttempt DEF Deleters, Deleting
<1>4. ingress' = [ingress EXCEPT ![n] = r]
  BY DEF markCrawlerIngressWritten
<1>5. r \in IngressRow /\ r.status = "WRITTEN" /\ r.cleaned = ingress[n].cleaned /\ ~r.cleaned
  <2>1. ~ingress[n].cleaned
    BY <1>1, <1>2, <1>3 DEF LastAttemptCounts, Open
  <2> QED BY <1>3, <2>1 DEF IngressRow, Open
<1>6. hand' = [hand EXCEPT ![w] = held]
  BY DEF markCrawlerIngressWritten, Goes
<1>7. held \in HandRow /\ held.n = n /\ held.phase \in {"written", "failing"}
  BY <1>1 DEF HandRow
<1>8. n \in store.finals \/ store.tomb
  BY <1>1, <1>2 DEF HandIsSound
<1>9. \A v \in Workers \ {w} : hand[v].phase \in Filling => hand[v].n # n
  BY <1>2, CFacts DEF FilesAreInPlace, HandsAreApart, Filling
<1> HIDE DEF r, held, n, phase
<1>10. ingress' \in [Attempts -> IngressRow] /\ ingress'[n] = r /\ \A m \in Attempts : m # n => ingress'[m] = ingress[m]
  BY <1>1, <1>3, <1>4, <1>5
<1>11. hand' \in [Workers -> HandRow] /\ hand'[w] = held /\ \A v \in Workers \ {w} : hand'[v] = hand[v]
  BY <1>1, <1>6, <1>7
<1>12. Typed'
  BY <1>2, <1>10, <1>11, CFacts DEF Typed, CustodyTyped
<1>13. CommandFollows' /\ TargetFollows' /\ WaitingIsWorthIt'
  <2>1. ~target.released
    BY <1>3 DEF TargetWaits
  <2> QED BY <1>2, <1>3, <2>1, CFacts DEF CommandFollows, TargetFollows, TargetWaits, WaitingIsWorthIt
<1>14. LastAttemptCounts'
  <2>1. receipt = None /\ None \notin Attempts
    BY <1>1, <1>3, IngressBounds DEF LastAttemptCounts, Attempts
  <2>2. ASSUME NEW m \in Attempts
        PROVE  /\ MayHaveFile(ingress'[m]) => m = job.attempts
               /\ m > job.attempts => ingress'[m].status = "NONE"
               /\ ingress'[m].status = "ADOPTED" <=> receipt = m
               /\ ingress'[m].status \in Open \cup {"NONE"} => ~ingress'[m].cleaned
    <3>1. CASE m = n
      BY <1>3, <1>5, <1>10, <2>1, <3>1 DEF Attempts
    <3>2. CASE m # n
      BY <1>1, <1>10, <3>2 DEF LastAttemptCounts
    <3> QED BY <3>1, <3>2
  <2> QED BY <1>2, <1>3, <1>5, <1>10, <2>1, <2>2 DEF LastAttemptCounts, Open
<1>15. FilesAreInPlace'
  <2>1. \A v \in Workers : hand'[v].phase \in Filling => hand'[v].n # n
    BY <1>7, <1>9, <1>11 DEF Filling, Streaming
  <2>2. \A m \in Attempts : Advances(m)
    BY <1>2, <1>5, <1>8, <1>10, <2>1 DEF Advances, Open
  <2>3. Holding(w, held) /\ held.phase \notin Sweeping
    BY <1>7 DEF Holding, Sweeping
  <2>4. job'.attempts \in Nat /\ job'.attempts >= job.attempts /\ held.n \in Attempts /\ held.n <= job'.attempts
    BY <1>2, <1>3, <1>7, CFacts
  <2> QED BY <1>2, <1>6, <1>7, <1>10, <2>2, <2>3, <2>4, FilesStep
<1> QED BY <1>12, <1>13, <1>14, <1>15 DEF CInv

LEMMA CompleteKeeps ==
  ASSUME CInv, NEW w \in Workers, NEW answered \in BOOLEAN, completeCrawlerJob(w, answered)
  PROVE  CInv'
<1> DEFINE n == hand[w].n
           r == [ingress[n] EXCEPT !.status = "ADOPTED", !.wait = 0]
           held == IF answered THEN Idle ELSE [hand[w] EXCEPT !.phase = "failing"]
<1>1. /\ job \in JobRow /\ ingress \in [Attempts -> IngressRow] /\ hand \in [Workers -> HandRow] /\ hand[w] \in HandRow
      /\ row \in [Attempts -> RowStatuses] /\ target \in TargetRow /\ LastAttemptCounts
  BY CFacts, HandFacts
<1>2. /\ UNCHANGED <<store, custody>> /\ hand[w].phase = "written" /\ Owns(n) /\ ingress[n].status = "WRITTEN"
      /\ receipt' = n
  BY DEF completeCrawlerJob, At
<1>3. /\ n \in Attempts /\ n = job.attempts /\ job.status = "RUNNING" /\ ingress[n] \in IngressRow
      /\ custody.status = "RETAINED" /\ TargetWaits("RECEIVING")
  BY <1>2, HeldAttempt DEF Deleters, Deleting
<1>4. ingress' = [ingress EXCEPT ![n] = r]
  <2>1. ingress' = [ingress EXCEPT ![n].status = "ADOPTED", ![n].wait = 0]
    BY DEF completeCrawlerJob
  <2> QED BY <2>1, Zenon
<1>5. r \in IngressRow /\ r.status = "ADOPTED"
  BY <1>3 DEF IngressRow, Open
<1>6. hand' = [hand EXCEPT ![w] = held]
  BY DEF completeCrawlerJob, Goes, Rests
<1>7. held \in HandRow /\ held.phase \in {"idle", "failing"} /\ (held.phase # "idle" => held.n = n)
  BY <1>1, IngressBounds DEF HandRow, Idle, Hand
<1>8. job' \in JobRow /\ job'.status = "SUCCEEDED" /\ job'.attempts = job.attempts
  BY <1>1 DEF completeCrawlerJob, Unlocked, JobRow
<1>9. command' = [status |-> "QUARANTINED", retry |-> None] /\ command' \in CommandRow
  BY DEF completeCrawlerJob, CommandRow
<1>10. /\ target' \in TargetRow /\ target'.intake = "QUARANTINED" /\ target'.batch = "RUNNING"
       /\ ~target'.released
  BY <1>1, <1>3 DEF completeCrawlerJob, TargetRow, TargetWaits
<1>11. row' \in [Attempts -> RowStatuses]
  BY <1>1 DEF completeCrawlerJob, RowStatuses
<1> HIDE DEF r, held, n
<1>12. ingress' \in [Attempts -> IngressRow] /\ ingress'[n] = r /\ \A m \in Attempts : m # n => ingress'[m] = ingress[m]
  BY <1>1, <1>3, <1>4, <1>5
<1>13. hand' \in [Workers -> HandRow] /\ hand'[w] = held /\ \A v \in Workers \ {w} : hand'[v] = hand[v]
  BY <1>1, <1>6, <1>7
<1>14. Typed'
  BY <1>2, <1>3, <1>8, <1>9, <1>10, <1>11, <1>12, <1>13, CFacts DEF Typed, CustodyTyped
<1>15. CommandFollows' /\ TargetFollows' /\ WaitingIsWorthIt'
  BY <1>2, <1>3, <1>8, <1>9, <1>10 DEF CommandFollows, StatusesAgree, TargetFollows, WaitingIsWorthIt
<1>16. LastAttemptCounts'
  <2>1. receipt = None /\ None \notin Attempts
    BY <1>1, <1>3, IngressBounds DEF LastAttemptCounts, Attempts
  <2>2. ASSUME NEW m \in Attempts
        PROVE  /\ MayHaveFile(ingress'[m]) => m = job.attempts
               /\ m > job.attempts => ingress'[m].status = "NONE"
               /\ ingress'[m].status \notin Open
               /\ ingress'[m].status = "NONE" => ~ingress'[m].cleaned
               /\ ingress'[m].status = "ADOPTED" <=> m = n
    <3>1. CASE m = n
      BY <1>3, <1>5, <1>12, <3>1 DEF Attempts, Open
    <3>2. CASE m # n
      <4>1. ingress'[m] = ingress[m] /\ ~MayHaveFile(ingress[m])
        BY <1>1, <1>3, <1>12, <3>2 DEF LastAttemptCounts
      <4> QED BY <1>1, <3>2, <4>1 DEF LastAttemptCounts, MayHaveFile
    <3> QED BY <3>1, <3>2
  <2> QED BY <1>2, <1>3, <1>8, <2>1, <2>2 DEF LastAttemptCounts
<1>17. FilesAreInPlace'
  <2>1. ASSUME NEW v \in Workers, hand'[v].phase \in Filling
        PROVE  hand'[v].n # n
    <3>1. v # w /\ hand'[v] = hand[v]
      BY <1>7, <1>13, <2>1 DEF Filling, Streaming
    <3>2. HandIsSound(v)
      BY HandFacts
    <3> QED BY <1>2, <2>1, <3>1, <3>2 DEF HandIsSound, Given
  <2>2. n \in store.finals \/ store.tomb
    BY <1>2, <1>3, CFacts DEF FilesAreInPlace
  <2>3. \A m \in Attempts : Advances(m)
    BY <1>2, <1>5, <1>12, <2>1, <2>2 DEF Advances, Open
  <2>4. Holding(w, held) /\ held.phase \notin Sweeping
    BY <1>7 DEF Holding, Sweeping
  <2>5. job'.attempts \in Nat /\ job'.attempts >= job.attempts
        /\ (held.phase # "idle" => held.n \in Attempts /\ held.n <= job'.attempts)
    BY <1>3, <1>7, <1>8, CFacts
  <2> QED BY <1>2, <1>6, <1>7, <1>12, <2>3, <2>4, <2>5, FilesStep
<1> QED BY <1>14, <1>15, <1>16, <1>17 DEF CInv

LEMMA FailKeeps ==
  ASSUME CInv, NEW w \in Workers, failCrawlerJob(w)
  PROVE  CInv'
<1> DEFINE n == hand[w].n
           wait == IF TerminalFailure(w) THEN 0 ELSE RetryDelay
           outcome == IF TerminalFailure(w) THEN "DEAD_LETTER" ELSE "FAILED"
           r == [ingress[n] EXCEPT !.status = "FAILED", !.wait = 0]
           held == [hand[w] EXCEPT !.phase = "failed"]
<1>1. hand \in [Workers -> HandRow] /\ hand[w] \in HandRow
  BY CFacts, HandFacts
<1>2. /\ UNCHANGED <<target, receipt, store, custody>> /\ hand[w].phase = "failing" /\ Owns(n)
      /\ job' = Unlocked("RETRYING", wait) /\ command' = RetriedAt(wait) /\ row' = [row EXCEPT ![n] = outcome]
  BY DEF failCrawlerJob, At
<1>3. n \in Attempts /\ n = job.attempts /\ job.status = "RUNNING" /\ ingress[n] \in IngressRow
  BY <1>2, HeldAttempt DEF Deleters, Deleting
<1>4. ingress' = [ingress EXCEPT ![n] = r]
  <2>1. ingress' = [ingress EXCEPT ![n].status = "FAILED", ![n].wait = 0]
    BY DEF failCrawlerJob
  <2> QED BY <2>1, Zenon
<1>5. r \in IngressRow /\ r.status \in Given /\ r.cleaned = ingress[n].cleaned
  BY <1>3 DEF IngressRow, Given
<1>6. hand' = [hand EXCEPT ![w] = held]
  BY DEF failCrawlerJob, Goes
<1>7. held \in HandRow /\ held.n = n /\ held.phase = "failed"
  BY <1>1 DEF HandRow
<1>8. wait \in Nat /\ outcome \in {"FAILED", "DEAD_LETTER"} /\ (Exhausted(n) => outcome = "DEAD_LETTER")
  BY IngressBounds DEF TerminalFailure
<1> HIDE DEF r, held, n, wait, outcome
<1>9. /\ job' \in JobRow /\ job'.attempts = job.attempts /\ row' \in [Attempts -> RowStatuses]
      /\ ingress' \in [Attempts -> IngressRow] /\ command' \in CommandRow
      /\ CommandFollows' /\ TargetFollows' /\ LastAttemptCounts' /\ WaitingIsWorthIt'
      /\ \A m \in Attempts : Advances(m)
  BY <1>2, <1>3, <1>4, <1>5, <1>8, ClosingStep
<1>10. hand' \in [Workers -> HandRow]
  BY <1>1, <1>6, <1>7
<1>11. Typed'
  BY <1>2, <1>9, <1>10, CFacts DEF Typed, CustodyTyped
<1>12. FilesAreInPlace'
  <2>1. Holding(w, held) /\ held.phase \notin Sweeping
    BY <1>7 DEF Holding, Sweeping
  <2>2. job'.attempts \in Nat /\ job'.attempts >= job.attempts /\ held.n \in Attempts /\ held.n <= job'.attempts
    BY <1>3, <1>7, <1>9, CFacts
  <2> QED BY <1>2, <1>6, <1>7, <1>9, <2>1, <2>2, FilesStep
<1> QED BY <1>9, <1>11, <1>12 DEF CInv

\* A file that is still to be removed is the last attempt's, and its job
\* neither runs nor has succeeded.
LEMMA LeftBehind ==
  ASSUME CInv, NEW n \in Attempts, ingress[n].status \in Given, ~ingress[n].cleaned
  PROVE  /\ n = job.attempts /\ MayHaveFile(ingress[n]) /\ Unsafe(ingress) /\ receipt = None
         /\ job.status \in {"RETRYING", "DEAD_LETTER", "CANCELLED"} /\ custody.status # "DELETED"
         /\ ~target.released
<1>1. MayHaveFile(ingress[n]) /\ Unsafe(ingress)
  BY DEF MayHaveFile, Unsafe
<1>2. LastAttemptCounts /\ TargetFollows /\ WaitingIsWorthIt /\ receipt \in Attempts \cup {None} /\ job \in JobRow
  BY CFacts
<1>3. n = job.attempts
  BY <1>1, <1>2 DEF LastAttemptCounts
<1>4. job.status # "RUNNING" /\ job.status # "QUEUED"
  BY <1>2, <1>3 DEF LastAttemptCounts, WaitingIsWorthIt, Given, Open, Attempts
<1>5. receipt = None
  <2>1. ASSUME receipt \in Attempts
        PROVE  FALSE
    <3>1. ingress[receipt].status = "ADOPTED"
      BY <1>2, <2>1 DEF LastAttemptCounts
    <3>2. receipt = n
      BY <1>2, <1>3, <2>1, <3>1 DEF LastAttemptCounts, MayHaveFile
    <3> QED BY <3>1, <3>2 DEF Given
  <2> QED BY <1>2, <2>1
<1>6. job.status # "SUCCEEDED"
  BY <1>2, <1>5 DEF LastAttemptCounts
<1>7. custody.status # "DELETED"
  BY <1>2 DEF LastAttemptCounts, Given
<1>8. ~target.released
  BY <1>1, <1>2, <1>7 DEF TargetFollows
<1> QED BY <1>1, <1>2, <1>3, <1>4, <1>5, <1>6, <1>7, <1>8 DEF JobRow, Waiting

\* A sweep is claimed or put off, or records what it removed: no attempt
\* changes its status, and no other attempt has a file.
LEMMA SweepingStep ==
  ASSUME CInv, NEW n \in Attempts, ingress[n].status \in Given, ~ingress[n].cleaned,
         NEW r \in IngressRow, r.status = ingress[n].status, ingress' = [ingress EXCEPT ![n] = r],
         UNCHANGED <<receipt, custody>>, job'.attempts = job.attempts,
         job'.status \in {"RETRYING", "DEAD_LETTER", "CANCELLED"},
         \A m \in Attempts : row'[m] = "RUNNING" => row[m] = "RUNNING"
  PROVE  /\ LastAttemptCounts' /\ ingress' \in [Attempts -> IngressRow]
         /\ \A m \in Attempts : Advances(m)
         /\ \A m \in Attempts : ingress'[m].status = ingress[m].status
         /\ Unsafe(ingress') <=> ~r.cleaned
<1>1. ingress \in [Attempts -> IngressRow] /\ LastAttemptCounts
  BY CFacts
<1>2. ingress' \in [Attempts -> IngressRow] /\ ingress'[n] = r /\ \A m \in Attempts : m # n => ingress'[m] = ingress[m]
  BY <1>1
<1>3. n = job.attempts /\ receipt = None /\ job.status # "RUNNING" /\ custody.status # "DELETED"
  BY LeftBehind
<1>4. \A m \in Attempts : ingress'[m].status = ingress[m].status
  BY <1>2
<1>5. \A m \in Attempts : MayHaveFile(ingress'[m]) => m = n
  BY <1>1, <1>2, <1>3 DEF LastAttemptCounts
<1>6. \A m \in Attempts : ingress'[m].status \in Open \cup {"NONE"} => ~ingress'[m].cleaned
  BY <1>1, <1>2, <1>4 DEF LastAttemptCounts, Given, Open
<1>7. LastAttemptCounts'
  BY <1>1, <1>3, <1>4, <1>5, <1>6 DEF LastAttemptCounts
<1>8. MayHaveFile(r) <=> ~r.cleaned
  BY DEF MayHaveFile, Given, Open
<1>9. Unsafe(ingress') <=> ~r.cleaned
  BY <1>2, <1>5, <1>8 DEF Unsafe
<1> QED BY <1>2, <1>4, <1>7, <1>9 DEF Advances

LEMMA ClaimCleanupKeeps ==
  ASSUME CInv, NEW w \in Workers, NEW n \in Attempts, NEW cost, ClaimCleanup(w, n, cost)
  PROVE  CInv'
<1> DEFINE r == [ingress[n] EXCEPT !.tries = ingress[n].tries + 1, !.wait = CleanupLease]
           held == Hand("sweeping", n, ingress[n].tries + 1, TRUE)
<1>1. ingress \in [Attempts -> IngressRow] /\ hand \in [Workers -> HandRow] /\ ingress[n] \in IngressRow
  BY CFacts
<1>2. /\ UNCHANGED <<job, row, command, target, receipt, store, custody>>
      /\ ingress[n].status \in Given /\ ~ingress[n].cleaned
  BY DEF ClaimCleanup, CleanupDue
<1>3. /\ n = job.attempts /\ job.status \in {"RETRYING", "DEAD_LETTER", "CANCELLED"}
      /\ Unsafe(ingress) /\ ~target.released
  BY <1>2, LeftBehind
<1>4. ingress' = [ingress EXCEPT ![n] = r]
  <2>1. ingress' = [ingress EXCEPT ![n].tries = @ + 1, ![n].wait = CleanupLease]
    BY DEF ClaimCleanup
  <2> QED BY <2>1, Zenon
<1>5. ingress[n].tries + 1 \in Nat /\ CleanupLease \in Nat
  BY <1>1, IngressBounds DEF IngressRow
<1>6. r \in IngressRow /\ r.status = ingress[n].status /\ ~r.cleaned
  BY <1>1, <1>2, <1>5 DEF IngressRow
<1>7. hand' = [hand EXCEPT ![w] = held]
  BY DEF ClaimCleanup
<1>8. held \in HandRow /\ held.n = n /\ held.phase = "sweeping"
  BY <1>5 DEF Hand, HandRow, Sweeping, Attempts
<1> HIDE DEF r, held
<1>9. /\ LastAttemptCounts' /\ ingress' \in [Attempts -> IngressRow]
      /\ \A m \in Attempts : Advances(m)
      /\ \A m \in Attempts : ingress'[m].status = ingress[m].status
      /\ Unsafe(ingress')
  BY <1>2, <1>3, <1>4, <1>6, SweepingStep
<1>10. hand' \in [Workers -> HandRow]
  BY <1>1, <1>7, <1>8
<1>11. Typed'
  BY <1>2, <1>9, <1>10, CFacts DEF Typed, CustodyTyped
<1>12. CommandFollows' /\ TargetFollows' /\ WaitingIsWorthIt'
  BY <1>2, <1>3, <1>9, CFacts DEF CommandFollows, TargetFollows, TargetWaits, WaitingIsWorthIt
<1>13. FilesAreInPlace'
  <2>1. Holding(w, held) /\ ingress'[held.n].status \in Given
    BY <1>2, <1>8, <1>9 DEF Holding, Sweeping
  <2>2. job'.attempts \in Nat /\ job'.attempts >= job.attempts /\ held.n \in Attempts /\ held.n <= job'.attempts
    BY <1>2, <1>3, <1>8, CFacts
  <2> QED BY <1>2, <1>7, <1>8, <1>9, <2>1, <2>2, FilesStep
<1> QED BY <1>9, <1>11, <1>12, <1>13 DEF CInv

\* The job is given up for good, and the import it is bound to fails.
LEMMA TerminalStep ==
  ASSUME CInv, NEW safe \in BOOLEAN, NEW charged \in BOOLEAN, safe \/ charged,
         job' = DeadJob, command' = FailedCommand, target' = FailedTarget(safe, charged),
         StatusesAgree(FailedCommand, DeadJob), custody' = custody,
         safe => ~Unsafe(ingress'), ~target.released
  PROVE  /\ job' \in JobRow /\ job'.status = "DEAD_LETTER" /\ job'.attempts = job.attempts
         /\ command' \in CommandRow /\ target' \in TargetRow
         /\ CommandFollows' /\ TargetFollows' /\ WaitingIsWorthIt'
<1>1. job \in JobRow /\ command \in CommandRow /\ target \in TargetRow /\ CommandFollows /\ TargetFollows
  BY CFacts
<1>2. job' \in JobRow /\ job'.status = "DEAD_LETTER" /\ job'.attempts = job.attempts
  BY <1>1 DEF DeadJob, Unlocked, JobRow
<1>3. WaitingIsWorthIt'
  BY <1>2 DEF WaitingIsWorthIt
<1>4. FailedCommand \in CommandRow /\ FailedCommand.status = "FAILED"
  <2>1. FailedCommand \in CommandRow
    BY <1>1 DEF FailedCommand, CommandRow
  <2>2. DeadJob.status = "DEAD_LETTER"
    BY <1>1 DEF DeadJob, Unlocked, JobRow
  <2>3. FailedCommand.status \in {"QUEUED", "FETCHING", "QUARANTINED", "FAILED", "CANCELLED"}
    BY <2>1 DEF CommandRow
  <2> HIDE DEF FailedCommand, DeadJob
  <2>4. FailedCommand.status # "QUEUED" /\ FailedCommand.status # "FETCHING"
    BY <2>2 DEF StatusesAgree
  <2>5. FailedCommand.status # "QUARANTINED" /\ FailedCommand.status # "CANCELLED"
    BY <2>2 DEF StatusesAgree
  <2> QED BY <2>1, <2>3, <2>4, <2>5
<1>5. CommandFollows'
  BY <1>1, <1>2, <1>4 DEF CommandFollows, StatusesAgree
<1>6. CASE Bound
  <2>1. custody.status = "RETAINED" /\ command.status \in {"QUEUED", "FETCHING", "FAILED"}
    BY <1>6 DEF Bound
  <2>2. target.batch \in {"RUNNING", "FAILED"}
    BY <1>1, <2>1 DEF TargetFollows
  <2>3. target' = [intake |-> "FAILED", released |-> Released(safe, charged),
          asset |-> IF target.asset = "UPLOADING" THEN "REJECTED" ELSE target.asset,
          document |-> IF target.document = "PENDING" THEN "FAILED" ELSE target.document,
          inbox |-> IF target.inbox = "NEEDS_REVIEW" THEN "FAILED" ELSE target.inbox,
          batch |-> IF (safe \/ charged) /\ target.batch = "RUNNING" THEN "FAILED" ELSE target.batch]
    BY <1>6 DEF FailedTarget
  <2>4. Released(safe, charged) \in BOOLEAN /\ (Released(safe, charged) => safe)
    BY <1>1 DEF Released, TargetRow
  <2>5. /\ target.asset \in {"UPLOADING", "QUARANTINED", "REJECTED", "DELETED"}
        /\ target.document \in {"PENDING", "FAILED", "ARCHIVED"} /\ target.inbox \in {"NEEDS_REVIEW", "FAILED", "REJECTED"}
    BY <1>1 DEF TargetRow
  <2>6. /\ target' \in TargetRow /\ target'.intake = "FAILED" /\ target'.batch = "FAILED"
        /\ target'.released => safe
    BY <2>2, <2>3, <2>4, <2>5 DEF TargetRow
  <2>7. TargetFollows'
    BY <1>4, <2>1, <2>6 DEF TargetFollows
  <2> QED BY <1>2, <1>3, <1>4, <1>5, <2>6, <2>7
<1>7. CASE ~Bound
  <2>1. command' = command /\ target' = target /\ command.status = "FAILED"
    BY <1>4, <1>7 DEF FailedCommand, FailedTarget
  <2>2. TargetFollows'
    BY <1>1, <2>1 DEF TargetFollows
  <2> QED BY <1>1, <1>2, <1>3, <1>4, <1>5, <2>1, <2>2
<1> QED BY <1>6, <1>7

\* What the worker that has swept knows while its cleanup is current.
LEMMA SweptAttempt ==
  ASSUME CInv, NEW w \in Workers, hand[w].phase \in {"swept", "unswept"}, CleanupCurrent(w)
  PROVE  /\ hand[w].n \in Attempts /\ ingress[hand[w].n] \in IngressRow
         /\ ingress[hand[w].n].status \in Given /\ ~ingress[hand[w].n].cleaned
         /\ hand[w].n = job.attempts /\ receipt = None /\ Unsafe(ingress) /\ ~target.released
         /\ job.status \in {"RETRYING", "DEAD_LETTER", "CANCELLED"}
<1>1. hand[w].n \in Attempts /\ ingress \in [Attempts -> IngressRow]
  BY CFacts, HandFacts DEF Deleters, Deleting
<1>2. ingress[hand[w].n].status \in Given /\ ~ingress[hand[w].n].cleaned
  BY DEF CleanupCurrent
<1> QED BY <1>1, <1>2, LeftBehind

\* The removal failed, and the rows are as they were but for the delays.
LEMMA DelayedStep ==
  ASSUME CInv, NEW w \in Workers, hand[w].phase = "unswept", CleanupCurrent(w), Rests(w),
         ingress' = [ingress EXCEPT ![hand[w].n].wait = CleanupDelay],
         job' = IF job.status = "RETRYING" THEN [job EXCEPT !.wait = CleanupDelay] ELSE job,
         command' \in CommandRow, command'.status = command.status, StatusesAgree(command, job)',
         UNCHANGED <<row, target, receipt, store, custody>>
  PROVE  CInv'
<1> DEFINE n == hand[w].n
           r == [ingress[n] EXCEPT !.wait = CleanupDelay]
<1>1. /\ n \in Attempts /\ ingress[n] \in IngressRow /\ ingress[n].status \in Given /\ ~ingress[n].cleaned
      /\ job.status \in {"RETRYING", "DEAD_LETTER", "CANCELLED"} /\ ~target.released
  BY SweptAttempt
<1>2. ingress' = [ingress EXCEPT ![n] = r]
  OBVIOUS
<1>3. r \in IngressRow /\ r.status = ingress[n].status /\ ~r.cleaned
  BY <1>1, IngressBounds DEF IngressRow
<1>4. job' \in JobRow /\ job'.status = job.status /\ job'.attempts = job.attempts
  BY CFacts, IngressBounds DEF JobRow
<1> HIDE DEF r, n
<1>5. LastAttemptCounts' /\ ingress' \in [Attempts -> IngressRow] /\ (\A m \in Attempts : Advances(m)) /\ Unsafe(ingress')
  BY <1>1, <1>2, <1>3, <1>4, SweepingStep
<1>6. FilesAreInPlace' /\ hand' \in [Workers -> HandRow]
  BY <1>4, <1>5, RestingHands
<1>7. Typed'
  BY <1>4, <1>5, <1>6, CFacts DEF Typed, CustodyTyped
<1>8. CommandFollows' /\ TargetFollows' /\ WaitingIsWorthIt'
  BY <1>1, <1>4, <1>5, CFacts DEF CommandFollows, TargetFollows, TargetWaits, WaitingIsWorthIt
<1> QED BY <1>5, <1>6, <1>7, <1>8 DEF CInv

LEMMA CleanupPutOffKeeps ==
  ASSUME CInv, NEW w \in Workers, CleanupPutOff(w)
  PROVE  CInv'
<1> DEFINE n == hand[w].n
           r == [ingress[n] EXCEPT !.wait = CleanupDelay]
<1>1. /\ hand[w].phase = "unswept" /\ CleanupCurrent(w) /\ Rests(w) /\ UNCHANGED <<receipt, store, custody>>
      /\ ingress' = [ingress EXCEPT ![n].wait = CleanupDelay]
  BY DEF CleanupPutOff, At
<1>2. /\ n \in Attempts /\ ingress[n] \in IngressRow /\ ingress[n].status \in Given /\ ~ingress[n].cleaned
      /\ job.status \in {"RETRYING", "DEAD_LETTER", "CANCELLED"} /\ ~target.released
  BY <1>1, SweptAttempt
<1>3. CASE NeedsAttention(n)
  <2>1. /\ row' = [row EXCEPT ![n] = IF row[n] = "FAILED" THEN "DEAD_LETTER" ELSE row[n]]
        /\ StatusesAgree(FailedCommand, DeadJob) /\ job' = DeadJob /\ command' = FailedCommand
        /\ target' = FailedTarget(~Unsafe(ingress'), TRUE)
    BY <1>3 DEF CleanupPutOff, Terminalize
  <2>2. ingress' = [ingress EXCEPT ![n] = r]
    BY <1>1
  <2>3. r \in IngressRow /\ r.status = ingress[n].status
    BY <1>2, IngressBounds DEF IngressRow
  <2> DEFINE safe == ~Unsafe(ingress')
  <2>4. safe \in BOOLEAN /\ target' = FailedTarget(safe, TRUE) /\ (safe => ~Unsafe(ingress'))
    BY <2>1
  <2> HIDE DEF safe, r, n
  <2>5. /\ job' \in JobRow /\ job'.status = "DEAD_LETTER" /\ job'.attempts = job.attempts
        /\ command' \in CommandRow /\ target' \in TargetRow
        /\ CommandFollows' /\ TargetFollows' /\ WaitingIsWorthIt'
    BY <1>1, <1>2, <2>1, <2>4, TerminalStep
  <2>6. row' \in [Attempts -> RowStatuses] /\ \A m \in Attempts : row'[m] = "RUNNING" => row[m] = "RUNNING"
    <3>1. row \in [Attempts -> RowStatuses]
      BY CFacts
    <3> QED BY <1>2, <2>1, <3>1 DEF RowStatuses
  <2>7. LastAttemptCounts' /\ ingress' \in [Attempts -> IngressRow] /\ \A m \in Attempts : Advances(m)
    BY <1>1, <1>2, <2>2, <2>3, <2>5, <2>6, SweepingStep
  <2>8. FilesAreInPlace' /\ hand' \in [Workers -> HandRow]
    BY <1>1, <2>5, <2>7, RestingHands
  <2>9. Typed'
    BY <1>1, <2>5, <2>6, <2>7, <2>8, CFacts DEF Typed, CustodyTyped
  <2> QED BY <2>5, <2>7, <2>8, <2>9 DEF CInv
<1>4. CASE ~NeedsAttention(n)
  <2>1. /\ job' = IF job.status = "RETRYING" THEN [job EXCEPT !.wait = CleanupDelay] ELSE job
        /\ command' = RetriedAt(CleanupDelay) /\ UNCHANGED <<row, target>>
    BY <1>4 DEF CleanupPutOff
  <2>2. command \in CommandRow /\ job \in JobRow /\ StatusesAgree(command, job)
    BY CFacts
  <2>3. command' \in CommandRow /\ command'.status = command.status
    BY <2>1, <2>2, IngressBounds DEF RetriedAt, CommandRow
  <2>4. StatusesAgree(command, job)'
    <3>1. CASE job.status = "RETRYING"
      <4>1. command.status = "FETCHING"
        BY <3>1, Counterparts
      <4>2. command'.status = "FETCHING" /\ command'.retry = CleanupDelay
        BY <2>1, <2>2, <4>1 DEF RetriedAt, CommandRow
      <4>3. job'.status = "RETRYING" /\ job'.wait = CleanupDelay
        BY <2>1, <2>2, <3>1 DEF JobRow
      <4> QED BY <4>2, <4>3 DEF StatusesAgree
    <3>2. CASE job.status # "RETRYING"
      <4>1. command.status # "FETCHING"
        BY <1>2, <3>2, Counterparts
      <4>2. command' = command /\ job' = job
        BY <2>1, <3>2, <4>1 DEF RetriedAt
      <4> QED BY <2>2, <4>2 DEF StatusesAgree
    <3> QED BY <3>1, <3>2
  <2> QED BY <1>1, <2>1, <2>3, <2>4, DelayedStep
<1> QED BY <1>3, <1>4

\* The removal succeeded and does not end the job.
LEMMA CleanedStep ==
  ASSUME CInv, NEW w \in Workers, hand[w].phase = "swept", CleanupCurrent(w), Rests(w), ~EndsJob(w),
         ingress' = CleanedIngress(w), UNCHANGED <<job, row, command, target, receipt, store, custody>>
  PROVE  CInv'
<1> DEFINE n == hand[w].n
           r == [ingress[n] EXCEPT !.cleaned = TRUE, !.wait = 0]
<1>1. /\ n \in Attempts /\ ingress[n] \in IngressRow /\ ingress[n].status \in Given /\ ~ingress[n].cleaned
      /\ job.status \in {"RETRYING", "DEAD_LETTER", "CANCELLED"} /\ ~target.released
  BY SweptAttempt
<1>2. ingress' = [ingress EXCEPT ![n] = r]
  <2>1. ingress' = [ingress EXCEPT ![n].cleaned = TRUE, ![n].wait = 0]
    BY DEF CleanedIngress
  <2> QED BY <2>1, Zenon
<1>3. r \in IngressRow /\ r.status = ingress[n].status /\ r.cleaned
  BY <1>1 DEF IngressRow
<1> HIDE DEF r, n
<1>4. LastAttemptCounts' /\ ingress' \in [Attempts -> IngressRow] /\ (\A m \in Attempts : Advances(m)) /\ ~Unsafe(ingress')
  BY <1>1, <1>2, <1>3, SweepingStep
<1>5. FilesAreInPlace' /\ hand' \in [Workers -> HandRow]
  BY <1>4, RestingHands
<1>6. Typed'
  BY <1>4, <1>5, CFacts DEF Typed, CustodyTyped
<1>7. \A m \in Attempts : row[m] # "DEAD_LETTER"
  BY <1>4 DEF EndsJob
<1>8. CommandFollows' /\ TargetFollows' /\ WaitingIsWorthIt'
  BY <1>1, <1>7, CFacts DEF CommandFollows, TargetFollows, TargetWaits, WaitingIsWorthIt
<1> QED BY <1>4, <1>5, <1>6, <1>8 DEF CInv

\* The removal succeeded, and the job is given up.
LEMMA EndedStep ==
  ASSUME CInv, NEW w \in Workers, hand[w].phase = "swept", CleanupCurrent(w), Rests(w),
         ingress' = CleanedIngress(w), UNCHANGED <<row, receipt, store, custody>>,
         job' \in JobRow, job'.status = "DEAD_LETTER", job'.attempts = job.attempts,
         command' \in CommandRow, target' \in TargetRow,
         ~Unsafe(ingress') => CommandFollows' /\ TargetFollows' /\ WaitingIsWorthIt'
  PROVE  CInv'
<1> DEFINE n == hand[w].n
           r == [ingress[n] EXCEPT !.cleaned = TRUE, !.wait = 0]
<1>1. n \in Attempts /\ ingress[n] \in IngressRow /\ ingress[n].status \in Given /\ ~ingress[n].cleaned
  BY SweptAttempt
<1>2. ingress' = [ingress EXCEPT ![n] = r]
  <2>1. ingress' = [ingress EXCEPT ![n].cleaned = TRUE, ![n].wait = 0]
    BY DEF CleanedIngress
  <2> QED BY <2>1, Zenon
<1>3. r \in IngressRow /\ r.status = ingress[n].status /\ r.cleaned
  BY <1>1 DEF IngressRow
<1> HIDE DEF r, n
<1>4. LastAttemptCounts' /\ ingress' \in [Attempts -> IngressRow] /\ (\A m \in Attempts : Advances(m)) /\ ~Unsafe(ingress')
  BY <1>1, <1>2, <1>3, SweepingStep
<1>5. FilesAreInPlace' /\ hand' \in [Workers -> HandRow]
  BY <1>4, RestingHands
<1>6. Typed'
  BY <1>4, <1>5, CFacts DEF Typed, CustodyTyped
<1> QED BY <1>4, <1>5, <1>6 DEF CInv

LEMMA CleanupCompletesKeeps ==
  ASSUME CInv, NEW w \in Workers, CleanupCompletes(w)
  PROVE  CInv'
<1>1. /\ hand[w].phase = "swept" /\ CleanupCurrent(w) /\ Rests(w) /\ UNCHANGED <<row, receipt, store, custody>>
      /\ ingress' = CleanedIngress(w)
  BY DEF CleanupCompletes, At
<1>2. CASE ~EndsJob(w)
  <2>1. UNCHANGED <<job, command, target>>
    BY <1>2 DEF CleanupCompletes
  <2> QED BY <1>1, <1>2, <2>1, CleanedStep
<1>3. CASE EndsJob(w)
  <2>1. /\ StatusesAgree(FailedCommand, DeadJob) /\ job' = DeadJob /\ command' = FailedCommand
        /\ target' = FailedTarget(~Unsafe(ingress'), FALSE)
    BY <1>3 DEF CleanupCompletes, Terminalize
  <2>2. ~Unsafe(ingress') /\ ~target.released
    BY <1>1, <1>3, SweptAttempt DEF EndsJob
  <2>3. target' = FailedTarget(TRUE, FALSE)
    BY <2>1, <2>2
  <2>4. /\ job' \in JobRow /\ job'.status = "DEAD_LETTER" /\ job'.attempts = job.attempts
        /\ command' \in CommandRow /\ target' \in TargetRow
        /\ CommandFollows' /\ TargetFollows' /\ WaitingIsWorthIt'
    BY <1>1, <2>1, <2>2, <2>3, TerminalStep
  <2> QED BY <1>1, <2>4, EndedStep
<1> QED BY <1>2, <1>3

LEMMA ZoteroCleansUpKeeps ==
  ASSUME CInv, NEW w \in Workers, ZoteroCleansUp(w)
  PROVE  CInv'
<1>1. /\ hand[w].phase \in {"swept", "unswept"} /\ CleanupCurrent(w) /\ Rests(w)
      /\ StatusesAgree(command, ZoteroJob(w)) /\ job' = ZoteroJob(w) /\ ingress' = ZoteroIngress(w)
      /\ UNCHANGED <<row, command, target, receipt, store, custody>>
  BY DEF ZoteroCleansUp, ZoteroFinishing
<1>2. command \in CommandRow /\ job \in JobRow /\ CommandFollows /\ TargetFollows /\ ~target.released
  BY <1>1, CFacts, SweptAttempt
<1>3. ASSUME job'.status \in {"DEAD_LETTER", "FAILED"}
      PROVE  command.status = "FAILED" /\ job.status = "DEAD_LETTER"
  <2>1. StatusesAgree(command, job') /\ job'.status # "SUCCEEDED"
    BY <1>1, <1>3
  <2>2. command.status # "QUEUED" /\ command.status # "FETCHING"
    BY <1>3, <2>1 DEF StatusesAgree
  <2>3. command.status # "QUARANTINED" /\ command.status # "CANCELLED"
    BY <1>3, <2>1 DEF StatusesAgree
  <2> QED BY <1>2, <2>2, <2>3 DEF CommandRow, CommandFollows
<1>4. DeadJob \in JobRow /\ DeadJob.status = "DEAD_LETTER" /\ DeadJob.attempts = job.attempts
  BY <1>2 DEF DeadJob, Unlocked, JobRow
<1>5. CASE hand[w].phase = "swept"
  <2>1. ingress' = CleanedIngress(w)
    BY <1>1, <1>5 DEF ZoteroIngress, At
  <2>2. CASE ~EndsJob(w)
    <3>1. job' = job
      BY <1>1, <1>5, <2>2 DEF ZoteroJob, At
    <3> QED BY <1>1, <1>5, <2>1, <2>2, <3>1, CleanedStep
  <2>3. CASE EndsJob(w)
    <3>1. job' = IF job.status = "DEAD_LETTER" \/ Exhausted(job.attempts) THEN DeadJob ELSE Unlocked("FAILED", 0)
      BY <1>1, <1>5, <2>3 DEF ZoteroJob, At
    <3>2. Unlocked("FAILED", 0).status = "FAILED"
      BY <1>2 DEF Unlocked, JobRow
    <3>3. command.status = "FAILED" /\ job.status = "DEAD_LETTER"
      BY <1>3, <1>4, <3>1, <3>2
    <3>4. job' = DeadJob
      BY <3>1, <3>3
    <3>5. CommandFollows' /\ TargetFollows' /\ WaitingIsWorthIt'
      BY <1>1, <1>2, <1>4, <3>3, <3>4 DEF CommandFollows, StatusesAgree, TargetFollows, WaitingIsWorthIt
    <3>6. command' \in CommandRow /\ target' \in TargetRow
      BY <1>1, CFacts
    <3> QED BY <1>1, <1>4, <1>5, <2>1, <3>4, <3>5, <3>6, EndedStep
  <2> QED BY <2>2, <2>3
<1>6. CASE hand[w].phase = "unswept"
  <2>1. ingress' = [ingress EXCEPT ![hand[w].n].wait = CleanupDelay]
    BY <1>1, <1>6 DEF ZoteroIngress, At
  <2>2. ~NeedsAttention(hand[w].n)
    <3>1. ASSUME NeedsAttention(hand[w].n)
          PROVE  FALSE
      <4>1. job' = DeadJob
        BY <1>1, <1>6, <3>1 DEF ZoteroJob, At
      <4> QED BY <1>3, <1>4, <3>1, <4>1 DEF NeedsAttention
    <3> QED BY <3>1
  <2>3. job' = IF job.status = "RETRYING" THEN [job EXCEPT !.wait = CleanupDelay] ELSE job
    BY <1>1, <1>6, <2>2 DEF ZoteroJob, At
  <2>4. StatusesAgree(command, job)'
    BY <1>1
  <2>5. command' \in CommandRow /\ command'.status = command.status
    BY <1>1, <1>2
  <2> QED BY <1>1, <1>6, <2>1, <2>3, <2>4, <2>5, DelayedStep
<1> QED BY <1>1, <1>5, <1>6
-----------------------------------------------------------------------------
(* The deletion, as the database sees it.                                  *)

LEMMA RequestKeeps ==
  ASSUME CInv, deleteCrawlerCustody
  PROVE  CInv'
<1> DEFINE active == command.status \in {"QUEUED", "FETCHING", "QUARANTINED"}
<1>1. /\ custody.status = "RETAINED" /\ UNCHANGED <<ingress, receipt, store, hand>>
      /\ custody' = [custody EXCEPT !.status = "DELETE_PENDING", !.after = DeletionAfter]
      /\ row' = [n \in Attempts |-> IF row[n] = "RUNNING" THEN "CANCELLED" ELSE row[n]]
      /\ job' = IF JobActive THEN Unlocked("CANCELLED", 0) ELSE job
      /\ command' = IF active THEN [status |-> "CANCELLED", retry |-> None] ELSE command
      /\ target' = [target EXCEPT !.intake = IF active THEN "CANCELLED" ELSE @,
                                  !.batch = IF active THEN "CANCELLED" ELSE @,
                                  !.document = "ARCHIVED", !.asset = "REJECTED", !.inbox = "REJECTED"]
  BY DEF deleteCrawlerCustody
<1>2. /\ job \in JobRow /\ row \in [Attempts -> RowStatuses] /\ command \in CommandRow /\ target \in TargetRow
      /\ CustodyTyped /\ CommandFollows /\ TargetFollows /\ LastAttemptCounts
  BY CFacts
<1>3. custody'.status = "DELETE_PENDING" /\ CustodyTyped'
  <2> DEFINE after == DeletionAfter
  <2> HIDE DEF after
  <2>1. custody' = [custody EXCEPT !.status = "DELETE_PENDING", !.after = after]
    BY <1>1 DEF after
  <2>2. PICK status, was, lease, left, tries :
          custody = [status |-> status, after |-> was, lease |-> lease, left |-> left, tries |-> tries]
    BY <1>2 DEF CustodyTyped
  <2>3. custody' = [status |-> "DELETE_PENDING", after |-> after, lease |-> lease, left |-> left, tries |-> tries]
    BY <2>1, <2>2
  <2>4. tries \in Nat
    BY <1>2, <2>2 DEF CustodyTyped
  <2> QED BY <2>3, <2>4 DEF CustodyTyped
<1>4. row' \in [Attempts -> RowStatuses] /\ \A n \in Attempts : row'[n] # "RUNNING"
  BY <1>1, <1>2 DEF RowStatuses
<1>5. /\ job' \in JobRow /\ job'.attempts = job.attempts
      /\ job'.status = IF job.status \in {"QUEUED", "RUNNING", "RETRYING"} THEN "CANCELLED" ELSE job.status
  BY <1>1, <1>2 DEF JobActive, Unlocked, JobRow
<1>6. /\ command' \in CommandRow
      /\ command'.status = IF active THEN "CANCELLED" ELSE "FAILED"
      /\ ~active => command' = command
  BY <1>1, <1>2 DEF CommandRow, CommandFollows
<1>7. CommandFollows'
  <2>1. CASE active
    <3>1. job.status # "DEAD_LETTER"
      BY <2>1, Counterparts
    <3>2. job'.status \in {"SUCCEEDED", "CANCELLED"}
      BY <1>2, <1>5, <3>1 DEF JobRow, Waiting
    <3> QED BY <1>3, <1>6, <2>1, <3>2 DEF CommandFollows, StatusesAgree
  <2>2. CASE ~active
    <3>1. job'.status = "DEAD_LETTER"
      BY <1>2, <1>5, <1>6, <2>2 DEF CommandFollows
    <3> QED BY <1>3, <1>6, <2>2, <3>1 DEF CommandFollows, StatusesAgree
  <2> QED BY <2>1, <2>2
<1>8. /\ target' \in TargetRow
      /\ target'.intake = (IF active THEN "CANCELLED" ELSE target.intake)
      /\ target'.batch = (IF active THEN "CANCELLED" ELSE target.batch)
      /\ target'.document = "ARCHIVED" /\ target'.inbox = "REJECTED" /\ target'.released = target.released
  BY <1>1, <1>2 DEF TargetRow
<1> HIDE DEF active
<1>9. TargetFollows'
  BY <1>1, <1>2, <1>3, <1>6, <1>8 DEF TargetFollows, active
<1>10. LastAttemptCounts'
  BY <1>1, <1>2, <1>3, <1>4, <1>5 DEF LastAttemptCounts
<1>11. WaitingIsWorthIt'
  BY <1>5 DEF WaitingIsWorthIt
<1>12. FilesAreInPlace' /\ ingress' \in [Attempts -> IngressRow]
  BY <1>1, <1>3, <1>5, CFacts, SameHands DEF Advances
<1>13. Typed'
  BY <1>1, <1>3, <1>4, <1>5, <1>6, <1>8, <1>12, CFacts DEF Typed
<1> QED BY <1>7, <1>9, <1>10, <1>11, <1>12, <1>13 DEF CInv

\* A deletion that is claimed or put off leaves the import's rows.
LEMMA PostponedStep ==
  ASSUME CInv, NEW w \in Workers, NEW held \in HandRow, hand' = [hand EXCEPT ![w] = held],
         held.phase \in {"idle", "deleting"}, UNCHANGED <<ingressRows, store>>,
         custody'.status = custody.status, CustodyTyped'
  PROVE  CInv'
<1>1. UNCHANGED <<job, row, ingress, command, target, receipt>>
  BY DEF ingressRows
<1>2. hand' \in [Workers -> HandRow]
  BY CFacts
<1>3. Typed'
  BY <1>1, <1>2, CFacts DEF Typed
<1>4. CommandFollows' /\ TargetFollows' /\ LastAttemptCounts' /\ WaitingIsWorthIt'
  BY <1>1, CFacts DEF CommandFollows, TargetFollows, TargetWaits, LastAttemptCounts, WaitingIsWorthIt
<1>5. FilesAreInPlace'
  <2>1. Holding(w, held) /\ held.phase \in {"idle"} \cup Deleters /\ held.phase \notin Sweeping
    BY DEF Holding, Sweeping, Deleters, Deleting
  <2>2. /\ ingress' \in [Attempts -> IngressRow] /\ job'.attempts \in Nat /\ job'.attempts >= job.attempts
        /\ \A n \in Attempts : Advances(n)
    BY <1>1, CFacts DEF Advances
  <2> QED BY <2>1, <2>2, FilesStep
<1> QED BY <1>3, <1>4, <1>5 DEF CInv

LEMMA ClaimDeletionKeeps ==
  ASSUME CInv, NEW w \in Workers, claimCrawlerCustodyDeletion(w)
  PROVE  CInv'
<1> DEFINE tries == custody.tries + 1
           held == Hand("deleting", 0, tries, TRUE)
<1>1. /\ custody' = [custody EXCEPT !.lease = tries, !.left = DeletionLease, !.tries = tries]
      /\ hand' = [hand EXCEPT ![w] = held] /\ UNCHANGED <<ingressRows, store>>
  BY DEF claimCrawlerCustodyDeletion
<1>2. CustodyTyped /\ tries \in Nat
  BY CFacts DEF CustodyTyped
<1>3. held \in HandRow /\ held.phase = "deleting"
  BY <1>2, IngressBounds DEF Hand, HandRow, Deleters, Deleting
<1> HIDE DEF tries, held
<1>4. PICK status, after, lease, left, was :
        custody = [status |-> status, after |-> after, lease |-> lease, left |-> left, tries |-> was]
  BY <1>2 DEF CustodyTyped
<1>5. custody' = [status |-> status, after |-> after, lease |-> tries, left |-> DeletionLease, tries |-> tries]
  BY <1>1, <1>4
<1>6. custody'.status = custody.status /\ CustodyTyped'
  BY <1>2, <1>4, <1>5 DEF CustodyTyped
<1> QED BY <1>1, <1>3, <1>6, PostponedStep

LEMMA DeletionPutOffKeeps ==
  ASSUME CInv, NEW w \in Workers, DeletionPutOff(w)
  PROVE  CInv'
<1>1. /\ custody' = [custody EXCEPT !.lease = 0, !.left = 0, !.after = DeletionDelay]
      /\ hand' = [hand EXCEPT ![w] = Idle] /\ UNCHANGED <<ingressRows, store>>
  BY DEF DeletionPutOff, Rests
<1>2. Idle \in HandRow /\ Idle.phase = "idle"
  BY IngressBounds DEF Idle, Hand, HandRow
<1>3. CustodyTyped
  BY CFacts
<1>4. PICK status, after, lease, left, tries :
        custody = [status |-> status, after |-> after, lease |-> lease, left |-> left, tries |-> tries]
  BY <1>3 DEF CustodyTyped
<1>5. custody' = [status |-> status, after |-> DeletionDelay, lease |-> 0, left |-> 0, tries |-> tries]
  BY <1>1, <1>4
<1>6. custody'.status = custody.status /\ CustodyTyped'
  BY <1>3, <1>4, <1>5 DEF CustodyTyped
<1> QED BY <1>1, <1>2, <1>6, PostponedStep

LEMMA FinishDeletionKeeps ==
  ASSUME CInv, NEW w \in Workers, finishCrawlerCustodyDeletion(w)
  PROVE  CInv'
<1>1. /\ hand[w].phase = "proved" /\ custody.status = "DELETE_PENDING" /\ Rests(w)
      /\ ingress' = [n \in Attempts |-> DeletedIngress(ingress[n])]
      /\ target' = [target EXCEPT !.asset = "DELETED", !.document = "ARCHIVED",
                                  !.inbox = "REJECTED", !.released = TRUE]
      /\ custody' = [custody EXCEPT !.status = "DELETED", !.lease = 0, !.left = 0]
      /\ UNCHANGED <<job, row, command, receipt, store>>
  BY DEF finishCrawlerCustodyDeletion, At, DeletionCurrent
<1>2. /\ ingress \in [Attempts -> IngressRow] /\ target \in TargetRow /\ CustodyTyped
      /\ CommandFollows /\ TargetFollows /\ LastAttemptCounts /\ WaitingIsWorthIt
  BY CFacts
<1>3. custody'.status = "DELETED" /\ CustodyTyped'
  <2>1. PICK status, after, lease, left, tries :
          custody = [status |-> status, after |-> after, lease |-> lease, left |-> left, tries |-> tries]
    BY <1>2 DEF CustodyTyped
  <2>2. custody' = [status |-> "DELETED", after |-> after, lease |-> 0, left |-> 0, tries |-> tries]
    BY <1>1, <2>1
  <2>3. tries \in Nat
    BY <1>2, <2>1 DEF CustodyTyped
  <2> QED BY <2>2, <2>3 DEF CustodyTyped
<1>4. ASSUME NEW n \in Attempts
      PROVE  /\ ingress'[n] \in IngressRow
             /\ ingress'[n].status = (IF ingress[n].status \in Open THEN "ABANDONED" ELSE ingress[n].status)
             /\ ingress'[n].cleaned <=> (ingress[n].status # "NONE" \/ ingress[n].cleaned)
  <2>1. ingress[n] \in IngressRow /\ ingress'[n] = DeletedIngress(ingress[n])
    BY <1>1, <1>2
  <2>2. CASE ingress[n].status = "NONE"
    BY <2>1, <2>2 DEF DeletedIngress, Open
  <2>3. CASE ingress[n].status # "NONE"
    <3> DEFINE i == ingress[n]  status == IF i.status \in Open THEN "ABANDONED" ELSE i.status
    <3>1. ingress'[n] = [i EXCEPT !.status = status, !.cleaned = TRUE, !.wait = 0]
      BY <2>1, <2>3 DEF DeletedIngress
    <3>2. status \in {"NONE", "ADOPTED"} \cup Open \cup Given
      BY <2>1 DEF IngressRow, Given
    <3>3. i \in IngressRow
      BY <2>1
    <3> HIDE DEF i, status
    <3>4. PICK was, left, wait, tries, cleaned :
            /\ i = [status |-> was, left |-> left, wait |-> wait, tries |-> tries, cleaned |-> cleaned]
            /\ left \in Nat /\ tries \in Nat
      BY <3>3 DEF IngressRow
    <3>5. ingress'[n] = [status |-> status, left |-> left, wait |-> 0, tries |-> tries, cleaned |-> TRUE]
      BY <3>1, <3>4
    <3>6. ingress'[n] \in IngressRow /\ ingress'[n].status = status /\ ingress'[n].cleaned
      BY <3>2, <3>4, <3>5 DEF IngressRow
    <3> QED BY <2>3, <3>6 DEF i, status
  <2> QED BY <2>2, <2>3
<1>5. ingress' \in [Attempts -> IngressRow]
  BY <1>1, <1>4
<1>6. target' \in TargetRow /\ target'.intake = target.intake /\ target'.batch = target.batch
      /\ target'.document = "ARCHIVED" /\ target'.inbox = "REJECTED" /\ target'.asset = "DELETED" /\ target'.released
  BY <1>1, <1>2 DEF TargetRow
<1>7. command.status \notin {"QUEUED", "FETCHING"} /\ job.status \notin {"QUEUED", "RUNNING", "RETRYING"}
  BY <1>1, <1>2, Counterparts DEF CommandFollows
<1>8. CommandFollows' /\ TargetFollows' /\ WaitingIsWorthIt'
  BY <1>1, <1>2, <1>3, <1>6, <1>7 DEF CommandFollows, TargetFollows, WaitingIsWorthIt
<1>9. LastAttemptCounts'
  <2>1. ASSUME NEW n \in Attempts
        PROVE  /\ MayHaveFile(ingress'[n]) => n = job.attempts
               /\ n > job.attempts => ingress'[n].status = "NONE"
               /\ ingress'[n].status = "ADOPTED" <=> receipt = n
               /\ ingress'[n].status \notin Open
               /\ ingress'[n].status = "NONE" => ~ingress'[n].cleaned
               /\ ingress'[n].status # "NONE" => ingress'[n].cleaned
               /\ row[n] # "RUNNING"
    <3>1. ingress'[n].status \notin Open
      BY <1>4 DEF Open
    <3>2. ingress'[n].status = "ADOPTED" <=> ingress[n].status = "ADOPTED"
      BY <1>4 DEF Open
    <3>3. ingress'[n].status = "NONE" <=> ingress[n].status = "NONE"
      BY <1>4 DEF Open
    <3>4. ingress'[n].status # "NONE" => ingress'[n].cleaned
      BY <1>4, <3>3
    <3>5. ingress'[n].status = "NONE" => ~ingress'[n].cleaned
      BY <1>2, <1>4, <3>3 DEF LastAttemptCounts
    <3>6. MayHaveFile(ingress'[n]) => MayHaveFile(ingress[n])
      BY <3>1, <3>2, <3>4 DEF MayHaveFile, Given
    <3> QED BY <1>1, <1>2, <3>1, <3>2, <3>3, <3>4, <3>5, <3>6 DEF LastAttemptCounts
  <2> QED BY <1>1, <1>2, <1>3, <1>7, <2>1 DEF LastAttemptCounts
<1>10. FilesAreInPlace' /\ hand' \in [Workers -> HandRow]
  <2>1. \A n \in Attempts : Advances(n)
    BY <1>4 DEF Advances, Given
  <2> QED BY <1>1, <1>5, <2>1, RestingHands
<1>11. Typed'
  BY <1>1, <1>3, <1>5, <1>6, <1>10, CFacts DEF Typed
<1> QED BY <1>8, <1>9, <1>10, <1>11 DEF CInv
-----------------------------------------------------------------------------
(* Time, the start, and all steps.                                         *)

LEMMA TickKeeps ==
  ASSUME CInv, Tick
  PROVE  CInv'
<1>1. /\ TickJob /\ custody' = [custody EXCEPT !.after = Less(@), !.left = Less(@)]
      /\ UNCHANGED <<row, target, receipt, store, hand>>
  BY DEF Tick, TickJob
<1>2. job \in JobRow /\ ingress \in [Attempts -> IngressRow] /\ command \in CommandRow /\ CustodyTyped
  BY CFacts
<1>3. \A t \in Nat : Less(t) \in Nat
  BY DEF Less
<1>4. custody'.status = custody.status /\ CustodyTyped'
  <2>1. PICK status, after, lease, left, tries :
          custody = [status |-> status, after |-> after, lease |-> lease, left |-> left, tries |-> tries]
    BY <1>2 DEF CustodyTyped
  <2> DEFINE a == Less(custody.after)  b == Less(custody.left)
  <2>2. custody' = [custody EXCEPT !.after = a, !.left = b]
    BY <1>1
  <2> HIDE DEF a, b
  <2>3. custody' = [status |-> status, after |-> a, lease |-> lease, left |-> b, tries |-> tries]
    BY <2>1, <2>2
  <2> QED BY <1>2, <2>1, <2>3 DEF CustodyTyped
<1>5. /\ job' \in JobRow /\ job'.status = job.status /\ job'.attempts = job.attempts /\ job'.wait = Less(job.wait)
  <2>1. job' = [job EXCEPT !.left = Less(job.left), !.wait = Less(job.wait)]
    BY <1>1 DEF TickJob
  <2>2. Less(job.left) \in Nat /\ Less(job.wait) \in Nat
    BY <1>2, <1>3 DEF JobRow
  <2> QED BY <1>2, <2>1, <2>2 DEF JobRow
<1>6. ASSUME NEW n \in Attempts
      PROVE  /\ ingress'[n] \in IngressRow
             /\ ingress'[n].status = ingress[n].status /\ ingress'[n].cleaned = ingress[n].cleaned
  <2>1. ingress[n] \in IngressRow
    BY <1>2
  <2>2. ingress'[n] = [ingress[n] EXCEPT !.left = Less(ingress[n].left), !.wait = Less(ingress[n].wait)]
    BY <1>1 DEF TickJob
  <2>3. Less(ingress[n].left) \in Nat /\ Less(ingress[n].wait) \in Nat
    BY <1>3, <2>1 DEF IngressRow
  <2> QED BY <2>1, <2>2, <2>3 DEF IngressRow
<1>7. ingress' \in [Attempts -> IngressRow]
  BY <1>1, <1>6 DEF TickJob
<1>8. command' = [command EXCEPT !.retry = IF command.retry = None THEN None ELSE Less(command.retry)]
  BY <1>1 DEF TickJob
<1>9. /\ command' \in CommandRow /\ command'.status = command.status
      /\ command'.retry = IF command.retry = None THEN None ELSE Less(command.retry)
  BY <1>2, <1>3, <1>8 DEF CommandRow
<1>10. StatusesAgree(command, job)'
  <2>1. StatusesAgree(command, job)
    BY CFacts
  <2>2. job.wait \in Nat /\ None \notin Nat
    BY <1>2, IngressBounds DEF JobRow
  <2>3. CASE command.status = "FETCHING"
    <3>1. CASE job.status = "RUNNING" /\ command.retry = None
      BY <1>5, <1>9, <2>3, <3>1 DEF StatusesAgree
    <3>2. CASE job.status = "RETRYING" /\ command.retry = job.wait
      BY <1>5, <1>9, <2>2, <2>3, <3>2 DEF StatusesAgree
    <3> QED BY <2>1, <2>3, <3>1, <3>2 DEF StatusesAgree
  <2>4. CASE command.status = "QUEUED"
    BY <1>5, <1>9, <2>1, <2>4 DEF StatusesAgree
  <2>5. CASE command.status \in {"QUARANTINED", "FAILED", "CANCELLED"}
    BY <1>5, <1>9, <2>1, <2>5 DEF StatusesAgree
  <2> QED BY <1>2, <2>3, <2>4, <2>5 DEF CommandRow
<1> QED BY <1>1, <1>4, <1>5, <1>6, <1>7, <1>9, <1>10, SameStatusKeeps

LEMMA InitInv == Init => CInv
<1> SUFFICES ASSUME Init
             PROVE  CInv
  OBVIOUS
<1>1. /\ job = [status |-> "QUEUED", attempts |-> 0, left |-> 0, wait |-> 0]
      /\ row = [n \in Attempts |-> "NONE"] /\ ingress = [n \in Attempts |-> NoIngress]
      /\ command = [status |-> "QUEUED", retry |-> None] /\ TargetWaits("QUEUED") /\ receipt = None
      /\ store = [live |-> FALSE, parts |-> {}, finals |-> {}, retired |-> FALSE, moved |-> {}, tomb |-> FALSE]
      /\ hand = [w \in Workers |-> Idle]
      /\ custody = [status |-> "RETAINED", after |-> 0, lease |-> 0, left |-> 0, tries |-> 0]
  BY DEF Init, IngressInit, TargetWaits
<1>2. 0 \in 0..MaxAttempts /\ None \notin Attempts /\ Attempts \subseteq 1..MaxAttempts
  BY IngressBounds DEF Attempts
<1>3. Idle \in HandRow /\ Idle.phase = "idle"
  BY <1>2 DEF Idle, Hand, HandRow
<1>4. NoIngress \in IngressRow /\ ~MayHaveFile(NoIngress) /\ NoIngress.status = "NONE" /\ ~NoIngress.cleaned
  BY DEF NoIngress, IngressRow, MayHaveFile, Open, Given
<1>5. ~Unsafe(ingress)
  BY <1>1, <1>4 DEF Unsafe
<1>6. target \in TargetRow /\ target.intake = "QUEUED" /\ target.batch = "RUNNING" /\ ~target.released
  BY <1>1 DEF TargetWaits, TargetRow
<1>7. Typed
  <2>1. job \in JobRow /\ command \in CommandRow /\ store \in StoreRow /\ CustodyTyped
    BY <1>1, <1>2 DEF JobRow, Waiting, CommandRow, StoreRow, CustodyTyped
  <2>2. row \in [Attempts -> RowStatuses] /\ ingress \in [Attempts -> IngressRow] /\ hand \in [Workers -> HandRow]
    BY <1>1, <1>3, <1>4 DEF RowStatuses
  <2> QED BY <1>1, <1>6, <2>1, <2>2 DEF Typed
<1>8. CommandFollows /\ TargetFollows /\ WaitingIsWorthIt
  BY <1>1, <1>6 DEF CommandFollows, StatusesAgree, TargetFollows, WaitingIsWorthIt
<1>9. LastAttemptCounts
  BY <1>1, <1>2, <1>4 DEF LastAttemptCounts, Open
<1>10. FilesAreInPlace
  BY <1>1, <1>3, <1>4 DEF FilesAreInPlace, HandIsSound, HandsAreApart, Filling, Streaming, Sweeping
<1> QED BY <1>7, <1>8, <1>9, <1>10 DEF CInv

LEMMA NextInv ==
  ASSUME CInv, [Next]_vars
  PROVE  CInv'
<1>1. CASE UNCHANGED vars
  <2>1. UNCHANGED <<job, row, ingress, command, target, receipt, store, hand, custody>>
    BY <1>1 DEF vars, ingressRows
  <2>2. Typed' /\ CommandFollows' /\ TargetFollows' /\ LastAttemptCounts' /\ WaitingIsWorthIt'
    BY <2>1, CFacts DEF Typed, CustodyTyped, CommandFollows, TargetFollows, TargetWaits, LastAttemptCounts, WaitingIsWorthIt
  <2>3. FilesAreInPlace'
    BY <2>1, SameHands, CFacts DEF Advances
  <2> QED BY <2>2, <2>3 DEF CInv
<1>2. CASE deleteCrawlerCustody \/ Tick
  BY <1>2, RequestKeeps, TickKeeps
<1>3. ASSUME NEW w \in Workers,
             \/ \E n \in Attempts : ClaimCleanup(w, n, 0) \/ ClaimCleanup(w, n, 1)
             \/ Sweep(w) /\ UNCHANGED custody
             \/ OthersCleanUp(w) \/ CleanupOvertaken(w) \/ CleanupPutOff(w) \/ CleanupCompletes(w) \/ CleanupRefused(w)
             \/ ZoteroCleansUp(w) \/ ZoteroCleanupRefused(w)
             \/ (Crash(w) \/ TransactionFails(w) \/ SweepFails(w)) /\ UNCHANGED custody
      PROVE  CInv'
  <2>1. OthersCleanUp(w) \/ CleanupOvertaken(w) \/ CleanupRefused(w) \/ ZoteroCleanupRefused(w) => UNCHANGED custody
    BY DEF OthersCleanUp, CleanupOvertaken, CleanupRefused, ZoteroCleanupRefused, Rows
  <2> QED BY <1>3, <2>1, ClaimCleanupKeeps, SweepKeeps, GivingUpKeeps, CleanupPutOffKeeps, CleanupCompletesKeeps,
             ZoteroCleansUpKeeps
<1>4. ASSUME NEW w \in Workers, Fetches(w)
      PROVE  CInv'
  <2>1. LeaseLost(w) \/ FailureRefused(w) => UNCHANGED custody
    BY DEF LeaseLost, FailureRefused, Rows
  <2> QED BY <1>3, <1>4, <2>1, StreamKeeps, GivingUpKeeps, MarkKeeps, CompleteKeeps, FailKeeps DEF Fetches
<1>5. ASSUME NEW w \in Workers, Deletes(w)
      PROVE  CInv'
  <2>1. DeletionOvertaken(w) => UNCHANGED custody
    BY DEF DeletionOvertaken, Rows
  <2> QED BY <1>5, <2>1, RemovalKeeps, FinishDeletionKeeps, DeletionPutOffKeeps, GivingUpKeeps DEF Deletes
<1>6. ASSUME NEW w \in Workers, GoesWrong(w)
      PROVE  CInv'
  BY <1>3, <1>6, StreamKeeps, MarkKeeps, CompleteKeeps, RemovalKeeps DEF GoesWrong
<1>7. ASSUME NEW z \in ZoteroWorkers,
             \/ ZoteroTakes(z) \/ ZoteroContinues(z)
             \/ (Crash(z) \/ SweepFails(z)) /\ UNCHANGED custody
      PROVE  CInv'
  <2>1. z \in Workers
    BY DeletionBounds
  <2> QED BY <1>3, <1>7, <2>1 DEF ZoteroTakes, ZoteroContinues
<1>8. ASSUME NEW w \in Crawlers,
             \/ claimCrawlerCustodyDeletion(w) \/ CleansNext(w) \/ claimNextCrawlerJob(w)
             \/ reapExpiredCrawlerLease(w) \/ Continues(w) \/ heartbeatCrawlerJob(w)
      PROVE  CInv'
  <2>1. w \in Workers
    BY DEF Crawlers
  <2>2. Cleans(w) \/ CleansNext(w) => CInv'
    BY <1>3, <2>1 DEF Cleans, CleansNext
  <2> QED BY <1>4, <1>5, <1>8, <2>1, <2>2, ClaimDeletionKeeps, ClaimKeeps, ReapKeeps, HeartbeatKeeps DEF Continues
<1>9. Crawlers \subseteq Workers
  BY DEF Crawlers
<1> QED BY <1>1, <1>2, <1>6, <1>7, <1>8, <1>9 DEF Next
-----------------------------------------------------------------------------
(* The theorems.                                                           *)

\* What every property below rests on: the import follows its job until the
\* user deletes it, only the last attempt may have a file, a job that waits
\* has something to wait for, and what a deleter removed cannot come back.
THEOREM CrawlsInductive == Spec => []CInv
<1>1. CInv /\ [Next]_vars => CInv'
  BY NextInv
<1> QED BY <1>1, InitInv, PTL DEF Spec

\* The rows have their shapes, agree with each other as the deferred triggers
\* of the migrations demand, and never hold a due job that a claim would have
\* to give up as "policy_changed".
THEOREM RowsTellOneStory == Spec => []RowsAgree
<1>1. CInv => RowsAgree
  <2> SUFFICES ASSUME CInv
               PROVE  RowsAgree
    OBVIOUS
  <2>1. /\ CommandFollows /\ TargetFollows /\ LastAttemptCounts /\ WaitingIsWorthIt /\ CustodyTyped
        /\ command \in CommandRow /\ job \in JobRow /\ store \in StoreRow
    BY CFacts
  <2>2. TypeOK
    <3>1. {store.parts, store.finals, store.moved} \subseteq SUBSET Attempts
      BY <2>1 DEF StoreRow
    <3>2. \A w \in Workers : hand[w].n \in 0..MaxAttempts
      BY HandFacts
    <3>3. custody.status \in {"RETAINED", "DELETE_PENDING", "DELETED"}
      BY <2>1 DEF CustodyTyped
    <3> QED BY <3>1, <3>2, <3>3, CFacts DEF TypeOK, JobRow, RowStatuses, IngressRow, CommandRow
  <2>3. CommitsAreAccepted
    <3>1. custody.status # "RETAINED" => ~JobActive
      BY <2>1, Counterparts DEF CommandFollows, JobActive
    <3>2. command.status = "QUARANTINED" => receipt # None
      BY <2>1 DEF CommandFollows, StatusesAgree, LastAttemptCounts
    <3> QED BY <2>1, <3>1, <3>2 DEF CommitsAreAccepted, CommandFollows, TargetFollows, LastAttemptCounts
  <2>4. DueJobsAreClaimable
    <3> SUFFICES ASSUME Claimable
                 PROVE  job.attempts < MaxAttempts /\ ClaimAuthority
      BY DEF DueJobsAreClaimable
    <3>1. job.status \in Waiting /\ ~Unsafe(ingress)
      BY DEF Claimable
    <3>2. CASE job.status = "QUEUED"
      <4>1. command = [status |-> "QUEUED", retry |-> None] /\ TargetWaits("QUEUED")
        BY <2>1, <3>2, Counterparts DEF TargetFollows
      <4>2. job.attempts < MaxAttempts
        BY <2>1, <3>2, IngressBounds DEF WaitingIsWorthIt
      <4> QED BY <3>2, <4>1, <4>2 DEF ClaimAuthority
    <3>3. CASE job.status = "RETRYING"
      <4>1. command = [status |-> "FETCHING", retry |-> job.wait] /\ TargetWaits("RECEIVING")
        BY <2>1, <3>3, Counterparts DEF TargetFollows
      <4>2. job.attempts < MaxAttempts
        BY <2>1, <3>1, <3>3, CFacts DEF WaitingIsWorthIt, Exhausted
      <4> QED BY <3>3, <4>1, <4>2 DEF ClaimAuthority
    <3> QED BY <3>1, <3>2, <3>3 DEF Waiting
  <2> QED BY <2>2, <2>3, <2>4 DEF RowsAgree
<1> QED BY <1>1, CrawlsInductive, PTL

\* The bytes a receipt names are on disk until a deletion fences them, and no
\* complete copy outlives a recorded deletion or appears after it.
THEOREM FilesComeAndGoWithTheRows == Spec => []FilesFollowTheRows
<1>1. CInv => FilesFollowTheRows
  <2> SUFFICES ASSUME CInv
               PROVE  FilesFollowTheRows
    OBVIOUS
  <2>1. AdoptedBytesExist
    BY CFacts DEF AdoptedBytesExist, LastAttemptCounts, FilesAreInPlace
  <2>2. DeletedBytesStayGone
    BY CFacts DEF DeletedBytesStayGone, FilesAreInPlace, Emptied, Fenced
  <2> QED BY <2>1, <2>2 DEF FilesFollowTheRows
<1> QED BY <1>1, CrawlsInductive, PTL

\* The import's quota is released by a failed import without files or by a
\* recorded deletion, never while an attempt may still have a file.
THEOREM QuotaOutlivesTheFiles == Spec => []QuotaIsHeldForFiles
<1>1. CInv => QuotaIsHeldForFiles
  BY CFacts DEF TargetFollows, QuotaIsHeldForFiles
<1> QED BY <1>1, CrawlsInductive, PTL

\* What touches only files and the worker's own hand.
LEMMA FileStepsWriteNoRow ==
  ASSUME NEW v \in Workers,
         \/ Stream(v) \/ Sweep(v) \/ SweepFails(v) \/ Crash(v) \/ TransactionFails(v)
         \/ \E retryable \in BOOLEAN : StreamFails(v, retryable)
  PROVE  UNCHANGED ingressRows
BY DEF Stream, StreamFails, ResolveNamespace, MakeDirectory, AdmitStream, OpenPart, SealPart, LinkFinal, UnlinkPart,
       FileUnchanged, Sweep, RemoveFinal, RemoveParts, SweepFails, Crash, TransactionFails

\* A worker whose lease has run out, or whose attempt was reaped, finishes
\* without writing a row of the import, its job or its custody.
THEOREM OvertakenWorkersWriteNothing == Spec => OvertakenWorkersChangeNothing
<1> DEFINE Harmless == \A w \in Workers :
              hand[w].phase \in Executing /\ ~Leased(hand[w].n) /\ hand'[w] # hand[w]
                => UNCHANGED <<ingressRows, custody>>
<1>1. CInv /\ [Next]_vars => Harmless
  <2> SUFFICES ASSUME CInv, [Next]_vars, NEW w \in Workers, hand[w].phase \in Executing,
                      ~Leased(hand[w].n), hand'[w] # hand[w]
               PROVE  UNCHANGED <<ingressRows, custody>>
    OBVIOUS
  <2>1. hand \in [Workers -> HandRow] /\ ~Owns(hand[w].n)
    BY CFacts DEF Owns
  <2>2. hand[w].phase \notin {"idle", "failed"} \cup Sweeping \cup Deleters
    BY DEF Executing, Streaming, Sweeping, Deleters, Deleting
  <2>3. ASSUME NEW v \in Workers, UNCHANGED custody,
               \/ Stream(v) \/ Sweep(v) \/ SweepFails(v) \/ Crash(v) \/ TransactionFails(v)
               \/ \E retryable \in BOOLEAN : StreamFails(v, retryable)
        PROVE  UNCHANGED <<ingressRows, custody>>
    BY <2>3, FileStepsWriteNoRow
  <2>4. ASSUME NEW v \in Workers, NEW answered \in BOOLEAN,
               markCrawlerIngressWritten(v, answered) \/ completeCrawlerJob(v, answered)
        PROVE  FALSE
    <3>1. v # w
      BY <2>1, <2>4 DEF markCrawlerIngressWritten, completeCrawlerJob
    <3>2. Rests(v) \/ Goes(v, "written") \/ Goes(v, "failing")
      BY <2>4 DEF markCrawlerIngressWritten, completeCrawlerJob
    <3> QED BY <2>1, <3>1, <3>2 DEF Rests, Goes
  <2>5. ASSUME NEW v \in Workers, failCrawlerJob(v)
        PROVE  FALSE
    <3>1. v # w /\ Goes(v, "failed")
      BY <2>1, <2>5 DEF failCrawlerJob
    <3> QED BY <2>1, <3>1 DEF Goes
  <2>6. ASSUME NEW v \in Workers, NEW n \in Attempts, NEW cost \in {0, 1}, ClaimCleanup(v, n, cost)
        PROVE  FALSE
    <3>1. v # w /\ hand' = [hand EXCEPT ![v] = Hand("sweeping", n, ingress[n].tries + 1, TRUE)]
      BY <2>2, <2>6 DEF ClaimCleanup, At
    <3> QED BY <2>1, <3>1
  <2>7. ASSUME NEW v \in Workers,
               \/ CleanupPutOff(v) \/ CleanupCompletes(v) \/ ZoteroCleansUp(v)
               \/ finishCrawlerCustodyDeletion(v) \/ DeletionPutOff(v)
        PROVE  FALSE
    <3>1. v # w /\ Rests(v)
      BY <2>2, <2>7 DEF CleanupPutOff, CleanupCompletes, ZoteroCleansUp, ZoteroFinishing, finishCrawlerCustodyDeletion,
                        DeletionPutOff, At, Sweeping, Deleters
    <3> QED BY <2>1, <3>1 DEF Rests
  <2>8. ASSUME NEW v \in Workers,
               claimCrawlerCustodyDeletion(v) \/ claimNextCrawlerJob(v) \/ reapExpiredCrawlerLease(v) \/ heartbeatCrawlerJob(v)
        PROVE  FALSE
    <3>1. v # w /\ \E held : hand' = [hand EXCEPT ![v] = held]
      BY <2>2, <2>8 DEF claimCrawlerCustodyDeletion, claimNextCrawlerJob, reapExpiredCrawlerLease, heartbeatCrawlerJob, At
    <3> QED BY <2>1, <3>1
  <2>9. ASSUME UNCHANGED vars \/ deleteCrawlerCustody \/ Tick
        PROVE  FALSE
    BY <2>9 DEF vars, deleteCrawlerCustody, Tick, TickJob
  <2>10. ASSUME NEW v \in Workers,
                \/ OthersCleanUp(v) \/ CleanupOvertaken(v) \/ CleanupRefused(v) \/ ZoteroCleanupRefused(v)
                \/ LeaseLost(v) \/ FailureRefused(v) \/ EstablishTombstone(v) \/ RetireLiveNamespace(v)
                \/ RemoveRetiredNamespaces(v) \/ Rescan(v) \/ DeletionOvertaken(v) \/ DeletionStorageFails(v)
         PROVE  UNCHANGED <<ingressRows, custody>>
    BY <2>10 DEF OthersCleanUp, CleanupOvertaken, CleanupRefused, ZoteroCleanupRefused, LeaseLost, FailureRefused,
                 EstablishTombstone, RetireLiveNamespace, RemoveRetiredNamespaces, Rescan, DeletionOvertaken,
                 DeletionStorageFails, Rows
  <2>11. ASSUME NEW v \in Workers, Continues(v) \/ CleansNext(v)
         PROVE  UNCHANGED <<ingressRows, custody>>
    BY <2>3, <2>4, <2>5, <2>6, <2>7, <2>10, <2>11 DEF Continues, Fetches, Cleans, Deletes, CleansNext
  <2>12. ASSUME NEW v \in Workers, GoesWrong(v)
         PROVE  UNCHANGED <<ingressRows, custody>>
    BY <2>3, <2>4, <2>10, <2>12 DEF GoesWrong
  <2>13. ASSUME NEW z \in Workers,
                \/ ZoteroTakes(z) \/ ZoteroContinues(z)
                \/ (Crash(z) \/ SweepFails(z)) /\ UNCHANGED custody
         PROVE  UNCHANGED <<ingressRows, custody>>
    BY <2>3, <2>6, <2>7, <2>10, <2>13 DEF ZoteroTakes, ZoteroContinues
  <2>14. ZoteroWorkers \subseteq Workers /\ Crawlers \subseteq Workers
    BY DeletionBounds DEF Crawlers
  <2>15. CASE \E v \in Crawlers :
                \/ claimCrawlerCustodyDeletion(v) \/ CleansNext(v)
                \/ claimNextCrawlerJob(v) \/ reapExpiredCrawlerLease(v)
                \/ Continues(v) \/ heartbeatCrawlerJob(v) \/ GoesWrong(v)
    BY <2>8, <2>11, <2>12, <2>14, <2>15
  <2> QED BY <2>9, <2>13, <2>14, <2>15 DEF Next
<1>2. Spec => []CInv
  BY CrawlsInductive
<1>3. CInv /\ [Next]_vars => [Harmless]_vars
  BY <1>1
<1> HIDE DEF Harmless
<1>4. Spec => [][Harmless]_vars
  BY <1>2, <1>3, PTL DEF Spec
<1> QED BY <1>4 DEF Harmless, OvertakenWorkersChangeNothing
=============================================================================
