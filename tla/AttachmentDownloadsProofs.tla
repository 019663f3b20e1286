--------------------- MODULE AttachmentDownloadsProofs ----------------------
(***************************************************************************)
(* Proofs about the import of a PDF stored in Zotero: the import, its job, *)
(* its attempts, its quota and its file tell one story, nothing is adopted *)
(* under an authority that has gone, and an overtaken worker writes no     *)
(* row.                                                                    *)
(***************************************************************************)
EXTENDS AttachmentDownloadsProperties, TLAPS

-----------------------------------------------------------------------------
(* The inductive invariant.                                                *)

\* A worker that may still put bytes of its attempt in place.
Filling == Streaming \cup {"stored"}
Dead == {"FAILED", "DEAD_LETTER"}
Fetching == {"RUNNING", "RETRYING"}

IngressRow == [status : {"NONE", "ADOPTED"} \cup Open \cup Given, left : Nat,
               wait : Nat, tries : Nat, cleaned : BOOLEAN]
TargetRow == [intake : {"NONE", "QUEUED", "RECEIVING", "QUARANTINED", "FAILED"}, released : BOOLEAN,
              asset : {"UPLOADING", "QUARANTINED", "REJECTED"}, document : {"PENDING", "FAILED"},
              inbox : {"NEEDS_REVIEW", "FAILED"}, batch : {"RUNNING", "FAILED"}]
StoreRow == [live : BOOLEAN, parts : SUBSET Attempts, finals : SUBSET Attempts, retired : BOOLEAN,
             moved : SUBSET Attempts, tomb : BOOLEAN]
HandRow == [phase : {"idle", "failing", "failed", "written"} \cup Filling \cup Sweeping, n : Nat,
            tries : Nat, retryable : BOOLEAN]

Typed ==
  /\ Shapes /\ target \in TargetRow /\ store \in StoreRow /\ hand \in [Workers -> HandRow]
  /\ backoff \in Nat

\* The import and the intake follow the job.
CommandOf(status) == CASE status \in Fetching -> "DOWNLOADING" [] status = "SUCCEEDED" -> "QUARANTINED"
                       [] status \in Dead -> "FAILED" [] OTHER -> status
IntakeOf(status) == IF status \in Fetching THEN "RECEIVING" ELSE CommandOf(status)
StatusesAgree == command.status = CommandOf(job.status) /\ target.intake = IntakeOf(job.status)

\* Only the last attempt may have a file: it is open exactly while the job
\* runs, and adopted exactly when the job has succeeded.
LastAttemptCounts ==
  /\ \A n \in Attempts :
       /\ MayHaveFile(ingress[n]) => n = job.attempts
       /\ n > job.attempts => ingress[n].status = "NONE"
       /\ ingress[n].status \in Open => job.status = "RUNNING"
       /\ ingress[n].status = "ADOPTED" <=> receipt = n
  /\ job.status = "RUNNING" => job.attempts \in Attempts /\ ingress[job.attempts].status \in Open
  /\ job.status = "SUCCEEDED" <=> receipt # None
  /\ job.status = "NONE" => job.attempts = 0

ReleaseIsSafe == target.released => job.status \in Dead /\ ~Unsafe(ingress)

\* Bytes that were reported written are in place; they are put there by the one
\* worker that has the attempt, and removed when it is given up for good.
HandIsSound(w) ==
  LET h == hand[w] status == ingress[h.n].status
  IN  /\ h.phase # "idle" => h.n \in Attempts /\ h.n <= job.attempts
      /\ h.phase \in Filling => status \in {"RECEIVING"} \cup Given
      /\ h.phase = "stored" /\ status = "RECEIVING" => h.n \in store.finals
      /\ h.phase \in Sweeping => status \in Given
HandsAreApart ==
  \A v, w \in Workers :
    hand[v].phase \in Filling /\ hand[w].phase \in Filling /\ hand[v].n = hand[w].n => v = w
FilesAreInPlace ==
  /\ \A n \in Attempts : ingress[n].status \in {"WRITTEN", "ADOPTED"} => n \in store.finals
  /\ \A w \in Workers : HandIsSound(w)
  /\ HandsAreApart

AInv == Typed /\ StatusesAgree /\ LastAttemptCounts /\ ReleaseIsSafe /\ FilesAreInPlace
-----------------------------------------------------------------------------
(* Rows.                                                                   *)

JobRow == [status : Waiting \cup {"NONE", "RUNNING", "SUCCEEDED", "FAILED", "DEAD_LETTER"},
           attempts : 0..MaxAttempts, left : Nat, wait : Nat]
CommandRow == [status : {"NONE", "QUEUED", "DOWNLOADING", "QUARANTINED", "FAILED"}, retry : Nat \cup {None}]
RowStatuses == {"NONE", "RUNNING", "SUCCEEDED", "FAILED", "DEAD_LETTER"}

LEMMA TypedRows ==
  Typed <=> /\ job \in JobRow /\ row \in [Attempts -> RowStatuses] /\ ingress \in [Attempts -> IngressRow]
            /\ command \in CommandRow /\ receipt \in Attempts \cup {None}
            /\ target \in TargetRow /\ store \in StoreRow /\ hand \in [Workers -> HandRow] /\ backoff \in Nat
<1>1. store \in StoreRow => {store.parts, store.finals} \subseteq SUBSET Attempts
  BY DEF StoreRow
<1> QED BY <1>1 DEF Typed, Shapes, JobRow, CommandRow, RowStatuses, IngressRow

-----------------------------------------------------------------------------
(* What a worker does with files, and what it gives up.                    *)

LEMMA AFacts ==
  ASSUME AInv, NEW w \in Workers
  PROVE  /\ job \in JobRow /\ row \in [Attempts -> RowStatuses] /\ ingress \in [Attempts -> IngressRow]
         /\ command \in CommandRow /\ receipt \in Attempts \cup {None}
         /\ target \in TargetRow /\ store \in StoreRow /\ hand \in [Workers -> HandRow] /\ backoff \in Nat
         /\ hand[w] \in HandRow /\ hand[w].n \in Nat /\ hand[w].tries \in Nat /\ hand[w].retryable \in BOOLEAN
         /\ hand[w].phase \in {"idle", "failing", "failed", "written"} \cup Filling \cup Sweeping
         /\ hand[w].phase # "idle" => hand[w].n \in Attempts
         /\ job.attempts \in Nat /\ HandIsSound(w)
<1>1. hand \in [Workers -> HandRow] /\ job \in JobRow
  BY TypedRows DEF AInv
<1>2. hand[w] \in HandRow /\ HandIsSound(w)
  BY <1>1 DEF AInv, FilesAreInPlace
<1> QED BY <1>1, <1>2, TypedRows DEF AInv, HandRow, HandIsSound, JobRow

\* A worker's hand moves; of the files, its own attempt's may go.
LEMMA HandStep ==
  ASSUME AInv, NEW w \in Workers, UNCHANGED <<ingressRows, backoff>>,
         NEW held \in HandRow, hand' = [hand EXCEPT ![w] = held], store' \in StoreRow,
         held.phase # "idle" => held.n = hand[w].n /\ hand[w].phase # "idle",
         held.phase \in Filling => hand[w].phase \in Filling,
         held.phase = "stored" => held.n \in store'.finals,
         held.phase \in Sweeping => hand[w].phase \in Sweeping,
         \A n \in store.finals : n \in store'.finals
           \/ (n = hand[w].n /\ hand[w].phase \in Streaming \cup Sweeping)
  PROVE  AInv'
<1>1. UNCHANGED <<job, row, ingress, command, target, receipt, backoff>>
  BY DEF ingressRows
<1>2. Typed'
  BY <1>1, AFacts, TypedRows DEF AInv, Typed, Shapes, StoreRow
<1>3. StatusesAgree' /\ LastAttemptCounts' /\ ReleaseIsSafe'
  BY <1>1 DEF AInv, StatusesAgree, LastAttemptCounts, ReleaseIsSafe
<1>4. hand'[w] = held /\ \A v \in Workers \ {w} : hand'[v] = hand[v]
  BY AFacts
<1>5. ASSUME NEW n \in Attempts, ingress[n].status \in {"WRITTEN", "ADOPTED"}
      PROVE  n \in store'.finals
  <2>1. n \in store.finals
    BY <1>5 DEF AInv, FilesAreInPlace
  <2>2. hand[w].phase \in Streaming \cup Sweeping /\ n = hand[w].n =>
          ingress[n].status \in {"RECEIVING"} \cup Given
    BY AFacts DEF HandIsSound, Filling
  <2> QED BY <1>5, <2>1, <2>2 DEF Given
<1>6. ASSUME NEW v \in Workers
      PROVE  HandIsSound(v)'
  <2>1. CASE v = w
    <3>1. HandIsSound(w) /\ hand'[w] = held /\ ingress' = ingress /\ job' = job
      BY <1>1, <1>4, AFacts
    <3>2. held.phase \in Filling \cup Sweeping => held.phase # "idle"
      BY DEF Filling, Streaming, Sweeping
    <3>3. held.phase # "idle" => held.n \in Attempts /\ held.n <= job.attempts
      BY <3>1 DEF HandIsSound
    <3>4. held.phase \in Filling => ingress[held.n].status \in {"RECEIVING"} \cup Given
      BY <3>1, <3>2 DEF HandIsSound
    <3>5. held.phase \in Sweeping => ingress[held.n].status \in Given
      BY <3>1, <3>2 DEF HandIsSound
    <3> QED BY <2>1, <3>1, <3>3, <3>4, <3>5 DEF HandIsSound
  <2>2. CASE v # w
    <3>1. hand'[v] = hand[v] /\ HandIsSound(v)
      BY <1>4, <2>2, AFacts
    <3>2. ASSUME hand[v].phase = "stored", ingress[hand[v].n].status = "RECEIVING"
          PROVE  hand[v].n \in store'.finals
      <4>1. hand[v].n \in store.finals
        BY <3>1, <3>2 DEF HandIsSound
      <4>2. hand[w].phase \in Streaming /\ hand[w].n = hand[v].n => FALSE
        BY <2>2, <3>2 DEF AInv, FilesAreInPlace, HandsAreApart, Filling
      <4>3. hand[w].phase \in Sweeping /\ hand[w].n = hand[v].n => FALSE
        BY <3>2, AFacts DEF HandIsSound, Given
      <4> QED BY <4>1, <4>2, <4>3
    <3> QED BY <1>1, <3>1, <3>2 DEF HandIsSound
  <2> QED BY <2>1, <2>2
<1>7. HandsAreApart'
  <2>1. held.phase \in Filling => hand[w].phase \in Filling /\ held.n = hand[w].n
    BY DEF Filling, Streaming
  <2>2. HandsAreApart
    BY DEF AInv, FilesAreInPlace
  <2> QED BY <1>4, <2>1, <2>2 DEF HandsAreApart
<1> QED BY <1>1, <1>2, <1>3, <1>5, <1>6, <1>7 DEF AInv, FilesAreInPlace

\* The phase moves and nothing else.
LEMMA PhaseStep ==
  ASSUME AInv, NEW w \in Workers, UNCHANGED <<ingressRows, backoff>>, store' \in StoreRow,
         NEW phase \in {"failing", "failed", "written"} \cup Filling \cup Sweeping,
         Goes(w, phase), hand[w].phase # "idle",
         phase \in Filling => hand[w].phase \in Filling,
         phase = "stored" => hand[w].n \in store'.finals,
         phase \in Sweeping => hand[w].phase \in Sweeping,
         \A n \in store.finals : n \in store'.finals
           \/ (n = hand[w].n /\ hand[w].phase \in Streaming \cup Sweeping)
  PROVE  AInv'
<1> DEFINE h == [hand[w] EXCEPT !.phase = phase]
<1>1. h \in HandRow /\ h.phase = phase /\ h.n = hand[w].n
  BY AFacts DEF HandRow
<1>2. hand' = [hand EXCEPT ![w] = h]
  BY DEF Goes
<1> HIDE DEF h
<1> QED BY <1>1, <1>2, HandStep

\* The worker fails, retryably or not.
LEMMA FailingStep ==
  ASSUME AInv, NEW w \in Workers, UNCHANGED <<ingressRows, backoff>>, store' \in StoreRow,
         NEW retryable \in BOOLEAN, hand[w].phase # "idle",
         hand' = [hand EXCEPT ![w].phase = "failing", ![w].retryable = retryable],
         \A n \in store.finals : n \in store'.finals
           \/ (n = hand[w].n /\ hand[w].phase \in Streaming \cup Sweeping)
  PROVE  AInv'
<1> DEFINE h == [hand[w] EXCEPT !.phase = "failing", !.retryable = retryable]
<1>1. h \in HandRow /\ h.phase = "failing" /\ h.n = hand[w].n
  BY AFacts DEF HandRow
<1>2. hand' = [hand EXCEPT ![w] = h]
  BY Zenon
<1> HIDE DEF h
<1>3. h.phase \notin Filling /\ h.phase \notin Sweeping /\ h.phase # "stored"
  BY <1>1 DEF Filling, Streaming, Sweeping
<1> QED BY <1>1, <1>2, <1>3, HandStep

LEMMA RestingStep ==
  ASSUME AInv, NEW w \in Workers, UNCHANGED <<ingressRows, backoff, store>>, Rests(w)
  PROVE  AInv'
<1>1. Idle \in HandRow /\ Idle.phase = "idle" /\ hand' = [hand EXCEPT ![w] = Idle]
  BY DEF Idle, Hand, HandRow, Rests
<1>2. Idle.phase \notin Filling /\ Idle.phase \notin Sweeping /\ Idle.phase # "stored"
  BY <1>1 DEF Filling, Streaming, Sweeping
<1>3. store' \in StoreRow
  BY AFacts
<1> HIDE DEF Idle
<1> QED BY <1>1, <1>2, <1>3, HandStep

LEMMA StreamKeeps ==
  ASSUME AInv, NEW w \in Workers, Stream(w) \/ \E retryable \in BOOLEAN : StreamFails(w, retryable), UNCHANGED backoff
  PROVE  AInv'
<1> DEFINE n == hand[w].n
<1>1. store \in StoreRow /\ (hand[w].phase # "idle" => n \in Attempts)
  BY AFacts
<1>2. UNCHANGED ingressRows
  BY DEF Stream, StreamFails, ResolveNamespace, MakeDirectory, AdmitStream, OpenPart, SealPart, LinkFinal, UnlinkPart,
         FileUnchanged
<1>3. CASE ResolveNamespace(w) \/ AdmitStream(w) \/ SealPart(w)
  <2>1. UNCHANGED store
    BY <1>3 DEF ResolveNamespace, AdmitStream, SealPart
  <2>2. CASE ResolveNamespace(w)
    <3>1. Goes(w, "resolved") /\ hand[w].phase = "fetching"
      BY <2>2 DEF ResolveNamespace, At
    <3> QED BY <1>1, <1>2, <2>1, <3>1, PhaseStep DEF Filling, Streaming, Sweeping
  <2>3. CASE AdmitStream(w)
    <3>1. Goes(w, "admitted") /\ hand[w].phase = "made"
      BY <2>3 DEF AdmitStream, At
    <3> QED BY <1>1, <1>2, <2>1, <3>1, PhaseStep DEF Filling, Streaming, Sweeping
  <2>4. CASE SealPart(w)
    <3>1. Goes(w, "sealed") /\ hand[w].phase = "writing"
      BY <2>4 DEF SealPart, At
    <3> QED BY <1>1, <1>2, <2>1, <3>1, PhaseStep DEF Filling, Streaming, Sweeping
  <2> QED BY <1>3, <2>2, <2>3, <2>4
<1>4. CASE MakeDirectory(w)
  <2>1. Goes(w, "made") /\ hand[w].phase = "resolved" /\ store' = [store EXCEPT !.live = TRUE]
    BY <1>4 DEF MakeDirectory, At
  <2>2. store' \in StoreRow /\ store'.finals = store.finals
    BY <1>1, <2>1 DEF StoreRow
  <2> QED BY <1>2, <2>1, <2>2, PhaseStep DEF Filling, Streaming, Sweeping
<1>5. CASE OpenPart(w)
  <2>1. Goes(w, "writing") /\ hand[w].phase = "admitted" /\ store' = [store EXCEPT !.parts = @ \cup {n}]
    BY <1>5 DEF OpenPart, At
  <2>2. store' \in StoreRow /\ store'.finals = store.finals
    BY <1>1, <2>1 DEF StoreRow
  <2> QED BY <1>2, <2>1, <2>2, PhaseStep DEF Filling, Streaming, Sweeping
<1>6. CASE LinkFinal(w)
  <2>1. Goes(w, "linked") /\ hand[w].phase = "sealed" /\ store' = [store EXCEPT !.finals = @ \cup {n}]
    BY <1>6 DEF LinkFinal, At
  <2>2. store' \in StoreRow /\ store'.finals = store.finals \cup {n}
    BY <1>1, <2>1 DEF StoreRow
  <2> QED BY <1>2, <2>1, <2>2, PhaseStep DEF Filling, Streaming, Sweeping
<1>7. CASE UnlinkPart(w)
  <2>1. /\ Goes(w, "stored") /\ hand[w].phase = "linked" /\ store' = [store EXCEPT !.parts = @ \ {n}]
        /\ n \in store.finals
    BY <1>7 DEF UnlinkPart, At
  <2>2. store' \in StoreRow /\ store'.finals = store.finals
    BY <1>1, <2>1 DEF StoreRow
  <2> QED BY <1>2, <2>1, <2>2, PhaseStep DEF Filling, Streaming, Sweeping
<1>8. ASSUME NEW retryable \in BOOLEAN, StreamFails(w, retryable)
      PROVE  AInv'
  <2>1. /\ hand[w].phase \in Streaming /\ hand' = [hand EXCEPT ![w].phase = "failing", ![w].retryable = retryable]
        /\ store' = [store EXCEPT !.parts = @ \ {hand[w].n},
                                  !.finals = IF At(w, "linked") THEN @ \ {hand[w].n} ELSE @]
    BY <1>8 DEF StreamFails
  <2>2. store' \in StoreRow /\ (store'.finals = store.finals \/ store'.finals = store.finals \ {n})
    BY <1>1, <2>1 DEF StoreRow
  <2>3. hand[w].phase # "idle"
    BY <2>1 DEF Streaming
  <2> QED BY <1>2, <2>1, <2>2, <2>3, FailingStep
<1> QED BY <1>3, <1>4, <1>5, <1>6, <1>7, <1>8 DEF Stream

LEMMA SweepKeeps ==
  ASSUME AInv, NEW w \in Workers, Sweep(w) \/ SweepFails(w), UNCHANGED backoff
  PROVE  AInv'
<1> DEFINE n == hand[w].n
<1>1. store \in StoreRow /\ UNCHANGED ingressRows
  BY AFacts DEF Sweep, RemoveFinal, RemoveParts, SweepFails, FileUnchanged
<1>2. CASE RemoveFinal(w)
  <2>1. Goes(w, "sweeping parts") /\ hand[w].phase = "sweeping" /\ store' = [store EXCEPT !.finals = @ \ {n}]
    BY <1>2 DEF RemoveFinal, At
  <2>2. store' \in StoreRow /\ store'.finals = store.finals \ {n}
    BY <1>1, <2>1 DEF StoreRow
  <2> QED BY <1>1, <2>1, <2>2, PhaseStep DEF Filling, Streaming, Sweeping
<1>3. CASE RemoveParts(w)
  <2>1. Goes(w, "swept") /\ hand[w].phase = "sweeping parts" /\ store' = [store EXCEPT !.parts = @ \ {n}]
    BY <1>3 DEF RemoveParts, At
  <2>2. store' \in StoreRow /\ store'.finals = store.finals
    BY <1>1, <2>1 DEF StoreRow
  <2> QED BY <1>1, <2>1, <2>2, PhaseStep DEF Filling, Streaming, Sweeping
<1>4. CASE SweepFails(w)
  <2>1. Goes(w, "unswept") /\ hand[w].phase \in {"sweeping", "sweeping parts"} /\ store' = store
    BY <1>4 DEF SweepFails
  <2> QED BY <1>1, <2>1, PhaseStep DEF Filling, Streaming, Sweeping
<1> QED BY <1>2, <1>3, <1>4 DEF Sweep

LEMMA GivingUpKeeps ==
  ASSUME AInv, NEW w \in Workers, UNCHANGED backoff,
         Crash(w) \/ TransactionFails(w) \/ LeaseLost(w) \/ FailureRefused(w) \/ CleanupIdle(w)
  PROVE  AInv'
<1>1. UNCHANGED <<ingressRows, store>> /\ store' \in StoreRow
  BY AFacts DEF Crash, TransactionFails, LeaseLost, FailureRefused, CleanupIdle, Rows, ingressRows
<1>2. CASE Rests(w)
  BY <1>1, <1>2, RestingStep
<1>3. CASE TransactionFails(w) \/ LeaseLost(w)
  <2>1. /\ hand[w].phase # "idle"
        /\ \E r \in BOOLEAN : hand' = [hand EXCEPT ![w].phase = "failing", ![w].retryable = r]
    BY <1>3 DEF TransactionFails, LeaseLost
  <2> QED BY <1>1, <2>1, FailingStep
<1> QED BY <1>2, <1>3 DEF Crash, FailureRefused, CleanupIdle
-----------------------------------------------------------------------------
(* The transactions: what each has to show.                                *)

LEMMA TypedAgain ==
  ASSUME job' \in JobRow, row' \in [Attempts -> RowStatuses], ingress' \in [Attempts -> IngressRow],
         command' \in CommandRow, receipt' \in Attempts \cup {None},
         target' \in TargetRow, store' \in StoreRow, hand' \in [Workers -> HandRow], backoff' \in Nat
  PROVE  Typed'
<1>1. {store'.parts, store'.finals} \subseteq SUBSET Attempts
  BY DEF StoreRow
<1> QED BY <1>1 DEF Typed, Shapes, JobRow, CommandRow, RowStatuses, IngressRow

\* Attempt n stays as it was, is given up, goes on to the state its file is
\* in, or is new.
Advances(n) ==
  \/ ingress'[n].status = ingress[n].status
  \/ ingress'[n].status \in Given
  \/ /\ ingress'[n].status \in {"WRITTEN", "ADOPTED"} /\ ingress[n].status \in Open /\ n \in store.finals
     /\ \A v \in Workers : hand'[v].phase \in Filling => hand'[v].n # n
  \/ ingress'[n].status = "RECEIVING" /\ n > job.attempts

\* Worker w keeps what it had in hand, lets go of it, or begins.
Holding(w, held) ==
  \/ held = hand[w]
  \/ held.phase \in {"idle", "failing", "failed", "written"} \cup Sweeping
  \/ held.phase = "fetching" /\ held.n > job.attempts /\ ingress'[held.n].status = "RECEIVING"

LEMMA FilesStep ==
  ASSUME AInv, NEW w \in Workers, NEW held \in HandRow, hand' = [hand EXCEPT ![w] = held], store' = store,
         ingress' \in [Attempts -> IngressRow], job'.attempts \in Nat, job'.attempts >= job.attempts,
         \A n \in Attempts : Advances(n), Holding(w, held),
         held.phase # "idle" => held.n \in Attempts /\ held.n <= job'.attempts,
         held.phase \in Sweeping => ingress'[held.n].status \in Given
  PROVE  FilesAreInPlace'
<1>1. hand'[w] = held /\ \A v \in Workers \ {w} : hand'[v] = hand[v]
  BY AFacts
<1>2. ASSUME NEW v \in Workers
      PROVE  /\ hand[v] \in HandRow /\ HandIsSound(v) /\ hand[v].n \in Nat /\ job.attempts \in Nat
             /\ hand[v].phase \in Filling \cup Sweeping => hand[v].phase # "idle"
  BY AFacts DEF Filling, Streaming, Sweeping
<1>3. ASSUME NEW n \in Attempts, ingress'[n].status \in {"WRITTEN", "ADOPTED"}
      PROVE  n \in store'.finals
  BY <1>3 DEF Advances, Given, AInv, FilesAreInPlace
<1>4. ASSUME NEW v \in Workers, hand'[v] = hand[v]
      PROVE  HandIsSound(v)'
  <2> DEFINE n == hand[v].n
  <2>1. hand[v].phase # "idle" => n \in Attempts /\ n <= job.attempts /\ n <= job'.attempts
    BY <1>2 DEF HandIsSound
  <2>2. ASSUME hand[v].phase \in Filling
        PROVE  ingress'[n].status \in {"RECEIVING"} \cup Given
    <3>1. ingress[n].status \in {"RECEIVING"} \cup Given
      BY <1>2, <2>2 DEF HandIsSound
    <3>2. Advances(n)
      BY <1>2, <2>1, <2>2
    <3> QED BY <1>4, <2>2, <3>1, <3>2 DEF Advances
  <2>3. ASSUME hand[v].phase = "stored", ingress'[n].status = "RECEIVING"
        PROVE  n \in store'.finals
    <3>1. Advances(n) /\ ~(n > job.attempts)
      BY <1>2, <2>1, <2>3
    <3>2. ingress[n].status = "RECEIVING"
      BY <2>3, <3>1 DEF Advances, Given
    <3> QED BY <1>2, <2>3, <3>2 DEF HandIsSound
  <2>4. ASSUME hand[v].phase \in Sweeping
        PROVE  ingress'[n].status \in Given
    <3>1. Advances(n) /\ ~(n > job.attempts)
      BY <1>2, <2>1, <2>4
    <3>2. ingress[n].status \in Given
      BY <1>2, <2>4 DEF HandIsSound
    <3> QED BY <3>1, <3>2 DEF Advances, Given, Open
  <2> HIDE DEF n
  <2> QED BY <1>4, <2>1, <2>2, <2>3, <2>4 DEF HandIsSound, n
<1>5. HandIsSound(w)'
  <2>1. CASE held = hand[w]
    BY <1>1, <1>4, <2>1
  <2>2. CASE held.phase \notin Filling
    BY <1>1, <2>2 DEF HandIsSound, Filling
  <2>3. CASE held.phase = "fetching" /\ ingress'[held.n].status = "RECEIVING"
    BY <1>1, <2>3 DEF HandIsSound, Filling, Sweeping
  <2> QED BY <2>1, <2>2, <2>3 DEF Holding, Filling, Streaming, Sweeping
<1>6. ASSUME NEW u \in Workers, NEW v \in Workers, hand'[u].phase \in Filling, hand'[v].phase \in Filling,
             hand'[u].n = hand'[v].n
      PROVE  u = v
  <2>1. HandsAreApart
    BY DEF AInv, FilesAreInPlace
  <2>2. CASE held = hand[w]
    BY <1>1, <1>6, <2>1, <2>2 DEF HandsAreApart
  <2>3. CASE held.phase \notin Filling
    BY <1>1, <1>6, <2>1, <2>3 DEF HandsAreApart
  <2>4. CASE held.phase = "fetching" /\ held.n > job.attempts
    <3>1. \A x \in Workers : hand[x].phase \in Filling => hand[x].n <= job.attempts
      BY <1>2 DEF HandIsSound
    <3>2. \A x \in Workers : hand[x].phase \in Filling => hand[x].n # held.n
      BY <1>2, <2>4, <3>1 DEF HandRow
    <3> QED BY <1>1, <1>6, <2>1, <3>2 DEF HandsAreApart
  <2> QED BY <2>2, <2>3, <2>4 DEF Holding, Filling, Streaming, Sweeping
<1>7. HandsAreApart'
  BY <1>6 DEF HandsAreApart
<1>8. \A v \in Workers : HandIsSound(v)'
  BY <1>1, <1>4, <1>5
<1> QED BY <1>3, <1>7, <1>8 DEF FilesAreInPlace

\* The transactions that leave every worker as it is.
LEMMA SameHands ==
  ASSUME AInv, hand' = hand, store' = store,
         ingress' \in [Attempts -> IngressRow], job'.attempts = job.attempts,
         \A n \in Attempts : Advances(n)
  PROVE  FilesAreInPlace'
<1>1. CASE Workers = {}
  <2>1. ASSUME NEW n \in Attempts, ingress'[n].status \in {"WRITTEN", "ADOPTED"}
        PROVE  n \in store'.finals
    BY <2>1 DEF Advances, Given, AInv, FilesAreInPlace
  <2> QED BY <1>1, <2>1 DEF FilesAreInPlace, HandsAreApart
<1>2. ASSUME NEW w \in Workers
      PROVE  FilesAreInPlace'
  <2>1. hand[w] \in HandRow /\ hand' = [hand EXCEPT ![w] = hand[w]] /\ job.attempts \in Nat /\ HandIsSound(w)
    BY AFacts
  <2>2. /\ hand[w].phase # "idle" => hand[w].n \in Attempts /\ hand[w].n <= job'.attempts
        /\ Holding(w, hand[w])
    BY <2>1 DEF HandIsSound, Holding
  <2>3. ASSUME hand[w].phase \in Sweeping
        PROVE  ingress'[hand[w].n].status \in Given
    <3>0. hand[w].phase # "idle"
      BY <2>3 DEF Sweeping
    <3>1. ingress[hand[w].n].status \in Given /\ hand[w].n \in Attempts /\ ~(hand[w].n > job.attempts)
      BY <2>1, <2>3, <3>0, AFacts DEF HandIsSound, HandRow
    <3>2. Advances(hand[w].n)
      BY <3>1
    <3> QED BY <3>1, <3>2 DEF Advances, Given, Open
  <2> DEFINE held == hand[w]
  <2>4. held \in HandRow /\ hand' = [hand EXCEPT ![w] = held] /\ Holding(w, held)
    BY <2>1, <2>2
  <2>5. /\ held.phase # "idle" => held.n \in Attempts /\ held.n <= job'.attempts
        /\ held.phase \in Sweeping => ingress'[held.n].status \in Given
    BY <2>2, <2>3
  <2>6. job'.attempts \in Nat /\ job'.attempts >= job.attempts
    BY <2>1
  <2> HIDE DEF held
  <2> QED BY <2>4, <2>5, <2>6, FilesStep
<1> QED BY <1>1, <1>2
-----------------------------------------------------------------------------
(* The transactions, one lemma for each.                                   *)

LEMMA TerminalStep ==
  ASSUME AInv, Bound, NEW status \in Dead, NEW safe \in BOOLEAN, NEW charged \in BOOLEAN,
         Terminalize(status, safe, charged)
  PROVE  /\ job' \in JobRow /\ command' \in CommandRow /\ target' \in TargetRow /\ StatusesAgree'
         /\ job'.status = status /\ job'.attempts = job.attempts
         /\ target'.released => safe \/ target.released
<1>1. job \in JobRow /\ command \in CommandRow /\ target \in TargetRow
  BY TypedRows DEF AInv
<1>2. job' \in JobRow /\ job'.status = status /\ job'.attempts = job.attempts
  BY <1>1 DEF Terminalize, Unlocked, JobRow, Dead
<1>3. command' \in CommandRow /\ command'.status = "FAILED"
  BY <1>1 DEF Terminalize, CommandRow, Bound
<1>4. Released(safe) \in BOOLEAN
  BY <1>1 DEF Released, TargetRow
<1>5. target' = [intake |-> "FAILED", released |-> Released(safe),
             asset |-> IF target.asset = "UPLOADING" THEN "REJECTED" ELSE target.asset,
             document |-> IF target.document = "PENDING" THEN "FAILED" ELSE target.document,
             inbox |-> IF target.inbox = "NEEDS_REVIEW" THEN "FAILED" ELSE target.inbox,
             batch |-> IF (safe \/ charged) /\ target.batch = "RUNNING" THEN "FAILED" ELSE target.batch]
  BY DEF Terminalize
<1>6. /\ target.asset \in {"UPLOADING", "QUARANTINED", "REJECTED"} /\ target.document \in {"PENDING", "FAILED"}
      /\ target.inbox \in {"NEEDS_REVIEW", "FAILED"} /\ target.batch \in {"RUNNING", "FAILED"}
  BY <1>1 DEF TargetRow
<1>7. target' \in TargetRow /\ target'.intake = "FAILED" /\ target'.released = Released(safe)
  BY <1>4, <1>5, <1>6 DEF TargetRow
<1>8. StatusesAgree'
  BY <1>2, <1>3, <1>7 DEF StatusesAgree, CommandOf, IntakeOf, Dead, Fetching
<1> QED BY <1>2, <1>3, <1>7, <1>8 DEF Released

LEMMA QueueKeeps ==
  ASSUME AInv, queueZoteroAttachmentImport
  PROVE  AInv'
<1>1. /\ job \in JobRow /\ row \in [Attempts -> RowStatuses] /\ ingress \in [Attempts -> IngressRow]
      /\ command \in CommandRow /\ receipt \in Attempts \cup {None}
      /\ target \in TargetRow /\ store \in StoreRow /\ hand \in [Workers -> HandRow] /\ backoff \in Nat
  BY TypedRows DEF AInv
<1>2. UNCHANGED <<row, ingress, receipt, store, hand, backoff>> /\ job.status = "NONE"
  BY DEF queueZoteroAttachmentImport, Connection
<1>3. job' \in JobRow /\ job'.status = "QUEUED" /\ job'.attempts = job.attempts
  BY <1>1 DEF queueZoteroAttachmentImport, JobRow, Waiting
<1>4. command' \in CommandRow /\ command'.status = "QUEUED"
  BY <1>1 DEF queueZoteroAttachmentImport, CommandRow
<1>5. target' \in TargetRow /\ target'.intake = "QUEUED" /\ target'.released = target.released
  BY <1>1 DEF queueZoteroAttachmentImport, TargetRow
<1>6. Typed'
  BY <1>1, <1>2, <1>3, <1>4, <1>5, TypedAgain
<1>7. StatusesAgree'
  BY <1>3, <1>4, <1>5 DEF StatusesAgree, CommandOf, IntakeOf, Dead, Fetching
<1>8. LastAttemptCounts' /\ ReleaseIsSafe'
  BY <1>2, <1>3, <1>5 DEF AInv, LastAttemptCounts, ReleaseIsSafe, Dead
<1>9. FilesAreInPlace'
  BY <1>1, <1>2, <1>3, SameHands DEF Advances
<1> QED BY <1>6, <1>7, <1>8, <1>9 DEF AInv

\* The authority and the connection's delay are in no row of the invariant.
LEMMA OutsideKeeps ==
  ASSUME AInv, UNCHANGED <<ingressRows, store, hand>>, backoff' \in Nat
  PROVE  AInv'
<1>1. UNCHANGED <<job, row, ingress, command, target, receipt, store, hand>>
  BY DEF ingressRows
<1>2. Typed'
  BY <1>1 DEF AInv, Typed, Shapes
<1>3. FilesAreInPlace'
  BY <1>1 DEF AInv, FilesAreInPlace, HandIsSound, HandsAreApart
<1> QED BY <1>1, <1>2, <1>3 DEF AInv, StatusesAgree, LastAttemptCounts, ReleaseIsSafe

LEMMA TickKeeps ==
  ASSUME AInv, Tick
  PROVE  AInv'
<1>1. /\ job \in JobRow /\ row \in [Attempts -> RowStatuses] /\ ingress \in [Attempts -> IngressRow]
      /\ command \in CommandRow /\ receipt \in Attempts \cup {None}
      /\ target \in TargetRow /\ store \in StoreRow /\ hand \in [Workers -> HandRow] /\ backoff \in Nat
  BY TypedRows DEF AInv
<1>2. UNCHANGED <<row, target, receipt, store, hand>> /\ backoff' = Less(backoff)
  BY DEF Tick, TickJob
<1>3. \A x \in Nat : Less(x) \in Nat
  BY DEF Less
<1>4. job' \in JobRow /\ job'.status = job.status /\ job'.attempts = job.attempts
  <2>1. job.left \in Nat /\ job.wait \in Nat
    BY <1>1 DEF JobRow
  <2>2. Less(job.left) \in Nat /\ Less(job.wait) \in Nat
    BY <1>3, <2>1
  <2>3. job' = [job EXCEPT !.left = Less(job.left), !.wait = Less(job.wait)]
    BY DEF Tick, TickJob
  <2> QED BY <1>1, <2>2, <2>3 DEF JobRow
<1>5. /\ ingress' \in [Attempts -> IngressRow]
      /\ \A n \in Attempts : ingress'[n].status = ingress[n].status /\ ingress'[n].cleaned = ingress[n].cleaned
  <2>1. ingress' = [n \in Attempts |-> [ingress[n] EXCEPT !.left = Less(ingress[n].left), !.wait = Less(ingress[n].wait)]]
    BY DEF Tick, TickJob
  <2>2. ASSUME NEW n \in Attempts
        PROVE  /\ ingress'[n] \in IngressRow /\ ingress'[n].status = ingress[n].status
               /\ ingress'[n].cleaned = ingress[n].cleaned
    <3>1. ingress[n] \in IngressRow
      BY <1>1
    <3>2. Less(ingress[n].left) \in Nat /\ Less(ingress[n].wait) \in Nat
      BY <1>3, <3>1 DEF IngressRow
    <3>3. ingress'[n] = [ingress[n] EXCEPT !.left = Less(ingress[n].left), !.wait = Less(ingress[n].wait)]
      BY <2>1, Zenon
    <3> QED BY <3>1, <3>2, <3>3 DEF IngressRow
  <2> QED BY <2>1, <2>2
<1>6. command' \in CommandRow /\ command'.status = command.status
  <2>1. command.retry \in Nat \cup {None}
    BY <1>1 DEF CommandRow
  <2>2. (IF command.retry = None THEN None ELSE Less(command.retry)) \in Nat \cup {None}
    BY <1>3, <2>1
  <2>3. command' = [command EXCEPT !.retry = IF command.retry = None THEN None ELSE Less(command.retry)]
    BY DEF Tick, TickJob
  <2> QED BY <1>1, <2>2, <2>3 DEF CommandRow
<1>7. Typed'
  BY <1>1, <1>2, <1>3, <1>4, <1>5, <1>6, TypedAgain
<1>8. StatusesAgree'
  BY <1>2, <1>4, <1>6 DEF AInv, StatusesAgree, CommandOf, IntakeOf
<1>9. \A n \in Attempts : MayHaveFile(ingress[n])' = MayHaveFile(ingress[n])
  BY <1>5 DEF MayHaveFile
<1>10. LastAttemptCounts'
  <2>1. LastAttemptCounts
    BY DEF AInv
  <2> QED BY <1>2, <1>4, <1>5, <1>9, <2>1 DEF LastAttemptCounts
<1>11. ReleaseIsSafe'
  BY <1>2, <1>4, <1>9 DEF AInv, ReleaseIsSafe, Unsafe
<1>12. FilesAreInPlace'
  BY <1>2, <1>4, <1>5, SameHands DEF Advances
<1> QED BY <1>7, <1>8, <1>10, <1>11, <1>12 DEF AInv

LEMMA ClaimRefusedKeeps ==
  ASSUME AInv, NEW w \in Workers, ClaimRefused(w)
  PROVE  AInv'
<1>1. /\ UNCHANGED <<row, ingress, receipt, store, hand, backoff>> /\ job.status \in Waiting /\ ~Unsafe(ingress)
      /\ Terminalize("DEAD_LETTER", TRUE, FALSE)
  BY DEF ClaimRefused, Claimable, Connection
<1>2. Bound
  BY <1>1 DEF AInv, StatusesAgree, CommandOf, Bound, Waiting, Dead, Fetching
<1>3. /\ job' \in JobRow /\ command' \in CommandRow /\ target' \in TargetRow /\ StatusesAgree'
      /\ job'.status = "DEAD_LETTER" /\ job'.attempts = job.attempts
  BY <1>1, <1>2, TerminalStep DEF Dead
<1>4. Typed'
  BY <1>1, <1>3, AFacts, TypedAgain
<1>5. LastAttemptCounts' /\ ReleaseIsSafe'
  <2>1. job.status # "RUNNING" /\ job.status # "SUCCEEDED" /\ job.status # "NONE"
    BY <1>1 DEF Waiting
  <2>2. LastAttemptCounts
    BY DEF AInv
  <2> QED BY <1>1, <1>3, <2>1, <2>2 DEF LastAttemptCounts, ReleaseIsSafe, Dead
<1>6. FilesAreInPlace'
  BY <1>1, <1>3, AFacts, SameHands DEF Advances
<1> QED BY <1>3, <1>4, <1>5, <1>6 DEF AInv

\* A running or waiting job is put off, or its lease renewed: its status stays.
LEMMA SameStatusKeeps ==
  ASSUME AInv, UNCHANGED <<row, command, target, receipt, store, hand, backoff>>,
         job' \in JobRow, job'.status = job.status, job'.attempts = job.attempts,
         ingress' \in [Attempts -> IngressRow],
         \A n \in Attempts : ingress'[n].status = ingress[n].status /\ ingress'[n].cleaned = ingress[n].cleaned
  PROVE  AInv'
<1>1. Typed'
  BY TypedRows, TypedAgain DEF AInv
<1>2. StatusesAgree'
  BY DEF AInv, StatusesAgree, CommandOf, IntakeOf
<1>3. \A n \in Attempts : MayHaveFile(ingress[n])' = MayHaveFile(ingress[n])
  BY DEF MayHaveFile
<1>4. LastAttemptCounts' /\ ReleaseIsSafe'
  <2>1. LastAttemptCounts /\ ReleaseIsSafe
    BY DEF AInv
  <2> QED BY <1>3, <2>1 DEF LastAttemptCounts, ReleaseIsSafe, Unsafe
<1>5. FilesAreInPlace'
  BY SameHands DEF Advances
<1> QED BY <1>1, <1>2, <1>4, <1>5 DEF AInv

LEMMA ClaimPutOffKeeps ==
  ASSUME AInv, NEW w \in Workers, ClaimPutOff(w)
  PROVE  AInv'
<1>1. job \in JobRow /\ ingress \in [Attempts -> IngressRow] /\ backoff \in Nat
  BY AFacts
<1>2. UNCHANGED <<row, ingress, command, target, receipt, store, hand, backoff>> /\ job' = [job EXCEPT !.wait = backoff]
  BY DEF ClaimPutOff, Connection
<1>3. job' \in JobRow /\ job'.status = job.status /\ job'.attempts = job.attempts
  BY <1>1, <1>2 DEF JobRow
<1> QED BY <1>1, <1>2, <1>3, SameStatusKeeps

LEMMA HeartbeatKeeps ==
  ASSUME AInv, NEW w \in Workers, heartbeatZoteroAttachmentDownloadLease(w)
  PROVE  AInv'
<1> DEFINE n == hand[w].n  r == [ingress[n] EXCEPT !.left = LeaseTtl]
<1>1. job \in JobRow /\ ingress \in [Attempts -> IngressRow] /\ LeaseTtl \in Nat
  BY AFacts, IngressBounds
<1>2. UNCHANGED <<row, command, target, receipt, store, hand, backoff>> /\ job' = [job EXCEPT !.left = LeaseTtl]
  BY DEF heartbeatZoteroAttachmentDownloadLease, Connection
<1>3. job' \in JobRow /\ job'.status = job.status /\ job'.attempts = job.attempts
  BY <1>1, <1>2 DEF JobRow
<1>4. n \in Attempts
  <2>1. hand[w].phase # "idle"
    BY DEF heartbeatZoteroAttachmentDownloadLease, Streaming
  <2> QED BY <2>1, AFacts
<1>5. r \in IngressRow /\ r.status = ingress[n].status /\ r.cleaned = ingress[n].cleaned
  <2>1. ingress[n] \in IngressRow
    BY <1>1, <1>4
  <2> QED BY <1>1, <2>1 DEF IngressRow
<1>6. ingress' = [ingress EXCEPT ![n] = r]
  BY DEF heartbeatZoteroAttachmentDownloadLease
<1> HIDE DEF r
<1>7. ingress' \in [Attempts -> IngressRow]
  BY <1>1, <1>4, <1>5, <1>6
<1>8. \A m \in Attempts : ingress'[m].status = ingress[m].status /\ ingress'[m].cleaned = ingress[m].cleaned
  BY <1>1, <1>4, <1>5, <1>6
<1> QED BY <1>2, <1>3, <1>7, <1>8, SameStatusKeeps

LEMMA ClaimKeeps ==
  ASSUME AInv, NEW w \in Workers, claimNextZoteroAttachmentDownloadJob(w)
  PROVE  AInv'
<1> DEFINE n == job.attempts + 1
           r == [ingress[n] EXCEPT !.status = "RECEIVING", !.left = LeaseTtl]
           held == Hand("fetching", n, 0, TRUE)
<1>1. job \in JobRow /\ ingress \in [Attempts -> IngressRow] /\ row \in [Attempts -> RowStatuses] /\ target \in TargetRow
  BY AFacts
<1>2. UNCHANGED <<receipt, store, backoff>> /\ job.status \in Waiting /\ ~Unsafe(ingress) /\ job.attempts < MaxAttempts
  BY DEF claimNextZoteroAttachmentDownloadJob, Claimable, Connection
<1>3. n \in Attempts /\ n > job.attempts /\ n \in Nat /\ LeaseTtl \in Nat /\ MaxAttempts \in Nat /\ job.attempts \in Nat
  BY <1>1, <1>2, IngressBounds DEF Attempts, JobRow
<1>4. job' = [status |-> "RUNNING", attempts |-> n, left |-> LeaseTtl, wait |-> 0]
  BY DEF claimNextZoteroAttachmentDownloadJob
<1>5. job' \in JobRow /\ job'.status = "RUNNING" /\ job'.attempts = n
  BY <1>3, <1>4 DEF JobRow, Attempts
<1>6. row' \in [Attempts -> RowStatuses]
  BY <1>1 DEF claimNextZoteroAttachmentDownloadJob, RowStatuses
<1>7. ingress' = [ingress EXCEPT ![n] = r]
  <2>1. ingress' = [ingress EXCEPT ![n].status = "RECEIVING", ![n].left = LeaseTtl]
    BY DEF claimNextZoteroAttachmentDownloadJob
  <2> HIDE DEF n
  <2> QED BY <2>1, Zenon
<1>8. r \in IngressRow /\ r.status = "RECEIVING" /\ MayHaveFile(r)
  <2>1. ingress[n] \in IngressRow
    BY <1>1, <1>3
  <2> HIDE DEF n
  <2> QED BY <1>3, <2>1 DEF IngressRow, Open, MayHaveFile
<1>9. held \in HandRow /\ held.phase = "fetching" /\ held.n = n
  BY <1>3 DEF Hand, HandRow, Filling, Streaming
<1>10. hand' = [hand EXCEPT ![w] = held]
  BY DEF claimNextZoteroAttachmentDownloadJob
<1>11. command' \in CommandRow /\ command'.status = "DOWNLOADING"
  BY DEF claimNextZoteroAttachmentDownloadJob, CommandRow
<1>12. target' \in TargetRow /\ target'.intake = "RECEIVING" /\ target'.released = target.released
  BY <1>1 DEF claimNextZoteroAttachmentDownloadJob, TargetRow
<1> HIDE DEF r, held, n
<1>13. ingress' \in [Attempts -> IngressRow]
  BY <1>1, <1>3, <1>7, <1>8
<1>14. ingress'[n] = r /\ \A m \in Attempts : m # n => ingress'[m] = ingress[m]
  BY <1>1, <1>3, <1>7, <1>8
<1>15. hand' \in [Workers -> HandRow]
  BY <1>9, <1>10, AFacts
<1>16. Typed'
  BY <1>2, <1>5, <1>6, <1>11, <1>12, <1>13, <1>15, AFacts, TypedAgain
<1>17. StatusesAgree'
  BY <1>5, <1>11, <1>12 DEF StatusesAgree, CommandOf, IntakeOf, Fetching, Dead
<1>18. LastAttemptCounts'
  <2>1. LastAttemptCounts
    BY DEF AInv
  <2>2. receipt = None /\ job.status # "RUNNING"
    BY <1>2, <2>1 DEF LastAttemptCounts, Waiting
  <2>3. None \notin Attempts
    BY IngressBounds DEF Attempts
  <2>4. ASSUME NEW m \in Attempts
        PROVE  /\ MayHaveFile(ingress'[m]) => m = n
               /\ m > n => ingress'[m].status = "NONE"
               /\ ingress'[m].status = "ADOPTED" <=> receipt = m
    <3>1. CASE m = n
      BY <1>3, <1>8, <1>14, <2>2, <2>3, <3>1
    <3>2. CASE m # n
      <4>1. ingress'[m] = ingress[m] /\ ~MayHaveFile(ingress[m])
        BY <1>2, <1>14, <3>2 DEF Unsafe
      <4>2. m > n => m > job.attempts
        BY <1>3 DEF Attempts
      <4> QED BY <2>1, <3>2, <4>1, <4>2 DEF LastAttemptCounts
    <3> QED BY <3>1, <3>2
  <2> QED BY <1>2, <1>3, <1>5, <1>8, <1>14, <2>2, <2>4 DEF LastAttemptCounts, Open
<1>19. ReleaseIsSafe'
  BY <1>2, <1>12 DEF AInv, ReleaseIsSafe, Waiting, Dead
<1>20. FilesAreInPlace'
  <2>1. \A m \in Attempts : Advances(m)
    BY <1>3, <1>8, <1>14 DEF Advances
  <2>2. Holding(w, held)
    BY <1>3, <1>8, <1>9, <1>14 DEF Holding
  <2>3. held.phase \notin Sweeping
    BY <1>9 DEF Sweeping
  <2>4. job'.attempts \in Nat /\ job'.attempts >= job.attempts /\ held.n \in Attempts /\ held.n <= job'.attempts
    BY <1>3, <1>5, <1>9
  <2> QED BY <1>2, <1>9, <1>10, <1>13, <2>1, <2>2, <2>3, <2>4, FilesStep
<1> QED BY <1>16, <1>17, <1>18, <1>19, <1>20 DEF AInv

\* The last attempt is closed: the job, which was running, waits again.
LEMMA ClosingStep ==
  ASSUME AInv, job.status = "RUNNING", NEW n \in Attempts, n = job.attempts,
         NEW r \in IngressRow, r.status \in Given, ingress' = [ingress EXCEPT ![n] = r],
         job' \in JobRow, job'.status = "RETRYING", job'.attempts = job.attempts,
         command' \in CommandRow, command'.status = command.status, UNCHANGED <<target, receipt>>
  PROVE  StatusesAgree' /\ LastAttemptCounts' /\ ReleaseIsSafe' /\ ingress' \in [Attempts -> IngressRow]
         /\ \A m \in Attempts : Advances(m)
<1>1. ingress \in [Attempts -> IngressRow]
  BY TypedRows DEF AInv
<1>2. ingress' \in [Attempts -> IngressRow]
  BY <1>1
<1>3. ingress'[n] = r /\ \A m \in Attempts : m # n => ingress'[m] = ingress[m]
  BY <1>1
<1>4. StatusesAgree'
  BY DEF AInv, StatusesAgree, CommandOf, IntakeOf, Fetching, Dead
<1>5. LastAttemptCounts
  BY DEF AInv
<1>6. receipt = None /\ None \notin Attempts
  BY <1>5, IngressBounds DEF LastAttemptCounts, Attempts
<1>7. ASSUME NEW m \in Attempts
      PROVE  /\ MayHaveFile(ingress'[m]) => m = n
             /\ m > n => ingress'[m].status = "NONE"
             /\ ingress'[m].status \notin Open /\ ingress'[m].status # "ADOPTED"
  <2>1. CASE m = n
    BY <1>3, <2>1 DEF Given, Open, Attempts
  <2>2. CASE m # n
    <3>1. ingress'[m] = ingress[m] /\ ~MayHaveFile(ingress[m])
      BY <1>3, <1>5, <2>2 DEF LastAttemptCounts
    <3> QED BY <1>5, <2>2, <3>1 DEF LastAttemptCounts, MayHaveFile
  <2> QED BY <2>1, <2>2
<1>8. LastAttemptCounts'
  BY <1>6, <1>7 DEF LastAttemptCounts
<1>9. ReleaseIsSafe'
  BY DEF AInv, ReleaseIsSafe, Dead
<1>10. \A m \in Attempts : Advances(m)
  BY <1>3 DEF Advances
<1> QED BY <1>2, <1>4, <1>8, <1>9, <1>10

LEMMA ReapKeeps ==
  ASSUME AInv, NEW w \in Workers, reapExpiredDownloadLease(w)
  PROVE  AInv'
<1> DEFINE n == job.attempts
           r == [ingress[n] EXCEPT !.status = "ABANDONED", !.wait = 0]
<1>1. /\ job \in JobRow /\ ingress \in [Attempts -> IngressRow] /\ row \in [Attempts -> RowStatuses]
      /\ command \in CommandRow
  BY AFacts
<1>2. UNCHANGED <<command, target, receipt, store, hand, backoff>> /\ job.status = "RUNNING"
  BY DEF reapExpiredDownloadLease, Connection
<1>3. n \in Attempts /\ ingress[n].status \in Open
  BY <1>2 DEF AInv, LastAttemptCounts
<1>4. job' \in JobRow /\ job'.status = "RETRYING" /\ job'.attempts = job.attempts
  BY <1>1 DEF reapExpiredDownloadLease, Unlocked, JobRow, Waiting
<1>5. row' \in [Attempts -> RowStatuses]
  BY <1>1 DEF reapExpiredDownloadLease, RowStatuses
<1>6. ingress' = [ingress EXCEPT ![n] = r]
  <2>1. ingress' = [ingress EXCEPT ![n].status = "ABANDONED", ![n].wait = 0]
    BY <1>3 DEF reapExpiredDownloadLease, AbandonedIngress
  <2> HIDE DEF n
  <2> QED BY <2>1, Zenon
<1>7. r \in IngressRow /\ r.status \in Given
  <2>1. ingress[n] \in IngressRow
    BY <1>1, <1>3
  <2> QED BY <2>1 DEF IngressRow, Given
<1> HIDE DEF r
<1>8. /\ StatusesAgree' /\ LastAttemptCounts' /\ ReleaseIsSafe' /\ ingress' \in [Attempts -> IngressRow]
      /\ \A m \in Attempts : Advances(m)
  BY <1>1, <1>2, <1>3, <1>4, <1>6, <1>7, ClosingStep
<1>9. Typed'
  BY <1>1, <1>2, <1>4, <1>5, <1>8, AFacts, TypedAgain
<1>10. FilesAreInPlace'
  BY <1>2, <1>4, <1>8, SameHands
<1> QED BY <1>8, <1>9, <1>10 DEF AInv

\* What the holder of a lease knows.
LEMMA HeldAttempt ==
  ASSUME AInv, NEW w \in Workers, hand[w].phase # "idle", Holds(hand[w].n)
  PROVE  /\ job.status = "RUNNING" /\ hand[w].n = job.attempts /\ job.left > 0
         /\ hand[w].n \in Attempts /\ ingress[hand[w].n].status \in Open
         /\ ingress[hand[w].n] \in IngressRow
  BY AFacts DEF Holds, Leased

LEMMA RecordKeeps ==
  ASSUME AInv, NEW w \in Workers, NEW answered \in BOOLEAN, recordWrittenZoteroAttachmentDownload(w, answered)
  PROVE  AInv'
<1> DEFINE n == hand[w].n
           r == [ingress[n] EXCEPT !.status = "WRITTEN"]
           phase == IF answered THEN "written" ELSE "failing"
           held == [hand[w] EXCEPT !.phase = phase]
<1>1. job \in JobRow /\ ingress \in [Attempts -> IngressRow] /\ hand \in [Workers -> HandRow] /\ hand[w] \in HandRow
  BY AFacts
<1>2. /\ UNCHANGED <<job, row, command, target, receipt, store, backoff>> /\ hand[w].phase = "stored"
      /\ Holds(n) /\ ingress[n].status = "RECEIVING"
  BY DEF recordWrittenZoteroAttachmentDownload, Connection, At, Owns
<1>3. n \in Attempts /\ n = job.attempts /\ job.status = "RUNNING" /\ ingress[n] \in IngressRow
  BY <1>2, HeldAttempt
<1>4. ingress' = [ingress EXCEPT ![n] = r]
  BY DEF recordWrittenZoteroAttachmentDownload
<1>5. r \in IngressRow /\ r.status = "WRITTEN"
  BY <1>3 DEF IngressRow, Open
<1>6. hand' = [hand EXCEPT ![w] = held]
  BY DEF recordWrittenZoteroAttachmentDownload, Goes
<1>7. held \in HandRow /\ held.n = n /\ held.phase \in {"written", "failing"}
  BY <1>1 DEF HandRow
<1>8. n \in store.finals
  <2>1. HandIsSound(w)
    BY AFacts
  <2> QED BY <1>2, <2>1 DEF HandIsSound
<1>9. \A v \in Workers \ {w} : hand[v].phase \in Filling => hand[v].n # n
  BY <1>2 DEF AInv, FilesAreInPlace, HandsAreApart, Filling
<1> HIDE DEF r, held, n, phase
<1>10. ingress' \in [Attempts -> IngressRow] /\ ingress'[n] = r /\ \A m \in Attempts : m # n => ingress'[m] = ingress[m]
  BY <1>1, <1>3, <1>4, <1>5
<1>11. hand' \in [Workers -> HandRow] /\ hand'[w] = held /\ \A v \in Workers \ {w} : hand'[v] = hand[v]
  BY <1>1, <1>6, <1>7
<1>12. Typed'
  BY <1>1, <1>2, <1>10, <1>11, AFacts, TypedAgain
<1>13. StatusesAgree' /\ LastAttemptCounts' /\ ReleaseIsSafe'
  <2>1. StatusesAgree /\ LastAttemptCounts /\ ReleaseIsSafe
    BY DEF AInv
  <2>2. receipt = None /\ None \notin Attempts
    BY <1>2, <1>3, <2>1, IngressBounds DEF LastAttemptCounts, Attempts
  <2>3. StatusesAgree' /\ ReleaseIsSafe'
    BY <1>2, <1>3, <2>1 DEF StatusesAgree, ReleaseIsSafe, CommandOf, IntakeOf, Dead
  <2>4. ASSUME NEW m \in Attempts
        PROVE  /\ MayHaveFile(ingress'[m]) => m = job.attempts
               /\ m > job.attempts => ingress'[m].status = "NONE"
               /\ ingress'[m].status = "ADOPTED" <=> receipt = m
    <3>1. CASE m = n
      BY <1>3, <1>5, <1>10, <2>2, <3>1 DEF Attempts
    <3>2. CASE m # n
      BY <1>10, <2>1, <3>2 DEF LastAttemptCounts
    <3> QED BY <3>1, <3>2
  <2> QED BY <1>2, <1>3, <1>5, <1>10, <2>2, <2>3, <2>4 DEF LastAttemptCounts, Open
<1>14. FilesAreInPlace'
  <2>1. \A v \in Workers : hand'[v].phase \in Filling => hand'[v].n # n
    BY <1>7, <1>9, <1>11 DEF Filling, Streaming
  <2>2. \A m \in Attempts : Advances(m)
    BY <1>2, <1>5, <1>8, <1>10, <2>1 DEF Advances, Open
  <2>3. Holding(w, held) /\ held.phase \notin Sweeping
    BY <1>7 DEF Holding, Sweeping
  <2>4. job'.attempts \in Nat /\ job'.attempts >= job.attempts /\ held.n \in Attempts /\ held.n <= job'.attempts
    BY <1>1, <1>2, <1>3, <1>7 DEF JobRow
  <2> QED BY <1>2, <1>6, <1>7, <1>10, <2>2, <2>3, <2>4, FilesStep
<1> QED BY <1>12, <1>13, <1>14 DEF AInv

LEMMA CompleteKeeps ==
  ASSUME AInv, NEW w \in Workers, NEW answered \in BOOLEAN, completeZoteroAttachmentDownloadLease(w, answered)
  PROVE  AInv'
<1> DEFINE n == hand[w].n
           r == [ingress[n] EXCEPT !.status = "ADOPTED", !.wait = 0]
           held == IF answered THEN Idle ELSE [hand[w] EXCEPT !.phase = "failing"]
<1>1. /\ job \in JobRow /\ ingress \in [Attempts -> IngressRow] /\ hand \in [Workers -> HandRow] /\ hand[w] \in HandRow
      /\ row \in [Attempts -> RowStatuses] /\ target \in TargetRow
  BY AFacts
<1>2. /\ UNCHANGED <<store, backoff>> /\ hand[w].phase = "written" /\ Owns(n) /\ ingress[n].status = "WRITTEN"
      /\ receipt' = n
  BY DEF completeZoteroAttachmentDownloadLease, Connection, At
<1>3. n \in Attempts /\ n = job.attempts /\ job.status = "RUNNING" /\ ingress[n] \in IngressRow
  BY <1>2, HeldAttempt DEF Owns
<1>4. ingress' = [ingress EXCEPT ![n] = r]
  <2>1. ingress' = [ingress EXCEPT ![n].status = "ADOPTED", ![n].wait = 0]
    BY DEF completeZoteroAttachmentDownloadLease
  <2> QED BY <2>1, Zenon
<1>5. r \in IngressRow /\ r.status = "ADOPTED"
  BY <1>3 DEF IngressRow, Open
<1>6. hand' = [hand EXCEPT ![w] = held]
  BY DEF completeZoteroAttachmentDownloadLease, Goes, Rests
<1>7. held \in HandRow /\ held.phase \in {"idle", "failing"} /\ (held.phase # "idle" => held.n = n)
  BY <1>1 DEF HandRow, Idle, Hand
<1>8. job' \in JobRow /\ job'.status = "SUCCEEDED" /\ job'.attempts = job.attempts
  BY <1>1 DEF completeZoteroAttachmentDownloadLease, Unlocked, JobRow
<1>9. command' \in CommandRow /\ command'.status = "QUARANTINED"
  BY DEF completeZoteroAttachmentDownloadLease, CommandRow
<1>10. target' \in TargetRow /\ target'.intake = "QUARANTINED" /\ target'.released = target.released
  BY <1>1 DEF completeZoteroAttachmentDownloadLease, TargetRow
<1>11. row' \in [Attempts -> RowStatuses]
  BY <1>1 DEF completeZoteroAttachmentDownloadLease, RowStatuses
<1> HIDE DEF r, held, n
<1>12. ingress' \in [Attempts -> IngressRow] /\ ingress'[n] = r /\ \A m \in Attempts : m # n => ingress'[m] = ingress[m]
  BY <1>1, <1>3, <1>4, <1>5
<1>13. hand' \in [Workers -> HandRow] /\ hand'[w] = held /\ \A v \in Workers \ {w} : hand'[v] = hand[v]
  BY <1>1, <1>6, <1>7
<1>14. Typed'
  BY <1>2, <1>3, <1>8, <1>9, <1>10, <1>11, <1>12, <1>13, AFacts, TypedAgain
<1>15. StatusesAgree'
  BY <1>8, <1>9, <1>10 DEF StatusesAgree, CommandOf, IntakeOf, Dead, Fetching
<1>16. LastAttemptCounts' /\ ReleaseIsSafe'
  <2>1. LastAttemptCounts /\ ReleaseIsSafe
    BY DEF AInv
  <2>2. receipt = None /\ None \notin Attempts
    BY <1>2, <1>3, <2>1, IngressBounds DEF LastAttemptCounts, Attempts
  <2>3. ReleaseIsSafe'
    BY <1>3, <1>10, <2>1 DEF ReleaseIsSafe, Dead
  <2>4. ASSUME NEW m \in Attempts
        PROVE  /\ MayHaveFile(ingress'[m]) => m = job.attempts
               /\ m > job.attempts => ingress'[m].status = "NONE"
               /\ ingress'[m].status \notin Open
               /\ ingress'[m].status = "ADOPTED" <=> m = n
    <3>1. CASE m = n
      BY <1>3, <1>5, <1>12, <3>1 DEF Attempts, Open
    <3>2. CASE m # n
      <4>1. ingress'[m] = ingress[m] /\ ~MayHaveFile(ingress[m])
        BY <1>3, <1>12, <2>1, <3>2 DEF LastAttemptCounts
      <4> QED BY <2>1, <3>2, <4>1 DEF LastAttemptCounts, MayHaveFile
    <3> QED BY <3>1, <3>2
  <2> QED BY <1>2, <1>3, <1>8, <2>2, <2>3, <2>4 DEF LastAttemptCounts
<1>17. FilesAreInPlace'
  <2>1. ASSUME NEW v \in Workers, hand'[v].phase \in Filling
        PROVE  hand'[v].n # n
    <3>1. v # w /\ hand'[v] = hand[v]
      BY <1>7, <1>13, <2>1 DEF Filling, Streaming
    <3>2. HandIsSound(v)
      BY AFacts
    <3> QED BY <1>2, <2>1, <3>1, <3>2 DEF HandIsSound, Given
  <2>2. n \in store.finals
    BY <1>2, <1>3 DEF AInv, FilesAreInPlace
  <2>3. \A m \in Attempts : Advances(m)
    BY <1>2, <1>5, <1>12, <2>1, <2>2 DEF Advances, Open
  <2>4. Holding(w, held) /\ held.phase \notin Sweeping
    BY <1>7 DEF Holding, Sweeping
  <2>5. job'.attempts \in Nat /\ job'.attempts >= job.attempts
        /\ (held.phase # "idle" => held.n \in Attempts /\ held.n <= job'.attempts)
    BY <1>1, <1>3, <1>7, <1>8 DEF JobRow
  <2> QED BY <1>2, <1>6, <1>7, <1>12, <2>3, <2>4, <2>5, FilesStep
<1> QED BY <1>14, <1>15, <1>16, <1>17 DEF AInv

LEMMA FailKeeps ==
  ASSUME AInv, NEW w \in Workers, NEW wide \in BOOLEAN, failZoteroAttachmentDownloadLease(w, wide)
  PROVE  AInv'
<1> DEFINE n == hand[w].n
           wait == IF TerminalFailure(w) THEN 0 ELSE RetryDelay
           r == [ingress[n] EXCEPT !.status = "FAILED", !.wait = 0]
           held == [hand[w] EXCEPT !.phase = "failed"]
<1>1. /\ job \in JobRow /\ ingress \in [Attempts -> IngressRow] /\ hand \in [Workers -> HandRow] /\ hand[w] \in HandRow
      /\ row \in [Attempts -> RowStatuses] /\ command \in CommandRow /\ backoff \in Nat
  BY AFacts
<1>2. UNCHANGED <<target, receipt, store>> /\ hand[w].phase = "failing" /\ Holds(n)
  BY DEF failZoteroAttachmentDownloadLease, At
<1>3. n \in Attempts /\ n = job.attempts /\ job.status = "RUNNING" /\ ingress[n] \in IngressRow
  BY <1>2, HeldAttempt
<1>4. ingress' = [ingress EXCEPT ![n] = r]
  <2>1. ingress' = [ingress EXCEPT ![n].status = "FAILED", ![n].wait = 0]
    BY DEF failZoteroAttachmentDownloadLease
  <2> QED BY <2>1, Zenon
<1>5. r \in IngressRow /\ r.status \in Given
  BY <1>3 DEF IngressRow, Given
<1>6. hand' = [hand EXCEPT ![w] = held]
  BY DEF failZoteroAttachmentDownloadLease, Goes
<1>7. held \in HandRow /\ held.n = n /\ held.phase = "failed"
  BY <1>1 DEF HandRow
<1>8. wait \in Nat
  BY IngressBounds
<1>9. /\ job' = Unlocked("RETRYING", wait)
      /\ row' = [row EXCEPT ![n] = IF TerminalFailure(w) THEN "DEAD_LETTER" ELSE "FAILED"]
      /\ command' = IF command.status # "DOWNLOADING" THEN command
                    ELSE [command EXCEPT !.retry = IF TerminalFailure(w) THEN None ELSE wait]
      /\ backoff' = IF wide /\ ~TerminalFailure(w) THEN wait ELSE backoff
  BY DEF failZoteroAttachmentDownloadLease
<1> HIDE DEF r, held, n, wait
<1>10. job' \in JobRow /\ job'.status = "RETRYING" /\ job'.attempts = job.attempts
  BY <1>1, <1>8, <1>9 DEF Unlocked, JobRow, Waiting
<1>11. row' \in [Attempts -> RowStatuses]
  BY <1>1, <1>9 DEF RowStatuses
<1>12. command' \in CommandRow /\ command'.status = command.status
  BY <1>1, <1>8, <1>9 DEF CommandRow
<1>13. backoff' \in Nat
  BY <1>1, <1>8, <1>9
<1>14. /\ StatusesAgree' /\ LastAttemptCounts' /\ ReleaseIsSafe' /\ ingress' \in [Attempts -> IngressRow]
       /\ \A m \in Attempts : Advances(m)
  BY <1>2, <1>3, <1>4, <1>5, <1>10, <1>12, ClosingStep
<1>15. hand' \in [Workers -> HandRow]
  BY <1>1, <1>6, <1>7
<1>16. Typed'
  BY <1>2, <1>10, <1>11, <1>12, <1>13, <1>14, <1>15, AFacts, TypedAgain
<1>17. FilesAreInPlace'
  <2>1. Holding(w, held) /\ held.phase \notin Sweeping
    BY <1>7 DEF Holding, Sweeping
  <2>2. job'.attempts \in Nat /\ job'.attempts >= job.attempts /\ held.n \in Attempts /\ held.n <= job'.attempts
    BY <1>1, <1>3, <1>7, <1>10 DEF JobRow
  <2> QED BY <1>2, <1>6, <1>7, <1>14, <2>1, <2>2, FilesStep
<1> QED BY <1>14, <1>16, <1>17 DEF AInv

\* A file that is still to be removed is the last attempt's, and its job can
\* still be ended.
LEMMA LeftBehind ==
  ASSUME AInv, NEW n \in Attempts, ingress[n].status \in Given, ~ingress[n].cleaned
  PROVE  /\ n = job.attempts /\ MayHaveFile(ingress[n]) /\ Unsafe(ingress) /\ receipt = None
         /\ job.status \in {"QUEUED", "RETRYING", "FAILED", "DEAD_LETTER"} /\ Bound
<1>1. MayHaveFile(ingress[n]) /\ Unsafe(ingress)
  BY DEF MayHaveFile, Unsafe
<1>2. n = job.attempts
  BY <1>1 DEF AInv, LastAttemptCounts
<1>3. job.status # "RUNNING" /\ job.status # "NONE"
  BY <1>2 DEF AInv, LastAttemptCounts, Given, Open, Attempts
<1>4. receipt = None
  <2>1. receipt \in Attempts \cup {None}
    BY TypedRows DEF AInv
  <2>2. ASSUME receipt \in Attempts
        PROVE  FALSE
    <3>1. ingress[receipt].status = "ADOPTED"
      BY <2>2 DEF AInv, LastAttemptCounts
    <3>2. receipt = n
      BY <1>2, <2>2, <3>1 DEF AInv, LastAttemptCounts, MayHaveFile
    <3> QED BY <3>1, <3>2 DEF Given
  <2> QED BY <2>1, <2>2
<1>5. job.status # "SUCCEEDED" /\ job \in JobRow
  BY <1>4, TypedRows DEF AInv, LastAttemptCounts
<1>6. job.status \in {"QUEUED", "RETRYING", "FAILED", "DEAD_LETTER"}
  BY <1>3, <1>5 DEF JobRow, Waiting
<1>7. Bound
  BY <1>6 DEF AInv, StatusesAgree, CommandOf, Bound, Dead, Fetching
<1> QED BY <1>1, <1>2, <1>4, <1>6, <1>7

\* A sweep is claimed or put off, or records what it removed: no attempt
\* changes its status, and no other attempt has a file.
LEMMA SweepingStep ==
  ASSUME AInv, NEW n \in Attempts, ingress[n].status \in Given, ~ingress[n].cleaned,
         NEW r \in IngressRow, r.status = ingress[n].status, ingress' = [ingress EXCEPT ![n] = r], receipt' = receipt,
         job'.attempts = job.attempts,
         job'.status \in {"QUEUED", "RETRYING", "FAILED", "DEAD_LETTER"}
  PROVE  /\ LastAttemptCounts' /\ ingress' \in [Attempts -> IngressRow]
         /\ \A m \in Attempts : Advances(m)
         /\ \A m \in Attempts : ingress'[m].status = ingress[m].status
<1>1. ingress \in [Attempts -> IngressRow] /\ LastAttemptCounts
  BY TypedRows DEF AInv
<1>2. ingress' \in [Attempts -> IngressRow] /\ ingress'[n] = r /\ \A m \in Attempts : m # n => ingress'[m] = ingress[m]
  BY <1>1
<1>3. n = job.attempts /\ receipt = None
  BY LeftBehind
<1>4. \A m \in Attempts : ingress'[m].status = ingress[m].status
  BY <1>2
<1>5. \A m \in Attempts : MayHaveFile(ingress'[m]) => m = n
  BY <1>1, <1>2, <1>3 DEF LastAttemptCounts
<1>6. job.status # "RUNNING"
  BY LeftBehind
<1>7. LastAttemptCounts'
  BY <1>1, <1>3, <1>4, <1>5, <1>6 DEF LastAttemptCounts
<1> QED BY <1>2, <1>4, <1>7 DEF Advances

LEMMA ClaimCleanupKeeps ==
  ASSUME AInv, NEW w \in Workers, NEW n \in Attempts, ClaimCleanup(w, n)
  PROVE  AInv'
<1> DEFINE r == [ingress[n] EXCEPT !.tries = ingress[n].tries + 1, !.wait = CleanupLease]
           held == Hand("sweeping", n, ingress[n].tries + 1, TRUE)
<1>1. job \in JobRow /\ ingress \in [Attempts -> IngressRow] /\ hand \in [Workers -> HandRow] /\ ingress[n] \in IngressRow
  BY AFacts
<1>2. /\ UNCHANGED <<job, row, command, target, receipt, store, backoff>>
      /\ ingress[n].status \in Given /\ ~ingress[n].cleaned
  BY DEF ClaimCleanup, CleanupDue, Connection
<1>3. /\ n = job.attempts /\ MayHaveFile(ingress[n]) /\ Unsafe(ingress)
      /\ job.status \in {"QUEUED", "RETRYING", "FAILED", "DEAD_LETTER"}
  BY <1>2, LeftBehind
<1>4. ingress' = [ingress EXCEPT ![n] = r]
  <2>1. ingress' = [ingress EXCEPT ![n].tries = @ + 1, ![n].wait = CleanupLease]
    BY DEF ClaimCleanup
  <2> QED BY <2>1, Zenon
<1>5. ingress[n].tries + 1 \in Nat /\ CleanupLease \in Nat
  BY <1>1, IngressBounds DEF IngressRow
<1>6. r \in IngressRow /\ r.status = ingress[n].status
  BY <1>1, <1>5 DEF IngressRow
<1>7. hand' = [hand EXCEPT ![w] = held]
  BY DEF ClaimCleanup
<1>8. held \in HandRow /\ held.n = n /\ held.phase = "sweeping"
  BY <1>5 DEF Hand, HandRow, Sweeping, Attempts
<1> HIDE DEF r, held
<1>9. /\ LastAttemptCounts' /\ ingress' \in [Attempts -> IngressRow]
      /\ \A m \in Attempts : Advances(m)
      /\ \A m \in Attempts : ingress'[m].status = ingress[m].status
  BY <1>2, <1>3, <1>4, <1>6, SweepingStep
<1>10. hand' \in [Workers -> HandRow]
  BY <1>1, <1>7, <1>8
<1>11. Typed'
  BY <1>2, <1>9, <1>10, AFacts, TypedAgain
<1>12. StatusesAgree'
  BY <1>2 DEF AInv, StatusesAgree, CommandOf, IntakeOf
<1>13. ReleaseIsSafe'
  BY <1>2, <1>3 DEF AInv, ReleaseIsSafe
<1>14. FilesAreInPlace'
  <2>1. Holding(w, held) /\ ingress'[held.n].status \in Given
    BY <1>2, <1>8, <1>9 DEF Holding, Sweeping
  <2>2. job'.attempts \in Nat /\ job'.attempts >= job.attempts /\ held.n \in Attempts /\ held.n <= job'.attempts
    BY <1>1, <1>2, <1>3, <1>8 DEF JobRow
  <2> QED BY <1>2, <1>7, <1>8, <1>9, <2>1, <2>2, FilesStep
<1> QED BY <1>9, <1>11, <1>12, <1>13, <1>14 DEF AInv

\* The worker rests after its sweep.
LEMMA RestingHands ==
  ASSUME AInv, NEW w \in Workers, Rests(w), store' = store, ingress' \in [Attempts -> IngressRow],
         job'.attempts = job.attempts, \A m \in Attempts : Advances(m)
  PROVE  FilesAreInPlace' /\ hand' \in [Workers -> HandRow]
<1>1. Idle \in HandRow /\ Idle.phase = "idle" /\ hand' = [hand EXCEPT ![w] = Idle]
  BY DEF Idle, Hand, HandRow, Rests
<1>2. Holding(w, Idle) /\ Idle.phase \notin Sweeping
  BY <1>1 DEF Holding, Sweeping
<1>3. job.attempts \in Nat /\ job'.attempts >= job.attempts /\ hand \in [Workers -> HandRow]
  BY AFacts
<1> HIDE DEF Idle
<1>4. FilesAreInPlace'
  BY <1>1, <1>2, <1>3, FilesStep
<1> QED BY <1>1, <1>3, <1>4

LEMMA CleanupPutOffKeeps ==
  ASSUME AInv, NEW w \in Workers, CleanupPutOff(w)
  PROVE  AInv'
<1> DEFINE n == hand[w].n
           r == [ingress[n] EXCEPT !.wait = CleanupDelay]
<1>1. /\ job \in JobRow /\ ingress \in [Attempts -> IngressRow] /\ row \in [Attempts -> RowStatuses]
      /\ command \in CommandRow /\ target \in TargetRow
  BY AFacts
<1>2. /\ UNCHANGED <<receipt, store, backoff>> /\ Rests(w) /\ hand[w].phase = "unswept"
      /\ ingress[n].status \in Given /\ ~ingress[n].cleaned
  BY DEF CleanupPutOff, CleanupCurrent, Connection, At
<1>3. n \in Attempts /\ ingress[n] \in IngressRow
  BY <1>1, <1>2, AFacts
<1>4. /\ n = job.attempts /\ MayHaveFile(ingress[n]) /\ Unsafe(ingress) /\ Bound
      /\ job.status \in {"QUEUED", "RETRYING", "FAILED", "DEAD_LETTER"}
  BY <1>2, <1>3, LeftBehind
<1>5. ingress' = [ingress EXCEPT ![n] = r]
  BY DEF CleanupPutOff
<1>6. r \in IngressRow /\ r.status = ingress[n].status /\ r.cleaned = ingress[n].cleaned
  BY <1>3, IngressBounds DEF IngressRow
<1> HIDE DEF r
<1>7. ~target.released
  BY <1>4 DEF AInv, ReleaseIsSafe
<1>8. /\ job' \in JobRow /\ row' \in [Attempts -> RowStatuses] /\ command' \in CommandRow /\ target' \in TargetRow
      /\ StatusesAgree' /\ job'.attempts = job.attempts
      /\ job'.status \in {"QUEUED", "RETRYING", "FAILED", "DEAD_LETTER"}
      /\ target'.released => job'.status \in Dead /\ ~Unsafe(ingress')
  <2>1. CASE NeedsAttention(n)
    <3>1. /\ row' = [row EXCEPT ![n] = IF row[n] = "FAILED" THEN "DEAD_LETTER" ELSE row[n]]
          /\ Terminalize("DEAD_LETTER", ~Unsafe(ingress'), TRUE)
      BY <2>1 DEF CleanupPutOff
    <3>2. row' \in [Attempts -> RowStatuses]
      BY <1>1, <1>3, <3>1 DEF RowStatuses
    <3> DEFINE safe == ~Unsafe(ingress')
    <3>3. safe \in BOOLEAN /\ Terminalize("DEAD_LETTER", safe, TRUE)
      BY <3>1
    <3> HIDE DEF safe
    <3>4. /\ job' \in JobRow /\ command' \in CommandRow /\ target' \in TargetRow /\ StatusesAgree'
          /\ job'.status = "DEAD_LETTER" /\ job'.attempts = job.attempts
          /\ target'.released => safe \/ target.released
      BY <1>4, <3>3, TerminalStep DEF Dead
    <3> QED BY <1>7, <3>2, <3>4 DEF Dead, safe
  <2>2. CASE ~NeedsAttention(n)
    <3>1. /\ job' = IF job.status = "RETRYING" THEN [job EXCEPT !.wait = CleanupDelay] ELSE job
          /\ UNCHANGED <<row, command, target>>
      BY <2>2 DEF CleanupPutOff
    <3>2. job' \in JobRow /\ job'.status = job.status /\ job'.attempts = job.attempts
      BY <1>1, <3>1, IngressBounds DEF JobRow
    <3>3. StatusesAgree'
      BY <3>1, <3>2 DEF AInv, StatusesAgree, CommandOf, IntakeOf
    <3> QED BY <1>1, <1>4, <1>7, <3>1, <3>2, <3>3
  <2> QED BY <2>1, <2>2
<1>9. /\ LastAttemptCounts' /\ ingress' \in [Attempts -> IngressRow]
      /\ \A m \in Attempts : Advances(m)
  BY <1>2, <1>3, <1>5, <1>6, <1>8, SweepingStep
<1>10. FilesAreInPlace' /\ hand' \in [Workers -> HandRow]
  BY <1>2, <1>8, <1>9, RestingHands
<1>11. Typed'
  BY <1>2, <1>8, <1>9, <1>10, AFacts, TypedAgain
<1>12. ReleaseIsSafe'
  BY <1>8 DEF ReleaseIsSafe
<1> QED BY <1>8, <1>9, <1>10, <1>11, <1>12 DEF AInv

LEMMA CleanupCompletesKeeps ==
  ASSUME AInv, NEW w \in Workers, CleanupCompletes(w)
  PROVE  AInv'
<1> DEFINE n == hand[w].n
           r == [ingress[n] EXCEPT !.cleaned = TRUE, !.wait = 0]
           cleaned == [ingress EXCEPT ![n].cleaned = TRUE, ![n].wait = 0]
           status == IF job.status = "DEAD_LETTER" \/ Exhausted(job.attempts) THEN "DEAD_LETTER" ELSE "FAILED"
<1>1. /\ job \in JobRow /\ ingress \in [Attempts -> IngressRow] /\ row \in [Attempts -> RowStatuses]
      /\ command \in CommandRow /\ target \in TargetRow
  BY AFacts
<1>2. /\ UNCHANGED <<row, receipt, store, backoff>> /\ Rests(w) /\ hand[w].phase = "swept"
      /\ ingress[n].status \in Given /\ ~ingress[n].cleaned
  BY DEF CleanupCompletes, CleanupCurrent, Connection, At
<1>3. n \in Attempts /\ ingress[n] \in IngressRow
  BY <1>1, <1>2, AFacts
<1>4. /\ n = job.attempts /\ MayHaveFile(ingress[n]) /\ Unsafe(ingress) /\ Bound
      /\ job.status \in {"QUEUED", "RETRYING", "FAILED", "DEAD_LETTER"}
  BY <1>2, <1>3, LeftBehind
<1>5. ingress' = cleaned
  BY DEF CleanupCompletes
<1>6. cleaned = [ingress EXCEPT ![n] = r]
  BY Zenon
<1>7. r \in IngressRow /\ r.status = ingress[n].status
  <2>1. \A c \in BOOLEAN : [ingress[n] EXCEPT !.cleaned = c, !.wait = 0] \in IngressRow
                           /\ [ingress[n] EXCEPT !.cleaned = c, !.wait = 0].status = ingress[n].status
    BY <1>3 DEF IngressRow
  <2> QED BY <2>1
<1>8. status \in Dead
  BY DEF Dead
<1>9. IF ~Unsafe(cleaned) /\ Ended(n) THEN Terminalize(status, TRUE, FALSE) ELSE UNCHANGED <<job, command, target>>
  BY DEF CleanupCompletes
<1> HIDE DEF r, cleaned, status
<1>10. ~target.released
  BY <1>4 DEF AInv, ReleaseIsSafe
<1>11. /\ job' \in JobRow /\ command' \in CommandRow /\ target' \in TargetRow
       /\ StatusesAgree' /\ job'.attempts = job.attempts
       /\ job'.status \in {"QUEUED", "RETRYING", "FAILED", "DEAD_LETTER"}
       /\ target'.released => job'.status \in Dead /\ ~Unsafe(ingress')
  <2>1. CASE ~Unsafe(cleaned) /\ Ended(n)
    <3>1. Terminalize(status, TRUE, FALSE)
      BY <1>9, <2>1
    <3>2. /\ job' \in JobRow /\ command' \in CommandRow /\ target' \in TargetRow /\ StatusesAgree'
          /\ job'.status = status /\ job'.attempts = job.attempts
      BY <1>4, <1>8, <3>1, TerminalStep
    <3> QED BY <1>5, <1>8, <2>1, <3>2 DEF Dead
  <2>2. CASE ~(~Unsafe(cleaned) /\ Ended(n))
    <3>1. UNCHANGED <<job, command, target>>
      BY <1>9, <2>2
    <3>2. StatusesAgree'
      BY <3>1 DEF AInv, StatusesAgree, CommandOf, IntakeOf
    <3> QED BY <1>1, <1>4, <1>10, <3>1, <3>2
  <2> QED BY <2>1, <2>2
<1>12. /\ LastAttemptCounts' /\ ingress' \in [Attempts -> IngressRow]
       /\ \A m \in Attempts : Advances(m)
  BY <1>2, <1>3, <1>5, <1>6, <1>7, <1>11, SweepingStep
<1>13. FilesAreInPlace' /\ hand' \in [Workers -> HandRow]
  BY <1>2, <1>11, <1>12, RestingHands
<1>14. Typed'
  BY <1>1, <1>2, <1>11, <1>12, <1>13, AFacts, TypedAgain
<1>15. ReleaseIsSafe'
  BY <1>11 DEF ReleaseIsSafe
<1> QED BY <1>11, <1>12, <1>13, <1>14, <1>15 DEF AInv
-----------------------------------------------------------------------------
(* The theorems.                                                           *)

LEMMA InitInv == Init => AInv
<1> SUFFICES ASSUME Init PROVE AInv
  OBVIOUS
<1>1. /\ job = [status |-> "NONE", attempts |-> 0, left |-> 0, wait |-> 0]
      /\ row = [n \in Attempts |-> "NONE"] /\ ingress = [n \in Attempts |-> NoIngress]
      /\ command = [status |-> "NONE", retry |-> None] /\ receipt = None
      /\ target = [intake |-> "NONE", released |-> FALSE, asset |-> "UPLOADING",
                   document |-> "PENDING", inbox |-> "NEEDS_REVIEW", batch |-> "RUNNING"]
      /\ store = [live |-> FALSE, parts |-> {}, finals |-> {}, retired |-> FALSE, moved |-> {}, tomb |-> FALSE]
      /\ hand = [w \in Workers |-> Idle] /\ backoff = 0
  BY DEF Init, IngressInit
<1>2. Idle \in HandRow /\ Idle.phase = "idle"
  BY DEF Idle, Hand, HandRow
<1>3. NoIngress \in IngressRow /\ NoIngress.status = "NONE" /\ ~MayHaveFile(NoIngress)
  BY DEF NoIngress, IngressRow, MayHaveFile, Open, Given
<1>4. MaxAttempts \in Nat /\ None \notin Attempts
  BY IngressBounds DEF Attempts
<1>5. job \in JobRow
  BY <1>1, <1>4 DEF JobRow
<1>6. command \in CommandRow /\ target \in TargetRow /\ store \in StoreRow
  BY <1>1 DEF CommandRow, TargetRow, StoreRow
<1>7. Typed
  BY <1>1, <1>2, <1>3, <1>5, <1>6, TypedRows DEF RowStatuses
<1>8. StatusesAgree /\ ReleaseIsSafe
  BY <1>1 DEF StatusesAgree, CommandOf, IntakeOf, Dead, Fetching, ReleaseIsSafe
<1>9. LastAttemptCounts
  BY <1>1, <1>3, <1>4 DEF LastAttemptCounts, Open
<1>10. FilesAreInPlace
  BY <1>1, <1>2, <1>3 DEF FilesAreInPlace, HandIsSound, HandsAreApart, Filling, Streaming, Sweeping
<1> QED BY <1>7, <1>8, <1>9, <1>10 DEF AInv

LEMMA NextInv == AInv /\ [Next]_vars => AInv'
<1> SUFFICES ASSUME AInv, [Next]_vars PROVE AInv'
  OBVIOUS
<1>1. backoff \in Nat
  BY DEF AInv, Typed
<1>2. CASE UNCHANGED vars
  BY <1>1, <1>2, OutsideKeeps DEF vars
<1>3. CASE queueZoteroAttachmentImport
  BY <1>3, QueueKeeps
<1>4. ASSUME NEW to \in {"current", "suspended", "gone"}, AuthorityChanges(to)
      PROVE  AInv'
  BY <1>1, <1>4, OutsideKeeps DEF AuthorityChanges
<1>5. CASE OthersBackOff
  <2>1. RetryDelay + 1 \in Nat
    BY IngressBounds
  <2> QED BY <1>5, <2>1, OutsideKeeps DEF OthersBackOff
<1>6. CASE Tick
  BY <1>6, TickKeeps
<1>7. ASSUME NEW w \in Workers, CleansNext(w)
      PROVE  AInv'
  BY <1>7, ClaimCleanupKeeps DEF CleansNext
<1>8. ASSUME NEW w \in Workers, ClaimsNext(w)
      PROVE  AInv'
  BY <1>8, ClaimRefusedKeeps, ClaimPutOffKeeps, ClaimKeeps, ReapKeeps DEF ClaimsNext
<1>9. ASSUME NEW w \in Workers, Continues(w)
      PROVE  AInv'
  <2>1. CASE (Stream(w) \/ Sweep(w)) /\ Connection
    BY <2>1, StreamKeeps, SweepKeeps DEF Connection
  <2>2. CASE recordWrittenZoteroAttachmentDownload(w, TRUE) \/ completeZoteroAttachmentDownloadLease(w, TRUE)
    BY <2>2, RecordKeeps, CompleteKeeps
  <2>3. CASE LeaseLost(w) \/ FailureRefused(w) \/ CleanupIdle(w)
    <3>1. UNCHANGED backoff
      BY <2>3 DEF LeaseLost, FailureRefused, CleanupIdle, Rows
    <3> QED BY <2>3, <3>1, GivingUpKeeps
  <2>4. CASE \E wide \in BOOLEAN : failZoteroAttachmentDownloadLease(w, wide)
    BY <2>4, FailKeeps
  <2>5. CASE At(w, "failed") /\ \E n \in Attempts : ClaimCleanup(w, n)
    BY <2>5, ClaimCleanupKeeps
  <2>6. CASE CleanupPutOff(w) \/ CleanupCompletes(w)
    BY <2>6, CleanupPutOffKeeps, CleanupCompletesKeeps
  <2> QED BY <1>9, <2>1, <2>2, <2>3, <2>4, <2>5, <2>6 DEF Continues
<1>10. ASSUME NEW w \in Workers, heartbeatZoteroAttachmentDownloadLease(w)
       PROVE  AInv'
  BY <1>10, HeartbeatKeeps
<1>11. ASSUME NEW w \in Workers, GoesWrong(w)
       PROVE  AInv'
  <2>1. CASE (Crash(w) \/ TransactionFails(w)) /\ Connection
    BY <2>1, GivingUpKeeps DEF Connection
  <2>2. CASE SweepFails(w) /\ Connection
    BY <2>2, SweepKeeps DEF Connection
  <2>3. CASE (\E retryable \in BOOLEAN : ~Blocked(w) /\ StreamFails(w, retryable)) /\ Connection
    BY <2>3, StreamKeeps DEF Connection
  <2>4. CASE recordWrittenZoteroAttachmentDownload(w, FALSE) \/ completeZoteroAttachmentDownloadLease(w, FALSE)
    BY <2>4, RecordKeeps, CompleteKeeps
  <2> QED BY <1>11, <2>1, <2>2, <2>3, <2>4 DEF GoesWrong
<1> QED BY <1>2, <1>3, <1>4, <1>5, <1>6, <1>7, <1>8, <1>9, <1>10, <1>11 DEF Next

\* The rows, the files and what the workers hold agree, for any number of
\* workers and attempts and any lengths of the leases and delays.
THEOREM DownloadsInductive == Spec => []AInv
<1>1. Init => AInv
  BY InitInv
<1>2. AInv /\ [Next]_vars => AInv'
  BY NextInv
<1> QED BY <1>1, <1>2, PTL DEF Spec

\* The import, its job, its attempts and its target always tell the same
\* story, and a failed import is charged until its files are recorded as gone.
THEOREM StoriesStayAgreed == Spec => []StoryAgrees
<1>1. AInv => StoryAgrees
  <2> SUFFICES ASSUME AInv PROVE StoryAgrees
    OBVIOUS
  <2>1. /\ job \in JobRow /\ command \in CommandRow /\ target \in TargetRow /\ receipt \in Attempts \cup {None}
        /\ StatusesAgree /\ LastAttemptCounts /\ ReleaseIsSafe /\ Shapes
    BY TypedRows DEF AInv, Typed
  <2>2. \A n \in Attempts : ingress[n].status \in Open => job.status = "RUNNING" /\ job.attempts = n
    BY <2>1 DEF LastAttemptCounts, MayHaveFile
  <2>3. /\ command.status = "FAILED" <=> job.status \in {"FAILED", "DEAD_LETTER"}
        /\ command.status = "QUARANTINED" <=> job.status = "SUCCEEDED"
    BY <2>1 DEF StatusesAgree, CommandOf, JobRow, Waiting, Dead, Fetching
  <2>4. target.intake = (IF command.status = "DOWNLOADING" THEN "RECEIVING" ELSE command.status)
    BY <2>1 DEF StatusesAgree, CommandOf, IntakeOf, JobRow, Waiting, Dead, Fetching
  <2>5. ASSUME receipt # None
        PROVE  receipt \in store.finals /\ ~target.released
    <3>1. receipt \in Attempts /\ job.status = "SUCCEEDED"
      BY <2>1, <2>5 DEF LastAttemptCounts
    <3>2. ingress[receipt].status = "ADOPTED"
      BY <2>1, <3>1 DEF LastAttemptCounts
    <3> QED BY <2>1, <3>1, <3>2 DEF AInv, FilesAreInPlace, ReleaseIsSafe, Dead
  <2>6. QuotaIsHeldForFiles
    BY <2>1 DEF QuotaIsHeldForFiles, ReleaseIsSafe
  <2> QED BY <2>1, <2>2, <2>3, <2>4, <2>5, <2>6 DEF StoryAgrees, LastAttemptCounts
<1> QED BY <1>1, DownloadsInductive, PTL

\* Only a completion sets the receipt.
LEMMA ReceiptsAreSetByCompletion ==
  ASSUME [Next]_vars, receipt' # receipt
  PROVE  \E w \in Workers : Owns(hand[w].n)
<1>1. ASSUME NEW w \in Workers, Continues(w) \/ GoesWrong(w)
      PROVE  receipt' = receipt \/ Owns(hand[w].n)
  <2>1. Stream(w) => receipt' = receipt
    BY DEF Stream, StreamFails, ResolveNamespace, MakeDirectory, AdmitStream, OpenPart, SealPart, LinkFinal, UnlinkPart,
           FileUnchanged, ingressRows
  <2>2. (\E retryable \in BOOLEAN : ~Blocked(w) /\ StreamFails(w, retryable)) => receipt' = receipt
    BY DEF StreamFails, ingressRows
  <2>3. Sweep(w) \/ SweepFails(w) => receipt' = receipt
    BY DEF Sweep, RemoveFinal, RemoveParts, SweepFails, FileUnchanged, ingressRows
  <2>4. \A answered \in BOOLEAN : recordWrittenZoteroAttachmentDownload(w, answered) => receipt' = receipt
    BY DEF recordWrittenZoteroAttachmentDownload
  <2>5. \A answered \in BOOLEAN : completeZoteroAttachmentDownloadLease(w, answered) => Owns(hand[w].n)
    BY DEF completeZoteroAttachmentDownloadLease
  <2>6. LeaseLost(w) \/ FailureRefused(w) \/ CleanupIdle(w) => receipt' = receipt
    BY DEF LeaseLost, FailureRefused, CleanupIdle, Rows, ingressRows
  <2>7. (\E wide \in BOOLEAN : failZoteroAttachmentDownloadLease(w, wide)) => receipt' = receipt
    BY DEF failZoteroAttachmentDownloadLease
  <2>8. (\E n \in Attempts : ClaimCleanup(w, n)) => receipt' = receipt
    BY DEF ClaimCleanup
  <2>9. CleanupPutOff(w) \/ CleanupCompletes(w) => receipt' = receipt
    BY DEF CleanupPutOff, CleanupCompletes
  <2>10. Crash(w) \/ TransactionFails(w) => receipt' = receipt
    BY DEF Crash, TransactionFails, ingressRows
  <2> QED BY <1>1, <2>1, <2>2, <2>3, <2>4, <2>5, <2>6, <2>7, <2>8, <2>9, <2>10 DEF Continues, GoesWrong
<1>2. ASSUME NEW w \in Workers, CleansNext(w) \/ ClaimsNext(w) \/ heartbeatZoteroAttachmentDownloadLease(w)
      PROVE  receipt' = receipt
  BY <1>2 DEF CleansNext, ClaimCleanup, ClaimsNext, ClaimRefused, ClaimPutOff, claimNextZoteroAttachmentDownloadJob,
              reapExpiredDownloadLease, heartbeatZoteroAttachmentDownloadLease
<1>3. (queueZoteroAttachmentImport \/ OthersBackOff \/ Tick \/ UNCHANGED vars
        \/ \E to \in {"current", "suspended", "gone"} : AuthorityChanges(to)) => receipt' = receipt
  BY DEF queueZoteroAttachmentImport, OthersBackOff, Tick, TickJob, AuthorityChanges, vars, ingressRows
<1> QED BY <1>1, <1>2, <1>3 DEF Next

\* Bytes are adopted only while the authority they were asked for stands,
\* whatever happened to it while they were on the way.
THEOREM NothingIsEverAdoptedStale == Spec => NothingIsAdoptedStale
<1>1. [Next]_vars => [receipt' # receipt => authority = "current"]_vars
  BY ReceiptsAreSetByCompletion DEF Owns, FetchAuthority, TargetWaits
<1> QED BY <1>1, PTL DEF Spec, NothingIsAdoptedStale

\* A step of worker v moves no other worker.
OnlyMoves(v) == \A w \in Workers \ {v} : hand'[w] = hand[w]

LEMMA FileStepsAreOwn ==
  ASSUME hand \in [Workers -> HandRow], NEW v \in Workers,
         \/ Stream(v) \/ Sweep(v) \/ SweepFails(v) \/ Crash(v) \/ TransactionFails(v)
         \/ LeaseLost(v) \/ FailureRefused(v) \/ CleanupIdle(v)
         \/ \E retryable \in BOOLEAN : StreamFails(v, retryable)
  PROVE  OnlyMoves(v) /\ UNCHANGED ingressRows
<1>1. \A phase : Goes(v, phase) => OnlyMoves(v)
  BY DEF Goes, OnlyMoves
<1>2. Rests(v) => OnlyMoves(v)
  BY DEF Rests, OnlyMoves
<1>3. ASSUME NEW retryable \in BOOLEAN, hand' = [hand EXCEPT ![v].phase = "failing", ![v].retryable = retryable]
      PROVE  OnlyMoves(v)
  <2> DEFINE h == [hand[v] EXCEPT !.phase = "failing", !.retryable = retryable]
  <2>1. hand' = [hand EXCEPT ![v] = h]
    BY <1>3, Zenon
  <2> HIDE DEF h
  <2> QED BY <2>1 DEF OnlyMoves
<1>4. CASE \E retryable \in BOOLEAN : StreamFails(v, retryable)
  <2>1. PICK retryable \in BOOLEAN : StreamFails(v, retryable)
    BY <1>4
  <2>2. hand' = [hand EXCEPT ![v].phase = "failing", ![v].retryable = retryable] /\ UNCHANGED ingressRows
    BY <2>1 DEF StreamFails
  <2> QED BY <2>2, <1>3
<1>5. CASE TransactionFails(v) \/ LeaseLost(v)
  <2>1. UNCHANGED ingressRows
    BY <1>5 DEF TransactionFails, LeaseLost, Rows
  <2>2. \E r \in BOOLEAN : hand' = [hand EXCEPT ![v].phase = "failing", ![v].retryable = r]
    BY <1>5 DEF TransactionFails, LeaseLost
  <2> QED BY <2>1, <2>2, <1>3
<1>6. CASE Crash(v) \/ FailureRefused(v) \/ CleanupIdle(v)
  BY <1>2, <1>6 DEF Crash, FailureRefused, CleanupIdle, Rows
<1>7. CASE Sweep(v) \/ SweepFails(v)
  BY <1>1, <1>7 DEF Sweep, RemoveFinal, RemoveParts, SweepFails, FileUnchanged
<1>8. CASE ResolveNamespace(v) \/ MakeDirectory(v) \/ AdmitStream(v) \/ OpenPart(v) \/ SealPart(v) \/ LinkFinal(v)
           \/ UnlinkPart(v)
  BY <1>1, <1>8 DEF ResolveNamespace, MakeDirectory, AdmitStream, OpenPart, SealPart, LinkFinal, UnlinkPart, FileUnchanged
<1> QED BY <1>4, <1>5, <1>6, <1>7, <1>8 DEF Stream

\* A worker whose lease has run out, or whose attempt was reaped, finishes
\* without writing a row.
THEOREM OvertakenWorkersWriteNothing == Spec => OvertakenDownloadsChangeNothing
<1> DEFINE Harmless == \A w \in Workers :
              hand[w].phase \in Executing /\ ~Leased(hand[w].n) /\ hand'[w] # hand[w]
                => UNCHANGED <<ingressRows, backoff>>
<1>1. AInv /\ [Next]_vars => Harmless
  <2> SUFFICES ASSUME AInv, [Next]_vars, NEW w \in Workers, hand[w].phase \in Executing,
                      ~Leased(hand[w].n), hand'[w] # hand[w]
               PROVE  UNCHANGED <<ingressRows, backoff>>
    OBVIOUS
  <2>1. hand \in [Workers -> HandRow]
    BY TypedRows DEF AInv
  <2>2. ~Owns(hand[w].n) /\ ~Holds(hand[w].n)
    BY DEF Owns, Holds
  <2>3. hand[w].phase \notin {"idle", "failed"} \cup Sweeping
    BY DEF Executing, Streaming, Sweeping
  <2>4. ASSUME NEW v \in Workers, UNCHANGED backoff,
               \/ Stream(v) \/ Sweep(v) \/ SweepFails(v) \/ Crash(v) \/ TransactionFails(v)
               \/ LeaseLost(v) \/ FailureRefused(v) \/ CleanupIdle(v)
               \/ \E retryable \in BOOLEAN : StreamFails(v, retryable)
        PROVE  UNCHANGED <<ingressRows, backoff>>
    BY <2>1, <2>4, FileStepsAreOwn
  <2>5. ASSUME NEW v \in Workers, NEW answered \in BOOLEAN,
               \/ recordWrittenZoteroAttachmentDownload(v, answered)
               \/ completeZoteroAttachmentDownloadLease(v, answered)
        PROVE  FALSE
    <3>1. v # w
      BY <2>2, <2>5 DEF recordWrittenZoteroAttachmentDownload, completeZoteroAttachmentDownloadLease
    <3>2. Rests(v) \/ Goes(v, "written") \/ Goes(v, "failing")
      BY <2>5 DEF recordWrittenZoteroAttachmentDownload, completeZoteroAttachmentDownloadLease
    <3> QED BY <2>1, <3>1, <3>2 DEF Rests, Goes
  <2>6. ASSUME NEW v \in Workers, NEW wide \in BOOLEAN, failZoteroAttachmentDownloadLease(v, wide)
        PROVE  FALSE
    <3>1. v # w /\ Goes(v, "failed")
      BY <2>2, <2>6 DEF failZoteroAttachmentDownloadLease
    <3> QED BY <2>1, <3>1 DEF Goes
  <2>7. ASSUME NEW v \in Workers, NEW n \in Attempts, ClaimCleanup(v, n)
        PROVE  FALSE
    <3>1. v # w /\ hand' = [hand EXCEPT ![v] = Hand("sweeping", n, ingress[n].tries + 1, TRUE)]
      BY <2>3, <2>7 DEF ClaimCleanup, At
    <3> QED BY <2>1, <3>1
  <2>8. ASSUME NEW v \in Workers, CleanupPutOff(v) \/ CleanupCompletes(v)
        PROVE  FALSE
    <3>1. v # w /\ Rests(v)
      BY <2>3, <2>8 DEF CleanupPutOff, CleanupCompletes, At, Sweeping
    <3> QED BY <2>1, <3>1 DEF Rests
  <2>9. ASSUME NEW v \in Workers, ClaimsNext(v) \/ heartbeatZoteroAttachmentDownloadLease(v)
        PROVE  FALSE
    <3>1. hand' # hand
      OBVIOUS
    <3>2. claimNextZoteroAttachmentDownloadJob(v)
      BY <2>9, <3>1 DEF ClaimsNext, ClaimRefused, ClaimPutOff, reapExpiredDownloadLease,
                        heartbeatZoteroAttachmentDownloadLease
    <3>3. v # w /\ hand' = [hand EXCEPT ![v] = Hand("fetching", job.attempts + 1, 0, TRUE)]
      BY <2>3, <3>2 DEF claimNextZoteroAttachmentDownloadJob, At
    <3> QED BY <2>1, <3>3
  <2>10. ASSUME UNCHANGED vars \/ queueZoteroAttachmentImport \/ OthersBackOff \/ Tick
                  \/ \E to \in {"current", "suspended", "gone"} : AuthorityChanges(to)
         PROVE  FALSE
    BY <2>10 DEF vars, queueZoteroAttachmentImport, OthersBackOff, Tick, TickJob, AuthorityChanges
  <2>11. ASSUME NEW v \in Workers, Continues(v)
         PROVE  UNCHANGED <<ingressRows, backoff>>
    <3>1. LeaseLost(v) \/ FailureRefused(v) \/ CleanupIdle(v) => UNCHANGED backoff
      BY DEF LeaseLost, FailureRefused, CleanupIdle, Rows
    <3> QED BY <2>4, <2>5, <2>6, <2>7, <2>8, <2>11, <3>1 DEF Continues, Connection
  <2>12. ASSUME NEW v \in Workers, GoesWrong(v)
         PROVE  UNCHANGED <<ingressRows, backoff>>
    BY <2>4, <2>5, <2>12 DEF GoesWrong, Connection
  <2>13. ASSUME NEW v \in Workers, CleansNext(v)
         PROVE  FALSE
    BY <2>7, <2>13 DEF CleansNext
  <2> QED BY <2>9, <2>10, <2>11, <2>12, <2>13 DEF Next
<1>2. Spec => []AInv
  BY DownloadsInductive
<1>3. AInv /\ [Next]_vars => [Harmless]_vars
  BY <1>1
<1> HIDE DEF Harmless
<1>4. Spec => [][Harmless]_vars
  BY <1>2, <1>3, PTL DEF Spec
<1> QED BY <1>4 DEF Harmless, OvertakenDownloadsChangeNothing
=============================================================================
