-------------------------- MODULE ZoteroSyncProofs --------------------------
(***************************************************************************)
(* Proofs about the metadata sync: its rows tell one story, an overtaken   *)
(* pass changes nothing, the workspace's copy of a library is the library  *)
(* at one version, and the sync implements LibraryMirror.                  *)
(***************************************************************************)
EXTENDS ZoteroSyncProperties, TLAPS

-----------------------------------------------------------------------------
(* The inductive invariant.                                                *)

JobRow == [status : {"NONE"} \cup ActiveJob \cup Terminal, run : Nat, attempts : Nat, max : Nat,
           lease : Nat, by : Workers \cup {None}, expired : BOOLEAN, held : BOOLEAN]
RunRow == [status : ActiveRun \cup {"SUCCEEDED", "FAILED"}, from : 0..MaxVersion]
LibraryRow == [enabled : BOOLEAN, readable : BOOLEAN, cursor : 0..MaxVersion]
Pairs == Keys \X (1..MaxVersion)
FailureRow == [code : Codes \cup {"other", "credential"}, retryable : BOOLEAN, backoff : BOOLEAN]
PassRow == [phase : Reading \cup {"commit", "failing"}, lib : Libraries, run : 1..MaxRuns, lease : Nat,
            from : 0..MaxVersion, observed : 0..MaxVersion, manifest : SUBSET Pairs, todo : SUBSET Pairs,
            buffer : SUBSET StageRows, failure : {None} \cup FailureRow]

Typed ==
  /\ history \in [Libraries -> Seq([Keys -> Objects])] /\ \A l \in Libraries : Version(l) <= MaxVersion
  /\ connection \in [status : {"ACTIVE", "REVOKED", "DISCONNECTED"}, backoff : BOOLEAN]
  /\ seen \subseteq Workers /\ library \in [Libraries -> LibraryRow]
  /\ mirror \in [Libraries -> [Keys -> Objects]]
  /\ inbox \in [Libraries -> [Items -> {"NONE", "PENDING", "WITHDRAWN", "IMPORTED"}]]
  /\ job \in [Libraries -> JobRow] /\ ledger \in [Libraries -> Seq({"RUNNING"} \cup Terminal)]
  /\ runs \in [Libraries -> Seq(RunRow)] /\ stages \in [Libraries -> SUBSET StageRows]
  /\ worker \in [Workers -> {Idle} \cup PassRow]
  /\ \A w \in Workers : worker[w].phase = "failing" => worker[w].failure \in FailureRow
  /\ refresh \in {"idle", "asking", "stale"} /\ asks \in 0..MaxAsks

\* The provider's history: an object carries the version of its last change.
HistoryIsTrue ==
  \A l \in Libraries : \A v \in 0..Version(l), k \in Keys :
    LET object == At(l, v)[k] IN
    /\ object.ver <= v /\ object.kind \in Live(k) \cup {"gone", "absent"}
    /\ object.ver > 0 => object.kind # "absent"
    /\ \A u \in 0..v : object.ver <= u => object = At(l, u)[k]

\* The rows of one library.
BooksAgree(l) ==
  LET j == job[l] IN
  /\ j.run = Len(runs[l]) /\ j.run <= MaxRuns /\ (j.status # "NONE" => j.run > 0)
  /\ j.attempts = Len(ledger[l]) /\ j.attempts <= j.max /\ j.max <= Budget * j.run
  /\ j.lease <= j.attempts
  /\ \A r \in 1..Len(runs[l]) :
       runs[l][r].status \in ActiveRun => r = j.run /\ j.status \in ActiveJob
  /\ j.status \in ActiveJob => runs[l][j.run].status \in ActiveRun
  /\ j.status = "RUNNING" =>
       /\ j.lease = j.attempts /\ j.lease > 0 /\ ledger[l][j.lease] = "RUNNING"
       /\ runs[l][j.run] = [status |-> "RUNNING", from |-> library[l].cursor]
  /\ \A s \in stages[l] :
       s.run = j.run /\ j.status \in ActiveJob /\ \A t \in stages[l] : t.key = s.key => t = s
  /\ library[l].cursor <= Version(l)

\* The lease is worker w's, expired or not.
Holds(w) ==
  LET j == job[worker[w].lib] IN
  Working(w) /\ j.status = "RUNNING" /\ j.by = w /\ j.lease = worker[w].lease

\* What worker w knows of an object, and the row it stages for it.
Seen(w, k) == At(worker[w].lib, worker[w].observed)[k]
Fresh(w, k) == Seen(w, k).ver > worker[w].from /\ Seen(w, k).kind \in Live(k)
TrueRow(w, k) ==
  Row(worker[w].run, k,
      IF Seen(w, k).kind \in Live(k) THEN Seen(w, k) ELSE Object(worker[w].observed, "gone"))
Gathered(w) == stages[worker[w].lib] \cup worker[w].buffer
Has(w, k) == \E s \in Gathered(w) : s.key = k
Awaits(w, k) == <<k, Seen(w, k).ver>> \in worker[w].todo

\* What a pass has read, by phase: all rows are those of one version, and what
\* is missing is still to be read.
ReadSoFar(w) ==
  LET h == worker[w] IN
  /\ h.phase \in {"items", "collections"} => Gathered(w) = {}
  /\ h.phase = "collections" =>
       \A k \in Items : Fresh(w, k) => <<k, Seen(w, k).ver>> \in h.manifest
  /\ h.phase = "bodies" => \A k \in Keys : Fresh(w, k) => Awaits(w, k) \/ Has(w, k)
  /\ h.phase = "deletions" => \A k \in Keys : Fresh(w, k) => Has(w, k)
  /\ h.phase = "commit" => \A k \in Keys : Seen(w, k).ver > h.from => Has(w, k)
  /\ h.phase # "failing" => \A s \in Gathered(w) : s = TrueRow(w, s.key)

HandAgrees(w) ==
  LET h == worker[w] IN
  Working(w) =>
    /\ h.lease <= job[h.lib].attempts /\ h.from <= Version(h.lib) /\ h.observed <= Version(h.lib)
    /\ h.phase \notin {"items", "failing"} => h.from <= h.observed
    /\ Holds(w) => h.run = job[h.lib].run /\ h.from = library[h.lib].cursor /\ ReadSoFar(w)

SInv ==
  /\ Typed /\ HistoryIsTrue
  /\ \A l \in Libraries : BooksAgree(l)
  /\ \A w \in Workers : HandAgrees(w)
  /\ SnapshotExact /\ InboxFollowsSource
-----------------------------------------------------------------------------
(* Types, and what a worker's hand depends on.                             *)

LEMMA PassTyped ==
  ASSUME Typed, NEW w \in Workers, Working(w)
  PROVE  worker[w] \in PassRow
BY DEF Typed, Working, Idle

LEMMA VersionTyped ==
  ASSUME Typed, NEW l \in Libraries
  PROVE  Version(l) \in 0..MaxVersion
BY SyncBoundsAssumption DEF Typed, Version

LEMMA AtTyped ==
  ASSUME Typed, NEW l \in Libraries, NEW v \in 0..Version(l)
  PROVE  At(l, v) \in [Keys -> Objects]
<1>1. CASE v = 0
  BY <1>1, SyncBoundsAssumption DEF At, Nothing, Object, Objects, Kinds
<1>2. CASE v # 0
  <2>1. history[l] \in Seq([Keys -> Objects]) /\ v \in 1..Len(history[l])
    BY <1>2, VersionTyped DEF Typed, Version
  <2> QED BY <1>2, <2>1 DEF At
<1> QED BY <1>1, <1>2

\* A worker whose lease is current holds it.
LEMMA CurrentHolds ==
  ASSUME NEW w \in Workers, Working(w), LeaseIsCurrent(w)
  PROVE  Holds(w)
BY DEF LeaseIsCurrent, LeaseHeld, Holds

\* Two workers never hold the lease of one library.
LEMMA OneHolder ==
  ASSUME NEW w \in Workers, NEW v \in Workers, Holds(w), Holds(v), worker[w].lib = worker[v].lib
  PROVE  w = v
BY DEF Holds

\* What a worker has in hand stays as true as it was when the step leaves its
\* memory, the versions it read and, as long as it holds the lease, the run,
\* the cursor and the staged rows alone.
LEMMA HandKept ==
  ASSUME NEW w \in Workers, HandAgrees(w), worker'[w] = worker[w],
         Working(w) =>
           LET l == worker[w].lib IN
           /\ job[l].attempts \in Nat /\ job'[l].attempts \in Nat
           /\ job[l].attempts <= job'[l].attempts /\ worker[w].lease \in Nat
           /\ Version(l) \in Nat /\ Version(l)' \in Nat /\ Version(l) <= Version(l)'
           /\ worker[w].from \in Nat /\ worker[w].observed \in Nat
           /\ \A v \in 0..Version(l) : At(l, v)' = At(l, v),
         Working(w) /\ Holds(w)' =>
           LET l == worker[w].lib IN
           /\ Holds(w) /\ job'[l].run = job[l].run
           /\ library'[l].cursor = library[l].cursor /\ stages'[l] = stages[l]
  PROVE  HandAgrees(w)'
<1> SUFFICES ASSUME Working(w)'
             PROVE  HandAgrees(w)'
  BY DEF HandAgrees
<1> DEFINE l == worker[w].lib
<1>1. Working(w)
  BY DEF Working
<1>2. worker'[w].lease <= job'[l].attempts /\ worker'[w].from <= Version(l)'
      /\ worker'[w].observed <= Version(l)'
  BY <1>1 DEF HandAgrees
<1>3. worker'[w].phase \notin {"items", "failing"} => worker'[w].from <= worker'[w].observed
  BY <1>1 DEF HandAgrees
<1>4. ASSUME Holds(w)'
      PROVE  worker'[w].run = job'[l].run /\ worker'[w].from = library'[l].cursor /\ ReadSoFar(w)'
  <2>1. Holds(w) /\ job'[l].run = job[l].run /\ library'[l].cursor = library[l].cursor
        /\ stages'[l] = stages[l]
    BY <1>1, <1>4
  <2>2. worker[w].run = job[l].run /\ worker[w].from = library[l].cursor /\ ReadSoFar(w)
        /\ worker[w].observed <= Version(l)
    BY <1>1, <2>1 DEF HandAgrees
  <2>3. At(l, worker[w].observed)' = At(l, worker[w].observed)
    <3>1. At(l, worker[w].observed)' = (IF worker[w].observed' = 0 THEN Nothing
                                          ELSE history'[worker[w].lib'][worker[w].observed'])
      BY DEF At, Nothing, Object
    <3>2. \A v \in 0..Version(l) : (IF v = 0 THEN Nothing ELSE history'[l][v]) = At(l, v)
      BY <1>1 DEF At, Nothing, Object
    <3> QED BY <1>1, <2>2, <3>1, <3>2
  <2>4. \A k : Seen(w, k)' = Seen(w, k)
    BY <2>3 DEF Seen
  <2>5. Gathered(w)' = Gathered(w)
    BY <2>1 DEF Gathered
  <2>6. \A k : (Fresh(w, k)' <=> Fresh(w, k)) /\ TrueRow(w, k)' = TrueRow(w, k)
               /\ (Awaits(w, k)' <=> Awaits(w, k))
    BY <2>4 DEF Fresh, TrueRow, Awaits, Row, Object, Live
  <2>7. \A k : Has(w, k)' <=> Has(w, k)
    BY <2>5 DEF Has
  <2>8. ReadSoFar(w)'
    BY <2>2, <2>4, <2>5, <2>6, <2>7 DEF ReadSoFar
  <2> QED BY <2>1, <2>2, <2>8
<1> QED BY <1>2, <1>3, <1>4 DEF HandAgrees

\* The rows of a library agree after a step that leaves them alone.
LEMMA BooksKept ==
  ASSUME NEW l \in Libraries, BooksAgree(l), job'[l] = job[l], runs'[l] = runs[l],
         ledger'[l] = ledger[l], stages'[l] = stages[l],
         library'[l].cursor = library[l].cursor, library[l].cursor \in Nat,
         Version(l) \in Nat, Version(l)' \in Nat, Version(l) <= Version(l)'
  PROVE  BooksAgree(l)'
<1>1. library'[l].cursor <= Version(l)'
  BY DEF BooksAgree
<1>2. QED
  BY <1>1 DEF BooksAgree

\* The copy and the inbox are as true as they were after a step that leaves
\* them, the provider and the cursors alone.
LEMMA CopyKept ==
  ASSUME SInv, history' = history, mirror' = mirror, inbox' = inbox,
         \A l \in Libraries : library'[l].cursor = library[l].cursor
  PROVE  HistoryIsTrue' /\ SnapshotExact' /\ InboxFollowsSource'
<1>1. HistoryIsTrue'
  <2>1. \A l, v : At(l, v)' = At(l, v)
    BY DEF At, Nothing, Object
  <2>2. \A l : Version(l)' = Version(l)
    BY DEF Version
  <2> SUFFICES ASSUME NEW l \in Libraries, NEW v \in 0..Version(l), NEW k \in Keys
               PROVE  LET object == At(l, v)[k] IN
                      /\ object.ver <= v /\ object.kind \in Live(k) \cup {"gone", "absent"}
                      /\ object.ver > 0 => object.kind # "absent"
                      /\ \A u \in 0..v : object.ver <= u => object = At(l, u)[k]
    BY <2>1, <2>2 DEF HistoryIsTrue, Live
  <2> QED BY DEF SInv, HistoryIsTrue
<1>2. SnapshotExact'
  <2> SUFFICES ASSUME NEW l \in Libraries, NEW k \in Keys
               PROVE  LET source == At(l, library[l].cursor)'[k] IN
                      IF source.kind \in Live(k) THEN mirror[l][k] = source
                      ELSE mirror[l][k].kind \in {"absent", "gone"}
    BY Zenon DEF SnapshotExact, Live
  <2>1. At(l, library[l].cursor)' = At(l, library[l].cursor)
    BY DEF At, Nothing, Object
  <2> QED BY <2>1 DEF SInv, SnapshotExact
<1>3. InboxFollowsSource'
  BY Zenon DEF SInv, InboxFollowsSource, Live
<1> QED BY <1>1, <1>2, <1>3

\* What is known of a worker and the library it works on.
LEMMA HandTyped ==
  ASSUME Typed, NEW w \in Workers, Working(w)
  PROVE  /\ worker[w].lib \in Libraries /\ worker[w].lease \in Nat /\ worker[w].run \in 1..MaxRuns
         /\ worker[w].from \in 0..MaxVersion /\ worker[w].observed \in 0..MaxVersion
         /\ worker[w].phase \in Reading \cup {"commit", "failing"}
         /\ job[worker[w].lib] \in JobRow /\ library[worker[w].lib] \in LibraryRow
         /\ Version(worker[w].lib) \in 0..MaxVersion
         /\ worker[w].manifest \subseteq Pairs /\ worker[w].todo \subseteq Pairs
         /\ worker[w].buffer \subseteq StageRows /\ stages[worker[w].lib] \subseteq StageRows
<1>1. worker[w] \in PassRow
  BY PassTyped
<1>2. worker[w].lib \in Libraries
  BY <1>1 DEF PassRow
<1>3. Version(worker[w].lib) \in 0..MaxVersion
  BY <1>2, VersionTyped
<1> QED BY <1>1, <1>2, <1>3 DEF PassRow, Typed

\* A step that changes one worker's memory only.
LEMMA PassStep ==
  ASSUME SInv, NEW w \in Workers, NEW h, worker' = [worker EXCEPT ![w] = h],
         h = Idle \/ (h \in PassRow /\ (h.phase = "failing" => h.failure \in FailureRow)),
         HandAgrees(w)',
         UNCHANGED <<history, database, refresh>>, asks' \in 0..MaxAsks
  PROVE  SInv'
<1> USE DEF database
<1>1. Typed'
  <2>1. worker' \in [Workers -> {Idle} \cup PassRow]
    BY Zenon DEF SInv, Typed
  <2>2. ASSUME NEW v \in Workers, worker'[v].phase = "failing"
        PROVE  worker'[v].failure \in FailureRow
    <3>1. CASE v = w
      BY <2>2, <3>1 DEF SInv, Typed, Idle
    <3>2. CASE v # w
      BY <2>2, <3>2 DEF SInv, Typed
    <3> QED BY <3>1, <3>2
  <2>3. (\A l \in Libraries : Version(l) <= MaxVersion)'
    BY DEF SInv, Typed, Version
  <2> QED BY <2>1, <2>2, <2>3 DEF SInv, Typed
<1>2. HistoryIsTrue' /\ SnapshotExact' /\ InboxFollowsSource'
  BY CopyKept
<1>3. ASSUME NEW l \in Libraries
      PROVE  BooksAgree(l)'
  <2>1. Version(l) \in Nat /\ Version(l)' = Version(l) /\ library[l].cursor \in Nat
    BY VersionTyped, SyncBoundsAssumption DEF SInv, Version, Typed, LibraryRow
  <2> QED BY <2>1, BooksKept DEF SInv
<1>4. ASSUME NEW v \in Workers
      PROVE  HandAgrees(v)'
  <2>1. CASE v = w
    BY <2>1
  <2>2. CASE v # w
    <3>1. worker'[v] = worker[v] /\ HandAgrees(v)
      BY <2>2 DEF SInv, Typed
    <3>2. ASSUME Working(v)
          PROVE  LET l == worker[v].lib IN
                 /\ job[l].attempts \in Nat /\ job'[l].attempts \in Nat
                 /\ job[l].attempts <= job'[l].attempts /\ worker[v].lease \in Nat
                 /\ Version(l) \in Nat /\ Version(l)' \in Nat /\ Version(l) <= Version(l)'
                 /\ worker[v].from \in Nat /\ worker[v].observed \in Nat
                 /\ \A u \in 0..Version(l) : At(l, u)' = At(l, u)
      <4>1. Version(worker[v].lib)' = Version(worker[v].lib)
            /\ \A u : At(worker[v].lib, u)' = At(worker[v].lib, u)
        BY <3>1 DEF Version, At, Nothing, Object
      <4>2. job[worker[v].lib].attempts \in Nat /\ job'[worker[v].lib].attempts = job[worker[v].lib].attempts
        BY <3>2, HandTyped DEF SInv, JobRow
      <4> QED BY <3>2, <4>1, <4>2, HandTyped, SyncBoundsAssumption DEF SInv
    <3>3. ASSUME Working(v), Holds(v)'
          PROVE  LET l == worker[v].lib IN
                 /\ Holds(v) /\ job'[l].run = job[l].run
                 /\ library'[l].cursor = library[l].cursor /\ stages'[l] = stages[l]
      BY <3>1, <3>3 DEF Holds, Working
    <3> QED BY <3>1, <3>2, <3>3, HandKept
  <2> QED BY <2>1, <2>2
<1> QED BY <1>1, <1>2, <1>3, <1>4 DEF SInv
-----------------------------------------------------------------------------
(* The steps of a pass that change the worker's memory only.               *)

LEMMA IdleStep ==
  ASSUME SInv, NEW w \in Workers, GoIdle(w), UNCHANGED <<history, database, refresh, asks>>
  PROVE  SInv'
<1>1. HandAgrees(w)'
  BY DEF HandAgrees, Working, GoIdle, Idle, SInv, Typed
<1> QED
  BY <1>1, PassStep DEF GoIdle, SInv, Typed

LEMMA FailingStep ==
  ASSUME SInv, NEW w \in Workers, Working(w), NEW f \in FailureRow, Fails(w, f),
         UNCHANGED <<history, database, refresh>>, asks' \in 0..MaxAsks
  PROVE  SInv'
<1> DEFINE h == [worker[w] EXCEPT !.phase = "failing", !.failure = f]
<1> USE DEF database
<1>1. worker' = [worker EXCEPT ![w] = h]
  BY Zenon DEF Fails
<1>2. worker[w] \in PassRow /\ h \in PassRow /\ h.phase = "failing" /\ h.failure \in FailureRow
      /\ h.lib = worker[w].lib /\ h.run = worker[w].run /\ h.lease = worker[w].lease
      /\ h.from = worker[w].from /\ h.observed = worker[w].observed
  BY PassTyped DEF PassRow, SInv
<1>3. worker'[w] = h
  BY <1>1 DEF SInv, Typed
<1> HIDE DEF h
<1>4. HandAgrees(w)'
  <2>1. HandAgrees(w) /\ Version(worker[w].lib)' = Version(worker[w].lib)
    BY <1>1, <1>2, <1>3 DEF SInv, Version
  <2>2. ReadSoFar(w)'
    BY <1>2, <1>3 DEF ReadSoFar
  <2>3. Holds(w)' => Holds(w)
    BY <1>2, <1>3 DEF Holds
  <2> QED BY <1>2, <1>3, <2>1, <2>2, <2>3 DEF HandAgrees, Version
<1> QED BY <1>1, <1>2, <1>4, PassStep

LEMMA ListItemsStep ==
  ASSUME SInv, NEW w \in Workers, ListItems(w)
  PROVE  SInv'
<1> USE DEF database
<1> DEFINE l == worker[w].lib
           manifest == Changed(l, worker[w].from, Items)
           h == [worker[w] EXCEPT !.phase = "collections", !.observed = Version(l),
                                  !.manifest = manifest]
<1>1. worker' = [worker EXCEPT ![w] = h] /\ UNCHANGED <<history, database, refresh, asks>>
  BY Zenon DEF ListItems, Advance
<1>2. worker[w].phase = "items" /\ worker[w].buffer = {} /\ Working(w)
  BY DEF ListItems, Requests, Working
<1>3. l \in Libraries /\ Version(l) \in 0..MaxVersion /\ worker[w].from \in 0..MaxVersion
  BY <1>2, HandTyped DEF SInv
<1>4. manifest \subseteq Pairs
  <2> SUFFICES ASSUME NEW k \in Items, Now(l, k).ver > worker[w].from
               PROVE  <<k, Now(l, k).ver>> \in Pairs
    BY DEF Changed
  <2>1. Now(l, k) \in Objects
    BY <1>3, AtTyped, SyncBoundsAssumption DEF Now, Keys, SInv
  <2> QED BY <1>3, <2>1, SyncBoundsAssumption DEF Objects, Pairs, Keys
<1> HIDE DEF manifest
<1>5. h \in PassRow /\ h.phase = "collections" /\ h.observed = Version(l)
      /\ h.lib = worker[w].lib /\ h.run = worker[w].run /\ h.lease = worker[w].lease
      /\ h.from = worker[w].from /\ h.manifest = manifest /\ h.buffer = {}
  BY <1>2, <1>3, <1>4, PassTyped DEF PassRow, SInv, Reading
<1>6. worker'[w] = h
  BY <1>1 DEF SInv, Typed
<1> HIDE DEF h
<1>7. HandAgrees(w)'
  <2>1. HandAgrees(w) /\ Version(l)' = Version(l)
    BY <1>1, <1>5, <1>6 DEF SInv, Version
  <2>2. worker'[w].lease <= job'[l].attempts /\ worker'[w].from <= Version(l)'
        /\ worker'[w].observed <= Version(l)' /\ worker'[w].from <= worker'[w].observed
    BY <1>1, <1>2, <1>3, <1>5, <1>6, <2>1 DEF HandAgrees
  <2>3. ASSUME Holds(w)'
        PROVE  worker'[w].run = job'[l].run /\ worker'[w].from = library'[l].cursor /\ ReadSoFar(w)'
    <3>1. Holds(w)
      BY <1>1, <1>2, <1>5, <1>6, <2>3 DEF Holds
    <3>2. ReadSoFar(w) /\ worker[w].run = job[l].run /\ worker[w].from = library[l].cursor
      BY <1>2, <2>1, <3>1 DEF HandAgrees
    <3>3. Gathered(w)' = {}
      BY <1>1, <1>2, <1>5, <1>6, <3>2 DEF ReadSoFar, Gathered
    <3>4. \A k : Seen(w, k)' = Now(l, k)
      BY <1>1, <1>5, <1>6 DEF Seen, Now, At, Version, Nothing, Object
    <3>5. \A k \in Items : Fresh(w, k)' => <<k, Seen(w, k)'>> = <<k, Now(l, k)>>
                                           /\ <<k, Now(l, k).ver>> \in manifest
      BY <1>5, <1>6, <3>4 DEF Fresh, manifest, Changed, Live
    <3>6. ReadSoFar(w)'
      BY <1>5, <1>6, <3>3, <3>4, <3>5 DEF ReadSoFar
    <3> QED BY <1>1, <1>5, <1>6, <3>2, <3>6
  <2> QED BY <1>5, <1>6, <2>2, <2>3 DEF HandAgrees
<1>8. asks' \in 0..MaxAsks
  BY <1>1 DEF SInv, Typed
<1> QED BY <1>1, <1>5, <1>7, <1>8, PassStep

\* A later answer of the same pass: the library has not moved.
LEMMA ReadingStep ==
  ASSUME SInv, NEW w \in Workers, Working(w), worker[w].phase \notin {"items", "failing"},
         NEW h \in PassRow, worker' = [worker EXCEPT ![w] = h], h.phase # "failing",
         h.lib = worker[w].lib, h.run = worker[w].run, h.lease = worker[w].lease,
         h.from = worker[w].from, h.observed = worker[w].observed,
         Holds(w) /\ ReadSoFar(w) => ReadSoFar(w)',
         UNCHANGED <<history, database, refresh, asks>>
  PROVE  SInv'
<1> USE DEF database
<1>1. worker'[w] = h
  BY DEF SInv, Typed
<1>2. HandAgrees(w)'
  <2>1. HandAgrees(w) /\ Version(worker[w].lib)' = Version(worker[w].lib)
    BY <1>1 DEF SInv, Version
  <2>2. Holds(w)' => Holds(w)
    BY <1>1 DEF Holds
  <2> QED BY <1>1, <2>1, <2>2 DEF HandAgrees, Version
<1>3. asks' \in 0..MaxAsks
  BY DEF SInv, Typed
<1> QED BY <1>2, <1>3, PassStep

\* As long as the library has not moved, the provider shows what the pass saw.
LEMMA SteadySees ==
  ASSUME SInv, NEW w \in Workers, Working(w), Steady(w)
  PROVE  /\ worker[w].lib \in Libraries /\ worker[w].observed = Version(worker[w].lib)
         /\ Version(worker[w].lib) \in 0..MaxVersion
         /\ \A k : Now(worker[w].lib, k) = Seen(w, k)
         /\ \A k \in Keys : Seen(w, k) \in Objects
<1>1. worker[w].lib \in Libraries /\ Version(worker[w].lib) \in 0..MaxVersion
  BY HandTyped DEF SInv
<1>2. worker[w].observed = Version(worker[w].lib)
  BY DEF Steady
<1>3. \A k : Now(worker[w].lib, k) = Seen(w, k)
  BY <1>2 DEF Now, Seen
<1>4. \A k \in Keys : Seen(w, k) \in Objects
  BY <1>1, <1>2, AtTyped, SyncBoundsAssumption DEF Seen, SInv
<1> QED BY <1>1, <1>2, <1>3, <1>4

LEMMA ListCollectionsStep ==
  ASSUME SInv, NEW w \in Workers, ListCollections(w)
  PROVE  SInv'
<1> USE DEF database
<1> DEFINE l == worker[w].lib
           listed == worker[w].manifest \cup Changed(l, worker[w].from, Collections)
           h == [worker[w] EXCEPT !.phase = IF listed = {} THEN "deletions" ELSE "bodies",
                                  !.observed = Version(l), !.manifest = listed, !.todo = listed]
<1>1. worker' = [worker EXCEPT ![w] = h] /\ UNCHANGED <<history, database, refresh, asks>>
  BY Zenon DEF ListCollections, Advance
<1>2. worker[w].phase = "collections" /\ worker[w].buffer = {} /\ Working(w) /\ Steady(w)
  BY DEF ListCollections, Requests, Working
<1>3. /\ l \in Libraries /\ worker[w].observed = Version(l)
      /\ \A k : Now(l, k) = Seen(w, k)
      /\ \A k \in Keys : Seen(w, k) \in Objects
      /\ worker[w].from \in 0..MaxVersion /\ worker[w].manifest \subseteq Pairs
  BY <1>2, HandTyped, SteadySees DEF SInv
<1>4. listed \subseteq Pairs
  <2> SUFFICES ASSUME NEW k \in Collections, Now(l, k).ver > worker[w].from
               PROVE  <<k, Now(l, k).ver>> \in Pairs
    BY <1>3 DEF Changed
  <2>1. Now(l, k) \in Objects
    BY <1>3 DEF Keys
  <2> QED BY <1>3, <2>1, SyncBoundsAssumption DEF Objects, Pairs, Keys
<1>5. \A k \in Collections : Fresh(w, k) => <<k, Seen(w, k).ver>> \in listed
  BY <1>3 DEF Fresh, Changed, Live
<1>6. \A p \in worker[w].manifest : p \in listed
  OBVIOUS
<1> HIDE DEF listed
<1>7. /\ h \in PassRow /\ h.phase = (IF listed = {} THEN "deletions" ELSE "bodies")
      /\ h.observed = worker[w].observed
      /\ h.lib = l /\ h.run = worker[w].run /\ h.lease = worker[w].lease
      /\ h.from = worker[w].from /\ h.todo = listed /\ h.buffer = {}
  BY <1>2, <1>3, <1>4, PassTyped DEF PassRow, SInv, Reading
<1>8. worker'[w] = h
  BY <1>1 DEF SInv, Typed
<1> HIDE DEF h
<1>9. ASSUME ReadSoFar(w)
      PROVE  ReadSoFar(w)'
  <2>1. Gathered(w)' = {}
    BY <1>1, <1>2, <1>7, <1>8, <1>9 DEF ReadSoFar, Gathered
  <2>2. \A k : Seen(w, k)' = Seen(w, k)
    BY <1>1, <1>7, <1>8 DEF Seen, At, Nothing, Object
  <2>3. \A k : Fresh(w, k)' <=> Fresh(w, k)
    BY <1>7, <1>8, <2>2 DEF Fresh, Live
  <2>4. \A k \in Keys : Fresh(w, k) => <<k, Seen(w, k).ver>> \in listed
    BY <1>2, <1>5, <1>6, <1>9 DEF ReadSoFar, Keys
  <2>5. \A k \in Keys : Fresh(w, k)' => Awaits(w, k)' /\ listed # {}
    BY <1>7, <1>8, <2>2, <2>3, <2>4 DEF Awaits
  <2> QED BY <1>7, <1>8, <2>1, <2>5 DEF ReadSoFar
<1> QED BY <1>1, <1>2, <1>7, <1>9, ReadingStep

LEMMA FetchBodiesStep ==
  ASSUME SInv, NEW w \in Workers, FetchBodies(w)
  PROVE  SInv'
<1> USE DEF database
<1> DEFINE l == worker[w].lib
           items == {p \in worker[w].todo : p[1] \in Items}
           batch == IF items # {} THEN items ELSE worker[w].todo
           todo == worker[w].todo \ batch
           rows == {Row(worker[w].run, p[1], Now(l, p[1])) : p \in batch}
           h == [worker[w] EXCEPT !.phase = IF worker[w].todo = batch THEN "deletions" ELSE "bodies",
                                  !.todo = todo, !.observed = Version(l), !.buffer = rows]
<1>1. worker' = [worker EXCEPT ![w] = h] /\ UNCHANGED <<history, database, refresh, asks>>
  BY Zenon DEF FetchBodies, Advance
<1>2. /\ worker[w].phase = "bodies" /\ worker[w].buffer = {} /\ Working(w) /\ Steady(w)
      /\ \A p \in batch : Now(l, p[1]).ver = p[2] /\ Now(l, p[1]).kind \in Live(p[1])
  BY Zenon DEF FetchBodies, Requests, Working
<1>3. /\ l \in Libraries /\ worker[w].observed = Version(l)
      /\ \A k : Now(l, k) = Seen(w, k)
      /\ \A k \in Keys : Seen(w, k) \in Objects
      /\ worker[w].run \in 1..MaxRuns /\ worker[w].todo \subseteq Pairs
  BY <1>2, HandTyped, SteadySees DEF SInv
<1>4. batch \subseteq worker[w].todo /\ todo \subseteq Pairs
  BY <1>3
<1>5. \A p \in batch : p[1] \in Keys
  BY <1>3, <1>4 DEF Pairs
<1>6. \A p \in batch : Row(worker[w].run, p[1], Now(l, p[1])) = TrueRow(w, p[1])
  BY <1>2, <1>3 DEF TrueRow
<1>7. \A k \in Keys : TrueRow(w, k) \in [run : 1..MaxRuns, key : Keys, ver : 0..MaxVersion, kind : Kinds]
                      /\ TrueRow(w, k).key = k
  <2>1. \A k \in Keys : Object(worker[w].observed, "gone") \in Objects
    BY <1>3, HandTyped, <1>2 DEF Objects, Object, Kinds, SInv
  <2> QED BY <1>3, <2>1 DEF TrueRow, Row, Objects
<1>8. rows \subseteq StageRows /\ \A s \in rows : s = TrueRow(w, s.key)
  BY <1>5, <1>6, <1>7 DEF StageRows
<1>9. \A p \in worker[w].todo : p \in todo \/ \E s \in rows : s.key = p[1]
  BY <1>5, <1>6, <1>7
<1>10. worker[w].todo = batch => todo = {}
  OBVIOUS
<1> HIDE DEF todo, rows, batch
<1>11. /\ h \in PassRow /\ h.phase = (IF worker[w].todo = batch THEN "deletions" ELSE "bodies")
       /\ h.observed = worker[w].observed
       /\ h.lib = l /\ h.run = worker[w].run /\ h.lease = worker[w].lease
       /\ h.from = worker[w].from /\ h.todo = todo /\ h.buffer = rows
  BY <1>2, <1>3, <1>4, <1>8, PassTyped DEF PassRow, SInv, Reading
<1>12. worker'[w] = h
  BY <1>1 DEF SInv, Typed
<1> HIDE DEF h
<1>13. ASSUME ReadSoFar(w)
       PROVE  ReadSoFar(w)'
  <2>1. Gathered(w)' = Gathered(w) \cup rows
    BY <1>1, <1>2, <1>11, <1>12 DEF Gathered
  <2>2. \A k : Seen(w, k)' = Seen(w, k)
    BY <1>1, <1>11, <1>12 DEF Seen, At, Nothing, Object
  <2>3. \A k : (Fresh(w, k)' <=> Fresh(w, k)) /\ TrueRow(w, k)' = TrueRow(w, k)
    BY <1>11, <1>12, <2>2 DEF Fresh, Live, TrueRow, Row, Object
  <2>4. \A k \in Keys : Fresh(w, k) => Awaits(w, k) \/ Has(w, k)
    BY <1>2, <1>13 DEF ReadSoFar
  <2>5. \A k \in Keys : Has(w, k) => Has(w, k)'
    BY <2>1 DEF Has
  <2>6. \A k \in Keys : Awaits(w, k) => <<k, Seen(w, k).ver>> \in todo \/ Has(w, k)'
    BY <1>9, <2>1 DEF Awaits, Has
  <2>7. \A k \in Keys : Fresh(w, k)' => Awaits(w, k)' \/ Has(w, k)'
    BY <1>11, <1>12, <2>2, <2>3, <2>4, <2>5, <2>6 DEF Awaits
  <2>8. worker[w].todo = batch => \A k : ~Awaits(w, k)'
    BY <1>10, <1>11, <1>12 DEF Awaits
  <2>9. \A s \in Gathered(w) : s = TrueRow(w, s.key)
    BY <1>2, <1>13 DEF ReadSoFar
  <2>10. \A s \in Gathered(w)' : s = TrueRow(w, s.key)'
    BY <1>8, <2>1, <2>3, <2>9
  <2> QED BY <1>11, <1>12, <2>7, <2>8, <2>10 DEF ReadSoFar
<1> QED BY <1>1, <1>2, <1>11, <1>13, ReadingStep

LEMMA ListDeletionsStep ==
  ASSUME SInv, NEW w \in Workers, ListDeletions(w)
  PROVE  SInv'
<1> USE DEF database
<1> DEFINE l == worker[w].lib
           rows == {Row(worker[w].run, k, Object(Version(l), "gone")) :
                      k \in Deleted(l, worker[w].from)}
           h == [worker[w] EXCEPT !.phase = "commit", !.observed = Version(l), !.buffer = rows]
<1>1. worker' = [worker EXCEPT ![w] = h] /\ UNCHANGED <<history, database, refresh, asks>>
  BY Zenon DEF ListDeletions, Advance
<1>2. worker[w].phase = "deletions" /\ worker[w].buffer = {} /\ Working(w) /\ Steady(w)
  BY DEF ListDeletions, Requests, Working
<1>3. /\ l \in Libraries /\ worker[w].observed = Version(l) /\ Version(l) \in 0..MaxVersion
      /\ \A k : Now(l, k) = Seen(w, k)
      /\ \A k \in Keys : Seen(w, k) \in Objects
      /\ worker[w].run \in 1..MaxRuns /\ worker[w].from \in 0..MaxVersion
  BY <1>2, HandTyped, SteadySees DEF SInv
<1>4. \A k \in Keys : k \in Deleted(l, worker[w].from) <=>
                        Seen(w, k).ver > worker[w].from /\ Seen(w, k).kind = "gone"
  BY <1>3 DEF Deleted
<1>5. Deleted(l, worker[w].from) \subseteq Keys
  BY DEF Deleted
<1>6. \A k \in Keys : Seen(w, k).kind = "gone" =>
                        Row(worker[w].run, k, Object(Version(l), "gone")) = TrueRow(w, k)
  BY <1>3 DEF TrueRow, Live
<1>7. \A k \in Keys : Row(worker[w].run, k, Object(Version(l), "gone")) \in StageRows
                      /\ Row(worker[w].run, k, Object(Version(l), "gone")).key = k
  BY <1>3 DEF StageRows, Row, Object, Kinds
<1>8. rows \subseteq StageRows /\ \A s \in rows : s = TrueRow(w, s.key)
  BY <1>4, <1>5, <1>6, <1>7
<1>9. \A k \in Deleted(l, worker[w].from) : \E s \in rows : s.key = k
  BY <1>5, <1>7
<1> HIDE DEF rows
<1>10. /\ h \in PassRow /\ h.phase = "commit" /\ h.observed = worker[w].observed
       /\ h.lib = l /\ h.run = worker[w].run /\ h.lease = worker[w].lease
       /\ h.from = worker[w].from /\ h.buffer = rows
  BY <1>2, <1>3, <1>8, PassTyped DEF PassRow, SInv
<1>11. worker'[w] = h
  BY <1>1 DEF SInv, Typed
<1> HIDE DEF h
<1>12. \A k \in Keys : Seen(w, k).ver > worker[w].from => Seen(w, k).kind \in Live(k) \cup {"gone"}
  <2> SUFFICES ASSUME NEW k \in Keys, Seen(w, k).ver > worker[w].from
               PROVE  Seen(w, k).kind \in Live(k) \cup {"gone"}
    OBVIOUS
  <2>1. Seen(w, k) = At(l, Version(l))[k] /\ Version(l) \in 0..Version(l)
    BY <1>3 DEF Seen
  <2>2. Seen(w, k).ver > 0
    BY <1>3 DEF Objects
  <2> QED BY <1>3, <2>1, <2>2 DEF SInv, HistoryIsTrue
<1>13. ASSUME ReadSoFar(w)
       PROVE  ReadSoFar(w)'
  <2>1. Gathered(w)' = Gathered(w) \cup rows
    BY <1>1, <1>2, <1>10, <1>11 DEF Gathered
  <2>2. \A k : Seen(w, k)' = Seen(w, k)
    BY <1>1, <1>10, <1>11 DEF Seen, At, Nothing, Object
  <2>3. \A k : TrueRow(w, k)' = TrueRow(w, k)
    BY <1>10, <1>11, <2>2 DEF Live, TrueRow, Row, Object
  <2>4. \A k \in Keys : Fresh(w, k) => Has(w, k)
    BY <1>2, <1>13 DEF ReadSoFar
  <2>5. \A k \in Keys : Seen(w, k).ver > worker[w].from =>
                          Has(w, k) \/ k \in Deleted(l, worker[w].from)
    BY <1>4, <1>12, <2>4 DEF Fresh
  <2>6. \A k \in Keys : Seen(w, k).ver > worker[w].from => Has(w, k)'
    BY <1>9, <2>1, <2>5 DEF Has
  <2>7. \A s \in Gathered(w) : s = TrueRow(w, s.key)
    BY <1>2, <1>13 DEF ReadSoFar
  <2>8. \A s \in Gathered(w)' : s = TrueRow(w, s.key)'
    BY <1>8, <2>1, <2>3, <2>7
  <2> QED BY <1>10, <1>11, <2>2, <2>6, <2>8 DEF ReadSoFar
<1> QED BY <1>1, <1>2, <1>10, <1>13, ReadingStep
-----------------------------------------------------------------------------
(* The steps that write rows.                                              *)

\* A step that writes the rows of the libraries D and the memory of the
\* workers W, and leaves the provider alone: what must be looked at.
LEMMA RowsStep ==
  ASSUME SInv, Typed', NEW D \in SUBSET Libraries, NEW W \in SUBSET Workers,
         history' = history,
         \A l \in Libraries \ D :
           /\ job'[l] = job[l] /\ runs'[l] = runs[l] /\ ledger'[l] = ledger[l]
           /\ stages'[l] = stages[l] /\ library'[l].cursor = library[l].cursor,
         \A l \in D : BooksAgree(l)' /\ job[l].attempts <= job'[l].attempts,
         \A w \in Workers \ W : worker'[w] = worker[w],
         \A w \in W : HandAgrees(w)',
         \A w \in Workers \ W : worker[w].lib \in D /\ Working(w) /\ Holds(w)' =>
           LET l == worker[w].lib IN
           /\ Holds(w) /\ job'[l].run = job[l].run
           /\ library'[l].cursor = library[l].cursor /\ stages'[l] = stages[l]
  PROVE  (\A l \in Libraries : BooksAgree(l)') /\ (\A w \in Workers : HandAgrees(w)')
<1>1. \A l \in Libraries : Version(l) \in Nat /\ Version(l)' = Version(l)
  BY VersionTyped, SyncBoundsAssumption DEF SInv, Version
<1>2. ASSUME NEW l \in Libraries
      PROVE  BooksAgree(l)'
  <2>1. CASE l \in D
    BY <2>1
  <2>2. CASE l \notin D
    <3>1. library[l].cursor \in Nat
      BY SyncBoundsAssumption DEF SInv, Typed, LibraryRow
    <3> QED BY <1>1, <2>2, <3>1, BooksKept DEF SInv
  <2> QED BY <2>1, <2>2
<1>3. ASSUME NEW w \in Workers
      PROVE  HandAgrees(w)'
  <2>1. CASE w \in W
    BY <2>1
  <2>2. CASE w \notin W
    <3>1. worker'[w] = worker[w] /\ HandAgrees(w)
      BY <2>2 DEF SInv
    <3>2. ASSUME Working(w)
          PROVE  LET l == worker[w].lib IN
                 /\ job[l].attempts \in Nat /\ job'[l].attempts \in Nat
                 /\ job[l].attempts <= job'[l].attempts /\ worker[w].lease \in Nat
                 /\ Version(l) \in Nat /\ Version(l)' \in Nat /\ Version(l) <= Version(l)'
                 /\ worker[w].from \in Nat /\ worker[w].observed \in Nat
                 /\ \A u \in 0..Version(l) : At(l, u)' = At(l, u)
      <4>1. worker[w].lib \in Libraries
        BY <3>2, HandTyped DEF SInv
      <4>2. Version(worker[w].lib)' = Version(worker[w].lib)
            /\ \A u : At(worker[w].lib, u)' = At(worker[w].lib, u)
        BY <3>1 DEF Version, At, Nothing, Object
      <4>3. job[worker[w].lib].attempts \in Nat /\ job'[worker[w].lib].attempts \in Nat
        BY <4>1 DEF SInv, Typed, JobRow
      <4>4. job[worker[w].lib].attempts <= job'[worker[w].lib].attempts
        BY <4>1, <4>3
      <4> QED BY <1>1, <3>2, <4>1, <4>2, <4>3, <4>4, HandTyped, SyncBoundsAssumption DEF SInv
    <3>3. ASSUME Working(w), Holds(w)'
          PROVE  LET l == worker[w].lib IN
                 /\ Holds(w) /\ job'[l].run = job[l].run
                 /\ library'[l].cursor = library[l].cursor /\ stages'[l] = stages[l]
      <4>1. CASE worker[w].lib \in D
        BY <2>2, <3>3, <4>1
      <4>2. CASE worker[w].lib \notin D
        <5>1. worker[w].lib \in Libraries
          BY <3>3, HandTyped DEF SInv
        <5> QED BY <3>1, <3>3, <4>2, <5>1 DEF Holds, Working
      <4> QED BY <4>1, <4>2
    <3> QED BY <3>1, <3>2, <3>3, HandKept
  <2> QED BY <2>1, <2>2
<1> QED BY <1>2, <1>3

\* The same for a step of one worker in one library, after which no other
\* worker holds its lease.
LEMMA OneLibraryStep ==
  ASSUME SInv, Typed', NEW l \in Libraries, NEW w \in Workers, history' = history,
         \A m \in Libraries \ {l} :
           /\ job'[m] = job[m] /\ runs'[m] = runs[m] /\ ledger'[m] = ledger[m]
           /\ stages'[m] = stages[m] /\ library'[m].cursor = library[m].cursor,
         BooksAgree(l)', job[l].attempts <= job'[l].attempts,
         \A v \in Workers \ {w} : worker'[v] = worker[v],
         HandAgrees(w)',
         \A v \in Workers \ {w} : worker[v].lib = l => ~Holds(v)'
  PROVE  (\A m \in Libraries : BooksAgree(m)') /\ (\A v \in Workers : HandAgrees(v)')
<1>1. {l} \in SUBSET Libraries /\ {w} \in SUBSET Workers
  OBVIOUS
<1>2. \A m \in {l} : BooksAgree(m)' /\ job[m].attempts <= job'[m].attempts
  OBVIOUS
<1>3. \A v \in {w} : HandAgrees(v)'
  OBVIOUS
<1>4. \A v \in Workers \ {w} : worker[v].lib \in {l} => ~Holds(v)'
  OBVIOUS
<1> QED BY <1>1, <1>2, <1>3, <1>4, RowsStep

\* What a claimable job is like.
LEMMA ClaimableFacts ==
  ASSUME SInv, NEW l \in Libraries, Claimable(l)
  PROVE  /\ job[l].status \in ActiveJob /\ job[l].run \in 1..Len(runs[l]) /\ job[l] \in JobRow
         /\ job[l].run = Len(runs[l]) /\ job[l].run <= MaxRuns /\ runs[l] \in Seq(RunRow)
         /\ runs[l][job[l].run] \in RunRow
         /\ ClearedStages(l, job[l].run) = [stages EXCEPT ![l] = {}]
<1>1. BooksAgree(l) /\ job[l] \in JobRow /\ runs[l] \in Seq(RunRow)
  BY DEF SInv, Typed
<1>2. job[l].status \in ActiveJob
  BY DEF Claimable, ActiveJob
<1>3. job[l].run \in 1..Len(runs[l]) /\ job[l].run = Len(runs[l]) /\ job[l].run <= MaxRuns
  BY <1>1, <1>2 DEF BooksAgree, JobRow, ActiveJob
<1>4. runs[l][job[l].run] \in RunRow
  BY <1>1, <1>3
<1>5. {s \in stages[l] : s.run # job[l].run} = {}
  BY <1>1 DEF BooksAgree
<1>6. ClearedStages(l, job[l].run) = [stages EXCEPT ![l] = {}]
  BY <1>5 DEF ClearedStages
<1> QED BY <1>1, <1>2, <1>3, <1>4, <1>6

LEMMA UnleasedTyped ==
  ASSUME NEW j \in JobRow, NEW status \in {"NONE"} \cup ActiveJob \cup Terminal, NEW held \in BOOLEAN
  PROVE  /\ Unleased(j, status, held) \in JobRow /\ Unleased(j, status, held).status = status
         /\ Unleased(j, status, held).run = j.run /\ Unleased(j, status, held).attempts = j.attempts
         /\ Unleased(j, status, held).max = j.max
         /\ Unleased(j, status, held).lease <= Unleased(j, status, held).attempts
<1> DEFINE u == Unleased(j, status, held)
<1>1. /\ u \in JobRow /\ u.status = status /\ u.run = j.run /\ u.attempts = j.attempts
      /\ u.max = j.max /\ u.lease = 0
  BY DEF JobRow, Unleased
<1>2. j.attempts \in Nat
  BY DEF JobRow
<1> HIDE DEF u
<1>3. u.lease <= u.attempts
  BY <1>1, <1>2
<1> QED BY <1>1, <1>3 DEF u

LEMMA TerminalInvalidStep ==
  ASSUME SInv, NEW l \in Libraries, TerminalInvalid(l)
  PROVE  SInv'
<1> DEFINE r == job[l].run
           j == [job[l] EXCEPT !.status = "DEAD_LETTER", !.lease = 0, !.by = None,
                               !.expired = FALSE, !.held = FALSE]
           f == [runs[l][r] EXCEPT !.status = "FAILED"]
           rs == [runs[l] EXCEPT ![r] = f]
<1>1. /\ job' = [job EXCEPT ![l] = j] /\ runs' = [runs EXCEPT ![l] = rs]
      /\ stages' = ClearedStages(l, r)
      /\ UNCHANGED <<history, connection, seen, library, mirror, inbox, ledger, worker, refresh, asks>>
  BY Zenon DEF TerminalInvalid, Unleased, RunIs
<1>2. Claimable(l)
  BY DEF TerminalInvalid
<1>3. /\ job[l].status \in ActiveJob /\ r \in 1..Len(runs[l]) /\ job[l] \in JobRow
      /\ r = Len(runs[l]) /\ r <= MaxRuns /\ runs[l] \in Seq(RunRow) /\ runs[l][r] \in RunRow
      /\ stages' = [stages EXCEPT ![l] = {}]
  BY <1>1, <1>2, ClaimableFacts
<1>4. j \in JobRow /\ j.status = "DEAD_LETTER" /\ j.run = r /\ j.attempts = job[l].attempts
      /\ j.max = job[l].max /\ j.lease <= j.attempts
  <2>1. /\ j \in JobRow /\ j.status = "DEAD_LETTER" /\ j.run = r /\ j.attempts = job[l].attempts
        /\ j.max = job[l].max /\ j.lease = 0 /\ job[l].attempts \in Nat
    BY <1>3 DEF JobRow, Terminal
  <2> HIDE DEF j
  <2> QED BY <2>1
<1>5. f \in RunRow /\ f.status = "FAILED"
  BY <1>3 DEF RunRow
<1> HIDE DEF j, f
<1>6. rs \in Seq(RunRow) /\ Len(rs) = Len(runs[l]) /\ rs[r] = f
      /\ \A i \in 1..Len(rs) : i # r => rs[i] = runs[l][i]
  BY <1>3, <1>5
<1> HIDE DEF rs
<1>7. Typed'
  <2>1. job' \in [Libraries -> JobRow] /\ runs' \in [Libraries -> Seq(RunRow)]
        /\ stages' \in [Libraries -> SUBSET StageRows]
    BY <1>1, <1>3, <1>4, <1>6 DEF SInv, Typed
  <2>2. (\A m \in Libraries : Version(m) <= MaxVersion)'
    BY <1>1 DEF SInv, Typed, Version
  <2> QED BY <1>1, <2>1, <2>2 DEF SInv, Typed
<1>8. job'[l] = j /\ runs'[l] = rs /\ stages'[l] = {}
  BY <1>1, <1>3 DEF SInv, Typed
<1>9. BooksAgree(l)'
  <2>1. BooksAgree(l) /\ Version(l)' = Version(l)
    BY <1>1 DEF SInv, Version
  <2>2. \A i \in 1..Len(rs) : rs[i].status \notin ActiveRun
    BY <1>3, <1>5, <1>6, <2>1 DEF BooksAgree, ActiveRun
  <2> QED BY <1>1, <1>3, <1>4, <1>6, <1>8, <2>1, <2>2 DEF BooksAgree, ActiveJob
<1>10. (\A m \in Libraries : BooksAgree(m)') /\ (\A w \in Workers : HandAgrees(w)')
  <2>1. \A m \in Libraries \ {l} :
           /\ job'[m] = job[m] /\ runs'[m] = runs[m] /\ ledger'[m] = ledger[m]
           /\ stages'[m] = stages[m] /\ library'[m].cursor = library[m].cursor
    BY <1>1, <1>3 DEF SInv, Typed
  <2>2. \A m \in {l} : BooksAgree(m)' /\ job[m].attempts <= job'[m].attempts
    BY <1>3, <1>4, <1>8, <1>9 DEF JobRow
  <2>3. \A w \in Workers : worker[w].lib = l => ~Holds(w)'
    BY <1>1, <1>4, <1>8 DEF Holds
  <2>4. {l} \in SUBSET Libraries /\ {} \in SUBSET Workers
    OBVIOUS
  <2> QED BY <1>1, <1>7, <2>1, <2>2, <2>3, <2>4, RowsStep
<1>11. HistoryIsTrue' /\ SnapshotExact' /\ InboxFollowsSource'
  BY <1>1, CopyKept
<1> QED BY <1>7, <1>10, <1>11 DEF SInv

LEMMA PutOffStep ==
  ASSUME SInv, NEW l \in Libraries, PutOff(l)
  PROVE  SInv'
<1> DEFINE r == job[l].run
           j == [job[l] EXCEPT !.status = "RETRYING", !.lease = 0, !.by = None,
                               !.expired = FALSE, !.held = TRUE]
           f == [runs[l][r] EXCEPT !.status = "BACKING_OFF"]
           rs == [runs[l] EXCEPT ![r] = f]
<1>1. /\ job' = [job EXCEPT ![l] = j] /\ runs' = [runs EXCEPT ![l] = rs]
      /\ UNCHANGED <<history, connection, seen, library, mirror, inbox, ledger, stages, worker, refresh, asks>>
  BY Zenon DEF PutOff, Unleased, RunIs
<1>2. Claimable(l)
  BY DEF PutOff
<1>3. /\ job[l].status \in ActiveJob /\ r \in 1..Len(runs[l]) /\ job[l] \in JobRow
      /\ r = Len(runs[l]) /\ r <= MaxRuns /\ runs[l] \in Seq(RunRow) /\ runs[l][r] \in RunRow
  BY <1>1, <1>2, ClaimableFacts
<1>4. j \in JobRow /\ j.status = "RETRYING" /\ j.run = r /\ j.attempts = job[l].attempts
      /\ j.max = job[l].max /\ j.lease <= j.attempts
  <2>1. /\ j \in JobRow /\ j.status = "RETRYING" /\ j.run = r /\ j.attempts = job[l].attempts
        /\ j.max = job[l].max /\ j.lease = 0 /\ job[l].attempts \in Nat
    BY <1>3 DEF JobRow, ActiveJob
  <2> HIDE DEF j
  <2> QED BY <2>1
<1>5. f \in RunRow /\ f.status = "BACKING_OFF"
  BY <1>3 DEF RunRow, ActiveRun
<1> HIDE DEF j, f
<1>6. rs \in Seq(RunRow) /\ Len(rs) = Len(runs[l]) /\ rs[r] = f
      /\ \A i \in 1..Len(rs) : i # r => rs[i] = runs[l][i]
  BY <1>3, <1>5
<1> HIDE DEF rs
<1>7. Typed'
  <2>1. job' \in [Libraries -> JobRow] /\ runs' \in [Libraries -> Seq(RunRow)]
    BY <1>1, <1>3, <1>4, <1>6 DEF SInv, Typed
  <2>2. (\A m \in Libraries : Version(m) <= MaxVersion)'
    BY <1>1 DEF SInv, Typed, Version
  <2> QED BY <1>1, <2>1, <2>2 DEF SInv, Typed
<1>8. job'[l] = j /\ runs'[l] = rs
  BY <1>1, <1>3 DEF SInv, Typed
<1>9. BooksAgree(l)'
  <2>1. BooksAgree(l) /\ Version(l)' = Version(l)
    BY <1>1 DEF SInv, Version
  <2>2. \A i \in 1..Len(rs) : rs[i].status \in ActiveRun => i = r
    BY <1>3, <1>5, <1>6, <2>1 DEF BooksAgree
  <2> QED BY <1>1, <1>3, <1>4, <1>5, <1>6, <1>8, <2>1, <2>2 DEF BooksAgree, ActiveJob, ActiveRun
<1>10. (\A m \in Libraries : BooksAgree(m)') /\ (\A w \in Workers : HandAgrees(w)')
  <2>1. \A m \in Libraries \ {l} :
           /\ job'[m] = job[m] /\ runs'[m] = runs[m] /\ ledger'[m] = ledger[m]
           /\ stages'[m] = stages[m] /\ library'[m].cursor = library[m].cursor
    BY <1>1, <1>3 DEF SInv, Typed
  <2>2. \A m \in {l} : BooksAgree(m)' /\ job[m].attempts <= job'[m].attempts
    BY <1>3, <1>4, <1>8, <1>9 DEF JobRow
  <2>3. \A w \in Workers : worker[w].lib = l => ~Holds(w)'
    BY <1>1, <1>4, <1>8 DEF Holds
  <2>4. {l} \in SUBSET Libraries /\ {} \in SUBSET Workers
    OBVIOUS
  <2> QED BY <1>1, <1>7, <2>1, <2>2, <2>3, <2>4, RowsStep
<1>11. HistoryIsTrue' /\ SnapshotExact' /\ InboxFollowsSource'
  BY <1>1, CopyKept
<1> QED BY <1>7, <1>10, <1>11 DEF SInv

\* A new run, for libraries whose job is not at work.
LEMMA EnqueueStep ==
  ASSUME SInv, NEW L \in SUBSET Libraries, \A l \in L : job[l].status \notin ActiveJob, Enqueue(L)
  PROVE  SInv'
<1> DEFINE f(l) == [status |-> IF connection.backoff THEN "BACKING_OFF" ELSE "QUEUED",
                    from |-> library[l].cursor]
           j(l) == Unleased([job[l] EXCEPT !.run = Len(runs[l]) + 1, !.max = job[l].attempts + Budget],
                            IF connection.backoff THEN "RETRYING" ELSE "QUEUED", connection.backoff)
<1>1. /\ \A l \in L : Len(runs[l]) < MaxRuns
      /\ runs' = [l \in Libraries |-> IF l \notin L THEN runs[l] ELSE Append(runs[l], f(l))]
      /\ job' = [l \in Libraries |-> IF l \notin L THEN job[l] ELSE j(l)]
      /\ UNCHANGED <<history, connection, seen, library, mirror, inbox, ledger, stages, worker, refresh, asks>>
  BY Zenon DEF Enqueue
<1>2. ASSUME NEW l \in Libraries
      PROVE  f(l) \in RunRow /\ f(l).status \in ActiveRun
    BY DEF SInv, Typed, RunRow, LibraryRow, ActiveRun
<1>3. ASSUME NEW l \in Libraries
      PROVE  /\ j(l) \in JobRow /\ j(l).run = Len(runs[l]) + 1 /\ j(l).max = job[l].attempts + Budget
             /\ j(l).attempts = job[l].attempts /\ j(l).lease <= j(l).attempts /\ j(l).status \in {"QUEUED", "RETRYING"}
  <2>1. job[l] \in JobRow /\ runs[l] \in Seq(RunRow) /\ connection.backoff \in BOOLEAN
    BY DEF SInv, Typed
  <2>2. Len(runs[l]) + 1 \in Nat /\ job[l].attempts + Budget \in Nat
    BY <2>1, BudgetAssumption DEF JobRow
  <2> DEFINE k == [job[l] EXCEPT !.run = Len(runs[l]) + 1, !.max = job[l].attempts + Budget]
  <2>3. k \in JobRow /\ k.run = Len(runs[l]) + 1 /\ k.max = job[l].attempts + Budget
        /\ k.attempts = job[l].attempts
    BY <2>1, <2>2 DEF JobRow
  <2> HIDE DEF k
  <2> DEFINE status == IF connection.backoff THEN "RETRYING" ELSE "QUEUED"
  <2>4. j(l) = Unleased(k, status, connection.backoff)
    BY DEF k
  <2>5. status \in {"QUEUED", "RETRYING"} /\ status \in {"NONE"} \cup ActiveJob \cup Terminal
    BY DEF ActiveJob
  <2> HIDE DEF j, status
  <2>6. /\ j(l) \in JobRow /\ j(l).run = k.run /\ j(l).max = k.max /\ j(l).attempts = k.attempts
        /\ j(l).lease <= j(l).attempts /\ j(l).status = status
    <3>1. k \in JobRow /\ connection.backoff \in BOOLEAN
          /\ status \in {"NONE"} \cup ActiveJob \cup Terminal
      BY <2>1, <2>3, <2>5
    <3>2. LET u == Unleased(k, status, connection.backoff) IN
          /\ u \in JobRow /\ u.status = status /\ u.run = k.run /\ u.attempts = k.attempts
          /\ u.max = k.max /\ u.lease <= u.attempts
      BY <3>1, UnleasedTyped, Zenon
    <3> QED BY <2>4, <3>2
  <2> QED BY <2>3, <2>5, <2>6
<1> HIDE DEF j, f
<1>4. Typed'
  <2>1. job' \in [Libraries -> JobRow] /\ runs' \in [Libraries -> Seq(RunRow)]
    BY <1>1, <1>2, <1>3 DEF SInv, Typed
  <2>2. (\A m \in Libraries : Version(m) <= MaxVersion)'
    BY <1>1 DEF SInv, Typed, Version
  <2> QED BY <1>1, <2>1, <2>2 DEF SInv, Typed
<1>5. ASSUME NEW l \in L
      PROVE  BooksAgree(l)' /\ job[l].attempts <= job'[l].attempts
  <2>1. BooksAgree(l) /\ Version(l)' = Version(l) /\ l \in Libraries
    BY <1>1 DEF SInv, Version
  <2>2. job'[l] = j(l) /\ runs'[l] = Append(runs[l], f(l))
    BY <1>1, <2>1
  <2>3. job[l] \in JobRow /\ runs[l] \in Seq(RunRow)
    BY <2>1 DEF SInv, Typed
  <2>4. /\ Len(runs'[l]) = Len(runs[l]) + 1 /\ runs'[l][Len(runs[l]) + 1] = f(l)
        /\ \A i \in 1..Len(runs[l]) : runs'[l][i] = runs[l][i]
    BY <1>2, <2>1, <2>2, <2>3
  <2>5. stages[l] = {} /\ \A i \in 1..Len(runs[l]) : runs[l][i].status \notin ActiveRun
    BY <2>1 DEF BooksAgree
  <2>6. job[l].attempts + Budget <= Budget * (Len(runs[l]) + 1)
    <3>1. job[l].attempts <= Budget * Len(runs[l]) /\ job[l].attempts \in Nat /\ Len(runs[l]) \in Nat
          /\ Budget * Len(runs[l]) \in Nat
      <4>1. job[l].run \in Nat /\ job[l].max \in Nat /\ job[l].attempts \in Nat
        BY <2>3 DEF JobRow
      <4>2. job[l].run = Len(runs[l]) /\ job[l].attempts <= job[l].max /\ job[l].max <= Budget * job[l].run
        BY <2>1 DEF BooksAgree
      <4>3. Budget * Len(runs[l]) \in Nat
        BY <4>1, <4>2, BudgetAssumption
      <4> QED BY <4>1, <4>2, <4>3
    <3>2. Budget * (Len(runs[l]) + 1) = Budget * Len(runs[l]) + Budget
      BY <3>1, BudgetAssumption
    <3> QED BY <3>1, <3>2, BudgetAssumption
  <2>7. job[l].attempts <= job[l].attempts + Budget /\ job[l].attempts = Len(ledger[l])
    BY <2>1, <2>3, BudgetAssumption DEF JobRow, BooksAgree
  <2>8. Len(runs[l]) + 1 <= MaxRuns /\ Len(runs[l]) + 1 > 0
    BY <1>1, <2>3, SyncBoundsAssumption
  <2>9. \A i \in 1..Len(runs'[l]) : runs'[l][i].status \in ActiveRun => i = Len(runs[l]) + 1
    BY <2>3, <2>4, <2>5
  <2> HIDE DEF f
  <2>10. BooksAgree(l)'
    <3>1. /\ job'[l].run = Len(runs'[l]) /\ job'[l].run <= MaxRuns /\ job'[l].run > 0
          /\ job'[l].attempts = Len(ledger'[l]) /\ job'[l].attempts <= job'[l].max
          /\ job'[l].lease <= job'[l].attempts /\ job'[l].max <= Budget * job'[l].run
          /\ job'[l].status \in ActiveJob /\ job'[l].status # "RUNNING"
      BY <1>1, <1>3, <2>1, <2>2, <2>4, <2>6, <2>7, <2>8 DEF ActiveJob
    <3>2. runs'[l][job'[l].run].status \in ActiveRun
      BY <1>2, <1>3, <2>1, <2>2, <2>4
    <3>3. \A i \in 1..Len(runs'[l]) : runs'[l][i].status \in ActiveRun => i = job'[l].run
      BY <2>9, <3>1, <2>4
    <3>4. stages'[l] = {} /\ library'[l].cursor <= Version(l)'
      BY <1>1, <2>1, <2>5 DEF BooksAgree
    <3> QED BY <3>1, <3>2, <3>3, <3>4 DEF BooksAgree
  <2>11. job[l].attempts <= job'[l].attempts
    BY <1>3, <2>1, <2>2, <2>3 DEF JobRow
  <2> QED BY <2>10, <2>11
<1>6. (\A m \in Libraries : BooksAgree(m)') /\ (\A w \in Workers : HandAgrees(w)')
  <2>1. \A m \in Libraries \ L :
           /\ job'[m] = job[m] /\ runs'[m] = runs[m] /\ ledger'[m] = ledger[m]
           /\ stages'[m] = stages[m] /\ library'[m].cursor = library[m].cursor
    BY <1>1
  <2>2. \A m \in L : BooksAgree(m)' /\ job[m].attempts <= job'[m].attempts
    BY <1>5
  <2>3. \A w \in Workers : worker[w].lib \in L => ~Holds(w)'
    <3>1. \A l \in L : job'[l].status # "RUNNING"
      BY <1>1, <1>3
    <3> QED BY <1>1, <3>1 DEF Holds
  <2>4. {} \in SUBSET Workers
    OBVIOUS
  <2> QED BY <1>1, <1>4, <2>1, <2>2, <2>3, <2>4, RowsStep
<1>7. HistoryIsTrue' /\ SnapshotExact' /\ InboxFollowsSource'
  BY <1>1, CopyKept
<1> QED BY <1>4, <1>6, <1>7 DEF SInv

LEMMA QueueStep ==
  ASSUME SInv, QueueSelected \/ \E l \in Libraries : ScheduleDue(l)
  PROVE  SInv'
<1>1. CASE QueueSelected
  <2> DEFINE fresh == {l \in Libraries : Syncable(l) /\ ~Coalesces(l)}
  <2>1. Enqueue(fresh) /\ fresh \in SUBSET Libraries
    BY <1>1 DEF QueueSelected
  <2>2. \A l \in fresh : job[l].status \notin ActiveJob
    BY DEF SInv, BooksAgree, Coalesces
  <2> QED BY <2>1, <2>2, EnqueueStep
<1>2. ASSUME NEW l \in Libraries, ScheduleDue(l)
      PROVE  SInv'
  <2>1. Enqueue({l}) /\ \A m \in {l} : job[m].status \notin ActiveJob
    BY <1>2 DEF ScheduleDue, ActiveJob
  <2> QED BY <2>1, EnqueueStep
<1> QED BY <1>1, <1>2

LEMMA LedgerClosedTyped ==
  ASSUME NEW l \in Libraries, ledger[l] \in Seq({"RUNNING"} \cup Terminal)
  PROVE  /\ ClosedLedger(l) \in Seq({"RUNNING"} \cup Terminal)
         /\ Len(ClosedLedger(l)) = Len(ledger[l])
BY DEF ClosedLedger, Terminal

LEMMA ClaimStep ==
  ASSUME SInv, NEW w \in Workers, NEW l \in Libraries, Claim(w, l)
  PROVE  SInv'
<1> DEFINE r == job[l].run
           n == job[l].attempts + 1
           j == [job[l] EXCEPT !.status = "RUNNING", !.attempts = n, !.lease = n,
                               !.by = w, !.expired = FALSE, !.held = FALSE]
           f == [status |-> "RUNNING", from |-> library[l].cursor]
           rs == [runs[l] EXCEPT ![r] = f]
           rows == Append(ClosedLedger(l), "RUNNING")
           h == [phase |-> "items", lib |-> l, run |-> r, lease |-> n, from |-> library[l].cursor,
                 observed |-> 0, manifest |-> {}, todo |-> {}, buffer |-> {}, failure |-> None]
<1>1. /\ job' = [job EXCEPT ![l] = j] /\ runs' = [runs EXCEPT ![l] = rs]
      /\ ledger' = [ledger EXCEPT ![l] = rows] /\ stages' = ClearedStages(l, r)
      /\ seen' = seen \cup {w} /\ worker' = [worker EXCEPT ![w] = h]
      /\ UNCHANGED <<history, connection, library, mirror, inbox, refresh, asks>>
  BY Zenon DEF Claim, RunIs
<1>2. Claimable(l) /\ ~Working(w) /\ BudgetLeft(l)
  BY DEF Claim
<1>3. /\ job[l].status \in ActiveJob /\ r \in 1..Len(runs[l]) /\ job[l] \in JobRow
      /\ r = Len(runs[l]) /\ r <= MaxRuns /\ runs[l] \in Seq(RunRow) /\ runs[l][r] \in RunRow
      /\ stages' = [stages EXCEPT ![l] = {}]
  BY <1>1, <1>2, ClaimableFacts
<1>4. /\ library[l] \in LibraryRow /\ ledger[l] \in Seq({"RUNNING"} \cup Terminal)
      /\ Version(l) \in 0..MaxVersion /\ n \in Nat /\ n > 0 /\ BooksAgree(l)
      /\ n <= job[l].max /\ job[l].attempts <= n
  <2>1. n \in Nat /\ n > 0 /\ n <= job[l].max /\ job[l].attempts <= n
    BY <1>2, <1>3 DEF BudgetLeft, JobRow
  <2>2. library[l] \in LibraryRow /\ ledger[l] \in Seq({"RUNNING"} \cup Terminal) /\ BooksAgree(l)
    BY DEF SInv, Typed
  <2>3. Version(l) \in 0..MaxVersion
    BY VersionTyped DEF SInv
  <2> QED BY <2>1, <2>2, <2>3
<1>5. rows \in Seq({"RUNNING"} \cup Terminal) /\ Len(rows) = n /\ rows[n] = "RUNNING"
  <2>1. Len(ledger[l]) = job[l].attempts
    BY <1>4 DEF BooksAgree
  <2> QED BY <1>4, <2>1, LedgerClosedTyped
<1> HIDE DEF n, rows
<1>6. j \in JobRow /\ j.status = "RUNNING" /\ j.run = r /\ j.attempts = n /\ j.lease = n
      /\ j.max = job[l].max /\ j.by = w /\ j.lease <= j.attempts
  <2>1. /\ j \in JobRow /\ j.status = "RUNNING" /\ j.run = r /\ j.attempts = n /\ j.lease = n
        /\ j.max = job[l].max /\ j.by = w
    BY <1>3, <1>4 DEF JobRow, ActiveJob
  <2> HIDE DEF j
  <2> QED BY <1>4, <2>1
<1>7. f \in RunRow /\ f = [status |-> "RUNNING", from |-> library[l].cursor]
  BY <1>4 DEF RunRow, ActiveRun, LibraryRow
<1>8. h \in PassRow /\ h.phase = "items" /\ h.lib = l /\ h.run = r /\ h.lease = n
      /\ h.from = library[l].cursor /\ h.observed = 0 /\ h.buffer = {}
  BY <1>3, <1>4, SyncBoundsAssumption DEF PassRow, LibraryRow, Reading
<1> HIDE DEF j, f, h
<1>9. rs \in Seq(RunRow) /\ Len(rs) = Len(runs[l]) /\ rs[r] = f
      /\ \A i \in 1..Len(rs) : i # r => rs[i] = runs[l][i]
  BY <1>3, <1>7
<1> HIDE DEF rs
<1>10. job'[l] = j /\ runs'[l] = rs /\ stages'[l] = {} /\ ledger'[l] = rows /\ worker'[w] = h
       /\ \A v \in Workers \ {w} : worker'[v] = worker[v]
  BY <1>1, <1>3 DEF SInv, Typed
<1>11. Typed'
  <2>1. job' \in [Libraries -> JobRow] /\ runs' \in [Libraries -> Seq(RunRow)]
        /\ stages' \in [Libraries -> SUBSET StageRows]
        /\ ledger' \in [Libraries -> Seq({"RUNNING"} \cup Terminal)]
    BY <1>1, <1>3, <1>5, <1>6, <1>9 DEF SInv, Typed
  <2>2. (\A m \in Libraries : Version(m) <= MaxVersion)'
    BY <1>1 DEF SInv, Typed, Version
  <2>3. worker' \in [Workers -> {Idle} \cup PassRow] /\ seen' \subseteq Workers
    BY <1>1, <1>8 DEF SInv, Typed
  <2>4. \A v \in Workers : worker'[v].phase = "failing" => worker'[v].failure \in FailureRow
    BY <1>8, <1>10 DEF SInv, Typed
  <2> QED BY <1>1, <2>1, <2>2, <2>3, <2>4 DEF SInv, Typed
<1>12. BooksAgree(l)'
  <2>1. Version(l)' = Version(l)
    BY <1>1 DEF Version
  <2>2. \A i \in 1..Len(rs) : rs[i].status \in ActiveRun => i = r
    BY <1>3, <1>4, <1>9 DEF BooksAgree
  <2>3. j.run = Len(rs) /\ j.run <= MaxRuns /\ j.run > 0 /\ j.attempts = Len(rows)
        /\ j.attempts <= j.max /\ j.max <= Budget * j.run /\ j.lease <= j.attempts
    BY <1>3, <1>4, <1>5, <1>6, <1>9 DEF BooksAgree
  <2>4. rs[j.run] = [status |-> "RUNNING", from |-> library'[l].cursor]
        /\ rs[j.run].status \in ActiveRun
    BY <1>1, <1>6, <1>7, <1>9 DEF ActiveRun
  <2>5. library'[l].cursor <= Version(l)' /\ j.status \in ActiveJob
    BY <1>1, <1>4, <1>6, <2>1 DEF BooksAgree, ActiveJob
  <2> QED BY <1>4, <1>5, <1>6, <1>10, <2>2, <2>3, <2>4, <2>5 DEF BooksAgree
<1>13. HandAgrees(w)'
  <2>1. Version(l)' = Version(l) /\ library[l].cursor <= Version(l) /\ library[l].cursor \in Nat
    BY <1>1, <1>4, SyncBoundsAssumption DEF Version, BooksAgree, LibraryRow
  <2>2. Gathered(w)' = {}
    BY <1>8, <1>10 DEF Gathered
  <2>3. ReadSoFar(w)'
    BY <1>8, <1>10, <2>2 DEF ReadSoFar
  <2>4. worker'[w].lease <= job'[l].attempts /\ worker'[w].from <= Version(l)'
        /\ worker'[w].observed <= Version(l)'
    BY <1>4, <1>6, <1>8, <1>10, <2>1
  <2> QED BY <1>1, <1>6, <1>8, <1>10, <2>1, <2>3, <2>4 DEF HandAgrees
<1>14. (\A m \in Libraries : BooksAgree(m)') /\ (\A v \in Workers : HandAgrees(v)')
  <2>1. \A m \in Libraries \ {l} :
           /\ job'[m] = job[m] /\ runs'[m] = runs[m] /\ ledger'[m] = ledger[m]
           /\ stages'[m] = stages[m] /\ library'[m].cursor = library[m].cursor
    BY <1>1, <1>3 DEF SInv, Typed
  <2>2. BooksAgree(l)' /\ job[l].attempts <= job'[l].attempts
    BY <1>4, <1>6, <1>10, <1>12
  <2>3. \A v \in Workers \ {w} : worker[v].lib = l => ~Holds(v)'
    BY <1>6, <1>10 DEF Holds
  <2> QED BY <1>1, <1>10, <1>11, <1>13, <2>1, <2>2, <2>3, OneLibraryStep
<1>15. HistoryIsTrue' /\ SnapshotExact' /\ InboxFollowsSource'
  BY <1>1, CopyKept
<1> QED BY <1>11, <1>14, <1>15 DEF SInv

\* What a worker whose lease is current may rely on.
LEMMA CurrentFacts ==
  ASSUME SInv, NEW w \in Workers, Working(w), LeaseIsCurrent(w)
  PROVE  LET h == worker[w]
             l == h.lib
         IN  /\ l \in Libraries /\ job[l] \in JobRow /\ job[l].status = "RUNNING"
             /\ h.run = job[l].run /\ h.from = library[l].cursor /\ ReadSoFar(w)
             /\ h.run \in 1..Len(runs[l]) /\ h.run = Len(runs[l]) /\ runs[l] \in Seq(RunRow)
             /\ runs[l][h.run] = [status |-> "RUNNING", from |-> library[l].cursor]
             /\ ledger[l] \in Seq({"RUNNING"} \cup Terminal)
             /\ h.lease = job[l].lease /\ h.lease \in 1..Len(ledger[l]) /\ ledger[l][h.lease] = "RUNNING"
             /\ stages[l] \subseteq StageRows /\ \A s \in stages[l] : s.run = h.run
             /\ ClearedStages(l, h.run) = [stages EXCEPT ![l] = {}]
             /\ \A v \in Workers \ {w} : worker[v].lib = l => ~Holds(v)
<1> DEFINE h == worker[w]
           l == h.lib
<1>1. Holds(w)
  BY CurrentHolds
<1>2. l \in Libraries /\ job[l] \in JobRow /\ h.lease \in Nat /\ BooksAgree(l)
      /\ runs[l] \in Seq(RunRow) /\ ledger[l] \in Seq({"RUNNING"} \cup Terminal)
      /\ stages[l] \subseteq StageRows
  BY HandTyped DEF SInv, Typed
<1>3. job[l].status = "RUNNING" /\ job[l].lease = h.lease
  BY <1>1 DEF Holds
<1>4. h.run = job[l].run /\ h.from = library[l].cursor /\ ReadSoFar(w)
  BY <1>1 DEF SInv, HandAgrees
<1>5. /\ job[l].run = Len(runs[l]) /\ job[l].run > 0
      /\ runs[l][job[l].run] = [status |-> "RUNNING", from |-> library[l].cursor]
      /\ job[l].lease = job[l].attempts /\ job[l].lease > 0 /\ ledger[l][job[l].lease] = "RUNNING"
      /\ job[l].attempts = Len(ledger[l]) /\ \A s \in stages[l] : s.run = job[l].run
  BY <1>2, <1>3 DEF BooksAgree
<1>6. h.run \in 1..Len(runs[l]) /\ h.lease \in 1..Len(ledger[l])
  BY <1>2, <1>3, <1>4, <1>5 DEF JobRow
<1>7. ClearedStages(l, h.run) = [stages EXCEPT ![l] = {}]
  <2>1. {s \in stages[l] : s.run # h.run} = {}
    BY <1>4, <1>5
  <2> QED BY <2>1 DEF ClearedStages
<1>8. \A v \in Workers \ {w} : worker[v].lib = l => ~Holds(v)
  BY <1>1, OneHolder
<1> QED BY <1>2, <1>3, <1>4, <1>5, <1>6, <1>7, <1>8

LEMMA StageStep ==
  ASSUME SInv, NEW w \in Workers, Stage(w)
  PROVE  SInv'
<1>0. Working(w)
  BY DEF Stage
<1> PICK l \in Libraries : l = worker[w].lib
  BY <1>0, HandTyped DEF SInv
<1> DEFINE rows == {s \in stages[l] : \A b \in worker[w].buffer : s.run # b.run \/ s.key # b.key}
           new == rows \cup worker[w].buffer
           h == [worker[w] EXCEPT !.buffer = {}]
<1>1. /\ Working(w) /\ worker[w].phase # "failing" /\ worker[w].buffer # {}
      /\ UNCHANGED <<history, connection, seen, library, mirror, inbox, job, ledger, runs, refresh, asks>>
  BY DEF Stage
<1>2. CASE ~LeaseIsCurrent(w)
  <2>1. GoIdle(w) /\ UNCHANGED stages
    BY <1>2 DEF Stage
  <2> QED BY <1>1, <2>1, IdleStep DEF database
<1>3. CASE LeaseIsCurrent(w)
  <2>1. stages' = [stages EXCEPT ![l] = new] /\ worker' = [worker EXCEPT ![w] = h]
    BY <1>3, Zenon DEF Stage
  <2>2. /\ l \in Libraries /\ job[l] \in JobRow /\ job[l].status = "RUNNING"
        /\ worker[w].run = job[l].run /\ worker[w].from = library[l].cursor /\ ReadSoFar(w)
        /\ stages[l] \subseteq StageRows
        /\ \A v \in Workers \ {w} : worker[v].lib = l => ~Holds(v)
    BY <1>1, <1>3, CurrentFacts
  <2>3. worker[w].buffer \subseteq StageRows /\ worker[w] \in PassRow
    BY <1>1, HandTyped, PassTyped DEF SInv
  <2>4. \A s \in stages[l] \cup worker[w].buffer : s = TrueRow(w, s.key)
    BY <1>1, <2>2 DEF ReadSoFar, Gathered
  <2>5. \A k : TrueRow(w, k).run = job[l].run
    BY <2>2 DEF TrueRow, Row
  <2>6. new \subseteq StageRows /\ new \subseteq stages[l] \cup worker[w].buffer
    BY <2>2, <2>3
  <2>7. \A s \in stages[l] : \E t \in new : t.key = s.key
    OBVIOUS
  <2>8. \A s \in worker[w].buffer : s \in new
    OBVIOUS
  <2>9. \A s \in new : s.run = job[l].run /\ \A t \in new : t.key = s.key => t = s
    <3> SUFFICES ASSUME NEW s \in new
                 PROVE  s.run = job[l].run /\ \A t \in new : t.key = s.key => t = s
      OBVIOUS
    <3>1. s = TrueRow(w, s.key) /\ \A t \in new : t = TrueRow(w, t.key)
      BY <2>4, <2>6
    <3>2. s.run = job[l].run
      BY <2>5, <3>1
    <3> QED BY <3>1, <3>2
  <2> HIDE DEF rows, new
  <2>10. h \in PassRow /\ h.buffer = {} /\ h.lib = l /\ h.run = worker[w].run
         /\ h.lease = worker[w].lease /\ h.from = worker[w].from /\ h.observed = worker[w].observed
         /\ h.phase = worker[w].phase /\ h.manifest = worker[w].manifest /\ h.todo = worker[w].todo
    BY <2>3 DEF PassRow
  <2> HIDE DEF h
  <2>11. worker'[w] = h /\ stages'[l] = new /\ \A v \in Workers \ {w} : worker'[v] = worker[v]
    BY <2>1, <2>2 DEF SInv, Typed
  <2>12. Typed'
    <3>1. stages' \in [Libraries -> SUBSET StageRows] /\ worker' \in [Workers -> {Idle} \cup PassRow]
      BY <2>1, <2>6, <2>10 DEF SInv, Typed
    <3>2. \A v \in Workers : worker'[v].phase = "failing" => worker'[v].failure \in FailureRow
      BY <1>1, <2>10, <2>11 DEF SInv, Typed
    <3>3. (\A m \in Libraries : Version(m) <= MaxVersion)'
      BY <1>1 DEF SInv, Typed, Version
    <3> QED BY <1>1, <3>1, <3>2, <3>3 DEF SInv, Typed
  <2>13. BooksAgree(l)'
    <3>1. BooksAgree(l) /\ Version(l)' = Version(l)
      BY <1>1, <2>2 DEF SInv, Version
    <3>2. \A s \in stages'[l] : /\ s.run = job'[l].run /\ job'[l].status \in ActiveJob
                                /\ \A t \in stages'[l] : t.key = s.key => t = s
      BY <1>1, <2>2, <2>9, <2>11 DEF ActiveJob
    <3> QED BY <1>1, <3>1, <3>2 DEF BooksAgree
  <2>14. HandAgrees(w)'
    <3>1. HandAgrees(w) /\ Version(l)' = Version(l)
      BY <1>1 DEF SInv, Version
    <3>2. Gathered(w)' = new /\ Gathered(w) = stages[l] \cup worker[w].buffer
      BY <2>10, <2>11 DEF Gathered
    <3>3. \A k : Seen(w, k)' = Seen(w, k)
      BY <1>1, <2>10, <2>11 DEF Seen, At, Nothing, Object
    <3>4. \A k : (Fresh(w, k)' <=> Fresh(w, k)) /\ TrueRow(w, k)' = TrueRow(w, k)
                 /\ (Awaits(w, k)' <=> Awaits(w, k))
      BY <2>10, <2>11, <3>3 DEF Fresh, TrueRow, Awaits, Row, Object, Live
    <3>5. \A k : Has(w, k) => Has(w, k)'
      BY <2>7, <2>8, <3>2 DEF Has
    <3>6. \A s \in Gathered(w)' : s = TrueRow(w, s.key)'
      BY <2>4, <2>6, <3>2, <3>4
    <3>7. worker[w].phase \notin {"items", "collections"}
      BY <1>1, <2>2 DEF ReadSoFar, Gathered
    <3>8. ReadSoFar(w)'
      BY <2>2, <2>10, <2>11, <3>3, <3>4, <3>5, <3>6, <3>7 DEF ReadSoFar
    <3>9. worker'[w].lease <= job'[l].attempts /\ worker'[w].from <= Version(l)'
          /\ worker'[w].observed <= Version(l)' /\ worker'[w].from <= worker'[w].observed
      BY <1>1, <2>10, <2>11, <3>1, <3>7 DEF HandAgrees
    <3> QED BY <1>1, <2>2, <2>10, <2>11, <3>1, <3>8, <3>9 DEF HandAgrees
  <2>15. (\A m \in Libraries : BooksAgree(m)') /\ (\A v \in Workers : HandAgrees(v)')
    <3>1. \A m \in Libraries \ {l} :
             /\ job'[m] = job[m] /\ runs'[m] = runs[m] /\ ledger'[m] = ledger[m]
             /\ stages'[m] = stages[m] /\ library'[m].cursor = library[m].cursor
      BY <1>1, <2>1 DEF SInv, Typed
    <3>2. job[l].attempts <= job'[l].attempts
      BY <1>1, <2>2 DEF JobRow
    <3>3. \A v \in Workers \ {w} : worker[v].lib = l => ~Holds(v)'
      BY <1>1, <2>2, <2>11 DEF Holds, Working
    <3> QED BY <1>1, <2>2, <2>11, <2>12, <2>13, <2>14, <3>1, <3>2, <3>3, OneLibraryStep
  <2>16. HistoryIsTrue' /\ SnapshotExact' /\ InboxFollowsSource'
    BY <1>1, CopyKept
  <2> QED BY <2>12, <2>15, <2>16 DEF SInv
<1> QED BY <1>2, <1>3

LEMMA FailLeaseStep ==
  ASSUME SInv, NEW w \in Workers, FailLease(w)
  PROVE  SInv'
<1>1. /\ Working(w) /\ worker[w].phase = "failing" /\ GoIdle(w)
      /\ UNCHANGED <<history, mirror, inbox, refresh, asks>>
  BY DEF FailLease, Working
<1>2. CASE ~LeaseIsCurrent(w)
  <2>1. UNCHANGED <<connection, seen, library, job, ledger, runs, stages>>
    BY <1>2 DEF FailLease
  <2> QED BY <1>1, <2>1, IdleStep DEF database
<1>3. CASE LeaseIsCurrent(w)
  <2> PICK l \in Libraries : l = worker[w].lib
    BY <1>1, HandTyped DEF SInv
  <2> DEFINE b == worker[w].failure.backoff
             retries == worker[w].failure.retryable /\ BudgetLeft(l)
             final == IF worker[w].failure.retryable THEN "DEAD_LETTER" ELSE "FAILED"
             j == Unleased(job[l], IF retries THEN "RETRYING" ELSE final, retries /\ b)
             a == IF retries THEN "FAILED" ELSE final
             rows == [ledger[l] EXCEPT ![worker[w].lease] = a]
             f == [runs[l][worker[w].run] EXCEPT !.status = IF retries THEN "BACKING_OFF" ELSE "FAILED"]
             rs == [runs[l] EXCEPT ![worker[w].run] = f]
             x == [library[l] EXCEPT !.readable = @ /\ worker[w].failure.code # "forbidden"]
             c == [connection EXCEPT !.status = IF worker[w].failure.code = "authentication"
                                                THEN "REVOKED" ELSE @, !.backoff = @ \/ b]
  <2>1. /\ job' = [job EXCEPT ![l] = j] /\ runs' = [runs EXCEPT ![l] = rs]
        /\ ledger' = [ledger EXCEPT ![l] = rows] /\ stages' = ClearedStages(l, worker[w].run)
        /\ library' = [library EXCEPT ![l] = x] /\ connection' = c
        /\ seen' = {} \/ seen' = seen
    BY <1>3, Zenon DEF FailLease, RunIs
  <2>2. /\ l \in Libraries /\ job[l] \in JobRow /\ job[l].status = "RUNNING"
        /\ worker[w].run = job[l].run
        /\ worker[w].run \in 1..Len(runs[l]) /\ worker[w].run = Len(runs[l]) /\ runs[l] \in Seq(RunRow)
        /\ runs[l][worker[w].run] = [status |-> "RUNNING", from |-> library[l].cursor]
        /\ ledger[l] \in Seq({"RUNNING"} \cup Terminal)
        /\ worker[w].lease \in 1..Len(ledger[l])
        /\ ClearedStages(l, worker[w].run) = [stages EXCEPT ![l] = {}]
    BY <1>1, <1>3, CurrentFacts
  <2>3. worker[w].failure \in FailureRow /\ library[l] \in LibraryRow /\ retries \in BOOLEAN
        /\ connection \in [status : {"ACTIVE", "REVOKED", "DISCONNECTED"}, backoff : BOOLEAN]
    BY <1>1, <2>2 DEF SInv, Typed
  <2>4. b \in BOOLEAN /\ final \in {"DEAD_LETTER", "FAILED"}
    BY <2>3 DEF FailureRow
  <2> HIDE DEF b, retries
  <2>5. c \in [status : {"ACTIVE", "REVOKED", "DISCONNECTED"}, backoff : BOOLEAN]
    BY <2>3, <2>4
  <2>6. x \in LibraryRow /\ x.cursor = library[l].cursor
    BY <2>3 DEF LibraryRow
  <2> HIDE DEF x, c, final
  <2>7. /\ j \in JobRow /\ j.run = job[l].run /\ j.attempts = job[l].attempts /\ j.max = job[l].max
        /\ j.lease <= j.attempts
        /\ j.status = (IF retries THEN "RETRYING" ELSE final)
    <3> DEFINE status == IF retries THEN "RETRYING" ELSE final
               held == retries /\ b
    <3>1. status \in {"NONE"} \cup ActiveJob \cup Terminal
      BY <2>4 DEF ActiveJob, Terminal
    <3>2. held \in BOOLEAN
      OBVIOUS
    <3>3. j = Unleased(job[l], status, held)
      OBVIOUS
    <3>4. (IF retries THEN "RETRYING" ELSE final) = status
      OBVIOUS
    <3>5. job[l] \in JobRow
      BY <2>2
    <3> HIDE DEF j, status, held
    <3>6. /\ j \in JobRow /\ j.status = status /\ j.run = job[l].run
          /\ j.attempts = job[l].attempts /\ j.max = job[l].max /\ j.lease <= j.attempts
      BY <3>1, <3>2, <3>3, <3>5, UnleasedTyped, Zenon
    <3> QED BY <3>4, <3>6, Zenon
  <2>8. a \in Terminal
    BY <2>4 DEF Terminal
  <2>9. f \in RunRow /\ f.status = (IF retries THEN "BACKING_OFF" ELSE "FAILED")
    BY <2>2, <2>3 DEF RunRow, ActiveRun, LibraryRow
  <2> HIDE DEF j, a, f
  <2>10. rs \in Seq(RunRow) /\ Len(rs) = Len(runs[l]) /\ rs[worker[w].run] = f
         /\ \A i \in 1..Len(rs) : i # worker[w].run => rs[i] = runs[l][i]
    BY <2>2, <2>9
  <2>11. rows \in Seq({"RUNNING"} \cup Terminal) /\ Len(rows) = Len(ledger[l])
    BY <2>2, <2>8
  <2> HIDE DEF rs, rows
  <2>12. job'[l] = j /\ runs'[l] = rs /\ stages'[l] = {} /\ ledger'[l] = rows /\ library'[l] = x
         /\ worker'[w] = Idle /\ \A v \in Workers \ {w} : worker'[v] = worker[v]
    BY <1>1, <2>1, <2>2 DEF SInv, Typed, GoIdle
  <2>13. Typed'
    <3>1. job' \in [Libraries -> JobRow] /\ runs' \in [Libraries -> Seq(RunRow)]
          /\ stages' \in [Libraries -> SUBSET StageRows]
          /\ ledger' \in [Libraries -> Seq({"RUNNING"} \cup Terminal)]
          /\ library' \in [Libraries -> LibraryRow]
      BY <2>1, <2>2, <2>6, <2>7, <2>10, <2>11 DEF SInv, Typed
    <3>2. (\A m \in Libraries : Version(m) <= MaxVersion)'
      BY <1>1 DEF SInv, Typed, Version
    <3>3. worker' \in [Workers -> {Idle} \cup PassRow] /\ seen' \subseteq Workers
      BY <1>1, <2>1 DEF SInv, Typed, GoIdle
    <3>4. \A v \in Workers : worker'[v].phase = "failing" => worker'[v].failure \in FailureRow
      <4>1. worker'[w].phase # "failing"
        BY <2>12 DEF Idle
      <4>2. \A v \in Workers : worker[v].phase = "failing" => worker[v].failure \in FailureRow
        BY DEF SInv, Typed
      <4> QED BY <2>12, <4>1, <4>2
    <3> QED BY <1>1, <2>1, <2>5, <3>1, <3>2, <3>3, <3>4 DEF SInv, Typed
  <2>14. BooksAgree(l)'
    <3>1. BooksAgree(l) /\ Version(l)' = Version(l)
      BY <1>1, <2>2 DEF SInv, Version
    <3>2. \A i \in 1..Len(rs) : rs[i].status \in ActiveRun => i = worker[w].run /\ retries
      BY <2>2, <2>9, <2>10, <3>1 DEF BooksAgree, ActiveRun
    <3>3. j.status # "RUNNING" /\ j.status # "NONE" /\ (j.status \in ActiveJob <=> retries)
      BY <2>3, <2>4, <2>7 DEF ActiveJob
    <3>4. retries => rs[j.run].status \in ActiveRun
      BY <2>2, <2>7, <2>9, <2>10 DEF ActiveRun
    <3>5. j.run = Len(rs) /\ j.run <= MaxRuns /\ j.run > 0 /\ j.attempts = Len(rows)
          /\ j.attempts <= j.max /\ j.max <= Budget * j.run /\ j.lease <= j.attempts
      BY <2>2, <2>7, <2>10, <2>11, <3>1 DEF BooksAgree
    <3>6. library'[l].cursor <= Version(l)'
      BY <2>6, <2>12, <3>1 DEF BooksAgree
    <3> QED BY <2>2, <2>7, <2>12, <3>2, <3>3, <3>4, <3>5, <3>6 DEF BooksAgree
  <2>15. HandAgrees(w)'
    BY <2>12 DEF HandAgrees, Working, Idle
  <2>16. \A m \in Libraries : library'[m].cursor = library[m].cursor
    BY <2>1, <2>6 DEF SInv, Typed
  <2>17. (\A m \in Libraries : BooksAgree(m)') /\ (\A v \in Workers : HandAgrees(v)')
    <3>1. \A m \in Libraries \ {l} :
             /\ job'[m] = job[m] /\ runs'[m] = runs[m] /\ ledger'[m] = ledger[m]
             /\ stages'[m] = stages[m] /\ library'[m].cursor = library[m].cursor
      BY <2>1, <2>2, <2>16 DEF SInv, Typed
    <3>2. job[l].attempts <= job'[l].attempts
      BY <2>2, <2>7, <2>12 DEF JobRow
    <3>3. j.status # "RUNNING"
      BY <2>3, <2>4, <2>7
    <3>4. \A v \in Workers \ {w} : worker[v].lib = l => ~Holds(v)'
      BY <2>12, <3>3 DEF Holds
    <3> QED BY <1>1, <2>2, <2>12, <2>13, <2>14, <2>15, <3>1, <3>2, <3>4, OneLibraryStep
  <2>18. HistoryIsTrue' /\ SnapshotExact' /\ InboxFollowsSource'
    BY <1>1, <2>16, CopyKept
  <2> QED BY <2>13, <2>17, <2>18 DEF SInv
<1> QED BY <1>2, <1>3

\* What a complete pass has staged: the library at one version.  An object that
\* has no row is as it was at the version the pass started from.
LEMMA CompletePass ==
  ASSUME SInv, NEW w \in Workers, Working(w), LeaseIsCurrent(w),
         worker[w].phase = "commit", worker[w].buffer = {},
         NEW l \in Libraries, l = worker[w].lib
  PROVE  LET h == worker[w] IN
         /\ h.observed \in 0..Version(l) /\ h.from <= h.observed /\ h.from = library[l].cursor
         /\ h.observed \in 0..MaxVersion
         /\ At(l, h.observed) \in [Keys -> Objects]
         /\ \A k \in StagedKeys(l, h.run) :
              RowOf(l, h.run, k) =
                Row(h.run, k, IF At(l, h.observed)[k].kind \in Live(k) THEN At(l, h.observed)[k]
                              ELSE Object(h.observed, "gone"))
         /\ \A k \in Keys \ StagedKeys(l, h.run) : At(l, h.observed)[k] = At(l, library[l].cursor)[k]
<1> DEFINE h == worker[w]
<1>1. /\ h.from = library[l].cursor /\ ReadSoFar(w) /\ \A s \in stages[l] : s.run = h.run
  BY CurrentFacts
<1>2. h.from \in 0..MaxVersion /\ h.observed \in 0..MaxVersion /\ Version(l) \in 0..MaxVersion
  BY HandTyped DEF SInv
<1>3. h.observed <= Version(l) /\ h.from <= h.observed
  BY DEF SInv, HandAgrees
<1>4. h.observed \in 0..Version(l) /\ h.from \in 0..h.observed
  BY <1>2, <1>3, SyncBoundsAssumption
<1>5. At(l, h.observed) \in [Keys -> Objects]
  BY <1>4, AtTyped DEF SInv
<1>6. \A s \in stages[l] : s = TrueRow(w, s.key)
  BY <1>1 DEF ReadSoFar, Gathered
<1>7. ASSUME NEW k \in StagedKeys(l, h.run)
      PROVE  RowOf(l, h.run, k) = TrueRow(w, k)
  <2>1. \E s \in Staged(l, h.run) : s.key = k
    BY DEF StagedKeys
  <2>2. RowOf(l, h.run, k) \in Staged(l, h.run) /\ RowOf(l, h.run, k).key = k
    BY <2>1 DEF RowOf
  <2>3. RowOf(l, h.run, k) \in stages[l]
    BY <2>2 DEF Staged
  <2> QED BY <1>6, <2>2, <2>3
<1>8. ASSUME NEW k \in Keys \ StagedKeys(l, h.run)
      PROVE  At(l, h.observed)[k] = At(l, library[l].cursor)[k]
  <2>1. ~Has(w, k)
    BY <1>1 DEF Has, Gathered, StagedKeys, Staged
  <2>2. ~(Seen(w, k).ver > h.from)
    BY <1>1, <2>1 DEF ReadSoFar
  <2>3. Seen(w, k) = At(l, h.observed)[k] /\ Seen(w, k).ver \in 0..MaxVersion
    BY <1>5 DEF Seen, Objects
  <2>4. Seen(w, k).ver <= h.from
    BY <1>2, <2>2, <2>3, SyncBoundsAssumption
  <2> QED BY <1>1, <1>4, <2>3, <2>4 DEF SInv, HistoryIsTrue
<1> QED BY <1>1, <1>2, <1>3, <1>4, <1>5, <1>7, <1>8 DEF TrueRow, Seen

LEMMA PublishStep ==
  ASSUME SInv, NEW w \in Workers, Publish(w)
  PROVE  SInv'
<1>1. Working(w) /\ LeaseIsCurrent(w) /\ worker[w].phase = "commit" /\ worker[w].buffer = {}
  BY DEF Publish, CanPublish, Working
<1> PICK l \in Libraries : l = worker[w].lib
  BY <1>1, HandTyped DEF SInv
<1> DEFINE g == worker[w]
           keys == StagedKeys(l, g.run)
           copy == [k \in Keys |->
             IF k \in keys THEN Mirrored(RowOf(l, g.run, k), g.observed) ELSE mirror[l][k]]
           entries == [k \in Items |->
             IF k \in keys THEN InboxAfter(inbox[l][k], RowOf(l, g.run, k).kind) ELSE inbox[l][k]]
           f == [runs[l][g.run] EXCEPT !.status = "SUCCEEDED"]
           rs == [runs[l] EXCEPT ![g.run] = f]
           j == Unleased(job[l], "SUCCEEDED", FALSE)
           rows == [ledger[l] EXCEPT ![g.lease] = "SUCCEEDED"]
           x == [library[l] EXCEPT !.cursor = g.observed]
<1>2. /\ job' = [job EXCEPT ![l] = j] /\ runs' = [runs EXCEPT ![l] = rs]
      /\ ledger' = [ledger EXCEPT ![l] = rows] /\ stages' = ClearedStages(l, g.run)
      /\ library' = [library EXCEPT ![l] = x]
      /\ mirror' = [mirror EXCEPT ![l] = copy] /\ inbox' = [inbox EXCEPT ![l] = entries]
      /\ GoIdle(w) \/ Fails(w, Failure("other", TRUE, FALSE))
      /\ UNCHANGED <<history, connection, seen, refresh, asks>>
  BY Zenon DEF Publish, RunIs
<1>3. /\ job[l] \in JobRow /\ job[l].status = "RUNNING" /\ g.run = job[l].run
      /\ g.run \in 1..Len(runs[l]) /\ g.run = Len(runs[l]) /\ runs[l] \in Seq(RunRow)
      /\ runs[l][g.run] = [status |-> "RUNNING", from |-> library[l].cursor]
      /\ ledger[l] \in Seq({"RUNNING"} \cup Terminal) /\ g.lease \in 1..Len(ledger[l])
      /\ ClearedStages(l, g.run) = [stages EXCEPT ![l] = {}]
  BY <1>1, CurrentFacts
<1>4. /\ g.observed \in 0..Version(l) /\ library[l].cursor <= g.observed
      /\ g.observed \in 0..MaxVersion
      /\ At(l, g.observed) \in [Keys -> Objects]
      /\ \A k \in keys :
           RowOf(l, g.run, k) =
             Row(g.run, k, IF At(l, g.observed)[k].kind \in Live(k) THEN At(l, g.observed)[k]
                           ELSE Object(g.observed, "gone"))
      /\ \A k \in Keys \ keys : At(l, g.observed)[k] = At(l, library[l].cursor)[k]
  BY <1>1, CompletePass
<1>5. worker[w] \in PassRow /\ library[l] \in LibraryRow /\ mirror[l] \in [Keys -> Objects]
      /\ inbox[l] \in [Items -> {"NONE", "PENDING", "WITHDRAWN", "IMPORTED"}]
  BY <1>1, PassTyped DEF SInv, Typed
<1>6. \A k \in Keys :
        LET source == At(l, g.observed)[k] IN
        /\ k \in keys /\ source.kind \in Live(k) => copy[k] = source
        /\ k \in keys /\ source.kind \notin Live(k) => copy[k] = Object(g.observed, "gone")
        /\ k \notin keys => copy[k] = mirror[l][k]
  <2> SUFFICES ASSUME NEW k \in Keys, k \in keys
               PROVE  /\ At(l, g.observed)[k].kind \in Live(k) => copy[k] = At(l, g.observed)[k]
                      /\ At(l, g.observed)[k].kind \notin Live(k) => copy[k] = Object(g.observed, "gone")
    OBVIOUS
  <2>1. At(l, g.observed)[k] \in Objects
    BY <1>4
  <2>2. CASE At(l, g.observed)[k].kind \in Live(k)
    <3>1. RowOf(l, g.run, k) = Row(g.run, k, At(l, g.observed)[k])
          /\ At(l, g.observed)[k].kind # "gone"
      BY <1>4, <2>2 DEF Live
    <3>2. Mirrored(RowOf(l, g.run, k), g.observed) = At(l, g.observed)[k]
      BY <2>1, <3>1 DEF Mirrored, Row, Object, Objects
    <3> QED BY <2>2, <3>2
  <2>3. CASE At(l, g.observed)[k].kind \notin Live(k)
    <3>1. RowOf(l, g.run, k) = Row(g.run, k, Object(g.observed, "gone"))
      BY <1>4, <2>3
    <3>2. Mirrored(RowOf(l, g.run, k), g.observed) = Object(g.observed, "gone")
      BY <3>1 DEF Mirrored, Row, Object
    <3> QED BY <2>3, <3>2
  <2> QED BY <2>2, <2>3
<1>7. \A k \in Items :
        LET source == At(l, g.observed)[k] IN
        /\ k \in keys /\ source.kind \in Live(k) => entries[k] = InboxAfter(inbox[l][k], source.kind)
        /\ k \in keys /\ source.kind \notin Live(k) => entries[k] = InboxAfter(inbox[l][k], "gone")
        /\ k \notin keys => entries[k] = inbox[l][k]
  <2> SUFFICES ASSUME NEW k \in Items, k \in keys
               PROVE  /\ At(l, g.observed)[k].kind \in Live(k) =>
                           RowOf(l, g.run, k).kind = At(l, g.observed)[k].kind
                      /\ At(l, g.observed)[k].kind \notin Live(k) => RowOf(l, g.run, k).kind = "gone"
    OBVIOUS
  <2>1. CASE At(l, g.observed)[k].kind \in Live(k)
    <3>1. RowOf(l, g.run, k) = Row(g.run, k, At(l, g.observed)[k])
      BY <1>4, <2>1
    <3> QED BY <2>1, <3>1 DEF Row
  <2>2. CASE At(l, g.observed)[k].kind \notin Live(k)
    <3>1. RowOf(l, g.run, k) = Row(g.run, k, Object(g.observed, "gone"))
      BY <1>4, <2>2
    <3> QED BY <2>2, <3>1 DEF Row, Object
  <2> QED BY <2>1, <2>2
<1>8. copy \in [Keys -> Objects]
  <2>1. \A k \in Keys : copy[k] \in Objects
    <3> SUFFICES ASSUME NEW k \in Keys
                 PROVE  copy[k] \in Objects
      OBVIOUS
    <3>1. At(l, g.observed)[k] \in Objects /\ Object(g.observed, "gone") \in Objects
          /\ mirror[l][k] \in Objects
      BY <1>4, <1>5 DEF Objects, Object, Kinds
    <3> HIDE DEF copy, keys
    <3> QED BY <1>6, <3>1
  <2> QED BY <2>1
<1>9. entries \in [Items -> {"NONE", "PENDING", "WITHDRAWN", "IMPORTED"}]
  <2>1. \A k \in Items : entries[k] \in {"NONE", "PENDING", "WITHDRAWN", "IMPORTED"}
    BY <1>5 DEF InboxAfter
  <2> QED BY <2>1
<1> HIDE DEF copy, entries, keys
<1>10. f \in RunRow /\ f.status = "SUCCEEDED"
  BY <1>3, <1>5 DEF RunRow, ActiveRun, LibraryRow
<1>11. /\ j \in JobRow /\ j.status = "SUCCEEDED" /\ j.run = job[l].run /\ j.attempts = job[l].attempts
       /\ j.max = job[l].max /\ j.lease <= j.attempts
  BY <1>3, UnleasedTyped DEF Terminal
<1>12. x \in LibraryRow /\ x.cursor = g.observed
  BY <1>4, <1>5 DEF LibraryRow
<1>13. rows \in Seq({"RUNNING"} \cup Terminal) /\ Len(rows) = Len(ledger[l])
  BY <1>3 DEF Terminal
<1> HIDE DEF f, j, x, rows
<1>14. rs \in Seq(RunRow) /\ Len(rs) = Len(runs[l]) /\ rs[g.run] = f
       /\ \A i \in 1..Len(rs) : i # g.run => rs[i] = runs[l][i]
  BY <1>3, <1>10
<1> HIDE DEF rs
<1>15. PICK h : /\ worker' = [worker EXCEPT ![w] = h]
                /\ h = Idle \/ (/\ h \in PassRow /\ h.phase = "failing" /\ h.failure \in FailureRow
                                /\ h.lib = l /\ h.lease = g.lease /\ h.from = g.from
                                /\ h.observed = g.observed)
  <2>1. CASE GoIdle(w)
    BY <2>1 DEF GoIdle
  <2>2. CASE Fails(w, Failure("other", TRUE, FALSE))
    <3> DEFINE h == [worker[w] EXCEPT !.phase = "failing", !.failure = Failure("other", TRUE, FALSE)]
    <3>1. worker' = [worker EXCEPT ![w] = h]
      BY <2>2, Zenon DEF Fails
    <3>2. Failure("other", TRUE, FALSE) \in FailureRow
      BY DEF Failure, FailureRow
    <3>3. /\ h \in PassRow /\ h.phase = "failing" /\ h.failure \in FailureRow
          /\ h.lib = l /\ h.lease = g.lease /\ h.from = g.from /\ h.observed = g.observed
      BY <1>5, <3>2 DEF PassRow
    <3> HIDE DEF h
    <3> QED BY <3>1, <3>3
  <2> QED BY <1>2, <2>1, <2>2
<1>16. /\ job'[l] = j /\ runs'[l] = rs /\ stages'[l] = {} /\ ledger'[l] = rows /\ library'[l] = x
       /\ mirror'[l] = copy /\ inbox'[l] = entries
       /\ worker'[w] = h /\ \A v \in Workers \ {w} : worker'[v] = worker[v]
  BY <1>2, <1>3, <1>15 DEF SInv, Typed
<1>17. \A m \in Libraries \ {l} :
         /\ job'[m] = job[m] /\ runs'[m] = runs[m] /\ ledger'[m] = ledger[m]
         /\ stages'[m] = stages[m] /\ library'[m] = library[m]
         /\ mirror'[m] = mirror[m] /\ inbox'[m] = inbox[m]
  BY <1>2, <1>3 DEF SInv, Typed
<1>18. Typed'
  <2>1. job' \in [Libraries -> JobRow] /\ runs' \in [Libraries -> Seq(RunRow)]
        /\ stages' \in [Libraries -> SUBSET StageRows]
        /\ ledger' \in [Libraries -> Seq({"RUNNING"} \cup Terminal)]
        /\ library' \in [Libraries -> LibraryRow]
    BY <1>2, <1>3, <1>11, <1>12, <1>13, <1>14 DEF SInv, Typed
  <2>2. mirror' \in [Libraries -> [Keys -> Objects]]
        /\ inbox' \in [Libraries -> [Items -> {"NONE", "PENDING", "WITHDRAWN", "IMPORTED"}]]
    BY <1>2, <1>8, <1>9 DEF SInv, Typed
  <2>3. (\A m \in Libraries : Version(m) <= MaxVersion)'
    BY <1>2 DEF SInv, Typed, Version
  <2>4. worker' \in [Workers -> {Idle} \cup PassRow]
    BY <1>15 DEF SInv, Typed
  <2>5. \A v \in Workers : worker'[v].phase = "failing" => worker'[v].failure \in FailureRow
    <3>1. worker'[w].phase = "failing" => worker'[w].failure \in FailureRow
      BY <1>15, <1>16 DEF Idle
    <3>2. \A v \in Workers : worker[v].phase = "failing" => worker[v].failure \in FailureRow
      BY DEF SInv, Typed
    <3> QED BY <1>16, <3>1, <3>2
  <2> QED BY <1>2, <2>1, <2>2, <2>3, <2>4, <2>5 DEF SInv, Typed
<1>19. BooksAgree(l)'
  <2>1. BooksAgree(l) /\ Version(l)' = Version(l)
    BY <1>2 DEF SInv, Version
  <2>2. \A i \in 1..Len(rs) : rs[i].status \notin ActiveRun
    BY <1>3, <1>10, <1>14, <2>1 DEF BooksAgree, ActiveRun
  <2>3. j.run = Len(rs) /\ j.run <= MaxRuns /\ j.run > 0 /\ j.attempts = Len(rows)
        /\ j.attempts <= j.max /\ j.max <= Budget * j.run /\ j.lease <= j.attempts
    BY <1>3, <1>11, <1>13, <1>14, <2>1 DEF BooksAgree
  <2>4. library'[l].cursor <= Version(l)'
    BY <1>4, <1>12, <1>16, <2>1
  <2>5. j.status \notin ActiveJob /\ j.status # "RUNNING"
    BY <1>11 DEF ActiveJob
  <2> QED BY <1>16, <2>2, <2>3, <2>4, <2>5 DEF BooksAgree
<1>20. HandAgrees(w)'
  <2>1. CASE h = Idle
    BY <1>16, <2>1 DEF HandAgrees, Working, Idle
  <2>2. CASE h # Idle
    <3>1. h.lib = l /\ h.lease = g.lease /\ h.from = g.from /\ h.observed = g.observed
          /\ h.phase = "failing"
      BY <1>15, <2>2
    <3>2. HandAgrees(w) /\ Version(l)' = Version(l)
      BY <1>2 DEF SInv, Version
    <3>3. ~Holds(w)'
      BY <1>11, <1>16, <3>1 DEF Holds
    <3>4. /\ worker'[w].lease <= job'[l].attempts /\ worker'[w].from <= Version(l)'
          /\ worker'[w].observed <= Version(l)'
      BY <1>1, <1>11, <1>16, <3>1, <3>2 DEF HandAgrees
    <3> QED BY <1>16, <3>1, <3>3, <3>4 DEF HandAgrees
  <2> QED BY <2>1, <2>2
<1>21. (\A m \in Libraries : BooksAgree(m)') /\ (\A v \in Workers : HandAgrees(v)')
  <2>1. job[l].attempts <= job'[l].attempts
    BY <1>3, <1>11, <1>16 DEF JobRow
  <2>2. \A v \in Workers \ {w} : worker[v].lib = l => ~Holds(v)'
    BY <1>11, <1>16 DEF Holds
  <2>3. \A m \in Libraries \ {l} :
           /\ job'[m] = job[m] /\ runs'[m] = runs[m] /\ ledger'[m] = ledger[m]
           /\ stages'[m] = stages[m] /\ library'[m].cursor = library[m].cursor
    BY <1>17
  <2> QED BY <1>2, <1>16, <1>18, <1>19, <1>20, <2>1, <2>2, <2>3, OneLibraryStep
<1>22. \A m \in Libraries : \A v : At(m, v)' = At(m, v)
  BY <1>2 DEF At, Nothing, Object
<1>23. HistoryIsTrue'
  <2>1. \A m \in Libraries : Version(m)' = Version(m)
    BY <1>2 DEF Version
  <2> SUFFICES ASSUME NEW m \in Libraries, NEW v \in 0..Version(m), NEW k \in Keys
               PROVE  LET object == At(m, v)[k] IN
                      /\ object.ver <= v /\ object.kind \in Live(k) \cup {"gone", "absent"}
                      /\ object.ver > 0 => object.kind # "absent"
                      /\ \A u \in 0..v : object.ver <= u => object = At(m, u)[k]
    BY <1>22, <2>1 DEF HistoryIsTrue, Live
  <2> QED BY DEF SInv, HistoryIsTrue
<1>24. SnapshotExact'
  <2> SUFFICES ASSUME NEW m \in Libraries, NEW k \in Keys
               PROVE  LET source == At(m, library[m].cursor)'[k] IN
                      IF source.kind \in Live(k) THEN mirror'[m][k] = source
                      ELSE mirror'[m][k].kind \in {"absent", "gone"}
    BY Zenon DEF SnapshotExact, Live
  <2>1. At(m, library[m].cursor)' = At(m, library'[m].cursor)
    BY <1>2 DEF At, Nothing, Object
  <2>2. LET source == At(m, library[m].cursor)[k] IN
        IF source.kind \in Live(k) THEN mirror[m][k] = source
        ELSE mirror[m][k].kind \in {"absent", "gone"}
    BY DEF SInv, SnapshotExact
  <2>3. CASE m # l
    BY <1>17, <2>1, <2>2, <2>3
  <2>4. CASE m = l /\ k \notin keys
    <3>1. At(m, library'[m].cursor)[k] = At(m, library[m].cursor)[k]
      BY <1>4, <1>12, <1>16, <2>4
    <3>2. mirror'[m][k] = mirror[m][k]
      BY <1>6, <1>16, <2>4
    <3> QED BY <2>1, <2>2, <3>1, <3>2
  <2>5. CASE m = l /\ k \in keys
    <3>1. library'[m].cursor = g.observed /\ mirror'[m][k] = copy[k]
      BY <1>12, <1>16, <2>5
    <3>2. Object(g.observed, "gone").kind = "gone"
      BY DEF Object
    <3> QED BY <1>6, <2>1, <2>5, <3>1, <3>2
  <2> QED BY <2>3, <2>4, <2>5
<1>25. InboxFollowsSource'
  <2> SUFFICES ASSUME NEW m \in Libraries, NEW k \in Items
               PROVE  /\ inbox'[m][k] = "PENDING" => mirror'[m][k].kind \in Live(k)
                      /\ mirror'[m][k].kind = "paper" => inbox'[m][k] \in {"PENDING", "IMPORTED"}
    BY Zenon DEF InboxFollowsSource, Live
  <2>1. /\ inbox[m][k] = "PENDING" => mirror[m][k].kind \in Live(k)
        /\ mirror[m][k].kind = "paper" => inbox[m][k] \in {"PENDING", "IMPORTED"}
        /\ inbox[m][k] \in {"NONE", "PENDING", "WITHDRAWN", "IMPORTED"}
        /\ k \in Keys /\ Live(k) = {"paper", "other"}
    BY DEF SInv, InboxFollowsSource, Typed, Keys, Live
  <2>2. CASE m # l
    BY <1>17, <2>1, <2>2
  <2>3. CASE m = l /\ k \notin keys
    BY <1>6, <1>7, <1>16, <2>1, <2>3
  <2>4. CASE m = l /\ k \in keys /\ At(l, g.observed)[k].kind \in Live(k)
    <3>1. mirror'[m][k] = At(l, g.observed)[k]
          /\ inbox'[m][k] = InboxAfter(inbox[m][k], At(l, g.observed)[k].kind)
      BY <1>6, <1>7, <1>16, <2>1, <2>4
    <3> QED BY <2>1, <2>4, <3>1 DEF InboxAfter
  <2>5. CASE m = l /\ k \in keys /\ At(l, g.observed)[k].kind \notin Live(k)
    <3>1. mirror'[m][k] = Object(g.observed, "gone") /\ inbox'[m][k] = InboxAfter(inbox[m][k], "gone")
      BY <1>6, <1>7, <1>16, <2>1, <2>5
    <3> QED BY <2>1, <3>1 DEF InboxAfter, Object
  <2> QED BY <2>2, <2>3, <2>4, <2>5
<1> QED BY <1>18, <1>21, <1>23, <1>24, <1>25 DEF SInv
-----------------------------------------------------------------------------
(* The provider, the users and time.                                       *)

LEMMA ProviderStep ==
  ASSUME SInv, NEW l \in Libraries, NEW key \in Keys, NEW kind \in Live(key) \cup {"gone"},
         ProviderChanges(l, key, kind)
  PROVE  SInv'
<1> PICK n \in 0..MaxVersion : n = Version(l)
  BY VersionTyped DEF SInv
<1> DEFINE new == [At(l, n) EXCEPT ![key] = Object(n + 1, kind)]
<1>1. /\ n < MaxVersion /\ history' = [history EXCEPT ![l] = Append(history[l], new)]
      /\ UNCHANGED <<connection, seen, library, mirror, inbox, job, ledger, runs, stages, worker, refresh, asks>>
  BY DEF ProviderChanges, database
<1>2. n \in 0..MaxVersion /\ At(l, n) \in [Keys -> Objects] /\ history[l] \in Seq([Keys -> Objects])
  BY VersionTyped, AtTyped, SyncBoundsAssumption DEF SInv, Typed
<1>3. /\ new \in [Keys -> Objects] /\ new[key] = Object(n + 1, kind)
      /\ \A k \in Keys \ {key} : new[k] = At(l, n)[k]
  <2>1. Object(n + 1, kind) \in Objects
    BY <1>1, <1>2, SyncBoundsAssumption DEF Objects, Object, Kinds, Live
  <2> QED BY <1>2, <2>1
<1> HIDE DEF new
<1>4. /\ history'[l] = Append(history[l], new) /\ Len(history'[l]) = n + 1
      /\ history'[l][n + 1] = new /\ \A i \in 1..n : history'[l][i] = history[l][i]
      /\ \A m \in Libraries \ {l} : history'[m] = history[m]
  BY <1>1, <1>2, <1>3 DEF SInv, Typed, Version
<1>5. Version(l)' = n + 1 /\ \A m \in Libraries \ {l} : Version(m)' = Version(m)
  BY <1>4 DEF Version
<1>6. \A m \in Libraries : \A v \in 0..Version(m) : At(m, v)' = At(m, v)
  <2> SUFFICES ASSUME NEW m \in Libraries, NEW v \in 0..Version(m)
               PROVE  At(m, v)' = At(m, v)
    OBVIOUS
  <2>1. CASE v = 0 \/ m # l
    BY <1>4, <2>1 DEF At, Nothing, Object
  <2>2. CASE v # 0 /\ m = l
    <3>1. v \in 1..n /\ history'[m][v] = history[m][v]
      BY <1>4, <2>2
    <3> QED BY <2>2, <3>1 DEF At, Nothing, Object
  <2> QED BY <2>1, <2>2
<1>7. At(l, n + 1)' = new
  BY <1>2, <1>4 DEF At
<1>8. \A m \in Libraries : /\ Version(m) \in 0..MaxVersion /\ Version(m) <= Version(m)'
                           /\ Version(m)' \in 0..MaxVersion /\ Version(m) \in Nat /\ Version(m)' \in Nat
  BY <1>1, <1>2, <1>5, VersionTyped, SyncBoundsAssumption DEF SInv
<1>9. Typed'
  <2>1. history' \in [Libraries -> Seq([Keys -> Objects])]
    <3>1. Append(history[l], new) \in Seq([Keys -> Objects])
      BY <1>2, <1>3
    <3>2. history \in [Libraries -> Seq([Keys -> Objects])]
      BY DEF SInv, Typed
    <3> QED BY <1>1, <3>1, <3>2
  <2>2. (\A m \in Libraries : Version(m) <= MaxVersion)'
    BY <1>8
  <2> QED BY <1>1, <2>1, <2>2 DEF SInv, Typed
<1>10. HistoryIsTrue'
  <2> SUFFICES ASSUME NEW m \in Libraries, NEW v \in 0..(Version(m)'), NEW k \in Keys
               PROVE  LET object == At(m, v)'[k] IN
                      /\ object.ver <= v /\ object.kind \in Live(k) \cup {"gone", "absent"}
                      /\ object.ver > 0 => object.kind # "absent"
                      /\ \A u \in 0..v : object.ver <= u => object = At(m, u)'[k]
    BY Zenon DEF HistoryIsTrue, Live
  <2>1. CASE v \in 0..Version(m)
    <3>1. LET object == At(m, v)[k] IN
          /\ object.ver <= v /\ object.kind \in Live(k) \cup {"gone", "absent"}
          /\ object.ver > 0 => object.kind # "absent"
          /\ \A u \in 0..v : object.ver <= u => object = At(m, u)[k]
      BY <2>1 DEF SInv, HistoryIsTrue
    <3>2. At(m, v)' = At(m, v) /\ \A u \in 0..v : At(m, u)' = At(m, u)
      BY <1>6, <1>8, <2>1
    <3> QED BY <3>1, <3>2
  <2>2. CASE v \notin 0..Version(m)
    <3>1. m = l /\ v = n + 1
      BY <1>5, <1>8, <2>2
    <3>2. At(m, v)' = new
      BY <1>7, <3>1
    <3>3. \A u \in 0..v : u \in 0..n \/ u = n + 1
      BY <1>2, <3>1
    <3>4. CASE k = key
      <4>1. new[k] = [ver |-> n + 1, kind |-> kind]
        BY <1>3, <3>4 DEF Object
      <4>2. \A u \in 0..v : n + 1 <= u => u = v
        BY <1>2, <3>1
      <4>3. \A u \in 0..v : n + 1 <= u => new[k] = At(m, u)'[k]
        BY <3>2, <4>2
      <4>4. kind \in Live(k) \cup {"gone", "absent"} /\ kind # "absent"
        BY <3>4 DEF Live
      <4> QED BY <1>2, <3>1, <3>2, <4>1, <4>3, <4>4
    <3>5. CASE k # key
      <4>1. new[k] = At(l, n)[k]
        BY <1>3, <3>5
      <4>2. LET object == At(l, n)[k] IN
            /\ object.ver <= n /\ object.kind \in Live(k) \cup {"gone", "absent"}
            /\ object.ver > 0 => object.kind # "absent"
            /\ \A u \in 0..n : object.ver <= u => object = At(l, u)[k]
        BY <1>2 DEF SInv, HistoryIsTrue
      <4>3. At(l, n)[k] \in Objects
        BY <1>2
      <4>4. At(l, n)[k].ver <= v
        BY <1>2, <3>1, <4>2, <4>3, SyncBoundsAssumption DEF Objects
      <4>5. ASSUME NEW u \in 0..v, At(l, n)[k].ver <= u
            PROVE  new[k] = At(m, u)'[k]
        <5>1. CASE u \in 0..n
          BY <1>6, <3>1, <4>1, <4>2, <4>5, <5>1
        <5>2. CASE u = n + 1
          BY <3>1, <3>2, <5>2
        <5> QED BY <3>3, <5>1, <5>2
      <4> QED BY <3>2, <4>1, <4>2, <4>4, <4>5
    <3> QED BY <3>4, <3>5
  <2> QED BY <2>1, <2>2
<1>11. \A m \in Libraries : library[m].cursor \in 0..Version(m)
  <2> SUFFICES ASSUME NEW m \in Libraries
               PROVE  library[m].cursor \in 0..Version(m)
    OBVIOUS
  <2>1. library[m] \in LibraryRow /\ BooksAgree(m)
    BY DEF SInv, Typed
  <2>2. library[m].cursor \in Nat /\ library[m].cursor <= Version(m)
    BY <2>1, SyncBoundsAssumption DEF LibraryRow, BooksAgree
  <2> QED BY <1>8, <2>2
<1>12. SnapshotExact' /\ InboxFollowsSource'
  <2>1. InboxFollowsSource'
    BY <1>1, Zenon DEF SInv, InboxFollowsSource, Live
  <2> SUFFICES ASSUME NEW m \in Libraries, NEW k \in Keys
               PROVE  LET source == At(m, library[m].cursor)'[k] IN
                      IF source.kind \in Live(k) THEN mirror[m][k] = source
                      ELSE mirror[m][k].kind \in {"absent", "gone"}
    BY <1>1, <2>1, Zenon DEF SnapshotExact, Live
  <2>2. At(m, library[m].cursor)' = At(m, library[m].cursor)
    <3>1. At(m, library[m].cursor)' = (IF library[m].cursor = 0 THEN Nothing
                                          ELSE history'[m][library[m].cursor])
      BY <1>1 DEF At, Nothing, Object
    <3>2. \A v \in 0..Version(m) : (IF v = 0 THEN Nothing ELSE history'[m][v]) = At(m, v)
      BY <1>6 DEF At, Nothing, Object
    <3> QED BY <1>11, <3>1, <3>2
  <2> QED BY <2>2 DEF SInv, SnapshotExact
<1>13. ASSUME NEW m \in Libraries
       PROVE  BooksAgree(m)'
  BY <1>1, <1>8, <1>11, BooksKept DEF SInv
<1>14. ASSUME NEW w \in Workers
       PROVE  HandAgrees(w)'
  <2>1. ASSUME Working(w)
        PROVE  LET m == worker[w].lib IN
               /\ job[m].attempts \in Nat /\ job'[m].attempts \in Nat
               /\ job[m].attempts <= job'[m].attempts /\ worker[w].lease \in Nat
               /\ Version(m) \in Nat /\ Version(m)' \in Nat /\ Version(m) <= Version(m)'
               /\ worker[w].from \in Nat /\ worker[w].observed \in Nat
               /\ \A v \in 0..Version(m) : At(m, v)' = At(m, v)
    <3>1. PICK m \in Libraries : m = worker[w].lib
      BY <2>1, HandTyped DEF SInv
    <3>2. Version(worker[w].lib)' = Version(m)' /\ \A v : At(worker[w].lib, v)' = At(m, v)'
      BY <1>1, <3>1 DEF Version, At, Nothing, Object
    <3>3. job[m].attempts \in Nat
      BY DEF SInv, Typed, JobRow
    <3> QED BY <1>1, <1>6, <1>8, <2>1, <3>1, <3>2, <3>3, HandTyped, SyncBoundsAssumption DEF SInv
  <2>2. ASSUME Working(w), Holds(w)'
        PROVE  LET m == worker[w].lib IN
               /\ Holds(w) /\ job'[m].run = job[m].run
               /\ library'[m].cursor = library[m].cursor /\ stages'[m] = stages[m]
    BY <1>1, <2>2 DEF Holds, Working
  <2>3. HandAgrees(w) /\ worker'[w] = worker[w]
    BY <1>1 DEF SInv
  <2> QED BY <2>1, <2>2, <2>3, HandKept
<1> QED BY <1>9, <1>10, <1>12, <1>13, <1>14 DEF SInv

\* A step that leaves rows, workers and cursors alone, whatever it does to the
\* connection and to the other columns of the libraries.
LEMMA ConnectionStep ==
  ASSUME SInv, UNCHANGED <<history, mirror, inbox, ledger, runs, stages, worker>>,
         connection' \in [status : {"ACTIVE", "REVOKED", "DISCONNECTED"}, backoff : BOOLEAN],
         seen' \subseteq Workers, library' \in [Libraries -> LibraryRow],
         job' \in [Libraries -> JobRow],
         \A l \in Libraries :
           /\ library'[l].cursor = library[l].cursor
           /\ \A c \in {"status", "run", "attempts", "max", "lease", "by"} : job'[l][c] = job[l][c],
         refresh' \in {"idle", "asking", "stale"}, asks' \in 0..MaxAsks
  PROVE  SInv'
<1>1. Typed'
  <2>1. (\A m \in Libraries : Version(m) <= MaxVersion)'
    BY DEF SInv, Typed, Version
  <2> QED BY <2>1 DEF SInv, Typed
<1>2. HistoryIsTrue' /\ SnapshotExact' /\ InboxFollowsSource'
  BY CopyKept
<1>3. \A l \in Libraries :
        /\ job'[l].status = job[l].status /\ job'[l].run = job[l].run
        /\ job'[l].attempts = job[l].attempts /\ job'[l].max = job[l].max
        /\ job'[l].lease = job[l].lease /\ job'[l].by = job[l].by
  OBVIOUS
<1>4. ASSUME NEW l \in Libraries
      PROVE  BooksAgree(l)'
  <2>1. BooksAgree(l) /\ Version(l)' = Version(l) /\ library'[l].cursor = library[l].cursor
    BY DEF SInv, Version
  <2>2. runs' = runs /\ ledger' = ledger /\ stages' = stages
    OBVIOUS
  <2> QED BY <1>3, <2>1, <2>2 DEF BooksAgree
<1>5. \A w \in Workers : HandAgrees(w)'
  <2>1. \A l \in Libraries : BooksAgree(l)' /\ job[l].attempts <= job'[l].attempts
    BY <1>3, <1>4 DEF SInv, Typed, JobRow
  <2>2. \A w \in Workers : worker[w].lib \in Libraries /\ Working(w) /\ Holds(w)' =>
           LET l == worker[w].lib IN
           /\ Holds(w) /\ job'[l].run = job[l].run
           /\ library'[l].cursor = library[l].cursor /\ stages'[l] = stages[l]
    BY <1>3 DEF Holds, Working
  <2>3. Libraries \in SUBSET Libraries /\ {} \in SUBSET Workers
    OBVIOUS
  <2> QED BY <1>1, <2>1, <2>2, <2>3, RowsStep
<1> QED BY <1>1, <1>2, <1>4, <1>5 DEF SInv

LEMMA FlagTyped ==
  ASSUME NEW x \in LibraryRow, NEW b \in BOOLEAN
  PROVE  /\ [x EXCEPT !.readable = b] \in LibraryRow /\ [x EXCEPT !.readable = b].cursor = x.cursor
         /\ [x EXCEPT !.enabled = b] \in LibraryRow /\ [x EXCEPT !.enabled = b].cursor = x.cursor
BY DEF LibraryRow

LEMMA UsersStep ==
  ASSUME SInv,
         \/ \E L \in SUBSET Libraries : SelectLibraries(L) \/ Reconnect(L)
         \/ Disconnect \/ RefreshStarts \/ RefreshRefused
         \/ \E L \in SUBSET Libraries, b \in BOOLEAN : RefreshPublishes(L, b)
         \/ \E attention, b \in BOOLEAN : RefreshFails(attention, b)
  PROVE  SInv'
<1> USE DEF database
<1>1. /\ connection \in [status : {"ACTIVE", "REVOKED", "DISCONNECTED"}, backoff : BOOLEAN]
      /\ seen \subseteq Workers /\ library \in [Libraries -> LibraryRow] /\ job \in [Libraries -> JobRow]
      /\ refresh \in {"idle", "asking", "stale"} /\ asks \in 0..MaxAsks
  BY DEF SInv, Typed
<1>2. ASSUME NEW L \in SUBSET Libraries, Readable(L)
      PROVE  library' \in [Libraries -> LibraryRow]
             /\ \A l \in Libraries : library'[l].cursor = library[l].cursor
  <2> DEFINE x(l) == [library[l] EXCEPT !.readable = l \in L]
  <2>1. ASSUME NEW l \in Libraries
        PROVE  x(l) \in LibraryRow /\ x(l).cursor = library[l].cursor
    <3>1. library[l] \in LibraryRow /\ (l \in L) \in BOOLEAN
      BY <1>1
    <3> QED BY <3>1, FlagTyped, Zenon
  <2>2. library' = [l \in Libraries |-> x(l)]
    BY <1>2 DEF Readable
  <2> HIDE DEF x
  <2> QED BY <2>1, <2>2
<1>3. ASSUME NEW b \in BOOLEAN, Heard(b)
      PROVE  asks' \in 0..MaxAsks
  BY <1>1, <1>3, SyncBoundsAssumption DEF Heard
<1>4. ASSUME NEW L \in SUBSET Libraries, SelectLibraries(L)
      PROVE  SInv'
  <2>1. /\ library' = [l \in Libraries |-> [library[l] EXCEPT !.enabled = l \in L]]
        /\ seen' = {}
        /\ UNCHANGED <<history, connection, mirror, inbox, job, ledger, runs, stages, worker, refresh, asks>>
    BY <1>4 DEF SelectLibraries
  <2>2. library' \in [Libraries -> LibraryRow] /\ \A l \in Libraries : library'[l].cursor = library[l].cursor
    <3> DEFINE x(l) == [library[l] EXCEPT !.enabled = l \in L]
    <3>1. ASSUME NEW l \in Libraries
          PROVE  x(l) \in LibraryRow /\ x(l).cursor = library[l].cursor
      <4>1. library[l] \in LibraryRow /\ (l \in L) \in BOOLEAN
        BY <1>1
      <4> QED BY <4>1, FlagTyped, Zenon
    <3>2. library' = [l \in Libraries |-> x(l)]
      BY <2>1
    <3> HIDE DEF x
    <3> QED BY <3>1, <3>2
  <2> QED BY <1>1, <2>1, <2>2, ConnectionStep
<1>5. ASSUME NEW L \in SUBSET Libraries, Reconnect(L)
      PROVE  SInv'
  <2>1. /\ connection' = [status |-> "ACTIVE", backoff |-> FALSE] /\ Readable(L) /\ seen' = {}
        /\ NewGeneration
        /\ UNCHANGED <<history, mirror, inbox, job, ledger, runs, stages, worker, asks>>
    BY <1>5 DEF Reconnect
  <2>2. refresh' \in {"idle", "asking", "stale"}
    BY <1>1, <2>1 DEF NewGeneration
  <2> QED BY <1>1, <1>2, <2>1, <2>2, ConnectionStep
<1>6. ASSUME Disconnect
      PROVE  SInv'
  <2>1. /\ connection' = [connection EXCEPT !.status = "DISCONNECTED"]
        /\ library' = [l \in Libraries |-> [library[l] EXCEPT !.enabled = FALSE]]
        /\ seen' = {} /\ NewGeneration
        /\ UNCHANGED <<history, mirror, inbox, job, ledger, runs, stages, worker, asks>>
    BY <1>6 DEF Disconnect
  <2>2. library' \in [Libraries -> LibraryRow] /\ \A l \in Libraries : library'[l].cursor = library[l].cursor
    BY <1>1, <2>1 DEF LibraryRow
  <2>3. refresh' \in {"idle", "asking", "stale"}
    BY <1>1, <2>1 DEF NewGeneration
  <2>4. connection' \in [status : {"ACTIVE", "REVOKED", "DISCONNECTED"}, backoff : BOOLEAN]
    BY <1>1, <2>1
  <2> QED BY <1>1, <2>1, <2>2, <2>3, <2>4, ConnectionStep
<1>7. ASSUME RefreshStarts \/ RefreshRefused
      PROVE  SInv'
  <2>1. UNCHANGED <<history, database, worker, asks>> /\ refresh' \in {"idle", "asking", "stale"}
    BY <1>7 DEF RefreshStarts, RefreshRefused
  <2> QED BY <1>1, <2>1, ConnectionStep
<1>8. ASSUME NEW L \in SUBSET Libraries, NEW b \in BOOLEAN, RefreshPublishes(L, b)
      PROVE  SInv'
  <2>1. /\ connection' = [connection EXCEPT !.backoff = b] /\ Readable(L) /\ seen' = {}
        /\ Heard(b) /\ refresh' = "idle"
        /\ UNCHANGED <<history, mirror, inbox, job, ledger, runs, stages, worker>>
    BY <1>8 DEF RefreshPublishes
  <2>2. connection' \in [status : {"ACTIVE", "REVOKED", "DISCONNECTED"}, backoff : BOOLEAN]
    BY <1>1, <2>1
  <2> QED BY <1>1, <1>2, <1>3, <2>1, <2>2, ConnectionStep
<1>9. ASSUME NEW attention \in BOOLEAN, NEW b \in BOOLEAN, RefreshFails(attention, b)
      PROVE  SInv'
  <2>1. /\ Heard(b) /\ refresh' = "idle" /\ seen' \subseteq Workers
        /\ UNCHANGED <<history, library, mirror, inbox, job, ledger, runs, stages, worker>>
    BY <1>1, <1>9 DEF RefreshFails
  <2>2. connection' \in [status : {"ACTIVE", "REVOKED", "DISCONNECTED"}, backoff : BOOLEAN]
    <3>1. CASE attention \/ b
      <4>1. connection' = [status |-> IF attention THEN "ACTIVE" ELSE connection.status,
                           backoff |-> b \/ connection.backoff]
        BY <1>9, <3>1 DEF RefreshFails
      <4> QED BY <1>1, <4>1
    <3>2. CASE ~(attention \/ b)
      BY <1>1, <1>9, <3>2 DEF RefreshFails
    <3> QED BY <3>1, <3>2
  <2> QED BY <1>1, <1>3, <2>1, <2>2, ConnectionStep
<1> QED BY <1>4, <1>5, <1>6, <1>7, <1>8, <1>9

LEMMA FileEntryStep ==
  ASSUME SInv, NEW l \in Libraries, NEW k \in Items, FileEntry(l, k)
  PROVE  SInv'
<1>1. /\ inbox[l][k] = "PENDING"
      /\ inbox' = [inbox EXCEPT ![l][k] = "IMPORTED"]
      /\ UNCHANGED <<history, connection, seen, library, mirror, job, ledger, runs, stages, worker, refresh, asks>>
  BY DEF FileEntry
<1>2. Typed'
  <2>1. (\A m \in Libraries : Version(m) <= MaxVersion)'
    BY <1>1 DEF SInv, Typed, Version
  <2> QED BY <1>1, <2>1 DEF SInv, Typed
<1>3. HistoryIsTrue' /\ SnapshotExact'
  <2>1. HistoryIsTrue'
    <3>1. \A m, v : At(m, v)' = At(m, v)
      BY <1>1 DEF At, Nothing, Object
    <3>2. \A m : Version(m)' = Version(m)
      BY <1>1 DEF Version
    <3> SUFFICES ASSUME NEW m \in Libraries, NEW v \in 0..Version(m), NEW i \in Keys
                 PROVE  LET object == At(m, v)[i] IN
                        /\ object.ver <= v /\ object.kind \in Live(i) \cup {"gone", "absent"}
                        /\ object.ver > 0 => object.kind # "absent"
                        /\ \A u \in 0..v : object.ver <= u => object = At(m, u)[i]
      BY <3>1, <3>2 DEF HistoryIsTrue, Live
    <3> QED BY DEF SInv, HistoryIsTrue
  <2>2. SnapshotExact'
    <3>1. \A m \in Libraries : At(m, library[m].cursor)' = At(m, library[m].cursor)
      BY <1>1 DEF At, Nothing, Object
    <3> QED BY <1>1, <3>1 DEF SInv, SnapshotExact, Live
  <2> QED BY <2>1, <2>2
<1>4. InboxFollowsSource'
  <2> SUFFICES ASSUME NEW m \in Libraries, NEW i \in Items
               PROVE  /\ inbox'[m][i] = "PENDING" => mirror[m][i].kind \in Live(i)
                      /\ mirror[m][i].kind = "paper" => inbox'[m][i] \in {"PENDING", "IMPORTED"}
    BY <1>1, Zenon DEF InboxFollowsSource, Live
  <2>1. inbox'[m][i] = inbox[m][i] \/ inbox'[m][i] = "IMPORTED"
    BY <1>1 DEF SInv, Typed
  <2>2. /\ inbox[m][i] = "PENDING" => mirror[m][i].kind \in Live(i)
        /\ mirror[m][i].kind = "paper" => inbox[m][i] \in {"PENDING", "IMPORTED"}
    BY DEF SInv, InboxFollowsSource
  <2> QED BY <2>1, <2>2
<1>5. (\A m \in Libraries : BooksAgree(m)') /\ (\A w \in Workers : HandAgrees(w)')
  <2>1. \A m \in Libraries \ {} :
           /\ job'[m] = job[m] /\ runs'[m] = runs[m] /\ ledger'[m] = ledger[m]
           /\ stages'[m] = stages[m] /\ library'[m].cursor = library[m].cursor
    BY <1>1
  <2>2. {} \in SUBSET Libraries /\ {} \in SUBSET Workers
    OBVIOUS
  <2> QED BY <1>1, <1>2, <2>1, <2>2, RowsStep
<1> QED BY <1>2, <1>3, <1>4, <1>5 DEF SInv

LEMMA TimeStep ==
  ASSUME SInv, BackoffElapses \/ \E l \in Libraries : LeaseExpires(l)
  PROVE  SInv'
<1>1. /\ connection \in [status : {"ACTIVE", "REVOKED", "DISCONNECTED"}, backoff : BOOLEAN]
      /\ seen \subseteq Workers /\ library \in [Libraries -> LibraryRow] /\ job \in [Libraries -> JobRow]
      /\ refresh \in {"idle", "asking", "stale"} /\ asks \in 0..MaxAsks
  BY DEF SInv, Typed
<1>2. CASE BackoffElapses
  <2>1. /\ connection' = [connection EXCEPT !.backoff = FALSE]
        /\ job' = [l \in Libraries |-> [job[l] EXCEPT !.held = FALSE]]
        /\ UNCHANGED <<history, seen, library, mirror, inbox, ledger, runs, stages, worker, refresh, asks>>
    BY <1>2 DEF BackoffElapses
  <2>2. job' \in [Libraries -> JobRow]
        /\ \A l \in Libraries, c \in {"status", "run", "attempts", "max", "lease", "by"} :
             job'[l][c] = job[l][c]
    BY <1>1, <2>1 DEF JobRow
  <2>3. connection' \in [status : {"ACTIVE", "REVOKED", "DISCONNECTED"}, backoff : BOOLEAN]
    BY <1>1, <2>1
  <2> QED BY <1>1, <2>1, <2>2, <2>3, ConnectionStep
<1>3. ASSUME NEW l \in Libraries, LeaseExpires(l)
      PROVE  SInv'
  <2> DEFINE j == [job[l] EXCEPT !.expired = TRUE]
  <2>1. /\ job' = [job EXCEPT ![l] = j]
        /\ UNCHANGED <<history, connection, seen, library, mirror, inbox, ledger, runs, stages, worker, refresh, asks>>
    BY <1>3, Zenon DEF LeaseExpires
  <2>2. j \in JobRow /\ \A c \in {"status", "run", "attempts", "max", "lease", "by"} : j[c] = job[l][c]
    BY <1>1 DEF JobRow
  <2> HIDE DEF j
  <2>3. job' \in [Libraries -> JobRow]
        /\ \A m \in Libraries, c \in {"status", "run", "attempts", "max", "lease", "by"} :
             job'[m][c] = job[m][c]
    BY <1>1, <2>1, <2>2
  <2> QED BY <1>1, <2>1, <2>3, ConnectionStep
<1> QED BY <1>2, <1>3
-----------------------------------------------------------------------------
(* The invariant is inductive.                                             *)

LEMMA InitInv ==
  ASSUME Init
  PROVE  SInv
<1>1. PICK L \in SUBSET Libraries :
        library = [l \in Libraries |-> [enabled |-> l \in L, readable |-> TRUE, cursor |-> 0]]
  BY DEF Init
<1>2. ASSUME NEW l \in Libraries
      PROVE  /\ history[l] = <<>> /\ Version(l) = 0 /\ At(l, 0) = Nothing
             /\ library[l] \in LibraryRow /\ library[l].cursor = 0
  <2>1. (l \in L) \in BOOLEAN /\ 0 \in 0..MaxVersion
    BY SyncBoundsAssumption
  <2> DEFINE b == l \in L
  <2>2. library[l] = [enabled |-> b, readable |-> TRUE, cursor |-> 0]
    BY <1>1
  <2> HIDE DEF b
  <2>3. b \in BOOLEAN
    BY <2>1 DEF b
  <2>4. library[l] \in LibraryRow /\ library[l].cursor = 0
    BY <2>1, <2>2, <2>3 DEF LibraryRow
  <2> QED BY <2>4 DEF Init, Version, At
<1>3. Nothing \in [Keys -> Objects] /\ \A k \in Keys : Nothing[k] = [ver |-> 0, kind |-> "absent"]
  BY SyncBoundsAssumption DEF Nothing, Object, Objects, Kinds
<1>4. Typed
  <2>1. history \in [Libraries -> Seq([Keys -> Objects])] /\ \A l \in Libraries : Version(l) <= MaxVersion
    BY <1>2, SyncBoundsAssumption DEF Init
  <2>2. library \in [Libraries -> LibraryRow]
    BY <1>1, <1>2
  <2>3. mirror \in [Libraries -> [Keys -> Objects]]
    BY <1>3 DEF Init
  <2>4. job \in [Libraries -> JobRow] /\ ledger \in [Libraries -> Seq({"RUNNING"} \cup Terminal)]
        /\ runs \in [Libraries -> Seq(RunRow)] /\ stages \in [Libraries -> SUBSET StageRows]
    BY DEF Init, NoJob, JobRow
  <2>5. connection \in [status : {"ACTIVE", "REVOKED", "DISCONNECTED"}, backoff : BOOLEAN]
        /\ seen \subseteq Workers
        /\ inbox \in [Libraries -> [Items -> {"NONE", "PENDING", "WITHDRAWN", "IMPORTED"}]]
        /\ refresh \in {"idle", "asking", "stale"} /\ asks \in 0..MaxAsks
    BY SyncBoundsAssumption DEF Init
  <2>6. worker \in [Workers -> {Idle} \cup PassRow]
        /\ \A w \in Workers : worker[w].phase = "failing" => worker[w].failure \in FailureRow
    BY DEF Init, Idle
  <2> QED BY <2>1, <2>2, <2>3, <2>4, <2>5, <2>6 DEF Typed
<1>5. HistoryIsTrue
  <2> SUFFICES ASSUME NEW l \in Libraries, NEW v \in 0..Version(l), NEW k \in Keys
               PROVE  LET object == At(l, v)[k] IN
                      /\ object.ver <= v /\ object.kind \in Live(k) \cup {"gone", "absent"}
                      /\ object.ver > 0 => object.kind # "absent"
                      /\ \A u \in 0..v : object.ver <= u => object = At(l, u)[k]
    BY DEF HistoryIsTrue
  <2>1. v = 0 /\ At(l, v) = Nothing /\ \A u \in 0..v : u = v
    BY <1>2
  <2> QED BY <1>3, <2>1
<1>6. ASSUME NEW l \in Libraries
      PROVE  BooksAgree(l)
  <2>1. job[l] = NoJob /\ runs[l] = <<>> /\ ledger[l] = <<>> /\ stages[l] = {}
    BY DEF Init
  <2>2. Budget * 0 = 0
    BY BudgetAssumption
  <2>3. job[l].run = 0 /\ job[l].status = "NONE" /\ job[l].attempts = 0 /\ job[l].max = 0
        /\ job[l].lease = 0
    BY <2>1 DEF NoJob
  <2> QED BY <1>2, <2>1, <2>2, <2>3, SyncBoundsAssumption DEF BooksAgree, ActiveJob
<1>7. ASSUME NEW w \in Workers
      PROVE  HandAgrees(w)
  BY DEF Init, HandAgrees, Working, Idle
<1>8. SnapshotExact
  <2>1. \A l \in Libraries, k \in Keys : mirror[l][k].kind = "absent"
        /\ At(l, library[l].cursor)[k].kind = "absent"
    <3> SUFFICES ASSUME NEW l \in Libraries, NEW k \in Keys
                 PROVE  mirror[l][k].kind = "absent" /\ At(l, library[l].cursor)[k].kind = "absent"
      OBVIOUS
    <3>1. At(l, library[l].cursor) = Nothing
      BY <1>2
    <3>2. mirror[l] = Nothing
      BY DEF Init
    <3> QED BY <1>3, <3>1, <3>2
  <2> QED BY <2>1 DEF SnapshotExact, Live
<1>9. InboxFollowsSource
  <2>1. \A l \in Libraries, k \in Items : inbox[l][k] = "NONE" /\ mirror[l][k].kind = "absent"
    BY <1>3 DEF Init, Keys
  <2> QED BY <2>1 DEF InboxFollowsSource
<1> QED BY <1>4, <1>5, <1>6, <1>7, <1>8, <1>9 DEF SInv

\* A failure of a request or of the worker is one the job can record.
LEMMA FailuresTyped == \A f \in Failures : f \in FailureRow
BY DEF Failures, FailureRow

LEMMA WorkersStep ==
  ASSUME SInv, NEW w \in Workers,
         Pass(w) \/ Crash(w) \/ DatabaseFails(w) \/ \E f \in Failures : ProviderRefuses(w, f)
  PROVE  SInv'
<1> USE DEF database
<1>1. asks \in 0..MaxAsks
  BY DEF SInv, Typed
<1>2. Failure("other", TRUE, FALSE) \in FailureRow /\ Failure("credential", FALSE, FALSE) \in FailureRow
  BY DEF Failure, FailureRow
<1>3. CASE VersionMoved(w)
  BY <1>1, <1>2, <1>3, FailingStep DEF VersionMoved, Requests, Working, Reading
<1>4. CASE NoCredential(w)
  BY <1>1, <1>2, <1>4, FailingStep DEF NoCredential, Working, Reading
<1>5. CASE PublishRefused(w)
  BY <1>5, IdleStep DEF PublishRefused
<1>6. CASE Crash(w)
  BY <1>6, IdleStep DEF Crash
<1>7. CASE DatabaseFails(w)
  BY <1>1, <1>2, <1>7, FailingStep DEF DatabaseFails
<1>8. ASSUME NEW f \in Failures, ProviderRefuses(w, f)
      PROVE  SInv'
  <2>1. f \in FailureRow /\ f.backoff \in BOOLEAN
    BY FailuresTyped DEF FailureRow
  <2>2. /\ Working(w) /\ Fails(w, f) /\ Heard(f.backoff)
        /\ UNCHANGED <<history, database, refresh>>
    BY <1>8 DEF ProviderRefuses, Requests, Working, Reading
  <2>3. asks' \in 0..MaxAsks
    BY <1>1, <2>1, <2>2, SyncBoundsAssumption DEF Heard
  <2> QED BY <2>1, <2>2, <2>3, FailingStep
<1> QED
  BY <1>3, <1>4, <1>5, <1>6, <1>7, <1>8, ListItemsStep, ListCollectionsStep, FetchBodiesStep,
     ListDeletionsStep, StageStep, PublishStep, FailLeaseStep DEF Pass

LEMMA NextInv ==
  ASSUME SInv, [Next]_vars
  PROVE  SInv'
<1>1. CASE Provider
  BY <1>1, ProviderStep DEF Provider
<1>2. CASE Users
  <2>1. CASE QueueSelected
    BY <2>1, QueueStep
  <2>2. CASE \E l \in Libraries, k \in Items : FileEntry(l, k)
    BY <2>2, FileEntryStep
  <2>3. CASE \/ \E L \in SUBSET Libraries : SelectLibraries(L) \/ Reconnect(L)
             \/ Disconnect \/ RefreshStarts \/ RefreshRefused
             \/ \E L \in SUBSET Libraries, b \in BOOLEAN : RefreshPublishes(L, b)
             \/ \E attention, b \in BOOLEAN : RefreshFails(attention, b)
    BY <2>3, UsersStep
  <2> QED BY <1>2, <2>1, <2>2, <2>3 DEF Users
<1>3. CASE BackoffElapses \/ \E l \in Libraries : LeaseExpires(l)
  BY <1>3, TimeStep
<1>4. ASSUME NEW l \in Libraries, ScheduleDue(l) \/ Poll(l)
      PROVE  SInv'
  BY <1>4, QueueStep, TerminalInvalidStep, PutOffStep, ClaimStep DEF Poll
<1>5. ASSUME NEW w \in Workers,
             Pass(w) \/ Crash(w) \/ DatabaseFails(w) \/ \E f \in Failures : ProviderRefuses(w, f)
      PROVE  SInv'
  BY <1>5, WorkersStep
<1>6. CASE UNCHANGED vars
  BY <1>6, ConnectionStep DEF vars, database, SInv, Typed
<1> QED BY <1>1, <1>2, <1>3, <1>4, <1>5, <1>6 DEF Next

\* The invariant holds throughout: rows, hands, provider and copy agree in
\* every state the job transactions (sync-jobs.ts) and the worker reach.
THEOREM SyncInductive == Spec => []SInv
<1>1. Init => SInv
  BY InitInv
<1>2. SInv /\ [Next]_vars => SInv'
  BY NextInv
<1> QED BY <1>1, <1>2, PTL DEF Spec
-----------------------------------------------------------------------------
(* What the invariant says of every state.                                 *)

\* docs/ZOTERO-INTEGRATION.md, stable read pass, for any number of libraries,
\* objects, versions and workers: the copy of a library is the library exactly
\* as it was at the version of the cursor.
THEOREM CopyIsOneVersion == Spec => []SnapshotExact
<1>1. SInv => SnapshotExact
  BY DEF SInv
<1> QED BY <1>1, SyncInductive, PTL

\* completeZoteroSyncLease opens, reopens and withdraws entries so that the
\* inbox tells what the copy does, however often an object is deleted and
\* added again.
THEOREM InboxTellsTheCopy == Spec => []InboxFollowsSource
<1>1. SInv => InboxFollowsSource
  BY DEF SInv
<1> QED BY <1>1, SyncInductive, PTL

\* Attempts are within what the runs granted together.
LEMMA AttemptsBounded ==
  ASSUME SInv, NEW l \in Libraries
  PROVE  /\ job[l].attempts \in Attempted /\ job[l].max \in Attempted /\ job[l].lease \in Attempted
         /\ job[l].run \in 0..MaxRuns
<1>1. job[l] \in JobRow /\ BooksAgree(l)
  BY DEF SInv, Typed
<1>2. job[l].run \in Nat /\ job[l].attempts \in Nat /\ job[l].max \in Nat /\ job[l].lease \in Nat
  BY <1>1 DEF JobRow
<1>3. /\ job[l].run <= MaxRuns /\ job[l].attempts <= job[l].max /\ job[l].lease <= job[l].attempts
      /\ job[l].max <= Budget * job[l].run
  BY <1>1 DEF BooksAgree
<1>4. Budget * job[l].run <= Budget * MaxRuns
  <2>1. PICK d \in Nat : MaxRuns = job[l].run + d
    <3>1. MaxRuns - job[l].run \in Nat /\ MaxRuns = job[l].run + (MaxRuns - job[l].run)
      BY <1>2, <1>3, SyncBoundsAssumption
    <3> QED BY <3>1
  <2>2. Budget * (job[l].run + d) = Budget * job[l].run + Budget * d
    BY <1>2, BudgetAssumption
  <2>3. Budget * d \in Nat /\ Budget * job[l].run \in Nat
    BY <1>2, BudgetAssumption
  <2> QED BY <2>1, <2>2, <2>3
<1>5. Budget * MaxRuns \in Nat /\ Budget * job[l].run \in Nat
  BY <1>2, BudgetAssumption, SyncBoundsAssumption
<1>6. job[l].max <= Budget * MaxRuns
  BY <1>2, <1>3, <1>4, <1>5
<1> QED BY <1>2, <1>3, <1>5, <1>6, SyncBoundsAssumption DEF Attempted

\* A worker's lease is one of the attempts of its library's job.
LEMMA PassesTyped ==
  ASSUME SInv, NEW w \in Workers, Working(w)
  PROVE  worker[w] \in Passes
<1>1. worker[w] \in PassRow
  BY PassTyped DEF SInv
<1>2. worker[w].lib \in Libraries /\ worker[w].lease \in Nat
  BY <1>1 DEF PassRow
<1>3. worker[w].lease <= job[worker[w].lib].attempts
  BY DEF SInv, HandAgrees
<1>4. job[worker[w].lib].attempts \in Attempted
  BY <1>2, AttemptsBounded
<1>5. Budget * MaxRuns \in Nat
  BY BudgetAssumption, SyncBoundsAssumption
<1>6. worker[w].lease \in Attempted
  BY <1>2, <1>3, <1>4, <1>5 DEF Attempted
<1> QED BY <1>1, <1>6 DEF PassRow, Passes, Pairs, FailureRow

\* The comment on scheduleDueZoteroSyncs ("only one active run per library"),
\* and more: job, run, attempts and staged rows tell one story in every state,
\* the rows of a run that ended included.
THEOREM RowsTellOneStory == Spec => []RunsAgree
<1>1. ASSUME SInv
      PROVE  RunsAgree
  <2>1. TypeOK
    <3>1. ASSUME NEW l \in Libraries
          PROVE  job[l] \in [status : {"NONE"} \cup ActiveJob \cup Terminal, run : 0..MaxRuns,
                             attempts : Attempted, max : Attempted, lease : Attempted,
                             by : Workers \cup {None}, expired : BOOLEAN, held : BOOLEAN]
      <4>1. job[l] \in JobRow
        BY <1>1 DEF SInv, Typed
      <4> QED BY <1>1, <4>1, AttemptsBounded DEF JobRow
    <3>2. \A w \in Workers : worker[w] = Idle \/ worker[w] \in Passes
      <4> SUFFICES ASSUME NEW w \in Workers, ~Working(w)
                   PROVE  worker[w] = Idle
        BY <1>1, PassesTyped
      <4>1. worker[w] \in {Idle} \cup PassRow
        BY <1>1 DEF SInv, Typed
      <4> QED BY <4>1 DEF Working, PassRow, Reading
    <3> QED BY <1>1, <3>1, <3>2 DEF SInv, Typed, TypeOK, RunRow, LibraryRow
  <2>2. OneActiveRun
    <3> SUFFICES ASSUME NEW l \in Libraries
                 PROVE  /\ \A r \in DOMAIN runs[l] :
                             runs[l][r].status \in ActiveRun => r = job[l].run /\ job[l].status \in ActiveJob
                        /\ job[l].status \in ActiveJob => runs[l][job[l].run].status \in ActiveRun
      BY DEF OneActiveRun
    <3>1. BooksAgree(l) /\ DOMAIN runs[l] = 1..Len(runs[l])
      BY <1>1 DEF SInv, Typed
    <3> QED BY <3>1 DEF BooksAgree
  <2>3. StagesAreOfTheActiveRun
    BY <1>1 DEF SInv, BooksAgree, StagesAreOfTheActiveRun
  <2> QED BY <2>1, <2>2, <2>3 DEF RunsAgree
<1> QED BY <1>1, SyncInductive, PTL

\* completeZoteroSyncLease never rolls back for a worker whose lease is
\* current: its run and its attempt are running, from the library's cursor.
THEOREM CurrentLeasesAlwaysCan == Spec => []CurrentLeasesCanPublish
<1>1. ASSUME SInv
      PROVE  CurrentLeasesCanPublish
  <2> SUFFICES ASSUME NEW w \in Workers, Working(w), LeaseIsCurrent(w)
               PROVE  LET h == worker[w] IN
                      /\ library[h.lib].cursor = h.from
                      /\ runs[h.lib][h.run].status = "RUNNING" /\ runs[h.lib][h.run].from = h.from
                      /\ ledger[h.lib][h.lease] = "RUNNING"
    BY DEF CurrentLeasesCanPublish
  <2>1. /\ worker[w].from = library[worker[w].lib].cursor
        /\ runs[worker[w].lib][worker[w].run] =
             [status |-> "RUNNING", from |-> library[worker[w].lib].cursor]
        /\ ledger[worker[w].lib][worker[w].lease] = "RUNNING"
    BY <1>1, CurrentFacts
  <2> QED BY <2>1
<1> QED BY <1>1, SyncInductive, PTL
-----------------------------------------------------------------------------
(* Overtaken passes.                                                       *)

LEMMA OwnHand ==
  ASSUME Typed, NEW v \in Workers, NEW w \in Workers \ {v},
         Pass(v) \/ Crash(v) \/ DatabaseFails(v) \/ \E f \in Failures : ProviderRefuses(v, f)
  PROVE  worker'[w] = worker[w]
<1>1. worker \in [Workers -> {Idle} \cup PassRow]
  BY DEF Typed
<1>2. GoIdle(v) => worker'[w] = worker[w]
  BY <1>1 DEF GoIdle
<1>3. \A f : Fails(v, f) => worker'[w] = worker[w]
  BY <1>1 DEF Fails
<1>4. \A h : Advance(v, h) => worker'[w] = worker[w]
  BY <1>1 DEF Advance
<1>5. CASE ListItems(v)
  BY <1>4, <1>5, Zenon DEF ListItems
<1>6. CASE ListCollections(v)
  BY <1>4, <1>6, Zenon DEF ListCollections
<1>7. CASE FetchBodies(v)
  BY <1>4, <1>7, Zenon DEF FetchBodies
<1>8. CASE ListDeletions(v)
  BY <1>4, <1>8, Zenon DEF ListDeletions
<1>9. CASE Stage(v)
  <2>1. GoIdle(v) \/ worker' = [worker EXCEPT ![v].buffer = {}]
    BY <1>9, Zenon DEF Stage
  <2> QED BY <1>1, <1>2, <2>1
<1>10. CASE Publish(v)
  BY <1>2, <1>3, <1>10, Zenon DEF Publish
<1>11. CASE FailLease(v) \/ PublishRefused(v) \/ Crash(v)
  BY <1>2, <1>11, Zenon DEF FailLease, PublishRefused, Crash
<1>12. CASE VersionMoved(v) \/ NoCredential(v) \/ DatabaseFails(v) \/ \E f \in Failures : ProviderRefuses(v, f)
  BY <1>3, <1>12, Zenon DEF VersionMoved, NoCredential, DatabaseFails, ProviderRefuses
<1> QED BY <1>5, <1>6, <1>7, <1>8, <1>9, <1>10, <1>11, <1>12 DEF Pass

\* Only its own steps change what a working worker has in hand.
LEMMA HandChanges ==
  ASSUME Typed, [Next]_vars, NEW w \in Workers, Working(w), worker'[w] # worker[w]
  PROVE  Pass(w) \/ Crash(w) \/ DatabaseFails(w) \/ \E f \in Failures : ProviderRefuses(w, f)
<1>1. \A l \in Libraries, v \in Workers : Claim(v, l) => worker'[w] = worker[w]
  BY DEF Claim, Typed
<1>2. Provider => worker' = worker
  BY DEF Provider, ProviderChanges
<1>3. Users => worker' = worker
  BY DEF Users, QueueSelected, Enqueue, SelectLibraries, Reconnect, Disconnect, FileEntry,
         RefreshStarts, RefreshRefused, RefreshPublishes, RefreshFails
<1>4. BackoffElapses => worker' = worker
  BY DEF BackoffElapses
<1>5. \A l \in Libraries : ScheduleDue(l) \/ LeaseExpires(l) \/ TerminalInvalid(l) \/ PutOff(l)
                             => worker' = worker
  BY DEF ScheduleDue, Enqueue, LeaseExpires, TerminalInvalid, PutOff
<1>6. \A l \in Libraries : Poll(l) => worker'[w] = worker[w]
  BY <1>1, <1>5 DEF Poll
<1>7. UNCHANGED vars => worker' = worker
  BY DEF vars
<1>8. ASSUME NEW v \in Workers \ {w},
             Pass(v) \/ Crash(v) \/ DatabaseFails(v) \/ \E f \in Failures : ProviderRefuses(v, f)
      PROVE  worker'[w] = worker[w]
  BY <1>8, OwnHand
<1> QED BY <1>2, <1>3, <1>4, <1>5, <1>6, <1>7, <1>8 DEF Next

\* A pass that was overtaken, by another worker, a user or its own deadline,
\* writes nothing any more: every write of sync-jobs.ts asks for the lease,
\* the connection timestamp and the library's switches first.
THEOREM OvertakenPassesWriteNothing == Spec => OvertakenPassesChangeNothing
<1> DEFINE A == \A w \in Workers :
                  Working(w) /\ Overtaken(w) /\ worker'[w] # worker[w] => UNCHANGED database
<1>1. ASSUME SInv, [Next]_vars
      PROVE  A
  <2> SUFFICES ASSUME NEW w \in Workers, Working(w), Overtaken(w), worker'[w] # worker[w]
               PROVE  UNCHANGED database
    OBVIOUS
  <2>1. Pass(w) \/ Crash(w) \/ DatabaseFails(w) \/ \E f \in Failures : ProviderRefuses(w, f)
    BY <1>1, HandChanges DEF SInv
  <2>2. ~LeaseIsCurrent(w)
    BY DEF Overtaken, LeaseIsCurrent, LeaseHeld
  <2>3. CASE Stage(w)
    BY <2>2, <2>3 DEF Stage, database
  <2>4. CASE FailLease(w)
    BY <2>2, <2>4 DEF FailLease, database
  <2>5. CASE Publish(w)
    BY <2>2, <2>5 DEF Publish, CanPublish
  <2>6. CASE Crash(w) \/ DatabaseFails(w) \/ \E f \in Failures : ProviderRefuses(w, f)
    BY <2>6 DEF Crash, DatabaseFails, ProviderRefuses
  <2>7. CASE ListItems(w) \/ ListCollections(w) \/ FetchBodies(w) \/ ListDeletions(w)
             \/ VersionMoved(w) \/ NoCredential(w) \/ PublishRefused(w)
    BY <2>7 DEF ListItems, ListCollections, FetchBodies, ListDeletions, VersionMoved, NoCredential,
                PublishRefused, Advance
  <2> QED BY <2>1, <2>3, <2>4, <2>5, <2>6, <2>7 DEF Pass
<1> HIDE DEF A
<1>2. Spec => [][A]_vars
  BY <1>1, SyncInductive, PTL DEF Spec
<1> QED BY <1>2 DEF A, OvertakenPassesChangeNothing
-----------------------------------------------------------------------------
(* The sync implements LibraryMirror.                                      *)

PromisePast == [l \in Libraries |-> [v \in 1..(Version(l) + 1) |-> Content(At(l, v - 1))]]
PromiseShown == [l \in Libraries |-> library[l].cursor + 1]
PromiseView == [l \in Libraries |-> Content(mirror[l])]

LEMMA ContentTyped ==
  ASSUME NEW f \in [Keys -> Objects]
  PROVE  Content(f) \in [Keys -> Objects] /\ \A k \in Keys : Content(f)[k] = Shown(f[k])
BY SyncBoundsAssumption DEF Content, Shown, Object, Objects, Kinds

\* What the workspace shows of a library is its content at the cursor.
LEMMA ViewIsPast ==
  ASSUME SInv, NEW l \in Libraries
  PROVE  Content(mirror[l]) = Content(At(l, library[l].cursor))
<1>1. library[l].cursor \in 0..Version(l)
  <2>1. library[l] \in LibraryRow /\ BooksAgree(l) /\ Version(l) \in Nat
    BY VersionTyped, SyncBoundsAssumption DEF SInv, Typed
  <2> QED BY <2>1, SyncBoundsAssumption DEF LibraryRow, BooksAgree
<1>2. ASSUME NEW k \in Keys
      PROVE  Shown(mirror[l][k]) = Shown(At(l, library[l].cursor)[k])
  <2> DEFINE source == At(l, library[l].cursor)[k]
  <2>1. IF source.kind \in Live(k) THEN mirror[l][k] = source
        ELSE mirror[l][k].kind \in {"absent", "gone"}
    BY DEF SInv, SnapshotExact
  <2>2. source.kind \in Live(k) \cup {"gone", "absent"}
    BY <1>1 DEF SInv, HistoryIsTrue
  <2> HIDE DEF source
  <2>3. Shown(mirror[l][k]) = Shown(source)
    BY <2>1, <2>2 DEF Shown
  <2> QED BY <2>3 DEF source
<1> QED BY <1>2 DEF Content

LEMMA InitPromise == Init => Promise!Init
<1> SUFFICES ASSUME Init PROVE Promise!Init
  OBVIOUS
<1>1. Nothing \in [Keys -> Objects] /\ \A k \in Keys : Nothing[k] = [ver |-> 0, kind |-> "absent"]
  BY SyncBoundsAssumption DEF Nothing, Object, Objects, Kinds
<1>2. Content(Nothing) = Nothing
  BY <1>1 DEF Content, Shown, Nothing, Object
<1>3. ASSUME NEW l \in Libraries
      PROVE  /\ [v \in 1..(Version(l) + 1) |-> Content(At(l, v - 1))] = <<Nothing>>
             /\ library[l].cursor + 1 = 1 /\ Content(mirror[l]) = Nothing
  <2>1. Version(l) = 0 /\ At(l, 0) = Nothing /\ library[l].cursor = 0 /\ mirror[l] = Nothing
    BY DEF Init, Version, At
  <2>2. [v \in 1..(Version(l) + 1) |-> Content(At(l, v - 1))] = <<Nothing>>
    <3>1. \A v \in 1..1 : Content(At(l, v - 1)) = Nothing
      BY <1>2, <2>1
    <3> QED BY <2>1, <3>1
  <2> QED BY <1>2, <2>1, <2>2
<1> QED BY <1>3 DEF Promise!Init

\* Every other step leaves the provider, the copy and the cursors alone.
LEMMA OtherSteps ==
  ASSUME Typed, [Next]_vars, ~Provider, \A w \in Workers : ~Publish(w)
  PROVE  history' = history /\ mirror' = mirror
         /\ \A l \in Libraries : library'[l].cursor = library[l].cursor
<1> USE DEF database
<1>1. library \in [Libraries -> LibraryRow]
  BY DEF Typed
<1>2. \A L \in SUBSET Libraries : Readable(L) => \A l \in Libraries : library'[l].cursor = library[l].cursor
  BY <1>1 DEF Readable, LibraryRow
<1>3. CASE Users
  <2>1. CASE QueueSelected \/ RefreshStarts \/ RefreshRefused
    BY <2>1 DEF QueueSelected, Enqueue, RefreshStarts, RefreshRefused
  <2>2. CASE \E l \in Libraries, k \in Items : FileEntry(l, k)
    BY <2>2 DEF FileEntry
  <2>3. CASE \E attention, b \in BOOLEAN : RefreshFails(attention, b)
    BY <2>3 DEF RefreshFails
  <2>4. CASE \E L \in SUBSET Libraries : SelectLibraries(L)
    BY <1>1, <2>4 DEF SelectLibraries, LibraryRow
  <2>5. CASE Disconnect
    BY <1>1, <2>5 DEF Disconnect, LibraryRow
  <2>6. CASE \E L \in SUBSET Libraries : Reconnect(L)
    BY <1>2, <2>6 DEF Reconnect
  <2>7. CASE \E L \in SUBSET Libraries, b \in BOOLEAN : RefreshPublishes(L, b)
    BY <1>2, <2>7 DEF RefreshPublishes
  <2> QED BY <1>3, <2>1, <2>2, <2>3, <2>4, <2>5, <2>6, <2>7 DEF Users
<1>4. CASE BackoffElapses \/ UNCHANGED vars
  BY <1>4 DEF BackoffElapses, vars
<1>5. ASSUME NEW l \in Libraries, ScheduleDue(l) \/ Poll(l) \/ LeaseExpires(l)
      PROVE  history' = history /\ mirror' = mirror /\ library' = library
  BY <1>5 DEF ScheduleDue, Enqueue, Poll, TerminalInvalid, PutOff, Claim, LeaseExpires
<1>6. ASSUME NEW w \in Workers, FailLease(w)
      PROVE  history' = history /\ mirror' = mirror
             /\ \A l \in Libraries : library'[l].cursor = library[l].cursor
  <2>1. history' = history /\ mirror' = mirror
    BY <1>6 DEF FailLease
  <2>2. CASE LeaseIsCurrent(w)
    <3> DEFINE m == worker[w].lib
               x == [library[m] EXCEPT !.readable = @ /\ worker[w].failure.code # "forbidden"]
    <3>1. library' = [library EXCEPT ![m] = x]
      BY <1>6, <2>2, Zenon DEF FailLease
    <3>2. m \in Libraries => x.cursor = library[m].cursor
      BY <1>1 DEF LibraryRow
    <3> HIDE DEF x, m
    <3> QED BY <1>1, <2>1, <3>1, <3>2
  <2>3. CASE ~LeaseIsCurrent(w)
    BY <1>6, <2>1, <2>3 DEF FailLease
  <2> QED BY <2>2, <2>3
<1>7. ASSUME NEW w \in Workers,
             \/ ListItems(w) \/ ListCollections(w) \/ FetchBodies(w) \/ ListDeletions(w)
             \/ VersionMoved(w) \/ NoCredential(w) \/ Stage(w) \/ PublishRefused(w)
             \/ Crash(w) \/ DatabaseFails(w) \/ \E f \in Failures : ProviderRefuses(w, f)
      PROVE  history' = history /\ mirror' = mirror /\ library' = library
  BY <1>7 DEF ListItems, ListCollections, FetchBodies, ListDeletions, VersionMoved, NoCredential,
              Stage, PublishRefused, Crash, DatabaseFails, ProviderRefuses, Advance
<1> QED BY <1>3, <1>4, <1>5, <1>6, <1>7 DEF Next, Pass

\* A change at the provider adds a version to the past.
LEMMA EditsThePast ==
  ASSUME SInv, NEW l \in Libraries, NEW key \in Keys, NEW kind \in Live(key) \cup {"gone"},
         ProviderChanges(l, key, kind)
  PROVE  Promise!Edit(l)
<1> PICK n \in 0..MaxVersion : n = Version(l)
  BY VersionTyped DEF SInv
<1> DEFINE new == [At(l, n) EXCEPT ![key] = Object(n + 1, kind)]
           c == Content(new)
<1>1. /\ n < MaxVersion /\ history' = [history EXCEPT ![l] = Append(history[l], new)]
      /\ library' = library /\ mirror' = mirror
  BY DEF ProviderChanges, database
<1>2. At(l, n) \in [Keys -> Objects] /\ history[l] \in Seq([Keys -> Objects]) /\ n \in Nat
      /\ Len(history[l]) = n /\ history \in [Libraries -> Seq([Keys -> Objects])]
  BY AtTyped, SyncBoundsAssumption DEF SInv, Typed, Version
<1>3. new \in [Keys -> Objects]
  <2>1. Object(n + 1, kind) \in Objects
    BY <1>1, <1>2, SyncBoundsAssumption DEF Objects, Object, Kinds, Live
  <2> QED BY <1>2, <2>1
<1> HIDE DEF new
<1>4. c \in [Keys -> Objects]
  BY <1>3, ContentTyped
<1>5. /\ history'[l] = Append(history[l], new) /\ \A m \in Libraries \ {l} : history'[m] = history[m]
  BY <1>1, <1>2
<1>6. /\ Len(history'[l]) = n + 1 /\ history'[l][n + 1] = new
      /\ \A i \in 1..n : history'[l][i] = history[l][i]
  BY <1>2, <1>3, <1>5
<1>7. \A v \in 1..(n + 1) : At(l, v - 1)' = At(l, v - 1)
  <2> SUFFICES ASSUME NEW v \in 1..(n + 1)
               PROVE  At(l, v - 1)' = At(l, v - 1)
    OBVIOUS
  <2>1. CASE v = 1
    BY <2>1 DEF At, Nothing, Object
  <2>2. CASE v # 1
    <3>1. v - 1 \in 1..n /\ v - 1 # 0
      BY <1>2, <2>2
    <3> QED BY <1>6, <3>1 DEF At, Nothing, Object
  <2> QED BY <2>1, <2>2
<1>8. At(l, n + 1)' = new
  BY <1>2, <1>6 DEF At
<1>9. PromisePast' = [PromisePast EXCEPT ![l] = Append(PromisePast[l], c)]
  <2>1. PromisePast[l] = [v \in 1..(n + 1) |-> Content(At(l, v - 1))]
    BY DEF PromisePast
  <2>2. PromisePast'[l] = [v \in 1..(n + 2) |-> Content(At(l, v - 1)')]
    BY <1>2, <1>6 DEF PromisePast, Version, Content, Shown, Object
  <2>3. Append(PromisePast[l], c) = [v \in 1..(n + 2) |-> IF v = n + 2 THEN c ELSE PromisePast[l][v]]
    BY <1>2, <2>1
  <2>4. ASSUME NEW v \in 1..(n + 2)
        PROVE  Content(At(l, v - 1)') = IF v = n + 2 THEN c ELSE PromisePast[l][v]
    <3>1. CASE v = n + 2
      <4>1. At(l, v - 1)' = new
        <5>1. v - 1 = n + 1
          BY <1>2, <3>1
        <5> QED BY <1>8, <5>1
      <4> QED BY <3>1, <4>1
    <3>2. CASE v # n + 2
      <4>1. v \in 1..(n + 1)
        BY <1>2, <3>2
      <4> QED BY <1>7, <2>1, <3>2, <4>1
    <3> QED BY <3>1, <3>2
  <2>5. PromisePast'[l] = Append(PromisePast[l], c)
    BY <2>2, <2>3, <2>4
  <2>6. \A m \in Libraries \ {l} : PromisePast'[m] = PromisePast[m]
    BY <1>5 DEF PromisePast, Version, Content, Shown, Object, At, Nothing
  <2> QED BY <2>5, <2>6 DEF PromisePast
<1>10. PromiseShown' = PromiseShown /\ PromiseView' = PromiseView
  BY <1>1 DEF PromiseShown, PromiseView, Content, Shown, Object
<1> QED BY <1>4, <1>9, <1>10 DEF Promise!Edit, PromisePast, PromiseShown, PromiseView

LEMMA SameShown ==
  ASSUME NEW k \in Keys, NEW o, NEW source, source.kind \in Live(k) \cup {"gone", "absent"},
         IF source.kind \in Live(k) THEN o = source ELSE o.kind \in {"absent", "gone"}
  PROVE  Shown(o) = Shown(source)
BY DEF Shown, Live

\* A publication shows the version the pass has read, which is no earlier than
\* the one that was shown.
LEMMA ShowsAVersion ==
  ASSUME SInv, SInv', NEW w \in Workers, Publish(w), NEW l \in Libraries, l = worker[w].lib
  PROVE  Promise!Show(l)
<1> PICK n : n = worker[w].observed
  OBVIOUS
<1> DEFINE copy == [k \in Keys |-> IF k \in StagedKeys(l, worker[w].run)
                                   THEN Mirrored(RowOf(l, worker[w].run, k), worker[w].observed)
                                   ELSE mirror[l][k]]
           x == [library[l] EXCEPT !.cursor = n]
<1>1. /\ history' = history /\ mirror' = [mirror EXCEPT ![l] = copy]
      /\ library' = [library EXCEPT ![l] = x]
  BY Zenon DEF Publish
<1> HIDE DEF copy
<1>2. n \in 0..Version(l) /\ library[l].cursor <= n /\ library[l] \in LibraryRow
  <2>1. Working(w) /\ LeaseIsCurrent(w) /\ worker[w].phase = "commit" /\ worker[w].buffer = {}
    BY DEF Publish, CanPublish, Working
  <2>2. library[l] \in LibraryRow
    BY DEF SInv, Typed
  <2> QED BY <2>1, <2>2, CompletePass
<1>3. Version(l) \in Nat /\ library[l].cursor \in Nat
  BY <1>2, VersionTyped, SyncBoundsAssumption DEF SInv, LibraryRow
<1>4. library'[l].cursor = n /\ \A m \in Libraries \ {l} : library'[m] = library[m]
  BY <1>1, <1>2 DEF SInv, Typed, LibraryRow
<1>5. mirror'[l] = copy /\ \A m \in Libraries \ {l} : mirror'[m] = mirror[m]
  BY <1>1 DEF SInv, Typed
<1>6. \A m \in Libraries : Version(m)' = Version(m) /\ \A v : At(m, v)' = At(m, v)
  BY <1>1 DEF Version, At, Nothing, Object
<1>7. Content(copy) = Content(At(l, n))
  <2> SUFFICES ASSUME NEW k \in Keys
               PROVE  Shown(copy[k]) = Shown(At(l, n)[k])
    BY DEF Content
  <2> DEFINE source == At(l, n)[k]
  <2>1. At(l, library[l].cursor)' = At(l, n)
    BY <1>1, <1>4 DEF At, Nothing, Object
  <2>2. IF source.kind \in Live(k) THEN mirror'[l][k] = source
        ELSE mirror'[l][k].kind \in {"absent", "gone"}
    <3>1. LET s == At(l, library[l].cursor)'[k] IN
          IF s.kind \in Live(k) THEN mirror'[l][k] = s
          ELSE mirror'[l][k].kind \in {"absent", "gone"}
      BY DEF SInv, SnapshotExact, Live
    <3> QED BY <2>1, <3>1
  <2>3. source.kind \in Live(k) \cup {"gone", "absent"}
    BY <1>2 DEF SInv, HistoryIsTrue
  <2> HIDE DEF source
  <2>4. Shown(copy[k]) = Shown(source)
    BY <1>5, <2>2, <2>3, SameShown
  <2> QED BY <2>4 DEF source
<1>8. PromisePast' = PromisePast
  BY <1>1 DEF PromisePast, Version, Content, Shown, Object, At, Nothing
<1>9. PromiseShown' = [PromiseShown EXCEPT ![l] = n + 1]
  BY <1>4 DEF PromiseShown
<1>10. PromiseView' = [PromiseView EXCEPT ![l] = Content(copy)]
  BY <1>5 DEF PromiseView, Content, Shown, Object
<1>11. PromisePast[l] = [v \in 1..(Version(l) + 1) |-> Content(At(l, v - 1))]
       /\ PromiseShown[l] = library[l].cursor + 1
  BY DEF PromisePast, PromiseShown
<1>12. n + 1 \in 1..(Version(l) + 1) /\ Len(PromisePast[l]) = Version(l) + 1
       /\ n + 1 \in PromiseShown[l]..Len(PromisePast[l])
  BY <1>2, <1>3, <1>11
<1>13. PromisePast[l][n + 1] = Content(copy)
  <2>1. (n + 1) - 1 = n
    BY <1>2, <1>3
  <2> QED BY <1>7, <1>11, <1>12, <2>1
<1>14. \E v \in PromiseShown[l]..Len(PromisePast[l]) :
         /\ PromiseShown' = [PromiseShown EXCEPT ![l] = v]
         /\ PromiseView' = [PromiseView EXCEPT ![l] = PromisePast[l][v]]
  BY <1>9, <1>10, <1>12, <1>13
<1> QED BY <1>8, <1>14 DEF Promise!Show, PromisePast, PromiseShown, PromiseView

LEMMA NextPromise == SInv /\ SInv' /\ [Next]_vars => [Promise!Next]_Promise!vars
<1> SUFFICES ASSUME SInv, SInv', [Next]_vars PROVE [Promise!Next]_Promise!vars
  OBVIOUS
<1>1. CASE Provider
  <2>1. PICK l \in Libraries, key \in Keys :
          \E kind \in Live(key) \cup {"gone"} : ProviderChanges(l, key, kind)
    BY <1>1 DEF Provider
  <2>2. PICK kind \in Live(key) \cup {"gone"} : ProviderChanges(l, key, kind)
    BY <2>1
  <2> QED BY <2>2, EditsThePast DEF Promise!Next
<1>2. ASSUME NEW w \in Workers, Publish(w)
      PROVE  Promise!Next
  <2>1. PICK l \in Libraries : l = worker[w].lib
    BY <1>2, HandTyped DEF SInv, Publish, Working
  <2>2. Promise!Show(l)
    BY <1>2, <2>1, ShowsAVersion
  <2> QED BY <2>2 DEF Promise!Next
<1>3. CASE ~Provider /\ \A w \in Workers : ~Publish(w)
  <2>1. history' = history /\ mirror' = mirror
        /\ \A l \in Libraries : library'[l].cursor = library[l].cursor
    BY <1>3, OtherSteps DEF SInv
  <2>2. PromisePast' = PromisePast
    BY <2>1 DEF PromisePast, Version, Content, Shown, Object, At, Nothing
  <2>3. PromiseShown' = PromiseShown
    BY <2>1 DEF PromiseShown
  <2>4. PromiseView' = PromiseView
    BY <2>1 DEF PromiseView, Content, Shown, Object
  <2> QED BY <2>2, <2>3, <2>4 DEF Promise!vars, PromisePast, PromiseShown, PromiseView
<1> QED BY <1>1, <1>2, <1>3

\* The sync, with its jobs, leases, retries and crashes, does what
\* LibraryMirror says and nothing else: what is shown of a library is at any
\* time one version of its history, and versions only move forward.
THEOREM SyncKeepsPromise == Spec => KeepsPromise
<1> QED
  BY InitPromise, NextPromise, SyncInductive, PTL DEF Spec, KeepsPromise, Promise!Spec
=============================================================================
