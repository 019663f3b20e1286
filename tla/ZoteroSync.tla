----------------------------- MODULE ZoteroSync -----------------------------
(***************************************************************************)
(* The metadata sync of the libraries of one Zotero connection:            *)
(*                                                                         *)
(*  - the ZOTERO_SYNC job of each library, its runs, leases, staged rows   *)
(*    and publication (src/server/integrations/zotero/sync-jobs.ts);       *)
(*  - the worker that reads the library from the provider between two      *)
(*    transactions of the job (src/workers/zotero-sync-worker.ts);         *)
(*  - what users do to the connection meanwhile: select libraries, refresh *)
(*    the list of them (library-service.ts), disconnect and reconnect      *)
(*    (oauth-service.ts), file an inbox entry (import-service.ts).         *)
(*                                                                         *)
(* Each exported function of sync-jobs.ts is one serializable transaction, *)
(* so it is one action.  The provider is external: a library is a history  *)
(* of versions, each the state of all its objects.                         *)
(*                                                                         *)
(* A lease is fenced by IntegrationConnection.updatedAt, which every       *)
(* update of the row moves.  Only "is it still the value I read" matters,  *)
(* so the timestamp is the set "seen" of the workers whose copy is the     *)
(* row's.  A deadline is a Boolean: whether it is still ahead.             *)
(***************************************************************************)
EXTENDS Naturals, Sequences, FiniteSets

CONSTANTS
  Libraries,    \* the libraries of the connection
  Items,        \* object keys of type ITEM
  Collections,  \* object keys of type COLLECTION
  Workers,      \* sync worker processes
  Budget,       \* attempts a new run grants (maxAttempts: attempts + 8)
  MaxVersion,   \* bound: versions a library reaches at the provider
  MaxRuns,      \* bound: runs a library is given
  MaxAsks,      \* bound: times the provider answers with a Backoff header
  Codes,        \* bound: the kinds of failure a pass can meet
  Moves,        \* bound: what users do to the connection
  None

Keys == Items \cup Collections

ASSUME KeysAssumption == Items \cap Collections = {}
ASSUME BudgetAssumption == Budget \in Nat \ {0}
ASSUME SyncBoundsAssumption == MaxVersion \in Nat /\ MaxRuns \in Nat /\ MaxAsks \in Nat
ASSUME CodesAssumption == Codes \subseteq {"other", "authentication", "forbidden", "credential"}
ASSUME MovesAssumption ==
  Moves \subseteq {"select", "refresh", "disconnect", "reconnect", "file"}
ASSUME NoWorkerAssumption == None \notin Workers

VARIABLES
  history,    \* the provider: versions of each library
  connection, \* IntegrationConnection: status, providerBackoffUntil ahead
  seen,       \* workers whose lease.connectionUpdatedAt is the row's
  library,    \* ZoteroLibrary: syncEnabled, isReadable, lastSyncedVersion
  mirror,     \* ZoteroObject rows of each library
  inbox,      \* the InboxEntry of each item
  job, ledger,\* the ZOTERO_SYNC Job of each library, its JobAttempt statuses
  runs,       \* ZoteroSyncRun rows of each library
  stages,     \* ZoteroSyncStage rows of each library
  worker,     \* what each worker process is doing
  refresh,    \* a discoverZoteroLibraries request between its transactions
  asks        \* how often the provider asked for a pause

database == <<connection, seen, library, mirror, inbox, job, ledger, runs, stages>>
vars == <<history, database, worker, refresh, asks>>
-----------------------------------------------------------------------------
(* The provider.                                                           *)

Live(k) == IF k \in Items THEN {"paper", "other"} ELSE {"other"}
Object(ver, kind) == [ver |-> ver, kind |-> kind]
Nothing == [k \in Keys |-> Object(0, "absent")]
At(l, v) == IF v = 0 THEN Nothing ELSE history[l][v]
Version(l) == Len(history[l])
Now(l, k) == At(l, Version(l))[k]

\* What a request "since v" lists: changed objects with their versions, and
\* the keys of deleted ones.
Changed(l, v, keys) ==
  {<<k, Now(l, k).ver>> : k \in {k \in keys : Now(l, k).ver > v /\ Now(l, k).kind \in Live(k)}}
Deleted(l, v) == {k \in Keys : Now(l, k).ver > v /\ Now(l, k).kind = "gone"}

ProviderChanges(l, k, kind) ==
  /\ Version(l) < MaxVersion
  /\ kind = "gone" => Now(l, k).kind \in Live(k)
  /\ history' = [history EXCEPT ![l] =
       Append(@, [At(l, Version(l)) EXCEPT ![k] = Object(Version(l) + 1, kind)])]
  /\ UNCHANGED <<database, worker, refresh, asks>>

\* The header is on an answer: "b" says whether.
Heard(b) ==
  /\ b => asks < MaxAsks
  /\ asks' = IF b THEN asks + 1 ELSE asks
-----------------------------------------------------------------------------
(* Jobs, runs and leases.                                                  *)

ActiveJob == {"QUEUED", "RETRYING", "RUNNING"}
Terminal == {"SUCCEEDED", "FAILED", "DEAD_LETTER"}
ActiveRun == {"QUEUED", "RUNNING", "BACKING_OFF"}

NoJob == [status |-> "NONE", run |-> 0, attempts |-> 0, max |-> 0,
          lease |-> 0, by |-> None, expired |-> FALSE, held |-> FALSE]

\* The lease columns of a job that is not RUNNING.  "held": runAfter is ahead.
Unleased(j, status, held) ==
  [j EXCEPT !.status = status, !.lease = 0, !.by = None, !.expired = FALSE, !.held = held]

Connected == connection.status = "ACTIVE"   \* CONNECTED or DEGRADED, with a credential
Syncable(l) == library[l].enabled /\ library[l].readable

Idle == [phase |-> "idle"]
Reading == {"items", "collections", "bodies", "deletions"}
Working(w) == worker[w].phase # "idle"

LeaseHeld(w) ==
  LET j == job[worker[w].lib] IN
  j.status = "RUNNING" /\ j.by = w /\ j.lease = worker[w].lease /\ ~j.expired

\* Wrong on purpose: the connection row may have moved since the claim, or the
\* lease may have gone to another worker.
LeaseIsCurrentUnfenced(w) == LeaseHeld(w) /\ Connected /\ Syncable(worker[w].lib)
LeaseIsCurrentUnheld(w) == Connected /\ w \in seen /\ Syncable(worker[w].lib)

LeaseIsCurrent(w) ==
  LeaseHeld(w) /\ Connected /\ w \in seen /\ Syncable(worker[w].lib)

GoIdle(w) == worker' = [worker EXCEPT ![w] = Idle]
-----------------------------------------------------------------------------
(* Triggers: a member's "sync now", and the periodic scheduler.            *)

\* Wrong on purpose: only a job at work is coalesced with.
CoalescesRunning(l) == job[l].status = "RUNNING" /\ runs[l][job[l].run].status \in ActiveRun

Coalesces(l) == job[l].status \in ActiveJob /\ runs[l][job[l].run].status \in ActiveRun

\* A new run in the library's job, for each library of L.
Enqueue(L) ==
  /\ \A l \in L : Len(runs[l]) < MaxRuns
  /\ runs' = [l \in Libraries |-> IF l \notin L THEN runs[l] ELSE
       Append(runs[l], [status |-> IF connection.backoff THEN "BACKING_OFF" ELSE "QUEUED",
                        from |-> library[l].cursor])]
  /\ job' = [l \in Libraries |-> IF l \notin L THEN job[l] ELSE
       Unleased([job[l] EXCEPT !.run = Len(runs[l]) + 1, !.max = job[l].attempts + Budget],
                IF connection.backoff THEN "RETRYING" ELSE "QUEUED", connection.backoff)]
  /\ UNCHANGED <<history, connection, seen, library, mirror, inbox, ledger, stages,
                 worker, refresh, asks>>

QueueSelected ==
  LET fresh == {l \in Libraries : Syncable(l) /\ ~Coalesces(l)} IN
  Connected /\ fresh # {} /\ Enqueue(fresh)

\* The cadence can have elapsed at any time.
ScheduleDue(l) ==
  Connected /\ Syncable(l) /\ job[l].status \in {"NONE", "SUCCEEDED"} /\ Enqueue({l})
-----------------------------------------------------------------------------
(* Claiming.                                                               *)

\* Wrong on purpose: nobody takes over an expired lease.
ClaimableWaiting(l) == job[l].status \in {"QUEUED", "RETRYING"} /\ ~job[l].held

Claimable(l) == \/ job[l].status \in {"QUEUED", "RETRYING"} /\ ~job[l].held
                \/ job[l].status = "RUNNING" /\ job[l].expired

BudgetLeft(l) == job[l].attempts < job[l].max
ClearedStages(l, r) == [stages EXCEPT ![l] = {s \in @ : s.run # r}]
RunIs(l, r, f) == [runs EXCEPT ![l][r] = f]

\* terminalInvalidJob: the target is gone, or the attempts are used up.  The
\* attempt of an expired lease is left as it is.
TerminalInvalid(l) ==
  LET r == job[l].run IN
  /\ Claimable(l)
  /\ \/ ~Connected \/ ~Syncable(l)
     \/ ~connection.backoff /\ ~BudgetLeft(l)
  /\ job' = [job EXCEPT ![l] = Unleased(@, "DEAD_LETTER", FALSE)]
  /\ runs' = RunIs(l, r, [runs[l][r] EXCEPT !.status = "FAILED"])
  /\ stages' = ClearedStages(l, r)
  /\ UNCHANGED <<history, connection, seen, library, mirror, inbox, ledger,
                 worker, refresh, asks>>

\* The provider's pause is not over.  The attempt of an expired lease is left
\* as it is, and so are the staged rows.
PutOff(l) ==
  LET r == job[l].run IN
  /\ Claimable(l) /\ Connected /\ Syncable(l) /\ connection.backoff
  /\ job' = [job EXCEPT ![l] = Unleased(@, "RETRYING", TRUE)]
  /\ runs' = RunIs(l, r, [runs[l][r] EXCEPT !.status = "BACKING_OFF"])
  /\ UNCHANGED <<history, connection, seen, library, mirror, inbox, ledger, stages,
                 worker, refresh, asks>>

ClosedLedger(l) ==
  [n \in 1..Len(ledger[l]) |->
     IF job[l].status = "RUNNING" /\ n = job[l].lease /\ ledger[l][n] = "RUNNING"
     THEN "FAILED" ELSE ledger[l][n]]

Claim(w, l) ==
  LET r == job[l].run
      n == job[l].attempts + 1
  IN
  /\ ~Working(w)
  /\ Claimable(l) /\ Connected /\ Syncable(l) /\ ~connection.backoff
  /\ BudgetLeft(l)
  /\ job' = [job EXCEPT ![l] = [@ EXCEPT !.status = "RUNNING", !.attempts = n, !.lease = n,
                                         !.by = w, !.expired = FALSE, !.held = FALSE]]
  /\ ledger' = [ledger EXCEPT ![l] = Append(ClosedLedger(l), "RUNNING")]
  /\ stages' = ClearedStages(l, r)
  /\ runs' = RunIs(l, r, [status |-> "RUNNING", from |-> library[l].cursor])
  /\ seen' = seen \cup {w}
  /\ worker' = [worker EXCEPT ![w] =
       [phase |-> "items", lib |-> l, run |-> r, lease |-> n, from |-> library[l].cursor,
        observed |-> 0, manifest |-> {}, todo |-> {}, buffer |-> {}, failure |-> None]]
  /\ UNCHANGED <<history, connection, library, mirror, inbox, refresh, asks>>
-----------------------------------------------------------------------------
(* One pass over a library: runZoteroMetadataPass.                         *)

Failure(code, retryable, backoff) ==
  [code |-> code, retryable |-> retryable, backoff |-> backoff]

\* What can go wrong with a request, or with the worker: 401 authentication, 403
\* forbidden (or what the identity check makes of it), no answer from the
\* credential store, anything else; with or without a Backoff header.
Failures ==
  {f \in [code : Codes, retryable : BOOLEAN, backoff : BOOLEAN] :
     /\ f.code \in {"authentication", "forbidden"} => ~f.retryable
     /\ f.code = "credential" => f.retryable /\ ~f.backoff}

Requests(w, phase) ==
  worker[w].phase = phase /\ worker[w].buffer = {} /\ Connected
Advance(w, f) == /\ worker' = [worker EXCEPT ![w] = f]
                 /\ UNCHANGED <<history, database, refresh, asks>>
Fails(w, f) == worker' = [worker EXCEPT ![w].phase = "failing", ![w].failure = f]

\* observeVersion: the library has not moved since the first answer.
\* Wrong on purpose: the versions of a pass are not compared.
SteadyAssumed(w) == TRUE

Steady(w) == Version(worker[w].lib) = worker[w].observed

ListItems(w) ==
  LET h == worker[w] IN
  /\ Requests(w, "items")
  /\ Advance(w, [h EXCEPT !.phase = "collections", !.observed = Version(h.lib),
                          !.manifest = Changed(h.lib, h.from, Items)])

ListCollections(w) ==
  LET h == worker[w]
      listed == h.manifest \cup Changed(h.lib, h.from, Collections)
  IN
  /\ Requests(w, "collections") /\ Steady(w)
  /\ Advance(w, [h EXCEPT !.phase = IF listed = {} THEN "deletions" ELSE "bodies",
                          !.observed = Version(h.lib), !.manifest = listed, !.todo = listed])

Row(r, k, obj) == [run |-> r, key |-> k, ver |-> obj.ver, kind |-> obj.kind]

\* The bodies of the listed items, then those of the listed collections.
\* verifyBatch: every body must have the version the manifest gave.
FetchBodies(w) ==
  LET h == worker[w]
      items == {p \in h.todo : p[1] \in Items}
      batch == IF items # {} THEN items ELSE h.todo
  IN
  /\ Requests(w, "bodies") /\ Steady(w)
  /\ \A p \in batch : Now(h.lib, p[1]).ver = p[2] /\ Now(h.lib, p[1]).kind \in Live(p[1])
  /\ Advance(w, [h EXCEPT !.phase = IF h.todo = batch THEN "deletions" ELSE "bodies",
                          !.todo = @ \ batch, !.observed = Version(h.lib),
                          !.buffer = {Row(h.run, p[1], Now(h.lib, p[1])) : p \in batch}])

ListDeletions(w) ==
  LET h == worker[w] IN
  /\ Requests(w, "deletions") /\ Steady(w)
  /\ \A p \in h.manifest : p[1] \notin Deleted(h.lib, h.from)
  /\ Advance(w, [h EXCEPT !.phase = "commit", !.observed = Version(h.lib),
                          !.buffer = {Row(h.run, k, Object(Version(h.lib), "gone")) :
                                        k \in Deleted(h.lib, h.from)}])

\* Last-Modified-Version changed during the pass.
VersionMoved(w) ==
  /\ \E phase \in Reading \ {"items"} : Requests(w, phase)
  /\ ~Steady(w)
  /\ Fails(w, Failure("other", TRUE, FALSE))
  /\ UNCHANGED <<history, database, refresh, asks>>

ProviderRefuses(w, f) ==
  /\ \E phase \in Reading : Requests(w, phase)
  /\ Fails(w, f)
  /\ Heard(f.backoff)
  /\ UNCHANGED <<history, database, refresh>>

\* The credential resolver finds no usable connection: no request is made.
NoCredential(w) ==
  /\ worker[w].phase \in Reading /\ worker[w].buffer = {} /\ ~Connected
  /\ Fails(w, Failure("credential", FALSE, FALSE))
  /\ UNCHANGED <<history, database, refresh, asks>>

\* stageZoteroSyncObjects: upsert, if the lease is current.
Stage(w) ==
  LET h == worker[w]
      rows == {s \in stages[h.lib] : \A b \in h.buffer : s.run # b.run \/ s.key # b.key}
  IN
  /\ Working(w) /\ h.phase # "failing" /\ h.buffer # {}
  /\ IF LeaseIsCurrent(w)
     THEN /\ stages' = [stages EXCEPT ![h.lib] = rows \cup h.buffer]
          /\ worker' = [worker EXCEPT ![w].buffer = {}]
     ELSE GoIdle(w) /\ UNCHANGED stages
  /\ UNCHANGED <<history, connection, seen, library, mirror, inbox, job, ledger, runs,
                 refresh, asks>>
-----------------------------------------------------------------------------
(* Publishing and failing.                                                 *)

\* Wrong on purpose: a deleted object keeps the row it had.
MirroredUndeleted(row, target) ==
  IF row.kind = "gone" THEN Object(target, "other") ELSE Object(row.ver, row.kind)

Mirrored(row, target) ==
  IF row.kind = "gone" THEN Object(target, "gone") ELSE Object(row.ver, row.kind)

\* Wrong on purpose: an entry once withdrawn stays so.
InboxAfterForGood(entry, kind) ==
  IF kind = "gone" /\ entry = "PENDING" THEN "WITHDRAWN"
  ELSE IF kind = "paper" /\ entry = "NONE" THEN "PENDING"
  ELSE entry

\* A deletion withdraws an entry nobody has filed; a paper opens or reopens one.
InboxAfter(entry, kind) ==
  IF kind = "gone" /\ entry = "PENDING" THEN "WITHDRAWN"
  ELSE IF kind = "paper" /\ entry \in {"NONE", "WITHDRAWN"} THEN "PENDING"
  ELSE entry

\* The rows the run staged, one per object.
Staged(l, r) == {s \in stages[l] : s.run = r}
RowOf(l, r, k) == CHOOSE s \in Staged(l, r) : s.key = k
StagedKeys(l, r) == {s.key : s \in Staged(l, r)}

CanPublish(w) ==
  LET h == worker[w] IN
  /\ LeaseIsCurrent(w)
  /\ library[h.lib].cursor = h.from
  /\ runs[h.lib][h.run].status = "RUNNING" /\ runs[h.lib][h.run].from = h.from
  /\ ledger[h.lib][h.lease] = "RUNNING"

\* The answer of the commit may be lost: the worker then takes it for a failure.
Publish(w) ==
  LET h == worker[w]
      l == h.lib
      keys == StagedKeys(l, h.run)
  IN
  /\ h.phase = "commit" /\ h.buffer = {} /\ CanPublish(w)
  /\ mirror' = [mirror EXCEPT ![l] = [k \in Keys |->
       IF k \in keys THEN Mirrored(RowOf(l, h.run, k), h.observed) ELSE @[k]]]
  /\ inbox' = [inbox EXCEPT ![l] = [k \in Items |->
       IF k \in keys THEN InboxAfter(@[k], RowOf(l, h.run, k).kind) ELSE @[k]]]
  /\ library' = [library EXCEPT ![l].cursor = h.observed]
  /\ runs' = RunIs(l, h.run, [runs[l][h.run] EXCEPT !.status = "SUCCEEDED"])
  /\ job' = [job EXCEPT ![l] = Unleased(@, "SUCCEEDED", FALSE)]
  /\ ledger' = [ledger EXCEPT ![l][h.lease] = "SUCCEEDED"]
  /\ stages' = ClearedStages(l, h.run)
  /\ GoIdle(w) \/ Fails(w, Failure("other", TRUE, FALSE))
  /\ UNCHANGED <<history, connection, seen, refresh, asks>>

\* The lease is lost, or another lease of the run published this version.
PublishRefused(w) ==
  /\ worker[w].phase = "commit" /\ worker[w].buffer = {} /\ ~CanPublish(w)
  /\ GoIdle(w)
  /\ UNCHANGED <<history, database, refresh, asks>>

\* A transaction that stages or publishes throws, and nothing of it is kept.
DatabaseFails(w) ==
  /\ Working(w) /\ worker[w].phase # "failing"
  /\ worker[w].phase = "commit" \/ worker[w].buffer # {}
  /\ Fails(w, Failure("other", TRUE, FALSE))
  /\ UNCHANGED <<history, database, refresh, asks>>

FailLease(w) ==
  LET h == worker[w]
      l == h.lib
      retries == h.failure.retryable /\ BudgetLeft(l)
      final == IF h.failure.retryable THEN "DEAD_LETTER" ELSE "FAILED"
      touches == h.failure.backoff \/ h.failure.code # "other"
  IN
  /\ h.phase = "failing"
  /\ GoIdle(w)
  /\ IF LeaseIsCurrent(w)
     THEN /\ connection' =
               [connection EXCEPT !.status = IF h.failure.code = "authentication"
                                             THEN "REVOKED" ELSE @,
                                  !.backoff = @ \/ h.failure.backoff]
          /\ seen' = IF touches THEN {} ELSE seen
          /\ library' = [library EXCEPT ![l].readable = @ /\ h.failure.code # "forbidden"]
          /\ job' = [job EXCEPT ![l] =
               Unleased(@, IF retries THEN "RETRYING" ELSE final, retries /\ h.failure.backoff)]
          /\ ledger' = [ledger EXCEPT ![l][h.lease] = IF retries THEN "FAILED" ELSE final]
          /\ runs' = RunIs(l, h.run, [runs[l][h.run] EXCEPT
                                        !.status = IF retries THEN "BACKING_OFF" ELSE "FAILED"])
          /\ stages' = ClearedStages(l, h.run)
     ELSE UNCHANGED <<connection, seen, library, job, ledger, runs, stages>>
  /\ UNCHANGED <<history, mirror, inbox, refresh, asks>>
-----------------------------------------------------------------------------
(* What users do to the connection.  Every one of these moves updatedAt.   *)

SelectLibraries(L) ==
  /\ Connected /\ \A l \in L : library[l].readable
  /\ \E l \in Libraries : library[l].enabled # (l \in L)
  /\ library' = [l \in Libraries |-> [library[l] EXCEPT !.enabled = l \in L]]
  /\ seen' = {}
  /\ UNCHANGED <<history, connection, mirror, inbox, job, ledger, runs, stages,
                 worker, refresh, asks>>

Readable(L) == library' = [l \in Libraries |-> [library[l] EXCEPT !.readable = l \in L]]

\* discoverZoteroLibraries reads the connection, asks the provider outside any
\* transaction, and publishes if the credential is the one it used.
RefreshStarts ==
  /\ refresh = "idle" /\ Connected /\ ~connection.backoff
  /\ refresh' = "asking"
  /\ UNCHANGED <<history, database, worker, asks>>

RefreshPublishes(L, b) ==
  /\ refresh = "asking" /\ Connected
  /\ connection' = [connection EXCEPT !.backoff = b]
  /\ Readable(L)
  /\ seen' = {}
  /\ Heard(b)
  /\ refresh' = "idle"
  /\ UNCHANGED <<history, mirror, inbox, job, ledger, runs, stages, worker>>

\* recordProviderFailure: fenced by the credential only.  It writes DEGRADED
\* when the failure needs attention, and the deadline when there is one.
RefreshFails(attention, b) ==
  /\ refresh = "asking"
  /\ Heard(b)
  /\ IF attention \/ b
     THEN /\ connection' = [status |-> IF attention THEN "ACTIVE" ELSE connection.status,
                            backoff |-> b \/ connection.backoff]
          /\ seen' = {}
     ELSE UNCHANGED <<connection, seen>>
  /\ refresh' = "idle"
  /\ UNCHANGED <<history, library, mirror, inbox, job, ledger, runs, stages, worker>>

\* The connection or its credential changed meanwhile: nothing is written.
RefreshRefused ==
  /\ refresh # "idle" /\ (refresh = "asking" => ~Connected)
  /\ refresh' = "idle"
  /\ UNCHANGED <<history, database, worker, asks>>

NewGeneration == refresh' = IF refresh = "asking" THEN "stale" ELSE refresh

Disconnect ==
  /\ connection.status # "DISCONNECTED"
  /\ connection' = [connection EXCEPT !.status = "DISCONNECTED"]
  /\ library' = [l \in Libraries |-> [library[l] EXCEPT !.enabled = FALSE]]
  /\ seen' = {}
  /\ NewGeneration
  /\ UNCHANGED <<history, mirror, inbox, job, ledger, runs, stages, worker, asks>>

\* The same account is authorised again: a new key, no pending pause.
Reconnect(L) ==
  /\ connection' = [status |-> "ACTIVE", backoff |-> FALSE]
  /\ Readable(L)
  /\ seen' = {}
  /\ NewGeneration
  /\ UNCHANGED <<history, mirror, inbox, job, ledger, runs, stages, worker, asks>>

FileEntry(l, k) ==
  /\ inbox[l][k] = "PENDING"
  /\ inbox' = [inbox EXCEPT ![l][k] = "IMPORTED"]
  /\ UNCHANGED <<history, connection, seen, library, mirror, job, ledger, runs, stages,
                 worker, refresh, asks>>
-----------------------------------------------------------------------------
(* Time and crashes.                                                       *)

\* A lease nobody renewed in time.  A heartbeat on a live lease changes
\* nothing here, and on an expired one it is refused.
LeaseExpires(l) ==
  /\ job[l].status = "RUNNING" /\ ~job[l].expired
  /\ job' = [job EXCEPT ![l].expired = TRUE]
  /\ UNCHANGED <<history, connection, seen, library, mirror, inbox, ledger, runs, stages,
                 worker, refresh, asks>>

\* The provider's deadline passes, and with it every runAfter set to it.
BackoffElapses ==
  /\ connection.backoff \/ \E l \in Libraries : job[l].held
  /\ connection' = [connection EXCEPT !.backoff = FALSE]
  /\ job' = [l \in Libraries |-> [job[l] EXCEPT !.held = FALSE]]
  /\ UNCHANGED <<history, seen, library, mirror, inbox, ledger, runs, stages,
                 worker, refresh, asks>>

Crash(w) ==
  /\ Working(w) /\ GoIdle(w)
  /\ UNCHANGED <<history, database, refresh, asks>>
-----------------------------------------------------------------------------
Init ==
  /\ history = [l \in Libraries |-> <<>>]
  /\ connection = [status |-> "ACTIVE", backoff |-> FALSE]
  /\ seen = {}
  /\ \E L \in SUBSET Libraries :
       library = [l \in Libraries |-> [enabled |-> l \in L, readable |-> TRUE, cursor |-> 0]]
  /\ mirror = [l \in Libraries |-> Nothing]
  /\ inbox = [l \in Libraries |-> [k \in Items |-> "NONE"]]
  /\ job = [l \in Libraries |-> NoJob]
  /\ ledger = [l \in Libraries |-> <<>>]
  /\ runs = [l \in Libraries |-> <<>>]
  /\ stages = [l \in Libraries |-> {}]
  /\ worker = [w \in Workers |-> Idle]
  /\ refresh = "idle"
  /\ asks = 0

Provider == \E l \in Libraries, k \in Keys : \E kind \in Live(k) \cup {"gone"} :
              ProviderChanges(l, k, kind)

Users ==
  \/ QueueSelected
  \/ "select" \in Moves /\ \E L \in SUBSET Libraries : SelectLibraries(L)
  \/ "reconnect" \in Moves /\ \E L \in SUBSET Libraries : Reconnect(L)
  \/ "disconnect" \in Moves /\ Disconnect
  \/ "file" \in Moves /\ \E l \in Libraries, k \in Items : FileEntry(l, k)
  \/ "refresh" \in Moves /\
       \/ RefreshStarts \/ RefreshRefused
       \/ \E L \in SUBSET Libraries, b \in BOOLEAN : RefreshPublishes(L, b)
       \/ \E attention, b \in BOOLEAN : RefreshFails(attention, b)

\* A worker with nothing in hand polls.
Poll(l) ==
  /\ \E w \in Workers : ~Working(w)
  /\ TerminalInvalid(l) \/ PutOff(l) \/ \E w \in Workers : Claim(w, l)
Pass(w) ==
  \/ ListItems(w) \/ ListCollections(w) \/ FetchBodies(w) \/ ListDeletions(w)
  \/ VersionMoved(w) \/ NoCredential(w)
  \/ Stage(w) \/ Publish(w) \/ PublishRefused(w) \/ FailLease(w)

Next ==
  \/ Provider \/ Users \/ BackoffElapses
  \/ \E l \in Libraries : ScheduleDue(l) \/ Poll(l) \/ LeaseExpires(l)
  \/ \E w \in Workers : Pass(w) \/ Crash(w) \/ DatabaseFails(w)
  \/ \E w \in Workers, f \in Failures : ProviderRefuses(w, f)

Spec == Init /\ [][Next]_vars

\* Workers poll and finish what they start, leases and deadlines run out.
\* Nothing is assumed of the provider or of the users.
FairSpec ==
  /\ Spec /\ WF_vars(BackoffElapses)
  /\ \A l \in Libraries : WF_vars(Poll(l)) /\ WF_vars(LeaseExpires(l))
  /\ \A w \in Workers : WF_vars(Pass(w))
=============================================================================
