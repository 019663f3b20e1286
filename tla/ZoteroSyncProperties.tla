------------------------ MODULE ZoteroSyncProperties ------------------------
(***************************************************************************)
(* What must be true of the metadata sync of a Zotero connection.          *)
(***************************************************************************)
EXTENDS ZoteroSync

Kinds == {"absent", "paper", "other", "gone"}
Objects == [ver : 0..MaxVersion, kind : Kinds]
StageRows == [run : 1..MaxRuns, key : Keys, ver : 0..MaxVersion, kind : Kinds]
Attempted == 0..(Budget * MaxRuns)

Passes ==
  [phase : Reading \cup {"commit", "failing"}, lib : Libraries, run : 1..MaxRuns,
   lease : Attempted, from : 0..MaxVersion, observed : 0..MaxVersion,
   manifest : SUBSET (Keys \X (1..MaxVersion)), todo : SUBSET (Keys \X (1..MaxVersion)),
   buffer : SUBSET StageRows,
   failure : {None} \cup [code : Codes \cup {"other", "credential"},
                          retryable : BOOLEAN, backoff : BOOLEAN]]

\* Every row and process is in a state its columns and code have.
TypeOK ==
  /\ history \in [Libraries -> Seq([Keys -> Objects])]
  /\ connection \in [status : {"ACTIVE", "REVOKED", "DISCONNECTED"}, backoff : BOOLEAN]
  /\ seen \subseteq Workers
  /\ library \in [Libraries -> [enabled : BOOLEAN, readable : BOOLEAN, cursor : 0..MaxVersion]]
  /\ mirror \in [Libraries -> [Keys -> Objects]]
  /\ inbox \in [Libraries -> [Items -> {"NONE", "PENDING", "WITHDRAWN", "IMPORTED"}]]
  /\ job \in [Libraries -> [status : {"NONE"} \cup ActiveJob \cup Terminal, run : 0..MaxRuns,
                            attempts : Attempted, max : Attempted, lease : Attempted,
                            by : Workers \cup {None}, expired : BOOLEAN, held : BOOLEAN]]
  /\ ledger \in [Libraries -> Seq({"RUNNING"} \cup Terminal)]
  /\ runs \in [Libraries -> Seq([status : ActiveRun \cup {"SUCCEEDED", "FAILED"},
                                 from : 0..MaxVersion])]
  /\ stages \in [Libraries -> SUBSET StageRows]
  /\ \A w \in Workers : worker[w] = Idle \/ worker[w] \in Passes
  /\ refresh \in {"idle", "asking", "stale"}
  /\ asks \in 0..MaxAsks
-----------------------------------------------------------------------------
\* docs/ZOTERO-INTEGRATION.md, stable read pass: the workspace's copy of a
\* library is the library exactly as it was at the version of the cursor.  No
\* object of a later version is in it, none is missing, none that was deleted
\* is still live, although the copy is read in several requests while the
\* library may change, and written by workers that lose their leases.
SnapshotExact ==
  \A l \in Libraries, k \in Keys :
    LET source == At(l, library[l].cursor)[k] IN
    IF source.kind \in Live(k) THEN mirror[l][k] = source
    ELSE mirror[l][k].kind \in {"absent", "gone"}

\* The inbox tells what the copy does: an entry still open for review is about
\* an object that is there, and every paper that is there has an entry that was
\* not withdrawn with an earlier deletion.
InboxFollowsSource ==
  \A l \in Libraries, k \in Items :
    /\ inbox[l][k] = "PENDING" => mirror[l][k].kind \in Live(k)
    /\ mirror[l][k].kind = "paper" => inbox[l][k] \in {"PENDING", "IMPORTED"}

\* The comment on scheduleDueZoteroSyncs: the compound job key and the recheck
\* "allow only one active run per library".  Moreover that run is the job's, and
\* an active job has one: no run is left behind for the user to wait for.
OneActiveRun ==
  \A l \in Libraries :
    /\ \A r \in DOMAIN runs[l] :
         runs[l][r].status \in ActiveRun => r = job[l].run /\ job[l].status \in ActiveJob
    /\ job[l].status \in ActiveJob => runs[l][job[l].run].status \in ActiveRun

\* Staged rows are of the active run only, one per object: whatever ended a run
\* (publication, failure, a dead lease, a disconnect) took its rows with it.
StagesAreOfTheActiveRun ==
  \A l \in Libraries : \A s \in stages[l] :
    /\ s.run = job[l].run /\ job[l].status \in ActiveJob
    /\ \A t \in stages[l] : t.key = s.key => t = s

\* Job, run and staged rows tell one story.
RunsAgree == TypeOK /\ OneActiveRun /\ StagesAreOfTheActiveRun

\* completeZoteroSyncLease rolls everything back when the run or the attempt is
\* not the one it expects.  A worker whose lease is current never runs into
\* that: its run and attempt are running, from the version the library is at.
CurrentLeasesCanPublish ==
  \A w \in Workers :
    Working(w) /\ LeaseIsCurrent(w) =>
      LET h == worker[w] IN
      /\ library[h.lib].cursor = h.from
      /\ runs[h.lib][h.run].status = "RUNNING" /\ runs[h.lib][h.run].from = h.from
      /\ ledger[h.lib][h.lease] = "RUNNING"

\* What a worker does not know: its lease went to another, the library was
\* deselected or lost, the connection was reselected, refreshed, disconnected,
\* reconnected or told to pause by another worker since it claimed.
Overtaken(w) ==
  LET j == job[worker[w].lib] IN
  \/ j.status # "RUNNING" \/ j.lease # worker[w].lease \/ j.expired
  \/ w \notin seen \/ ~Syncable(worker[w].lib)

\* Nothing an overtaken pass does changes the database: it stages and publishes
\* nothing, fails no job, and a 401 for a key the user has replaced does not
\* revoke the new one.
OvertakenPassesChangeNothing ==
  [][\A w \in Workers :
       Working(w) /\ Overtaken(w) /\ worker'[w] # worker[w] => UNCHANGED database]_vars

\* Every sync that was asked for comes to an end: it succeeds, fails or is given
\* up, whichever worker dies or loses its lease on the way, as long as the
\* provider does not ask for a pause for ever.
EverySyncSettles ==
  \A l \in Libraries : job[l].status \in ActiveJob ~> job[l].status \in Terminal
-----------------------------------------------------------------------------
(* The library as the workspace sees it is a LibraryMirror.                *)

\* An object as the workspace shows it: its version and kind, or nothing.
Shown(o) == IF o.kind \in {"paper", "other"} THEN o ELSE Object(0, "absent")
Content(f) == [k \in Keys |-> Shown(f[k])]

Promise == INSTANCE LibraryMirror WITH
  Contents <- [Keys -> Objects],
  Empty <- Nothing,
  past <- [l \in Libraries |-> [v \in 1..(Version(l) + 1) |-> Content(At(l, v - 1))]],
  shown <- [l \in Libraries |-> library[l].cursor + 1],
  view <- [l \in Libraries |-> Content(mirror[l])]

\* Every behaviour of the sync is one of the abstract library: what is shown is
\* at any time one version of the history, and versions only move forward.
KeepsPromise == Promise!Spec
-----------------------------------------------------------------------------
(* What the documentation says and the code does not do.                   *)

\* docs/ZOTERO-INTEGRATION.md: "401: mark the connection revoked and require
\* reconnection."  A revoked connection is used again only after a reconnect.
RevokedUntilReconnected ==
  [][connection.status = "REVOKED" /\ connection'.status = "ACTIVE" =>
       \E L \in SUBSET Libraries : Reconnect(L)]_vars
=============================================================================
