----------------------- MODULE UploadIntakeProperties -----------------------
(***************************************************************************)
(* What must be true of the receipt of an upload.                          *)
(***************************************************************************)
EXTENDS UploadIntake

\* Every row and process is in a state its columns and code have.
TypeOK ==
  /\ session \in [Sessions -> [status : {"NONE", "STORED", "REJECTED", "EXPIRED"} \cup Active,
                               claim : Attempts \cup {None}, left : 0..SessionTtl,
                               lease : 0..LeaseTtl]]
  /\ intake \in [Sessions -> {"NONE", "RESERVED", "RECEIVING", "QUARANTINED", "VALIDATING", "FAILED"}]
  /\ released \in [Sessions -> BOOLEAN]
  /\ asset \in [Sessions -> [status : {"UPLOADING", "QUARANTINED", "REJECTED"},
                             key : Attempts \cup {None}]]
  /\ batch \in [Sessions -> {"NONE", "RUNNING", "FAILED"}]
  /\ attempt \in [Attempts -> [of : Sessions \cup {None},
                               status : {"NONE", "COMMITTED"} \cup Receiving \cup Terminal,
                               wait : 0..CleanupLease, cleanup : {"pending", "adopted", "done"}]]
  /\ writer \in [Attempts -> {"none", "opening", "streaming", "linked", "stored", "written",
                              "rechecking", "undoing", "rejecting", "gone"}]
  /\ cleaner \in [Reconcilers -> [phase : {"idle", "adopted", "removing", "sweeping", "removed"},
                                  attempt : Attempts \cup {None}]]
  /\ parts \subseteq Attempts /\ objects \subseteq Attempts
-----------------------------------------------------------------------------
\* The claim, the attempts and the lifecycle of a session tell one story.  An
\* attempt receives exactly while it is its session's claim; one is committed
\* exactly when the session is stored, and its object is the original; an intake
\* still takes bytes exactly while the session is active.  Takeover, release,
\* expiry, rejection and commit each rewrite all of them.
ClaimsAgree ==
  /\ TypeOK
  /\ \A a \in Attempts :
       LET s == attempt[a].of
       IN  /\ attempt[a].status \in Receiving <=> s # None /\ session[s].claim = a
           /\ attempt[a].status = "COMMITTED" <=>
                s # None /\ session[s].status = "STORED" /\ asset[s].key = a
  /\ \A s \in Sessions :
       /\ session[s].claim # None <=> session[s].status = "RECEIVING"
       /\ session[s].claim # None => attempt[session[s].claim].of = s
       /\ session[s].status \in Active <=> intake[s] \in {"RESERVED", "RECEIVING"}
       /\ session[s].status = "STORED" <=> asset[s].key # None

\* Quota comes back only when nothing can be left to hold: the intake has
\* failed and every attempt of it ended and was cleaned up.
QuotaAgrees ==
  \A s \in Sessions : released[s] =>
    /\ intake[s] = "FAILED"
    /\ \A a \in AttemptsOf(attempt, s) :
         attempt[a].status \in Terminal /\ attempt[a].cleanup = "done"

\* The ceiling on what a workspace may retain: the intakes that hold quota
\* never exceed it, whatever was released in between.
ReservationsWithinCeiling ==
  Cardinality({s \in Sessions : intake[s] # "NONE" /\ ~released[s]}) <= MaxRetained

\* What is charged to a workspace is within its ceiling and covers what may
\* still be on disk.
QuotaIsHonest == QuotaAgrees /\ ReservationsWithinCeiling

\* docs/UPLOAD-INTAKE.md: "an attempt object already adopted by an
\* authoritative stored asset is never deleted".  The original of a stored
\* upload is on disk, for the validation worker to open.
StoredBytesExist ==
  \A s \in Sessions : session[s].status = "STORED" => asset[s].key \in objects

\* storage.ts: "A later reconciler must handle the improbable compensation
\* failure."  A file that no request works on any more is the original of a
\* stored upload, or its attempt still awaits the cleanup that will delete it.
LeftoversAreReconciled ==
  \A a \in parts \cup objects :
    \/ writer[a] # "gone"
    \/ attempt[a].status = "COMMITTED"
    \/ session[attempt[a].of].claim = a
    \/ attempt[a].status \in Terminal /\ attempt[a].cleanup = "pending"
-----------------------------------------------------------------------------
\* A request that lost its claim changes nothing of the database, and of the
\* files only its own: "A stale attempt therefore cannot overwrite or delete a
\* newer attempt's bytes."
StaleWritersAreHarmless ==
  [][\A a \in Attempts :
       writer'[a] # writer[a] /\ writer[a] # "none" /\ session[attempt[a].of].claim # a =>
         /\ UNCHANGED rows
         /\ objects \ {a} = objects' \ {a} /\ parts \ {a} = parts' \ {a}]_vars
-----------------------------------------------------------------------------
\* The worker loop reconciles every minute, and a reconciler is not killed, nor
\* its disk broken, at the same point for ever.  Nothing else is fair: not the
\* browser, not the request.
FairSpec ==
  /\ Spec /\ WF_vars(Tick)
  /\ WF_vars(\E s \in Sessions : ExpireSession(s))
  /\ WF_vars(\E s \in Sessions : ReleaseReceiveLease(s))
  /\ \A r \in Reconcilers :
       SF_vars(RemoveFinal(r)) /\ SF_vars(SweepParts(r)) /\ SF_vars(finishCleanupClaim(r))
  /\ SF_vars(\E a \in Attempts, r \in Reconcilers : claimCleanupAttempts(r, a))

\* Every reservation ends, though nobody sends its bytes: stored, or with its
\* quota returned once what its attempts left behind has been deleted.
EveryUploadEnds ==
  \A s \in Sessions :
    session[s].status = "ISSUED" ~> session[s].status = "STORED" \/ released[s]
=============================================================================
