-------------------- MODULE AttachmentDownloadsProperties ---------------------
(* What AttachmentDownloads is expected to keep.                           *)
EXTENDS AttachmentDownloads

Shapes ==
  /\ job \in [status : Waiting \cup {"NONE", "RUNNING", "SUCCEEDED", "FAILED", "DEAD_LETTER"},
              attempts : 0..MaxAttempts, left : Nat, wait : Nat]
  /\ row \in [Attempts -> {"NONE", "RUNNING", "SUCCEEDED", "FAILED", "DEAD_LETTER"}]
  /\ ingress \in [Attempts -> [status : {"NONE", "ADOPTED"} \cup Open \cup Given, left : Nat,
                               wait : Nat, tries : Nat, cleaned : BOOLEAN]]
  /\ command \in [status : {"NONE", "QUEUED", "DOWNLOADING", "QUARANTINED", "FAILED"},
                  retry : Nat \cup {None}]
  /\ receipt \in Attempts \cup {None}
  /\ {store.parts, store.finals} \subseteq SUBSET Attempts

\* A failed import is charged until the deletion of its files is recorded
\* (docs/ZOTERO-INTEGRATION.md:197).
QuotaIsHeldForFiles == target.released => ~Unsafe(ingress)

\* The import, its job, its attempts and its target tell the same story: an
\* open attempt belongs to the running job, the job is dead exactly when the
\* import has failed, and a success has its receipt.
StoryAgrees ==
  /\ Shapes
  /\ \A n \in Attempts : ingress[n].status \in Open => job.status = "RUNNING" /\ job.attempts = n
  /\ command.status = "FAILED" <=> job.status \in {"FAILED", "DEAD_LETTER"}
  /\ target.intake = (IF command.status = "DOWNLOADING" THEN "RECEIVING" ELSE command.status)
  /\ command.status = "QUARANTINED" <=> receipt # None
  /\ receipt # None => receipt \in store.finals /\ ~target.released
  /\ QuotaIsHeldForFiles

\* Bytes are adopted only under the authority they were asked for, even when
\* it is lost while they are on the way.
NothingIsAdoptedStale == [][receipt' # receipt => authority = "current"]_vars

\* A worker whose lease is lost writes no row, except to claim a cleanup.
OvertakenDownloadsChangeNothing ==
  [][\A w \in Workers :
       hand[w].phase \in Executing /\ ~Leased(hand[w].n) /\ hand'[w] # hand[w]
         => UNCHANGED <<ingressRows, backoff>>]_vars

\* A commanded import ends in quarantine, or failed with its quota returned.
EveryDownloadSettles ==
  []<>(job.status = "NONE" \/ receipt # None \/ (command.status = "FAILED" /\ target.released))

\* "A failed physical write remains charged until exact deletion is proven."
\* (docs/ZOTERO-INTEGRATION.md:197)
ReleasedMeansGone == target.released => store.parts = {} /\ store.finals = {}
=============================================================================
