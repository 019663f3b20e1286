--------------------- MODULE WorkspaceCommandsProperties ----------------------
(* What the commands of a workspace owe to the people who share it.        *)
EXTENDS WorkspaceCommands

(* However often a command is sent, and whatever revision each request     *)
(* names, the workspace carries it out at most once (the receipts of       *)
(* evidence-service.ts, evidence-revision-service.ts, approval-service.ts  *)
(* and collaboration-service.ts).  And what a browser was told holds: a    *)
(* command it heard to be done is in the workspace with the passage the    *)
(* browser shows, and one it heard refused is not there and never will be, *)
(* late requests included (live-paper-pilot-app.tsx: "A closed failure     *)
(* proves no unknown final response remains").                             *)
AnswersAreTrue ==
  /\ \A i, j \in DOMAIN log : log[i].op = log[j].op => i = j
  /\ \A h \in heard :
       IF h.what = "done" THEN \E i \in Entry(h.op) : log[i].selection = h.selection
       ELSE Entry(h.op) = {}

(* The revisions of a note form a chain: one successor at most, whoever    *)
(* revises it meanwhile, and only a captured note is verified.             *)
EvidenceIsAChain ==
  \A n \in Notes :
    /\ Cardinality(Successors(n)) <= 1
    /\ \A s \in Successors(n) : command[s].kind = "verify" => Captured(n)

(* A proposal is approved once, by the person who reviewed the evidence,   *)
(* in the very revision of the workspace they reviewed, on a challenge     *)
(* nobody else used; and it never makes a second canonical paper.          *)
ConsentMatchesReview ==
  /\ Cardinality(Approvals) <= 1 /\ canonical <= 1
  /\ \A i \in Approvals :
       LET c == command[log[i].op]
       IN  /\ challenges[c.about].state = "consumed" /\ challenges[c.about].by = c.by
           /\ challenges[c.about].expected = i - 1

(* An invitation that can still be accepted was sent by someone who is     *)
(* still a member, to someone who is not one: removal withdraws the        *)
(* invitations of the removed (removeWorkspaceMember).                     *)
InvitationsAreSound ==
  \A u \in Users : invitation[u].status = "pending" =>
    role[u] = "none" /\ role[invitation[u].by] # "none"

(* Optimistic concurrency, as README.md describes it: no command changes   *)
(* a revision its sender has not loaded.                                   *)
NoBlindWrites == \A i \in DOMAIN log : ~log[i].blind
=============================================================================
