-------------------------- MODULE WorkspaceCommands --------------------------
(***************************************************************************)
(* The commands of a shared workspace (src/server/workspaces/*,            *)
(* src/server/integrations/webmcp/approval-service.ts) and the browser     *)
(* that sends them (src/components/live-paper-pilot-app.tsx): evidence     *)
(* notes and their revisions, the approval of a WebMCP proposal, and the   *)
(* membership of the workspace itself.                                     *)
(*                                                                         *)
(* Every command carries an operation id and the workspace revision its    *)
(* sender has loaded, and is one transaction: membership, receipt of the   *)
(* operation, revision, the command's own checks, revision + 1, effects,   *)
(* receipt.  The effects are the log; the revision is its length, and the  *)
(* entry of an operation is also its receipt, as one transaction writes    *)
(* both.  A request may arrive late, after its sender gave up and sent it  *)
(* again; an answer may be lost; a sender may adopt an answer that is      *)
(* about an older revision than it names.                                  *)
(***************************************************************************)
EXTENDS Integers, Sequences, FiniteSets

CONSTANTS
  Users,         \* people with an account
  FirstRole,     \* the role each has at first, "none" for outsiders
  Kinds,         \* the kinds of commands an instance looks at
  MaxOps,        \* commands that are started
  MaxSends,      \* requests sent for one command
  MaxGenerations,\* extractions of the document the evidence cites
  MaxChallenges, \* approval challenges prepared, one by a person at a revision
  None

Contributions == {"note", "capture", "verify", "reanchor", "approve"}
Management == {"invite", "cancel", "role", "remove"}
Roles == {"owner", "admin", "member", "viewer"}

ASSUME CommandBounds ==
  /\ {MaxOps, MaxSends, MaxGenerations, MaxChallenges} \subseteq Nat
  /\ Kinds \subseteq Contributions \cup Management \cup {"decide"}
  /\ FirstRole \in [Users -> Roles \cup {"none"}]

VARIABLES
  role,       \* Member.role, "none" for who is not a member
  invitation, \* the last Invitation to each user
  log,        \* what each revision of the workspace did, with its receipt
  generation, \* the extraction that is current for the cited document
  canonical,  \* canonical papers that carry the proposal's identifiers
  staged,     \* the proposal was staged with such a paper as its duplicate
  challenges, \* WebMcpApprovalChallenge rows
  command,    \* the commands the users started; a command's place is its id
  desk,       \* what each user's browser is doing
  post,       \* requests on their way to a server
  answer,     \* the answer on its way to each user
  heard       \* what the browsers took for certain about their commands

vars == <<role, invitation, log, generation, canonical, staged, challenges,
          command, desk, post, answer, heard>>
database == <<role, invitation, log, generation, canonical, staged, challenges>>
browsers == <<command, desk, post, heard>>

Revision == Len(log)
NoInvitation == [status |-> "none", role |-> None, by |-> None]
Entry(o) == {i \in DOMAIN log : log[i].op = o}

(* A browser: its open command, and the workspace it has loaded (d).       *)
Desk(d, phase, op, sends, selection) ==
  [phase |-> phase, op |-> op, sends |-> sends, selection |-> selection,
   version |-> d.version, blind |-> d.blind]
Idle(d) == Desk(d, "idle", None, 0, None)

Init ==
  /\ role = FirstRole
  /\ invitation = [u \in Users |-> NoInvitation]
  /\ log = <<>> /\ generation = 1
  /\ canonical \in (IF "approve" \in Kinds THEN {0, 1} ELSE {0}) /\ staged \in {FALSE, canonical = 1}
  /\ challenges = <<>> /\ command = <<>>
  /\ desk = [u \in Users |-> Idle([version |-> 0, blind |-> FALSE])]
  /\ post = {} /\ answer = [u \in Users |-> None] /\ heard = {}

-----------------------------------------------------------------------------
(* What the tables say.  A note is known by the command that made it; 0 is *)
(* a note captured before the story begins.                                *)

Notes == {0} \cup {log[i].op : i \in {j \in DOMAIN log :
            command[log[j].op].kind \in {"capture", "verify", "reanchor"}}}
Captured(n) == n = 0 \/ command[n].kind # "verify"
Successors(n) == {o \in Notes \ {0} : command[o].kind # "capture" /\ command[o].about = n}
Approvals == {i \in DOMAIN log : command[log[i].op].kind = "approve"}

(* invitationRolesFor and requireTargetManagementPermission: whom a role   *)
(* may invite, change and remove.                                          *)
Below(r) == CASE r = "owner" -> {"admin", "member", "viewer"}
              [] r = "admin" -> {"member", "viewer"}
              [] OTHER -> {}

-----------------------------------------------------------------------------
(* A server's verdict on a request m, [op, turn, expected, selection,      *)
(* blind], for the command c.                                              *)

(* The live membership each command demands first.                         *)
Authorized(c) ==
  \/ c.kind \in Contributions /\ role[c.by] \in {"owner", "admin", "member"}
  \/ c.kind \in Management /\ role[c.by] \in {"owner", "admin"}
  \/ c.kind = "decide" /\ invitation[c.by].status # "none"

(* The receipt of the operation: priorResult, replayIfPresent.             *)
\* Wrong on purpose: the receipt is looked up with the revision of the request.
DoneAtRevision(m) == \E i \in Entry(m.op) : i = m.expected + 1
Done(m) == Entry(m.op) # {}
SameRequest(m) == \A i \in Entry(m.op) : log[i].selection = m.selection

(* A revision must follow the head of its chain: existingSuccessor, and    *)
(* only a captured note is verified.                                       *)
\* Wrong on purpose: the successor of the cited note is not looked for.
NeverSuperseded(c) == c.kind = "verify" /\ ~Captured(c.about)
Superseded(c) ==
  /\ c.kind \in {"verify", "reanchor"}
  /\ Successors(c.about) # {} \/ (c.kind = "verify" /\ ~Captured(c.about))

(* The revision the sender has loaded; a decision on an invitation carries *)
(* none and takes the current one.                                         *)
\* Wrong on purpose: an approval is taken at whatever revision it arrives.
OvertakenUnlessApproval(c, m) == c.kind \notin {"decide", "approve"} /\ m.expected # Revision
Overtaken(c, m) == c.kind # "decide" /\ m.expected # Revision

(* The challenge an approval names, and the duplicate decision again.      *)
ChallengeHolds(c, m) ==
  /\ c.about \in DOMAIN challenges
  /\ LET held == challenges[c.about]
     IN  /\ held.by = c.by /\ held.decision = c.what /\ held.expected = m.expected
         /\ held.state = "open"
DecisionHolds(decision) ==
  \/ decision = "create_new" /\ ~staged /\ canonical = 0
  \/ decision = "use_existing" /\ staged

InvitationHolds(u) ==
  LET i == invitation[u]
  IN  /\ i.status = "pending"
      /\ i.role \in Below(role[i.by])
      /\ role[u] = "none"

(* The command's own conditions.                                           *)
Fits(c, m) ==
  CASE c.kind \in {"note", "verify"} -> TRUE
    [] c.kind \in {"capture", "reanchor"} -> m.selection = generation
    [] c.kind = "approve" -> Approvals = {} /\ ChallengeHolds(c, m) /\ DecisionHolds(c.what)
    [] c.kind = "invite" -> /\ c.what \in Below(role[c.by])
                            /\ role[c.about] = "none"
                            /\ invitation[c.about].status # "pending"
    [] c.kind = "cancel" -> /\ invitation[c.about].status \in {"pending", "lapsed"}
                            /\ invitation[c.about].role \in Below(role[c.by])
    [] c.kind = "decide" -> InvitationHolds(c.by)
    [] c.kind = "role" -> /\ c.about # c.by
                          /\ role[c.about] \in Below(role[c.by]) /\ c.what \in Below(role[c.by])
    [] c.kind = "remove" -> c.about # c.by /\ role[c.about] \in Below(role[c.by])

Verdict(c, m) ==
  IF ~Authorized(c) THEN "forbidden"
  ELSE IF Done(m) THEN (IF SameRequest(m) THEN "replayed" ELSE "reused")
  ELSE IF Superseded(c) THEN "revision_conflict"
  ELSE IF Overtaken(c, m) THEN "version_conflict"
  ELSE IF Fits(c, m) THEN "applied"
  ELSE IF c.kind \in {"capture", "reanchor"} THEN "selection_conflict"
  ELSE "refused"

(* What the commands do to the membership.                                 *)
Invited(c) == [invitation EXCEPT ![c.about] = [status |-> "pending", role |-> c.what, by |-> c.by]]
Canceled(u) == [invitation EXCEPT ![u].status = "canceled"]
Decided(c) == [invitation EXCEPT ![c.by].status = c.what]
\* Wrong on purpose: the invitations a removed member sent stay open.
InvitationsAsTheyWere(u) == invitation
WithoutInvitationsOf(u) ==
  [v \in Users |-> IF invitation[v].by = u /\ invitation[v].status \in {"pending", "lapsed"}
                   THEN [invitation[v] EXCEPT !.status = "canceled"] ELSE invitation[v]]

Membership(c) ==
  CASE c.kind = "invite" -> invitation' = Invited(c) /\ UNCHANGED role
    [] c.kind = "cancel" -> invitation' = Canceled(c.about) /\ UNCHANGED role
    [] c.kind = "decide" -> /\ invitation' = Decided(c)
                            /\ role' = IF c.what = "accepted"
                                       THEN [role EXCEPT ![c.by] = invitation[c.by].role] ELSE role
    [] c.kind = "role" -> role' = [role EXCEPT ![c.about] = c.what] /\ UNCHANGED invitation
    [] c.kind = "remove" -> /\ invitation' = WithoutInvitationsOf(c.about)
                            /\ role' = [role EXCEPT ![c.about] = "none"]
    [] OTHER -> UNCHANGED <<role, invitation>>

(* An approval consumes its challenge and may make the canonical paper.    *)
Approval(c) ==
  IF c.kind = "approve"
  THEN /\ challenges' = [challenges EXCEPT ![c.about].state = "consumed"]
       /\ canonical' = canonical + (IF c.what = "create_new" THEN 1 ELSE 0)
  ELSE UNCHANGED <<challenges, canonical>>

-----------------------------------------------------------------------------
(* A server takes a request.  Its answer reaches nobody if the sender has  *)
(* given the request up.                                                   *)
Answer(c, m, code, version) ==
  answer' = IF desk[c.by].phase = "waiting" /\ desk[c.by].op = m.op /\ desk[c.by].sends = m.turn
            THEN [answer EXCEPT ![c.by] = [code |-> code, version |-> version]] ELSE answer

Take(m) ==
  /\ post' = post \ {m}
  /\ UNCHANGED <<command, desk, heard, generation, staged>>

Apply(m) ==
  LET c == command[m.op]
  IN  /\ Verdict(c, m) = "applied"
      /\ log' = Append(log, [op |-> m.op, selection |-> m.selection, blind |-> m.blind])
      /\ Membership(c) /\ Approval(c)
      /\ Answer(c, m, "applied", Revision + 1)
      /\ Take(m)

(* A replay repeats the result under the current revision; an approval's   *)
(* receipt is repeated as it was stored.                                   *)
Replay(m) ==
  LET c == command[m.op]
  IN  /\ Verdict(c, m) = "replayed"
      /\ Answer(c, m, "replayed",
                IF c.kind = "approve" THEN CHOOSE i \in Entry(m.op) : TRUE ELSE Revision)
      /\ Take(m) /\ UNCHANGED <<role, invitation, log, challenges, canonical>>

Refuse(m) ==
  LET c == command[m.op]
  IN  /\ Verdict(c, m) \notin {"applied", "replayed"}
      /\ Answer(c, m, Verdict(c, m), Revision)
      /\ Take(m) /\ UNCHANGED <<role, invitation, log, challenges, canonical>>

(* The dossier of a proposal: authorization, the scholarly provider, and a *)
(* transaction that checks it all again before it stores the challenge.    *)
PrepareApproval(u, decision) ==
  /\ "approve" \in Kinds /\ Len(challenges) < MaxChallenges
  /\ desk[u].phase = "idle" /\ role[u] \in {"owner", "admin", "member"}
  /\ desk[u].version = Revision
  /\ ~\E i \in DOMAIN challenges : challenges[i].by = u /\ challenges[i].expected = Revision
  /\ Approvals = {}
  /\ decision = (IF staged THEN "use_existing" ELSE "create_new")
  /\ challenges' = Append(challenges, [by |-> u, decision |-> decision, expected |-> Revision,
                                       state |-> "open"])
  /\ UNCHANGED <<role, invitation, log, generation, canonical, staged, browsers, answer>>

(* Time, the pipeline of documents, and the other workspaces.              *)
ChallengeExpires(i) ==
  /\ challenges[i].state = "open"
  /\ challenges' = [challenges EXCEPT ![i].state = "expired"]
  /\ UNCHANGED <<role, invitation, log, generation, canonical, staged, browsers, answer>>

InvitationLapses(u) ==
  /\ invitation[u].status = "pending"
  /\ invitation' = [invitation EXCEPT ![u].status = "lapsed"]
  /\ UNCHANGED <<role, log, generation, canonical, staged, challenges, browsers, answer>>

GenerationAdvances ==
  /\ Kinds \cap {"capture", "reanchor"} # {} /\ generation < MaxGenerations
  /\ generation' = generation + 1
  /\ UNCHANGED <<role, invitation, log, canonical, staged, challenges, browsers, answer>>

CanonizedElsewhere ==
  /\ "approve" \in Kinds /\ canonical = 0
  /\ canonical' = 1
  /\ UNCHANGED <<role, invitation, log, generation, staged, challenges, browsers, answer>>

-----------------------------------------------------------------------------
(* A browser.  Commands of the first sort keep their operation id until    *)
(* they are settled; the others mint one for every click.                  *)
Retained == {"capture", "verify", "reanchor", "approve"}

Loaded(u) ==
  LET d == desk[u]
  IN  Desk([version |-> Revision, blind |-> FALSE], d.phase, d.op, d.sends, d.selection)
At(u, phase) == desk[u].phase = phase
Sees(u) == role[u] # "none"

(* What a user may start, as far as the screen shows.                      *)
Intents(u) ==
  LET intent(kind, about, what) == [kind |-> kind, by |-> u, about |-> about, what |-> what]
      others == Users \ {u}
  IN  {i \in {intent("note", None, None), intent("capture", None, None)}
         \cup {intent(k, n, None) : k \in {"verify", "reanchor"}, n \in Notes}
         \cup {intent("approve", c, challenges[c].decision) : c \in DOMAIN challenges}
         \cup {intent(k, v, r) : k \in {"invite", "role"}, v \in others, r \in Roles \ {"owner"}}
         \cup {intent(k, v, None) : k \in {"cancel", "remove"}, v \in others}
         \cup {intent("decide", None, d) : d \in {"accepted", "rejected"}} :
         /\ i.kind \in Kinds
         /\ i.kind = "approve" => challenges[i.about].by = u
                                  /\ challenges[i.about].expected = desk[u].version
         /\ i.kind = "verify" => Captured(i.about)
         /\ i.kind = "decide" => invitation[u].status = "pending"
         /\ i.kind \in {"verify", "reanchor"} => Successors(i.about) = {}
         /\ i.kind = "invite" => role[i.about] = "none"
         /\ i.kind = "cancel" => invitation[i.about].status \in {"pending", "lapsed"}
         /\ i.kind \in {"role", "remove"} => role[i.about] # "none"
         /\ i.kind # "decide" => Sees(u)}

Request(u, o, selection, turn) ==
  [op |-> o, turn |-> turn, expected |-> desk[u].version, selection |-> selection,
   blind |-> desk[u].blind]

Submit(u, intent) ==
  LET o == Len(command) + 1
      selection == IF intent.kind \in {"capture", "reanchor"} THEN generation ELSE None
  IN  /\ o <= MaxOps /\ At(u, "idle") /\ intent \in Intents(u)
      /\ command' = Append(command, intent)
      /\ desk' = [desk EXCEPT ![u] = Desk(@, "waiting", o, 1, selection)]
      /\ post' = post \cup {Request(u, o, selection, 1)}
      /\ UNCHANGED <<database, answer, heard>>

(* The same operation id again: an approval with its frozen bytes, the     *)
(* others with the revision loaded by now.                                 *)
SendAgain(u) ==
  LET d == desk[u]
      again == Request(u, d.op, d.selection, d.sends + 1)
  IN  /\ At(u, "unsure") \/ At(u, "conflict")
      /\ d.sends < MaxSends
      /\ desk' = [desk EXCEPT ![u] = Desk(@, "waiting", @.op, @.sends + 1, @.selection)]
      /\ post' = post \cup {IF command[d.op].kind = "approve"
                            THEN [again EXCEPT !.expected = challenges[command[d.op].about].expected]
                            ELSE again}
      /\ UNCHANGED <<database, command, answer, heard>>

(* The passage is selected again in the current text; the id stays.        *)
Reselect(u) ==
  /\ desk[u].phase \in {"unsure", "conflict", "changed"}
  /\ desk[u].selection \notin {None, generation}
  /\ desk' = [desk EXCEPT ![u] = Desk(@, "unsure", @.op, @.sends, generation)]
  /\ UNCHANGED <<database, command, post, answer, heard>>

(* The answer does not come, or not in time.                               *)
GiveUp(u) ==
  /\ At(u, "waiting")
  /\ desk' = [desk EXCEPT ![u] = IF command[@.op].kind \in Retained
                                  THEN [@ EXCEPT !.phase = "unsure"] ELSE Idle(@)]
  /\ answer' = [answer EXCEPT ![u] = None]
  /\ UNCHANGED <<database, command, post, heard>>

(* The user dismisses the form or loads the page again.                    *)
Abandon(u) ==
  /\ desk[u].phase \in {"unsure", "conflict", "changed"}
  /\ desk' = [desk EXCEPT ![u] = Idle(Loaded(u))]
  /\ UNCHANGED <<database, command, post, answer, heard>>

Refresh(u) ==
  /\ ~At(u, "waiting") /\ Sees(u) /\ desk[u] # Loaded(u)
  /\ desk' = [desk EXCEPT ![u] = Loaded(u)]
  /\ UNCHANGED <<database, command, post, answer, heard>>

(* An answer that names revision v is adopted: the browser then holds v,   *)
(* and what the command did, but none of the revisions in between.         *)
Adopted(u, v) ==
  LET d == desk[u]
  IN  Idle([version |-> IF d.version < v THEN v ELSE d.version,
            blind |-> d.blind \/ \E i \in (d.version + 1) .. v : i \notin Entry(d.op)])
Heard(u, what) == heard' = heard \cup {[op |-> desk[u].op, what |-> what, selection |-> desk[u].selection]}
Consumes(u) == answer' = [answer EXCEPT ![u] = None] /\ UNCHANGED <<database, command, post>>

HearSuccess(u) ==
  /\ answer[u] # None /\ answer[u].code \in {"applied", "replayed"}
  /\ desk' = [desk EXCEPT ![u] = Adopted(u, answer[u].version)]
  /\ Heard(u, "done") /\ Consumes(u)

(* A retained evidence command survives the conflict under its id.         *)
HearConflict(u) ==
  /\ answer[u] # None /\ answer[u].code = "version_conflict"
  /\ LET kept == command[desk[u].op].kind \in Retained \ {"approve"}
     IN  /\ desk' = [desk EXCEPT ![u] = IF kept THEN [Loaded(u) EXCEPT !.phase = "conflict"]
                                             ELSE Idle(Loaded(u))]
         /\ IF kept THEN UNCHANGED heard ELSE Heard(u, "refused")
  /\ Consumes(u)

HearSourceChanged(u) ==
  /\ answer[u] # None /\ answer[u].code = "selection_conflict"
  /\ desk' = [desk EXCEPT ![u].phase = "changed"]
  /\ Consumes(u) /\ UNCHANGED heard

(* Of the refusals only a revision conflict takes an evidence command off  *)
(* the screen; the other commands end with any.                            *)
HearRefusal(u) ==
  LET code == answer[u].code
      kind == command[desk[u].op].kind
      closes == kind \notin Retained \ {"approve"} \/ code = "revision_conflict"
      loads == code = "revision_conflict" \/ (kind = "approve" /\ code = "refused")
  IN  /\ answer[u] # None /\ code \in {"forbidden", "revision_conflict", "refused", "reused"}
      /\ desk' = [desk EXCEPT ![u] = IF ~closes THEN [@ EXCEPT !.phase = "unsure"]
                                      ELSE IF loads THEN Idle(Loaded(u)) ELSE Idle(@)]
      /\ IF closes THEN Heard(u, IF code = "forbidden" THEN code ELSE "refused") ELSE UNCHANGED heard
      /\ Consumes(u)

-----------------------------------------------------------------------------
Next ==
  \/ \E m \in post : Apply(m) \/ Replay(m) \/ Refuse(m)
  \/ \E u \in Users, d \in {"create_new", "use_existing"} : PrepareApproval(u, d)
  \/ \E i \in DOMAIN challenges : ChallengeExpires(i)
  \/ \E u \in Users : \/ InvitationLapses(u) \/ SendAgain(u) \/ Reselect(u) \/ GiveUp(u)
                      \/ Abandon(u) \/ Refresh(u)
                      \/ HearSuccess(u) \/ HearConflict(u) \/ HearSourceChanged(u) \/ HearRefusal(u)
                      \/ \E i \in Intents(u) : Submit(u, i)
  \/ GenerationAdvances \/ CanonizedElsewhere

Spec == Init /\ [][Next]_vars
=============================================================================
