---------------------- MODULE WorkspaceCommandsProofs -----------------------
(***************************************************************************)
(* Proofs about the commands of a workspace: each takes effect once, what  *)
(* a browser was told stays true, evidence is a chain, an approval is what *)
(* its author reviewed, and open invitations come from members.            *)
(***************************************************************************)
EXTENDS WorkspaceCommandsProperties, FiniteSetTheorems, TLAPS

-----------------------------------------------------------------------------
(* The shape of the state.                                                 *)

Decisions == {"create_new", "use_existing"}
Verdicts == {"accepted", "rejected"}
Passages == Nat \cup {None}

\* What a command is about and what it asks for, by its kind.
Sound(c) ==
  /\ c.kind \in Kinds /\ c.by \in Users
  /\ c.kind \in {"invite", "cancel", "role", "remove"} => c.about \in Users
  /\ c.kind \in {"invite", "role"} => c.what \in Roles \ {"owner"}
  /\ c.kind = "decide" => c.what \in Verdicts
  /\ c.kind = "approve" => c.about \in DOMAIN challenges /\ c.what \in Decisions
  /\ c.kind \in {"verify", "reanchor"} => c.about \in {0} \cup DOMAIN command

EntryRow == [op : Nat, selection : Passages, blind : BOOLEAN]
ChallengeRow == [by : Users, decision : Decisions, expected : Nat, state : {"open", "expired", "consumed"}]
InvitationRow == [status : {"none", "pending", "lapsed", "canceled"} \cup Verdicts,
                  role : Roles \cup {None}, by : Users \cup {None}]
RequestRow == [op : Nat, turn : Nat, expected : Nat, selection : Passages, blind : BOOLEAN]
DeskRow == [phase : {"idle", "waiting", "unsure", "conflict", "changed"}, op : Nat \cup {None},
            sends : Nat, selection : Passages, version : Nat, blind : BOOLEAN]

Commands == Len(command) \in Nat /\ DOMAIN command = 1 .. Len(command)
            /\ \A o \in DOMAIN command : Sound(command[o])

InvitationsAreSent ==
  \A u \in Users : invitation[u].status # "none" => invitation[u].by \in Users /\ invitation[u].role \in Roles

Rows ==
  /\ role \in [Users -> Roles \cup {"none"}]
  /\ invitation \in [Users -> InvitationRow] /\ InvitationsAreSent
  /\ log \in Seq(EntryRow) /\ \A i \in DOMAIN log : log[i].op \in DOMAIN command
  /\ challenges \in Seq(ChallengeRow) /\ \A i \in DOMAIN challenges : challenges[i].expected <= Revision
  /\ generation \in Nat /\ canonical \in {0, 1} /\ staged \in BOOLEAN

Codes == {"applied", "replayed", "forbidden", "reused", "revision_conflict", "version_conflict",
          "selection_conflict", "refused"}

Screens ==
  /\ desk \in [Users -> DeskRow]
  /\ \A u \in Users : desk[u].version <= Revision
  /\ post \subseteq RequestRow
  /\ \A m \in post : m.op \in DOMAIN command /\ m.expected <= Revision
  /\ \A u \in Users : answer[u] # None =>
       answer[u].code \in Codes /\ answer[u].version \in Nat /\ answer[u].version <= Revision
  /\ DOMAIN answer = Users

Typed == Commands /\ Rows /\ Screens
-----------------------------------------------------------------------------
(* Sequences.                                                              *)

LEMMA Appending ==
  ASSUME NEW S, NEW s \in Seq(S), NEW e \in S
  PROVE  /\ Append(s, e) \in Seq(S) /\ Len(Append(s, e)) = Len(s) + 1
         /\ Len(s) \in Nat /\ DOMAIN s = 1 .. Len(s)
         /\ DOMAIN Append(s, e) = 1 .. Len(s) + 1
         /\ \A i \in DOMAIN s : i \in DOMAIN Append(s, e) /\ Append(s, e)[i] = s[i]
         /\ Append(s, e)[Len(s) + 1] = e
  OBVIOUS

LEMMA AppendingAny ==
  ASSUME NEW s, Len(s) \in Nat, DOMAIN s = 1 .. Len(s), NEW e
  PROVE  /\ Len(Append(s, e)) = Len(s) + 1
         /\ DOMAIN Append(s, e) = 1 .. Len(s) + 1
         /\ \A i \in DOMAIN s : i \in DOMAIN Append(s, e) /\ Append(s, e)[i] = s[i]
         /\ Append(s, e)[Len(s) + 1] = e
  OBVIOUS
-----------------------------------------------------------------------------
(* The story the log tells.                                                *)

\* The command of the i-th revision.
Of(i) == command[log[i].op]
Revises(c) == c.kind \in {"verify", "reanchor"}

EntriesOnce == \A i, j \in DOMAIN log : log[i].op = log[j].op => i = j

ChainHolds ==
  \A i \in DOMAIN log : Revises(Of(i)) =>
    /\ \A j \in DOMAIN log : Revises(Of(j)) /\ Of(j).about = Of(i).about => i = j
    /\ Of(i).kind = "verify" => Captured(Of(i).about)

ConsentHolds ==
  \A i \in DOMAIN log : Of(i).kind = "approve" =>
    /\ \A j \in DOMAIN log : Of(j).kind = "approve" => i = j
    /\ LET held == challenges[Of(i).about]
       IN  held.state = "consumed" /\ held.by = Of(i).by /\ held.expected = i - 1

Story == EntriesOnce /\ ChainHolds /\ ConsentHolds
DInv == Typed /\ Story /\ InvitationsAreSound

\* Commands are only added, challenges are added and settled.
CommandsExtend ==
  /\ DOMAIN command \subseteq DOMAIN command'
  /\ \A o \in DOMAIN command : command'[o] = command[o]
ChallengesExtend ==
  /\ DOMAIN challenges \subseteq DOMAIN challenges'
  /\ \A i \in DOMAIN challenges :
       LET old == challenges[i] new == challenges'[i]
       IN  /\ new.by = old.by /\ new.decision = old.decision /\ new.expected = old.expected
           /\ old.state # "open" => new.state = old.state

\* A sound command stays sound.
LEMMA CommandsStaySound ==
  ASSUME Commands, CommandsExtend, DOMAIN challenges \subseteq DOMAIN challenges'
  PROVE  \A o \in DOMAIN command : o \in DOMAIN command' /\ Sound(command[o])'
  BY DEF Commands, Sound, CommandsExtend

LEMMA CommandsStay ==
  ASSUME Commands, UNCHANGED command, DOMAIN challenges \subseteq DOMAIN challenges'
  PROVE  Commands' /\ CommandsExtend
  BY CommandsStaySound DEF Commands, CommandsExtend

\* A step that carries out no command leaves the story as it is.
LEMMA StoryStays ==
  ASSUME Typed, Story, UNCHANGED log, CommandsExtend, ChallengesExtend
  PROVE  Story'
<1>1. \A i \in DOMAIN log : Of(i)' = Of(i) /\ log'[i] = log[i] /\ Sound(Of(i))
  BY DEF Typed, Rows, Commands, CommandsExtend, Of
<1>2. EntriesOnce'
  BY DEF Story, EntriesOnce
<1>3. ChainHolds'
  <2>1. \A i \in DOMAIN log : Revises(Of(i)) =>
          (Of(i).kind = "verify" => Captured(Of(i).about)')
    BY <1>1 DEF Story, ChainHolds, Captured, Sound, Revises, CommandsExtend
  <2> QED BY <1>1, <2>1 DEF Story, ChainHolds, Revises
<1>4. ConsentHolds'
  <2>1. \A i \in DOMAIN log : Of(i).kind = "approve" =>
          /\ challenges'[Of(i).about].state = "consumed"
          /\ challenges'[Of(i).about].by = Of(i).by
          /\ challenges'[Of(i).about].expected = i - 1
    BY <1>1 DEF Story, ConsentHolds, Sound, ChallengesExtend
  <2> QED BY <1>1, <2>1 DEF Story, ConsentHolds
<1> QED BY <1>2, <1>3, <1>4 DEF Story
-----------------------------------------------------------------------------
(* A command is carried out.                                               *)

\* What a verdict of "applied" says.
LEMMA Applicable ==
  ASSUME Typed, NEW m \in post, NEW c, c = command[m.op], Verdict(c, m) = "applied"
  PROVE  /\ Authorized(c) /\ Entry(m.op) = {} /\ ~Superseded(c) /\ ~Overtaken(c, m) /\ Fits(c, m)
         /\ m \in RequestRow /\ m.op \in DOMAIN command /\ Sound(c)
  BY DEF Verdict, Done, Typed, Screens, Commands

\* The log grows by an entry of the request.
Logged(m) ==
  LET n == Len(log) + 1
  IN  /\ Len(log) \in Nat /\ DOMAIN log = 1 .. Len(log) /\ DOMAIN log' = 1 .. n /\ Len(log') = n
      /\ \A i \in DOMAIN log : i \in DOMAIN log' /\ log'[i] = log[i]
      /\ log'[n].op = m.op /\ log'[n].selection = m.selection

LEMMA ApplyLogs ==
  ASSUME Typed, NEW m \in post, Apply(m)
  PROVE  Logged(m) /\ log' \in Seq(EntryRow) /\ \A i \in DOMAIN log' : log'[i].op \in DOMAIN command
<1> DEFINE e == [op |-> m.op, selection |-> m.selection, blind |-> m.blind]
<1>1. e \in EntryRow /\ m.op \in DOMAIN command
  BY DEF Typed, Screens, RequestRow, EntryRow
<1>2. log \in Seq(EntryRow) /\ log' = Append(log, e) /\ \A i \in DOMAIN log : log[i].op \in DOMAIN command
  BY DEF Apply, Typed, Rows
<1>3. e.op = m.op /\ e.selection = m.selection
  OBVIOUS
<1> HIDE DEF e
<1> QED BY <1>1, <1>2, <1>3, Appending DEF Logged

\* No operation takes effect twice, no note gets a second successor, and no
\* proposal a second approval.
LEMMA NothingBefore ==
  ASSUME Typed, NEW m \in post, NEW c, c = command[m.op], Verdict(c, m) = "applied"
  PROVE  /\ \A i \in DOMAIN log : log[i].op # m.op
         /\ Revises(c) => /\ \A i \in DOMAIN log : Revises(Of(i)) => Of(i).about # c.about
                          /\ c.kind = "verify" => Captured(c.about)
         /\ c.kind = "approve" => /\ \A i \in DOMAIN log : Of(i).kind # "approve"
                                  /\ ChallengeHolds(c, m) /\ DecisionHolds(c.what)
                                  /\ m.expected = Len(log)
<1>1. Entry(m.op) = {} /\ ~Superseded(c) /\ ~Overtaken(c, m) /\ Fits(c, m)
  BY Applicable
<1>2. \A i \in DOMAIN log : log[i].op # m.op
  BY <1>1 DEF Entry
<1>3. ASSUME Revises(c)
      PROVE  /\ \A i \in DOMAIN log : Revises(Of(i)) => Of(i).about # c.about
             /\ c.kind = "verify" => Captured(c.about)
  <2>1. Successors(c.about) = {} /\ (c.kind = "verify" => Captured(c.about))
    BY <1>1, <1>3 DEF Superseded, Revises
  <2>2. ASSUME NEW i \in DOMAIN log, Revises(Of(i))
        PROVE  log[i].op \in Notes \ {0} /\ Of(i).kind # "capture"
    BY <2>2 DEF Notes, Of, Revises, Typed, Rows, Commands
  <2> QED BY <2>1, <2>2 DEF Successors, Of
<1>4. ASSUME c.kind = "approve"
      PROVE  Approvals = {} /\ ChallengeHolds(c, m) /\ DecisionHolds(c.what) /\ m.expected = Len(log)
  BY <1>1, <1>4 DEF Fits, Overtaken, Revision
<1> QED BY <1>2, <1>3, <1>4 DEF Approvals, Of

LEMMA ChallengeFacts ==
  ASSUME Typed, NEW i \in DOMAIN challenges
  PROVE  /\ challenges[i] \in ChallengeRow /\ i \in Nat
         /\ challenges[i].by \in Users /\ challenges[i].decision \in Decisions
         /\ challenges[i].expected \in Nat /\ challenges[i].expected <= Len(log)
<1>1. challenges \in Seq(ChallengeRow) /\ challenges[i].expected <= Len(log)
  BY DEF Typed, Rows, Revision
<1>2. challenges[i] \in ChallengeRow /\ i \in Nat
  BY <1>1
<1> QED BY <1>1, <1>2 DEF ChallengeRow

LEMMA ApplyChallenges ==
  ASSUME Typed, NEW m \in post, Apply(m), NEW c, c = command[m.op]
  PROVE  /\ ChallengesExtend /\ challenges' \in Seq(ChallengeRow) /\ canonical' \in {0, 1}
         /\ DOMAIN challenges' = DOMAIN challenges
         /\ c.kind = "approve" => challenges'[c.about].state = "consumed"
<1>1. Verdict(c, m) = "applied" /\ Approval(c)
  BY DEF Apply
<1>2. Sound(c)
  BY <1>1, Applicable
<1>3. challenges \in Seq(ChallengeRow) /\ canonical \in {0, 1}
  BY DEF Typed, Rows
<1>4. CASE c.kind = "approve"
  <2>1. c.about \in DOMAIN challenges /\ challenges' = [challenges EXCEPT ![c.about].state = "consumed"]
    BY <1>1, <1>2, <1>4 DEF Approval, Sound
  <2>2. canonical' \in {0, 1}
    BY <1>1, <1>3, <1>4, NothingBefore DEF Approval, DecisionHolds
  <2>3. challenges[c.about] \in ChallengeRow /\ DOMAIN challenges = 1 .. Len(challenges)
    BY <1>3, <2>1
  <2> DEFINE row == [challenges[c.about] EXCEPT !.state = "consumed"]
  <2>4. /\ row \in ChallengeRow /\ row.state = "consumed" /\ row.by = challenges[c.about].by
        /\ row.decision = challenges[c.about].decision /\ row.expected = challenges[c.about].expected
    BY <2>3 DEF ChallengeRow
  <2>5. challenges' = [challenges EXCEPT ![c.about] = row]
    BY <2>1
  <2> HIDE DEF row
  <2>6. challenges' \in Seq(ChallengeRow) /\ DOMAIN challenges' = DOMAIN challenges
    BY <1>3, <2>1, <2>4, <2>5
  <2>7. challenges'[c.about] = row /\ \A i \in DOMAIN challenges : i # c.about => challenges'[i] = challenges[i]
    BY <1>3, <2>1, <2>5
  <2>8. ChallengesExtend /\ challenges'[c.about].state = "consumed"
    <3>1. \A i \in DOMAIN challenges : challenges[i].state # "open" => challenges'[i].state = challenges[i].state
      BY <1>4, <1>1, <2>4, <2>7, NothingBefore DEF ChallengeHolds
    <3> QED BY <2>4, <2>6, <2>7, <3>1 DEF ChallengesExtend
  <2> QED BY <2>2, <2>6, <2>8
<1>5. CASE c.kind # "approve"
  BY <1>1, <1>3, <1>5 DEF Approval, ChallengesExtend
<1> QED BY <1>4, <1>5

LEMMA ApplyStory ==
  ASSUME Typed, Story, NEW m \in post, Apply(m)
  PROVE  Story'
<1> DEFINE c == command[m.op]
           n == Len(log) + 1
           now(i) == command[log'[i].op]
<1>1. Logged(m) /\ UNCHANGED command
  BY ApplyLogs DEF Apply, Take
<1>2. \A i \in DOMAIN log : i \in DOMAIN log' /\ i # n /\ now(i) = Of(i) /\ log'[i] = log[i]
  BY <1>1 DEF Logged, Of
<1>3. n \in DOMAIN log' /\ now(n) = c /\ log'[n].op = m.op
  BY <1>1 DEF Logged
<1>4. \A i \in DOMAIN log' : i \in DOMAIN log \/ i = n
  BY <1>1 DEF Logged
<1>5. /\ \A i \in DOMAIN log : log[i].op # m.op
      /\ Revises(c) => /\ \A i \in DOMAIN log : Revises(Of(i)) => Of(i).about # c.about
                       /\ c.kind = "verify" => Captured(c.about)
      /\ c.kind = "approve" => /\ \A i \in DOMAIN log : Of(i).kind # "approve"
                               /\ ChallengeHolds(c, m) /\ m.expected = n - 1
  BY <1>1, NothingBefore DEF Apply, Logged
<1>6. ChallengesExtend /\ (c.kind = "approve" => challenges'[c.about].state = "consumed")
  BY ApplyChallenges
<1> HIDE DEF c, n, now
<1>7. EntriesOnce'
  BY <1>2, <1>3, <1>4, <1>5 DEF Story, EntriesOnce
<1>8. ChainHolds'
  <2>1. ASSUME NEW i \in DOMAIN log', Revises(now(i))
        PROVE  /\ \A j \in DOMAIN log' : Revises(now(j)) /\ now(j).about = now(i).about => i = j
               /\ now(i).kind = "verify" => Captured(now(i).about)
    BY <1>2, <1>3, <1>4, <1>5, <2>1 DEF Story, ChainHolds
  <2> QED BY <1>1, <2>1 DEF ChainHolds, Of, now, Captured, Revises
<1>9. ConsentHolds'
  <2>1. ASSUME NEW i \in DOMAIN log, Of(i).kind = "approve"
        PROVE  /\ challenges'[Of(i).about].state = "consumed"
               /\ challenges'[Of(i).about].by = Of(i).by /\ challenges'[Of(i).about].expected = i - 1
    <3>1. Of(i).about \in DOMAIN challenges
      BY <2>1 DEF Typed, Rows, Commands, Sound, Of
    <3> QED BY <1>6, <2>1, <3>1 DEF Story, ConsentHolds, ChallengesExtend
  <2>2. ASSUME c.kind = "approve"
        PROVE  challenges'[c.about].state = "consumed" /\ challenges'[c.about].by = c.by
               /\ challenges'[c.about].expected = n - 1
    BY <1>5, <1>6, <2>2 DEF ChallengeHolds, ChallengesExtend
  <2>3. ASSUME NEW i \in DOMAIN log', now(i).kind = "approve"
        PROVE  /\ \A j \in DOMAIN log' : now(j).kind = "approve" => i = j
               /\ challenges'[now(i).about].state = "consumed"
               /\ challenges'[now(i).about].by = now(i).by /\ challenges'[now(i).about].expected = i - 1
    BY <1>2, <1>3, <1>4, <1>5, <2>1, <2>2, <2>3 DEF Story, ConsentHolds
  <2> QED BY <1>1, <2>3 DEF ConsentHolds, Of, now
<1> QED BY <1>7, <1>8, <1>9 DEF Story

\* The membership stays sound: whoever may invite or remove is a member.
LEMMA ApplyMembership ==
  ASSUME Typed, InvitationsAreSound, NEW m \in post, Apply(m)
  PROVE  /\ role' \in [Users -> Roles \cup {"none"}] /\ invitation' \in [Users -> InvitationRow]
         /\ InvitationsAreSent' /\ InvitationsAreSound'
<1> DEFINE c == command[m.op]
<1>1. /\ Membership(c) /\ Authorized(c) /\ Fits(c, m) /\ Sound(c)
  BY Applicable DEF Apply
<1>2. /\ role \in [Users -> Roles \cup {"none"}] /\ invitation \in [Users -> InvitationRow]
      /\ c.by \in Users /\ InvitationsAreSent
  BY <1>1 DEF Typed, Rows, Sound
<1>3. \A u \in Users : \A r \in Below(role[u]) : r \in Roles /\ role[u] # "none" /\ r # "none"
  BY DEF Below, Roles
<1> HIDE DEF c
<1>4. CASE c.kind = "invite"
  <2>1. c.about \in Users /\ c.what \in Roles /\ role[c.about] = "none" /\ role[c.by] # "none"
    BY <1>1, <1>3, <1>4 DEF Fits, Sound
  <2>2. UNCHANGED role /\ invitation' = [invitation EXCEPT ![c.about] = [status |-> "pending", role |-> c.what, by |-> c.by]]
    BY <1>1, <1>4 DEF Membership, Invited
  <2> QED BY <1>2, <2>1, <2>2 DEF InvitationsAreSent, InvitationsAreSound, InvitationRow
<1>5. CASE c.kind = "cancel"
  <2>1. /\ c.about \in Users /\ invitation[c.about].status # "none"
        /\ UNCHANGED role /\ invitation' = [invitation EXCEPT ![c.about].status = "canceled"]
    BY <1>1, <1>5 DEF Membership, Canceled, Sound, Fits
  <2> QED BY <1>2, <2>1 DEF InvitationsAreSent, InvitationsAreSound, InvitationRow
<1>6. CASE c.kind = "decide"
  <2>1. /\ c.what \in Verdicts /\ invitation' = [invitation EXCEPT ![c.by].status = c.what]
        /\ role' = IF c.what = "accepted" THEN [role EXCEPT ![c.by] = invitation[c.by].role] ELSE role
    BY <1>1, <1>6 DEF Membership, Decided, Sound
  <2>2. /\ invitation[c.by].status = "pending" /\ invitation[c.by].by \in Users
        /\ invitation[c.by].role \in Roles /\ invitation[c.by].role # "none"
    <3>1. invitation[c.by].status = "pending" /\ invitation[c.by].role \in Below(role[invitation[c.by].by])
      BY <1>1, <1>6 DEF Fits, InvitationHolds
    <3> QED BY <1>2, <3>1 DEF Below, Roles, InvitationsAreSent, InvitationRow
  <2>3. role' \in [Users -> Roles \cup {"none"}] /\ invitation' \in [Users -> InvitationRow]
    BY <1>2, <2>1, <2>2 DEF InvitationRow, Verdicts
  <2>4. ASSUME NEW u \in Users, invitation'[u].status = "pending"
        PROVE  role'[u] = "none" /\ role'[invitation'[u].by] # "none"
    <3>1. u # c.by /\ invitation'[u] = invitation[u]
      BY <1>2, <2>1, <2>4 DEF Verdicts, InvitationRow
    <3> QED BY <1>2, <2>1, <2>2, <2>4, <3>1 DEF InvitationsAreSent, InvitationsAreSound
  <2>5. InvitationsAreSent'
    BY <1>2, <2>1, <2>2 DEF InvitationsAreSent, InvitationRow
  <2> QED BY <2>3, <2>4, <2>5 DEF InvitationsAreSound
<1>7. CASE c.kind = "role"
  <2>1. /\ c.about \in Users /\ c.what \in Roles /\ c.what # "none" /\ role[c.about] # "none"
    BY <1>1, <1>2, <1>7 DEF Fits, Sound, Below, Roles
  <2>2. UNCHANGED invitation /\ role' = [role EXCEPT ![c.about] = c.what]
    BY <1>1, <1>7 DEF Membership
  <2> QED BY <1>2, <2>1, <2>2 DEF InvitationsAreSent, InvitationsAreSound, InvitationRow
<1>8. CASE c.kind = "remove"
  <2>1. c.about \in Users /\ role[c.about] # "none"
    BY <1>1, <1>2, <1>8 DEF Fits, Sound, Below, Roles
  <2>2. invitation' = WithoutInvitationsOf(c.about) /\ role' = [role EXCEPT ![c.about] = "none"]
    BY <1>1, <1>8 DEF Membership
  <2>3. /\ \A u \in Users :
             \/ invitation'[u] = [invitation[u] EXCEPT !.status = "canceled"] /\ invitation[u].status # "none"
             \/ invitation'[u] = invitation[u] /\ (invitation[u].by = c.about => invitation[u].status # "pending")
        /\ invitation' = [u \in Users |-> invitation'[u]]
    BY <2>2 DEF WithoutInvitationsOf
  <2>4. invitation' \in [Users -> InvitationRow]
    BY <1>2, <2>3 DEF InvitationRow
  <2>5. ASSUME NEW u \in Users, invitation'[u].status = "pending"
        PROVE  role'[u] = "none" /\ role'[invitation'[u].by] # "none"
    <3>1. invitation'[u] = invitation[u] /\ invitation[u].by # c.about
      BY <1>2, <2>3, <2>5 DEF InvitationRow
    <3> QED BY <1>2, <2>1, <2>2, <2>5, <3>1 DEF InvitationsAreSent, InvitationsAreSound
  <2>6. InvitationsAreSent'
    BY <1>2, <2>3, <2>4 DEF InvitationsAreSent, InvitationRow
  <2> QED BY <1>2, <2>2, <2>4, <2>5, <2>6 DEF InvitationsAreSound
<1>9. CASE c.kind \notin {"invite", "cancel", "decide", "role", "remove"}
  <2>1. UNCHANGED <<role, invitation>>
    BY <1>1, <1>9 DEF Membership
  <2> QED BY <1>2, <2>1 DEF InvitationsAreSent, InvitationsAreSound
<1> QED BY <1>4, <1>5, <1>6, <1>7, <1>8, <1>9

\* An answer goes to whoever still waits for this very request.
LEMMA AnswersAreTyped ==
  ASSUME Typed, NEW c, NEW m, NEW code \in Codes, NEW version \in Nat, Answer(c, m, code, version),
         NEW R \in Nat, version <= R, Len(log) <= R
  PROVE  /\ DOMAIN answer' = Users
         /\ \A u \in Users : answer'[u] # None =>
              answer'[u].code \in Codes /\ answer'[u].version \in Nat /\ answer'[u].version <= R
<1>1. Len(log) \in Nat
  BY DEF Typed, Rows
<1>2. \A u \in Users : answer'[u] = answer[u] \/ answer'[u] = [code |-> code, version |-> version]
  BY DEF Answer, Typed, Screens
<1>3. DOMAIN answer' = Users
  BY DEF Answer, Typed, Screens
<1>4. \A u \in Users : answer[u] # None =>
         answer[u].code \in Codes /\ answer[u].version \in Nat /\ answer[u].version <= Len(log)
  BY DEF Typed, Screens, Revision
<1> QED BY <1>1, <1>2, <1>3, <1>4

LEMMA ApplyKeeps ==
  ASSUME DInv, NEW m \in post, Apply(m)
  PROVE  DInv'
<1>1. Story' /\ InvitationsAreSound'
  BY ApplyStory, ApplyMembership DEF DInv
<1>2. Commands'
  BY ApplyChallenges, CommandsStay DEF DInv, Typed, Apply, Take
<1>3. Logged(m) /\ Len(log') = Len(log) + 1 /\ Len(log) \in Nat
  BY ApplyLogs DEF DInv, Logged
<1>4. Rows'
  <2>1. \A i \in DOMAIN challenges' : challenges'[i].expected <= Len(log')
    <3>1. \A i \in DOMAIN challenges : challenges[i].expected \in Nat /\ challenges[i].expected <= Len(log)
      BY ChallengeFacts DEF DInv
    <3> QED BY <1>3, <3>1, ApplyChallenges DEF DInv, ChallengesExtend
  <2> QED BY <2>1, ApplyLogs, ApplyChallenges, ApplyMembership DEF DInv, Typed, Rows, Apply, Take, Revision
<1>5. Screens'
  <2>1. /\ DOMAIN answer' = Users
        /\ \A u \in Users : answer'[u] # None =>
             answer'[u].code \in Codes /\ answer'[u].version \in Nat /\ answer'[u].version <= Len(log')
    <3>1. Answer(command[m.op], m, "applied", Len(log')) /\ "applied" \in Codes
      BY <1>3 DEF Apply, Revision, Codes
    <3>2. Len(log') \in Nat /\ Len(log') <= Len(log') /\ Len(log) <= Len(log')
      BY <1>3
    <3> QED BY <3>1, <3>2, AnswersAreTyped DEF DInv
  <2>2. UNCHANGED <<command, desk>> /\ post' \subseteq post
    BY DEF Apply, Take
  <2>3. \A u \in Users : desk[u] \in DeskRow /\ desk[u].version \in Nat /\ desk[u].version <= Len(log)
    BY DEF DInv, Typed, Screens, Revision, DeskRow
  <2>4. \A r \in post : r \in RequestRow /\ r.op \in DOMAIN command /\ r.expected \in Nat /\ r.expected <= Len(log)
    BY DEF DInv, Typed, Screens, Revision, RequestRow
  <2> QED BY <1>3, <2>1, <2>2, <2>3, <2>4 DEF DInv, Typed, Screens, Revision
<1> QED BY <1>1, <1>2, <1>4, <1>5 DEF DInv, Typed
-----------------------------------------------------------------------------
(* The other steps.                                                        *)

\* What a user may start is a sound command, and an approval names a
\* challenge of the revision on the screen.
LEMMA IntentsAreSound ==
  ASSUME Typed, NEW u \in Users, NEW c \in Intents(u)
  PROVE  /\ Sound(c) /\ c.by = u
         /\ c.kind = "approve" => challenges[c.about].expected = desk[u].version
<1>1. Notes \subseteq {0} \cup DOMAIN command
  BY DEF Typed, Rows, Notes
<1>2. \A i \in DOMAIN challenges : challenges[i].decision \in Decisions
  BY ChallengeFacts
<1> QED BY <1>1, <1>2 DEF Intents, Sound, Verdicts, Roles

\* A step that leaves the membership, the log and the requests alone.
LEMMA RestKeeps ==
  ASSUME DInv, Commands', CommandsExtend, ChallengesExtend, Screens',
         challenges' \in Seq(ChallengeRow), \A i \in DOMAIN challenges' : challenges'[i].expected <= Revision,
         UNCHANGED <<role, invitation, log, staged>>, generation' \in Nat, canonical' \in {0, 1}
  PROVE  DInv'
<1>1. Story'
  BY StoryStays DEF DInv
<1>2. InvitationsAreSound'
  BY DEF DInv, InvitationsAreSound
<1>3. Rows'
  <2>1. \A i \in DOMAIN log' : log'[i].op \in DOMAIN command'
    BY DEF DInv, Typed, Rows, CommandsExtend
  <2> QED BY <2>1 DEF DInv, Typed, Rows, InvitationsAreSent, Revision
<1> QED BY <1>1, <1>2, <1>3 DEF DInv, Typed
-----------------------------------------------------------------------------
(* What the browsers know.                                                 *)

Active(u) == desk[u].phase # "idle"
Citing == {"capture", "reanchor"}
\* Evidence commands keep their form until they are settled.
Lasting == Retained \ {"approve"}

\* The operation is in the workspace, with this passage.
Carried(o, selection) == \E i \in DOMAIN log : log[i].op = o /\ log[i].selection = selection

\* A request that no server will carry out any more, however late it arrives.
Hopeless(m) ==
  LET c == command[m.op]
  IN  Superseded(c) \/ (c.kind = "approve" /\ (m.expected < Revision \/ ~Fits(c, m)))
Closed(o) == (\A i \in DOMAIN log : log[i].op # o) /\ \A m \in post : m.op = o => Hopeless(m)

\* The requests on their way belong to the command as its sender holds it; a
\* command that is not retained has one request only.
Posted(m) ==
  LET c == command[m.op] d == desk[c.by]
  IN  /\ Active(c.by) /\ d.op = m.op =>
           m.turn <= d.sends /\ (d.phase = "waiting" /\ m.turn = d.sends => m.selection = d.selection)
      /\ c.kind \notin Citing => m.selection = None
      /\ c.kind = "approve" => m.expected = challenges[c.about].expected
      /\ c.kind \notin Retained =>
           /\ \A i \in DOMAIN log : log[i].op # m.op
           /\ \A r \in post : r.op = m.op => r = m

DeskSound(u) ==
  Active(u) =>
    /\ desk[u].op \in DOMAIN command /\ command[desk[u].op].by = u
    /\ \A h \in heard : h.op # desk[u].op
    /\ desk[u].phase # "waiting" => command[desk[u].op].kind \in Retained
    /\ command[desk[u].op].kind \notin Citing => desk[u].selection = None

\* An answer that ends a command tells its fate.
Closes(code, kind) ==
  \/ code = "revision_conflict"
  \/ code \in {"version_conflict", "refused", "reused"} /\ kind \notin Lasting
  \/ code = "forbidden" /\ kind \notin Retained
AnswerSound(u) ==
  answer[u] # None =>
    /\ desk[u].phase = "waiting"
    /\ \A o \in {desk[u].op}, selection \in {desk[u].selection}, code \in {answer[u].code} :
         /\ code \in {"applied", "replayed"} => Carried(o, selection)
         /\ code = "selection_conflict" => command[o].kind \in Citing
         /\ Closes(code, command[o].kind) => Closed(o)

HeardSound(h) ==
  /\ h.op \in DOMAIN command /\ h.what \in {"done", "refused", "forbidden"}
  /\ h.what = "done" => Carried(h.op, h.selection)
  /\ h.what = "refused" \/ (h.what = "forbidden" /\ command[h.op].kind # "approve") => Closed(h.op)

BInv ==
  /\ \A m \in post : Posted(m)
  /\ \A i \in DOMAIN log : Of(i).kind \notin Citing => log[i].selection = None
  /\ \A u \in Users : DeskSound(u) /\ AnswerSound(u)
  /\ \A h \in heard : HeardSound(h)

\* What the database knows is only added to.
Grows ==
  /\ CommandsExtend /\ ChallengesExtend
  /\ Len(log) <= Len(log') /\ \A i \in DOMAIN log : i \in DOMAIN log' /\ log'[i] = log[i]
  /\ (canonical # 0 => canonical' # 0) /\ UNCHANGED staged

LEMMA SupersededStays ==
  ASSUME Typed, Grows, NEW o \in DOMAIN command, Superseded(command[o])
  PROVE  Superseded(command[o])'
<1> DEFINE c == command[o]
<1>1. c.kind \in {"verify", "reanchor"} /\ Sound(c) /\ command'[o] = c
  BY DEF Superseded, Typed, Commands, Grows, CommandsExtend
<1>2. \A k \in {0} \cup DOMAIN command : Captured(k)' = Captured(k)
  BY DEF Captured, Grows, CommandsExtend
<1>3. Notes \subseteq Notes' /\ Notes \subseteq {0} \cup DOMAIN command
  BY DEF Notes, Grows, CommandsExtend, Typed, Rows
<1>4. \A s \in Notes \ {0} : command'[s] = command[s]
  BY <1>3 DEF Grows, CommandsExtend
<1>5. Successors(c.about) # {} => Successors(c.about)' # {}
  BY <1>1, <1>3, <1>4 DEF Successors
<1>6. c.about \in {0} \cup DOMAIN command
  BY <1>1 DEF Sound
<1> QED BY <1>1, <1>2, <1>5, <1>6 DEF Superseded

LEMMA HopelessStays ==
  ASSUME Typed, Grows, NEW m \in post, Hopeless(m)
  PROVE  Hopeless(m)'
<1> DEFINE c == command[m.op]
<1>1. m.op \in DOMAIN command /\ Sound(c) /\ command'[m.op] = c /\ m.expected \in Nat
  BY DEF Typed, Commands, Screens, Grows, CommandsExtend, RequestRow
<1>2. CASE Superseded(c)
  BY <1>1, <1>2, SupersededStays DEF Hopeless
<1>3. CASE c.kind = "approve" /\ m.expected < Revision
  <2>1. m.expected < Len(log')
    BY <1>1, <1>3 DEF Grows, Revision, Typed, Rows
  <2> QED BY <1>1, <1>3, <2>1 DEF Hopeless, Revision
<1>4. CASE c.kind = "approve" /\ ~Fits(c, m)
  <2>1. Approvals # {} \/ ~ChallengeHolds(c, m) \/ ~DecisionHolds(c.what)
    BY <1>4 DEF Fits
  <2>2. Approvals # {} => Approvals' # {}
    BY DEF Approvals, Grows, CommandsExtend, Typed, Rows
  <2>3. ~ChallengeHolds(c, m) => ~ChallengeHolds(c, m)'
    <3>1. c.about \in DOMAIN challenges
      BY <1>1, <1>4 DEF Sound
    <3> QED BY <1>1, <3>1 DEF ChallengeHolds, Grows, ChallengesExtend
  <2>4. ~DecisionHolds(c.what) => ~DecisionHolds(c.what)'
    BY <1>1 DEF DecisionHolds, Grows
  <2>5. ~Fits(c, m)'
    BY <1>1, <1>4, <2>1, <2>2, <2>3, <2>4 DEF Fits
  <2> QED BY <1>1, <1>4, <2>5 DEF Hopeless
<1> QED BY <1>2, <1>3, <1>4 DEF Hopeless

LEMMA ClosedStays ==
  ASSUME Typed, Grows, NEW o, Closed(o), \A m \in post' : m.op = o => m \in post,
         \A i \in DOMAIN log' : i \in DOMAIN log \/ log'[i].op # o
  PROVE  Closed(o)'
<1>1. \A i \in DOMAIN log' : log'[i].op # o
  BY DEF Grows, Closed
<1>2. ASSUME NEW m \in post', m.op = o
      PROVE  Hopeless(m)'
  BY <1>2, HopelessStays DEF Closed
<1> QED BY <1>1, <1>2 DEF Closed

LEMMA CarriedStays ==
  ASSUME Grows, NEW o, NEW selection, Carried(o, selection)
  PROVE  Carried(o, selection)'
  BY DEF Carried, Grows
-----------------------------------------------------------------------------
(* A server takes a request.                                               *)

\* What its answer must be like.
AnswerFits(m, code) ==
  /\ code \in {"applied", "replayed"} => Carried(m.op, m.selection)'
  /\ code = "selection_conflict" => command[m.op].kind \in Citing
  /\ Closes(code, command[m.op].kind) => Closed(m.op)'

LEMMA Taken ==
  ASSUME DInv, BInv, NEW m \in post, post' = post \ {m}, UNCHANGED <<command, desk, heard>>, Grows,
         \A i \in DOMAIN log' : i \in DOMAIN log
           \/ (log'[i].op = m.op /\ log'[i].selection = m.selection /\ ~Hopeless(m)),
         NEW code, NEW version, Answer(command[m.op], m, code, version), AnswerFits(m, code)
  PROVE  BInv'
<1>1. Typed /\ m.op \in DOMAIN command /\ Sound(command[m.op]) /\ Posted(m)
  BY DEF DInv, BInv, Typed, Screens, Commands
<1>2. \A o : Closed(o) => Closed(o)'
  <2> SUFFICES ASSUME NEW o, Closed(o) PROVE Closed(o)'
    OBVIOUS
  <2>1. \A r \in post' : r.op = o => r \in post
    OBVIOUS
  <2>2. \A i \in DOMAIN log' : i \in DOMAIN log \/ log'[i].op # o
    BY DEF Closed
  <2> QED BY <1>1, <2>1, <2>2, ClosedStays
<1>3. \A o, s : Carried(o, s) => Carried(o, s)'
  BY CarriedStays
<1>4. ASSUME NEW r \in post'
      PROVE  Posted(r)'
  <2>1. r \in post /\ r # m /\ Posted(r) /\ r.op \in DOMAIN command /\ Sound(command[r.op])
    BY DEF DInv, BInv, Typed, Screens, Commands
  <2>2. command[r.op].kind = "approve" => challenges'[command[r.op].about].expected = challenges[command[r.op].about].expected
    BY <2>1 DEF Sound, Grows, ChallengesExtend
  <2>3. command[r.op].kind \notin Retained => \A i \in DOMAIN log' : log'[i].op # r.op
    BY <1>1, <2>1 DEF Posted, Grows
  <2> QED BY <2>1, <2>2, <2>3 DEF Posted, Active
<1>5. \A i \in DOMAIN log' : Of(i)'.kind \notin Citing => log'[i].selection = None
  BY <1>1 DEF BInv, Posted, Of, Grows
<1>6. ASSUME NEW u \in Users
      PROVE  DeskSound(u)' /\ AnswerSound(u)'
  <2>1. DeskSound(u) /\ AnswerSound(u)
    BY DEF BInv
  <2>2. DeskSound(u)'
    BY <2>1 DEF DeskSound, Active
  <2>3. CASE answer'[u] = answer[u]
    BY <1>2, <1>3, <2>1, <2>2, <2>3 DEF AnswerSound, Closes
  <2>4. CASE answer'[u] # answer[u]
    <3>1. /\ u = command[m.op].by /\ answer'[u] = [code |-> code, version |-> version]
          /\ desk[u].phase = "waiting" /\ desk[u].op = m.op /\ desk[u].sends = m.turn
      BY <1>1, <2>4 DEF Answer, DInv, Typed, Screens
    <3>2. m.selection = desk[u].selection
      BY <1>1, <3>1 DEF Posted, Active
    <3> QED BY <2>2, <3>1, <3>2 DEF AnswerSound, AnswerFits, Closes
  <2> QED BY <2>2, <2>3, <2>4
<1>7. ASSUME NEW h \in heard'
      PROVE  HeardSound(h)'
  BY <1>2, <1>3 DEF BInv, HeardSound
<1> QED BY <1>4, <1>5, <1>6, <1>7 DEF BInv

\* What any verdict but "applied" says.
LEMMA Refusals ==
  ASSUME BInv, Typed, NEW m \in post, NEW c, c = command[m.op], NEW code, code = Verdict(c, m),
         code \notin {"applied", "replayed"}
  PROVE  /\ code \in Codes
         /\ code = "selection_conflict" => c.kind \in Citing
         /\ Closes(code, c.kind) /\ c.kind \in Retained =>
              /\ Entry(m.op) = {}
              /\ Superseded(c) \/ (c.kind = "approve" /\ (m.expected # Revision \/ ~Fits(c, m)))
<1>1. code \in Codes /\ (code = "selection_conflict" => c.kind \in Citing)
  BY DEF Verdict, Codes, Citing
<1>2. CASE code = "revision_conflict"
  BY <1>1, <1>2 DEF Verdict, Done
<1>3. CASE c.kind = "approve" /\ code \in {"version_conflict", "refused"}
  BY <1>1, <1>3 DEF Verdict, Done, Overtaken
<1>4. CASE c.kind = "approve" /\ code = "reused"
  <2>1. Posted(m) /\ \A i \in DOMAIN log : Of(i).kind \notin Citing => log[i].selection = None
    BY DEF BInv
  <2>2. m.selection = None /\ \A i \in Entry(m.op) : log[i].selection = None
    BY <1>4, <2>1 DEF Posted, Citing, Entry, Of
  <2>3. SameRequest(m)
    BY <2>2 DEF SameRequest
  <2> QED BY <1>4, <2>3 DEF Verdict
<1> QED BY <1>1, <1>2, <1>3, <1>4 DEF Closes, Lasting, Retained

LEMMA AppliedBrowsers ==
  ASSUME DInv, BInv, NEW m \in post, Apply(m)
  PROVE  BInv'
<1> DEFINE c == command[m.op]
<1>1. Typed /\ Verdict(c, m) = "applied" /\ Answer(c, m, "applied", Revision + 1)
      /\ post' = post \ {m} /\ UNCHANGED <<command, desk, heard, staged>>
  BY DEF DInv, Apply, Take
<1>2. Logged(m) /\ ChallengesExtend /\ canonical' \in {0, 1} /\ (canonical # 0 => canonical' # 0)
  <2>1. canonical \in {0, 1} /\ (canonical' = canonical \/ canonical' = canonical + 1)
    BY DEF DInv, Typed, Rows, Apply, Approval
  <2> QED BY <1>1, <2>1, ApplyLogs, ApplyChallenges
<1>3. Grows
  BY <1>1, <1>2 DEF Grows, Logged, CommandsExtend
<1>4. ~Hopeless(m)
  <2>1. ~Superseded(c) /\ ~Overtaken(c, m) /\ Fits(c, m) /\ Len(log) \in Nat
    BY <1>1, <1>2, Applicable DEF Logged
  <2> QED BY <2>1 DEF Hopeless, Overtaken, Revision
<1>5. AnswerFits(m, "applied")
  BY <1>2 DEF AnswerFits, Closes, Carried, Logged
<1>6. \A i \in DOMAIN log' : i \in DOMAIN log
           \/ (log'[i].op = m.op /\ log'[i].selection = m.selection /\ ~Hopeless(m))
  BY <1>2, <1>4 DEF Logged
<1> QED BY <1>1, <1>3, <1>5, <1>6, Taken

\* A step that leaves the database alone.
LEMMA DatabaseRests ==
  ASSUME DInv, UNCHANGED database, CommandsExtend, Commands', Screens'
  PROVE  DInv' /\ Grows
<1>1. ChallengesExtend
  BY DEF database, ChallengesExtend
<1>2. challenges' \in Seq(ChallengeRow) /\ (\A i \in DOMAIN challenges' : challenges'[i].expected <= Revision)
      /\ generation' \in Nat /\ canonical' \in {0, 1}
  BY DEF database, DInv, Typed, Rows
<1>3. UNCHANGED <<role, invitation, log, staged, canonical>>
  BY DEF database
<1>4. Len(log) <= Len(log')
  BY <1>3 DEF DInv, Typed, Rows
<1> QED BY <1>1, <1>2, <1>3, <1>4, RestKeeps DEF Grows

LEMMA TakenKeeps ==
  ASSUME DInv, BInv, NEW m \in post, post' = post \ {m}, UNCHANGED <<command, desk, heard>>, UNCHANGED database,
         NEW code \in Codes, NEW version \in Nat, version <= Revision, Answer(command[m.op], m, code, version),
         AnswerFits(m, code)
  PROVE  DInv' /\ BInv'
<1>1. Typed /\ Len(log) \in Nat /\ log' = log /\ challenges' = challenges
  BY DEF DInv, Typed, Rows, database
<1>2. Commands' /\ CommandsExtend
  BY <1>1, CommandsStay DEF Typed
<1>3. Screens'
  <2>1. /\ DOMAIN answer' = Users
        /\ \A u \in Users : answer'[u] # None =>
             answer'[u].code \in Codes /\ answer'[u].version \in Nat /\ answer'[u].version <= Len(log)
    BY <1>1, AnswersAreTyped DEF Revision
  <2> QED BY <1>1, <2>1 DEF Typed, Screens, Revision
<1>4. DInv' /\ Grows
  BY <1>2, <1>3, DatabaseRests
<1> QED BY <1>1, <1>4, Taken

LEMMA ReplayKeeps ==
  ASSUME DInv, BInv, NEW m \in post, Replay(m)
  PROVE  DInv' /\ BInv'
<1> DEFINE c == command[m.op]
           version == IF c.kind = "approve" THEN CHOOSE i \in Entry(m.op) : TRUE ELSE Revision
<1>1. Answer(c, m, "replayed", version) /\ Take(m) /\ UNCHANGED database /\ Verdict(c, m) = "replayed"
  BY DEF Replay, Take, database
<1>2. Entry(m.op) # {} /\ SameRequest(m)
  BY <1>1 DEF Verdict, Done
<1>3. version \in Nat /\ version <= Revision
  <2>1. Len(log) \in Nat /\ Entry(m.op) \subseteq 1 .. Len(log)
    BY DEF DInv, Typed, Rows, Entry
  <2> QED BY <1>2, <2>1 DEF Revision
<1>4. AnswerFits(m, "replayed")
  <2>1. Carried(m.op, m.selection)
    BY <1>2 DEF Carried, SameRequest, Entry
  <2>2. Carried(m.op, m.selection)'
    BY <1>1, <2>1 DEF Carried, database
  <2> QED BY <2>2 DEF AnswerFits, Closes
<1> HIDE DEF version
<1> QED BY <1>1, <1>3, <1>4, TakenKeeps DEF Take, Codes

LEMMA RefuseKeeps ==
  ASSUME DInv, BInv, NEW m \in post, Refuse(m)
  PROVE  DInv' /\ BInv'
<1> DEFINE c == command[m.op]
           code == Verdict(c, m)
<1>1. Answer(c, m, code, Revision) /\ Take(m) /\ UNCHANGED database /\ code \notin {"applied", "replayed"}
  BY DEF Refuse, Take, database
<1>2. /\ code \in Codes
      /\ code = "selection_conflict" => c.kind \in Citing
      /\ Closes(code, c.kind) /\ c.kind \in Retained =>
           /\ Entry(m.op) = {}
           /\ Superseded(c) \/ (c.kind = "approve" /\ (m.expected # Revision \/ ~Fits(c, m)))
  BY <1>1, Refusals DEF DInv
<1>3. Revision \in Nat /\ Revision <= Revision
  BY DEF DInv, Typed, Rows, Revision
<1>4. /\ Typed /\ Posted(m) /\ \A r \in post : Posted(r)
      /\ \A r \in post : r.expected \in Nat /\ r.expected <= Revision
  BY DEF DInv, BInv, Typed, Screens, RequestRow
<1> HIDE DEF code
<1>5. ASSUME Closes(code, c.kind)
      PROVE  Closed(m.op)'
  <2>1. CASE c.kind \notin Retained
    <3>1. (\A i \in DOMAIN log : log[i].op # m.op) /\ \A r \in post' : r.op # m.op
      BY <1>1, <1>4, <2>1 DEF Posted, Take
    <3> QED BY <1>1, <3>1 DEF Closed, database
  <2>2. CASE c.kind \in Retained
    <3>1. \A i \in DOMAIN log : log[i].op # m.op
      BY <1>2, <1>5, <2>2 DEF Entry
    <3>2. ASSUME NEW r \in post, r.op = m.op
          PROVE  Hopeless(r)
      <4>1. CASE Superseded(c)
        BY <3>2, <4>1 DEF Hopeless
      <4>2. CASE c.kind = "approve" /\ (m.expected # Revision \/ ~Fits(c, m))
        <5>1. r.expected = m.expected
          BY <1>4, <3>2, <4>2 DEF Posted
        <5>2. Fits(c, r) <=> Fits(c, m)
          BY <4>2, <5>1 DEF Fits, ChallengeHolds
        <5> QED BY <1>3, <1>4, <3>2, <4>2, <5>1, <5>2 DEF Hopeless
      <4> QED BY <1>2, <1>5, <2>2, <4>1, <4>2
    <3>3. Closed(m.op)
      BY <3>1, <3>2 DEF Closed
    <3>4. Grows
      <4>1. Commands' /\ CommandsExtend
        BY <1>1, <1>4, CommandsStay DEF Typed, Take, database
      <4> QED BY <1>1, <1>3, <1>4, <4>1 DEF Grows, database, ChallengesExtend, Revision
    <3>5. \A r \in post' : r \in post
      BY <1>1 DEF Take
    <3>6. \A i \in DOMAIN log' : i \in DOMAIN log
      BY <1>1 DEF database
    <3> QED BY <1>4, <3>3, <3>4, <3>5, <3>6, ClosedStays
  <2> QED BY <2>1, <2>2
<1>6. AnswerFits(m, code)
  BY <1>1, <1>2, <1>5 DEF AnswerFits
<1>7. PICK version \in Nat : version = Revision /\ version <= Revision
  BY <1>3
<1> QED BY <1>1, <1>2, <1>6, <1>7, TakenKeeps DEF Take
-----------------------------------------------------------------------------
(* What happens behind the commands.                                       *)

\* A step that only adds to the database changes nothing for the browsers.
LEMMA BrowsersRest ==
  ASSUME DInv, BInv, Grows, UNCHANGED <<log, command, desk, post, heard, answer>>
  PROVE  BInv'
<1>1. Typed /\ \A m \in post : m.op \in DOMAIN command /\ Sound(command[m.op])
  BY DEF DInv, Typed, Screens, Commands
<1>2. \A o : Closed(o) => Closed(o)'
  <2> SUFFICES ASSUME NEW o, Closed(o) PROVE Closed(o)'
    OBVIOUS
  <2> QED BY <1>1, ClosedStays
<1>3. \A o, s : Carried(o, s) => Carried(o, s)'
  BY CarriedStays
<1>4. ASSUME NEW m \in post
      PROVE  Posted(m)'
  <2>1. Posted(m) /\ (command[m.op].kind = "approve" =>
          challenges'[command[m.op].about].expected = challenges[command[m.op].about].expected)
    BY <1>1 DEF BInv, Sound, Grows, ChallengesExtend
  <2> QED BY <2>1 DEF Posted, Active
<1>5. \A u \in Users : DeskSound(u)' /\ AnswerSound(u)'
  BY <1>2, <1>3 DEF BInv, DeskSound, AnswerSound, Active
<1>6. \A h \in heard : HeardSound(h)'
  BY <1>2, <1>3 DEF BInv, HeardSound
<1> QED BY <1>4, <1>5, <1>6 DEF BInv, Of

LEMMA DatabaseGrows ==
  ASSUME DInv, BInv, UNCHANGED <<role, invitation, log, staged, browsers, answer>>, ChallengesExtend,
         challenges' \in Seq(ChallengeRow), \A i \in DOMAIN challenges' : challenges'[i].expected <= Revision,
         generation' \in Nat, canonical' \in {0, 1}, canonical # 0 => canonical' # 0
  PROVE  DInv' /\ BInv'
<1>1. Typed /\ UNCHANGED <<command, desk, post, heard>>
  BY DEF DInv, browsers
<1>2. Commands' /\ CommandsExtend
  BY <1>1, CommandsStay DEF Typed, ChallengesExtend
<1>3. Screens'
  BY <1>1 DEF Typed, Screens, Revision
<1>4. Grows
  BY <1>1, <1>2 DEF Grows, Typed, Rows
<1> QED BY <1>1, <1>2, <1>3, <1>4, RestKeeps, BrowsersRest

LEMMA PrepareKeeps ==
  ASSUME DInv, BInv, NEW u \in Users, NEW decision \in Decisions, PrepareApproval(u, decision)
  PROVE  DInv' /\ BInv'
<1> DEFINE row == [by |-> u, decision |-> decision, expected |-> Revision, state |-> "open"]
<1>1. challenges \in Seq(ChallengeRow) /\ Revision \in Nat
  BY DEF DInv, Typed, Rows, Revision
<1>2. row \in ChallengeRow /\ row.expected = Revision
  BY <1>1 DEF ChallengeRow
<1>3. challenges' = Append(challenges, row)
  BY DEF PrepareApproval
<1> HIDE DEF row
<1>4. /\ challenges' \in Seq(ChallengeRow) /\ DOMAIN challenges \subseteq DOMAIN challenges'
      /\ \A i \in DOMAIN challenges : challenges'[i] = challenges[i]
      /\ \A i \in DOMAIN challenges' : i \in DOMAIN challenges \/ challenges'[i] = row
  BY <1>1, <1>2, <1>3, Appending
<1>5. \A i \in DOMAIN challenges' : challenges'[i].expected <= Revision
  BY <1>1, <1>2, <1>4 DEF DInv, Typed, Rows
<1>6. ChallengesExtend
  BY <1>4 DEF ChallengesExtend
<1>7. UNCHANGED <<role, invitation, log, generation, canonical, staged, browsers, answer>>
      /\ generation \in Nat /\ canonical \in {0, 1}
  BY DEF PrepareApproval, DInv, Typed, Rows
<1> QED BY <1>4, <1>5, <1>6, <1>7, DatabaseGrows

LEMMA ExpiryKeeps ==
  ASSUME DInv, BInv, NEW i \in DOMAIN challenges, ChallengeExpires(i)
  PROVE  DInv' /\ BInv'
<1> DEFINE row == [challenges[i] EXCEPT !.state = "expired"]
<1>1. challenges \in Seq(ChallengeRow) /\ challenges[i] \in ChallengeRow /\ challenges[i].state = "open"
  BY ChallengeFacts DEF DInv, Typed, Rows, ChallengeExpires
<1>2. /\ row \in ChallengeRow /\ row.by = challenges[i].by
      /\ row.decision = challenges[i].decision /\ row.expected = challenges[i].expected
  BY <1>1 DEF ChallengeRow
<1>3. challenges' = [challenges EXCEPT ![i] = row]
  BY DEF ChallengeExpires
<1> HIDE DEF row
<1>4. /\ challenges' \in Seq(ChallengeRow) /\ DOMAIN challenges' = DOMAIN challenges /\ challenges'[i] = row
      /\ \A j \in DOMAIN challenges : j # i => challenges'[j] = challenges[j]
  BY <1>1, <1>2, <1>3
<1>5. \A j \in DOMAIN challenges' : challenges'[j].expected <= Revision
  BY <1>2, <1>4 DEF DInv, Typed, Rows
<1>6. ChallengesExtend
  BY <1>1, <1>2, <1>4 DEF ChallengesExtend
<1>7. UNCHANGED <<role, invitation, log, generation, canonical, staged, browsers, answer>>
      /\ generation \in Nat /\ canonical \in {0, 1}
  BY DEF ChallengeExpires, DInv, Typed, Rows
<1> QED BY <1>4, <1>5, <1>6, <1>7, DatabaseGrows

LEMMA BackgroundKeeps ==
  ASSUME DInv, BInv, GenerationAdvances \/ CanonizedElsewhere
  PROVE  DInv' /\ BInv'
<1>1. UNCHANGED <<role, invitation, log, staged, browsers, answer>> /\ UNCHANGED challenges
  BY DEF GenerationAdvances, CanonizedElsewhere
<1>2. generation' \in Nat /\ canonical' \in {0, 1} /\ (canonical # 0 => canonical' # 0)
  BY DEF GenerationAdvances, CanonizedElsewhere, DInv, Typed, Rows
<1>3. /\ ChallengesExtend /\ challenges' \in Seq(ChallengeRow)
      /\ \A i \in DOMAIN challenges' : challenges'[i].expected <= Revision
  BY <1>1 DEF ChallengesExtend, DInv, Typed, Rows
<1> QED BY <1>1, <1>2, <1>3, DatabaseGrows

LEMMA LapseKeeps ==
  ASSUME DInv, BInv, NEW u \in Users, InvitationLapses(u)
  PROVE  DInv' /\ BInv'
<1>1. /\ invitation[u].status = "pending" /\ invitation' = [invitation EXCEPT ![u].status = "lapsed"]
      /\ UNCHANGED <<role, log, generation, canonical, staged, challenges, command, desk, post, heard, answer>>
  BY DEF InvitationLapses, browsers
<1>2. invitation' \in [Users -> InvitationRow] /\ InvitationsAreSent' /\ InvitationsAreSound'
  BY <1>1 DEF DInv, Typed, Rows, InvitationRow, InvitationsAreSent, InvitationsAreSound
<1>3. Commands' /\ CommandsExtend /\ ChallengesExtend
  BY <1>1, CommandsStay DEF DInv, Typed, ChallengesExtend
<1>4. Story'
  BY <1>1, <1>3, StoryStays DEF DInv
<1>5. Rows' /\ Screens'
  BY <1>1, <1>2 DEF DInv, Typed, Rows, Screens, Revision
<1>6. Grows
  BY <1>1, <1>3 DEF Grows, DInv, Typed, Rows
<1> QED BY <1>1, <1>2, <1>3, <1>4, <1>5, <1>6, BrowsersRest DEF DInv, Typed
-----------------------------------------------------------------------------
(* What the browsers do.                                                   *)

\* A browser that hears, gives up, selects again, refreshes or lets go of its
\* command: it is idle afterwards, or still holds the command without waiting.
Holds(u) ==
  /\ Active(u) /\ desk'[u].phase # "waiting" /\ desk'[u].op = desk[u].op /\ desk'[u].sends = desk[u].sends
  /\ command[desk[u].op].kind \in Retained
  /\ command[desk[u].op].kind \notin Citing => desk'[u].selection = None

\* What it heard, if it heard anything, is sound.
Hears(u) ==
  \/ heard' = heard
  \/ /\ Active(u) /\ desk'[u].phase = "idle"
     /\ \E h : HeardSound(h) /\ h.op = desk[u].op /\ heard' = heard \cup {h}

LEMMA Settling ==
  ASSUME DInv, BInv, NEW u \in Users, UNCHANGED <<database, command, post>>,
         desk'[u] \in DeskRow, desk'[u].version <= Revision, desk' = [desk EXCEPT ![u] = desk'[u]],
         desk'[u].phase = "idle" \/ Holds(u),
         \/ answer' = [answer EXCEPT ![u] = None]
         \/ answer' = answer /\ desk[u].phase # "waiting",
         Hears(u)
  PROVE  DInv' /\ BInv'
<1>1. /\ Typed /\ UNCHANGED <<role, invitation, log, generation, canonical, staged, challenges>>
      /\ \A m \in post : m.op \in DOMAIN command /\ Sound(command[m.op])
  BY DEF DInv, Typed, Screens, Commands, database
<1>2. /\ \A v \in Users \ {u} : desk'[v] = desk[v] /\ answer'[v] = answer[v]
      /\ answer'[u] = None /\ DOMAIN answer' = Users
  BY DEF DInv, BInv, Typed, Screens, AnswerSound
<1>3. Commands' /\ CommandsExtend
  BY <1>1, CommandsStay DEF Typed
<1>4. Screens'
  BY <1>1, <1>2 DEF Typed, Screens, Revision
<1>5. DInv' /\ Grows
  BY <1>3, <1>4, DatabaseRests
<1>6. \A o : Closed(o) => Closed(o)'
  <2> SUFFICES ASSUME NEW o, Closed(o) PROVE Closed(o)'
    OBVIOUS
  <2> QED BY <1>1, <1>5, ClosedStays
<1>7. \A o, s : Carried(o, s) => Carried(o, s)'
  BY <1>5, CarriedStays
<1>8. ASSUME NEW m \in post'
      PROVE  Posted(m)'
  <2>1. m \in post /\ Posted(m) /\ command[m.op].by \in Users
    BY <1>1 DEF BInv, Sound
  <2>2. CASE command[m.op].by = u
    BY <1>1, <2>1, <2>2 DEF Posted, Active, Holds
  <2>3. CASE command[m.op].by # u
    BY <1>1, <1>2, <2>1, <2>3 DEF Posted, Active
  <2> QED BY <2>2, <2>3
<1>9. ASSUME NEW v \in Users
      PROVE  DeskSound(v)' /\ AnswerSound(v)'
  <2>1. DeskSound(v) /\ AnswerSound(v) /\ DeskSound(u)
    BY DEF BInv
  <2>2. CASE v = u
    BY <1>2, <2>1, <2>2 DEF DeskSound, AnswerSound, Active, Holds, Hears
  <2>3. CASE v # u
    <3>1. AnswerSound(v)'
      BY <1>2, <1>6, <1>7, <2>1, <2>3 DEF AnswerSound
    <3>2. DeskSound(v)'
      BY <1>2, <2>1, <2>3 DEF DeskSound, Active, Hears
    <3> QED BY <3>1, <3>2
  <2> QED BY <2>2, <2>3
<1>10. \A h \in heard' : HeardSound(h)'
  <2>1. \A h : HeardSound(h) => HeardSound(h)'
    BY <1>6, <1>7 DEF HeardSound
  <2> QED BY <2>1 DEF BInv, Hears
<1> QED BY <1>1, <1>5, <1>8, <1>9, <1>10 DEF BInv, Of

\* A browser that sends: its command may be a new one.
LEMMA Sending ==
  ASSUME DInv, BInv, NEW u \in Users, UNCHANGED <<database, answer, heard>>,
         Commands', CommandsExtend, NEW r \in RequestRow, post' = post \cup {r}, r.expected <= Revision,
         desk'[u] \in DeskRow, desk'[u].version <= Revision, desk' = [desk EXCEPT ![u] = desk'[u]],
         desk[u].phase # "waiting", desk'[u].phase = "waiting",
         r.op \in DOMAIN command', command'[r.op].by = u,
         desk'[u].op = r.op, desk'[u].sends = r.turn, desk'[u].selection = r.selection,
         command'[r.op].kind \notin Citing => r.selection = None,
         command'[r.op].kind = "approve" => r.expected = challenges[command'[r.op].about].expected,
         \/ r.op \notin DOMAIN command
         \/ /\ Active(u) /\ desk[u].op = r.op /\ desk[u].sends < r.turn /\ command[r.op].kind \in Retained
  PROVE  DInv' /\ BInv'
<1>1. /\ Typed /\ UNCHANGED <<role, invitation, log, generation, canonical, staged, challenges>>
      /\ \A m \in post : m.op \in DOMAIN command /\ command'[m.op] = command[m.op] /\ Sound(command[m.op])
      /\ \A i \in DOMAIN log : log[i].op \in DOMAIN command
      /\ \A h \in heard : h.op \in DOMAIN command
  BY DEF DInv, BInv, Typed, Rows, Screens, Commands, CommandsExtend, database, HeardSound
<1>2. \A v \in Users \ {u} : desk'[v] = desk[v]
  BY DEF DInv, Typed, Screens
<1>3. Screens'
  BY <1>1, <1>2 DEF Typed, Screens, Revision, CommandsExtend
<1>4. DInv' /\ Grows
  BY <1>3, DatabaseRests
<1>5. \A h \in heard : h.op # r.op
  BY <1>1 DEF BInv, DeskSound
<1>6. \A v \in Users \ {u} : Active(v) => desk[v].op # r.op /\ desk[v].op \in DOMAIN command
                                          /\ command'[desk[v].op] = command[desk[v].op]
  BY DEF BInv, DeskSound, CommandsExtend
<1>7. \A o \in DOMAIN command : o # r.op /\ Closed(o) => Closed(o)'
  <2> SUFFICES ASSUME NEW o \in DOMAIN command, o # r.op, Closed(o) PROVE Closed(o)'
    OBVIOUS
  <2> QED BY <1>1, <1>4, ClosedStays
<1>8. \A o, s : Carried(o, s) => Carried(o, s)'
  BY <1>4, CarriedStays
<1>9. ASSUME NEW m \in post'
      PROVE  Posted(m)'
  <2>1. CASE m = r
    <3>1. command'[r.op].kind \notin Retained => r.op \notin DOMAIN command
      BY DEF CommandsExtend
    <3>2. command'[r.op].kind \notin Retained => (\A i \in DOMAIN log : log[i].op # r.op) /\ \A q \in post : q.op # r.op
      BY <1>1, <3>1
    <3>3. r.turn <= r.turn
      BY DEF RequestRow
    <3> QED BY <1>1, <2>1, <3>2, <3>3 DEF Posted
  <2>2. CASE m # r
    <3>1. m \in post /\ Posted(m) /\ command[m.op].by \in Users
      BY <1>1, <2>2 DEF BInv, Sound
    <3>2. ASSUME m.op = r.op
          PROVE  m.turn < r.turn /\ command[m.op].kind \in Retained /\ command[m.op].by = u
      <4>1. Active(u) /\ desk[u].op = r.op /\ desk[u].sends < r.turn /\ command[r.op].kind \in Retained
        BY <1>1, <3>1, <3>2
      <4>2. command[m.op].by = u /\ m.turn <= desk[u].sends
        BY <3>1, <3>2, <4>1 DEF BInv, DeskSound, Posted
      <4>3. m.turn \in Nat /\ desk[u].sends \in Nat /\ r.turn \in Nat
        BY <1>1, <3>1 DEF Typed, Screens, RequestRow, DeskRow
      <4> QED BY <3>2, <4>1, <4>2, <4>3
    <3>3. m.turn \in Nat /\ r.turn \in Nat
      BY <1>1, <3>1 DEF Typed, Screens, RequestRow
    <3>4. CASE m.op = r.op
      BY <1>1, <3>1, <3>2, <3>3, <3>4 DEF Posted
    <3>5. CASE m.op # r.op
      <4>1. command[m.op].by # u => desk'[command[m.op].by] = desk[command[m.op].by]
        BY <1>2, <3>1
      <4> QED BY <1>1, <3>1, <3>5, <4>1 DEF Posted, Active
    <3> QED BY <3>4, <3>5
  <2> QED BY <2>1, <2>2
<1>10. ASSUME NEW v \in Users
       PROVE  DeskSound(v)' /\ AnswerSound(v)'
  <2>1. DeskSound(v) /\ AnswerSound(v) /\ AnswerSound(u)
    BY DEF BInv
  <2>2. CASE v = u
    <3>1. answer[u] = None
      BY <2>1 DEF AnswerSound
    <3> QED BY <1>5, <2>2, <3>1 DEF DeskSound, AnswerSound, Active
  <2>3. CASE v # u
    <3>1. AnswerSound(v)'
      <4>1. answer[v] # None => Active(v)
        BY <2>1 DEF AnswerSound, Active
      <4> QED BY <1>2, <1>6, <1>7, <1>8, <2>1, <2>3, <4>1 DEF AnswerSound
    <3>2. DeskSound(v)'
      BY <1>2, <1>6, <2>1, <2>3 DEF DeskSound, Active, CommandsExtend
    <3> QED BY <3>1, <3>2
  <2> QED BY <2>2, <2>3
<1>11. ASSUME NEW h \in heard'
       PROVE  HeardSound(h)'
  <2>1. HeardSound(h) /\ h.op \in DOMAIN command /\ h.op # r.op /\ command'[h.op] = command[h.op]
    BY <1>1, <1>5 DEF BInv, CommandsExtend
  <2> QED BY <1>7, <1>8, <2>1 DEF HeardSound, CommandsExtend
<1>12. \A i \in DOMAIN log' : Of(i)'.kind \notin Citing => log'[i].selection = None
  BY <1>1 DEF BInv, Of, CommandsExtend
<1> QED BY <1>4, <1>9, <1>10, <1>11, <1>12 DEF BInv

\* The row of a browser, as Desk writes it.
LEMMA DeskIsTyped ==
  ASSUME NEW d, d.version \in Nat, d.blind \in BOOLEAN, NEW phase, NEW op, NEW sends \in Nat, NEW selection \in Passages,
         phase \in {"idle", "waiting", "unsure", "conflict", "changed"}, op \in Nat \cup {None}
  PROVE  LET row == Desk(d, phase, op, sends, selection)
         IN  /\ row \in DeskRow /\ row.phase = phase /\ row.op = op /\ row.sends = sends
             /\ row.selection = selection /\ row.version = d.version /\ row.blind = d.blind
  BY DEF Desk, DeskRow

LEMMA BrowserFacts ==
  ASSUME DInv, BInv, NEW u \in Users
  PROVE  /\ desk[u] \in DeskRow /\ desk[u].version \in Nat /\ desk[u].version <= Revision /\ desk[u].blind \in BOOLEAN
         /\ desk[u].sends \in Nat /\ desk[u].op \in Nat \cup {None} /\ desk[u].selection \in Passages
         /\ desk[u].phase \in {"idle", "waiting", "unsure", "conflict", "changed"}
         /\ DOMAIN desk = Users /\ Revision \in Nat /\ DeskSound(u) /\ AnswerSound(u)
         /\ Active(u) => Sound(command[desk[u].op])
<1>1. desk \in [Users -> DeskRow] /\ desk[u].version <= Revision /\ DeskSound(u) /\ AnswerSound(u) /\ Revision \in Nat
  BY DEF DInv, BInv, Typed, Screens, Rows, Revision
<1>2. desk[u] \in DeskRow
  BY <1>1
<1>3. Active(u) => Sound(command[desk[u].op])
  BY <1>1 DEF DeskSound, DInv, Typed, Commands
<1> QED BY <1>1, <1>2, <1>3 DEF DeskRow

\* A screen that shows the current revision, idle or not.
LEMMA ScreensAreTyped ==
  ASSUME DInv, BInv, NEW u \in Users
  PROVE  /\ Idle(desk[u]) \in DeskRow /\ Idle(desk[u]).version = desk[u].version /\ Idle(desk[u]).phase = "idle"
         /\ Loaded(u) \in DeskRow /\ Loaded(u).version = Revision /\ Loaded(u).phase = desk[u].phase
         /\ Loaded(u).op = desk[u].op /\ Loaded(u).sends = desk[u].sends /\ Loaded(u).selection = desk[u].selection
         /\ Idle(Loaded(u)) \in DeskRow /\ Idle(Loaded(u)).version = Revision /\ Idle(Loaded(u)).phase = "idle"
  BY BrowserFacts DEF Idle, Loaded, Desk, DeskRow, Passages

LEMMA SubmitKeeps ==
  ASSUME DInv, BInv, NEW u \in Users, NEW c \in Intents(u), Submit(u, c)
  PROVE  DInv' /\ BInv'
<1>0. PICK o \in Nat : o = Len(command) + 1
  BY DEF DInv, Typed, Commands
<1> DEFINE selection == IF c.kind \in {"capture", "reanchor"} THEN generation ELSE None
           r == Request(u, o, selection, 1)
           row == Desk(desk[u], "waiting", o, 1, selection)
<1>1. /\ Len(command) \in Nat /\ DOMAIN command = 1 .. Len(command) /\ generation \in Nat /\ desk \in [Users -> DeskRow]
      /\ Typed /\ Commands
  BY DEF DInv, Typed, Commands, Rows, Screens
<1>2. command' = Append(command, c) /\ desk' = [desk EXCEPT ![u] = row] /\ post' = post \cup {r}
      /\ desk[u].phase = "idle" /\ UNCHANGED <<database, answer, heard>>
  BY <1>0 DEF Submit, At
<1>3. /\ Sound(c) /\ c.by = u /\ (c.kind = "approve" => challenges[c.about].expected = desk[u].version)
  BY <1>1, IntentsAreSound
<1>4. /\ DOMAIN command' = 1 .. o /\ Len(command') = o /\ command'[o] = c
      /\ \A k \in DOMAIN command : k \in DOMAIN command' /\ command'[k] = command[k]
  BY <1>0, <1>1, <1>2, AppendingAny
<1>5. CommandsExtend
  BY <1>4 DEF CommandsExtend
<1>6. Commands'
  <2>1. challenges' = challenges
    BY <1>2 DEF database
  <2>2. \A k \in DOMAIN command : Sound(command[k])'
    BY <1>1, <1>5, <2>1, CommandsStaySound
  <2>3. Sound(command[o])'
    BY <1>3, <1>4, <2>1 DEF Sound
  <2>4. \A k \in DOMAIN command' : k \in DOMAIN command \/ k = o
    BY <1>0, <1>1, <1>4
  <2>5. \A k \in DOMAIN command' : Sound(command[k])'
    BY <2>2, <2>3, <2>4
  <2> QED BY <1>4, <2>5 DEF Commands
<1>7. o \in Nat /\ selection \in Passages /\ (c.kind \notin Citing => selection = None)
  BY <1>1 DEF Passages, Citing
<1>8. /\ r \in RequestRow /\ r.op = o /\ r.turn = 1 /\ r.expected = desk[u].version /\ r.selection = selection
  BY <1>7, BrowserFacts DEF Request, RequestRow
<1>9. /\ row \in DeskRow /\ row.phase = "waiting" /\ row.op = o /\ row.sends = 1 /\ row.selection = selection
      /\ row.version = desk[u].version
  BY <1>7, BrowserFacts, DeskIsTyped
<1>10. o \notin DOMAIN command /\ o \in DOMAIN command'
  BY <1>0, <1>1, <1>4
<1> HIDE DEF selection, r, row
<1>11. desk'[u] = row /\ desk' = [desk EXCEPT ![u] = desk'[u]]
  BY <1>1, <1>2
<1>12. /\ r.expected <= Revision /\ desk'[u].version <= Revision
  BY <1>8, <1>9, <1>11, BrowserFacts
<1>13. /\ desk[u].phase # "waiting" /\ r.op \in DOMAIN command' /\ r.op \notin DOMAIN command
       /\ command'[r.op] = c /\ desk'[u].op = r.op /\ desk'[u].sends = r.turn /\ desk'[u].selection = r.selection
       /\ desk'[u].phase = "waiting" /\ desk'[u] \in DeskRow
  BY <1>2, <1>4, <1>8, <1>9, <1>10, <1>11
<1>14. /\ command'[r.op].by = u /\ (command'[r.op].kind \notin Citing => r.selection = None)
       /\ command'[r.op].kind = "approve" => r.expected = challenges[command'[r.op].about].expected
  BY <1>3, <1>7, <1>8, <1>13
<1>15. UNCHANGED <<database, answer, heard>> /\ r \in RequestRow /\ post' = post \cup {r}
  BY <1>2, <1>8
<1> QED BY <1>5, <1>6, <1>11, <1>12, <1>13, <1>14, <1>15, Sending

LEMMA SendAgainKeeps ==
  ASSUME DInv, BInv, NEW u \in Users, SendAgain(u)
  PROVE  DInv' /\ BInv'
<1> DEFINE o == desk[u].op
           c == command[o]
           again == Request(u, o, desk[u].selection, desk[u].sends + 1)
           r == IF c.kind = "approve" THEN [again EXCEPT !.expected = challenges[c.about].expected] ELSE again
           row == Desk(desk[u], "waiting", o, desk[u].sends + 1, desk[u].selection)
<1>1. /\ Typed /\ Commands /\ desk \in [Users -> DeskRow] /\ desk[u].phase \in {"unsure", "conflict"}
      /\ UNCHANGED <<database, command, answer, heard>> /\ desk' = [desk EXCEPT ![u] = row] /\ post' = post \cup {r}
  BY DEF DInv, Typed, Screens, SendAgain, At
<1>2. Active(u) /\ o \in DOMAIN command /\ c.by = u /\ c.kind \in Retained /\ (c.kind \notin Citing => desk[u].selection = None)
  BY <1>1, BrowserFacts DEF Active, DeskSound
<1>3. o \in Nat /\ Sound(c)
  BY <1>1, <1>2 DEF Commands
<1>4. c.kind = "approve" => challenges[c.about].expected \in Nat /\ challenges[c.about].expected <= Revision
  <2>1. c.kind = "approve" => c.about \in DOMAIN challenges
    BY <1>3 DEF Sound
  <2> QED BY <1>1, <2>1, ChallengeFacts DEF Revision
<1>5. CommandsExtend /\ Commands'
  <2>1. challenges' = challenges /\ command' = command
    BY <1>1 DEF database
  <2> QED BY <1>1, <2>1, CommandsStay
<1>6. /\ again \in RequestRow /\ again.op = o /\ again.turn = desk[u].sends + 1 /\ again.expected = desk[u].version
      /\ again.selection = desk[u].selection
  BY <1>3, BrowserFacts DEF Request, RequestRow
<1> HIDE DEF again
<1>7. /\ r \in RequestRow /\ r.op = o /\ r.turn = desk[u].sends + 1 /\ r.selection = desk[u].selection
      /\ r.expected <= Revision
      /\ c.kind = "approve" => r.expected = challenges[c.about].expected
  <2>1. CASE c.kind = "approve"
    BY <1>4, <1>6, <2>1 DEF RequestRow
  <2>2. CASE c.kind # "approve"
    BY <1>6, <2>2, BrowserFacts
  <2> QED BY <2>1, <2>2
<1>8. /\ row \in DeskRow /\ row.phase = "waiting" /\ row.op = o /\ row.sends = desk[u].sends + 1
      /\ row.selection = desk[u].selection /\ row.version = desk[u].version
  BY <1>3, BrowserFacts, DeskIsTyped
<1> HIDE DEF row, r
<1>9. desk'[u] = row /\ desk' = [desk EXCEPT ![u] = desk'[u]] /\ desk'[u].version <= Revision
  BY <1>1, <1>8, BrowserFacts
<1>10. desk[u].sends < r.turn /\ desk[u].phase # "waiting"
  BY <1>1, <1>7, BrowserFacts
<1>11. command' = command
  BY <1>1
<1> QED BY <1>1, <1>2, <1>5, <1>7, <1>8, <1>9, <1>10, <1>11, Sending

\* The steps that leave what a browser heard alone.
LEMMA QuietStepsKeep ==
  ASSUME DInv, BInv, NEW u \in Users, Reselect(u) \/ GiveUp(u) \/ Abandon(u) \/ Refresh(u)
  PROVE  DInv' /\ BInv'
<1> DEFINE d == desk[u]
<1>1. /\ UNCHANGED <<database, command, post>> /\ Hears(u) /\ DOMAIN desk = Users /\ Typed
  BY BrowserFacts DEF Reselect, GiveUp, Abandon, Refresh, Hears, DInv
<1>2. /\ d.phase \in {"unsure", "conflict", "changed", "waiting"} => Active(u)
      /\ Active(u) /\ d.phase # "waiting" => command[d.op].kind \in Retained
      /\ Active(u) /\ command[d.op].kind \notin Citing => d.selection = None
  BY BrowserFacts DEF DeskSound, Active
<1>3. CASE Reselect(u)
  <2> DEFINE row == Desk(d, "unsure", d.op, d.sends, generation)
  <2>1. /\ desk' = [desk EXCEPT ![u] = row] /\ answer' = answer /\ d.phase \in {"unsure", "conflict", "changed"}
        /\ d.selection # None /\ generation \in Passages
    BY <1>1, <1>3 DEF Reselect, Typed, Rows, Passages
  <2>2. /\ row \in DeskRow /\ row.phase = "unsure" /\ row.op = d.op /\ row.sends = d.sends /\ row.version = d.version
    BY <2>1, BrowserFacts, DeskIsTyped
  <2> HIDE DEF row
  <2>3. desk'[u] = row
    BY <1>1, <2>1
  <2>4. Holds(u) /\ d.phase # "waiting"
    BY <1>2, <2>1, <2>2, <2>3 DEF Holds
  <2>5. desk'[u] \in DeskRow /\ desk'[u].version <= Revision /\ desk' = [desk EXCEPT ![u] = desk'[u]]
    BY <2>1, <2>2, <2>3, BrowserFacts
  <2> QED BY <1>1, <2>1, <2>4, <2>5, Settling
<1>4. CASE GiveUp(u)
  <2> DEFINE kept == command[d.op].kind \in Retained
             row == IF kept THEN [d EXCEPT !.phase = "unsure"] ELSE Idle(d)
  <2>1. desk' = [desk EXCEPT ![u] = row] /\ answer' = [answer EXCEPT ![u] = None] /\ d.phase = "waiting"
    BY <1>4 DEF GiveUp, At
  <2>2. /\ row \in DeskRow /\ row.version = d.version
        /\ ~kept => row.phase = "idle"
        /\ kept => row.phase = "unsure" /\ row.op = d.op /\ row.sends = d.sends /\ row.selection = d.selection
    BY BrowserFacts, ScreensAreTyped DEF DeskRow
  <2> HIDE DEF row
  <2>3. desk'[u] = row
    BY <1>1, <2>1
  <2>4. desk'[u].phase = "idle" \/ Holds(u)
    BY <1>2, <2>1, <2>2, <2>3 DEF Holds
  <2>5. desk'[u] \in DeskRow /\ desk'[u].version <= Revision /\ desk' = [desk EXCEPT ![u] = desk'[u]]
    BY <2>1, <2>2, <2>3, BrowserFacts
  <2> QED BY <1>1, <2>1, <2>4, <2>5, Settling
<1>5. CASE Abandon(u)
  <2>1. desk' = [desk EXCEPT ![u] = Idle(Loaded(u))] /\ answer' = answer /\ d.phase # "waiting"
    BY <1>5 DEF Abandon
  <2>2. desk'[u] = Idle(Loaded(u))
    BY <1>1, <2>1
  <2>3. desk'[u].phase = "idle" /\ desk'[u] \in DeskRow /\ desk'[u].version <= Revision
    BY <2>2, ScreensAreTyped, BrowserFacts
  <2>4. desk' = [desk EXCEPT ![u] = desk'[u]]
    BY <2>1, <2>2
  <2> QED BY <1>1, <2>1, <2>3, <2>4, Settling
<1>6. CASE Refresh(u)
  <2>1. desk' = [desk EXCEPT ![u] = Loaded(u)] /\ answer' = answer /\ d.phase # "waiting"
    BY <1>6 DEF Refresh, At
  <2>2. desk'[u] = Loaded(u)
    BY <1>1, <2>1
  <2>3. /\ desk'[u].phase = d.phase /\ desk'[u].op = d.op /\ desk'[u].sends = d.sends
        /\ desk'[u].selection = d.selection /\ desk'[u] \in DeskRow /\ desk'[u].version <= Revision
    BY <2>2, ScreensAreTyped, BrowserFacts
  <2>4. desk'[u].phase = "idle" \/ Holds(u)
    BY <1>2, <2>1, <2>3 DEF Holds, Active
  <2>5. desk' = [desk EXCEPT ![u] = desk'[u]]
    BY <2>1, <2>2
  <2> QED BY <1>1, <2>1, <2>3, <2>4, <2>5, Settling
<1> QED BY <1>3, <1>4, <1>5, <1>6

\* What an answer is about: its receiver waits for it, and it says what is so.
LEMMA AnswerFacts ==
  ASSUME DInv, BInv, NEW u \in Users, answer[u] # None, Consumes(u)
  PROVE  /\ Active(u) /\ desk[u].phase = "waiting" /\ desk[u].op \in DOMAIN command
         /\ answer[u].version \in Nat /\ answer[u].version <= Revision
         /\ answer[u].code \in {"applied", "replayed"} => Carried(desk[u].op, desk[u].selection)
         /\ answer[u].code = "selection_conflict" => command[desk[u].op].kind \in Citing
         /\ Closes(answer[u].code, command[desk[u].op].kind) => Closed(desk[u].op)
         /\ command[desk[u].op].kind \notin Citing => desk[u].selection = None
         /\ UNCHANGED <<database, command, post>> /\ answer' = [answer EXCEPT ![u] = None]
         /\ DOMAIN desk = Users
<1>1. DeskSound(u) /\ AnswerSound(u) /\ Typed
  BY DEF DInv, BInv
<1> QED BY <1>1, BrowserFacts DEF DeskSound, AnswerSound, Active, Consumes, Typed, Screens

LEMMA HearSuccessKeeps ==
  ASSUME DInv, BInv, NEW u \in Users, HearSuccess(u)
  PROVE  DInv' /\ BInv'
<1> DEFINE d == desk[u]
           v == answer[u].version
           seen == [version |-> IF d.version < v THEN v ELSE d.version,
                    blind |-> d.blind \/ \E i \in (d.version + 1) .. v : i \notin Entry(d.op)]
           h == [op |-> d.op, what |-> "done", selection |-> d.selection]
<1>1. /\ answer[u] # None /\ answer[u].code \in {"applied", "replayed"} /\ Consumes(u)
      /\ desk' = [desk EXCEPT ![u] = Idle(seen)] /\ heard' = heard \cup {h}
  BY DEF HearSuccess, Adopted, Heard
<1>2. /\ seen.version \in Nat /\ seen.version <= Revision /\ seen.blind \in BOOLEAN
  BY <1>1, AnswerFacts, BrowserFacts
<1>3. HeardSound(h) /\ h.op = d.op
  BY <1>1, AnswerFacts DEF HeardSound
<1> HIDE DEF seen, h
<1>4. Idle(seen) \in DeskRow /\ Idle(seen).phase = "idle" /\ Idle(seen).version = seen.version
  BY <1>2 DEF Idle, Desk, DeskRow, Passages
<1>5. desk'[u] = Idle(seen)
  BY <1>1, BrowserFacts
<1>6. Hears(u)
  BY <1>1, <1>3, <1>4, <1>5, AnswerFacts DEF Hears
<1>7. /\ desk'[u] \in DeskRow /\ desk'[u].version <= Revision /\ desk'[u].phase = "idle"
      /\ desk' = [desk EXCEPT ![u] = desk'[u]]
  BY <1>1, <1>2, <1>4, <1>5
<1>8. UNCHANGED <<database, command, post>> /\ answer' = [answer EXCEPT ![u] = None]
  BY <1>1, AnswerFacts
<1> QED BY <1>6, <1>7, <1>8, Settling

\* An answer that takes the command off the screen, or leaves it there.
LEMMA Hearing ==
  ASSUME DInv, BInv, NEW u \in Users, answer[u] # None, Consumes(u), NEW row, desk' = [desk EXCEPT ![u] = row],
         \/ /\ row \in {Idle(desk[u]), Idle(Loaded(u))} /\ Closes(answer[u].code, command[desk[u].op].kind)
            /\ Heard(u, "refused")
         \/ /\ row \in {Idle(desk[u]), Idle(Loaded(u))} /\ answer[u].code = "forbidden"
            /\ Heard(u, "forbidden") /\ command[desk[u].op].kind \notin Lasting
         \/ /\ \E phase \in {"unsure", "conflict", "changed"} :
                 row \in {[desk[u] EXCEPT !.phase = phase], [Loaded(u) EXCEPT !.phase = phase]}
            /\ command[desk[u].op].kind \in Retained /\ UNCHANGED heard
  PROVE  DInv' /\ BInv'
<1> DEFINE d == desk[u]
           h(what) == [op |-> d.op, what |-> what, selection |-> d.selection]
<1>1. desk'[u] = row /\ UNCHANGED <<database, command, post>> /\ answer' = [answer EXCEPT ![u] = None] /\ Active(u)
  BY AnswerFacts
<1>2. CASE row \in {Idle(desk[u]), Idle(Loaded(u))}
  <2>1. row \in DeskRow /\ row.phase = "idle" /\ row.version <= Revision
    BY <1>2, ScreensAreTyped, BrowserFacts
  <2>2. ASSUME Heard(u, "refused"), Closes(answer[u].code, command[desk[u].op].kind)
        PROVE  Hears(u)
    <3>1. HeardSound(h("refused")) /\ h("refused").op = desk[u].op /\ heard' = heard \cup {h("refused")}
      BY <2>2, AnswerFacts DEF HeardSound, Heard
    <3> HIDE DEF h
    <3> QED BY <1>1, <2>1, <3>1 DEF Hears
  <2>3. ASSUME Heard(u, "forbidden"), answer[u].code = "forbidden", command[desk[u].op].kind \notin Lasting
        PROVE  Hears(u)
    <3>1. command[desk[u].op].kind # "approve" => Closes(answer[u].code, command[desk[u].op].kind)
      BY <2>3 DEF Closes, Lasting
    <3>2. HeardSound(h("forbidden")) /\ h("forbidden").op = desk[u].op /\ heard' = heard \cup {h("forbidden")}
      BY <2>3, <3>1, AnswerFacts DEF HeardSound, Heard
    <3> HIDE DEF h
    <3> QED BY <1>1, <2>1, <3>2 DEF Hears
  <2>4. Hears(u)
    BY <2>2, <2>3 DEF Hears
  <2>5. /\ desk'[u] \in DeskRow /\ desk'[u].version <= Revision /\ desk'[u].phase = "idle"
        /\ desk' = [desk EXCEPT ![u] = desk'[u]]
    BY <1>1, <2>1
  <2> QED BY <1>1, <2>4, <2>5, Settling
<1>3. ASSUME NEW phase \in {"unsure", "conflict", "changed"},
             row \in {[desk[u] EXCEPT !.phase = phase], [Loaded(u) EXCEPT !.phase = phase]},
             command[desk[u].op].kind \in Retained, UNCHANGED heard
      PROVE  DInv' /\ BInv'
  <2>1. /\ row \in DeskRow /\ row.phase = phase /\ row.version <= Revision /\ row.op = desk[u].op
        /\ row.sends = desk[u].sends /\ row.selection = desk[u].selection
    BY <1>3, ScreensAreTyped, BrowserFacts DEF DeskRow
  <2>2. Holds(u) /\ Hears(u)
    BY <1>1, <1>3, <2>1, AnswerFacts DEF Holds, Hears
  <2>3. desk'[u] \in DeskRow /\ desk'[u].version <= Revision /\ desk' = [desk EXCEPT ![u] = desk'[u]]
    BY <1>1, <2>1
  <2> QED BY <1>1, <2>2, <2>3, Settling
<1> QED BY <1>2, <1>3

LEMMA HearingKeeps ==
  ASSUME DInv, BInv, NEW u \in Users, HearConflict(u) \/ HearSourceChanged(u) \/ HearRefusal(u)
  PROVE  DInv' /\ BInv'
<1> DEFINE kind == command[desk[u].op].kind
           code == answer[u].code
<1>1. answer[u] # None /\ Consumes(u)
  BY DEF HearConflict, HearSourceChanged, HearRefusal
<1>2. CASE HearConflict(u)
  <2>1. CASE kind \in Lasting
    <3>1. desk' = [desk EXCEPT ![u] = [Loaded(u) EXCEPT !.phase = "conflict"]] /\ UNCHANGED heard /\ kind \in Retained
      BY <1>2, <2>1 DEF HearConflict, Lasting
    <3> QED BY <1>1, <3>1, Hearing
  <2>2. CASE kind \notin Lasting
    <3>1. desk' = [desk EXCEPT ![u] = Idle(Loaded(u))] /\ Heard(u, "refused") /\ Closes(code, kind)
      BY <1>2, <2>2 DEF HearConflict, Lasting, Closes
    <3> QED BY <1>1, <3>1, Hearing
  <2> QED BY <2>1, <2>2
<1>3. CASE HearSourceChanged(u)
  <2>1. desk' = [desk EXCEPT ![u] = [desk[u] EXCEPT !.phase = "changed"]] /\ UNCHANGED heard /\ kind \in Retained
    BY <1>1, <1>3, AnswerFacts DEF HearSourceChanged, Citing, Retained
  <2> QED BY <1>1, <2>1, Hearing
<1>4. CASE HearRefusal(u)
  <2> DEFINE closes == kind \notin Lasting \/ code = "revision_conflict"
             loads == code = "revision_conflict" \/ (kind = "approve" /\ code = "refused")
             row == IF ~closes THEN [desk[u] EXCEPT !.phase = "unsure"]
                    ELSE IF loads THEN Idle(Loaded(u)) ELSE Idle(desk[u])
  <2>1. /\ code \in {"forbidden", "revision_conflict", "refused", "reused"} /\ desk' = [desk EXCEPT ![u] = row]
        /\ closes => Heard(u, IF code = "forbidden" THEN "forbidden" ELSE "refused")
        /\ ~closes => UNCHANGED heard
    BY <1>4 DEF HearRefusal, Lasting
  <2>2. CASE ~closes
    <3>1. row = [desk[u] EXCEPT !.phase = "unsure"] /\ kind \in Retained /\ UNCHANGED heard
      BY <2>1, <2>2 DEF Lasting
    <3> HIDE DEF row
    <3> QED BY <1>1, <2>1, <3>1, Hearing
  <2>3. CASE closes /\ code = "forbidden"
    <3>1. row \in {Idle(desk[u]), Idle(Loaded(u))} /\ Heard(u, "forbidden") /\ kind \notin Lasting
      BY <2>1, <2>3
    <3> HIDE DEF row
    <3> QED BY <1>1, <2>1, <2>3, <3>1, Hearing
  <2>4. CASE closes /\ code # "forbidden"
    <3>1. row \in {Idle(desk[u]), Idle(Loaded(u))} /\ Heard(u, "refused") /\ Closes(code, kind)
      BY <2>1, <2>4 DEF Closes
    <3> HIDE DEF row
    <3> QED BY <1>1, <2>1, <3>1, Hearing
  <2> QED BY <2>2, <2>3, <2>4
<1> QED BY <1>2, <1>3, <1>4
-----------------------------------------------------------------------------
(* The invariant holds.                                                    *)

LEMMA InitInv == Init => DInv /\ BInv
<1> SUFFICES ASSUME Init PROVE DInv /\ BInv
  OBVIOUS
<1> DEFINE first == Idle([version |-> 0, blind |-> FALSE])
<1>1. /\ role = FirstRole /\ invitation = [u \in Users |-> NoInvitation] /\ log = <<>> /\ generation = 1
      /\ canonical \in {0, 1} /\ staged \in BOOLEAN /\ challenges = <<>> /\ command = <<>>
      /\ desk = [u \in Users |-> first] /\ post = {} /\ answer = [u \in Users |-> None] /\ heard = {}
  BY DEF Init
<1>2. first \in DeskRow /\ first.version = 0 /\ first.phase = "idle"
  BY DEF Idle, Desk, DeskRow, Passages
<1> HIDE DEF first
<1>3. /\ Len(log) = 0 /\ DOMAIN log = {} /\ log \in Seq(EntryRow) /\ Len(command) = 0 /\ DOMAIN command = {}
      /\ DOMAIN challenges = {} /\ challenges \in Seq(ChallengeRow)
  BY <1>1
<1>4. Commands
  <2>1. DOMAIN command = 1 .. Len(command) /\ Len(command) \in Nat
    BY <1>3
  <2> QED BY <1>3, <2>1 DEF Commands
<1>5. Rows
  BY <1>1, <1>3, CommandBounds DEF Rows, CommandBounds, NoInvitation, InvitationRow, InvitationsAreSent
<1>6. Screens
  BY <1>1, <1>2, <1>3 DEF Screens, Revision
<1>7. Story /\ InvitationsAreSound
  BY <1>1, <1>3 DEF Story, EntriesOnce, ChainHolds, ConsentHolds, InvitationsAreSound, NoInvitation
<1>8. BInv
  BY <1>1, <1>2, <1>3 DEF BInv, DeskSound, AnswerSound, Active
<1> QED BY <1>4, <1>5, <1>6, <1>7, <1>8 DEF DInv, Typed

LEMMA StutterKeeps ==
  ASSUME DInv, BInv, UNCHANGED vars
  PROVE  DInv' /\ BInv'
<1>1. UNCHANGED <<role, invitation, log, generation, canonical, staged, challenges, command, desk, post, answer, heard>>
  BY DEF vars
<1>2. ChallengesExtend /\ challenges' \in Seq(ChallengeRow) /\ generation' \in Nat /\ canonical' \in {0, 1}
      /\ \A i \in DOMAIN challenges' : challenges'[i].expected <= Revision
  BY <1>1 DEF ChallengesExtend, DInv, Typed, Rows
<1> QED BY <1>1, <1>2, DatabaseGrows DEF browsers

LEMMA NextInv == DInv /\ BInv /\ [Next]_vars => DInv' /\ BInv'
<1> SUFFICES ASSUME DInv, BInv, [Next]_vars PROVE DInv' /\ BInv'
  OBVIOUS
<1>1. ASSUME NEW m \in post, Apply(m) PROVE DInv' /\ BInv'
  BY <1>1, ApplyKeeps, AppliedBrowsers
<1>2. ASSUME NEW m \in post, Replay(m) PROVE DInv' /\ BInv'
  BY <1>2, ReplayKeeps
<1>3. ASSUME NEW m \in post, Refuse(m) PROVE DInv' /\ BInv'
  BY <1>3, RefuseKeeps
<1>4. ASSUME NEW u \in Users, NEW d \in Decisions, PrepareApproval(u, d) PROVE DInv' /\ BInv'
  BY <1>4, PrepareKeeps
<1>5. ASSUME NEW i \in DOMAIN challenges, ChallengeExpires(i) PROVE DInv' /\ BInv'
  BY <1>5, ExpiryKeeps
<1>6. ASSUME NEW u \in Users, InvitationLapses(u) PROVE DInv' /\ BInv'
  BY <1>6, LapseKeeps
<1>7. ASSUME NEW u \in Users, SendAgain(u) PROVE DInv' /\ BInv'
  BY <1>7, SendAgainKeeps
<1>8. ASSUME NEW u \in Users, Reselect(u) \/ GiveUp(u) \/ Abandon(u) \/ Refresh(u) PROVE DInv' /\ BInv'
  BY <1>8, QuietStepsKeep
<1>9. ASSUME NEW u \in Users, HearSuccess(u) PROVE DInv' /\ BInv'
  BY <1>9, HearSuccessKeeps
<1>10. ASSUME NEW u \in Users, HearConflict(u) \/ HearSourceChanged(u) \/ HearRefusal(u) PROVE DInv' /\ BInv'
  BY <1>10, HearingKeeps
<1>11. ASSUME NEW u \in Users, NEW c \in Intents(u), Submit(u, c) PROVE DInv' /\ BInv'
  BY <1>11, SubmitKeeps
<1>12. CASE GenerationAdvances \/ CanonizedElsewhere
  BY <1>12, BackgroundKeeps
<1>13. CASE UNCHANGED vars
  BY <1>13, StutterKeeps
<1> QED BY <1>1, <1>2, <1>3, <1>4, <1>5, <1>6, <1>7, <1>8, <1>9, <1>10, <1>11, <1>12, <1>13 DEF Next, Decisions

\* The strengthened invariant of the workspace and of the browsers that share it.
THEOREM CommandsInductive == Spec => [](DInv /\ BInv)
BY InitInv, NextInv, PTL DEF Spec

\* A set in which all are equal has one element at most.
LEMMA AtMostOne ==
  ASSUME NEW S, \A x, y \in S : x = y
  PROVE  Cardinality(S) <= 1
<1>1. CASE S = {}
  BY <1>1, FS_EmptySet
<1>2. CASE S # {}
  <2>1. PICK x \in S : S = {x}
    BY <1>2
  <2>2. Cardinality({x}) = 1
    BY FS_Singleton
  <2> QED BY <2>1, <2>2
<1> QED BY <1>1, <1>2

\* The revisions of a note form a chain: one successor at most, and only a
\* captured note is verified.
THEOREM EvidenceStaysAChain == Spec => []EvidenceIsAChain
<1>1. DInv => EvidenceIsAChain
  <2> SUFFICES ASSUME DInv, NEW n \in Notes
               PROVE  /\ Cardinality(Successors(n)) <= 1
                      /\ \A s \in Successors(n) : command[s].kind = "verify" => Captured(n)
    BY DEF EvidenceIsAChain
  <2>1. ASSUME NEW s \in Successors(n)
        PROVE  \E i \in DOMAIN log : log[i].op = s /\ Revises(Of(i)) /\ Of(i).about = n
    <3>1. s \in Notes \ {0} /\ command[s].kind # "capture" /\ command[s].about = n
      BY DEF Successors
    <3> QED BY <3>1 DEF Notes, Revises, Of
  <2>2. ASSUME NEW s \in Successors(n), NEW t \in Successors(n)
        PROVE  s = t
    BY <2>1 DEF DInv, Story, ChainHolds
  <2>3. Cardinality(Successors(n)) <= 1
    BY <2>2, AtMostOne
  <2>4. ASSUME NEW s \in Successors(n), command[s].kind = "verify"
        PROVE  Captured(n)
    BY <2>1, <2>4 DEF DInv, Story, ChainHolds, Of
  <2> QED BY <2>3, <2>4
<1> QED BY <1>1, CommandsInductive, PTL

\* A proposal is approved once, by the person who reviewed the evidence, in the
\* revision of the workspace they reviewed, on a challenge nobody else used; and
\* it never makes a second canonical paper.
THEOREM ConsentStaysBound == Spec => []ConsentMatchesReview
<1>1. DInv => ConsentMatchesReview
  <2> SUFFICES ASSUME DInv PROVE ConsentMatchesReview
    OBVIOUS
  <2>1. \A i, j \in Approvals : i = j
    BY DEF Approvals, DInv, Story, ConsentHolds, Of
  <2>2. Cardinality(Approvals) <= 1
    BY <2>1, AtMostOne
  <2>3. canonical <= 1
    BY DEF DInv, Typed, Rows
  <2> QED BY <2>2, <2>3 DEF ConsentMatchesReview, Approvals, DInv, Story, ConsentHolds, Of
<1> QED BY <1>1, CommandsInductive, PTL

\* An invitation that can be accepted was sent by a member, to someone who is
\* none.
THEOREM InvitationsStaySound == Spec => []InvitationsAreSound
<1>1. DInv => InvitationsAreSound
  BY DEF DInv
<1> QED BY <1>1, CommandsInductive, PTL

\* What a browser was told, the answer 403 to an approval excepted.
ClosedAnswersAreTrue ==
  /\ \A i, j \in DOMAIN log : log[i].op = log[j].op => i = j
  /\ \A h \in heard :
       /\ h.what = "done" => \E i \in Entry(h.op) : log[i].selection = h.selection
       /\ h.what = "refused" => Entry(h.op) = {}
       /\ h.what = "forbidden" /\ command[h.op].kind # "approve" => Entry(h.op) = {}

\* However often a command is sent and whenever its requests arrive, it is
\* carried out once at most; what was heard to be done is done, and what was
\* heard to be refused is not done and never will be.
THEOREM ClosedAnswersStayTrue == Spec => []ClosedAnswersAreTrue
<1>1. DInv /\ BInv => ClosedAnswersAreTrue
  BY DEF DInv, BInv, Story, EntriesOnce, HeardSound, Carried, Closed, Entry, ClosedAnswersAreTrue
<1> QED BY <1>1, CommandsInductive, PTL
-----------------------------------------------------------------------------
(* Approvals in a workspace whose members keep their roles.                *)

\* Where proposals are approved, nobody is demoted or removed meanwhile.
Steady == "approve" \in Kinds => Kinds \cap {"role", "remove"} = {}
Contributors == {"owner", "admin", "member"}

\* The authors of approvals may contribute, and are not told that they may not.
CInv == "approve" \in Kinds =>
  /\ \A i \in DOMAIN challenges : role[challenges[i].by] \in Contributors
  /\ \A o \in DOMAIN command : command[o].kind = "approve" => challenges[command[o].about].by = command[o].by
  /\ \A u \in Users : answer[u] # None /\ answer[u].code = "forbidden" => command[desk[u].op].kind # "approve"
  /\ \A h \in heard : h.what = "forbidden" => command[h.op].kind # "approve"

\* What a step does for it: contributors keep their roles, challenges are
\* prepared by contributors, an approval names a challenge of its author, and a
\* 403 is neither sent to nor heard about an approval.
RolesStay == \A u \in Users : role[u] \in Contributors => role'[u] = role[u]
ChallengersStay ==
  /\ \A i \in DOMAIN challenges : i \in DOMAIN challenges' /\ challenges'[i].by = challenges[i].by
  /\ \A i \in DOMAIN challenges' : i \in DOMAIN challenges \/ role[challenges'[i].by] \in Contributors
ApprovalsAreOwn ==
  /\ CommandsExtend
  /\ \A o \in DOMAIN command' : o \in DOMAIN command \/
       (command'[o].kind = "approve" =>
          command'[o].about \in DOMAIN challenges /\ challenges[command'[o].about].by = command'[o].by)
NoneIsForbidden ==
  \A u \in Users : answer'[u] # None =>
    /\ desk[u].phase = "waiting" /\ desk'[u].op = desk[u].op
    /\ answer'[u] = answer[u] \/ answer'[u].code # "forbidden" \/ command[desk[u].op].kind # "approve"
NothingForbiddenIsHeard ==
  \A h \in heard' : h \in heard \/ h.what # "forbidden"
    \/ \E u \in Users : answer[u] # None /\ answer[u].code = "forbidden" /\ h.op = desk[u].op
Quiet == RolesStay /\ ChallengersStay /\ ApprovalsAreOwn /\ NoneIsForbidden /\ NothingForbiddenIsHeard

LEMMA QuietKeeps ==
  ASSUME DInv, BInv, DInv', CInv, "approve" \in Kinds, Quiet
  PROVE  CInv'
<1>1. \A o \in DOMAIN command : o \in DOMAIN command' /\ command'[o] = command[o] /\ Sound(command[o])
  BY DEF DInv, Typed, Commands, Quiet, ApprovalsAreOwn, CommandsExtend
<1>2. ASSUME NEW i \in DOMAIN challenges'
      PROVE  role'[challenges'[i].by] \in Contributors
  <2>1. challenges'[i].by \in Users
    <3>1. challenges' \in Seq(ChallengeRow)
      BY DEF DInv, Typed, Rows
    <3>2. challenges'[i] \in ChallengeRow
      BY <3>1
    <3> QED BY <3>2 DEF ChallengeRow
  <2>2. role[challenges'[i].by] \in Contributors
    BY DEF CInv, Quiet, ChallengersStay
  <2> QED BY <2>1, <2>2 DEF Quiet, RolesStay
<1>3. ASSUME NEW o \in DOMAIN command', command'[o].kind = "approve"
      PROVE  challenges'[command'[o].about].by = command'[o].by
  <2>1. CASE o \in DOMAIN command
    BY <1>1, <1>3, <2>1 DEF CInv, Quiet, ChallengersStay, Sound
  <2>2. CASE o \notin DOMAIN command
    BY <1>3, <2>2 DEF Quiet, ApprovalsAreOwn, ChallengersStay
  <2> QED BY <2>1, <2>2
<1>4. ASSUME NEW u \in Users, answer'[u] # None, answer'[u].code = "forbidden"
      PROVE  command'[desk'[u].op].kind # "approve"
  <2>1. desk[u].phase = "waiting" /\ desk'[u].op = desk[u].op /\ command[desk[u].op].kind # "approve"
    BY <1>4 DEF CInv, Quiet, NoneIsForbidden
  <2>2. desk[u].op \in DOMAIN command
    BY <2>1 DEF BInv, DeskSound, Active
  <2> QED BY <1>1, <2>1, <2>2
<1>5. ASSUME NEW h \in heard', h.what = "forbidden"
      PROVE  command'[h.op].kind # "approve"
  <2>1. CASE h \in heard
    BY <1>1, <1>5, <2>1 DEF CInv, BInv, HeardSound
  <2>2. CASE h \notin heard
    <3>1. PICK u \in Users : answer[u] # None /\ answer[u].code = "forbidden" /\ h.op = desk[u].op
      BY <1>5, <2>2 DEF Quiet, NothingForbiddenIsHeard
    <3>2. command[h.op].kind # "approve" /\ h.op \in DOMAIN command
      BY <3>1 DEF CInv, BInv, AnswerSound, DeskSound, Active
    <3> QED BY <1>1, <3>2
  <2> QED BY <2>1, <2>2
<1> QED BY <1>2, <1>3, <1>4, <1>5 DEF CInv

\* A server answers: the author of an approval is never told 403.
LEMMA ServersAreQuiet ==
  ASSUME Steady, DInv, BInv, CInv, "approve" \in Kinds, NEW m \in post, Apply(m) \/ Replay(m) \/ Refuse(m)
  PROVE  Quiet
<1> DEFINE c == command[m.op]
<1>1. Typed /\ Sound(c) /\ m.op \in DOMAIN command /\ UNCHANGED <<command, desk, heard>>
  BY DEF DInv, Typed, Screens, Commands, Apply, Replay, Refuse, Take
<1>2. PICK code, version : Answer(c, m, code, version) /\ (code = "forbidden" => c.kind # "approve")
  <2>1. CASE Apply(m)
    <3>1. Answer(c, m, "applied", Revision + 1)
      BY <2>1 DEF Apply
    <3> QED BY <3>1
  <2>2. CASE Replay(m)
    <3>1. PICK version : Answer(c, m, "replayed", version)
      BY <2>2 DEF Replay
    <3> QED BY <3>1
  <2>3. CASE Refuse(m)
    <3>1. Answer(c, m, Verdict(c, m), Revision)
      BY <2>3 DEF Refuse
    <3>2. c.kind = "approve" => Authorized(c)
      <4>1. c.kind = "approve" => role[c.by] \in Contributors
        BY <1>1 DEF CInv, Sound
      <4> QED BY <4>1 DEF Authorized, Contributors, Contributions
    <3>3. Verdict(c, m) = "forbidden" => ~Authorized(c)
      BY DEF Verdict
    <3> QED BY <3>1, <3>2, <3>3
  <2> QED BY <2>1, <2>2, <2>3
<1>3. NoneIsForbidden
  <2> SUFFICES ASSUME NEW u \in Users, answer'[u] # None
               PROVE  /\ desk[u].phase = "waiting"
                      /\ answer'[u] = answer[u] \/ answer'[u].code # "forbidden" \/ command[desk[u].op].kind # "approve"
    BY <1>1 DEF NoneIsForbidden
  <2>1. DOMAIN answer = Users /\ (answer[u] # None => desk[u].phase = "waiting")
    BY DEF DInv, BInv, Typed, Screens, AnswerSound
  <2>2. CASE answer'[u] = answer[u]
    BY <2>1, <2>2
  <2>3. CASE answer'[u] # answer[u]
    <3>1. /\ u = c.by /\ desk[u].phase = "waiting" /\ desk[u].op = m.op
          /\ answer'[u] = [code |-> code, version |-> version]
      BY <1>2, <2>1, <2>3 DEF Answer
    <3> QED BY <1>2, <3>1
  <2> QED BY <2>2, <2>3
<1>4. RolesStay
  <2>1. CASE Apply(m)
    <3>1. Membership(c) /\ Fits(c, m) /\ c.kind \notin {"role", "remove"}
      BY <1>1, <2>1, Applicable DEF Apply, Steady, Sound
    <3>2. role' = role \/ (role[c.by] = "none" /\ \E r : role' = [role EXCEPT ![c.by] = r])
      BY <3>1 DEF Membership, Fits, InvitationHolds
    <3>3. DOMAIN role = Users
      BY <1>1 DEF Typed, Rows
    <3> QED BY <3>2, <3>3 DEF RolesStay, Contributors
  <2>2. CASE Replay(m) \/ Refuse(m)
    BY <2>2 DEF Replay, Refuse, RolesStay
  <2> QED BY <2>1, <2>2
<1>5. ChallengersStay
  <2>1. CASE Apply(m)
    BY <1>1, <2>1, ApplyChallenges DEF ChallengersStay, ChallengesExtend
  <2>2. CASE Replay(m) \/ Refuse(m)
    BY <2>2 DEF Replay, Refuse, ChallengersStay
  <2> QED BY <2>1, <2>2
<1> QED BY <1>1, <1>3, <1>4, <1>5 DEF Quiet, ApprovalsAreOwn, CommandsExtend, NothingForbiddenIsHeard

\* A challenge is prepared by somebody who may contribute.
LEMMA BackgroundIsQuiet ==
  ASSUME DInv, BInv, UNCHANGED <<role, command, desk, answer, heard>>, ChallengersStay
  PROVE  Quiet
<1>1. NoneIsForbidden
  BY DEF NoneIsForbidden, BInv, AnswerSound
<1> QED BY <1>1 DEF Quiet, RolesStay, ApprovalsAreOwn, CommandsExtend, NothingForbiddenIsHeard

LEMMA ChallengersAreQuiet ==
  ASSUME DInv, BInv,
         \/ \E u \in Users, d \in Decisions : PrepareApproval(u, d)
         \/ \E i \in DOMAIN challenges : ChallengeExpires(i)
         \/ \E u \in Users : InvitationLapses(u)
         \/ GenerationAdvances \/ CanonizedElsewhere \/ UNCHANGED vars
  PROVE  Quiet
<1>1. UNCHANGED <<role, command, desk, answer, heard>>
  BY DEF PrepareApproval, ChallengeExpires, InvitationLapses, GenerationAdvances, CanonizedElsewhere, vars, browsers
<1>2. challenges \in Seq(ChallengeRow)
  BY DEF DInv, Typed, Rows
<1>3. ASSUME NEW u \in Users, NEW d \in Decisions, PrepareApproval(u, d)
      PROVE  ChallengersStay
  <2> DEFINE row == [by |-> u, decision |-> d, expected |-> Revision, state |-> "open"]
  <2>1. row \in ChallengeRow /\ row.by = u
    BY DEF ChallengeRow, DInv, Typed, Rows, Revision
  <2>2. challenges' = Append(challenges, row) /\ role[u] \in Contributors
    BY <1>3 DEF PrepareApproval, Contributors
  <2> HIDE DEF row
  <2>3. /\ \A i \in DOMAIN challenges : i \in DOMAIN challenges' /\ challenges'[i] = challenges[i]
        /\ \A i \in DOMAIN challenges' : i \in DOMAIN challenges \/ challenges'[i] = row
    BY <1>2, <2>1, <2>2, Appending
  <2> QED BY <2>1, <2>2, <2>3 DEF ChallengersStay
<1>4. ASSUME NEW i \in DOMAIN challenges, ChallengeExpires(i)
      PROVE  ChallengersStay
  <2> DEFINE row == [challenges[i] EXCEPT !.state = "expired"]
  <2>1. row.by = challenges[i].by
    BY <1>2, ChallengeFacts DEF DInv, ChallengeRow
  <2>2. challenges' = [challenges EXCEPT ![i] = row]
    BY <1>4 DEF ChallengeExpires
  <2> HIDE DEF row
  <2> QED BY <1>2, <2>1, <2>2 DEF ChallengersStay
<1>5. ASSUME UNCHANGED challenges PROVE ChallengersStay
  BY <1>5 DEF ChallengersStay
<1>6. ChallengersStay
  BY <1>3, <1>4, <1>5 DEF InvitationLapses, GenerationAdvances, CanonizedElsewhere, vars
<1> QED BY <1>1, <1>6, BackgroundIsQuiet

\* The browsers: an approval is started on a challenge of its author, and a 403
\* is heard by whom it was sent to.
LEMMA BrowsersAreQuiet ==
  ASSUME DInv, BInv, NEW u \in Users,
         \/ \E c \in Intents(u) : Submit(u, c)
         \/ SendAgain(u) \/ Reselect(u) \/ GiveUp(u) \/ Abandon(u) \/ Refresh(u)
         \/ HearSuccess(u) \/ HearConflict(u) \/ HearSourceChanged(u) \/ HearRefusal(u)
  PROVE  Quiet
<1>1. UNCHANGED <<role, challenges>>
  BY DEF Submit, SendAgain, Reselect, GiveUp, Abandon, Refresh, HearSuccess, HearConflict, HearSourceChanged,
         HearRefusal, Consumes, database
<1>2. /\ DOMAIN desk = Users /\ DOMAIN answer = Users
      /\ \A v \in Users : answer[v] # None => desk[v].phase = "waiting"
  BY DEF DInv, BInv, Typed, Screens, AnswerSound
<1>3. \E d : desk' = [desk EXCEPT ![u] = d]
  BY DEF Submit, SendAgain, Reselect, GiveUp, Abandon, Refresh, HearSuccess, HearConflict, HearSourceChanged,
         HearRefusal
<1>4. answer' = [answer EXCEPT ![u] = None] \/ (answer' = answer /\ desk[u].phase # "waiting")
  BY DEF Submit, SendAgain, Reselect, GiveUp, Abandon, Refresh, HearSuccess, HearConflict, HearSourceChanged,
         HearRefusal, Consumes, At
<1>5. NoneIsForbidden
  BY <1>2, <1>3, <1>4 DEF NoneIsForbidden
<1>6. ApprovalsAreOwn
  <2>1. ASSUME NEW c \in Intents(u), Submit(u, c)
        PROVE  ApprovalsAreOwn
    <3>1. command' = Append(command, c) /\ Len(command) \in Nat /\ DOMAIN command = 1 .. Len(command)
      BY <2>1 DEF Submit, DInv, Typed, Commands
    <3>2. c.kind = "approve" => c.about \in DOMAIN challenges /\ challenges[c.about].by = u /\ c.by = u
      BY IntentsAreSound DEF Intents, DInv, Sound
    <3>3. /\ \A o \in DOMAIN command : o \in DOMAIN command' /\ command'[o] = command[o]
          /\ \A o \in DOMAIN command' : o \in DOMAIN command \/ command'[o] = c
      BY <3>1, AppendingAny
    <3> QED BY <3>2, <3>3 DEF ApprovalsAreOwn, CommandsExtend
  <2>2. ASSUME UNCHANGED command PROVE ApprovalsAreOwn
    BY <2>2 DEF ApprovalsAreOwn, CommandsExtend
  <2> QED BY <2>1, <2>2 DEF SendAgain, Reselect, GiveUp, Abandon, Refresh, HearSuccess, HearConflict,
                            HearSourceChanged, HearRefusal, Consumes
<1>7. NothingForbiddenIsHeard
  <2>1. CASE HearRefusal(u)
    <3>1. answer[u] # None /\ \A h \in heard' : h \in heard \/
            (h.op = desk[u].op /\ h.what = IF answer[u].code = "forbidden" THEN "forbidden" ELSE "refused")
      BY <2>1 DEF HearRefusal, Heard
    <3> QED BY <3>1 DEF NothingForbiddenIsHeard
  <2>2. CASE ~HearRefusal(u)
    <3>1. \A h \in heard' : h \in heard \/ h.what \in {"done", "refused"}
      BY <2>2 DEF Submit, SendAgain, Reselect, GiveUp, Abandon, Refresh, HearSuccess, HearConflict,
                  HearSourceChanged, Heard
    <3> QED BY <3>1 DEF NothingForbiddenIsHeard
  <2> QED BY <2>1, <2>2
<1> QED BY <1>1, <1>5, <1>6, <1>7 DEF Quiet, RolesStay, ChallengersStay

LEMMA NextQuiet ==
  ASSUME Steady, DInv, BInv, CInv, [Next]_vars
  PROVE  CInv'
<1>1. DInv'
  BY NextInv
<1>2. CASE "approve" \in Kinds
  <2>1. ASSUME NEW m \in post, Apply(m) \/ Replay(m) \/ Refuse(m) PROVE Quiet
    BY <1>2, <2>1, ServersAreQuiet
  <2>2. Quiet
    BY <2>1, ChallengersAreQuiet, BrowsersAreQuiet DEF Next, Decisions
  <2> QED BY <1>1, <1>2, <2>2, QuietKeeps
<1>3. CASE "approve" \notin Kinds
  BY <1>3 DEF CInv
<1> QED BY <1>2, <1>3

\* Where nobody is demoted or removed while proposals are approved, whatever a
\* browser was told is true.  (Without the hypothesis a 403 may be about an
\* approval that was carried out.)
THEOREM AnswersStayTrue == ASSUME Steady PROVE Spec => []AnswersAreTrue
<1>1. Init => CInv
  <2> SUFFICES ASSUME Init PROVE CInv
    OBVIOUS
  <2>1. challenges = <<>> /\ command = <<>> /\ answer = [u \in Users |-> None] /\ heard = {}
    BY DEF Init
  <2>2. DOMAIN challenges = {} /\ DOMAIN command = {}
    BY <2>1
  <2> QED BY <2>1, <2>2 DEF CInv
<1>2. DInv /\ BInv /\ CInv /\ [Next]_vars => CInv'
  BY NextQuiet
<1>3. DInv /\ BInv /\ CInv => AnswersAreTrue
  <2> SUFFICES ASSUME DInv, BInv, CInv PROVE AnswersAreTrue
    OBVIOUS
  <2>1. ASSUME NEW h \in heard, h.what # "done"
        PROVE  Closed(h.op)
    <3>1. HeardSound(h)
      BY DEF BInv
    <3>2. command[h.op].kind = "approve" => "approve" \in Kinds
      BY <3>1 DEF HeardSound, DInv, Typed, Commands, Sound
    <3> QED BY <2>1, <3>1, <3>2 DEF HeardSound, CInv
  <2> QED BY <2>1 DEF AnswersAreTrue, DInv, BInv, Story, EntriesOnce, HeardSound, Carried, Closed, Entry
<1> QED BY <1>1, <1>2, <1>3, CommandsInductive, PTL DEF Spec
=============================================================================
