-------------------------- MODULE DocumentPromise --------------------------
(***************************************************************************)
(* What the intake promises about one received document, with no job,      *)
(* lease, worker or clock in sight: it is validated at most once, it is    *)
(* readable only after it was accepted, every verdict is final, and a      *)
(* document whose custody the user withdrew stays withdrawn.               *)
(***************************************************************************)
CONSTANTS Docs,         \* the documents
          Withdrawable  \* those whose custody the user can withdraw

VARIABLES stage,    \* where the document stands
          verdict,  \* the recorded validation verdict
          text      \* whether extracted text is recorded

vars == <<stage, verdict, text>>

StageNames == {"receiving", "held", "accepted", "refused", "readable",
               "unreadable", "withdrawn"}

TypeOK == /\ stage \in [Docs -> StageNames]
          /\ verdict \in [Docs -> {"NONE", "ACCEPTED", "REJECTED"}]
          /\ text \in [Docs -> BOOLEAN]

Init == /\ stage = [d \in Docs |-> "receiving"]
        /\ verdict = [d \in Docs |-> "NONE"]
        /\ text = [d \in Docs |-> FALSE]

Move(d, from, to) == stage[d] = from /\ stage' = [stage EXCEPT ![d] = to]

TakeCustody(d) == Move(d, "receiving", "held") /\ UNCHANGED <<verdict, text>>

Accept(d) == /\ Move(d, "held", "accepted")
             /\ verdict' = [verdict EXCEPT ![d] = "ACCEPTED"]
             /\ UNCHANGED text

\* Refused by the validator, or given up with no verdict at all.
Refuse(d) == /\ Move(d, "held", "refused")
             /\ \E v \in {"NONE", "REJECTED"} : verdict' = [verdict EXCEPT ![d] = v]
             /\ UNCHANGED text

Publish(d) == /\ Move(d, "accepted", "readable")
              /\ text' = [text EXCEPT ![d] = TRUE]
              /\ UNCHANGED verdict

Withhold(d) == Move(d, "accepted", "unreadable") /\ UNCHANGED <<verdict, text>>

Withdraw(d) == /\ d \in Withdrawable /\ stage[d] # "withdrawn"
               /\ stage' = [stage EXCEPT ![d] = "withdrawn"]
               /\ UNCHANGED <<verdict, text>>

Decide(d) == Accept(d) \/ Refuse(d)
Finish(d) == Publish(d) \/ Withhold(d)

Next == \E d \in Docs : TakeCustody(d) \/ Decide(d) \/ Finish(d) \/ Withdraw(d)

Spec == Init /\ [][Next]_vars

\* A document in custody is decided, and an accepted one is finished with.
FairSpec == Spec /\ \A d \in Docs : WF_vars(Decide(d)) /\ WF_vars(Finish(d))
=============================================================================
