------------------------- MODULE CardDepositLedger -------------------------
(***************************************************************************)
(* What the deposit component promises a partner: a deposit only ever      *)
(* advances along its lifecycle, and the partner is told of a status at    *)
(* most once and never of one the deposit has not reached.                 *)
(***************************************************************************)
EXTENDS CardDepositStatus

CONSTANT Deposits

VARIABLES status,   \* status[d]: the status a reader of the deposit sees
          told      \* told[d]: the statuses the partner has been notified of

vars == <<status, told>>

Init == /\ status = [d \in Deposits |-> "NONE"]
        /\ told = [d \in Deposits |-> {}]

\* The deposit is recorded before anything is asked of the issuer.
Create(d) == /\ status[d] = "NONE"
             /\ status' = [status EXCEPT ![d] = "DRAFT"]
             /\ UNCHANGED told

\* The request settles what became of its own call to the issuer.
Submit(d) == /\ status[d] = "DRAFT"
             /\ \E s \in {"SUBMITTED", "SUBMISSION_FAILED", "REJECTED"} :
                  status' = [status EXCEPT ![d] = s]
             /\ UNCHANGED told

\* An accepted deposit advances to something the issuer reported.
Advance(d) == /\ status[d] \in Outstanding
              /\ \E s \in Follows(status[d]) : status' = [status EXCEPT ![d] = s]
              /\ UNCHANGED told

Tell(d) == /\ \E s \in Outcomes \ told[d] :
                /\ Reaches(s, status[d])
                /\ told' = [told EXCEPT ![d] = @ \cup {s}]
           /\ UNCHANGED status

Next == \E d \in Deposits : Create(d) \/ Submit(d) \/ Advance(d) \/ Tell(d)

Spec == Init /\ [][Next]_vars
=============================================================================
