------------------------- MODULE CardDepositStatus -------------------------
(***************************************************************************)
(* The statuses of a card deposit and the sets the code derives from them. *)
(* "NONE" stands for a row that has not been inserted.                     *)
(***************************************************************************)

Terminal == {"SETTLED", "REFUNDED", "REJECTED"}

Unsent == {"DRAFT", "SUBMISSION_FAILED"}

Statuses == Terminal \cup Unsent \cup {"SUBMITTED", "FAILED", "REFUND_PENDING"}

\* Mutant: a failure is taken for final, so a refund is never looked for.
OutstandingUnlessFailed == Statuses \ (Terminal \cup Unsent \cup {"FAILED"})

\* Derived in the code by filtering, so that a new member is polled by default.
Outstanding == Statuses \ (Terminal \cup Unsent)

\* What a settlement lookup can find: the range of STATUS_BY_OUTCOME.
Outcomes == {"SETTLED", "FAILED", "REFUND_PENDING", "REFUNDED"}

(***************************************************************************)
(* The lifecycle the comments of the enum describe, closed under           *)
(* transitivity: a poll may miss an intermediate state of the issuer.      *)
(***************************************************************************)
Follows(s) ==
  {t \in Statuses :
     \/ s = "NONE"
     \/ s = "DRAFT"          /\ t # "DRAFT"
     \/ s = "SUBMITTED"      /\ t \in Outcomes
     \/ s = "FAILED"         /\ t \in {"REFUND_PENDING", "REFUNDED"}
     \/ s = "REFUND_PENDING" /\ t = "REFUNDED"}

\* s is t, or t lies further along the lifecycle.
Reaches(s, t) == s = t \/ t \in Follows(s)
=============================================================================
