------------------------ MODULE CardOperationStatus ------------------------
(***************************************************************************)
(* The statuses of a lifecycle operation and the sets the code derives     *)
(* from them, and those of the card it acts on. "NONE" stands for a row    *)
(* that has not been inserted.                                             *)
(***************************************************************************)

Terminal == {"APPLIED", "FAILED", "REJECTED"}

Unsent == {"DRAFT", "SUBMISSION_FAILED"}

Statuses == Terminal \cup Unsent \cup {"SUBMITTED"}

\* Derived by filtering, so that a new member is polled by default.
Outstanding == Statuses \ (Terminal \cup Unsent)

\* The statuses in which a card takes no other operation: the expression of the
\* generated column under uq_card_operation_in_flight.
InFlight == Statuses \ (Terminal \cup {"SUBMISSION_FAILED"})

CardStatuses == {"NOT_ACTIVATED", "ACTIVE", "ON_HOLD", "CLOSED"}

\* The statuses nothing moves a card out of.
TerminalCard == {"CLOSED"}

\* The statuses a card is operated on from, and an outcome may move it out of.
Operable == {"ACTIVE", "ON_HOLD"}
=============================================================================
