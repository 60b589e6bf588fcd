--------------------------- MODULE CardLifecycle ---------------------------
(***************************************************************************)
(* What a reader of a card is promised by all its writers together: the    *)
(* card moves one transition at a time, each transition leaves its event,  *)
(* and no transition starts at a final status.                             *)
(***************************************************************************)
EXTENDS CardOperationStatus, Sequences

VARIABLES card,    \* the card's status
          trail    \* its events, in the order they were written

vars == <<card, trail>>

Init == card \in CardStatuses /\ trail = <<>>

Move(s) == /\ card \notin TerminalCard
           /\ s # card
           /\ card' = s
           /\ trail' = Append(trail, [from |-> card, to |-> s])

Next == \E s \in CardStatuses : Move(s)

Spec == Init /\ [][Next]_vars
=============================================================================
