---------------------------- MODULE RotatingSweep ----------------------------
(***************************************************************************)
(* The rotation every bounded pass over card rows shares: a timer starts a *)
(* pass, unless one is in flight; the pass takes a batch of the waiting    *)
(* rows, least recently checked first, stamps status_checked_at on all of  *)
(* it, and then asks the issuer about one row after the other, one row's   *)
(* failure never aborting the pass.                                        *)
(*                                                                         *)
(* The deposit, operation, application and balance passes take the rotation*)
(* as it is. The status pass (reconcile-not-activated-cards) takes cards   *)
(* with an activation outstanding first: those are the Favoured rows. It   *)
(* asks by a card's application, which it loads once the batch is stamped; *)
(* the Bare rows are the cards that have none. In the other passes no row  *)
(* is Favoured or Bare, and LoadApplications is the step to their loop.    *)
(***************************************************************************)
EXTENDS Integers, FiniteSets

CONSTANTS
  Rows,          \* ids of the rows, ordered as the database orders them
  Favoured,      \* the rows that may have an activation outstanding
  Bare,          \* the rows without an application to ask by
  Batch,         \* batchSize()
  Passes,        \* runs of the pass one process may have going at a time
  NoRow,         \* what a pass asks about that asks about nothing
  MaxCrashes,    \* bound: restarts of the process
  MaxNudges      \* bound: callbacks that look a row up

ASSUME RowsAssumption == Rows \subseteq Int /\ IsFiniteSet(Rows) /\ NoRow \notin Rows
ASSUME FavouredAssumption == Favoured \subseteq Rows
ASSUME BareAssumption == Bare \subseteq Rows
ASSUME BatchAssumption == Batch \in Nat \ {0}
ASSUME BoundsAssumption == MaxCrashes \in Nat /\ MaxNudges \in Nat

VARIABLES
  waiting,   \* the rows the pass selects from
  urgent,    \* the rows with activation_status PENDING, waiting or not
  later,     \* later[r]: the rows whose status_checked_at is later than r's
  inFlight,  \* the flag of the sweep service
  at,        \* at[p]: how far pass p has got
  batch,     \* batch[p]: the rows p has still to ask about
  asking,    \* asking[p]: the row p asks the issuer about
  overtaken, \* overtaken[s]: the rows passes took while s waited, since s came or was stamped
  crashes, nudges

rowVars == <<waiting, urgent>>
passVars == <<at, batch, asking>>
stampVars == <<later, overtaken>>
countVars == <<crashes, nudges>>
vars == <<rowVars, stampVars, inFlight, passVars, countVars>>

PassStates == {"idle", "picking", "favoured", "taken", "stamped", "examining", "asking"}

(***************************************************************************)
(* later is the order of the stamps and nothing else of them: a row that   *)
(* was never checked has no stamp, and the stamp of every checked row is   *)
(* later than that. No two UPDATEs write the same instant.                 *)
(***************************************************************************)
Init ==
  /\ waiting \in SUBSET Rows
  /\ urgent = {}
  /\ later = [r \in Rows |-> {}]
  /\ inFlight = FALSE
  /\ at = [p \in Passes |-> "idle"]
  /\ batch = [p \in Passes |-> {}]
  /\ asking = [p \in Passes |-> NoRow]
  /\ overtaken = [r \in Rows |-> {}]
  /\ crashes = 0 /\ nudges = 0

-----------------------------------------------------------------------------
\* ORDER BY status_checked_at ASC, id ASC, nulls first.
Before(r, s) == s \in later[r] \/ (r \notin later[s] /\ r < s)

\* The first n rows of S in the order of the query.
First(S, n) == {r \in S : Cardinality({s \in S : Before(s, r)}) < n}

\* stampCheckedAt over the rows of B: none of them is checked later than
\* another, and every other row was checked earlier.
Stamped(B) == [r \in Rows |-> IF r \in B THEN {} ELSE later[r] \cup B]

\* Mutant: no guard.
MayStartAnyway == TRUE

\* A pass already going makes the tick return.
MayStart == ~inFlight

\* Passes have no names: the next one is whichever is free.
Free == CHOOSE p \in Passes : at[p] = "idle"

Tick(p) ==
  /\ at[p] = "idle" /\ p = Free /\ MayStart
  /\ inFlight' = TRUE
  /\ at' = [at EXCEPT ![p] = "picking"]
  /\ UNCHANGED <<rowVars, stampVars, batch, asking, countVars>>

\* The first query of the status pass: activations outstanding, at most Batch.
TakeFavoured(p) ==
  /\ at[p] = "picking"
  /\ batch' = [batch EXCEPT ![p] = First(waiting \cap urgent, Batch)]
  /\ at' = [at EXCEPT ![p] = "favoured"]
  /\ UNCHANGED <<rowVars, stampVars, inFlight, asking, countVars>>

\* The second query, less the rows taken already, up to the batch size.
Rest(p) == First(First(waiting, Batch) \ batch[p], Batch - Cardinality(batch[p]))

TakeRest(p) ==
  /\ at[p] = "favoured"
  /\ batch' = [batch EXCEPT ![p] = @ \cup Rest(p)]
  /\ at' = [at EXCEPT ![p] = "taken"]
  /\ UNCHANGED <<rowVars, stampVars, inFlight, asking, countVars>>

\* Nothing was taken, or every row of the batch was examined.
Finish(p) ==
  /\ at[p] \in {"taken", "examining"} /\ batch[p] = {}
  /\ at' = [at EXCEPT ![p] = "idle"]
  /\ inFlight' = FALSE
  /\ UNCHANGED <<rowVars, stampVars, batch, asking, countVars>>

\* A query of the pass, or its stamp, fails: the sweep service catches it. A
\* batch that is stamped by then has lost its turn.
GiveUp(p) ==
  /\ at[p] \in {"picking", "favoured", "stamped"} \/ (at[p] = "taken" /\ batch[p] # {})
  /\ at' = [at EXCEPT ![p] = "idle"]
  /\ batch' = [batch EXCEPT ![p] = {}]
  /\ inFlight' = FALSE
  /\ UNCHANGED <<rowVars, stampVars, asking, countVars>>

\* The whole batch in one statement, before any row is examined.
Stamp(p) ==
  /\ at[p] = "taken" /\ batch[p] # {}
  /\ later' = Stamped(batch[p])
  /\ overtaken' = [s \in Rows |-> IF s \in batch[p] THEN {}
                                  ELSE IF s \in waiting THEN overtaken[s] \cup batch[p]
                                  ELSE overtaken[s]]
  /\ at' = [at EXCEPT ![p] = "stamped"]
  /\ UNCHANGED <<rowVars, inFlight, batch, asking, countVars>>

\* The third query of the status pass: what it needs to ask by.
LoadApplications(p) ==
  /\ at[p] = "stamped"
  /\ at' = [at EXCEPT ![p] = "examining"]
  /\ UNCHANGED <<rowVars, stampVars, inFlight, batch, asking, countVars>>

\* A row there is nothing to ask by is passed over, stamp and all.
Examine(p) ==
  /\ at[p] = "examining"
  /\ \E r \in batch[p] :
       /\ batch' = [batch EXCEPT ![p] = @ \ {r}]
       /\ IF r \in Bare
            THEN UNCHANGED <<at, asking>>
            ELSE /\ at' = [at EXCEPT ![p] = "asking"]
                 /\ asking' = [asking EXCEPT ![p] = r]
  /\ UNCHANGED <<rowVars, stampVars, inFlight, countVars>>

\* Mutant: one row's failure aborts the pass.
NothingLeft(p) == {}

\* What of the batch is left when asking about a row threw: all of it.
LeftAfterThrow(p) == batch[p]

\* A card may leave NOT_ACTIVATED with its activation outstanding.
LeavesTheSet(r) ==
  /\ waiting' = waiting \ {r}
  /\ urgent' \in {urgent, urgent \ {r}}

\* The row keeps its stamp whether it settled, stayed or could not be asked.
Answered(p) ==
  /\ at[p] = "asking"
  /\ \/ LeavesTheSet(asking[p]) /\ UNCHANGED batch
     \/ UNCHANGED <<rowVars, batch>>
     \/ batch' = [batch EXCEPT ![p] = LeftAfterThrow(p)] /\ UNCHANGED rowVars
  /\ at' = [at EXCEPT ![p] = "examining"]
  /\ asking' = [asking EXCEPT ![p] = NoRow]
  /\ UNCHANGED <<stampVars, inFlight, countVars>>

-----------------------------------------------------------------------------
\* A row is inserted, or comes back to the set: either way with the stamp it has.
Arrive(r) ==
  /\ r \notin waiting
  /\ waiting' = waiting \cup {r}
  /\ overtaken' = [overtaken EXCEPT ![r] = {}]
  /\ UNCHANGED <<urgent, later, inFlight, passVars, countVars>>

\* Somebody else, a callback or the partner, moves a row out of the set.
Depart(r) ==
  /\ r \in waiting
  /\ LeavesTheSet(r)
  /\ UNCHANGED <<stampVars, inFlight, passVars, countVars>>

\* A callback names a row: it is stamped as a pass would, then looked up.
Nudge(r) ==
  /\ r \in waiting /\ nudges < MaxNudges
  /\ nudges' = nudges + 1
  /\ later' = Stamped({r})
  /\ overtaken' = [overtaken EXCEPT ![r] = {}]
  /\ UNCHANGED <<rowVars, inFlight, passVars, crashes>>

\* The partner asks for an activation, which stays outstanding, or it failed.
Activate(r) ==
  /\ r \in Favoured
  /\ \/ r \in waiting /\ urgent' = urgent \cup {r}
     \/ urgent' = urgent \ {r}
  /\ UNCHANGED <<waiting, stampVars, inFlight, passVars, countVars>>

\* The process restarts: its passes and its flag are gone.
Crash ==
  /\ crashes < MaxCrashes
  /\ crashes' = crashes + 1
  /\ at' = [p \in Passes |-> "idle"]
  /\ batch' = [p \in Passes |-> {}]
  /\ asking' = [p \in Passes |-> NoRow]
  /\ inFlight' = FALSE
  /\ UNCHANGED <<rowVars, stampVars, nudges>>

Next ==
  \/ \E p \in Passes : Tick(p) \/ TakeFavoured(p) \/ TakeRest(p) \/ Stamp(p)
                         \/ LoadApplications(p) \/ Examine(p) \/ Answered(p) \/ Finish(p) \/ GiveUp(p)
  \/ \E r \in Rows : Arrive(r) \/ Depart(r) \/ Nudge(r) \/ Activate(r)
  \/ Crash

Spec == Init /\ [][Next]_vars

(***************************************************************************)
(* The timer ticks for ever and no issuer call outlasts its timeout, so a  *)
(* pass never stands still; queries and stamps are assumed not to fail     *)
(* every time. The query after the stamp costs a batch its turn, so of that*)
(* it is assumed that it does not fail every time the same row is in the   *)
(* batch. Nothing is assumed of the callbacks, of the issuer's answers or  *)
(* of the order of a batch.                                                *)
(***************************************************************************)
FairSpec ==
  /\ Spec
  /\ WF_vars(\E p \in Passes : Tick(p))
  /\ WF_vars(\E p \in Passes : LoadApplications(p) \/ Examine(p) \/ Answered(p) \/ Finish(p))
  /\ SF_vars(\E p \in Passes : TakeFavoured(p))
  /\ SF_vars(\E p \in Passes : TakeRest(p))
  /\ SF_vars(\E p \in Passes : Stamp(p))
  /\ \A r \in Rows \ Bare : SF_vars(\E p \in Passes : LoadApplications(p) /\ r \in batch[p])

-----------------------------------------------------------------------------
TypeOK ==
  /\ waiting \in SUBSET Rows /\ urgent \in SUBSET Favoured
  /\ later \in [Rows -> SUBSET Rows] /\ overtaken \in [Rows -> SUBSET Rows]
  /\ inFlight \in BOOLEAN
  /\ at \in [Passes -> PassStates]
  /\ batch \in [Passes -> SUBSET Rows] /\ asking \in [Passes -> Rows \cup {NoRow}]
  /\ \A p \in Passes : asking[p] = NoRow <=> at[p] # "asking"
  /\ crashes \in 0..MaxCrashes /\ nudges \in 0..MaxNudges

\* No pass takes a row a second time while another one it passed over the
\* first time waits: a row that cannot be resolved lets the rest of the queue
\* have its turn before it is asked about again, whatever callbacks stamp,
\* rows come and go, and restarts lose in between.
NoOvertaking ==
  \A p \in Passes : at[p] = "taken" =>
    \A r \in batch[p] \ Favoured, s \in waiting \ batch[p] : r \notin overtaken[s]

\* A pass never asks about more rows than its batch, the favoured rows
\* included, although they come from two queries with the table moving between.
BatchIsBounded == \A p \in Passes : Cardinality(batch[p]) <= Batch

\* Activations outstanding fill the batch.
Crowded == Cardinality(waiting \cap urgent) >= Batch

\* Every row that can be asked about is asked about again and again for as long
\* as it waits, although rows ahead of it may never be resolved, have nothing to
\* ask by or throw, and a batch may be lost after its stamp. The one thing that
\* keeps a row out is a batch full of activations outstanding, none of them its.
EveryRowAsked ==
  \A r \in Rows \ Bare :
    []<>(\/ r \notin waiting
         \/ \E p \in Passes : asking[p] = r
         \/ r \notin urgent /\ Crowded)

-----------------------------------------------------------------------------
\* The order of the stamps is a weak order.
StampsOrdered ==
  /\ \A r, s \in Rows : s \in later[r] => r \notin later[s]
  /\ \A r, s, t \in Rows : s \in later[r] => (t \in later[r] \/ s \in later[t])

\* A row that overtook another was stamped later.
OvertakenIsEarlier == \A s \in Rows : overtaken[s] \subseteq later[s]

\* The flag is up for the one pass under way.
FlagIsUp == \A p \in Passes : at[p] # "idle" =>
  inFlight /\ \A q \in Passes \ {p} : at[q] = "idle"

\* The first query takes favoured rows only.
FavouredFirst == \A p \in Passes : at[p] = "favoured" => batch[p] \subseteq Favoured

\* The inductive invariant: what NoOvertaking rests on.
IInv ==
  /\ TypeOK /\ StampsOrdered /\ OvertakenIsEarlier /\ FlagIsUp /\ FavouredFirst
  /\ NoOvertaking /\ BatchIsBounded
=============================================================================
