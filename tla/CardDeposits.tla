---------------------------- MODULE CardDeposits ----------------------------
(***************************************************************************)
(* A deposit onto a card: the partner's request (request-card-deposit),    *)
(* the issuer behind an HTTP call that may time out, and the observers     *)
(* that ask what became of it (resolve-card-deposits), which are the       *)
(* timer's sweep and any number of callbacks naming the same deposit.      *)
(*                                                                         *)
(* Each await is a step boundary: what is read before one is used after it.*)
(***************************************************************************)
EXTENDS CardDepositStatus

CONSTANTS
  Calls,         \* calls of execute; the row a call inserts is named after it
  RequestIds,    \* the partner's idempotency keys
  RequestIdOf,   \* RequestIdOf[c]: the key call c carries
  Observers,     \* concurrent runs of observeOne
  Sweeps,        \* the observers that are the timer's sweep, not a callback
  Reasons,       \* failure texts the issuer may give
  AnswerIds,     \* what a lookup may report as provider_deposit_id
  NoCall         \* what an idle observer examines

\* A provider_deposit_id: unreported, the deposit's own, or another deposit's.
Ids == {"none", "own", "foreign"}

LocalReasons == {"none", "SUBMISSION_ERROR", "REFUSED"}

ASSUME RequestsAssumption == RequestIdOf \in [Calls -> RequestIds]
ASSUME AnswersAssumption == AnswerIds \subseteq Ids
ASSUME SweepsAssumption == Sweeps \subseteq Observers
ASSUME NoCallAssumption == NoCall \notin Calls

VARIABLES
  card,     \* status of the card every call is made on
  opened,   \* the card has had another status than NOT_ACTIVATED
  row,      \* row[c]: the card_deposit row of call c
  caller,   \* caller[c]: how far call c has got
  wire,     \* wire[c]: the HTTP exchange of call c
  issuer,   \* issuer[c]: what the issuer holds under the reference of c
  why,      \* why[c]: the reason the issuer would give while it says FAILED
  at,       \* at[o]: how far observer o has got
  dep,      \* dep[o]: the deposit o examines
  seen,     \* seen[o]: the row as o loaded it
  heard,    \* heard[o]: the issuer's answer to o
  told      \* told[c]: the statuses of c the partner was notified of

requestVars == <<card, opened, row, caller, wire>>
issuerVars == <<issuer, why>>
observerVars == <<at, dep, seen, heard>>
vars == <<requestVars, issuerVars, observerVars, told>>

CardStatuses == {"NOT_ACTIVATED", "ACTIVE", "ON_HOLD", "CLOSED"}

Rows == [status : Statuses \cup {"NONE"}, id : Ids,
         reason : LocalReasons \cup Reasons, credited : BOOLEAN]

\* A row as the request holds it in memory, and saves it.
NewRow(status, id, reason) ==
  [status |-> status, id |-> id, reason |-> reason, credited |-> FALSE]

NoRow == NewRow("NONE", "none", "none")

IssuerStates == {"NONE", "PENDING"} \cup Outcomes

\* The row status an issuer state amounts to: STATUS_BY_OUTCOME, and SUBMITTED
\* for a deposit that is held and has no outcome.
StatusOf(state) == IF state \in Outcomes THEN state
                   ELSE IF state = "PENDING" THEN "SUBMITTED" ELSE "NONE"

Answers == [state : Outcomes \cup {"NONE"}, id : Ids,
            reason : {"none"} \cup Reasons, credited : BOOLEAN]

NoAnswer == [state |-> "NONE", id |-> "none", reason |-> "none", credited |-> FALSE]

(***************************************************************************)
(* What a lookup of deposit c can answer once it carries an outcome. A     *)
(* reason comes with a failure, and a credited amount is kept only from a  *)
(* settlement in the card's own currency.                                  *)
(***************************************************************************)
AnswersAbout(c) ==
  {a \in Answers : /\ a.state = issuer[c] /\ issuer[c] \in Outcomes
                   /\ a.id \in AnswerIds
                   /\ a.reason = IF issuer[c] = "FAILED" THEN why[c] ELSE "none"
                   /\ a.credited => issuer[c] = "SETTLED"}

Init ==
  /\ card \in CardStatuses
  /\ opened = (card # "NOT_ACTIVATED")
  /\ row = [c \in Calls |-> NoRow]
  /\ caller = [c \in Calls |-> "start"]
  /\ wire = [c \in Calls |-> "none"]
  /\ issuer = [c \in Calls |-> "NONE"]
  /\ why = [c \in Calls |-> "none"]
  /\ at = [o \in Observers |-> "idle"]
  /\ dep = [o \in Observers |-> NoCall]
  /\ seen = [o \in Observers |-> NoRow]
  /\ heard = [o \in Observers |-> NoAnswer]
  /\ told = [c \in Calls |-> {}]

-----------------------------------------------------------------------------
(* The request. *)

MayDeposit(status) == status = "ACTIVE"

\* The card's status is read once, before the awaits that follow.
Admit(c) ==
  /\ caller[c] = "start"
  /\ caller' = [caller EXCEPT ![c] = IF MayDeposit(card) THEN "admitted" ELSE "done"]
  /\ UNCHANGED <<card, opened, row, wire, issuerVars, observerVars, told>>

\* Mutant: a failed submission frees its key for a retry.
KeyTakenUnlessFailed(c) ==
  \E d \in Calls : /\ row[d].status \notin {"NONE", "SUBMISSION_FAILED"}
                  /\ RequestIdOf[d] = RequestIdOf[c]

\* uq_card_deposit_provider_request: another row already carries the key.
KeyTaken(c) == \E d \in Calls : row[d].status # "NONE" /\ RequestIdOf[d] = RequestIdOf[c]

WriteDraft(c) ==
  /\ caller[c] = "admitted"
  /\ IF KeyTaken(c)
       THEN /\ caller' = [caller EXCEPT ![c] = "done"]
            /\ UNCHANGED row
       ELSE /\ caller' = [caller EXCEPT ![c] = "drafted"]
            /\ row' = [row EXCEPT ![c] = NewRow("DRAFT", "none", "none")]
  /\ UNCHANGED <<card, opened, wire, issuerVars, observerVars, told>>

Send(c) ==
  /\ caller[c] = "drafted"
  /\ caller' = [caller EXCEPT ![c] = "calling"]
  /\ wire' = [wire EXCEPT ![c] = "request"]
  /\ UNCHANGED <<card, opened, row, issuerVars, observerVars, told>>

\* The reply arrives: accepted, refused with a conflict code, or another error.
Receive(c) ==
  /\ caller[c] = "calling"
  /\ wire[c] \in {"accepted", "refused", "failed"}
  /\ caller' = [caller EXCEPT ![c] = wire[c]]
  /\ UNCHANGED <<card, opened, row, wire, issuerVars, observerVars, told>>

\* Mutant: a call that timed out is taken for an acceptance.
TimeOutAsAccepted(c) ==
  /\ caller[c] = "calling"
  /\ caller' = [caller EXCEPT ![c] = "accepted"]
  /\ UNCHANGED <<card, opened, row, wire, issuerVars, observerVars, told>>

\* The transport fails: the request, or its reply, may still be on the wire.
TimeOut(c) ==
  /\ caller[c] = "calling"
  /\ caller' = [caller EXCEPT ![c] = "failed"]
  /\ UNCHANGED <<card, opened, row, wire, issuerVars, observerVars, told>>

MarkSubmitted(c) ==
  /\ caller[c] = "accepted"
  /\ \E id \in AnswerIds \ {"foreign"} :
       row' = [row EXCEPT ![c] = NewRow("SUBMITTED", id, "none")]
  /\ caller' = [caller EXCEPT ![c] = "done"]
  /\ UNCHANGED <<card, opened, wire, issuerVars, observerVars, told>>

\* Composed here, never copied from the provider's message.
LocalReason(c) == IF caller[c] = "refused" THEN "REFUSED" ELSE "SUBMISSION_ERROR"

\* Which failure depends on whether the issuer answered.
FailureStatus(c) == IF caller[c] = "refused" THEN "REJECTED" ELSE "SUBMISSION_FAILED"

RecordFailure(c) ==
  /\ caller[c] \in {"refused", "failed"}
  /\ row' = [row EXCEPT ![c] = NewRow(FailureStatus(c), "none", LocalReason(c))]
  /\ caller' = [caller EXCEPT ![c] = "done"]
  /\ UNCHANGED <<card, opened, wire, issuerVars, observerVars, told>>

\* The process stops, or the save that would follow fails: the row stays DRAFT.
Abandon(c) ==
  /\ caller[c] \notin {"start", "done"}
  /\ caller' = [caller EXCEPT ![c] = "done"]
  /\ UNCHANGED <<card, opened, row, wire, issuerVars, observerVars, told>>

-----------------------------------------------------------------------------
(* The world outside: the card's own life, and the issuer. *)

\* Other use-cases move the card (CardOperations); an announcement that comes
\* late may even return it to NOT_ACTIVATED.
MoveCard ==
  /\ card # "CLOSED"
  /\ card' \in CardStatuses \ {card}
  /\ opened' = TRUE
  /\ UNCHANGED <<row, caller, wire, issuerVars, observerVars, told>>

IssuerAnswersRequest(c) ==
  /\ wire[c] = "request"
  /\ \/ /\ wire' = [wire EXCEPT ![c] = "accepted"]
        /\ issuer' = [issuer EXCEPT ![c] = "PENDING"]
     \/ /\ wire' \in {[wire EXCEPT ![c] = r] : r \in {"refused", "failed"}}
        /\ UNCHANGED issuer
  /\ UNCHANGED <<card, opened, row, caller, why, observerVars, told>>

\* The issuer's own lifecycle is the one its statuses are mapped onto.
IssuerMovesOn(c) ==
  /\ issuer[c] # "NONE"
  /\ \E s \in Follows(StatusOf(issuer[c])) : issuer' = [issuer EXCEPT ![c] = s]
  /\ why' \in {[why EXCEPT ![c] = r] : r \in {"none"} \cup Reasons}
  /\ UNCHANGED <<requestVars, observerVars, told>>

\* The reason of a failure may change while the status does not.
IssuerRewords(c) ==
  /\ issuer[c] = "FAILED"
  /\ \E r \in Reasons \ {why[c]} : why' = [why EXCEPT ![c] = r]
  /\ UNCHANGED <<requestVars, issuer, observerVars, told>>

-----------------------------------------------------------------------------
(* The observers. *)

Load(o, c) ==
  /\ at[o] = "idle"
  /\ row[c].status \in Outstanding
  /\ at' = [at EXCEPT ![o] = "loaded"]
  /\ dep' = [dep EXCEPT ![o] = c]
  /\ seen' = [seen EXCEPT ![o] = row[c]]
  /\ UNCHANGED <<heard, requestVars, issuerVars, told>>

\* The observer turns to its next deposit.
Release(o) ==
  /\ at' = [at EXCEPT ![o] = "idle"]
  /\ dep' = [dep EXCEPT ![o] = NoCall]
  /\ seen' = [seen EXCEPT ![o] = NoRow]
  /\ heard' = [heard EXCEPT ![o] = NoAnswer]

\* The answer names another deposit than the one the loaded row holds.
Misnamed(o, a) == /\ a.id # "none"
                  /\ seen[o].id # "none"
                  /\ a.id # seen[o].id

\* An answer that carries an outcome and is about this deposit.
Ask(o) ==
  /\ at[o] = "loaded"
  /\ \E a \in AnswersAbout(dep[o]) :
       /\ ~Misnamed(o, a)
       /\ heard' = [heard EXCEPT ![o] = a]
  /\ at' = [at EXCEPT ![o] = "answered"]
  /\ UNCHANGED <<dep, seen, requestVars, issuerVars, told>>

(***************************************************************************)
(* The observer gives up on this deposit: the answer carries no outcome    *)
(* (PENDING, UNKNOWN_REFERENCE, a settlement with no readable amount) or   *)
(* is misnamed; a call or a query throws; the notification cannot be       *)
(* enqueued; or the process stops. Nothing is written.                     *)
(***************************************************************************)
GiveUp(o) ==
  /\ at[o] # "idle"
  /\ Release(o)
  /\ UNCHANGED <<requestVars, issuerVars, told>>

\* The row r after the columns recordOutcome writes: a credited amount and an
\* identifier are filled in when they arrive and left alone otherwise.
Recorded(o, r) ==
  [status   |-> heard[o].state,
   reason   |-> heard[o].reason,
   credited |-> r.credited \/ heard[o].credited,
   id       |-> IF seen[o].id = "none" /\ heard[o].id # "none" THEN heard[o].id ELSE r.id]

\* Mutant: the update refuses only a row that is already terminal.
StillOutstanding(o) == row[dep[o]].status \in Outstanding

\* The condition of the update: the status this pass actually read.
StillAsLoaded(o) == row[dep[o]].status = seen[o].status

\* Only a transition is announced.
StatusChanged(o) == heard[o].state # seen[o].status

\* An answer that changes nothing the observer loaded is not written.
Unchanged(o) == Recorded(o, seen[o]) = seen[o]

RecordOutcome(o) ==
  /\ at[o] = "answered"
  /\ ~Unchanged(o)
  /\ StillAsLoaded(o)
  /\ row' = [row EXCEPT ![dep[o]] = Recorded(o, @)]
  /\ IF StatusChanged(o)
       THEN /\ at' = [at EXCEPT ![o] = "announcing"]
            /\ UNCHANGED <<dep, seen, heard>>
       ELSE Release(o)
  /\ UNCHANGED <<card, opened, caller, wire, issuerVars, told>>

\* Nothing new, or the conditional update matched no row.
RecordNothing(o) ==
  /\ at[o] = "answered"
  /\ Unchanged(o) \/ ~StillAsLoaded(o)
  /\ Release(o)
  /\ UNCHANGED <<requestVars, issuerVars, told>>

Announce(o) ==
  /\ at[o] = "announcing"
  /\ told' = [told EXCEPT ![dep[o]] = @ \cup {heard[o].state}]
  /\ Release(o)
  /\ UNCHANGED <<requestVars, issuerVars>>

-----------------------------------------------------------------------------
Request(c) ==
  \/ Admit(c) \/ WriteDraft(c) \/ Send(c) \/ Receive(c) \/ TimeOut(c)
  \/ MarkSubmitted(c) \/ RecordFailure(c) \/ Abandon(c)

Issuer(c) == IssuerAnswersRequest(c) \/ IssuerMovesOn(c) \/ IssuerRewords(c)

Observe(o) ==
  \/ \E c \in Calls : Load(o, c)
  \/ Ask(o) \/ GiveUp(o) \/ RecordOutcome(o) \/ RecordNothing(o) \/ Announce(o)

Next == \/ MoveCard
        \/ \E c \in Calls : Request(c) \/ Issuer(c)
        \/ \E o \in Observers : Observe(o)

Spec == Init /\ [][Next]_vars

(***************************************************************************)
(* The timer reruns the sweep forever and its rotation gives every         *)
(* outstanding deposit a turn (module RotatingSweep), so the sweep o loads *)
(* a deposit again and again; lookups and writes are assumed not to fail   *)
(* for ever. Nothing is assumed of the requests, the issuer or callbacks.  *)
(***************************************************************************)
SweepFairness(o) ==
  /\ \A c \in Calls : SF_vars(Load(o, c))
  /\ SF_vars(Ask(o))
  /\ SF_vars(RecordOutcome(o))
  /\ WF_vars(GiveUp(o) \/ RecordNothing(o) \/ Announce(o))

FairSpec == Spec /\ \A o \in Sweeps : SweepFairness(o)

-----------------------------------------------------------------------------
(* Properties. *)

TypeOK ==
  /\ card \in CardStatuses /\ opened \in BOOLEAN
  /\ row \in [Calls -> Rows]
  /\ caller \in [Calls -> {"start", "admitted", "drafted", "calling",
                           "accepted", "refused", "failed", "done"}]
  /\ wire \in [Calls -> {"none", "request", "accepted", "refused", "failed"}]
  /\ issuer \in [Calls -> IssuerStates]
  /\ why \in [Calls -> {"none"} \cup Reasons]
  /\ at \in [Observers -> {"idle", "loaded", "answered", "announcing"}]
  /\ dep \in [Observers -> Calls \cup {NoCall}]
  /\ seen \in [Observers -> Rows]
  /\ heard \in [Observers -> Answers]
  /\ told \in [Calls -> SUBSET Outcomes]

(***************************************************************************)
(* However a partner's retries interleave, the issuer is asked for money   *)
(* at most once under one idempotency key (the unique constraint, and the  *)
(* order draft-then-call, of request-card-deposit).                        *)
(***************************************************************************)
OneRequestPerKey ==
  \A c, d \in Calls :
    wire[c] # "none" /\ wire[d] # "none" /\ RequestIdOf[c] = RequestIdOf[d] => c = d

(***************************************************************************)
(* The check of the card's status is stale by the time the call is made,   *)
(* and yet no deposit is on the wire for a card that was never opened,     *)
(* which an issuer would take as its opening deposit.                      *)
(***************************************************************************)
NoDepositOpensACard == \A c \in Calls : wire[c] # "none" => opened

(***************************************************************************)
(* Whatever the sweep and the callbacks read and however late they write,  *)
(* no write takes a deposit back along its lifecycle or out of a terminal  *)
(* status (the conditional update of recordOutcome against the save of     *)
(* markSubmitted and recordFailure).                                       *)
(***************************************************************************)
NeverWalksBack == [][\A c \in Calls : Reaches(row[c].status, row'[c].status)]_vars

(***************************************************************************)
(* A row that records an outcome does not run ahead of the issuer, which   *)
(* has reported that outcome or moved past it, even when several observers *)
(* hold answers of different age.                                          *)
(***************************************************************************)
BackedByIssuer ==
  \A c \in Calls : row[c].status \in Outstanding \cup Outcomes =>
    Reaches(row[c].status, StatusOf(issuer[c]))

(***************************************************************************)
(* An observer about to notify the partner holds a status the partner was  *)
(* not told of, and no other observer is about to tell it: each transition *)
(* is announced at most once across the sweep and the callbacks.           *)
(***************************************************************************)
AnnouncedOnce ==
  \A o, p \in Observers :
    at[o] = "announcing" =>
      /\ heard[o].state \notin told[dep[o]]
      /\ (at[p] = "announcing" /\ dep[p] = dep[o] /\ heard[p].state = heard[o].state)
           => p = o

(***************************************************************************)
(* The strengthening the proofs rest on. Where the request of a call has   *)
(* got to decides what its row and the wire can hold.                      *)
(***************************************************************************)
RequestInv ==
  \A c \in Calls :
    /\ caller[c] \in {"start", "admitted"} => row[c].status = "NONE"
    /\ caller[c] \in {"drafted", "calling", "accepted", "refused", "failed"}
         => row[c].status = "DRAFT"
    /\ caller[c] \in {"start", "admitted", "drafted"} => wire[c] = "none"
    /\ wire[c] # "none" => row[c].status # "NONE"
    /\ caller[c] = "accepted" => wire[c] = "accepted"
    /\ wire[c] = "accepted" <=> issuer[c] # "NONE"
    /\ caller[c] \notin {"start", "done"} \/ row[c].status # "NONE"
         => opened
    /\ opened \/ card = "NOT_ACTIVATED"

OneRowPerKey ==
  \A c, d \in Calls :
    /\ row[c].status # "NONE" /\ row[d].status # "NONE"
    /\ RequestIdOf[c] = RequestIdOf[d]
    => c = d

\* What an observer holds is never ahead of what it was taken from.
ObserverInv ==
  \A o \in Observers : at[o] # "idle" =>
    /\ dep[o] \in Calls
    /\ seen[o].status \in Outstanding
    /\ Reaches(seen[o].status, row[dep[o]].status)
    /\ at[o] \in {"answered", "announcing"} =>
         /\ heard[o].state \in Outcomes
         /\ Reaches(seen[o].status, heard[o].state)
         /\ Reaches(heard[o].state, StatusOf(issuer[dep[o]]))
    /\ at[o] = "announcing" => Reaches(heard[o].state, row[dep[o]].status)

\* The partner is told of no status the row has not reached.
ToldReached == \A c \in Calls : \A s \in told[c] : Reaches(s, row[c].status)

IInv == /\ TypeOK /\ RequestInv /\ OneRowPerKey /\ BackedByIssuer
        /\ ObserverInv /\ ToldReached /\ AnnouncedOnce

\* The partner's view: the status of each row and what was announced.
Ledger == INSTANCE CardDepositLedger
            WITH Deposits <- Calls, status <- [c \in Calls |-> row[c].status]

(***************************************************************************)
(* The request, the observers and the issuer together keep the promise of  *)
(* CardDepositLedger.                                                      *)
(***************************************************************************)
LedgerSpec == Ledger!Spec

(***************************************************************************)
(* A deposit recorded as accepted, whose outcome the issuer holds as       *)
(* final, ends up recorded with that outcome, whatever lookups fail on the *)
(* way (the sweep over OUTSTANDING_CARD_DEPOSIT_STATUSES).                 *)
(***************************************************************************)
OutcomeReachesRow ==
  \A c \in Calls : \A s \in {"SETTLED", "REFUNDED"} :
    (row[c].status \in {"SUBMITTED", "FAILED", "REFUND_PENDING"} /\ issuer[c] = s)
      ~> (row[c].status = s)
=============================================================================
