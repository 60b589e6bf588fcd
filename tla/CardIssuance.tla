---------------------------- MODULE CardIssuance ----------------------------
(***************************************************************************)
(* One card from the request that applies for it to the issuer making it   *)
(* usable: the request (issue-card), the lookups of what became of the     *)
(* application (resolve-card-applications, by the sweep or by a callback), *)
(* the pass that watches an opened card (reconcile-not-activated-cards),   *)
(* the partner's requests to activate it (activate-card), and the others   *)
(* who move the card: the issuer's notices (apply-issuer-card-status) and  *)
(* lifecycle operations, whose own course is CardOperations.               *)
(*                                                                         *)
(* An application is one card's and names no other, so one card is all     *)
(* there is to model. Each await is a step boundary.                       *)
(***************************************************************************)
EXTENDS CardOperationStatus, Integers, FiniteSets

CONSTANTS
  Observers,     \* concurrent runs of resolveOne
  Watchers,      \* concurrent runs of observeOne of the status pass
  Activations,   \* calls of activate-card
  Operations,    \* lifecycle operations that move the card
  MaxMoves       \* bound: notices that move the card

ASSUME ActorsAssumption ==
  /\ IsFiniteSet(Observers) /\ IsFiniteSet(Watchers)
  /\ IsFiniteSet(Activations) /\ IsFiniteSet(Operations)
ASSUME MovesAssumption == MaxMoves \in Nat

VARIABLES
  reports,     \* the issuer answers afterwards: APPLICATION_RESULT and OPERATION_RESULT
  card,        \* card.status
  opened,      \* card.provider_card_id is set
  activation,  \* card.activation_status, "none" for null
  app,         \* card_application.status, "NONE" before both rows are written
  trace,       \* trace[s]: the card_event rows of moves to s, less those of moves from s
  news,        \* how often card.activated was queued
  entries,     \* how often the card has become ACTIVE
  takenBack,   \* the status the request's save took the card back from
  blanked,     \* that save has blanked the identifier the card was opened with
  caller,      \* how far the request has got
  wire,        \* its HTTP exchange
  answer,      \* the card's status in the reply
  stale,       \* the columns that differed from the request's copy when save read them
  held,        \* what the issuer holds of the application
  theirs,      \* the card's status at the issuer
  stage,       \* where the issuer says an activation stands
  at, heard, snap,     \* of an observer: how far, the answer, the card it read
  looking, saw, told,  \* of a watcher: how far, the activation it read, the answer
  act, had, got,       \* of an activation: how far, the activation it read, the answer
  oper, route,         \* of an operation: how far, the move it made
  moves

cardVars == <<card, opened, activation>>
recordVars == <<trace, news, entries, takenBack, blanked>>
requestVars == <<caller, wire, answer, stale>>
issuerVars == <<held, theirs, stage>>
observerVars == <<at, heard, snap>>
watcherVars == <<looking, saw, told>>
activationVars == <<act, had, got>>
moveVars == <<oper, route, moves>>
vars == <<reports, cardVars, app, recordVars, requestVars, issuerVars, observerVars,
          watcherVars, activationVars, moveVars>>

AppStatuses == {"DRAFT", "SUBMITTED", "SUBMISSION_FAILED", "APPROVED", "REJECTED"}
Stages == {"none", "PENDING", "FAILED"}
Columns == {"opened", "status", "activation"}
Answers == [state : {"NONE", "ISSUED", "REJECTED"}, status : CardStatuses]
Readings == [status : CardStatuses, stage : Stages]
Moves == [from : CardStatuses, to : CardStatuses]
Cards == [status : CardStatuses, opened : BOOLEAN, activation : Stages]

NoAnswer == [state |-> "NONE", status |-> "NOT_ACTIVATED"]
NoReading == [status |-> "NOT_ACTIVATED", stage |-> "none"]
NoCard == [status |-> "NOT_ACTIVATED", opened |-> FALSE, activation |-> "none"]

Init ==
  /\ reports \in BOOLEAN
  /\ card = "NOT_ACTIVATED" /\ opened = FALSE /\ activation = "none"
  /\ app = "NONE"
  /\ trace = [s \in CardStatuses |-> 0]
  /\ news = 0 /\ entries = 0 /\ takenBack = "NOT_ACTIVATED" /\ blanked = FALSE
  /\ caller = "start" /\ wire = "none" /\ answer = "NOT_ACTIVATED" /\ stale = {}
  /\ held = "NONE" /\ theirs = "NOT_ACTIVATED" /\ stage = "none"
  /\ at = [o \in Observers |-> "idle"]
  /\ heard = [o \in Observers |-> NoAnswer]
  /\ snap = [o \in Observers |-> NoCard]
  /\ looking = [w \in Watchers |-> "idle"]
  /\ saw = [w \in Watchers |-> "none"]
  /\ told = [w \in Watchers |-> NoReading]
  /\ act = [a \in Activations |-> "start"]
  /\ had = [a \in Activations |-> "none"]
  /\ got = [a \in Activations |-> "NOT_ACTIVATED"]
  /\ oper = [b \in Operations |-> "start"]
  /\ route = [b \in Operations |-> [from |-> "NOT_ACTIVATED", to |-> "NOT_ACTIVATED"]]
  /\ moves = 0

\* An event whose two ends are the same records a request and no move.
Record(from, to) ==
  trace' = [trace EXCEPT ![from] = @ - 1, ![to] = @ + 1]

\* The card's status becomes s.
Becomes(s) ==
  /\ card' = s
  /\ entries' = IF s = "ACTIVE" /\ card # "ACTIVE" THEN entries + 1 ELSE entries

-----------------------------------------------------------------------------
(* The request. Its gates (the enrolment, the product, the deposit) read   *)
(* other tables and come before the first write: a refusal leaves nothing. *)

othersUnchanged == UNCHANGED <<observerVars, watcherVars, activationVars, moveVars, reports>>

\* The card and its application, in one transaction.
WriteAttempt ==
  /\ caller = "start"
  /\ caller' = "drafted"
  /\ app' = "DRAFT"
  /\ UNCHANGED <<cardVars, recordVars, wire, answer, stale, issuerVars>> /\ othersUnchanged

Send ==
  /\ caller = "drafted"
  /\ caller' = "calling"
  /\ wire' = "request"
  /\ UNCHANGED <<cardVars, app, recordVars, answer, stale, issuerVars>> /\ othersUnchanged

Receive ==
  /\ caller = "calling" /\ wire \in {"accepted", "refused", "failed"}
  /\ caller' = wire
  /\ UNCHANGED <<cardVars, app, recordVars, wire, answer, stale, issuerVars>> /\ othersUnchanged

\* The transport fails: the request, or its reply, may still be on the wire.
TimeOut ==
  /\ caller = "calling"
  /\ caller' = "failed"
  /\ UNCHANGED <<cardVars, app, recordVars, wire, answer, stale, issuerVars>> /\ othersUnchanged

MarkSubmitted ==
  /\ caller = "accepted"
  /\ caller' = "submitted"
  /\ app' = "SUBMITTED"
  /\ UNCHANGED <<cardVars, recordVars, wire, answer, stale, issuerVars>> /\ othersUnchanged

\* The card's id is in the reply of an issuer that opens the card at once.
CopyOpened == ~reports

(***************************************************************************)
(* save(card) reads the row and compares it with the request's copy, and   *)
(* then writes the columns that differed. Another writer may come before   *)
(* the first of these steps, or between them.                              *)
(***************************************************************************)
ReadForSave ==
  /\ caller = "submitted"
  /\ caller' = "saving"
  /\ stale' = {c \in Columns : \/ c = "opened" /\ opened # CopyOpened
                               \/ c = "status" /\ card # answer
                               \/ c = "activation" /\ activation # "none"}
  /\ UNCHANGED <<cardVars, app, recordVars, wire, answer, issuerVars>> /\ othersUnchanged

Save ==
  /\ caller = "saving"
  /\ caller' = "saved"
  /\ IF "status" \in stale THEN Becomes(answer) ELSE UNCHANGED <<card, entries>>
  /\ opened' = IF "opened" \in stale THEN CopyOpened ELSE opened
  /\ activation' = IF "activation" \in stale THEN "none" ELSE activation
  /\ takenBack' = IF "status" \in stale THEN card ELSE takenBack
  /\ blanked' = (blanked \/ (opened /\ ~opened'))
  /\ UNCHANGED <<app, trace, news, wire, answer, stale, issuerVars>> /\ othersUnchanged

\* A statement of its own, after the save.
RecordIssue ==
  /\ caller = "saved"
  /\ caller' = "done"
  /\ Record("NOT_ACTIVATED", answer)
  /\ UNCHANGED <<cardVars, app, news, entries, takenBack, blanked, wire, answer, stale, issuerVars>>
  /\ othersUnchanged

\* Mutant: every failure is a refusal.
AnyFailure == "REJECTED"

\* Which failure it is depends on whether the issuer answered.
FailureStatus == IF caller = "refused" THEN "REJECTED" ELSE "SUBMISSION_FAILED"

RecordFailure ==
  /\ caller \in {"refused", "failed"}
  /\ app' = FailureStatus
  /\ caller' = "done"
  /\ UNCHANGED <<cardVars, recordVars, wire, answer, stale, issuerVars>> /\ othersUnchanged

\* The process stops, or a statement fails.
Abandon ==
  /\ caller \notin {"start", "done", "lost"}
  /\ caller' = IF caller = "saved" THEN "lost" ELSE "done"
  /\ UNCHANGED <<cardVars, app, recordVars, wire, answer, stale, issuerVars>> /\ othersUnchanged

-----------------------------------------------------------------------------
(* The issuer. *)

outside == UNCHANGED <<recordVars, observerVars, watcherVars, activationVars, reports>>

\* One that answers afterwards only acknowledges; another opens the card and
\* answers with its status.
IssuerAnswers ==
  /\ wire = "request"
  /\ \/ /\ wire' = "accepted" /\ reports
        /\ held' = "PENDING" /\ UNCHANGED <<theirs, answer>>
     \/ /\ wire' = "accepted" /\ ~reports
        /\ held' = "ISSUED"
        /\ theirs' \in CardStatuses /\ answer' = theirs'
     \/ /\ wire' \in {"refused", "failed"}
        /\ UNCHANGED <<held, theirs, answer>>
  /\ UNCHANGED <<cardVars, app, caller, stale, stage, moveVars>> /\ outside

IssuerDecides ==
  /\ held = "PENDING"
  /\ \/ held' = "REJECTED" /\ UNCHANGED theirs
     \/ held' = "ISSUED" /\ theirs' \in CardStatuses
  /\ UNCHANGED <<cardVars, app, requestVars, stage, moveVars>> /\ outside

\* The card goes on at the issuer, to CLOSED for good.
IssuerMovesCard ==
  /\ held = "ISSUED" /\ theirs \notin TerminalCard
  /\ theirs' \in CardStatuses \ {theirs, "NOT_ACTIVATED"}
  /\ stage' = "none"
  /\ UNCHANGED <<cardVars, app, requestVars, held, moveVars>> /\ outside

IssuerRefusesActivation ==
  /\ stage = "PENDING"
  /\ stage' = "FAILED"
  /\ UNCHANGED <<cardVars, app, requestVars, held, theirs, moveVars>> /\ outside

-----------------------------------------------------------------------------
(* What became of the application. *)

observing == UNCHANGED <<reports, requestVars, issuerVars, watcherVars, activationVars, moveVars>>

Load(o) ==
  /\ at[o] = "idle" /\ reports /\ app = "SUBMITTED"
  /\ at' = [at EXCEPT ![o] = "loaded"]
  /\ UNCHANGED <<cardVars, app, recordVars, heard, snap>> /\ observing

\* An answer that carries an outcome.
Ask(o) ==
  /\ at[o] = "loaded" /\ held \in {"ISSUED", "REJECTED"}
  /\ at' = [at EXCEPT ![o] = "answered"]
  /\ heard' = [heard EXCEPT ![o] = [state |-> held, status |-> theirs]]
  /\ UNCHANGED <<cardVars, app, recordVars, snap>> /\ observing

Release(o) ==
  /\ at' = [at EXCEPT ![o] = "idle"]
  /\ heard' = [heard EXCEPT ![o] = NoAnswer]
  /\ snap' = [snap EXCEPT ![o] = NoCard]

\* No outcome, an error, a transaction rolled back, or the process stops.
GiveUp(o) ==
  /\ at[o] # "idle"
  /\ Release(o)
  /\ UNCHANGED <<cardVars, app, recordVars>> /\ observing

\* By the row's id alone.
RecordRejected(o) ==
  /\ at[o] = "answered" /\ heard[o].state = "REJECTED"
  /\ app' = "REJECTED"
  /\ Release(o)
  /\ UNCHANGED <<cardVars, recordVars>> /\ observing

CardRow == [status |-> card, opened |-> opened, activation |-> activation]

\* The transaction reads the card, without a lock.
ReadCard(o) ==
  /\ at[o] = "answered" /\ heard[o].state = "ISSUED"
  /\ at' = [at EXCEPT ![o] = "read"]
  /\ snap' = [snap EXCEPT ![o] = CardRow]
  /\ UNCHANGED <<cardVars, app, recordVars, heard>> /\ observing

\* Otherwise the server refuses the write: ER_CHECKREAD.
UnchangedSince(o) == snap[o] = CardRow

\* The card holds what the answer says already.
AlreadyResolved(o) == snap[o].opened /\ snap[o].status = heard[o].status

\* Mutant: a usable card is announced, whatever it was before.
IsUsable(o) == heard[o].status = "ACTIVE"

BecameUsable(o) == snap[o].status # "ACTIVE" /\ heard[o].status = "ACTIVE"

\* One transaction: the card and its event where due, and the application.
RecordIssued(o) ==
  /\ at[o] = "read"
  /\ app' = "APPROVED"
  /\ IF AlreadyResolved(o)
       THEN /\ Release(o)
            /\ UNCHANGED <<cardVars, recordVars>>
       ELSE /\ UnchangedSince(o)
            /\ Becomes(heard[o].status)
            /\ opened' = TRUE
            /\ Record(snap[o].status, heard[o].status)
            /\ IF BecameUsable(o)
                 THEN at' = [at EXCEPT ![o] = "usable"] /\ UNCHANGED <<heard, snap>>
                 ELSE Release(o)
            /\ UNCHANGED <<activation, news, takenBack, blanked>>
  /\ observing

TellUsable(o) ==
  /\ at[o] = "usable"
  /\ news' = news + 1
  /\ Release(o)
  /\ UNCHANGED <<cardVars, app, trace, entries, takenBack, blanked>> /\ observing

-----------------------------------------------------------------------------
(* The pass that watches an opened card until it is usable. *)

watching == UNCHANGED <<reports, app, requestVars, issuerVars, observerVars, activationVars, moveVars>>

\* What the pass selects by.
Selected == reports /\ opened /\ card = "NOT_ACTIVATED"

Watch(w) ==
  /\ looking[w] = "idle" /\ Selected
  /\ looking' = [looking EXCEPT ![w] = "loaded"]
  /\ saw' = [saw EXCEPT ![w] = activation]
  /\ UNCHANGED <<cardVars, recordVars, told>> /\ watching

AskStatus(w) ==
  /\ looking[w] = "loaded" /\ held = "ISSUED"
  /\ looking' = [looking EXCEPT ![w] = "answered"]
  /\ told' = [told EXCEPT ![w] = [status |-> theirs, stage |-> stage]]
  /\ UNCHANGED <<cardVars, recordVars, saw>> /\ watching

LookAway(w) ==
  /\ looking' = [looking EXCEPT ![w] = "idle"]
  /\ saw' = [saw EXCEPT ![w] = "none"]
  /\ told' = [told EXCEPT ![w] = NoReading]

\* An answer about no card or another one, an error, or the process stops.
GiveUpWatch(w) ==
  /\ looking[w] # "idle"
  /\ LookAway(w)
  /\ UNCHANGED <<cardVars, recordVars>> /\ watching

\* activationColumnsFor: silence about an activation leaves it as it is.
Clears(r) == r.status = "ACTIVE"
Speaks(r) == Clears(r) \/ r.stage # "none"
ColumnFor(r) == IF Clears(r) THEN "none" ELSE r.stage

StatusChanged(w) == told[w].status # "NOT_ACTIVATED"
ActivationChanged(w) == Speaks(told[w]) /\ ColumnFor(told[w]) # saw[w]

\* Mutant: the update goes by the card's id alone.
AnyStatus(w) == TRUE

\* The condition of the update: the status the pass selects by.
StillNotActivated(w) == card = "NOT_ACTIVATED"

\* One transaction: the card, and the event of a move.
RecordObservation(w) ==
  /\ looking[w] = "answered"
  /\ StatusChanged(w) \/ ActivationChanged(w)
  /\ StillNotActivated(w)
  /\ activation' = IF ActivationChanged(w) THEN ColumnFor(told[w]) ELSE activation
  /\ IF StatusChanged(w)
       THEN Becomes(told[w].status) /\ Record("NOT_ACTIVATED", told[w].status)
       ELSE UNCHANGED <<card, entries, trace>>
  /\ IF told[w].status = "ACTIVE"
       THEN looking' = [looking EXCEPT ![w] = "usable"] /\ UNCHANGED <<saw, told>>
       ELSE LookAway(w)
  /\ UNCHANGED <<opened, news, takenBack, blanked>> /\ watching

\* Nothing new, or the update matched no row.
RecordNoObservation(w) ==
  /\ looking[w] = "answered"
  /\ ~(StatusChanged(w) \/ ActivationChanged(w)) \/ ~StillNotActivated(w)
  /\ LookAway(w)
  /\ UNCHANGED <<cardVars, recordVars>> /\ watching

TellWatched(w) ==
  /\ looking[w] = "usable"
  /\ news' = news + 1
  /\ LookAway(w)
  /\ UNCHANGED <<cardVars, trace, entries, takenBack, blanked>> /\ watching

-----------------------------------------------------------------------------
(* The partner asks for an activation. *)

activating == UNCHANGED <<reports, app, requestVars, held, theirs, observerVars, watcherVars, moveVars>>

\* A card that is not opened, or has an activation outstanding, is refused.
MayActivate == opened /\ card = "NOT_ACTIVATED" /\ activation # "PENDING"

ReadForActivation(a) ==
  /\ act[a] = "start" /\ MayActivate
  /\ act' = [act EXCEPT ![a] = "calling"]
  /\ had' = [had EXCEPT ![a] = activation]
  /\ UNCHANGED <<cardVars, recordVars, stage, got>> /\ activating

\* One that answers afterwards has the request to review; another answers with
\* the card's status. A refusal or an error ends the call, Drop.
IssuerTakesActivation(a) ==
  /\ act[a] = "calling"
  /\ act' = [act EXCEPT ![a] = "accepted"]
  /\ IF reports
       THEN /\ theirs = "NOT_ACTIVATED"
            /\ stage' = "PENDING" /\ UNCHANGED got
       ELSE /\ got' \in {[got EXCEPT ![a] = s] : s \in CardStatuses}
            /\ UNCHANGED stage
  /\ UNCHANGED <<cardVars, recordVars, had>> /\ activating

\* Mutant: stamped for every issuer.
ColumnAnyway(a) == IF got[a] # "ACTIVE" THEN "PENDING" ELSE "none"

\* Stamped only where a pass can clear it again.
ColumnAfter(a) == IF reports /\ got[a] # "ACTIVE" THEN "PENDING" ELSE "none"

Writes(a) == got[a] # "NOT_ACTIVATED" \/ ColumnAfter(a) # had[a]

\* The update matches on the activation as well as the status.
CardAsRead(a) == card = "NOT_ACTIVATED" /\ activation = had[a]

Stamp(a) ==
  /\ act[a] = "accepted" /\ Writes(a) /\ CardAsRead(a)
  /\ Becomes(got[a])
  /\ activation' = ColumnAfter(a)
  /\ act' = [act EXCEPT ![a] = "stamped"]
  /\ UNCHANGED <<opened, trace, news, takenBack, blanked, stage, had, got>> /\ activating

\* Nothing to write, or another writer was first: an event that is no move.
LeaveCard(a) ==
  /\ act[a] = "accepted" /\ ~(Writes(a) /\ CardAsRead(a))
  /\ act' = [act EXCEPT ![a] = "done"]
  /\ UNCHANGED <<cardVars, recordVars, stage, had, got>> /\ activating

\* A statement of its own, after the update.
RecordActivation(a) ==
  /\ act[a] = "stamped"
  /\ Record("NOT_ACTIVATED", got[a])
  /\ act' = [act EXCEPT ![a] = IF got[a] = "ACTIVE" THEN "usable" ELSE "done"]
  /\ UNCHANGED <<cardVars, news, entries, takenBack, blanked, stage, had, got>> /\ activating

TellActivated(a) ==
  /\ act[a] = "usable"
  /\ news' = news + 1
  /\ act' = [act EXCEPT ![a] = "done"]
  /\ UNCHANGED <<cardVars, trace, entries, takenBack, blanked, stage, had, got>> /\ activating

\* The issuer refuses or does not answer, a statement fails, or the process
\* stops. A request that was not answered may still be taken.
Drop(a) ==
  /\ act[a] \notin {"start", "done", "lost"}
  /\ act' = [act EXCEPT ![a] = IF act[a] = "stamped" THEN "lost" ELSE "done"]
  /\ stage' \in {stage} \cup (IF act[a] = "calling" /\ reports /\ theirs = "NOT_ACTIVATED"
                               THEN {"PENDING"} ELSE {})
  /\ UNCHANGED <<cardVars, recordVars, had, got>> /\ activating

-----------------------------------------------------------------------------
(* The others who move the card. *)

\* The issuer's notice, never of a move it has not made: a compare-and-set on the
\* status that was read, and the event in the same transaction.
Notice ==
  /\ opened /\ card \notin TerminalCard /\ moves < MaxMoves
  /\ moves' = moves + 1
  /\ \E s \in CardStatuses \ {card} :
       /\ s = "NOT_ACTIVATED" \/ theirs # "NOT_ACTIVATED"
       /\ Becomes(s) /\ Record(card, s)
       /\ activation' = IF s = "ACTIVE" THEN "none" ELSE activation
  /\ UNCHANGED <<reports, opened, app, news, takenBack, blanked, requestVars, issuerVars,
                 observerVars, watcherVars, activationVars, oper, route>>

operating == UNCHANGED <<reports, opened, activation, app, news, takenBack, blanked, requestVars,
                         issuerVars, observerVars, watcherVars, activationVars, moves>>

\* An operation is carried out: on a compare-and-set too. Where its outcome is
\* looked up the event is in the same transaction; an issuer that settles during
\* the call answers with whatever status the card has now, and the event follows.
Operate(b) ==
  /\ oper[b] = "start" /\ opened /\ card \in Operable
  /\ \E s \in (IF reports THEN Operable ELSE CardStatuses) \ {card} :
       /\ Becomes(s)
       /\ route' = [route EXCEPT ![b] = [from |-> card, to |-> s]]
       /\ IF reports THEN Record(card, s) ELSE UNCHANGED trace
  /\ oper' = [oper EXCEPT ![b] = IF reports THEN "done" ELSE "moved"]
  /\ operating

RecordOperation(b) ==
  /\ oper[b] = "moved"
  /\ oper' = [oper EXCEPT ![b] = "done"]
  /\ Record(route[b].from, route[b].to)
  /\ UNCHANGED <<card, entries, route>> /\ operating

\* The event's statement fails, which is logged and no more, or the process stops.
DropOperation(b) ==
  /\ oper[b] = "moved"
  /\ oper' = [oper EXCEPT ![b] = "lost"]
  /\ UNCHANGED <<card, entries, trace, route>> /\ operating

Request ==
  \/ WriteAttempt \/ Send \/ Receive \/ TimeOut \/ MarkSubmitted \/ ReadForSave
  \/ Save \/ RecordIssue \/ RecordFailure \/ Abandon

Issuer == IssuerAnswers \/ IssuerDecides \/ IssuerMovesCard \/ IssuerRefusesActivation

Observe(o) ==
  \/ Load(o) \/ Ask(o) \/ GiveUp(o) \/ RecordRejected(o) \/ ReadCard(o)
  \/ RecordIssued(o) \/ TellUsable(o)

WatchCard(w) ==
  \/ Watch(w) \/ AskStatus(w) \/ GiveUpWatch(w) \/ RecordObservation(w)
  \/ RecordNoObservation(w) \/ TellWatched(w)

Activate(a) ==
  \/ ReadForActivation(a) \/ IssuerTakesActivation(a) \/ Stamp(a) \/ LeaveCard(a)
  \/ RecordActivation(a) \/ TellActivated(a) \/ Drop(a)

Move(b) == Operate(b) \/ RecordOperation(b) \/ DropOperation(b)

Next ==
  \/ Request \/ Issuer \/ Notice
  \/ \E o \in Observers : Observe(o)
  \/ \E w \in Watchers : WatchCard(w)
  \/ \E a \in Activations : Activate(a)
  \/ \E b \in Operations : Move(b)

Spec == Init /\ [][Next]_vars

-----------------------------------------------------------------------------
(* Properties. *)

TypeOK ==
  /\ reports \in BOOLEAN
  /\ card \in CardStatuses /\ opened \in BOOLEAN /\ activation \in Stages
  /\ app \in AppStatuses \cup {"NONE"}
  /\ trace \in [CardStatuses -> Int] /\ news \in Nat /\ entries \in Nat
  /\ takenBack \in CardStatuses /\ blanked \in BOOLEAN
  /\ caller \in {"start", "drafted", "calling", "accepted", "refused", "failed",
                 "submitted", "saving", "saved", "done", "lost"}
  /\ wire \in {"none", "request", "accepted", "refused", "failed"}
  /\ answer \in CardStatuses /\ stale \in SUBSET Columns
  /\ held \in {"NONE", "PENDING", "ISSUED", "REJECTED"}
  /\ theirs \in CardStatuses /\ stage \in Stages
  /\ at \in [Observers -> {"idle", "loaded", "answered", "read", "usable"}]
  /\ heard \in [Observers -> Answers] /\ snap \in [Observers -> Cards]
  /\ looking \in [Watchers -> {"idle", "loaded", "answered", "usable"}]
  /\ saw \in [Watchers -> Stages] /\ told \in [Watchers -> Readings]
  /\ act \in [Activations -> {"start", "calling", "accepted", "stamped", "usable", "done", "lost"}]
  /\ had \in [Activations -> Stages] /\ got \in [Activations -> CardStatuses]
  /\ oper \in [Operations -> {"start", "moved", "done", "lost"}]
  /\ route \in [Operations -> Moves] /\ moves \in 0..MaxMoves

(***************************************************************************)
(* What the application and the card record is the issuer's: a decision is *)
(* the one the issuer took, and a card is opened only if the issuer opened *)
(* it, although lookups answer late and write by the row's id alone.       *)
(***************************************************************************)
DecisionIsIssuers ==
  /\ app = "APPROVED" => held = "ISSUED"
  /\ app = "REJECTED" => held = "REJECTED" \/ wire = "refused"
  /\ opened => held = "ISSUED"

\* The writers that made the card usable and have not yet said so.
TellingObservers == {o \in Observers : at[o] = "usable"}
TellingWatchers == {w \in Watchers : looking[w] = "usable"}
TellingActivations ==
  {a \in Activations : act[a] = "usable" \/ (act[a] = "stamped" /\ got[a] = "ACTIVE")}

Announcing == Cardinality(TellingObservers) + Cardinality(TellingWatchers)
              + Cardinality(TellingActivations)

(***************************************************************************)
(* card.activated is queued on the transition and never on the state: the  *)
(* passes, the callbacks and the activations together queue no more of     *)
(* them than the card has become active.                                   *)
(***************************************************************************)
ActivatedOncePerMove == news + Announcing <= entries

(***************************************************************************)
(* The card's history accounts for its status: the recorded moves lead from*)
(* NOT_ACTIVATED to where the card is, but for the moves whose event       *)
(* follows the write as a statement of its own and is not there yet, or    *)
(* never will be (the request's, an activation's, an operation's of an     *)
(* issuer that settles at once), and for the one move that no event tells: *)
(* the one by which the request's save took back what another had written. *)
(***************************************************************************)
Behind == {a \in Activations : act[a] \in {"stamped", "lost"}}
BehindTo(s) == {a \in Behind : got[a] = s}
RequestBehind == caller \in {"saved", "lost"}
Lagging == {b \in Operations : oper[b] \in {"moved", "lost"}}
LaggingTo(s) == {b \in Lagging : route[b].to = s}
LaggingFrom(s) == {b \in Lagging : route[b].from = s}

\* What a move adds to the balance of s.
Shift(from, to, s) == (IF s = to THEN 1 ELSE 0) - (IF s = from THEN 1 ELSE 0)

\* What the events add that are owed: an activation's of a move from NOT_ACTIVATED,
\* an operation's of whatever move it made.
ActivationsOwe(s) ==
  Cardinality(BehindTo(s)) - (IF s = "NOT_ACTIVATED" THEN Cardinality(Behind) ELSE 0)
OperationsOwe(s) == Cardinality(LaggingTo(s)) - Cardinality(LaggingFrom(s))
RequestOwes(s) == (IF RequestBehind THEN Shift("NOT_ACTIVATED", answer, s) ELSE 0)
                  + Shift(takenBack, "NOT_ACTIVATED", s)

Owed(s) == ActivationsOwe(s) + OperationsOwe(s) + RequestOwes(s)

EventsAccount ==
  \A s \in CardStatuses : trace[s] + Owed(s) = Shift("NOT_ACTIVATED", card, s)

(***************************************************************************)
(* A card marked as awaiting an activation takes no other request for one, *)
(* and apart from a move to ACTIVE only the status pass takes the mark     *)
(* away. So a marked card is one that pass selects, for as long as it is   *)
(* not activated at the issuer either and the activation can still be      *)
(* decided: whoever moves or opens it meanwhile moves it only after the    *)
(* issuer did. (A mark may outlive the issuer's move to another status,    *)
(* and the save that blanks the identifier takes the card out of the pass.)*)
(***************************************************************************)
PendingIsResolvable ==
  activation = "PENDING" =>
    reports /\ (Selected \/ theirs # "NOT_ACTIVATED" \/ blanked)

(***************************************************************************)
(* Of all who write a card's status only two take it out of CLOSED: an     *)
(* answer to its application that is recorded late, and the request's save *)
(* of its stale copy. Notices, operations, activations and the pass do not.*)
(***************************************************************************)
ClosedUnlessIssued ==
  [][(card \in TerminalCard) => card' = card \/ Save \/ \E o \in Observers : RecordIssued(o)]_vars

\* Each answer an observer has is one the issuer gave for good.
AnswersAreFinal ==
  \A o \in Observers :
    /\ heard[o].state \in {"ISSUED", "REJECTED"} => held = heard[o].state
    /\ at[o] \in {"read", "usable"} => heard[o].state = "ISSUED"

\* How the request, its exchange and the issuer go together.
RequestMatchesIssuer ==
  /\ caller \in {"start", "drafted"} => wire = "none"
  /\ wire \in {"none", "request", "refused", "failed"} => held = "NONE"
  /\ caller = "refused" => wire = "refused"
  /\ caller \in {"accepted", "submitted", "saving", "saved", "lost"} => wire = "accepted"
  /\ wire = "accepted" /\ ~reports => held = "ISSUED"
  /\ reports => answer = "NOT_ACTIVATED"

\* With an issuer that answers at once nobody meets the card before it is saved.
SavedFirst ==
  /\ reports \/ (/\ takenBack = "NOT_ACTIVATED" /\ ~blanked
                 /\ \A o \in Observers : at[o] = "idle"
                 /\ \A w \in Watchers : looking[w] = "idle")
  /\ caller \notin {"saved", "done", "lost"} => takenBack = "NOT_ACTIVATED" /\ ~blanked
  /\ ~reports /\ caller \notin {"saved", "done", "lost"} => ~opened /\ card = "NOT_ACTIVATED"
  /\ ~reports /\ caller = "saving" => ("status" \in stale <=> answer # "NOT_ACTIVATED")

\* Whoever is about to write the activation found the card opened.
WritersSawCardOpened ==
  ~blanked =>
    /\ \A w \in Watchers : looking[w] \in {"loaded", "answered"} => reports /\ opened
    /\ \A a \in Activations : act[a] \in {"calling", "accepted"} => opened

\* Where the issuer reports afterwards, a card leaves NOT_ACTIVATED after its
\* card there has, and so does every answer about it.
CardFollowsIssuer ==
  /\ reports /\ theirs = "NOT_ACTIVATED" =>
       /\ card = "NOT_ACTIVATED"
       /\ \A o \in Observers : heard[o].status = "NOT_ACTIVATED"
       /\ \A w \in Watchers : told[w].status = "NOT_ACTIVATED"
       /\ \A a \in Activations : got[a] = "NOT_ACTIVATED"
  /\ held # "ISSUED" => theirs = "NOT_ACTIVATED"

(***************************************************************************)
(* The inductive invariant: what the two properties above rest on.         *)
(***************************************************************************)
IInv ==
  /\ TypeOK
  /\ DecisionIsIssuers
  /\ AnswersAreFinal
  /\ RequestMatchesIssuer
  /\ SavedFirst
  /\ WritersSawCardOpened
  /\ CardFollowsIssuer
  /\ PendingIsResolvable

=============================================================================
