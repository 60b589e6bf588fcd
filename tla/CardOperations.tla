--------------------------- MODULE CardOperations ---------------------------
(***************************************************************************)
(* Blocking and unblocking one card: the partner's requests                *)
(* (update-card-status), an issuer that settles an operation during the    *)
(* call or afterwards, the passes that ask what became of it               *)
(* (resolve-card-operations) and the issuer's own announcements of a move  *)
(* (apply-issuer-card-status), every one of them a writer of the card.     *)
(*                                                                         *)
(* Each await is a step boundary: what is read before one is used after it.*)
(***************************************************************************)
EXTENDS CardOperationStatus, Naturals, Sequences, FiniteSets

CONSTANTS
  Calls,         \* calls of execute; the row a call inserts is named after it
  Wanted,        \* Wanted[c]: the status call c asks the card to have
  Settles,       \* the issuer settles during the call: no OPERATION_RESULT
  Observers,     \* concurrent runs of observeOne and of escalateStale
  Sweeps,        \* the observers that are a timer's sweep, not a callback
  Notices,       \* the deliveries that announce a move of the card
  NoCall         \* what an idle observer examines

ASSUME WantedAssumption == Wanted \in [Calls -> Operable]
ASSUME SettlesAssumption == Settles \in BOOLEAN
ASSUME SweepsAssumption == Sweeps \subseteq Observers
ASSUME NoCallAssumption == NoCall \notin Calls
ASSUME ActorsAssumption == IsFiniteSet(Calls) /\ IsFiniteSet(Observers) /\ IsFiniteSet(Notices)

VARIABLES
  card,      \* status of the card
  born,      \* the status it had when the first event was written
  activating,\* activation_status is PENDING
  trail,     \* the card_event rows, in the order they were written
  news,      \* news[s]: how often card.status_updated announced s
  op,        \* op[c]: status of the card_operation row of call c
  caller,    \* caller[c]: how far call c has got
  was,       \* was[c]: the card's status as call c read it
  wire,      \* wire[c]: the HTTP exchange of call c
  held,      \* held[c]: what the issuer holds under the reference of c
  says,      \* says[c]: the card's status in the reply of an issuer that settles
  at,        \* at[o]: how far observer o has got
  dep,       \* dep[o]: the operation o examines
  seen,      \* seen[o]: the card's status as o loaded it
  heard,     \* heard[o]: the issuer's answer to o
  failures,  \* failures[c]: how often card_operation.failed was sent for c
  overdue,   \* overdue[c]: whether escalated_at is set
  warned,    \* warned[c]: how often c was escalated
  notice,    \* notice[k]: how far delivery k has got
  loaded,    \* loaded[k]: the card's status as k loaded it
  read       \* read[k]: the status k decided on

cardVars == <<card, trail, news>>
callVars == <<op, caller, was, wire, held, says>>
watchVars == <<at, dep, seen, heard>>
staleVars == <<overdue, warned>>
noticeVars == <<notice, loaded, read>>
originVars == <<born, activating>>
vars == <<cardVars, originVars, callVars, watchVars, failures, staleVars, noticeVars>>

Moves == [from : CardStatuses, to : CardStatuses]

CallerStates == {"start", "gated", "drafted", "calling", "accepted", "applied", "refused",
                 "failed", "moving", "moved", "recorded", "unrecorded", "lost", "done"}

Init ==
  /\ card \in CardStatuses
  /\ born = card
  /\ activating \in BOOLEAN /\ (activating => card = "NOT_ACTIVATED")
  /\ trail = <<>>
  /\ news = [s \in CardStatuses |-> 0]
  /\ op = [c \in Calls |-> "NONE"]
  /\ caller = [c \in Calls |-> "start"]
  /\ was = [c \in Calls |-> "NONE"]
  /\ wire = [c \in Calls |-> "none"]
  /\ held = [c \in Calls |-> "NONE"]
  /\ says = [c \in Calls |-> "NONE"]
  /\ at = [o \in Observers |-> "idle"]
  /\ dep = [o \in Observers |-> NoCall]
  /\ seen = [o \in Observers |-> "NONE"]
  /\ heard = [o \in Observers |-> "NONE"]
  /\ failures = [c \in Calls |-> 0]
  /\ overdue = [c \in Calls |-> FALSE]
  /\ warned = [c \in Calls |-> 0]
  /\ notice = [k \in Notices |-> "new"]
  /\ loaded = [k \in Notices |-> "NONE"]
  /\ read = [k \in Notices |-> "NONE"]

\* The card moves and the event is written in one transaction.
MoveCard(from, to) ==
  /\ card' = to
  /\ trail' = Append(trail, [from |-> from, to |-> to])

AnnounceStatus(s) == news' = [news EXCEPT ![s] = @ + 1]

-----------------------------------------------------------------------------
(* The request. *)

\* The gates settled from the card row.
MayOperate(status) == status \in Operable /\ ~activating

\* The card is read once, before every await that follows.
ReadCard(c) ==
  /\ caller[c] = "start"
  /\ caller' = [caller EXCEPT ![c] = IF MayOperate(card) THEN "gated" ELSE "done"]
  /\ was' = [was EXCEPT ![c] = card]
  /\ UNCHANGED <<cardVars, originVars, op, wire, held, says, watchVars, failures, staleVars, noticeVars>>

\* uq_card_operation_in_flight: some operation holds the card.
CardHeld == \E d \in Calls : op[d] \in InFlight

WriteDraft(c) ==
  /\ caller[c] = "gated"
  /\ IF CardHeld
       THEN /\ caller' = [caller EXCEPT ![c] = "done"]
            /\ UNCHANGED op
       ELSE /\ caller' = [caller EXCEPT ![c] = "drafted"]
            /\ op' = [op EXCEPT ![c] = "DRAFT"]
  /\ UNCHANGED <<cardVars, originVars, was, wire, held, says, watchVars, failures, staleVars, noticeVars>>

\* The card, as this call read it, already has the status asked for.
AlreadyThere(c) == was[c] = Wanted[c] /\ ~Settles

AnswerAlreadyThere(c) ==
  /\ caller[c] = "drafted"
  /\ AlreadyThere(c)
  /\ op' = [op EXCEPT ![c] = "APPLIED"]
  /\ caller' = [caller EXCEPT ![c] = "done"]
  /\ UNCHANGED <<cardVars, originVars, was, wire, held, says, watchVars, failures, staleVars, noticeVars>>

Send(c) ==
  /\ caller[c] = "drafted"
  /\ ~AlreadyThere(c)
  /\ caller' = [caller EXCEPT ![c] = "calling"]
  /\ wire' = [wire EXCEPT ![c] = "request"]
  /\ UNCHANGED <<cardVars, originVars, op, was, held, says, watchVars, failures, staleVars, noticeVars>>

\* Accepted, applied, refused (a conflict or a spent allowance), or failed.
Receive(c) ==
  /\ caller[c] = "calling"
  /\ wire[c] \in {"accepted", "applied", "refused", "failed"}
  /\ caller' = [caller EXCEPT ![c] = wire[c]]
  /\ UNCHANGED <<cardVars, originVars, op, was, wire, held, says, watchVars, failures, staleVars, noticeVars>>

\* The transport fails: the request, or its reply, may still be on the wire.
TimeOut(c) ==
  /\ caller[c] = "calling"
  /\ caller' = [caller EXCEPT ![c] = "failed"]
  /\ UNCHANGED <<cardVars, originVars, op, was, wire, held, says, watchVars, failures, staleVars, noticeVars>>

\* Mutant: an acknowledgement is taken for the outcome.
MarkSubmittedAsApplied(c) ==
  /\ caller[c] = "accepted"
  /\ op' = [op EXCEPT ![c] = "APPLIED"]
  /\ caller' = [caller EXCEPT ![c] = "done"]
  /\ UNCHANGED <<cardVars, originVars, was, wire, held, says, watchVars, failures, staleVars, noticeVars>>

MarkSubmitted(c) ==
  /\ caller[c] = "accepted"
  /\ op' = [op EXCEPT ![c] = "SUBMITTED"]
  /\ caller' = [caller EXCEPT ![c] = "done"]
  /\ UNCHANGED <<cardVars, originVars, was, wire, held, says, watchVars, failures, staleVars, noticeVars>>

MarkApplied(c) ==
  /\ caller[c] = "applied"
  /\ op' = [op EXCEPT ![c] = "APPLIED"]
  /\ caller' = [caller EXCEPT ![c] = IF says[c] = was[c] THEN "done" ELSE "moving"]
  /\ UNCHANGED <<cardVars, originVars, was, wire, held, says, watchVars, failures, staleVars, noticeVars>>

\* Mutant: the card is updated by its identifier alone.
CardHasStatus(c) == was[c] \in CardStatuses

\* The condition of the update: the status this request read.
CardAsRead(c) == card = was[c]

\* Zero rows means that somebody else got there first.
CompareAndSet(c) ==
  /\ caller[c] = "moving"
  /\ IF CardAsRead(c)
       THEN /\ card' = says[c]
            /\ caller' = [caller EXCEPT ![c] = "moved"]
       ELSE /\ caller' = [caller EXCEPT ![c] = "done"]
            /\ UNCHANGED card
  /\ UNCHANGED <<trail, news, originVars, op, was, wire, held, says, watchVars, failures, staleVars, noticeVars>>

\* A statement of its own, after the move; its failure is logged and passed over.
RecordEvent(c) ==
  /\ caller[c] = "moved"
  /\ \/ /\ trail' = Append(trail, [from |-> was[c], to |-> says[c]])
        /\ caller' = [caller EXCEPT ![c] = "recorded"]
     \/ /\ caller' = [caller EXCEPT ![c] = "unrecorded"]
        /\ UNCHANGED trail
  /\ UNCHANGED <<card, news, originVars, op, was, wire, held, says, watchVars, failures, staleVars, noticeVars>>

AnnounceMove(c) ==
  /\ caller[c] \in {"recorded", "unrecorded"}
  /\ AnnounceStatus(says[c])
  /\ caller' = [caller EXCEPT ![c] = IF caller[c] = "recorded" THEN "done" ELSE "lost"]
  /\ UNCHANGED <<card, trail, originVars, op, was, wire, held, says, watchVars, failures, staleVars, noticeVars>>

\* Mutant: every failure is taken for a refusal.
FailureStatusRefused(c) == "REJECTED"

\* Which failure depends on whether the issuer answered.
FailureStatus(c) == IF caller[c] = "refused" THEN "REJECTED" ELSE "SUBMISSION_FAILED"

RecordFailure(c) ==
  /\ caller[c] \in {"refused", "failed"}
  /\ op' = [op EXCEPT ![c] = FailureStatus(c)]
  /\ caller' = [caller EXCEPT ![c] = "done"]
  /\ UNCHANGED <<cardVars, originVars, was, wire, held, says, watchVars, failures, staleVars, noticeVars>>

(***************************************************************************)
(* The process stops, or a statement fails: the availability gate refuses, *)
(* the row stays as it is, and a move with no event stays without one.     *)
(***************************************************************************)
Abandon(c) ==
  /\ caller[c] \notin {"start", "lost", "done"}
  /\ caller' = [caller EXCEPT ![c] = IF caller[c] \in {"moved", "unrecorded"} THEN "lost" ELSE "done"]
  /\ UNCHANGED <<cardVars, originVars, op, was, wire, held, says, watchVars, failures, staleVars, noticeVars>>

-----------------------------------------------------------------------------
(* The issuer. *)

\* An issuer that settles answers with the card's status, which the adapter
\* reads as NOT_ACTIVATED when it does not know the word.
IssuerAnswers(c) ==
  /\ wire[c] = "request"
  /\ \/ /\ ~Settles
        /\ wire' = [wire EXCEPT ![c] = "accepted"]
        /\ held' = [held EXCEPT ![c] = "PENDING"]
        /\ UNCHANGED says
     \/ /\ Settles
        /\ wire' = [wire EXCEPT ![c] = "applied"]
        /\ held' = [held EXCEPT ![c] = "APPLIED"]
        /\ \E s \in CardStatuses : says' = [says EXCEPT ![c] = s]
     \/ /\ \E r \in {"refused", "failed"} : wire' = [wire EXCEPT ![c] = r]
        /\ UNCHANGED <<held, says>>
  /\ UNCHANGED <<cardVars, originVars, op, caller, was, watchVars, failures, staleVars, noticeVars>>

IssuerCarriesOut(c) ==
  /\ held[c] = "PENDING"
  /\ \E s \in {"APPLIED", "FAILED"} : held' = [held EXCEPT ![c] = s]
  /\ UNCHANGED <<cardVars, originVars, op, caller, was, wire, says, watchVars, failures, staleVars, noticeVars>>

-----------------------------------------------------------------------------
(* The passes that ask what became of an operation. *)

Pick(o, c) ==
  /\ at[o] = "idle"
  /\ ~Settles
  /\ op[c] \in Outstanding
  /\ at' = [at EXCEPT ![o] = "picked"]
  /\ dep' = [dep EXCEPT ![o] = c]
  /\ UNCHANGED <<cardVars, originVars, callVars, seen, heard, failures, staleVars, noticeVars>>

\* The card is loaded after the operation, and before the issuer is asked.
LoadCard(o) ==
  /\ at[o] = "picked"
  /\ at' = [at EXCEPT ![o] = "loaded"]
  /\ seen' = [seen EXCEPT ![o] = card]
  /\ UNCHANGED <<cardVars, originVars, callVars, dep, heard, failures, staleVars, noticeVars>>

\* Mutant: a failure is taken for no outcome yet.
AskUnlessFailed(o) ==
  /\ at[o] = "loaded"
  /\ held[dep[o]] = "APPLIED"
  /\ at' = [at EXCEPT ![o] = "answered"]
  /\ heard' = [heard EXCEPT ![o] = held[dep[o]]]
  /\ UNCHANGED <<cardVars, originVars, callVars, dep, seen, failures, staleVars, noticeVars>>

\* An answer that carries an outcome.
Ask(o) ==
  /\ at[o] = "loaded"
  /\ held[dep[o]] \in {"APPLIED", "FAILED"}
  /\ at' = [at EXCEPT ![o] = "answered"]
  /\ heard' = [heard EXCEPT ![o] = held[dep[o]]]
  /\ UNCHANGED <<cardVars, originVars, callVars, dep, seen, failures, staleVars, noticeVars>>

\* The observer turns to its next operation.
Release(o) ==
  /\ at' = [at EXCEPT ![o] = "idle"]
  /\ dep' = [dep EXCEPT ![o] = NoCall]
  /\ seen' = [seen EXCEPT ![o] = "NONE"]
  /\ heard' = [heard EXCEPT ![o] = "NONE"]

\* No outcome yet, an unknown reference, an error, or the process stops.
GiveUp(o) ==
  /\ at[o] # "idle"
  /\ Release(o)
  /\ UNCHANGED <<cardVars, originVars, callVars, failures, staleVars, noticeVars>>

\* Mutant: the outcome is written whatever the row has become.
NotReread(o) == TRUE

\* The condition of the update: the only status a pass loads is still there.
StillAsLoaded(o) == op[dep[o]] \in Outstanding

\* statusToWrite, decided from the card as it was loaded before the call.
MoveDue(o) == /\ heard[o] = "APPLIED"
              /\ seen[o] # Wanted[dep[o]]
              /\ seen[o] \in Operable

\* Mutant: the card is updated by its identifier alone.
CardKnown(o) == card \in CardStatuses

\* The compare-and-set of the card.
CardAsLoaded(o) == card = seen[o]

\* One transaction: the operation, and the card and its event where due.
RecordOutcome(o) ==
  /\ at[o] = "answered"
  /\ StillAsLoaded(o)
  /\ op' = [op EXCEPT ![dep[o]] = heard[o]]
  /\ \/ /\ MoveDue(o) /\ CardAsLoaded(o)
        /\ MoveCard(seen[o], Wanted[dep[o]])
        /\ at' = [at EXCEPT ![o] = "moved"]
        /\ UNCHANGED <<dep, seen, heard>>
     \/ /\ heard[o] = "FAILED"
        /\ at' = [at EXCEPT ![o] = "failed"]
        /\ UNCHANGED <<card, trail, dep, seen, heard>>
     \/ /\ heard[o] = "APPLIED" /\ ~(MoveDue(o) /\ CardAsLoaded(o))
        /\ Release(o)
        /\ UNCHANGED <<card, trail>>
  /\ UNCHANGED <<news, originVars, caller, was, wire, held, says, failures, staleVars, noticeVars>>

\* The update matched no row: whatever changed it reports the change.
OperationLost(o) ==
  /\ at[o] = "answered"
  /\ ~StillAsLoaded(o)
  /\ Release(o)
  /\ UNCHANGED <<cardVars, originVars, callVars, failures, staleVars, noticeVars>>

TellMove(o) ==
  /\ at[o] = "moved"
  /\ AnnounceStatus(Wanted[dep[o]])
  /\ Release(o)
  /\ UNCHANGED <<card, trail, originVars, callVars, failures, staleVars, noticeVars>>

TellFailure(o) ==
  /\ at[o] = "failed"
  /\ failures' = [failures EXCEPT ![dep[o]] = @ + 1]
  /\ Release(o)
  /\ UNCHANGED <<cardVars, originVars, callVars, staleVars, noticeVars>>

\* Mutant: escalation selects the operations being polled.
EscalatesPolled(c) == op[c] \in Outstanding /\ ~overdue[c]

\* Everything that holds the card, a draft included, once it is old enough.
Escalates(c) == op[c] \in InFlight /\ ~overdue[c]

Suspect(o, c) ==
  /\ o \in Sweeps
  /\ at[o] = "idle"
  /\ Escalates(c)
  /\ at' = [at EXCEPT ![o] = "suspecting"]
  /\ dep' = [dep EXCEPT ![o] = c]
  /\ UNCHANGED <<cardVars, originVars, callVars, seen, heard, failures, staleVars, noticeVars>>

Unclaimed(o) == ~overdue[dep[o]]

Escalate(o) ==
  /\ at[o] = "suspecting"
  /\ IF Unclaimed(o)
       THEN /\ overdue' = [overdue EXCEPT ![dep[o]] = TRUE]
            /\ warned' = [warned EXCEPT ![dep[o]] = @ + 1]
       ELSE UNCHANGED staleVars
  /\ Release(o)
  /\ UNCHANGED <<cardVars, originVars, callVars, failures, noticeVars>>

-----------------------------------------------------------------------------
(* The issuer's announcements. *)

LoadForNotice(k) ==
  /\ notice[k] = "new"
  /\ notice' = [notice EXCEPT ![k] = "loaded"]
  /\ loaded' = [loaded EXCEPT ![k] = card]
  /\ UNCHANGED <<cardVars, originVars, callVars, watchVars, failures, staleVars, read>>

(***************************************************************************)
(* The issuer's own answer, or the announcement when it gives no usable    *)
(* one. A delivery may be late, so any status may be read.                 *)
(***************************************************************************)
ReadForNotice(k) ==
  /\ notice[k] = "loaded"
  /\ notice' = [notice EXCEPT ![k] = "read"]
  /\ \E s \in CardStatuses : read' = [read EXCEPT ![k] = s]
  /\ UNCHANGED <<cardVars, originVars, callVars, watchVars, failures, staleVars, loaded>>

\* Mutant: a closed card takes what the issuer announces.
MoveAnnouncedAnywhere(k) == loaded[k] # read[k]

\* A transition, and not one out of a final status.
MoveAnnounced(k) == loaded[k] # read[k] /\ loaded[k] \notin TerminalCard

\* activationColumnsFor: only a card reaching active clears these columns.
ClearedBy(s) == activating /\ s # "ACTIVE"

ApplyNotice(k) ==
  /\ notice[k] = "read"
  /\ IF MoveAnnounced(k) /\ card = loaded[k]
       THEN /\ MoveCard(loaded[k], read[k])
            /\ activating' = ClearedBy(read[k])
            /\ notice' = [notice EXCEPT ![k] = "moved"]
       ELSE /\ notice' = [notice EXCEPT ![k] = "done"]
            /\ UNCHANGED <<card, activating, trail>>
  /\ UNCHANGED <<news, born, callVars, watchVars, failures, staleVars, loaded, read>>

TellNotice(k) ==
  /\ notice[k] = "moved"
  /\ AnnounceStatus(read[k])
  /\ notice' = [notice EXCEPT ![k] = "done"]
  /\ UNCHANGED <<card, trail, originVars, callVars, watchVars, failures, staleVars, loaded, read>>

\* The process stops, or the transaction fails and the issuer is told so.
DropNotice(k) ==
  /\ notice[k] \in {"loaded", "read", "moved"}
  /\ notice' = [notice EXCEPT ![k] = "done"]
  /\ UNCHANGED <<cardVars, originVars, callVars, watchVars, failures, staleVars, loaded, read>>

-----------------------------------------------------------------------------
Request(c) ==
  \/ ReadCard(c) \/ WriteDraft(c) \/ AnswerAlreadyThere(c) \/ Send(c)
  \/ Receive(c) \/ TimeOut(c) \/ MarkSubmitted(c) \/ MarkApplied(c)
  \/ CompareAndSet(c) \/ RecordEvent(c) \/ AnnounceMove(c)
  \/ RecordFailure(c) \/ Abandon(c)

Issuer(c) == IssuerAnswers(c) \/ IssuerCarriesOut(c)

Observe(o) ==
  \/ \E c \in Calls : Pick(o, c) \/ Suspect(o, c)
  \/ LoadCard(o) \/ Ask(o) \/ GiveUp(o) \/ RecordOutcome(o) \/ OperationLost(o)
  \/ TellMove(o) \/ TellFailure(o) \/ Escalate(o)

Notify(k) ==
  \/ LoadForNotice(k) \/ ReadForNotice(k) \/ ApplyNotice(k) \/ TellNotice(k)
  \/ DropNotice(k)

Next == \/ \E c \in Calls : Request(c) \/ Issuer(c)
        \/ \E o \in Observers : Observe(o)
        \/ \E k \in Notices : Notify(k)

Spec == Init /\ [][Next]_vars

(***************************************************************************)
(* The timer reruns the pass for ever, and RotatingSweep shows that every  *)
(* outstanding row gets its turn; time passes, so every row is old enough  *)
(* at last. Lookups and writes are assumed not to fail for ever.           *)
(***************************************************************************)
SweepFairness(o) ==
  /\ \A c \in Calls : SF_vars(Pick(o, c)) /\ SF_vars(Suspect(o, c))
  /\ SF_vars(LoadCard(o)) /\ SF_vars(Ask(o)) /\ SF_vars(RecordOutcome(o))
  /\ SF_vars(Escalate(o))
  /\ WF_vars(GiveUp(o) \/ OperationLost(o) \/ TellMove(o) \/ TellFailure(o))

FairSpec == Spec /\ \A o \in Sweeps : SweepFairness(o)

-----------------------------------------------------------------------------
(* Properties. *)

TypeOK ==
  /\ card \in CardStatuses /\ born \in CardStatuses
  /\ activating \in BOOLEAN
  /\ trail \in Seq(Moves)
  /\ news \in [CardStatuses -> Nat]
  /\ op \in [Calls -> Statuses \cup {"NONE"}]
  /\ caller \in [Calls -> CallerStates]
  /\ was \in [Calls -> CardStatuses \cup {"NONE"}]
  /\ wire \in [Calls -> {"none", "request", "accepted", "applied", "refused", "failed"}]
  /\ held \in [Calls -> {"NONE", "PENDING", "APPLIED", "FAILED"}]
  /\ says \in [Calls -> CardStatuses \cup {"NONE"}]
  /\ at \in [Observers -> {"idle", "picked", "loaded", "answered", "moved",
                            "failed", "suspecting"}]
  /\ dep \in [Observers -> Calls \cup {NoCall}]
  /\ seen \in [Observers -> CardStatuses \cup {"NONE"}]
  /\ heard \in [Observers -> {"NONE", "APPLIED", "FAILED"}]
  /\ failures \in [Calls -> Nat]
  /\ overdue \in [Calls -> BOOLEAN]
  /\ warned \in [Calls -> Nat]
  /\ notice \in [Notices -> {"new", "loaded", "read", "moved", "done"}]
  /\ loaded \in [Notices -> CardStatuses \cup {"NONE"}]
  /\ read \in [Notices -> CardStatuses \cup {"NONE"}]

(***************************************************************************)
(* The index over in_flight_card_id is all that serialises operations, and *)
(* the request writes its row by identifier alone: still no two operations *)
(* hold the card, because nothing else touches a row before the request    *)
(* has acknowledged it.                                                    *)
(***************************************************************************)
OneInFlight ==
  \A c, d \in Calls : op[c] \in InFlight /\ op[d] \in InFlight => c = d

\* Requests the issuer may act on, those still on the wire included.
Unsettled == {c \in Calls : wire[c] = "request" \/ held[c] = "PENDING"}

(***************************************************************************)
(* The issuer, which accepts one operation at a time, is never given a     *)
(* second one while it may still act on the first, unless the first was    *)
(* recorded as not acknowledged.                                           *)
(***************************************************************************)
ExclusiveAtIssuer ==
  \A c, d \in {e \in Unsettled : op[e] # "SUBMISSION_FAILED"} : c = d

(***************************************************************************)
(* An operation recorded as carried out, or as failed, is so at the        *)
(* issuer; an operation that was never sent is recorded as applied only    *)
(* when the call had read the card in the status asked for.                *)
(***************************************************************************)
OutcomeIsIssuers ==
  \A c \in Calls :
    /\ op[c] = "FAILED" => held[c] = "FAILED"
    /\ op[c] = "APPLIED" => \/ held[c] = "APPLIED"
                            \/ wire[c] = "none" /\ was[c] = Wanted[c]

(***************************************************************************)
(* A final operation is never written again, although the request writes   *)
(* its row unconditionally beside the passes.                              *)
(***************************************************************************)
FinalIsFinal == [][\A c \in Calls : op[c] \in Terminal => op'[c] = op[c]]_vars

(***************************************************************************)
(* None of the writers of this module, the requests, the passes and the    *)
(* notices, takes a card out of CLOSED, however long ago it read the card  *)
(* (TERMINAL_CARD_STATUSES: "a compare-and-set cannot express this"). The  *)
(* late answer to an application is none of them: it writes the status it  *)
(* heard over any other, and is CardIssuance's RecordIssued.               *)
(***************************************************************************)
ClosedStays == [][(card \in TerminalCard) => (card' = card)]_vars

(***************************************************************************)
(* Where moves and events share a transaction, the events of a card form   *)
(* a chain: each starts where the previous one ended, the last ends at the *)
(* card's status, and none describes a move that was not made.             *)
(***************************************************************************)
TrailIsChain ==
  ~Settles =>
    /\ \A i \in 1 .. Len(trail) - 1 : trail[i].to = trail[i + 1].from
    /\ trail = <<>> => card = born
    /\ trail # <<>> => trail[1].from = born /\ trail[Len(trail)].to = card

\* The moves a request has made whose event is not written, or never will be.
Unwritten == {c \in Calls : caller[c] \in {"moved", "unrecorded", "lost"}}

EventsTo(s) == Cardinality({i \in DOMAIN trail : trail[i].to = s})
EventsFrom(s) == Cardinality({i \in DOMAIN trail : trail[i].from = s})
UnwrittenTo(s) == Cardinality({c \in Unwritten : says[c] = s})
UnwrittenFrom(s) == Cardinality({c \in Unwritten : was[c] = s})
Is(status, s) == IF status = s THEN 1 ELSE 0

\* The writers that have moved the card to s and not yet announced it.
Announcing(s) ==
  Cardinality({c \in Calls : caller[c] \in {"moved", "recorded", "unrecorded"} /\ says[c] = s})
  + Cardinality({o \in Observers : at[o] = "moved" /\ Wanted[dep[o]] = s})
  + Cardinality({k \in Notices : notice[k] = "moved" /\ read[k] = s})

(***************************************************************************)
(* Where the request moves the card and writes the event afterwards, the   *)
(* events may be out of order and one may be missing, but together with    *)
(* the missing ones they lead from the first status to the card's.         *)
(* And card.status_updated announces moves, never states: the              *)
(* announcements of a status, made and still to be made, are no more than  *)
(* the moves into it.                                                      *)
(***************************************************************************)
TrailAccounts ==
  \A s \in CardStatuses :
    /\ EventsTo(s) + UnwrittenTo(s) + Is(born, s) =
         EventsFrom(s) + UnwrittenFrom(s) + Is(card, s)
    /\ news[s] + Announcing(s) <= EventsTo(s) + UnwrittenTo(s)

(***************************************************************************)
(* The partner hears once that an operation failed, and never of one that  *)
(* did not, although the sweep and callbacks may ask about it together.    *)
(***************************************************************************)
FailureToldOnce ==
  /\ \A c \in Calls : failures[c] = 0 \/ (failures[c] = 1 /\ op[c] = "FAILED")
  /\ \A o, p \in Observers : at[o] = "failed" =>
       /\ op[dep[o]] = "FAILED" /\ failures[dep[o]] = 0
       /\ at[p] = "failed" /\ dep[p] = dep[o] => p = o

(***************************************************************************)
(* An operation is escalated once however many passes reach it together.   *)
(***************************************************************************)
EscalatedOnce == \A c \in Calls : warned[c] <= 1

(***************************************************************************)
(* Whatever the issuer does, an operation that holds the card is either    *)
(* resolved or brought to somebody's attention: a draft stranded by a      *)
(* crash before its call, which no lookup ever asks about, included.       *)
(***************************************************************************)
HeldCardIsNoticed ==
  \A c \in Calls : op[c] \in InFlight ~> op[c] \notin InFlight \/ overdue[c]

(***************************************************************************)
(* An acknowledged operation ends with the issuer's outcome once it has    *)
(* one, so that the card is freed for the next.                            *)
(***************************************************************************)
OutcomeFreesCard ==
  \A c \in Calls : op[c] = "SUBMITTED" /\ held[c] \in {"APPLIED", "FAILED"}
                      ~> op[c] = held[c]

(***************************************************************************)
(* The strengthening the proofs rest on. How far a call has got decides    *)
(* what its row, the wire and the issuer can hold; what an observer holds  *)
(* is never ahead of the issuer.                                           *)
(***************************************************************************)
CallInv ==
  \A c \in Calls :
    /\ caller[c] \in {"start", "gated"} => op[c] = "NONE" /\ wire[c] = "none"
    /\ caller[c] = "drafted" => op[c] = "DRAFT" /\ wire[c] = "none"
    /\ caller[c] \in {"calling", "accepted", "applied", "refused", "failed"} => op[c] = "DRAFT"
    /\ caller[c] \in {"accepted", "applied", "refused"} => wire[c] = caller[c]
    /\ caller[c] \notin {"start", "done"} => was[c] \in Operable
    /\ caller[c] \in {"applied", "moving", "moved", "recorded", "unrecorded", "lost"} =>
         says[c] \in CardStatuses /\ Settles
    /\ caller[c] \in {"moving", "moved", "recorded", "unrecorded", "lost"} => op[c] = "APPLIED"
    /\ wire[c] \notin {"accepted", "applied"} <=> held[c] = "NONE"
    /\ wire[c] = "applied" => held[c] = "APPLIED" /\ says[c] \in CardStatuses /\ Settles
    /\ op[c] = "NONE" => wire[c] = "none"
    /\ op[c] \in {"SUBMITTED", "FAILED"} => wire[c] = "accepted"
    /\ op[c] = "REJECTED" => wire[c] = "refused"

WatchInv ==
  \A o \in Observers :
    /\ at[o] # "idle" => dep[o] \in Calls
    /\ at[o] \in {"picked", "loaded", "answered", "moved", "failed"} =>
         op[dep[o]] \in {"SUBMITTED", "APPLIED", "FAILED"} /\ ~Settles /\ wire[dep[o]] = "accepted"
    /\ at[o] \in {"loaded", "answered"} => seen[o] \in CardStatuses
    /\ at[o] = "answered" => heard[o] = held[dep[o]] /\ heard[o] # "NONE"

StaleInv == \A c \in Calls : warned[c] = IF overdue[c] THEN 1 ELSE 0

NoticeInv ==
  \A k \in Notices :
    /\ notice[k] = "loaded" => loaded[k] \in CardStatuses
    /\ notice[k] = "read" => loaded[k] \in CardStatuses /\ read[k] \in CardStatuses
    /\ notice[k] = "moved" => read[k] \in CardStatuses

IInv == /\ TypeOK /\ CallInv /\ OneInFlight /\ OutcomeIsIssuers /\ WatchInv
        /\ FailureToldOnce /\ StaleInv /\ NoticeInv /\ TrailIsChain

\* The card and its events, as a reader of the card sees them.
Lifecycle == INSTANCE CardLifecycle

(***************************************************************************)
(* The passes and the announcements, writing one card together, keep the   *)
(* promise of CardLifecycle.                                               *)
(***************************************************************************)
LifecycleSpec == Lifecycle!Spec

=============================================================================
