------------------------ MODULE CardholderEnrolment ------------------------
(***************************************************************************)
(* One person and one issuer: the calls that put the person to the issuer  *)
(* (onboard-cardholder, enrol-cardholder), and everybody who later reads   *)
(* the enrolment, asks the issuer and saves what it said: the sweep, an    *)
(* administrator's sync, the submission of KYC.                            *)
(*                                                                         *)
(* The enrolment of another issuer is another row, the sweep isolates its  *)
(* rows, and no lock spans a call to the issuer: one row is all there is   *)
(* to model. Each await is a step boundary. save(enrolment) is a SELECT of  *)
(* the row and an UPDATE of the columns of the copy that differed from it. *)
(***************************************************************************)
EXTENDS FiniteSets

CONSTANTS
  Callers,   \* concurrent requests that put the person to the issuer
  Lookers,   \* concurrent runs of syncOne or of submit-kyc
  Sweeper    \* the one of them that the timer starts over and over

ASSUME CallersAssumption ==
  IsFiniteSet(Callers) /\ IsFiniteSet(Lookers) /\ Callers \cap Lookers = {} /\ Sweeper \in Lookers

\* APPROVED stands for the three decisions, which no code tells apart.
CardholderStatuses == {"DRAFT", "PENDING", "UNDER_REVIEW", "APPROVED", "ERROR"}
\* Mutant: a review in progress is taken for an end.
NonTerminalPending == {"PENDING"}
NON_TERMINAL_STATUSES == {"PENDING", "UNDER_REVIEW"}
TERMINAL_STATUSES == {"APPROVED", "ERROR"}
REATTEMPTABLE_STATUSES == {"ERROR"}

\* What the issuer may say of an account, "error" standing for unknown words too.
Words == {"pending", "under_review", "approved", "error"}

\* Any word not in the table is read as ERROR.
mapAxysCardholderStatus(w) ==
  CASE w = "pending" -> "PENDING"
    [] w = "under_review" -> "UNDER_REVIEW"
    [] w = "approved" -> "APPROVED"
    [] OTHER -> "ERROR"

Columns == {"status", "known"}
Rows == [status : CardholderStatuses, known : BOOLEAN]
NoRow == [status |-> "DRAFT", known |-> FALSE]

VARIABLES
  asks,      \* the issuer has accounts, KYC and a status to ask for
  person,    \* the cardholder row is stored
  stored,    \* the enrolment row is stored
  row,       \* its status, and whether provider_cardholder_id is set
  account,   \* what the issuer would say of the account, "none" before it has one
  at, mine,  \* of a caller: how far, its copy of the row
  look, copy,  \* of a looker: how far, its copy of the row
  differing, \* of either: the columns that its save found to differ
  untold,    \* a reading made the row's status terminal, and no webhook says so
  trampled,  \* a looker has saved over the DRAFT of an attempt
  broken     \* a restart or a failing statement has cut an actor short

rowVars == <<stored, row, untold>>
callerVars == <<at, mine>>
lookerVars == <<look, copy>>
vars == <<asks, person, rowVars, account, callerVars, lookerVars, differing, trampled, broken>>

Init ==
  /\ asks \in BOOLEAN
  /\ person = FALSE /\ stored = FALSE /\ row = NoRow
  /\ account = "none"
  /\ at = [c \in Callers |-> "idle"]
  /\ mine = [c \in Callers |-> NoRow]
  /\ look = [l \in Lookers |-> "idle"]
  /\ copy = [l \in Lookers |-> NoRow]
  /\ differing = [a \in Callers \cup Lookers |-> {}]
  /\ untold = FALSE /\ trampled = FALSE /\ broken = FALSE

\* A run's own variables end with it.
Goes(c, place) == at' = [at EXCEPT ![c] = place]
Keeps(c, entity) == mine' = [mine EXCEPT ![c] = entity]
Drops(c) == Keeps(c, NoRow)
Steps(l, place) == look' = [look EXCEPT ![l] = place]
Holds(l, entity) == copy' = [copy EXCEPT ![l] = entity]
Ends(l) == Steps(l, "idle") /\ Holds(l, NoRow)
Told(l, status) == Holds(l, [copy[l] EXCEPT !.status = status])

\* The two statements of save(enrolment). Without a difference there is no second.
Differing(entity) == {f \in Columns : entity[f] # row[f]}
Select(a, entity) == differing' = [differing EXCEPT ![a] = Differing(entity)]
Update(a, entity) ==
  /\ row' = [status |-> IF "status" \in differing[a] THEN entity.status ELSE row.status,
             known  |-> IF "known" \in differing[a] THEN entity.known ELSE row.known]
  /\ differing' = [differing EXCEPT ![a] = {}]
  /\ UNCHANGED stored

-----------------------------------------------------------------------------
(* Putting the person to the issuer. *)

\* The partner's gateways, the issuers switched on and what this one can do: all
\* read with the partner, so the verdict holds for the whole request.
assertCanEnrol == BOOLEAN

\* Mutant: the person is stored before the caller's permission is looked at.
OnboardUnchecked(c) ==
  /\ at[c] = "idle" /\ ~person
  /\ \E allowed \in assertCanEnrol :
       /\ person' = TRUE
       /\ Goes(c, IF allowed THEN "admitted" ELSE "idle")
  /\ UNCHANGED <<asks, rowVars, account, mine, lookerVars, differing, trampled, broken>>

\* onboard-cardholder: assertCanEnrol, and only then the cardholder row.
Onboard(c) ==
  /\ at[c] = "idle" /\ ~person
  /\ \E allowed \in assertCanEnrol :
       /\ person' = allowed
       /\ Goes(c, IF allowed THEN "admitted" ELSE "idle")
  /\ UNCHANGED <<asks, rowVars, account, mine, lookerVars, differing, trampled, broken>>

\* enrol-cardholder: a person this partner already holds.
Enrol(c) ==
  /\ at[c] = "idle" /\ person
  /\ \E allowed \in assertCanEnrol : Goes(c, IF allowed THEN "admitted" ELSE "idle")
  /\ UNCHANGED <<asks, person, rowVars, account, mine, lookerVars, differing, trampled, broken>>

\* The claim by insertion, which the unique index decides.
Claim(c) ==
  /\ at[c] = "admitted" /\ ~stored
  /\ Goes(c, "calling") /\ Keeps(c, NoRow)
  /\ stored' = TRUE /\ row' = NoRow /\ untold' = FALSE
  /\ UNCHANGED <<asks, person, account, lookerVars, differing, trampled, broken>>

Draft == [row EXCEPT !.status = "DRAFT"]
\* Mutant: a draft may be claimed again.
mayReclaimDrafts == row.status \in REATTEMPTABLE_STATUSES \cup {"DRAFT"}
mayReclaim == row.status \in REATTEMPTABLE_STATUSES

\* The claim of a row that is there, under its lock, committed before the
\* issuer is asked.
Reclaim(c) ==
  /\ at[c] = "admitted" /\ stored
  /\ IF mayReclaim
     THEN Goes(c, "calling") /\ Keeps(c, Draft) /\ row' = Draft /\ untold' = FALSE /\ UNCHANGED stored
     ELSE Goes(c, "idle") /\ UNCHANGED <<rowVars, mine>>
  /\ UNCHANGED <<asks, person, account, lookerVars, differing, trampled, broken>>

\* Mutant: a failure forgets who the issuer said the person is.
FailedAfresh(entity) == [status |-> "ERROR", known |-> FALSE]
Failed(entity) == [entity EXCEPT !.status = "ERROR"]

onboardedLocally == "approved"

\* The issuer takes the person: it opens an account, or finds the one opened
\* under the same idempotency key and has another look at one in error. An
\* issuer without accounts is not called: the adapter answers APPROVED.
IssuerTakes(c) ==
  /\ at[c] = "calling"
  /\ account' = CASE ~asks -> onboardedLocally
                  [] account \in {"none", "error"} -> "pending"
                  [] OTHER -> account
  /\ \/ /\ Goes(c, "answered")
        /\ Keeps(c, [status |-> mapAxysCardholderStatus(account'), known |-> TRUE])
     \/ Goes(c, "failed") /\ Keeps(c, Failed(mine[c]))   \* the answer is lost
  /\ UNCHANGED <<asks, person, rowVars, lookerVars, differing, trampled, broken>>

\* The intent is refused, or nobody answers.
CallFails(c) ==
  /\ at[c] = "calling"
  /\ Goes(c, "failed") /\ Keeps(c, Failed(mine[c]))
  /\ UNCHANGED <<asks, person, rowVars, account, lookerVars, differing, trampled, broken>>

SelectRow(c) ==
  /\ Select(c, mine[c])
  /\ IF Differing(mine[c]) = {} THEN Goes(c, "idle") /\ Drops(c) ELSE Goes(c, "saving") /\ UNCHANGED mine
  /\ UNCHANGED <<asks, person, rowVars, account, lookerVars, trampled, broken>>

RecordAnswer(c) == at[c] = "answered" /\ SelectRow(c)
RecordFailure(c) == at[c] = "failed" /\ SelectRow(c)

UpdateRow(c) ==
  /\ at[c] = "saving"
  /\ Update(c, mine[c])
  /\ untold' = (untold /\ "status" \notin differing[c])
  /\ Goes(c, "idle") /\ Drops(c)
  /\ UNCHANGED <<asks, person, account, lookerVars, trampled, broken>>

-----------------------------------------------------------------------------
(* Asking what became of the person. *)

OthersUnchanged == UNCHANGED <<asks, person, callerVars, broken>>

\* Both readers need the issuer's identifier and an issuer that has the call.
Answerable == row.known /\ asks

Reads(l, place) ==
  /\ look[l] = "idle" /\ stored /\ Answerable
  /\ Steps(l, place) /\ Holds(l, row)
  /\ UNCHANGED <<rowVars, account, differing, trampled>> /\ OthersUnchanged

\* An administrator's sync takes the row whatever it says, a tick's run a row in a
\* status that is not terminal. Another tick's run is one more of the first.
ReadForSync(l) == Reads(l, "asking")
Sweep(l) == row.status \in NON_TERMINAL_STATUSES /\ ReadForSync(l)

queryCardholderStatus == mapAxysCardholderStatus(account)

\* The status query; an answer the copy already holds ends the run.
Ask(l) ==
  /\ look[l] = "asking"
  /\ IF queryCardholderStatus = copy[l].status
     THEN Ends(l)
     ELSE Steps(l, "told") /\ Told(l, queryCardholderStatus)
  /\ UNCHANGED <<rowVars, account, differing, trampled>> /\ OthersUnchanged

ReadForKyc(l) == Reads(l, "submitting")

\* Any account but a pending one is a conflict.
SubmitKyc(l) ==
  /\ look[l] = "submitting"
  /\ account = "pending" /\ account' = "under_review"
  /\ Steps(l, "submitted") /\ Told(l, "UNDER_REVIEW")
  /\ UNCHANGED <<rowVars, differing, trampled>> /\ OthersUnchanged

AskFails(l) ==
  /\ look[l] \in {"asking", "submitting"}
  /\ Ends(l)
  /\ UNCHANGED <<rowVars, account, differing, trampled>> /\ OthersUnchanged

\* Mutant: only an approval is announced.
AnnouncesApprovals(l) == copy[l].status = "APPROVED"
Announces(l) == copy[l].status \in TERMINAL_STATUSES

\* What follows on the save. submit-kyc announces nothing: the partner reads the
\* status in its reply.
Recorded(l) == IF Announces(l) THEN Steps(l, "saved") /\ UNCHANGED copy ELSE Ends(l)

SelectCopy(l) ==
  /\ Select(l, copy[l])
  /\ UNCHANGED <<rowVars, account, trampled>> /\ OthersUnchanged

SaveTold(l) ==
  /\ look[l] = "told" /\ SelectCopy(l)
  /\ IF Differing(copy[l]) = {} THEN Recorded(l) ELSE Steps(l, "recording") /\ UNCHANGED copy

SaveSubmitted(l) ==
  /\ look[l] = "submitted" /\ SelectCopy(l)
  /\ IF Differing(copy[l]) = {} THEN Ends(l) ELSE Steps(l, "filing") /\ UNCHANGED copy

\* The copy was read before the call, and the columns before the write.
UpdateCopy(l) ==
  /\ Update(l, copy[l])
  /\ trampled' = (trampled \/ (row.status = "DRAFT" /\ "status" \in differing[l]))
  /\ UNCHANGED account /\ OthersUnchanged

UpdateTold(l) ==
  /\ look[l] = "recording" /\ UpdateCopy(l)
  /\ untold' = IF "status" \in differing[l] THEN copy[l].status \in TERMINAL_STATUSES ELSE untold
  /\ Recorded(l)

UpdateSubmitted(l) ==
  /\ look[l] = "filing" /\ UpdateCopy(l)
  /\ untold' = (untold /\ "status" \notin differing[l])
  /\ Ends(l)

\* A terminal status that was read is announced, after its event.
Announce(l) ==
  /\ look[l] = "saved"
  /\ untold' = (untold /\ row.status # copy[l].status)
  /\ Ends(l)
  /\ UNCHANGED <<stored, row, account, differing, trampled>> /\ OthersUnchanged

-----------------------------------------------------------------------------
(* The issuer, and what goes wrong. *)

IssuerDecides ==
  /\ asks /\ account \in Words \ {"approved"}
  /\ account' \in {"under_review", "approved", "error"} \ {account}
  /\ UNCHANGED <<asks, person, rowVars, callerVars, lookerVars, differing, trampled, broken>>

Forgets(a) == differing' = [differing EXCEPT ![a] = {}]

\* A statement of the database fails, which ends the run; in recordFailure the
\* error is swallowed, which ends it too.
StatementFails ==
  /\ ~broken /\ broken' = TRUE
  /\ \/ \E c \in Callers : at[c] \in {"admitted", "answered", "failed", "saving"}
                           /\ Goes(c, "idle") /\ Drops(c) /\ Forgets(c) /\ UNCHANGED lookerVars
     \/ \E l \in Lookers : look[l] \in {"told", "submitted", "recording", "filing", "saved"}
                           /\ Ends(l) /\ Forgets(l) /\ UNCHANGED callerVars
  /\ UNCHANGED <<asks, person, rowVars, account, trampled>>

Restart ==
  /\ ~broken /\ broken' = TRUE
  /\ at' = [c \in Callers |-> "idle"] /\ mine' = [c \in Callers |-> NoRow]
  /\ look' = [l \in Lookers |-> "idle"]
  /\ copy' = [l \in Lookers |-> NoRow]
  /\ differing' = [a \in Callers \cup Lookers |-> {}]
  /\ UNCHANGED <<asks, person, rowVars, account, trampled>>

CallerNext(c) ==
  \/ Onboard(c) \/ Enrol(c) \/ Claim(c) \/ Reclaim(c) \/ IssuerTakes(c) \/ CallFails(c)
  \/ RecordAnswer(c) \/ RecordFailure(c) \/ UpdateRow(c)

LookerNext(l) ==
  \/ IF l = Sweeper THEN Sweep(l) ELSE ReadForSync(l) \/ ReadForKyc(l)
  \/ Ask(l) \/ AskFails(l) \/ SubmitKyc(l)
  \/ SaveTold(l) \/ SaveSubmitted(l) \/ UpdateTold(l) \/ UpdateSubmitted(l) \/ Announce(l)

Next ==
  \/ \E c \in Callers : CallerNext(c)
  \/ \E l \in Lookers : LookerNext(l)
  \/ IssuerDecides \/ StatementFails \/ Restart

\* The timer ticks for ever, a run it started goes on, and an issuer asked for
\* ever answers in the end. Any other run may stop where it is, and nothing
\* makes the issuer decide.
Fairness ==
  /\ SF_vars(Sweep(Sweeper)) /\ SF_vars(Ask(Sweeper))
  /\ WF_vars(AskFails(Sweeper) \/ SaveTold(Sweeper) \/ UpdateTold(Sweeper) \/ Announce(Sweeper))

Spec == Init /\ [][Next]_vars /\ Fairness

-----------------------------------------------------------------------------
TypeOK ==
  /\ asks \in BOOLEAN /\ person \in BOOLEAN /\ stored \in BOOLEAN /\ row \in Rows
  /\ account \in Words \cup {"none"}
  /\ at \in [Callers -> {"idle", "admitted", "calling", "answered", "failed", "saving"}]
  /\ mine \in [Callers -> Rows]
  /\ look \in [Lookers -> {"idle", "asking", "submitting", "told", "submitted", "recording", "filing", "saved"}]
  /\ copy \in [Lookers -> Rows]
  /\ differing \in [Callers \cup Lookers -> SUBSET Columns]
  /\ untold \in BOOLEAN /\ trampled \in BOOLEAN /\ broken \in BOOLEAN

InFlight(c) == at[c] \in {"calling", "answered", "failed", "saving"}

\* One attempt at a time: while the issuer is being asked to take the person,
\* no second request gets past the claim, unless somebody who only wanted to
\* know has meanwhile saved over the DRAFT that holds the claim.
ClaimIsExclusive ==
  trampled \/ \A c, d \in Callers : InFlight(c) /\ InFlight(d) => c = d

\* A refusal leaves no person behind: once nobody is at work, a stored person
\* has been put to an issuer, unless a write failed or the process restarted.
NoOrphan ==
  person /\ (\A c \in Callers : at[c] # "admitted") => stored \/ broken

\* A status that a reading made terminal has been announced once that run is
\* over, whoever else was writing the row, unless it was cut short.
DecisionIsTold ==
  untold /\ (\A l \in Lookers : look[l] # "saved") => broken

\* The issuer's identifier is never lost again: no stale copy blanks it.
IdentityKept == [][row.known => row'.known]_vars

\* What the issuer has decided for good is what the row comes to say and keeps
\* saying, whatever stale copies are saved on the way. Left out are the two
\* statuses the sweep does not read: an ERROR, which waits for a request, and
\* the DRAFT of an attempt that was cut short.
DecisionIsRecorded ==
  <>[](account = "approved" /\ row.known => row.status \in {"APPROVED", "ERROR", "DRAFT"})
=============================================================================
