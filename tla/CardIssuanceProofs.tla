------------------------- MODULE CardIssuanceProofs -------------------------
(***************************************************************************)
(* Proofs about CardIssuance, for every set of lookups, status passes and  *)
(* activations. The inductive invariant is IInv of that module.            *)
(***************************************************************************)
EXTENDS CardIssuance, FiniteSetTheorems, TLAPS

LEMMA RecordType ==
  ASSUME TypeOK, NEW from \in CardStatuses, NEW to \in CardStatuses, Record(from, to)
  PROVE  trace' \in [CardStatuses -> Int]
BY DEF TypeOK, Record

LEMMA BecomesType ==
  ASSUME TypeOK, NEW s \in CardStatuses, Becomes(s)
  PROVE  card' \in CardStatuses /\ entries' \in Nat
BY DEF TypeOK, Becomes

-----------------------------------------------------------------------------
(* Type correctness. *)

LEMMA InitType == Init => TypeOK
<1> SUFFICES ASSUME Init PROVE TypeOK
  OBVIOUS
<1> USE DEF Init
<1>1. NoAnswer \in Answers /\ NoReading \in Readings /\ NoCard \in Cards
  BY DEF NoAnswer, NoReading, NoCard, Answers, Readings, Cards, CardStatuses, Stages
<1>2. /\ heard \in [Observers -> Answers] /\ snap \in [Observers -> Cards]
      /\ told \in [Watchers -> Readings]
  BY <1>1
<1>3. /\ saw \in [Watchers -> Stages] /\ had \in [Activations -> Stages]
      /\ got \in [Activations -> CardStatuses]
  BY DEF Stages, CardStatuses
<1>4. /\ at \in [Observers -> {"idle", "loaded", "answered", "read", "usable"}]
      /\ looking \in [Watchers -> {"idle", "loaded", "answered", "usable"}]
      /\ act \in [Activations -> {"start", "calling", "accepted", "stamped", "usable", "done", "lost"}]
  OBVIOUS
<1>5. moves \in 0..MaxMoves /\ oper \in [Operations -> {"start", "moved", "done", "lost"}]
  BY MovesAssumption
<1>6. trace \in [CardStatuses -> Int]
  OBVIOUS
<1>7. /\ card \in CardStatuses /\ activation \in Stages /\ answer \in CardStatuses
      /\ theirs \in CardStatuses /\ stage \in Stages /\ stale \in SUBSET Columns
      /\ takenBack \in CardStatuses /\ route \in [Operations -> Moves]
  BY DEF CardStatuses, Stages, Moves
<1>. QED
  BY <1>2, <1>3, <1>4, <1>5, <1>6, <1>7 DEF TypeOK

LEMMA RequestType ==
  ASSUME TypeOK, Request
  PROVE  TypeOK'
<1> USE DEF TypeOK, othersUnchanged, cardVars, recordVars, issuerVars, observerVars,
            watcherVars, activationVars, moveVars
<1>1. CASE WriteAttempt
  BY <1>1 DEF WriteAttempt, AppStatuses
<1>2. CASE Send
  BY <1>2 DEF Send
<1>3. CASE Receive
  BY <1>3 DEF Receive
<1>4. CASE TimeOut
  BY <1>4 DEF TimeOut
<1>5. CASE MarkSubmitted
  BY <1>5 DEF MarkSubmitted, AppStatuses
<1>6. CASE ReadForSave
  BY <1>6 DEF ReadForSave
<1>7. CASE Save
  <2>1. card' \in CardStatuses /\ entries' \in Nat
    BY <1>7, BecomesType DEF Save
  <2>2. /\ activation' \in Stages /\ opened' \in BOOLEAN
        /\ takenBack' \in CardStatuses /\ blanked' \in BOOLEAN
    BY <1>7 DEF Save, Stages, CopyOpened
  <2>. QED
    BY <1>7, <2>1, <2>2 DEF Save
<1>8. CASE RecordIssue
  <2>1. trace' \in [CardStatuses -> Int]
    BY <1>8, RecordType DEF RecordIssue, CardStatuses
  <2>. QED
    BY <1>8, <2>1 DEF RecordIssue
<1>9. CASE RecordFailure
  BY <1>9 DEF RecordFailure, FailureStatus, AppStatuses
<1>10. CASE Abandon
  BY <1>10 DEF Abandon
<1>. QED
  BY <1>1, <1>2, <1>3, <1>4, <1>5, <1>6, <1>7, <1>8, <1>9, <1>10 DEF Request

LEMMA IssuerType ==
  ASSUME TypeOK, Issuer
  PROVE  TypeOK'
<1> USE DEF TypeOK, outside, cardVars, recordVars, requestVars, observerVars, watcherVars,
            activationVars, moveVars
<1>1. CASE IssuerAnswers
  BY <1>1 DEF IssuerAnswers
<1>2. CASE IssuerDecides
  BY <1>2 DEF IssuerDecides
<1>3. CASE IssuerMovesCard
  BY <1>3 DEF IssuerMovesCard, Stages
<1>4. CASE IssuerRefusesActivation
  BY <1>4 DEF IssuerRefusesActivation, Stages
<1>. QED
  BY <1>1, <1>2, <1>3, <1>4 DEF Issuer

\* An observer that is done holds nothing of the types' concern.
LEMMA ReleaseType ==
  ASSUME TypeOK, NEW o \in Observers, Release(o)
  PROVE  /\ at' \in [Observers -> {"idle", "loaded", "answered", "read", "usable"}]
         /\ heard' \in [Observers -> Answers]
         /\ snap' \in [Observers -> Cards]
<1>1. NoAnswer \in Answers /\ NoCard \in Cards
  BY DEF NoAnswer, NoCard, Answers, Cards, CardStatuses, Stages
<1>. QED
  BY <1>1 DEF TypeOK, Release

LEMMA ObserveType ==
  ASSUME TypeOK, NEW o \in Observers, Observe(o)
  PROVE  TypeOK'
<1> USE DEF TypeOK, observing, cardVars, recordVars, requestVars, issuerVars, watcherVars,
            activationVars, moveVars
<1>1. CASE Load(o)
  BY <1>1 DEF Load
<1>2. CASE Ask(o)
  <2>1. [state |-> held, status |-> theirs] \in Answers
    BY <1>2 DEF Ask, Answers
  <2>. QED
    BY <1>2, <2>1 DEF Ask
<1>3. CASE GiveUp(o)
  BY <1>3, ReleaseType DEF GiveUp
<1>4. CASE RecordRejected(o)
  BY <1>4, ReleaseType DEF RecordRejected, AppStatuses
<1>5. CASE ReadCard(o)
  <2>1. CardRow \in Cards
    BY DEF CardRow, Cards
  <2>. QED
    BY <1>5, <2>1 DEF ReadCard
<1>6. CASE RecordIssued(o)
  <2>1. app' \in AppStatuses
    BY <1>6 DEF RecordIssued, AppStatuses
  <2>2. heard[o].status \in CardStatuses /\ snap[o].status \in CardStatuses
    BY DEF Answers, Cards
  <2>3. CASE AlreadyResolved(o)
    BY <1>6, <2>1, <2>3, ReleaseType DEF RecordIssued
  <2>4. CASE ~AlreadyResolved(o)
    <3>1. card' \in CardStatuses /\ entries' \in Nat /\ trace' \in [CardStatuses -> Int]
      BY <1>6, <2>2, <2>4, BecomesType, RecordType DEF RecordIssued
    <3>2. /\ at' \in [Observers -> {"idle", "loaded", "answered", "read", "usable"}]
          /\ heard' \in [Observers -> Answers]
          /\ snap' \in [Observers -> Cards]
      BY <1>6, <2>4, ReleaseType DEF RecordIssued
    <3>. QED
      BY <1>6, <2>1, <2>4, <3>1, <3>2 DEF RecordIssued
  <2>. QED
    BY <2>3, <2>4
<1>7. CASE TellUsable(o)
  BY <1>7, ReleaseType DEF TellUsable
<1>. QED
  BY <1>1, <1>2, <1>3, <1>4, <1>5, <1>6, <1>7 DEF Observe

LEMMA LookAwayType ==
  ASSUME TypeOK, NEW w \in Watchers, LookAway(w)
  PROVE  /\ looking' \in [Watchers -> {"idle", "loaded", "answered", "usable"}]
         /\ saw' \in [Watchers -> Stages]
         /\ told' \in [Watchers -> Readings]
<1>1. NoReading \in Readings /\ "none" \in Stages
  BY DEF NoReading, Readings, CardStatuses, Stages
<1>. QED
  BY <1>1 DEF TypeOK, LookAway

LEMMA WatchType ==
  ASSUME TypeOK, NEW w \in Watchers, WatchCard(w)
  PROVE  TypeOK'
<1> USE DEF TypeOK, watching, cardVars, recordVars, requestVars, issuerVars, observerVars,
            activationVars, moveVars
<1>1. CASE Watch(w)
  BY <1>1 DEF Watch
<1>2. CASE AskStatus(w)
  <2>1. [status |-> theirs, stage |-> stage] \in Readings
    BY DEF Readings
  <2>. QED
    BY <1>2, <2>1 DEF AskStatus
<1>3. CASE GiveUpWatch(w)
  BY <1>3, LookAwayType DEF GiveUpWatch
<1>4. CASE RecordObservation(w)
  <2>1. told[w].status \in CardStatuses /\ told[w].stage \in Stages
    BY DEF Readings
  <2>2. activation' \in Stages
    BY <1>4, <2>1 DEF RecordObservation, ColumnFor, Stages
  <2>3. card' \in CardStatuses /\ entries' \in Nat
    BY <1>4, <2>1, BecomesType DEF RecordObservation
  <2>4. trace' \in [CardStatuses -> Int]
    <3>1. "NOT_ACTIVATED" \in CardStatuses
      BY DEF CardStatuses
    <3>. QED
      BY <1>4, <2>1, <3>1, RecordType DEF RecordObservation
  <2>5. /\ looking' \in [Watchers -> {"idle", "loaded", "answered", "usable"}]
        /\ saw' \in [Watchers -> Stages]
        /\ told' \in [Watchers -> Readings]
    BY <1>4, LookAwayType DEF RecordObservation
  <2>. QED
    BY <1>4, <2>2, <2>3, <2>4, <2>5 DEF RecordObservation
<1>5. CASE RecordNoObservation(w)
  BY <1>5, LookAwayType DEF RecordNoObservation
<1>6. CASE TellWatched(w)
  BY <1>6, LookAwayType DEF TellWatched
<1>. QED
  BY <1>1, <1>2, <1>3, <1>4, <1>5, <1>6 DEF WatchCard

LEMMA ActivateType ==
  ASSUME TypeOK, NEW a \in Activations, Activate(a)
  PROVE  TypeOK'
<1> USE DEF TypeOK, activating, cardVars, recordVars, requestVars, observerVars, watcherVars,
            moveVars
<1>1. CASE ReadForActivation(a)
  BY <1>1 DEF ReadForActivation
<1>2. CASE IssuerTakesActivation(a)
  <2>1. stage' \in Stages
    BY <1>2 DEF IssuerTakesActivation, Stages
  <2>2. got' \in [Activations -> CardStatuses]
    <3>1. CASE reports
      BY <1>2, <3>1 DEF IssuerTakesActivation
    <3>2. CASE ~reports
      <4>1. PICK s \in CardStatuses : got' = [got EXCEPT ![a] = s]
        BY <1>2, <3>2 DEF IssuerTakesActivation
      <4>. QED
        BY <4>1
    <3>. QED
      BY <3>1, <3>2
  <2>3. /\ act' = [act EXCEPT ![a] = "accepted"]
        /\ UNCHANGED <<card, opened, activation, trace, news, entries, takenBack, blanked, had>>
        /\ activating
    BY <1>2 DEF IssuerTakesActivation
  <2>. QED
    BY <2>1, <2>2, <2>3
<1>3. CASE Stamp(a)
  <2>1. card' \in CardStatuses /\ entries' \in Nat
    BY <1>3, BecomesType DEF Stamp
  <2>2. activation' \in Stages
    BY <1>3 DEF Stamp, ColumnAfter, Stages
  <2>. QED
    BY <1>3, <2>1, <2>2 DEF Stamp
<1>4. CASE LeaveCard(a)
  BY <1>4 DEF LeaveCard
<1>5. CASE RecordActivation(a)
  <2>1. trace' \in [CardStatuses -> Int]
    BY <1>5, RecordType DEF RecordActivation, CardStatuses
  <2>. QED
    BY <1>5, <2>1 DEF RecordActivation
<1>6. CASE TellActivated(a)
  BY <1>6 DEF TellActivated
<1>7. CASE Drop(a)
  <2>1. stage' \in Stages
    BY <1>7 DEF Drop, Stages
  <2>. QED
    BY <1>7, <2>1 DEF Drop
<1>. QED
  BY <1>1, <1>2, <1>3, <1>4, <1>5, <1>6, <1>7 DEF Activate

LEMMA NoticeType ==
  ASSUME TypeOK, Notice
  PROVE  TypeOK'
<1>1. PICK s \in CardStatuses \ {card} :
        /\ Becomes(s) /\ Record(card, s)
        /\ activation' = IF s = "ACTIVE" THEN "none" ELSE activation
  BY DEF Notice
<1>2. s \in CardStatuses /\ card \in CardStatuses
  BY <1>1 DEF TypeOK
<1>3. card' \in CardStatuses /\ entries' \in Nat /\ trace' \in [CardStatuses -> Int]
  BY <1>1, <1>2, BecomesType, RecordType
<1>4. activation' \in Stages
  BY <1>1 DEF TypeOK, Stages
<1>5. moves' \in 0..MaxMoves
  BY MovesAssumption DEF Notice, TypeOK
<1>. QED
  BY <1>3, <1>4, <1>5
     DEF Notice, TypeOK, requestVars, issuerVars, observerVars, watcherVars, activationVars

LEMMA MoveType ==
  ASSUME TypeOK, NEW b \in Operations, Move(b)
  PROVE  TypeOK'
<1> USE DEF operating, requestVars, issuerVars, observerVars, watcherVars, activationVars
<1>1. CASE Operate(b)
  <2>1. PICK s \in CardStatuses \ {card} :
          /\ Becomes(s)
          /\ route' = [route EXCEPT ![b] = [from |-> card, to |-> s]]
          /\ IF reports THEN Record(card, s) ELSE UNCHANGED trace
    BY <1>1 DEF Operate, Operable, CardStatuses
  <2>2. s \in CardStatuses /\ card \in CardStatuses
    BY <2>1 DEF TypeOK
  <2>3. card' \in CardStatuses /\ entries' \in Nat
    BY <2>1, <2>2, BecomesType
  <2>4. trace' \in [CardStatuses -> Int]
    BY <2>1, <2>2, RecordType DEF TypeOK
  <2>5. route' \in [Operations -> Moves]
    BY <2>1, <2>2 DEF TypeOK, Moves
  <2>. QED
    BY <1>1, <2>3, <2>4, <2>5 DEF Operate, TypeOK
<1>2. CASE RecordOperation(b)
  <2>1. route[b].from \in CardStatuses /\ route[b].to \in CardStatuses
    BY DEF TypeOK, Moves
  <2>2. trace' \in [CardStatuses -> Int]
    BY <1>2, <2>1, RecordType DEF RecordOperation
  <2>. QED
    BY <1>2, <2>2 DEF RecordOperation, TypeOK
<1>3. CASE DropOperation(b)
  BY <1>3 DEF DropOperation, TypeOK
<1>. QED
  BY <1>1, <1>2, <1>3 DEF Move

LEMMA TypeStep == TypeOK /\ [Next]_vars => TypeOK'
<1> SUFFICES ASSUME TypeOK, [Next]_vars PROVE TypeOK'
  OBVIOUS
<1>1. CASE UNCHANGED vars
  BY <1>1 DEF TypeOK, vars, cardVars, recordVars, requestVars, issuerVars, observerVars,
              watcherVars, activationVars, moveVars
<1>. QED
  BY <1>1, RequestType, IssuerType, ObserveType, WatchType, ActivateType, NoticeType,
     MoveType DEF Next

-----------------------------------------------------------------------------
(* The inductive invariant. What an actor does not write, it does not      *)
(* disturb: one lemma per actor, one step per action, and under it one for *)
(* each conjunct that reads what the action writes.                        *)

Parts ==
  /\ DecisionIsIssuers
  /\ AnswersAreFinal
  /\ RequestMatchesIssuer
  /\ SavedFirst
  /\ WritersSawCardOpened
  /\ CardFollowsIssuer
  /\ PendingIsResolvable

LEMMA InitParts == Init => Parts
BY DEF Init, Parts, DecisionIsIssuers, AnswersAreFinal, RequestMatchesIssuer, SavedFirst,
       WritersSawCardOpened, CardFollowsIssuer, PendingIsResolvable, Selected, NoAnswer, NoReading

LEMMA RequestParts ==
  ASSUME TypeOK, Parts, Request
  PROVE  Parts'
<1> USE DEF Parts, DecisionIsIssuers, AnswersAreFinal, RequestMatchesIssuer, SavedFirst,
            WritersSawCardOpened, CardFollowsIssuer, PendingIsResolvable, Selected,
            othersUnchanged, cardVars, recordVars, issuerVars, observerVars, watcherVars,
            activationVars, moveVars
<1>1. CASE WriteAttempt
  BY <1>1 DEF WriteAttempt
<1>2. CASE Send
  BY <1>2 DEF Send
<1>3. CASE Receive
  BY <1>3 DEF Receive
<1>4. CASE TimeOut
  BY <1>4 DEF TimeOut
<1>5. CASE MarkSubmitted
  BY <1>5 DEF MarkSubmitted
<1>6. CASE ReadForSave
  <2>1. "status" \in stale' <=> card # answer
    BY <1>6 DEF ReadForSave, Columns
  <2>2. /\ caller = "submitted" /\ caller' = "saving"
        /\ UNCHANGED <<reports, card, opened, activation, app, takenBack, blanked, wire, answer, held,
                        theirs, at, heard, looking, told, act, got>>
    BY <1>6 DEF ReadForSave
  <2>. QED
    BY <2>1, <2>2
<1>7. CASE Save
  <2>1. /\ caller = "saving" /\ caller' = "saved"
        /\ opened' = IF "opened" \in stale THEN CopyOpened ELSE opened
        /\ card' = IF "status" \in stale THEN answer ELSE card
        /\ activation' = activation \/ activation' = "none"
        /\ takenBack' = IF "status" \in stale THEN card ELSE takenBack
        /\ blanked' = (blanked \/ (opened /\ ~opened'))
        /\ UNCHANGED <<reports, app, wire, answer, held, theirs, at, heard, looking, told, act, got>>
    BY <1>7 DEF Save, Becomes
  <2>2. CASE reports
    <3>1. ~CopyOpened /\ answer = "NOT_ACTIVATED"
      BY <2>2 DEF CopyOpened
    <3>2. card' = card \/ card' = "NOT_ACTIVATED"
      BY <2>1, <3>1
    <3>3. opened' = opened \/ (~opened' /\ (opened => blanked'))
      BY <2>1, <3>1 DEF TypeOK
    <3>4. blanked => blanked'
      BY <2>1
    <3>. QED
      BY <2>1, <2>2, <3>1, <3>2, <3>3, <3>4
  <2>3. CASE ~reports
    <3>1. CopyOpened /\ ~opened /\ card = "NOT_ACTIVATED" /\ ~blanked /\ takenBack = "NOT_ACTIVATED"
      BY <2>1, <2>3 DEF CopyOpened
    <3>2. ~blanked' /\ takenBack' = "NOT_ACTIVATED" /\ activation' # "PENDING" /\ held = "ISSUED"
      BY <2>1, <2>3, <3>1
    <3>. QED
      BY <2>1, <2>3, <3>1, <3>2
  <2>. QED
    BY <2>2, <2>3
<1>8. CASE RecordIssue
  BY <1>8 DEF RecordIssue
<1>9. CASE RecordFailure
  BY <1>9 DEF RecordFailure, FailureStatus
<1>10. CASE Abandon
  BY <1>10 DEF Abandon
<1>. QED
  BY <1>1, <1>2, <1>3, <1>4, <1>5, <1>6, <1>7, <1>8, <1>9, <1>10 DEF Request

LEMMA IssuerParts ==
  ASSUME TypeOK, Parts, Issuer
  PROVE  Parts'
<1> USE DEF Parts, DecisionIsIssuers, AnswersAreFinal, RequestMatchesIssuer, SavedFirst,
            WritersSawCardOpened, CardFollowsIssuer, PendingIsResolvable, Selected,
            outside, cardVars, recordVars, requestVars, observerVars, watcherVars, activationVars, moveVars
<1>1. CASE IssuerAnswers
  BY <1>1 DEF IssuerAnswers
<1>2. CASE IssuerDecides
  BY <1>2 DEF IssuerDecides
<1>3. CASE IssuerMovesCard
  BY <1>3 DEF IssuerMovesCard
<1>4. CASE IssuerRefusesActivation
  BY <1>4 DEF IssuerRefusesActivation
<1>. QED
  BY <1>1, <1>2, <1>3, <1>4 DEF Issuer

LEMMA ObserveParts ==
  ASSUME TypeOK, Parts, NEW o \in Observers, Observe(o)
  PROVE  Parts'
<1> USE DEF Parts, DecisionIsIssuers, AnswersAreFinal, RequestMatchesIssuer, SavedFirst,
            WritersSawCardOpened, CardFollowsIssuer, PendingIsResolvable, Selected, TypeOK,
            observing, cardVars, recordVars, requestVars, issuerVars, watcherVars, activationVars, moveVars,
            Release, NoAnswer
<1>1. CASE Load(o)
  BY <1>1 DEF Load
<1>2. CASE Ask(o)
  BY <1>2 DEF Ask
<1>3. CASE GiveUp(o)
  BY <1>3 DEF GiveUp
<1>4. CASE RecordRejected(o)
  BY <1>4 DEF RecordRejected
<1>5. CASE ReadCard(o)
  BY <1>5 DEF ReadCard
<1>6. CASE RecordIssued(o)
  <2>1. CASE AlreadyResolved(o)
    BY <1>6, <2>1 DEF RecordIssued
  <2>2. CASE ~AlreadyResolved(o)
    <3>1. /\ at[o] = "read" /\ app' = "APPROVED" /\ card' = heard[o].status /\ opened'
          /\ UNCHANGED <<activation, takenBack, blanked>>
          /\ UNCHANGED <<reports, caller, wire, answer, stale, held, theirs, looking, told, act, got>>
      BY <1>6, <2>2 DEF RecordIssued, Becomes
    <3>2. /\ at' \in {[at EXCEPT ![o] = "usable"], [at EXCEPT ![o] = "idle"]}
          /\ heard' \in {heard, [heard EXCEPT ![o] = NoAnswer]}
          /\ at' = [at EXCEPT ![o] = "usable"] => heard' = heard
      BY <1>6, <2>2 DEF RecordIssued
    <3>3. held = "ISSUED" /\ reports /\ heard[o].state = "ISSUED"
      BY <3>1
    <3>4. AnswersAreFinal'
      BY <3>1, <3>2, <3>3
    <3>5. CardFollowsIssuer'
      BY <3>1, <3>2
    <3>. QED
      BY <3>1, <3>3, <3>4, <3>5
  <2>. QED
    BY <2>1, <2>2
<1>7. CASE TellUsable(o)
  BY <1>7 DEF TellUsable
<1>. QED
  BY <1>1, <1>2, <1>3, <1>4, <1>5, <1>6, <1>7 DEF Observe

LEMMA WatchParts ==
  ASSUME TypeOK, Parts, NEW w \in Watchers, WatchCard(w)
  PROVE  Parts'
<1> USE DEF Parts, DecisionIsIssuers, AnswersAreFinal, RequestMatchesIssuer, SavedFirst,
            WritersSawCardOpened, CardFollowsIssuer, PendingIsResolvable, Selected, TypeOK,
            watching, cardVars, recordVars, requestVars, issuerVars, observerVars, activationVars, moveVars,
            LookAway, NoReading
<1>1. CASE Watch(w)
  BY <1>1 DEF Watch
<1>2. CASE AskStatus(w)
  BY <1>2 DEF AskStatus
<1>3. CASE GiveUpWatch(w)
  BY <1>3 DEF GiveUpWatch
<1>4. CASE RecordObservation(w)
  <2>1. /\ looking[w] = "answered" /\ card = "NOT_ACTIVATED"
        /\ card' = told[w].status
        /\ activation' = "PENDING" => activation = "PENDING" \/ told[w].status # "ACTIVE"
        /\ UNCHANGED <<opened, takenBack, blanked, reports, app, caller, wire, answer, stale, held, theirs,
                       at, heard, act, got>>
    BY <1>4 DEF RecordObservation, StillNotActivated, StatusChanged, ActivationChanged, ColumnFor, Clears,
                Becomes
  <2>2. /\ looking' \in {[looking EXCEPT ![w] = "usable"], [looking EXCEPT ![w] = "idle"]}
        /\ told' \in {told, [told EXCEPT ![w] = NoReading]}
    BY <1>4 DEF RecordObservation
  <2>3. reports /\ (opened \/ blanked)
    BY <2>1
  <2>4. PendingIsResolvable' /\ CardFollowsIssuer'
    BY <2>1, <2>2, <2>3
  <2>. QED
    BY <2>1, <2>2, <2>3, <2>4
<1>5. CASE RecordNoObservation(w)
  BY <1>5 DEF RecordNoObservation
<1>6. CASE TellWatched(w)
  BY <1>6 DEF TellWatched
<1>. QED
  BY <1>1, <1>2, <1>3, <1>4, <1>5, <1>6 DEF WatchCard

LEMMA ActivateParts ==
  ASSUME TypeOK, Parts, NEW a \in Activations, Activate(a)
  PROVE  Parts'
<1> USE DEF Parts, DecisionIsIssuers, AnswersAreFinal, RequestMatchesIssuer, SavedFirst,
            WritersSawCardOpened, CardFollowsIssuer, PendingIsResolvable, Selected, TypeOK,
            activating, cardVars, recordVars, requestVars, observerVars, watcherVars, moveVars
<1>1. CASE ReadForActivation(a)
  BY <1>1 DEF ReadForActivation, MayActivate
<1>2. CASE IssuerTakesActivation(a)
  BY <1>2 DEF IssuerTakesActivation
<1>3. CASE Stamp(a)
  <2>1. /\ act[a] = "accepted" /\ act' = [act EXCEPT ![a] = "stamped"]
        /\ card = "NOT_ACTIVATED" /\ card' = got[a]
        /\ activation' = "PENDING" => reports
        /\ UNCHANGED <<reports, opened, app, takenBack, blanked, caller, wire, answer, stale, held,
                       theirs, at, heard, looking, told, got>>
    BY <1>3 DEF Stamp, CardAsRead, ColumnAfter, Becomes
  <2>2. opened \/ blanked
    BY <2>1
  <2>3. ~reports => caller \in {"saved", "done", "lost"}
    BY <2>1, <2>2
  <2>4. PendingIsResolvable'
    BY <2>1, <2>2
  <2>. QED
    BY <2>1, <2>3, <2>4
<1>4. CASE LeaveCard(a)
  BY <1>4 DEF LeaveCard
<1>5. CASE RecordActivation(a)
  BY <1>5 DEF RecordActivation
<1>6. CASE TellActivated(a)
  BY <1>6 DEF TellActivated
<1>7. CASE Drop(a)
  BY <1>7 DEF Drop
<1>. QED
  BY <1>1, <1>2, <1>3, <1>4, <1>5, <1>6, <1>7 DEF Activate

LEMMA NoticeParts ==
  ASSUME TypeOK, Parts, Notice
  PROVE  Parts'
<1>1. PICK s \in CardStatuses \ {card} :
        /\ s = "NOT_ACTIVATED" \/ theirs # "NOT_ACTIVATED"
        /\ card' = s
        /\ activation' = IF s = "ACTIVE" THEN "none" ELSE activation
  BY DEF Notice, Becomes
<1>2. opened /\ card \notin TerminalCard
      /\ UNCHANGED <<reports, opened, app, takenBack, blanked, caller, wire, answer, stale,
                     held, theirs, at, heard, looking, told, act, got>>
  BY DEF Notice, requestVars, issuerVars, observerVars, watcherVars, activationVars
<1>. QED
  BY <1>1, <1>2
     DEF Parts, DecisionIsIssuers, AnswersAreFinal, RequestMatchesIssuer, SavedFirst,
         WritersSawCardOpened, CardFollowsIssuer, PendingIsResolvable, Selected

LEMMA MoveParts ==
  ASSUME TypeOK, Parts, NEW b \in Operations, Move(b)
  PROVE  Parts'
<1>1. UNCHANGED <<reports, opened, activation, app, takenBack, blanked, caller, wire, answer, stale,
                  held, theirs, at, heard, looking, told, act, got>>
  BY DEF Move, Operate, RecordOperation, DropOperation, operating, requestVars, issuerVars,
         observerVars, watcherVars, activationVars
<1>2. card' = card \/ (opened /\ card \in Operable)
  BY DEF Move, Operate, RecordOperation, DropOperation
<1>. QED
  BY <1>1, <1>2
     DEF Parts, DecisionIsIssuers, AnswersAreFinal, RequestMatchesIssuer, SavedFirst, Operable,
         WritersSawCardOpened, CardFollowsIssuer, PendingIsResolvable, Selected

\* The invariant holds for ever.
THEOREM Invariant == Spec => []IInv
<1>1. Init => IInv
  BY InitType, InitParts DEF IInv, Parts
<1>2. IInv /\ [Next]_vars => IInv'
  <2> SUFFICES ASSUME IInv, [Next]_vars PROVE Parts'
    BY TypeStep DEF IInv, Parts
  <2>1. TypeOK /\ Parts
    BY DEF IInv, Parts
  <2>2. CASE UNCHANGED vars
    BY <2>1, <2>2
       DEF vars, cardVars, recordVars, requestVars, issuerVars, observerVars, watcherVars,
           activationVars, moveVars, Parts, DecisionIsIssuers, AnswersAreFinal, RequestMatchesIssuer, SavedFirst,
           WritersSawCardOpened, CardFollowsIssuer, PendingIsResolvable, Selected
  <2>. QED
    BY <2>1, <2>2, RequestParts, IssuerParts, ObserveParts, WatchParts, ActivateParts,
       NoticeParts, MoveParts
       DEF Next
<1>. QED
  BY <1>1, <1>2, PTL DEF Spec

(***************************************************************************)
(* An application is decided, and a card opened, only as the issuer        *)
(* decided, however late the lookups are that write it.                    *)
(***************************************************************************)
THEOREM DecisionsHold == Spec => []DecisionIsIssuers
<1>1. IInv => DecisionIsIssuers
  BY DEF IInv
<1>. QED
  BY <1>1, Invariant, PTL

(***************************************************************************)
(* A card that awaits an activation is one the status pass selects, unless *)
(* it has moved on at the issuer, or the request's save has blanked its    *)
(* identifier.                                                             *)
(***************************************************************************)
THEOREM PendingHolds == Spec => []PendingIsResolvable
<1>1. IInv => PendingIsResolvable
  BY DEF IInv
<1>. QED
  BY <1>1, Invariant, PTL

-----------------------------------------------------------------------------
(* Counting. Every step adds at most one member to a set, or removes one.  *)

LEMMA CountAdded ==
  ASSUME NEW S, IsFiniteSet(S), NEW x, x \notin S, NEW T, T = S \cup {x}
  PROVE  Cardinality(S) \in Nat /\ Cardinality(T) = Cardinality(S) + 1
BY FS_AddElement, FS_CardinalityType

LEMMA CountRemoved ==
  ASSUME NEW S, IsFiniteSet(S), NEW x, x \in S, NEW T, T = S \ {x}
  PROVE  /\ Cardinality(S) \in Nat /\ Cardinality(T) \in Nat
         /\ Cardinality(T) = Cardinality(S) - 1
BY FS_RemoveElement, FS_CardinalityType, FS_Subset

LEMMA TellingFinite ==
  /\ IsFiniteSet(TellingObservers) /\ Cardinality(TellingObservers) \in Nat
  /\ IsFiniteSet(TellingWatchers) /\ Cardinality(TellingWatchers) \in Nat
  /\ IsFiniteSet(TellingActivations) /\ Cardinality(TellingActivations) \in Nat
BY ActorsAssumption, FS_Subset, FS_CardinalityType
   DEF TellingObservers, TellingWatchers, TellingActivations

\* A card that becomes active when it is not is counted once more, and never less.
LEMMA BecomesCounts ==
  ASSUME TypeOK, NEW s \in CardStatuses, Becomes(s)
  PROVE  /\ entries' \in {entries, entries + 1}
         /\ s = "ACTIVE" /\ card # "ACTIVE" => entries' = entries + 1
BY DEF TypeOK, Becomes

\* Where nobody starts to announce, and nothing is queued, nothing is owed.
LEMMA NothingToTell ==
  ASSUME TypeOK, TypeOK', ActivatedOncePerMove,
         UNCHANGED <<TellingObservers, TellingWatchers, TellingActivations>>,
         news' = news, entries' \in {entries, entries + 1}
  PROVE  ActivatedOncePerMove'
<1>1. /\ Cardinality(TellingObservers) \in Nat /\ Cardinality(TellingWatchers) \in Nat
      /\ Cardinality(TellingActivations) \in Nat
  BY TellingFinite
<1>2. Announcing' = Announcing /\ Announcing \in Nat
  BY <1>1 DEF Announcing
<1>3. news \in Nat /\ entries \in Nat
  BY DEF TypeOK
<1>. QED
  BY <1>2, <1>3 DEF ActivatedOncePerMove

LEMMA ObserveTells ==
  ASSUME TypeOK, TypeOK', ActivatedOncePerMove, NEW o \in Observers, Observe(o)
  PROVE  ActivatedOncePerMove'
<1> DEFINE N == Cardinality(TellingObservers)
           R == Cardinality(TellingWatchers) + Cardinality(TellingActivations)
<1>1. N \in Nat /\ R \in Nat /\ news \in Nat /\ entries \in Nat /\ news + N + R <= entries
  BY TellingFinite DEF TypeOK, ActivatedOncePerMove, Announcing
<1>2. UNCHANGED <<TellingWatchers, TellingActivations>>
  <2>1. UNCHANGED <<looking, act, got>>
    BY DEF Observe, Load, Ask, GiveUp, RecordRejected, ReadCard, RecordIssued, TellUsable,
           observing, watcherVars, activationVars, moveVars
  <2>. QED
    BY <2>1 DEF TellingWatchers, TellingActivations
<1>3. SUFFICES N' \in Nat /\ news' + N' + R <= entries'
  BY <1>2, TellingFinite DEF ActivatedOncePerMove, Announcing, TypeOK
<1>4. ASSUME at[o] # "usable", at'[o] # "usable", \E x : at' = [at EXCEPT ![o] = x]
      PROVE  N' = N
  <2>1. TellingObservers' = TellingObservers
    BY <1>4 DEF TypeOK, TellingObservers
  <2>. QED
    BY <2>1
<1>5. ASSUME at[o] = "usable", at' = [at EXCEPT ![o] = "idle"]
      PROVE  N' \in Nat /\ N' = N - 1
  <2>1. o \in TellingObservers /\ TellingObservers' = TellingObservers \ {o}
    BY <1>5 DEF TypeOK, TellingObservers
  <2>. QED
    BY <2>1, TellingFinite, CountRemoved
<1>6. ASSUME at[o] # "usable", at' = [at EXCEPT ![o] = "usable"]
      PROVE  N' = N + 1
  <2>1. o \notin TellingObservers /\ TellingObservers' = TellingObservers \cup {o}
    BY <1>6 DEF TypeOK, TellingObservers
  <2>. QED
    BY <2>1, TellingFinite, CountAdded
<1> HIDE DEF N, R
<1>7. CASE Load(o) \/ Ask(o) \/ ReadCard(o) \/ RecordRejected(o)
  <2>1. at[o] # "usable" /\ at'[o] # "usable" /\ \E x : at' = [at EXCEPT ![o] = x]
    BY <1>7 DEF Load, Ask, ReadCard, RecordRejected, Release, TypeOK
  <2>2. UNCHANGED <<news, entries>>
    BY <1>7 DEF Load, Ask, ReadCard, RecordRejected, recordVars
  <2>. QED
    BY <1>1, <1>4, <2>1, <2>2
<1>8. CASE GiveUp(o)
  <2>1. at' = [at EXCEPT ![o] = "idle"] /\ UNCHANGED <<news, entries>>
    BY <1>8 DEF GiveUp, Release, recordVars
  <2>2. at'[o] = "idle"
    BY <2>1 DEF TypeOK
  <2>3. news' = news /\ entries' = entries
    BY <2>1
  <2>4. CASE at[o] = "usable"
    <3>1. N' \in Nat /\ N' = N - 1
      BY <1>5, <2>1, <2>4
    <3>. QED
      BY <1>1, <2>3, <3>1
  <2>5. CASE at[o] # "usable"
    <3>1. N' = N
      BY <1>4, <2>1, <2>2, <2>5
    <3>. QED
      BY <1>1, <2>3, <3>1
  <2>. QED
    BY <2>4, <2>5
<1>9. CASE TellUsable(o)
  <2>1. at[o] = "usable" /\ at' = [at EXCEPT ![o] = "idle"] /\ news' = news + 1 /\ entries' = entries
    BY <1>9 DEF TellUsable, Release
  <2>. QED
    BY <1>1, <1>5, <2>1
<1>10. CASE RecordIssued(o)
  <2>0. at[o] = "read" /\ heard[o].status \in CardStatuses
    BY <1>10 DEF RecordIssued, TypeOK, Answers
  <2>1. CASE AlreadyResolved(o) \/ ~BecameUsable(o)
    <3>1. at' = [at EXCEPT ![o] = "idle"] /\ news' = news
      BY <1>10, <2>1 DEF RecordIssued, Release, recordVars
    <3>2. at'[o] = "idle"
      BY <3>1 DEF TypeOK
    <3>3. entries' \in {entries, entries + 1}
      BY <1>10, <2>0, BecomesCounts DEF RecordIssued, recordVars
    <3>4. N' = N
      BY <1>4, <2>0, <3>1, <3>2
    <3>. QED
      BY <1>1, <3>1, <3>3, <3>4
  <2>2. CASE ~AlreadyResolved(o) /\ BecameUsable(o)
    <3>1. at' = [at EXCEPT ![o] = "usable"] /\ news' = news /\ Becomes(heard[o].status)
          /\ UnchangedSince(o)
      BY <1>10, <2>2 DEF RecordIssued
    <3>2. card # "ACTIVE" /\ heard[o].status = "ACTIVE"
      BY <2>2, <3>1 DEF BecameUsable, UnchangedSince, CardRow
    <3>3. entries' = entries + 1
      BY <2>0, <3>1, <3>2, BecomesCounts
    <3>. QED
      BY <1>1, <1>6, <2>0, <3>1, <3>3
  <2>. QED
    BY <2>1, <2>2
<1>. QED
  BY <1>7, <1>8, <1>9, <1>10 DEF Observe

LEMMA WatchTells ==
  ASSUME TypeOK, TypeOK', ActivatedOncePerMove, NEW w \in Watchers, WatchCard(w)
  PROVE  ActivatedOncePerMove'
<1> DEFINE N == Cardinality(TellingWatchers)
           R == Cardinality(TellingObservers) + Cardinality(TellingActivations)
<1>1. N \in Nat /\ R \in Nat /\ news \in Nat /\ entries \in Nat /\ news + N + R <= entries
  BY TellingFinite DEF TypeOK, ActivatedOncePerMove, Announcing
<1>2. UNCHANGED <<TellingObservers, TellingActivations>>
  <2>1. UNCHANGED <<at, act, got>>
    BY DEF WatchCard, Watch, AskStatus, GiveUpWatch, RecordObservation, RecordNoObservation,
           TellWatched, watching, observerVars, activationVars, moveVars
  <2>. QED
    BY <2>1 DEF TellingObservers, TellingActivations
<1>3. SUFFICES N' \in Nat /\ news' + N' + R <= entries'
  BY <1>2, TellingFinite DEF ActivatedOncePerMove, Announcing, TypeOK
<1>4. ASSUME looking[w] # "usable", looking'[w] # "usable", \E x : looking' = [looking EXCEPT ![w] = x]
      PROVE  N' = N
  <2>1. TellingWatchers' = TellingWatchers
    BY <1>4 DEF TypeOK, TellingWatchers
  <2>. QED
    BY <2>1
<1>5. ASSUME looking[w] = "usable", looking' = [looking EXCEPT ![w] = "idle"]
      PROVE  N' \in Nat /\ N' = N - 1
  <2>1. w \in TellingWatchers /\ TellingWatchers' = TellingWatchers \ {w}
    BY <1>5 DEF TypeOK, TellingWatchers
  <2>. QED
    BY <2>1, TellingFinite, CountRemoved
<1>6. ASSUME looking[w] # "usable", looking' = [looking EXCEPT ![w] = "usable"]
      PROVE  N' = N + 1
  <2>1. w \notin TellingWatchers /\ TellingWatchers' = TellingWatchers \cup {w}
    BY <1>6 DEF TypeOK, TellingWatchers
  <2>. QED
    BY <2>1, TellingFinite, CountAdded
<1> HIDE DEF N, R
<1>7. CASE Watch(w) \/ AskStatus(w) \/ RecordNoObservation(w)
  <2>1. looking[w] # "usable" /\ looking'[w] # "usable" /\ \E x : looking' = [looking EXCEPT ![w] = x]
    BY <1>7 DEF Watch, AskStatus, RecordNoObservation, LookAway, TypeOK
  <2>2. UNCHANGED <<news, entries>>
    BY <1>7 DEF Watch, AskStatus, RecordNoObservation, recordVars
  <2>. QED
    BY <1>1, <1>4, <2>1, <2>2
<1>8. CASE GiveUpWatch(w)
  <2>1. looking' = [looking EXCEPT ![w] = "idle"] /\ UNCHANGED <<news, entries>>
    BY <1>8 DEF GiveUpWatch, LookAway, recordVars
  <2>2. looking'[w] = "idle"
    BY <2>1 DEF TypeOK
  <2>3. news' = news /\ entries' = entries
    BY <2>1
  <2>4. CASE looking[w] = "usable"
    <3>1. N' \in Nat /\ N' = N - 1
      BY <1>5, <2>1, <2>4
    <3>. QED
      BY <1>1, <2>3, <3>1
  <2>5. CASE looking[w] # "usable"
    <3>1. N' = N
      BY <1>4, <2>1, <2>2, <2>5
    <3>. QED
      BY <1>1, <2>3, <3>1
  <2>. QED
    BY <2>4, <2>5
<1>9. CASE TellWatched(w)
  <2>1. looking[w] = "usable" /\ looking' = [looking EXCEPT ![w] = "idle"] /\ news' = news + 1
        /\ entries' = entries
    BY <1>9 DEF TellWatched, LookAway
  <2>. QED
    BY <1>1, <1>5, <2>1
<1>10. CASE RecordObservation(w)
  <2>0. /\ looking[w] = "answered" /\ told[w].status \in CardStatuses /\ news' = news
        /\ card = "NOT_ACTIVATED"
    BY <1>10 DEF RecordObservation, StillNotActivated, TypeOK, Readings
  <2>1. CASE told[w].status # "ACTIVE"
    <3>1. looking' = [looking EXCEPT ![w] = "idle"]
      BY <1>10, <2>1 DEF RecordObservation, LookAway
    <3>2. looking'[w] = "idle"
      BY <3>1 DEF TypeOK
    <3>3. entries' \in {entries, entries + 1}
      BY <1>10, <2>0, BecomesCounts DEF RecordObservation
    <3>4. N' = N
      BY <1>4, <2>0, <3>1, <3>2
    <3>. QED
      BY <1>1, <2>0, <3>3, <3>4
  <2>2. CASE told[w].status = "ACTIVE"
    <3>1. looking' = [looking EXCEPT ![w] = "usable"] /\ Becomes(told[w].status)
      BY <1>10, <2>2 DEF RecordObservation, StatusChanged
    <3>2. entries' = entries + 1
      BY <2>0, <2>2, <3>1, BecomesCounts
    <3>. QED
      BY <1>1, <1>6, <2>0, <3>1, <3>2
  <2>. QED
    BY <2>1, <2>2
<1>. QED
  BY <1>7, <1>8, <1>9, <1>10 DEF WatchCard

LEMMA ActivateTells ==
  ASSUME TypeOK, TypeOK', ActivatedOncePerMove, NEW a \in Activations, Activate(a)
  PROVE  ActivatedOncePerMove'
<1> DEFINE N == Cardinality(TellingActivations)
           R == Cardinality(TellingObservers) + Cardinality(TellingWatchers)
           Tells == act[a] = "usable" \/ (act[a] = "stamped" /\ got[a] = "ACTIVE")
<1>1. N \in Nat /\ R \in Nat /\ news \in Nat /\ entries \in Nat /\ news + N + R <= entries
  BY TellingFinite DEF TypeOK, ActivatedOncePerMove, Announcing
<1>2. UNCHANGED <<TellingObservers, TellingWatchers>>
  <2>1. UNCHANGED <<at, looking>>
    BY DEF Activate, ReadForActivation, IssuerTakesActivation, Stamp, LeaveCard, RecordActivation,
           TellActivated, Drop, activating, observerVars, watcherVars
  <2>. QED
    BY <2>1 DEF TellingObservers, TellingWatchers
<1>3. SUFFICES N' \in Nat /\ news' + N' + R <= entries'
  BY <1>2, TellingFinite DEF ActivatedOncePerMove, Announcing, TypeOK
<1>4. \A b \in Activations \ {a} : act'[b] = act[b] /\ got'[b] = got[b]
  <2>1. CASE IssuerTakesActivation(a)
    <3>1. CASE reports
      BY <2>1, <3>1 DEF IssuerTakesActivation, TypeOK
    <3>2. CASE ~reports
      <4>1. PICK s \in CardStatuses : got' = [got EXCEPT ![a] = s]
        BY <2>1, <3>2 DEF IssuerTakesActivation
      <4>. QED
        BY <2>1, <4>1 DEF IssuerTakesActivation, TypeOK
    <3>. QED
      BY <3>1, <3>2
  <2>. QED
    BY <2>1 DEF Activate, ReadForActivation, Stamp, LeaveCard, RecordActivation, TellActivated,
                Drop, TypeOK
<1>5. ASSUME Tells <=> Tells'
      PROVE  N' = N
  <2>1. TellingActivations' = TellingActivations
    BY <1>4, <1>5 DEF TellingActivations
  <2>. QED
    BY <2>1
<1>6. ASSUME Tells, ~Tells'
      PROVE  N' \in Nat /\ N' = N - 1
  <2>1. a \in TellingActivations /\ TellingActivations' = TellingActivations \ {a}
    BY <1>4, <1>6 DEF TellingActivations
  <2>. QED
    BY <2>1, TellingFinite, CountRemoved
<1>7. ASSUME ~Tells, Tells'
      PROVE  N' = N + 1
  <2>1. a \notin TellingActivations /\ TellingActivations' = TellingActivations \cup {a}
    BY <1>4, <1>7 DEF TellingActivations
  <2>. QED
    BY <2>1, TellingFinite, CountAdded
<1> HIDE DEF N, R
<1>8. CASE ReadForActivation(a) \/ IssuerTakesActivation(a) \/ LeaveCard(a) \/ RecordActivation(a)
  <2>1. UNCHANGED <<news, entries>>
    BY <1>8 DEF ReadForActivation, IssuerTakesActivation, LeaveCard, RecordActivation, recordVars
  <2>2. Tells <=> Tells'
    BY <1>8 DEF ReadForActivation, IssuerTakesActivation, LeaveCard, RecordActivation, TypeOK
  <2>. QED
    BY <1>1, <1>5, <2>1, <2>2
<1>9. CASE Stamp(a)
  <2>1. /\ card = "NOT_ACTIVATED" /\ Becomes(got[a]) /\ got[a] \in CardStatuses
        /\ news' = news /\ got' = got /\ act[a] = "accepted" /\ act'[a] = "stamped"
    BY <1>9 DEF Stamp, CardAsRead, TypeOK
  <2>2. /\ entries' \in {entries, entries + 1}
        /\ got[a] = "ACTIVE" => entries' = entries + 1
    BY <2>1, BecomesCounts
  <2>3. CASE got[a] = "ACTIVE"
    BY <1>1, <1>7, <2>1, <2>2, <2>3
  <2>4. CASE got[a] # "ACTIVE"
    <3>1. N' = N
      BY <1>5, <2>1, <2>4
    <3>. QED
      BY <1>1, <2>1, <2>2, <3>1
  <2>. QED
    BY <2>3, <2>4
<1>10. CASE TellActivated(a)
  <2>1. act[a] = "usable" /\ act'[a] = "done" /\ news' = news + 1 /\ entries' = entries
    BY <1>10 DEF TellActivated, TypeOK
  <2>. QED
    BY <1>1, <1>6, <2>1
<1>11. CASE Drop(a)
  <2>1. act'[a] \in {"done", "lost"} /\ UNCHANGED <<news, entries>>
    BY <1>11 DEF Drop, TypeOK, recordVars
  <2>2. news' = news /\ entries' = entries /\ ~Tells'
    BY <2>1
  <2>3. CASE Tells
    <3>1. N' \in Nat /\ N' = N - 1
      BY <1>6, <2>2, <2>3
    <3>. QED
      BY <1>1, <2>2, <3>1
  <2>4. CASE ~Tells
    <3>1. N' = N
      BY <1>5, <2>2, <2>4
    <3>. QED
      BY <1>1, <2>2, <3>1
  <2>. QED
    BY <2>3, <2>4
<1>. QED
  BY <1>8, <1>9, <1>10, <1>11 DEF Activate

(***************************************************************************)
(* However the lookups, the passes, the activations and the notices race,  *)
(* they queue no more card.activated than the card has become active.      *)
(***************************************************************************)
THEOREM AnnouncedPerMove == Spec => []ActivatedOncePerMove
<1>1. Init => ActivatedOncePerMove
  <2> SUFFICES ASSUME Init PROVE ActivatedOncePerMove
    OBVIOUS
  <2>1. TellingObservers = {} /\ TellingWatchers = {} /\ TellingActivations = {}
    BY DEF Init, TellingObservers, TellingWatchers, TellingActivations
  <2>. QED
    BY <2>1, FS_EmptySet DEF Init, ActivatedOncePerMove, Announcing
<1>2. IInv /\ ActivatedOncePerMove /\ [Next]_vars => ActivatedOncePerMove'
  <2> SUFFICES ASSUME IInv, ActivatedOncePerMove, [Next]_vars
               PROVE  ActivatedOncePerMove'
    OBVIOUS
  <2>1. TypeOK /\ TypeOK'
    BY TypeStep DEF IInv
  <2>2. ASSUME UNCHANGED <<at, looking, act, got, news>>
        PROVE  UNCHANGED <<TellingObservers, TellingWatchers, TellingActivations>>
    BY <2>2 DEF TellingObservers, TellingWatchers, TellingActivations
  <2>3. CASE Request
    <3>1. UNCHANGED <<at, looking, act, got, news>>
      BY <2>3 DEF Request, WriteAttempt, Send, Receive, TimeOut, MarkSubmitted, ReadForSave, Save,
                  RecordIssue, RecordFailure, Abandon, othersUnchanged, recordVars, observerVars,
                  watcherVars, activationVars, moveVars
    <3>2. entries' \in {entries, entries + 1}
      BY <2>1, <2>3, BecomesCounts
         DEF Request, WriteAttempt, Send, Receive, TimeOut, MarkSubmitted, ReadForSave, Save,
             RecordIssue, RecordFailure, Abandon, recordVars, TypeOK
    <3>. QED
      BY <2>1, <2>2, <3>1, <3>2, NothingToTell
  <2>4. CASE Issuer \/ UNCHANGED vars
    <3>1. UNCHANGED <<at, looking, act, got, news, entries>>
      BY <2>4 DEF Issuer, IssuerAnswers, IssuerDecides, IssuerMovesCard, IssuerRefusesActivation,
                  outside, vars, recordVars, observerVars, watcherVars, activationVars, moveVars
    <3>. QED
      BY <2>1, <2>2, <3>1, NothingToTell
  <2>5. CASE Notice
    <3>1. PICK s \in CardStatuses : Becomes(s)
      BY <2>5 DEF Notice
    <3>2. entries' \in {entries, entries + 1}
      BY <2>1, <3>1, BecomesCounts
    <3>3. UNCHANGED <<at, looking, act, got, news>>
      BY <2>5 DEF Notice, observerVars, watcherVars, activationVars
    <3>. QED
      BY <2>1, <2>2, <3>2, <3>3, NothingToTell
  <2>6. ASSUME NEW b \in Operations, Move(b)
        PROVE  ActivatedOncePerMove'
    <3>1. entries' = entries \/ \E s \in CardStatuses : Becomes(s)
      BY <2>6 DEF Move, Operate, RecordOperation, DropOperation, Operable, CardStatuses
    <3>2. entries' \in {entries, entries + 1}
      BY <2>1, <3>1, BecomesCounts
    <3>3. UNCHANGED <<at, looking, act, got, news>>
      BY <2>6 DEF Move, Operate, RecordOperation, DropOperation, operating, observerVars,
                  watcherVars, activationVars
    <3>. QED
      BY <2>1, <2>2, <3>2, <3>3, NothingToTell
  <2>. QED
    BY <2>1, <2>3, <2>4, <2>5, <2>6, ObserveTells, WatchTells, ActivateTells DEF Next
<1>. QED
  BY <1>1, <1>2, Invariant, PTL DEF Spec

-----------------------------------------------------------------------------
(* The account of the events. Each step adds to the two sides the same, or *)
(* moves a term from what is owed to what is recorded.                     *)

LEMMA RecordShifts ==
  ASSUME TypeOK, NEW from \in CardStatuses, NEW to \in CardStatuses, Record(from, to),
         NEW s \in CardStatuses
  PROVE  trace'[s] = trace[s] + Shift(from, to, s)
BY DEF TypeOK, Record, Shift

LEMMA ShiftType ==
  ASSUME NEW from, NEW to, NEW s
  PROVE  Shift(from, to, s) \in Int
BY DEF Shift

LEMMA BehindFinite ==
  ASSUME NEW s
  PROVE  /\ IsFiniteSet(Behind) /\ Cardinality(Behind) \in Nat
         /\ IsFiniteSet(BehindTo(s)) /\ Cardinality(BehindTo(s)) \in Nat
BY ActorsAssumption, FS_Subset, FS_CardinalityType DEF Behind, BehindTo

LEMMA LaggingFinite ==
  ASSUME NEW s
  PROVE  /\ IsFiniteSet(LaggingTo(s)) /\ Cardinality(LaggingTo(s)) \in Nat
         /\ IsFiniteSet(LaggingFrom(s)) /\ Cardinality(LaggingFrom(s)) \in Nat
BY ActorsAssumption, FS_Subset, FS_CardinalityType DEF Lagging, LaggingTo, LaggingFrom

LEMMA OwedType ==
  ASSUME NEW s
  PROVE  ActivationsOwe(s) \in Int /\ OperationsOwe(s) \in Int /\ RequestOwes(s) \in Int
<1>1. ActivationsOwe(s) \in Int
  BY BehindFinite DEF ActivationsOwe
<1>2. OperationsOwe(s) \in Int
  BY LaggingFinite DEF OperationsOwe
<1>3. RequestOwes(s) \in Int
  BY ShiftType DEF RequestOwes
<1>. QED
  BY <1>1, <1>2, <1>3

\* What is owed, and how a step changes it.
OwesMore(from, to) ==
  \A s \in CardStatuses : Owed(s)' = Owed(s) + Shift(from, to, s)
OwesLess(from, to) ==
  \A s \in CardStatuses : Owed(s)' = Owed(s) - Shift(from, to, s)
OwesTheSame == \A s \in CardStatuses : Owed(s)' = Owed(s)

\* The card and its event in one step, by somebody who knows where the card is.
LEMMA MoveAccounts ==
  ASSUME TypeOK, EventsAccount, NEW to \in CardStatuses, card' = to, Record(card, to), OwesTheSame
  PROVE  EventsAccount'
<1> SUFFICES ASSUME NEW s \in CardStatuses
             PROVE  trace'[s] + Owed(s)' = Shift("NOT_ACTIVATED", card', s)
  BY DEF EventsAccount
<1>1. trace[s] + Owed(s) = Shift("NOT_ACTIVATED", card, s) /\ Owed(s)' = Owed(s)
  BY DEF EventsAccount, OwesTheSame
<1>2. card \in CardStatuses /\ trace[s] \in Int
  BY DEF TypeOK
<1>3. trace'[s] = trace[s] + Shift(card, to, s)
  BY <1>2, RecordShifts
<1>4. Owed(s) \in Int
  BY OwedType DEF Owed
<1>. QED
  BY <1>1, <1>2, <1>3, <1>4 DEF Shift

\* A step that touches nothing of the account.
LEMMA RestAccounts ==
  ASSUME EventsAccount, UNCHANGED <<trace, card>>, OwesTheSame
  PROVE  EventsAccount'
BY DEF EventsAccount, OwesTheSame

\* The card alone moves: its event is owed from now on.
LEMMA OwingAccounts ==
  ASSUME TypeOK, EventsAccount, NEW to \in CardStatuses, card' = to, trace' = trace,
         OwesMore(card, to)
  PROVE  EventsAccount'
<1> SUFFICES ASSUME NEW s \in CardStatuses
             PROVE  trace'[s] + Owed(s)' = Shift("NOT_ACTIVATED", card', s)
  BY DEF EventsAccount
<1>1. trace[s] + Owed(s) = Shift("NOT_ACTIVATED", card, s)
      /\ Owed(s)' = Owed(s) + Shift(card, to, s)
  BY DEF EventsAccount, OwesMore
<1>2. card \in CardStatuses /\ trace[s] \in Int /\ Owed(s) \in Int
  BY OwedType DEF TypeOK, Owed
<1>. QED
  BY <1>1, <1>2 DEF Shift

\* The event alone is written, of a move that was owed.
LEMMA PayingAccounts ==
  ASSUME TypeOK, EventsAccount, NEW from \in CardStatuses, NEW to \in CardStatuses, card' = card,
         Record(from, to), OwesLess(from, to)
  PROVE  EventsAccount'
<1> SUFFICES ASSUME NEW s \in CardStatuses
             PROVE  trace'[s] + Owed(s)' = Shift("NOT_ACTIVATED", card, s)
  BY DEF EventsAccount
<1>1. trace[s] + Owed(s) = Shift("NOT_ACTIVATED", card, s)
      /\ Owed(s)' = Owed(s) - Shift(from, to, s)
  BY DEF EventsAccount, OwesLess
<1>2. trace[s] \in Int /\ Owed(s) \in Int /\ Shift(from, to, s) \in Int
  BY OwedType, ShiftType DEF TypeOK, Owed
<1>3. trace'[s] = trace[s] + Shift(from, to, s)
  BY RecordShifts
<1>. QED
  BY <1>1, <1>2, <1>3

\* What the three kinds of writers owe depends on their own state alone.
LEMMA ActivationsSame ==
  ASSUME UNCHANGED <<Behind, got>>, NEW s
  PROVE  ActivationsOwe(s)' = ActivationsOwe(s)
BY DEF ActivationsOwe, BehindTo

LEMMA OperationsSame ==
  ASSUME UNCHANGED <<oper, route>>, NEW s
  PROVE  OperationsOwe(s)' = OperationsOwe(s)
BY DEF OperationsOwe, Lagging, LaggingTo, LaggingFrom

LEMMA RequestSame ==
  ASSUME RequestBehind' = RequestBehind, UNCHANGED <<answer, takenBack>>, NEW s
  PROVE  RequestOwes(s)' = RequestOwes(s)
BY DEF RequestOwes

LEMMA AllSame ==
  ASSUME UNCHANGED <<act, got, oper, route, caller, answer, takenBack>>
  PROVE  OwesTheSame
<1> SUFFICES ASSUME NEW s \in CardStatuses PROVE Owed(s)' = Owed(s)
  BY DEF OwesTheSame
<1>1. Behind' = Behind /\ RequestBehind' = RequestBehind
  BY DEF Behind, RequestBehind
<1>. QED
  BY <1>1, ActivationsSame, OperationsSame, RequestSame DEF Owed

-----------------------------------------------------------------------------
(* An activation. *)

LEMMA OwesOneMore ==
  ASSUME NEW a \in Activations, a \notin Behind, Behind' = Behind \cup {a}, got' = got, NEW s
  PROVE  ActivationsOwe(s)' = ActivationsOwe(s) + Shift("NOT_ACTIVATED", got[a], s)
<1>1. Cardinality(Behind)' = Cardinality(Behind) + 1
  BY BehindFinite, CountAdded
<1>2. CASE got[a] = s
  <2>1. a \notin BehindTo(s) /\ BehindTo(s)' = BehindTo(s) \cup {a}
    BY <1>2 DEF BehindTo
  <2>2. Cardinality(BehindTo(s))' = Cardinality(BehindTo(s)) + 1
    BY <2>1, BehindFinite, CountAdded
  <2>. QED
    BY <1>1, <1>2, <2>2, BehindFinite DEF ActivationsOwe, Shift
<1>3. CASE got[a] # s
  <2>1. BehindTo(s)' = BehindTo(s)
    BY <1>3 DEF BehindTo
  <2>. QED
    BY <1>1, <1>3, <2>1, BehindFinite DEF ActivationsOwe, Shift
<1>. QED
  BY <1>2, <1>3

LEMMA OwesOneLess ==
  ASSUME NEW a \in Activations, a \in Behind, Behind' = Behind \ {a}, got' = got, NEW s
  PROVE  ActivationsOwe(s)' = ActivationsOwe(s) - Shift("NOT_ACTIVATED", got[a], s)
<1>1. Cardinality(Behind)' = Cardinality(Behind) - 1 /\ Cardinality(Behind)' \in Nat
  BY BehindFinite, CountRemoved
<1>2. CASE got[a] = s
  <2>1. a \in BehindTo(s) /\ BehindTo(s)' = BehindTo(s) \ {a}
    BY <1>2 DEF BehindTo
  <2>2. Cardinality(BehindTo(s))' = Cardinality(BehindTo(s)) - 1
    BY <2>1, BehindFinite, CountRemoved
  <2>. QED
    BY <1>1, <1>2, <2>2, BehindFinite DEF ActivationsOwe, Shift
<1>3. CASE got[a] # s
  <2>1. BehindTo(s)' = BehindTo(s)
    BY <1>3 DEF BehindTo
  <2>. QED
    BY <1>1, <1>3, <2>1, BehindFinite DEF ActivationsOwe, Shift
<1>. QED
  BY <1>2, <1>3

LEMMA ActivateAccounts ==
  ASSUME TypeOK, EventsAccount, NEW a \in Activations, Activate(a)
  PROVE  EventsAccount'
<1>1. /\ UNCHANGED <<caller, answer, takenBack, oper, route>>
      /\ got[a] \in CardStatuses /\ "NOT_ACTIVATED" \in CardStatuses
  BY DEF Activate, ReadForActivation, IssuerTakesActivation, Stamp, LeaveCard, RecordActivation,
         TellActivated, Drop, activating, requestVars, recordVars, moveVars, TypeOK, CardStatuses
<1>2. \A s : OperationsOwe(s)' = OperationsOwe(s) /\ RequestOwes(s)' = RequestOwes(s)
  BY <1>1, OperationsSame, RequestSame DEF RequestBehind
<1>3. CASE IssuerTakesActivation(a)
  <2>1. \A b \in Activations \ {a} : got'[b] = got[b]
    <3>1. CASE reports
      BY <1>3, <3>1 DEF IssuerTakesActivation
    <3>2. CASE ~reports
      <4>1. PICK s \in CardStatuses : got' = [got EXCEPT ![a] = s]
        BY <1>3, <3>2 DEF IssuerTakesActivation
      <4>. QED
        BY <4>1 DEF TypeOK
    <3>. QED
      BY <3>1, <3>2
  <2>2. Behind' = Behind /\ a \notin Behind
    BY <1>3 DEF IssuerTakesActivation, Behind, TypeOK
  <2>3. \A s : BehindTo(s)' = BehindTo(s)
    BY <2>1, <2>2 DEF BehindTo, Behind
  <2>4. UNCHANGED <<trace, card>>
    BY <1>3 DEF IssuerTakesActivation, recordVars, cardVars
  <2>5. OwesTheSame
    BY <1>2, <2>2, <2>3 DEF OwesTheSame, Owed, ActivationsOwe
  <2>. QED
    BY <2>4, <2>5, RestAccounts
<1>4. CASE Stamp(a)
  <2>1. /\ act[a] = "accepted" /\ card = "NOT_ACTIVATED" /\ card' = got[a] /\ got' = got
        /\ act' = [act EXCEPT ![a] = "stamped"] /\ trace' = trace
    BY <1>4 DEF Stamp, CardAsRead, Becomes
  <2>2. a \notin Behind /\ Behind' = Behind \cup {a}
    BY <2>1 DEF Behind, TypeOK
  <2>3. ASSUME NEW s \in CardStatuses
        PROVE  Owed(s)' = Owed(s) + Shift(card, got[a], s)
    <3>1. ActivationsOwe(s)' = ActivationsOwe(s) + Shift(card, got[a], s)
      BY <2>1, <2>2, OwesOneMore
    <3>. QED
      BY <1>2, <3>1, OwedType, ShiftType DEF Owed
  <2>. QED
    BY <1>1, <2>1, <2>3, OwingAccounts DEF OwesMore
<1>5. CASE RecordActivation(a)
  <2>1. /\ act[a] = "stamped" /\ got' = got /\ card' = card
        /\ \E x \in {"usable", "done"} : act' = [act EXCEPT ![a] = x]
        /\ Record("NOT_ACTIVATED", got[a])
    BY <1>5 DEF RecordActivation, cardVars
  <2>2. a \in Behind /\ Behind' = Behind \ {a}
    BY <2>1 DEF Behind, TypeOK
  <2>3. ASSUME NEW s \in CardStatuses
        PROVE  Owed(s)' = Owed(s) - Shift("NOT_ACTIVATED", got[a], s)
    <3>1. ActivationsOwe(s)' = ActivationsOwe(s) - Shift("NOT_ACTIVATED", got[a], s)
      BY <2>1, <2>2, OwesOneLess
    <3>. QED
      BY <1>2, <3>1, OwedType, ShiftType DEF Owed
  <2>. QED
    BY <1>1, <2>1, <2>3, PayingAccounts DEF OwesLess
<1>6. CASE ReadForActivation(a) \/ LeaveCard(a) \/ TellActivated(a) \/ Drop(a)
  <2>1. Behind' = Behind
    BY <1>6 DEF ReadForActivation, LeaveCard, TellActivated, Drop, Behind, TypeOK
  <2>2. UNCHANGED <<trace, card, got>>
    BY <1>6 DEF ReadForActivation, LeaveCard, TellActivated, Drop, cardVars, recordVars
  <2>3. OwesTheSame
    BY <1>2, <2>1, <2>2, ActivationsSame DEF OwesTheSame, Owed
  <2>. QED
    BY <2>2, <2>3, RestAccounts
<1>. QED
  BY <1>3, <1>4, <1>5, <1>6 DEF Activate

-----------------------------------------------------------------------------
(* An operation. *)

LEMMA LagsOneMore ==
  ASSUME NEW b \in Operations, b \notin Lagging, Lagging' = Lagging \cup {b},
         \A c \in Lagging : route'[c] = route[c], NEW s
  PROVE  OperationsOwe(s)' = OperationsOwe(s) + Shift(route'[b].from, route'[b].to, s)
<1>1. Cardinality(LaggingTo(s))' = Cardinality(LaggingTo(s)) + (IF s = route'[b].to THEN 1 ELSE 0)
  <2>1. CASE s = route'[b].to
    <3>1. b \notin LaggingTo(s) /\ LaggingTo(s)' = LaggingTo(s) \cup {b}
      BY <2>1 DEF LaggingTo
    <3>. QED
      BY <2>1, <3>1, LaggingFinite, CountAdded
  <2>2. CASE s # route'[b].to
    <3>1. LaggingTo(s)' = LaggingTo(s)
      BY <2>2 DEF LaggingTo
    <3>. QED
      BY <2>2, <3>1, LaggingFinite
  <2>. QED
    BY <2>1, <2>2
<1>2. Cardinality(LaggingFrom(s))' = Cardinality(LaggingFrom(s)) + (IF s = route'[b].from THEN 1 ELSE 0)
  <2>1. CASE s = route'[b].from
    <3>1. b \notin LaggingFrom(s) /\ LaggingFrom(s)' = LaggingFrom(s) \cup {b}
      BY <2>1 DEF LaggingFrom
    <3>. QED
      BY <2>1, <3>1, LaggingFinite, CountAdded
  <2>2. CASE s # route'[b].from
    <3>1. LaggingFrom(s)' = LaggingFrom(s)
      BY <2>2 DEF LaggingFrom
    <3>. QED
      BY <2>2, <3>1, LaggingFinite
  <2>. QED
    BY <2>1, <2>2
<1>. QED
  BY <1>1, <1>2, LaggingFinite DEF OperationsOwe, Shift

LEMMA LagsOneLess ==
  ASSUME NEW b \in Operations, b \in Lagging, Lagging' = Lagging \ {b}, route' = route, NEW s
  PROVE  OperationsOwe(s)' = OperationsOwe(s) - Shift(route[b].from, route[b].to, s)
<1>1. /\ Cardinality(LaggingTo(s))' \in Nat
      /\ Cardinality(LaggingTo(s))' = Cardinality(LaggingTo(s)) - (IF s = route[b].to THEN 1 ELSE 0)
  <2>1. CASE s = route[b].to
    <3>1. b \in LaggingTo(s) /\ LaggingTo(s)' = LaggingTo(s) \ {b}
      BY <2>1 DEF LaggingTo
    <3>. QED
      BY <2>1, <3>1, LaggingFinite, CountRemoved
  <2>2. CASE s # route[b].to
    <3>1. LaggingTo(s)' = LaggingTo(s)
      BY <2>2 DEF LaggingTo
    <3>. QED
      BY <2>2, <3>1, LaggingFinite
  <2>. QED
    BY <2>1, <2>2
<1>2. /\ Cardinality(LaggingFrom(s))' \in Nat
      /\ Cardinality(LaggingFrom(s))' = Cardinality(LaggingFrom(s)) - (IF s = route[b].from THEN 1 ELSE 0)
  <2>1. CASE s = route[b].from
    <3>1. b \in LaggingFrom(s) /\ LaggingFrom(s)' = LaggingFrom(s) \ {b}
      BY <2>1 DEF LaggingFrom
    <3>. QED
      BY <2>1, <3>1, LaggingFinite, CountRemoved
  <2>2. CASE s # route[b].from
    <3>1. LaggingFrom(s)' = LaggingFrom(s)
      BY <2>2 DEF LaggingFrom
    <3>. QED
      BY <2>2, <3>1, LaggingFinite
  <2>. QED
    BY <2>1, <2>2
<1>. QED
  BY <1>1, <1>2, LaggingFinite DEF OperationsOwe, Shift

LEMMA OperationAccounts ==
  ASSUME TypeOK, EventsAccount, NEW b \in Operations, Move(b)
  PROVE  EventsAccount'
<1>1. UNCHANGED <<act, got, caller, answer, takenBack>>
  BY DEF Move, Operate, RecordOperation, DropOperation, operating, requestVars, activationVars
<1>2. \A s : ActivationsOwe(s)' = ActivationsOwe(s) /\ RequestOwes(s)' = RequestOwes(s)
  BY <1>1, ActivationsSame, RequestSame DEF RequestBehind, Behind
<1>3. CASE Operate(b)
  <2>1. PICK to \in CardStatuses :
          /\ card' = to
          /\ route' = [route EXCEPT ![b] = [from |-> card, to |-> to]]
          /\ IF reports THEN Record(card, to) ELSE UNCHANGED trace
    BY <1>3 DEF Operate, Operable, CardStatuses, Becomes
  <2>2. /\ oper[b] = "start" /\ oper' = [oper EXCEPT ![b] = IF reports THEN "done" ELSE "moved"]
        /\ b \notin Lagging /\ \A c \in Lagging : route'[c] = route[c]
        /\ route'[b] = [from |-> card, to |-> to]
    BY <1>3, <2>1 DEF Operate, Lagging, TypeOK
  <2>3. CASE reports
    <3>1. Lagging' = Lagging
      BY <2>2, <2>3 DEF Lagging, TypeOK
    <3>2. \A s : LaggingTo(s)' = LaggingTo(s) /\ LaggingFrom(s)' = LaggingFrom(s)
      BY <2>2, <3>1 DEF LaggingTo, LaggingFrom
    <3>3. OwesTheSame
      BY <1>2, <3>2 DEF OwesTheSame, Owed, OperationsOwe
    <3>. QED
      BY <2>1, <2>3, <3>3, MoveAccounts
  <2>4. CASE ~reports
    <3>1. Lagging' = Lagging \cup {b}
      BY <2>2, <2>4 DEF Lagging, TypeOK
    <3>2. ASSUME NEW s \in CardStatuses
          PROVE  Owed(s)' = Owed(s) + Shift(card, to, s)
      <4>1. OperationsOwe(s)' = OperationsOwe(s) + Shift(card, to, s)
        <5>1. route'[b].from = card /\ route'[b].to = to
          BY <2>2
        <5>2. OperationsOwe(s)' = OperationsOwe(s) + Shift(route'[b].from, route'[b].to, s)
          BY <2>2, <3>1, LagsOneMore
        <5>. QED
          BY <5>1, <5>2
      <4>. QED
        BY <1>2, <4>1, OwedType, ShiftType DEF Owed
    <3>. QED
      BY <2>1, <2>4, <3>2, OwingAccounts DEF OwesMore
  <2>. QED
    BY <2>3, <2>4
<1>4. CASE RecordOperation(b)
  <2>1. /\ oper[b] = "moved" /\ oper' = [oper EXCEPT ![b] = "done"] /\ route' = route
        /\ card' = card /\ Record(route[b].from, route[b].to)
    BY <1>4 DEF RecordOperation
  <2>2. b \in Lagging /\ Lagging' = Lagging \ {b}
    BY <2>1 DEF Lagging, TypeOK
  <2>3. route[b].from \in CardStatuses /\ route[b].to \in CardStatuses
    BY DEF TypeOK, Moves
  <2>4. ASSUME NEW s \in CardStatuses
        PROVE  Owed(s)' = Owed(s) - Shift(route[b].from, route[b].to, s)
    <3>1. OperationsOwe(s)' = OperationsOwe(s) - Shift(route[b].from, route[b].to, s)
      BY <2>1, <2>2, LagsOneLess
    <3>. QED
      BY <1>2, <3>1, OwedType, ShiftType DEF Owed
  <2>. QED
    BY <2>1, <2>3, <2>4, PayingAccounts DEF OwesLess
<1>5. CASE DropOperation(b)
  <2>1. Lagging' = Lagging /\ UNCHANGED <<route, trace, card>>
    BY <1>5 DEF DropOperation, Lagging, TypeOK
  <2>2. OwesTheSame
    BY <1>2, <2>1 DEF OwesTheSame, Owed, OperationsOwe, LaggingTo, LaggingFrom
  <2>. QED
    BY <2>1, <2>2, RestAccounts
<1>. QED
  BY <1>3, <1>4, <1>5 DEF Move

-----------------------------------------------------------------------------
(* The request. *)

LEMMA RequestAccounts ==
  ASSUME IInv, EventsAccount, Request
  PROVE  EventsAccount'
<1> TypeOK
  BY DEF IInv
<1>1. /\ answer' = answer /\ answer \in CardStatuses /\ UNCHANGED <<act, got, oper, route>>
      /\ "NOT_ACTIVATED" \in CardStatuses
  BY DEF Request, WriteAttempt, Send, Receive, TimeOut, MarkSubmitted, ReadForSave, Save, RecordIssue,
         RecordFailure, Abandon, othersUnchanged, activationVars, moveVars, TypeOK, CardStatuses
<1>2. \A s : ActivationsOwe(s)' = ActivationsOwe(s) /\ OperationsOwe(s)' = OperationsOwe(s)
  BY <1>1, ActivationsSame, OperationsSame DEF Behind
<1>3. CASE WriteAttempt \/ Send \/ Receive \/ TimeOut \/ MarkSubmitted \/ ReadForSave \/ RecordFailure
           \/ Abandon
  <2>1. RequestBehind' = RequestBehind
    BY <1>3 DEF WriteAttempt, Send, Receive, TimeOut, MarkSubmitted, ReadForSave, RecordFailure, Abandon,
                RequestBehind
  <2>2. UNCHANGED <<trace, card, takenBack>>
    BY <1>3 DEF WriteAttempt, Send, Receive, TimeOut, MarkSubmitted, ReadForSave, RecordFailure, Abandon,
                cardVars, recordVars
  <2>3. OwesTheSame
    BY <1>1, <1>2, <2>1, <2>2, RequestSame DEF OwesTheSame, Owed
  <2>. QED
    BY <2>2, <2>3, RestAccounts
<1>4. CASE RecordIssue
  <2>1. /\ caller = "saved" /\ caller' = "done" /\ takenBack' = takenBack /\ card' = card
        /\ Record("NOT_ACTIVATED", answer)
    BY <1>4 DEF RecordIssue, cardVars
  <2>2. ASSUME NEW s \in CardStatuses
        PROVE  Owed(s)' = Owed(s) - Shift("NOT_ACTIVATED", answer, s)
    <3>1. RequestOwes(s) = Shift("NOT_ACTIVATED", answer, s) + Shift(takenBack, "NOT_ACTIVATED", s)
      BY <2>1 DEF RequestOwes, RequestBehind
    <3>2. RequestOwes(s)' = 0 + Shift(takenBack, "NOT_ACTIVATED", s)
      BY <2>1 DEF RequestOwes, RequestBehind
    <3>3. RequestOwes(s)' = RequestOwes(s) - Shift("NOT_ACTIVATED", answer, s)
      BY <3>1, <3>2, ShiftType
    <3>. QED
      BY <1>2, <3>3, OwedType, ShiftType DEF Owed
  <2>. QED
    BY <1>1, <2>1, <2>2, PayingAccounts DEF OwesLess
<1>5. CASE Save
  <2>1. caller = "saving" /\ caller' = "saved" /\ trace' = trace
    BY <1>5 DEF Save
  <2>2. ASSUME NEW s \in CardStatuses
        PROVE  Owed(s)' = Owed(s) + Shift(card, card', s)
    <3>1. RequestOwes(s) = 0 + Shift(takenBack, "NOT_ACTIVATED", s)
      BY <2>1 DEF RequestOwes, RequestBehind
    <3>2. RequestOwes(s)' = Shift("NOT_ACTIVATED", answer, s) + Shift(takenBack', "NOT_ACTIVATED", s)
      BY <1>1, <2>1 DEF RequestOwes, RequestBehind
    <3>3. takenBack = "NOT_ACTIVATED"
      BY <2>1 DEF IInv, SavedFirst
    <3>4. RequestOwes(s)' = RequestOwes(s) + Shift(card, card', s)
      <4>1. CASE "status" \in stale
        <5>1. takenBack' = card /\ card' = answer
          BY <1>5, <4>1 DEF Save, Becomes
        <5>. QED
          BY <3>1, <3>2, <3>3, <5>1 DEF Shift
      <4>2. CASE "status" \notin stale
        <5>1. takenBack' = takenBack /\ card' = card
          BY <1>5, <4>2 DEF Save
        <5>2. answer = "NOT_ACTIVATED"
          BY <2>1, <4>2 DEF IInv, SavedFirst, RequestMatchesIssuer
        <5>. QED
          BY <3>1, <3>2, <3>3, <5>1, <5>2 DEF Shift
      <4>. QED
        BY <4>1, <4>2
    <3>. QED
      BY <1>2, <3>4, OwedType, ShiftType DEF Owed
  <2>3. card' \in CardStatuses
    BY <1>1, <1>5 DEF Save, Becomes, TypeOK
  <2>. QED
    BY <2>1, <2>2, <2>3, OwingAccounts DEF OwesMore
<1>. QED
  BY <1>3, <1>4, <1>5 DEF Request

(***************************************************************************)
(* The recorded moves, with those a writer still owes and the one the      *)
(* request's save may have taken back, lead from NOT_ACTIVATED to the      *)
(* card's status, whoever else writes in between.                          *)
(***************************************************************************)
THEOREM HistoryAccounts == Spec => []EventsAccount
<1>1. Init => EventsAccount
  <2> SUFFICES ASSUME Init, NEW s \in CardStatuses
               PROVE  trace[s] + Owed(s) = Shift("NOT_ACTIVATED", card, s)
    BY DEF EventsAccount
  <2>1. Behind = {} /\ BehindTo(s) = {} /\ LaggingTo(s) = {} /\ LaggingFrom(s) = {}
    BY DEF Init, Behind, BehindTo, Lagging, LaggingTo, LaggingFrom
  <2>2. ActivationsOwe(s) = 0 /\ OperationsOwe(s) = 0
    BY <2>1, FS_EmptySet DEF ActivationsOwe, OperationsOwe
  <2>3. RequestOwes(s) = 0 /\ trace[s] = 0 /\ Shift("NOT_ACTIVATED", card, s) = 0
    BY DEF Init, RequestOwes, RequestBehind, Shift
  <2>. QED
    BY <2>2, <2>3 DEF Owed
<1>2. IInv /\ EventsAccount /\ [Next]_vars => EventsAccount'
  <2> SUFFICES ASSUME IInv, EventsAccount, [Next]_vars
               PROVE  EventsAccount'
    OBVIOUS
  <2>1. TypeOK
    BY DEF IInv
  <2>2. ASSUME UNCHANGED <<trace, card>>, UNCHANGED <<act, got, oper, route, caller, answer, takenBack>>
        PROVE  EventsAccount'
    BY <2>2, AllSame, RestAccounts
  <2>3. CASE Issuer
    <3>1. UNCHANGED <<trace, card, takenBack, caller, act, got, oper, route>>
      BY <2>3 DEF Issuer, IssuerAnswers, IssuerDecides, IssuerMovesCard, IssuerRefusesActivation,
                  outside, cardVars, recordVars, requestVars, activationVars, moveVars
    <3>2. answer' = answer \/ ~RequestBehind
      BY <2>3 DEF Issuer, IssuerAnswers, IssuerDecides, IssuerMovesCard, IssuerRefusesActivation,
                  requestVars, RequestBehind, IInv, RequestMatchesIssuer
    <3>3. ASSUME NEW s \in CardStatuses
          PROVE  Owed(s)' = Owed(s)
      <4>1. RequestOwes(s)' = RequestOwes(s)
        BY <3>1, <3>2 DEF RequestOwes, RequestBehind
      <4>2. ActivationsOwe(s)' = ActivationsOwe(s) /\ OperationsOwe(s)' = OperationsOwe(s)
        BY <3>1, ActivationsSame, OperationsSame DEF Behind
      <4>. QED
        BY <4>1, <4>2 DEF Owed
    <3>. QED
      BY <3>1, <3>3, RestAccounts DEF OwesTheSame
  <2>4. CASE UNCHANGED vars
    BY <2>2, <2>4 DEF vars, cardVars, recordVars, requestVars, activationVars, moveVars
  <2>5. CASE Notice
    <3>1. PICK s \in CardStatuses : card' = s /\ Record(card, s)
      BY <2>5 DEF Notice, Becomes
    <3>2. UNCHANGED <<act, got, oper, route, caller, answer, takenBack>>
      BY <2>5 DEF Notice, requestVars, activationVars
    <3>. QED
      BY <2>1, <3>1, <3>2, AllSame, MoveAccounts
  <2>6. ASSUME NEW o \in Observers, Observe(o)
        PROVE  EventsAccount'
    <3>1. UNCHANGED <<act, got, oper, route, caller, answer, takenBack>>
      BY <2>6 DEF Observe, Load, Ask, GiveUp, RecordRejected, ReadCard, RecordIssued, TellUsable,
                  observing, requestVars, activationVars, recordVars, moveVars
    <3>2. CASE RecordIssued(o) /\ ~AlreadyResolved(o)
      <4>1. card' = heard[o].status /\ Record(card, heard[o].status)
        BY <3>2 DEF RecordIssued, UnchangedSince, CardRow, Becomes
      <4>2. heard[o].status \in CardStatuses
        BY <2>1 DEF TypeOK, Answers
      <4>. QED
        BY <2>1, <3>1, <4>1, <4>2, AllSame, MoveAccounts
    <3>3. CASE ~(RecordIssued(o) /\ ~AlreadyResolved(o))
      <4>1. UNCHANGED <<trace, card>>
        BY <2>6, <3>3 DEF Observe, Load, Ask, GiveUp, RecordRejected, ReadCard, RecordIssued,
                          TellUsable, cardVars, recordVars
      <4>. QED
        BY <2>2, <3>1, <4>1
    <3>. QED
      BY <3>2, <3>3
  <2>7. ASSUME NEW w \in Watchers, WatchCard(w)
        PROVE  EventsAccount'
    <3>1. UNCHANGED <<act, got, oper, route, caller, answer, takenBack>>
      BY <2>7 DEF WatchCard, Watch, AskStatus, GiveUpWatch, RecordObservation, RecordNoObservation,
                  TellWatched, watching, requestVars, activationVars, recordVars, moveVars
    <3>2. CASE RecordObservation(w) /\ StatusChanged(w)
      <4>1. card' = told[w].status /\ Record(card, told[w].status)
        BY <3>2 DEF RecordObservation, StillNotActivated, Becomes
      <4>2. told[w].status \in CardStatuses
        BY <2>1 DEF TypeOK, Readings
      <4>. QED
        BY <2>1, <3>1, <4>1, <4>2, AllSame, MoveAccounts
    <3>3. CASE ~(RecordObservation(w) /\ StatusChanged(w))
      <4>1. UNCHANGED <<trace, card>>
        BY <2>7, <3>3 DEF WatchCard, Watch, AskStatus, GiveUpWatch, RecordObservation,
                          RecordNoObservation, TellWatched, cardVars, recordVars
      <4>. QED
        BY <2>2, <3>1, <4>1
    <3>. QED
      BY <3>2, <3>3
  <2>. QED
    BY <2>1, <2>3, <2>4, <2>5, <2>6, <2>7, ActivateAccounts, RequestAccounts, OperationAccounts
       DEF Next
<1>. QED
  BY <1>1, <1>2, Invariant, PTL DEF Spec

\* A closed card is reopened by a late issue or a stale save, and by nobody else.
THEOREM ClosedButForIssue == Spec => ClosedUnlessIssued
<1>1. [Next]_vars => (card \in TerminalCard =>
                        card' = card \/ Save \/ \E o \in Observers : RecordIssued(o))
  <2> SUFFICES ASSUME [Next]_vars, card \in TerminalCard, ~Save,
                      \A o \in Observers : ~RecordIssued(o)
               PROVE  card' = card
    OBVIOUS
  <2>1. card = "CLOSED" /\ card # "NOT_ACTIVATED" /\ card \notin Operable
    BY DEF TerminalCard, Operable
  <2>2. CASE Request
    BY <2>2 DEF Request, WriteAttempt, Send, Receive, TimeOut, MarkSubmitted, ReadForSave, RecordIssue,
                RecordFailure, Abandon, cardVars
  <2>3. CASE Issuer
    BY <2>3 DEF Issuer, IssuerAnswers, IssuerDecides, IssuerMovesCard, IssuerRefusesActivation, cardVars
  <2>4. CASE Notice
    BY <2>4 DEF Notice
  <2>5. ASSUME NEW o \in Observers, Observe(o)
        PROVE  card' = card
    BY <2>5 DEF Observe, Load, Ask, GiveUp, RecordRejected, ReadCard, TellUsable, cardVars
  <2>6. ASSUME NEW w \in Watchers, WatchCard(w)
        PROVE  card' = card
    BY <2>1, <2>6 DEF WatchCard, Watch, AskStatus, GiveUpWatch, RecordObservation, StillNotActivated,
                      RecordNoObservation, TellWatched, cardVars
  <2>7. ASSUME NEW a \in Activations, Activate(a)
        PROVE  card' = card
    BY <2>1, <2>7 DEF Activate, ReadForActivation, IssuerTakesActivation, Stamp, CardAsRead, LeaveCard,
                      RecordActivation, TellActivated, Drop, cardVars
  <2>8. ASSUME NEW b \in Operations, Move(b)
        PROVE  card' = card
    BY <2>1, <2>8 DEF Move, Operate, RecordOperation, DropOperation
  <2>9. CASE UNCHANGED vars
    BY <2>9 DEF vars, cardVars
  <2>. QED
    BY <2>2, <2>3, <2>4, <2>5, <2>6, <2>7, <2>8, <2>9 DEF Next
<1>. QED
  BY <1>1, PTL DEF Spec, ClosedUnlessIssued
=============================================================================
