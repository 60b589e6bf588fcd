------------------------ MODULE CardOperationsProofs ------------------------
(***************************************************************************)
(* The inductive invariant of CardOperations, the safety properties it     *)
(* gives for any number of calls, observers and deliveries, and the        *)
(* implementation of CardLifecycle.                                        *)
(***************************************************************************)
EXTENDS CardOperations, TLAPS, FiniteSetTheorems

THEOREM InitInvariant == Init => IInv
<1> SUFFICES ASSUME Init PROVE IInv
  OBVIOUS
<1>1. TypeOK
  BY DEF Init, TypeOK, CallerStates, Moves
<1>2. CallInv /\ OneInFlight /\ OutcomeIsIssuers
  BY DEF Init, CallInv, OneInFlight, OutcomeIsIssuers, InFlight, Statuses, Terminal, Unsent
<1>3. WatchInv /\ FailureToldOnce /\ StaleInv /\ NoticeInv
  BY DEF Init, WatchInv, FailureToldOnce, StaleInv, NoticeInv
<1>4. TrailIsChain
  BY DEF Init, TrailIsChain
<1>. QED
  BY <1>1, <1>2, <1>3, <1>4 DEF IInv

-----------------------------------------------------------------------------
(* What an action leaves alone keeps its part of the invariant. *)

LEMMA CallFrame ==
  ASSUME CallInv, OneInFlight, OutcomeIsIssuers, UNCHANGED callVars
  PROVE  CallInv' /\ OneInFlight' /\ OutcomeIsIssuers'
BY DEF CallInv, OneInFlight, OutcomeIsIssuers, callVars

LEMMA WatchFrame ==
  ASSUME WatchInv, FailureToldOnce, UNCHANGED <<op, held, wire, watchVars, failures>>
  PROVE  WatchInv' /\ FailureToldOnce'
BY DEF WatchInv, FailureToldOnce, watchVars

LEMMA StaleFrame ==
  ASSUME StaleInv, UNCHANGED staleVars
  PROVE  StaleInv'
BY DEF StaleInv, staleVars

LEMMA NoticeFrame ==
  ASSUME NoticeInv, UNCHANGED noticeVars
  PROVE  NoticeInv'
BY DEF NoticeInv, noticeVars

LEMMA TrailFrame ==
  ASSUME TrailIsChain, UNCHANGED <<card, trail, born>>
  PROVE  TrailIsChain'
BY DEF TrailIsChain

LEMMA AppendFacts ==
  ASSUME NEW S, NEW q \in Seq(S), NEW e \in S
  PROVE  /\ Append(q, e) \in Seq(S)
         /\ Len(q) \in Nat /\ Len(Append(q, e)) = Len(q) + 1 /\ Append(q, e) # <<>>
         /\ \A i \in 1 .. Len(q) : Append(q, e)[i] = q[i]
         /\ Append(q, e)[Len(q) + 1] = e
OBVIOUS

\* A move made together with its event prolongs the chain.
LEMMA TrailGrows ==
  ASSUME TypeOK, TrailIsChain, UNCHANGED born,
         NEW s \in CardStatuses, MoveCard(card, s)
  PROVE  TrailIsChain'
<1> SUFFICES ASSUME ~Settles
             PROVE  /\ \A i \in 1 .. Len(trail') - 1 : trail'[i].to = trail'[i + 1].from
                    /\ trail' # <<>>
                    /\ trail'[1].from = born /\ trail'[Len(trail')].to = card'
  BY DEF TrailIsChain
<1> DEFINE last == [from |-> card, to |-> s]
<1>1. last \in Moves /\ card' = s /\ trail' = Append(trail, last)
  BY DEF MoveCard, Moves, TypeOK
<1>2. /\ Len(trail) \in Nat /\ Len(trail') = Len(trail) + 1 /\ trail' # <<>>
      /\ \A i \in 1 .. Len(trail) : trail'[i] = trail[i]
      /\ trail'[Len(trail) + 1] = last
  <2> HIDE DEF last
  <2>1. trail \in Seq(Moves)
    BY DEF TypeOK
  <2>. QED
    BY <1>1, <2>1, AppendFacts
<1>3. CASE trail = <<>>
  BY <1>1, <1>2, <1>3 DEF TrailIsChain
<1>4. CASE trail # <<>>
  <2>1. Len(trail) \in 1 .. Len(trail)
    BY <1>2, <1>4 DEF TypeOK
  <2>. QED
    BY <1>1, <1>2, <1>4, <2>1 DEF TrailIsChain
<1>. QED
  BY <1>3, <1>4

-----------------------------------------------------------------------------
(* The request. *)

LEMMA RequestType ==
  ASSUME TypeOK, CallInv, NEW c \in Calls, Request(c)
  PROVE  TypeOK'
<1> USE DEF TypeOK, cardVars, originVars, watchVars, staleVars, noticeVars
<1>1. CASE ReadCard(c)
  BY <1>1 DEF ReadCard, CallerStates
<1>2. CASE WriteDraft(c)
  <2>0. op \in [Calls -> Statuses \cup {"NONE"}] /\ caller \in [Calls -> CallerStates]
    OBVIOUS
  <2>1. op' \in [Calls -> Statuses \cup {"NONE"}]
    <3> HIDE DEF TypeOK
    <3>. QED
      BY <1>2, <2>0 DEF WriteDraft, Statuses, Unsent
  <2>2. caller' \in [Calls -> CallerStates]
    <3> HIDE DEF TypeOK
    <3>. QED
      BY <1>2, <2>0 DEF WriteDraft, CallerStates
  <2>. QED
    BY <1>2, <2>1, <2>2 DEF WriteDraft
<1>3. CASE AnswerAlreadyThere(c)
  BY <1>3 DEF AnswerAlreadyThere, CallerStates, Statuses, Terminal
<1>4. CASE Send(c)
  BY <1>4 DEF Send, CallerStates
<1>5. CASE Receive(c)
  BY <1>5 DEF Receive, CallerStates
<1>6. CASE TimeOut(c)
  BY <1>6 DEF TimeOut, CallerStates
<1>7. CASE MarkSubmitted(c)
  BY <1>7 DEF MarkSubmitted, CallerStates, Statuses
<1>8. CASE MarkApplied(c)
  BY <1>8 DEF MarkApplied, CallerStates, Statuses, Terminal
<1>9. CASE CompareAndSet(c)
  <2>1. says[c] \in CardStatuses
    BY <1>9 DEF CompareAndSet, CallInv
  <2>2. card' \in CardStatuses /\ caller' \in [Calls -> CallerStates]
    BY <1>9, <2>1 DEF CompareAndSet, CallerStates
  <2>. QED
    BY <1>9, <2>2 DEF CompareAndSet
<1>10. CASE RecordEvent(c)
  <2> DEFINE event == [from |-> was[c], to |-> says[c]]
  <2>1. event \in Moves
    BY <1>10 DEF RecordEvent, CallInv, Moves, Operable, CardStatuses
  <2>2. trail' = Append(trail, event) \/ trail' = trail
    BY <1>10 DEF RecordEvent
  <2>3. trail' \in Seq(Moves)
    <3> HIDE DEF event
    <3>1. trail \in Seq(Moves)
      OBVIOUS
    <3>2. Append(trail, event) \in Seq(Moves)
      BY <2>1, <3>1, AppendFacts
    <3>. QED
      BY <2>2, <3>1, <3>2
  <2>4. caller' \in [Calls -> CallerStates]
    <3>1. caller \in [Calls -> CallerStates]
      OBVIOUS
    <3> HIDE DEF TypeOK
    <3>. QED
      BY <1>10, <3>1 DEF RecordEvent, CallerStates
  <2>. QED
    BY <1>10, <2>3, <2>4 DEF RecordEvent
<1>11. CASE AnnounceMove(c)
  BY <1>11 DEF AnnounceMove, AnnounceStatus, CallerStates, CallInv
<1>12. CASE RecordFailure(c)
  BY <1>12 DEF RecordFailure, FailureStatus, CallerStates, Statuses, Terminal, Unsent
<1>13. CASE Abandon(c)
  BY <1>13 DEF Abandon, CallerStates
<1>. QED
  BY <1>1, <1>2, <1>3, <1>4, <1>5, <1>6, <1>7, <1>8, <1>9, <1>10, <1>11, <1>12, <1>13 DEF Request

LEMMA RequestCalls ==
  ASSUME TypeOK, CallInv, OutcomeIsIssuers, NEW c \in Calls, Request(c)
  PROVE  CallInv' /\ OutcomeIsIssuers'
<1> USE DEF TypeOK, CallInv, OutcomeIsIssuers
<1>1. CASE ReadCard(c)
  BY <1>1 DEF ReadCard, MayOperate, Operable
<1>2. CASE WriteDraft(c)
  BY <1>2 DEF WriteDraft
<1>3. CASE AnswerAlreadyThere(c)
  BY <1>3 DEF AnswerAlreadyThere, AlreadyThere
<1>4. CASE Send(c)
  BY <1>4 DEF Send
<1>5. CASE Receive(c)
  BY <1>5 DEF Receive
<1>6. CASE TimeOut(c)
  BY <1>6 DEF TimeOut
<1>7. CASE MarkSubmitted(c)
  BY <1>7 DEF MarkSubmitted
<1>8. CASE MarkApplied(c)
  BY <1>8 DEF MarkApplied
<1>9. CASE CompareAndSet(c)
  BY <1>9 DEF CompareAndSet
<1>10. CASE RecordEvent(c)
  BY <1>10 DEF RecordEvent
<1>11. CASE AnnounceMove(c)
  BY <1>11 DEF AnnounceMove
<1>12. CASE RecordFailure(c)
  BY <1>12 DEF RecordFailure, FailureStatus
<1>13. CASE Abandon(c)
  BY <1>13 DEF Abandon
<1>. QED
  BY <1>1, <1>2, <1>3, <1>4, <1>5, <1>6, <1>7, <1>8, <1>9, <1>10, <1>11, <1>12, <1>13 DEF Request

LEMMA RequestOneInFlight ==
  ASSUME TypeOK, CallInv, OneInFlight, NEW c \in Calls, Request(c)
  PROVE  OneInFlight'
<1> USE DEF TypeOK, OneInFlight, InFlight, Statuses, Terminal, Unsent
<1>1. CASE WriteDraft(c)
  BY <1>1 DEF WriteDraft, CardHeld
<1>2. CASE MarkSubmitted(c)
  BY <1>2 DEF MarkSubmitted, CallInv
<1>3. CASE AnswerAlreadyThere(c) \/ MarkApplied(c) \/ RecordFailure(c)
  <2>1. op'[c] \notin InFlight /\ \A d \in Calls : d # c => op'[d] = op[d]
    <3>1. CASE AnswerAlreadyThere(c) \/ MarkApplied(c)
      BY <3>1 DEF AnswerAlreadyThere, MarkApplied
    <3>2. CASE RecordFailure(c)
      BY <3>2 DEF RecordFailure, FailureStatus
    <3>. QED
      BY <1>3, <3>1, <3>2
  <2>. QED
    BY <2>1
<1>4. CASE UNCHANGED op
  BY <1>4
<1>. QED
  BY <1>1, <1>2, <1>3, <1>4
     DEF Request, ReadCard, Send, Receive, TimeOut, CompareAndSet, RecordEvent,
         AnnounceMove, Abandon

\* A call writes its row only before the row can be polled.
LEMMA RequestUnpolled ==
  ASSUME TypeOK, CallInv, NEW c \in Calls, Request(c)
  PROVE  /\ UNCHANGED <<held, watchVars, failures, staleVars, noticeVars, originVars>>
         /\ \A d \in Calls : op[d] \in {"SUBMITTED", "APPLIED", "FAILED"} =>
              op'[d] = op[d] /\ wire'[d] = wire[d]
<1> USE DEF TypeOK, CallInv
<1>1. CASE ReadCard(c)
  BY <1>1 DEF ReadCard
<1>2. CASE WriteDraft(c)
  BY <1>2 DEF WriteDraft
<1>3. CASE AnswerAlreadyThere(c)
  BY <1>3 DEF AnswerAlreadyThere
<1>4. CASE Send(c)
  BY <1>4 DEF Send
<1>5. CASE Receive(c)
  BY <1>5 DEF Receive
<1>6. CASE TimeOut(c)
  BY <1>6 DEF TimeOut
<1>7. CASE MarkSubmitted(c)
  BY <1>7 DEF MarkSubmitted
<1>8. CASE MarkApplied(c)
  BY <1>8 DEF MarkApplied
<1>9. CASE CompareAndSet(c)
  BY <1>9 DEF CompareAndSet
<1>10. CASE RecordEvent(c)
  BY <1>10 DEF RecordEvent
<1>11. CASE AnnounceMove(c)
  BY <1>11 DEF AnnounceMove
<1>12. CASE RecordFailure(c)
  BY <1>12 DEF RecordFailure
<1>13. CASE Abandon(c)
  BY <1>13 DEF Abandon
<1>. QED
  BY <1>1, <1>2, <1>3, <1>4, <1>5, <1>6, <1>7, <1>8, <1>9, <1>10, <1>11, <1>12, <1>13 DEF Request

LEMMA RequestTrail ==
  ASSUME CallInv, TrailIsChain, NEW c \in Calls, Request(c)
  PROVE  TrailIsChain'
<1>1. CASE Settles
  BY <1>1 DEF TrailIsChain
<1>2. CASE ~Settles
  <2>1. UNCHANGED <<card, trail, born>>
    BY <1>2 DEF Request, ReadCard, WriteDraft, AnswerAlreadyThere, Send, Receive, TimeOut,
                MarkSubmitted, MarkApplied, CompareAndSet, RecordEvent, AnnounceMove,
                RecordFailure, Abandon, CallInv, cardVars, originVars
  <2>. QED
    BY <2>1, TrailFrame
<1>. QED
  BY <1>1, <1>2

LEMMA RequestInvariant ==
  ASSUME IInv, NEW c \in Calls, Request(c)
  PROVE  IInv'
<1> USE DEF IInv
<1>1. TypeOK' /\ CallInv' /\ OutcomeIsIssuers' /\ OneInFlight' /\ TrailIsChain'
  BY RequestType, RequestCalls, RequestOneInFlight, RequestTrail
<1>2. /\ UNCHANGED <<held, watchVars, failures, staleVars, noticeVars>>
      /\ \A d \in Calls : op[d] \in {"SUBMITTED", "APPLIED", "FAILED"} =>
           op'[d] = op[d] /\ wire'[d] = wire[d]
  BY RequestUnpolled
<1>3. StaleInv' /\ NoticeInv'
  BY <1>2, StaleFrame, NoticeFrame
<1>4. WatchInv' /\ FailureToldOnce'
  BY <1>2 DEF WatchInv, FailureToldOnce, watchVars
<1>. QED
  BY <1>1, <1>3, <1>4

-----------------------------------------------------------------------------
(* The issuer. *)

LEMMA IssuerInvariant ==
  ASSUME IInv, NEW c \in Calls, Issuer(c)
  PROVE  IInv'
<1> USE DEF IInv
<1>1. TypeOK'
  <2>1. CASE IssuerAnswers(c)
    <3>1. wire' \in [Calls -> {"none", "request", "accepted", "applied", "refused", "failed"}]
      <4>1. wire \in [Calls -> {"none", "request", "accepted", "applied", "refused", "failed"}]
        BY DEF TypeOK
      <4>. QED
        BY <2>1, <4>1 DEF IssuerAnswers
    <3>2. held' \in [Calls -> {"NONE", "PENDING", "APPLIED", "FAILED"}]
      <4>1. held \in [Calls -> {"NONE", "PENDING", "APPLIED", "FAILED"}]
        BY DEF TypeOK
      <4>. QED
        BY <2>1, <4>1 DEF IssuerAnswers
    <3>3. says' \in [Calls -> CardStatuses \cup {"NONE"}]
      <4>1. says \in [Calls -> CardStatuses \cup {"NONE"}]
        BY DEF TypeOK
      <4>. QED
        BY <2>1, <4>1 DEF IssuerAnswers
    <3>. QED
      BY <2>1, <3>1, <3>2, <3>3
         DEF IssuerAnswers, TypeOK, cardVars, originVars, watchVars, staleVars, noticeVars
  <2>2. CASE IssuerCarriesOut(c)
    BY <2>2 DEF IssuerCarriesOut, TypeOK, cardVars, originVars, watchVars, staleVars, noticeVars
  <2>. QED
    BY <2>1, <2>2 DEF Issuer
<1>2. CallInv' /\ OutcomeIsIssuers' /\ OneInFlight'
  BY DEF Issuer, IssuerAnswers, IssuerCarriesOut, TypeOK, CallInv, OutcomeIsIssuers,
         OneInFlight
<1>3. UNCHANGED <<card, trail, born, op, watchVars, failures, staleVars, noticeVars>>
  BY DEF Issuer, IssuerAnswers, IssuerCarriesOut, cardVars, originVars
<1>4. WatchInv'
  <2>1. \A d \in Calls : wire[d] = "accepted" => wire'[d] = wire[d]
    BY DEF Issuer, IssuerAnswers, IssuerCarriesOut, TypeOK
  <2>2. \A d \in Calls : held[d] \in {"APPLIED", "FAILED"} => held'[d] = held[d]
    <3>1. CASE IssuerAnswers(c)
      <4>1. held[c] = "NONE"
        BY <3>1 DEF IssuerAnswers, CallInv
      <4>2. \A d \in Calls : d # c => held'[d] = held[d]
        BY <3>1 DEF IssuerAnswers, TypeOK
      <4>. QED
        BY <4>1, <4>2
    <3>2. CASE IssuerCarriesOut(c)
      BY <3>2 DEF IssuerCarriesOut, TypeOK
    <3>. QED
      BY <3>1, <3>2 DEF Issuer
  <2>. QED
    BY <1>3, <2>1, <2>2 DEF WatchInv, TypeOK, watchVars
<1>5. FailureToldOnce'
  BY <1>3 DEF FailureToldOnce, watchVars
<1>6. StaleInv' /\ NoticeInv' /\ TrailIsChain'
  BY <1>3, StaleFrame, NoticeFrame, TrailFrame
<1>. QED
  BY <1>1, <1>2, <1>4, <1>5, <1>6

-----------------------------------------------------------------------------
(* The observers. *)

LEMMA ObserveType ==
  ASSUME TypeOK, WatchInv, NEW o \in Observers, Observe(o)
  PROVE  TypeOK'
<1> USE DEF TypeOK, cardVars, originVars, callVars, staleVars, noticeVars
<1>1. ASSUME NEW c \in Calls, Pick(o, c) \/ Suspect(o, c) PROVE TypeOK'
  <2>1. CASE Pick(o, c)
    BY <2>1 DEF Pick
  <2>2. CASE Suspect(o, c)
    BY <2>2 DEF Suspect
  <2>. QED
    BY <1>1, <2>1, <2>2
<1>2. CASE LoadCard(o)
  BY <1>2 DEF LoadCard
<1>3. CASE Ask(o)
  BY <1>3 DEF Ask
<1>4. CASE GiveUp(o)
  BY <1>4 DEF GiveUp, Release
<1>5. CASE RecordOutcome(o)
  <2>1. dep[o] \in Calls /\ heard[o] \in {"APPLIED", "FAILED"} /\ seen[o] \in CardStatuses
    BY <1>5 DEF RecordOutcome, WatchInv
  <2>2. op' \in [Calls -> Statuses \cup {"NONE"}]
    BY <1>5, <2>1 DEF RecordOutcome, Statuses, Terminal
  <2>3. /\ at' \in [Observers -> {"idle", "picked", "loaded", "answered", "moved",
                                  "failed", "suspecting"}]
        /\ dep' \in [Observers -> Calls \cup {NoCall}]
        /\ seen' \in [Observers -> CardStatuses \cup {"NONE"}]
        /\ heard' \in [Observers -> {"NONE", "APPLIED", "FAILED"}]
    <3>0. /\ at \in [Observers -> {"idle", "picked", "loaded", "answered", "moved",
                                   "failed", "suspecting"}]
          /\ dep \in [Observers -> Calls \cup {NoCall}]
          /\ seen \in [Observers -> CardStatuses \cup {"NONE"}]
          /\ heard \in [Observers -> {"NONE", "APPLIED", "FAILED"}]
      OBVIOUS
    <3> HIDE DEF TypeOK
    <3>1. /\ \/ at' = [at EXCEPT ![o] = "idle"] \/ at' = [at EXCEPT ![o] = "moved"]
             \/ at' = [at EXCEPT ![o] = "failed"]
          /\ dep' = dep \/ dep' = [dep EXCEPT ![o] = NoCall]
          /\ seen' = seen \/ seen' = [seen EXCEPT ![o] = "NONE"]
          /\ heard' = heard \/ heard' = [heard EXCEPT ![o] = "NONE"]
      BY <1>5 DEF RecordOutcome, Release
    <3>2. at' \in [Observers -> {"idle", "picked", "loaded", "answered", "moved",
                                "failed", "suspecting"}]
      BY <3>0, <3>1
    <3>3. dep' \in [Observers -> Calls \cup {NoCall}]
      BY <3>0, <3>1
    <3>4. seen' \in [Observers -> CardStatuses \cup {"NONE"}]
      BY <3>0, <3>1
    <3>5. heard' \in [Observers -> {"NONE", "APPLIED", "FAILED"}]
      BY <3>0, <3>1
    <3>. QED
      BY <3>2, <3>3, <3>4, <3>5
  <2>4. Wanted[dep[o]] \in CardStatuses
    BY <2>1, WantedAssumption DEF Operable, CardStatuses
  <2>5. card' \in CardStatuses /\ trail' \in Seq(Moves)
    <3> DEFINE event == [from |-> seen[o], to |-> Wanted[dep[o]]]
    <3>1. event \in Moves
      BY <2>1, <2>4 DEF Moves
    <3>2. \/ card' = Wanted[dep[o]] /\ trail' = Append(trail, event)
          \/ card' = card /\ trail' = trail
      BY <1>5 DEF RecordOutcome, MoveCard
    <3> HIDE DEF event
    <3>3. trail \in Seq(Moves)
      OBVIOUS
    <3>4. Append(trail, event) \in Seq(Moves)
      BY <3>1, <3>3, AppendFacts
    <3>. QED
      <4> HIDE DEF TypeOK
      <4>1. card \in CardStatuses
        BY DEF TypeOK
      <4>. QED
        BY <2>4, <3>2, <3>3, <3>4, <4>1
  <2>. QED
    BY <1>5, <2>2, <2>3, <2>5 DEF RecordOutcome
<1>6. CASE OperationLost(o)
  BY <1>6 DEF OperationLost, Release
<1>7. CASE TellMove(o)
  <2>1. Wanted[dep[o]] \in CardStatuses
    BY <1>7, WantedAssumption DEF TellMove, WatchInv, Operable, CardStatuses
  <2>. QED
    BY <1>7, <2>1 DEF TellMove, AnnounceStatus, Release
<1>8. CASE TellFailure(o)
  BY <1>8 DEF TellFailure, WatchInv, Release
<1>9. CASE Escalate(o)
  <2>1. dep[o] \in Calls
    BY <1>9 DEF Escalate, WatchInv
  <2>2. overdue' \in [Calls -> BOOLEAN] /\ warned' \in [Calls -> Nat]
    <3>1. overdue \in [Calls -> BOOLEAN] /\ warned \in [Calls -> Nat]
      OBVIOUS
    <3> HIDE DEF TypeOK
    <3>2. CASE Unclaimed(o)
      <4>1. /\ overdue' = [overdue EXCEPT ![dep[o]] = TRUE]
            /\ warned' = [warned EXCEPT ![dep[o]] = warned[dep[o]] + 1]
        BY <1>9, <3>2 DEF Escalate
      <4>2. warned[dep[o]] + 1 \in Nat
        BY <2>1, <3>1
      <4>. QED
        BY <3>1, <4>1, <4>2
    <3>3. CASE ~Unclaimed(o)
      BY <1>9, <3>1, <3>3 DEF Escalate
    <3>. QED
      BY <3>2, <3>3
  <2>. QED
    BY <1>9, <2>2 DEF Escalate, Release
<1>. QED
  BY <1>1, <1>2, <1>3, <1>4, <1>5, <1>6, <1>7, <1>8, <1>9 DEF Observe

\* Only the transaction writes what the calls and the card hold.
LEMMA ObserveFrame ==
  ASSUME NEW o \in Observers, Observe(o), ~RecordOutcome(o)
  PROVE  UNCHANGED <<callVars, card, trail, born, noticeVars>>
BY DEF Observe, Pick, Suspect, LoadCard, Ask, GiveUp, OperationLost, TellMove, TellFailure,
       Escalate, cardVars, originVars, staleVars

LEMMA ObserveStale ==
  ASSUME TypeOK, StaleInv, WatchInv, NEW o \in Observers, Observe(o)
  PROVE  StaleInv'
<1>1. CASE Escalate(o)
  <2>1. dep[o] \in Calls
    BY <1>1 DEF Escalate, WatchInv
  <2>2. overdue \in [Calls -> BOOLEAN] /\ warned \in [Calls -> Nat]
    BY DEF TypeOK
  <2>3. CASE Unclaimed(o)
    <3>1. overdue[dep[o]] = FALSE /\ warned[dep[o]] = 0
      BY <2>1, <2>2, <2>3 DEF Unclaimed, StaleInv
    <3>2. /\ overdue' = [overdue EXCEPT ![dep[o]] = TRUE]
          /\ warned' = [warned EXCEPT ![dep[o]] = warned[dep[o]] + 1]
      BY <1>1, <2>3 DEF Escalate
    <3>3. /\ overdue'[dep[o]] /\ warned'[dep[o]] = 1
          /\ \A d \in Calls : d # dep[o] =>
               overdue'[d] = overdue[d] /\ warned'[d] = warned[d]
      BY <2>1, <2>2, <3>1, <3>2
    <3>. QED
      BY <3>3 DEF StaleInv
  <2>4. CASE ~Unclaimed(o)
    BY <1>1, <2>4, StaleFrame DEF Escalate
  <2>. QED
    BY <2>3, <2>4
<1>2. CASE UNCHANGED staleVars
  BY <1>2, StaleFrame
<1>. QED
  BY <1>1, <1>2 DEF Observe, Pick, Suspect, LoadCard, Ask, GiveUp, RecordOutcome,
                    OperationLost, TellMove, TellFailure

LEMMA RecordedRow ==
  ASSUME IInv, NEW o \in Observers, RecordOutcome(o)
  PROVE  /\ dep[o] \in Calls /\ op[dep[o]] = "SUBMITTED" /\ wire[dep[o]] = "accepted"
         /\ heard[o] = held[dep[o]] /\ heard[o] \in {"APPLIED", "FAILED"}
         /\ op' = [op EXCEPT ![dep[o]] = heard[o]]
         /\ UNCHANGED <<caller, was, wire, held, says, failures>>
BY DEF RecordOutcome, StillAsLoaded, IInv, WatchInv, TypeOK, Outstanding, Statuses,
       Terminal, Unsent

LEMMA ObserveCalls ==
  ASSUME IInv, NEW o \in Observers, Observe(o)
  PROVE  CallInv' /\ OneInFlight' /\ OutcomeIsIssuers'
<1> USE DEF IInv
<1>1. CASE RecordOutcome(o)
  <2> DEFINE c == dep[o]
  <2>1. /\ c \in Calls /\ op[c] = "SUBMITTED" /\ wire[c] = "accepted"
        /\ held[c] \in {"APPLIED", "FAILED"}
        /\ op' = [op EXCEPT ![c] = held[c]]
        /\ UNCHANGED <<caller, was, wire, held, says>>
    BY <1>1, RecordedRow
  <2>2. op'[c] = held[c] /\ \A d \in Calls : d # c => op'[d] = op[d]
    BY <2>1 DEF TypeOK
  <2> HIDE DEF c
  <2>3. CallInv' /\ OutcomeIsIssuers'
    BY <2>1, <2>2 DEF CallInv, OutcomeIsIssuers
  <2>4. OneInFlight'
    BY <2>1, <2>2 DEF OneInFlight, InFlight, Statuses, Terminal, Unsent
  <2>. QED
    BY <2>3, <2>4
<1>2. CASE ~RecordOutcome(o)
  BY <1>2, ObserveFrame, CallFrame
<1>. QED
  BY <1>1, <1>2

LEMMA ObserveTrail ==
  ASSUME IInv, NEW o \in Observers, Observe(o)
  PROVE  TrailIsChain'
<1> USE DEF IInv
<1>1. CASE RecordOutcome(o)
  <2>1. born' = born
    BY <1>1 DEF RecordOutcome, originVars
  <2>2. CASE UNCHANGED <<card, trail>>
    BY <2>1, <2>2, TrailFrame
  <2>3. CASE MoveCard(seen[o], Wanted[dep[o]]) /\ CardAsLoaded(o)
    <3>1. Wanted[dep[o]] \in CardStatuses
      BY <1>1, RecordedRow, WantedAssumption DEF Operable, CardStatuses
    <3>2. PICK s \in CardStatuses : s = Wanted[dep[o]]
      BY <3>1
    <3>3. MoveCard(card, s)
      BY <2>3, <3>2 DEF CardAsLoaded, MoveCard
    <3>. QED
      BY <2>1, <3>3, TrailGrows
  <2>. QED
    BY <1>1, <2>2, <2>3 DEF RecordOutcome
<1>2. CASE ~RecordOutcome(o)
  BY <1>2, ObserveFrame, TrailFrame
<1>. QED
  BY <1>1, <1>2

LEMMA ObserveWatch ==
  ASSUME IInv, NEW o \in Observers, Observe(o)
  PROVE  WatchInv' /\ FailureToldOnce'
<1> USE DEF IInv
<1>0. /\ at \in [Observers -> {"idle", "picked", "loaded", "answered", "moved",
                               "failed", "suspecting"}]
      /\ dep \in [Observers -> Calls \cup {NoCall}]
      /\ seen \in [Observers -> CardStatuses \cup {"NONE"}]
      /\ heard \in [Observers -> {"NONE", "APPLIED", "FAILED"}]
      /\ held \in [Calls -> {"NONE", "PENDING", "APPLIED", "FAILED"}]
      /\ failures \in [Calls -> Nat]
      /\ card \in CardStatuses
      /\ op \in [Calls -> Statuses \cup {"NONE"}]
  BY DEF TypeOK
<1>1. CASE \E c \in Calls : Pick(o, c)
  <2>1. PICK c \in Calls : Pick(o, c)
    BY <1>1
  <2>2. op[c] = "SUBMITTED" /\ wire[c] = "accepted"
    BY <1>0, <2>1 DEF Pick, Outstanding, Statuses, Terminal, Unsent, CallInv
  <2>. QED
    BY <1>0, <2>1, <2>2 DEF Pick, WatchInv, FailureToldOnce, callVars
<1>2. CASE \E c \in Calls : Suspect(o, c)
  BY <1>0, <1>2 DEF Suspect, WatchInv, FailureToldOnce, callVars
<1>3. CASE LoadCard(o)
  BY <1>0, <1>3 DEF LoadCard, WatchInv, FailureToldOnce, callVars
<1>4. CASE Ask(o)
  BY <1>0, <1>4 DEF Ask, WatchInv, FailureToldOnce, callVars
<1>5. CASE GiveUp(o) \/ OperationLost(o) \/ TellMove(o) \/ Escalate(o)
  <2>1. Release(o) /\ UNCHANGED <<callVars, failures>>
    BY <1>5 DEF GiveUp, OperationLost, TellMove, Escalate
  <2>. QED
    BY <1>0, <2>1 DEF Release, WatchInv, FailureToldOnce, callVars
<1>6. CASE TellFailure(o)
  <2>1. /\ at[o] = "failed" /\ Release(o) /\ UNCHANGED callVars
        /\ failures' = [failures EXCEPT ![dep[o]] = failures[dep[o]] + 1]
    BY <1>6 DEF TellFailure
  <2>2. dep[o] \in Calls /\ failures[dep[o]] = 0 /\ op[dep[o]] = "FAILED"
    BY <2>1 DEF WatchInv, FailureToldOnce
  <2>3. failures'[dep[o]] = 1 /\ \A d \in Calls : d # dep[o] => failures'[d] = failures[d]
    BY <1>0, <2>1, <2>2
  <2>4. /\ at'[o] = "idle"
        /\ \A p \in Observers : p # o => /\ at'[p] = at[p] /\ dep'[p] = dep[p]
                                       /\ seen'[p] = seen[p] /\ heard'[p] = heard[p]
    BY <1>0, <2>1 DEF Release
  <2>5. WatchInv'
    BY <2>1, <2>4 DEF WatchInv, callVars
  <2>6. \A c \in Calls : failures'[c] = 0 \/ (failures'[c] = 1 /\ op'[c] = "FAILED")
    BY <2>1, <2>2, <2>3 DEF FailureToldOnce, callVars
  <2>7. \A p \in Observers : at'[p] = "failed" => p # o /\ dep[p] # dep[o] /\ dep[p] \in Calls
    BY <2>1, <2>4 DEF FailureToldOnce, WatchInv
  <2>. QED
    BY <2>1, <2>3, <2>4, <2>5, <2>6, <2>7 DEF FailureToldOnce, callVars
<1>7. CASE RecordOutcome(o)
  <2>1. /\ dep[o] \in Calls /\ op[dep[o]] = "SUBMITTED" /\ wire[dep[o]] = "accepted"
        /\ heard[o] = held[dep[o]] /\ heard[o] \in {"APPLIED", "FAILED"}
        /\ op' = [op EXCEPT ![dep[o]] = heard[o]]
        /\ UNCHANGED <<caller, was, wire, held, says, failures>>
    BY <1>7, RecordedRow
  <2>2. /\ op'[dep[o]] = heard[o]
        /\ \A d \in Calls : d # dep[o] => op'[d] = op[d]
    BY <1>0, <2>1
  <2>3. \A p \in Observers : p # o => /\ at'[p] = at[p] /\ dep'[p] = dep[p]
                                    /\ seen'[p] = seen[p] /\ heard'[p] = heard[p]
    BY <1>0, <1>7 DEF RecordOutcome, Release
  <2>4. /\ at'[o] \in {"idle", "moved", "failed"}
        /\ at'[o] # "idle" => dep'[o] = dep[o]
        /\ at'[o] = "failed" => heard[o] = "FAILED"
    BY <1>0, <1>7 DEF RecordOutcome, Release
  <2>5. ~Settles
    BY <1>7 DEF RecordOutcome, WatchInv
  <2>6. WatchInv'
    BY <2>1, <2>2, <2>3, <2>4, <2>5 DEF WatchInv
  <2>7. \A c \in Calls : failures'[c] = 0 \/ (failures'[c] = 1 /\ op'[c] = "FAILED")
    BY <2>1, <2>2 DEF FailureToldOnce
  <2>8. failures[dep[o]] = 0
    BY <2>1 DEF FailureToldOnce
  <2>9. \A p \in Observers : at[p] = "failed" => dep[p] # dep[o]
    BY <2>1 DEF FailureToldOnce
  <2>10. ASSUME NEW p \in Observers, at'[p] = "failed"
         PROVE  op'[dep'[p]] = "FAILED" /\ failures'[dep'[p]] = 0 /\ dep'[p] \in Calls
    <3>1. CASE p = o
      BY <2>1, <2>2, <2>4, <2>8, <2>10, <3>1
    <3>2. CASE p # o
      BY <2>1, <2>2, <2>3, <2>9, <2>10, <3>2 DEF FailureToldOnce, WatchInv
    <3>. QED
      BY <3>1, <3>2
  <2>11. ASSUME NEW p \in Observers, NEW q \in Observers,
                at'[p] = "failed", at'[q] = "failed", dep'[p] = dep'[q]
         PROVE  p = q
    <3>1. CASE p = o /\ q # o
      BY <2>3, <2>4, <2>9, <2>11, <3>1
    <3>2. CASE p # o /\ q = o
      BY <2>3, <2>4, <2>9, <2>11, <3>2
    <3>3. CASE p # o /\ q # o
      BY <2>3, <2>11, <3>3 DEF FailureToldOnce
    <3>. QED
      BY <3>1, <3>2, <3>3
  <2>. QED
    BY <2>6, <2>7, <2>10, <2>11 DEF FailureToldOnce
<1>. QED
  BY <1>1, <1>2, <1>3, <1>4, <1>5, <1>6, <1>7 DEF Observe

LEMMA ObserveInvariant ==
  ASSUME IInv, NEW o \in Observers, Observe(o)
  PROVE  IInv'
<1>1. UNCHANGED noticeVars
  BY DEF Observe, Pick, Suspect, LoadCard, Ask, GiveUp, RecordOutcome, OperationLost,
         TellMove, TellFailure, Escalate
<1>. QED
  BY <1>1, ObserveType, ObserveCalls, ObserveTrail, ObserveWatch, ObserveStale, NoticeFrame
     DEF IInv

-----------------------------------------------------------------------------
(* The announcements. *)

LEMMA NotifyFrame ==
  ASSUME NEW k \in Notices, Notify(k)
  PROVE  UNCHANGED <<callVars, watchVars, failures, staleVars, born>>
BY DEF Notify, LoadForNotice, ReadForNotice, ApplyNotice, TellNotice, DropNotice, originVars

LEMMA NotifyNotice ==
  ASSUME TypeOK, NoticeInv, NEW k \in Notices, Notify(k)
  PROVE  NoticeInv'
<1> USE DEF NoticeInv
<1>0. /\ notice \in [Notices -> {"new", "loaded", "read", "moved", "done"}]
      /\ loaded \in [Notices -> CardStatuses \cup {"NONE"}]
      /\ read \in [Notices -> CardStatuses \cup {"NONE"}]
      /\ card \in CardStatuses
  BY DEF TypeOK
<1>1. CASE LoadForNotice(k)
  BY <1>0, <1>1 DEF LoadForNotice
<1>2. CASE ReadForNotice(k)
  BY <1>0, <1>2 DEF ReadForNotice
<1>3. CASE ApplyNotice(k)
  BY <1>0, <1>3 DEF ApplyNotice
<1>4. CASE TellNotice(k) \/ DropNotice(k)
  BY <1>0, <1>4 DEF TellNotice, DropNotice
<1>. QED
  BY <1>1, <1>2, <1>3, <1>4 DEF Notify

LEMMA NotifyTrail ==
  ASSUME TypeOK, NoticeInv, TrailIsChain, NEW k \in Notices, Notify(k)
  PROVE  TrailIsChain'
<1>0. born' = born
  BY NotifyFrame
<1>1. CASE UNCHANGED <<card, trail>>
  BY <1>0, <1>1, TrailFrame
<1>2. CASE ApplyNotice(k) /\ MoveCard(card, read[k])
  <2>1. PICK s \in CardStatuses : s = read[k]
    BY <1>2 DEF ApplyNotice, NoticeInv
  <2>2. MoveCard(card, s)
    BY <1>2, <2>1
  <2>. QED
    BY <1>0, <2>2, TrailGrows
<1>. QED
  BY <1>1, <1>2 DEF Notify, LoadForNotice, ReadForNotice, ApplyNotice, TellNotice,
                    DropNotice, cardVars, MoveCard

LEMMA NotifyType ==
  ASSUME TypeOK, NoticeInv, NEW k \in Notices, Notify(k)
  PROVE  TypeOK'
<1> USE DEF TypeOK, cardVars, originVars, callVars, watchVars, staleVars
<1>1. CASE LoadForNotice(k)
  BY <1>1 DEF LoadForNotice
<1>2. CASE ReadForNotice(k)
  BY <1>2 DEF ReadForNotice
<1>3. CASE ApplyNotice(k)
  <2>1. loaded[k] \in CardStatuses /\ read[k] \in CardStatuses
    BY <1>3 DEF ApplyNotice, NoticeInv
  <2>2. card' \in CardStatuses /\ trail' \in Seq(Moves) /\ activating' \in BOOLEAN
    <3> DEFINE event == [from |-> loaded[k], to |-> read[k]]
    <3>0. card \in CardStatuses /\ trail \in Seq(Moves) /\ activating \in BOOLEAN
      OBVIOUS
    <3> HIDE DEF TypeOK
    <3>1. event \in Moves
      BY <2>1 DEF Moves
    <3>2. \/ /\ card' = read[k] /\ trail' = Append(trail, event)
             /\ activating' = ClearedBy(read[k])
          \/ card' = card /\ trail' = trail /\ activating' = activating
      BY <1>3 DEF ApplyNotice, MoveCard
    <3>3. ClearedBy(read[k]) \in BOOLEAN
      BY DEF ClearedBy
    <3> HIDE DEF event
    <3>4. Append(trail, event) \in Seq(Moves)
      BY <3>0, <3>1, AppendFacts
    <3>. QED
      BY <2>1, <3>0, <3>2, <3>3, <3>4
  <2>3. notice' \in [Notices -> {"new", "loaded", "read", "moved", "done"}]
    <3>1. notice \in [Notices -> {"new", "loaded", "read", "moved", "done"}]
      OBVIOUS
    <3> HIDE DEF TypeOK
    <3>2. notice' = [notice EXCEPT ![k] = "moved"] \/ notice' = [notice EXCEPT ![k] = "done"]
      BY <1>3 DEF ApplyNotice
    <3>. QED
      BY <3>1, <3>2
  <2>. QED
    BY <1>3, <2>2, <2>3 DEF ApplyNotice
<1>4. CASE TellNotice(k)
  BY <1>4 DEF TellNotice, AnnounceStatus, NoticeInv
<1>5. CASE DropNotice(k)
  BY <1>5 DEF DropNotice
<1>. QED
  BY <1>1, <1>2, <1>3, <1>4, <1>5 DEF Notify

LEMMA NotifyInvariant ==
  ASSUME IInv, NEW k \in Notices, Notify(k)
  PROVE  IInv'
<1>1. UNCHANGED <<callVars, watchVars, failures, staleVars, born>>
  BY NotifyFrame
<1>2. UNCHANGED <<op, held, wire>>
  BY <1>1 DEF callVars
<1>3. CallInv' /\ OneInFlight' /\ OutcomeIsIssuers'
  BY <1>1, CallFrame DEF IInv
<1>4. WatchInv' /\ FailureToldOnce' /\ StaleInv'
  BY <1>1, <1>2, WatchFrame, StaleFrame DEF IInv
<1>. QED
  BY <1>3, <1>4, NotifyType, NotifyNotice, NotifyTrail DEF IInv

-----------------------------------------------------------------------------
(* The theorems. *)

LEMMA StutterInvariant ==
  ASSUME IInv, UNCHANGED vars
  PROVE  IInv'
<1>1. UNCHANGED <<callVars, watchVars, failures, staleVars, noticeVars, card, trail, born,
                  op, held, wire, news, activating>>
  BY DEF vars, cardVars, originVars, callVars
<1>2. TypeOK'
  BY <1>1 DEF IInv, TypeOK, callVars, watchVars, staleVars, noticeVars
<1>. QED
  BY <1>1, <1>2, CallFrame, WatchFrame, StaleFrame, NoticeFrame, TrailFrame DEF IInv

\* The inductive invariant holds, for any calls, observers and deliveries.
THEOREM Invariant == Spec => []IInv
<1>1. IInv /\ [Next]_vars => IInv'
  BY RequestInvariant, IssuerInvariant, ObserveInvariant, NotifyInvariant, StutterInvariant
     DEF Next
<1>. QED
  BY InitInvariant, <1>1, PTL DEF Spec

\* Every variable of the operations module keeps its type.
THEOREM TypeCorrect == Spec => []TypeOK
<1>1. IInv => TypeOK
  BY DEF IInv
<1>. QED
  BY Invariant, <1>1, PTL

\* The unique index alone keeps a card from being held by two operations.
THEOREM AtMostOneInFlight == Spec => []OneInFlight
<1>1. IInv => OneInFlight
  BY DEF IInv
<1>. QED
  BY Invariant, <1>1, PTL

\* The issuer is given one operation at a time, those that timed out excepted.
THEOREM OneAtATimeAtIssuer == Spec => []ExclusiveAtIssuer
<1>1. ASSUME IInv, NEW c \in Unsettled, op[c] # "SUBMISSION_FAILED" PROVE op[c] \in InFlight
  <2>1. c \in Calls /\ op[c] \in Statuses \cup {"NONE"} /\ (wire[c] = "request" \/ held[c] = "PENDING")
    BY <1>1 DEF Unsettled, IInv, TypeOK
  <2>2. op[c] \notin {"NONE", "REJECTED", "FAILED", "APPLIED"}
    BY <1>1, <2>1 DEF IInv, CallInv, OutcomeIsIssuers
  <2>. QED
    BY <1>1, <2>1, <2>2 DEF InFlight, Statuses, Terminal, Unsent
<1>2. IInv => ExclusiveAtIssuer
  BY <1>1 DEF ExclusiveAtIssuer, Unsettled, IInv, OneInFlight
<1>. QED
  BY Invariant, <1>2, PTL

\* An operation's recorded outcome is the issuer's, or the stale shortcut's.
THEOREM OutcomeBacked == Spec => []OutcomeIsIssuers
<1>1. IInv => OutcomeIsIssuers
  BY DEF IInv
<1>. QED
  BY Invariant, <1>1, PTL

\* The partner hears of a failure at most once, however many observers race.
THEOREM FailureAnnouncedOnce == Spec => []FailureToldOnce
<1>1. IInv => FailureToldOnce
  BY DEF IInv
<1>. QED
  BY Invariant, <1>1, PTL

\* No operation is escalated twice, however many passes overlap.
THEOREM EscalatedAtMostOnce == Spec => []EscalatedOnce
<1>1. IInv => EscalatedOnce
  BY DEF IInv, StaleInv, EscalatedOnce
<1>. QED
  BY Invariant, <1>1, PTL

\* With an issuer that settles afterwards, the events of a card form a chain.
THEOREM EventsFormAChain == Spec => []TrailIsChain
<1>1. IInv => TrailIsChain
  BY DEF IInv
<1>. QED
  BY Invariant, <1>1, PTL

\* A final operation is never written again.
THEOREM OutcomeNeverRewritten == Spec => FinalIsFinal
<1>1. ASSUME IInv, [Next]_vars, NEW c \in Calls, op[c] \in Terminal PROVE op'[c] = op[c]
  <2>1. ASSUME NEW d \in Calls, Request(d) PROVE op'[c] = op[c]
    <3>1. CASE d = c
      <4>1. caller[c] \notin {"gated", "drafted", "accepted", "applied", "refused", "failed"}
        BY <1>1 DEF IInv, CallInv, Terminal
      <4>. QED
        BY <2>1, <3>1, <4>1
           DEF Request, ReadCard, WriteDraft, AnswerAlreadyThere, Send, Receive, TimeOut,
               MarkSubmitted, MarkApplied, CompareAndSet, RecordEvent, AnnounceMove,
               RecordFailure, Abandon
    <3>2. CASE d # c
      BY <1>1, <2>1, <3>2
         DEF Request, ReadCard, WriteDraft, AnswerAlreadyThere, Send, Receive, TimeOut,
             MarkSubmitted, MarkApplied, CompareAndSet, RecordEvent, AnnounceMove,
             RecordFailure, Abandon, IInv, TypeOK
    <3>. QED
      BY <3>1, <3>2
  <2>2. ASSUME NEW o \in Observers, Observe(o) PROVE op'[c] = op[c]
    <3>1. CASE RecordOutcome(o)
      BY <1>1, <3>1, RecordedRow DEF IInv, TypeOK, Terminal
    <3>2. CASE ~RecordOutcome(o)
      BY <2>2, <3>2, ObserveFrame DEF callVars
    <3>. QED
      BY <3>1, <3>2
  <2>3. ASSUME NEW d \in Calls, Issuer(d) PROVE op'[c] = op[c]
    BY <2>3 DEF Issuer, IssuerAnswers, IssuerCarriesOut
  <2>4. ASSUME NEW k \in Notices, Notify(k) PROVE op'[c] = op[c]
    BY <2>4, NotifyFrame DEF callVars
  <2>5. CASE UNCHANGED vars
    BY <2>5 DEF vars, callVars
  <2>. QED
    BY <1>1, <2>1, <2>2, <2>3, <2>4, <2>5 DEF Next
<1>2. IInv /\ [Next]_vars => \A c \in Calls : op[c] \in Terminal => op'[c] = op[c]
  BY <1>1
<1>. QED
  BY <1>2, Invariant, PTL DEF Spec, FinalIsFinal

\* How a step may write the card: a transition out of no final status, with its
\* event unless the issuer settles during the call.
LEMMA CardStep ==
  ASSUME IInv, [Next]_vars
  PROVE  \/ UNCHANGED <<card, trail>>
         \/ Settles /\ card \notin TerminalCard
         \/ Settles /\ UNCHANGED card
         \/ /\ card \notin TerminalCard
            /\ \E s \in CardStatuses \ {card} : MoveCard(card, s)
<1> USE DEF IInv
<1>1. ASSUME NEW c \in Calls, Request(c), Settles
      PROVE  card \notin TerminalCard \/ UNCHANGED card
  <2>1. CASE CompareAndSet(c)
    BY <2>1 DEF CompareAndSet, CardAsRead, CallInv, Operable, TerminalCard
  <2>. QED
    BY <1>1, <2>1 DEF Request, ReadCard, WriteDraft, AnswerAlreadyThere, Send, Receive,
           TimeOut, MarkSubmitted, MarkApplied, RecordEvent, AnnounceMove, RecordFailure,
           Abandon, cardVars
<1>2. ASSUME NEW c \in Calls, Request(c), ~Settles PROVE UNCHANGED <<card, trail>>
  BY <1>2 DEF Request, ReadCard, WriteDraft, AnswerAlreadyThere, Send, Receive, TimeOut,
              MarkSubmitted, MarkApplied, CompareAndSet, RecordEvent, AnnounceMove,
              RecordFailure, Abandon, CallInv, cardVars
<1>3. ASSUME NEW c \in Calls, Issuer(c) PROVE UNCHANGED <<card, trail>>
  BY <1>3 DEF Issuer, IssuerAnswers, IssuerCarriesOut, cardVars
<1>4. ASSUME NEW o \in Observers, Observe(o), ~UNCHANGED <<card, trail>>
      PROVE  /\ card \notin TerminalCard
             /\ \E s \in CardStatuses \ {card} : MoveCard(card, s)
  <2>1. RecordOutcome(o)
    BY <1>4, ObserveFrame
  <2>2. MoveDue(o) /\ CardAsLoaded(o) /\ MoveCard(seen[o], Wanted[dep[o]])
    BY <1>4, <2>1 DEF RecordOutcome
  <2>3. Wanted[dep[o]] \in CardStatuses
    BY <2>1, RecordedRow, WantedAssumption DEF Operable, CardStatuses
  <2>4. PICK s \in CardStatuses : s = Wanted[dep[o]]
    BY <2>3
  <2>5. MoveCard(card, s) /\ s # card /\ card \in Operable
    BY <2>2, <2>4 DEF MoveDue, CardAsLoaded
  <2>. QED
    BY <2>5 DEF Operable, TerminalCard
<1>5. ASSUME NEW k \in Notices, Notify(k), ~UNCHANGED <<card, trail>>
      PROVE  /\ card \notin TerminalCard
             /\ \E s \in CardStatuses \ {card} : MoveCard(card, s)
  <2>1. ApplyNotice(k)
    BY <1>5 DEF Notify, LoadForNotice, ReadForNotice, TellNotice, DropNotice, cardVars
  <2>2. MoveAnnounced(k) /\ card = loaded[k] /\ MoveCard(loaded[k], read[k])
    BY <1>5, <2>1 DEF ApplyNotice
  <2>3. PICK s \in CardStatuses : s = read[k]
    BY <2>1 DEF ApplyNotice, NoticeInv
  <2>4. MoveCard(card, s) /\ s # card /\ card \notin TerminalCard
    BY <2>2, <2>3 DEF MoveAnnounced
  <2>. QED
    BY <2>4
<1>6. CASE UNCHANGED vars
  BY <1>6 DEF vars, cardVars
<1>. QED
  BY <1>1, <1>2, <1>3, <1>4, <1>5, <1>6, SettlesAssumption DEF Next

\* No request, pass or notice takes a card out of CLOSED.
THEOREM OperationsKeepClosed == Spec => ClosedStays
<1>1. IInv /\ [Next]_vars => (card \in TerminalCard => card' = card)
  BY CardStep
<1>. QED
  BY <1>1, Invariant, PTL DEF Spec, ClosedStays

\* With an issuer that settles afterwards, the operations implement CardLifecycle.
THEOREM ImplementsLifecycle == ~Settles => (Spec => LifecycleSpec)
<1> SUFFICES ASSUME ~Settles PROVE Spec => LifecycleSpec
  OBVIOUS
<1>1. Init => Lifecycle!Init
  BY DEF Init, Lifecycle!Init, CardStatuses, Lifecycle!CardStatuses
<1>2. IInv /\ [Next]_vars => [Lifecycle!Next]_(Lifecycle!vars)
  BY CardStep DEF MoveCard, Lifecycle!Next, Lifecycle!Move, Lifecycle!vars,
     CardStatuses, Lifecycle!CardStatuses, TerminalCard, Lifecycle!TerminalCard
<1>. QED
  BY <1>1, <1>2, Invariant, PTL DEF Spec, LifecycleSpec, Lifecycle!Spec

-----------------------------------------------------------------------------
(* Counting. Every step moves one actor. *)

\* Those that have moved the card and not yet announced it, one kind at a time.
CallsTelling(s) == {c \in Calls : caller[c] \in {"moved", "recorded", "unrecorded"} /\ says[c] = s}
ObserversTelling(s) == {o \in Observers : at[o] = "moved" /\ Wanted[dep[o]] = s}
NoticesTelling(s) == {k \in Notices : notice[k] = "moved" /\ read[k] = s}

\* At most one call goes on.
OneCall(c) == \A d \in Calls \ {c} : caller'[d] = caller[d] /\ was'[d] = was[d] /\ says'[d] = says[d]

\* The call has moved the card, and may still announce it.
Telling == {"moved", "recorded", "unrecorded"}

One(holds) == IF holds THEN 1 ELSE 0

\* A finite set is counted with one of its elements apart.
LEMMA CountApart ==
  ASSUME NEW S, IsFiniteSet(S), NEW e
  PROVE  /\ Cardinality(S \ {e}) \in Nat
         /\ Cardinality(S) = Cardinality(S \ {e}) + One(e \in S)
<1>1. IsFiniteSet(S \ {e})
  BY FS_Subset
<1>2. CASE e \in S
  BY <1>1, <1>2, FS_RemoveElement, FS_CardinalityType DEF One
<1>3. CASE e \notin S
  <2>1. S \ {e} = S
    BY <1>3
  <2>2. Cardinality(S) \in Nat
    BY FS_CardinalityType
  <2>3. One(e \in S) = 0
    BY <1>3 DEF One
  <2> QED
    BY <2>1, <2>2, <2>3
<1> QED
  BY <1>2, <1>3

\* Two sets that differ in one element at most.
LEMMA CountsMove ==
  ASSUME NEW S, IsFiniteSet(S), NEW T, IsFiniteSet(T), NEW e, S \ {e} = T \ {e}
  PROVE  /\ Cardinality(S) \in Nat /\ Cardinality(T) \in Nat
         /\ Cardinality(T) + One(e \in S) = Cardinality(S) + One(e \in T)
<1>1. PICK k \in Nat : k = Cardinality(S \ {e}) /\ k = Cardinality(T \ {e})
  BY CountApart
<1>2. Cardinality(S) = k + One(e \in S) /\ Cardinality(T) = k + One(e \in T)
  BY <1>1, CountApart
<1> QED
  BY <1>2 DEF One

\* An event more.
LEMMA EventsMove ==
  ASSUME TypeOK, NEW e \in Moves, trail' = Append(trail, e), NEW s
  PROVE  /\ EventsTo(s) \in Nat /\ EventsTo(s)' = EventsTo(s) + Is(e.to, s)
         /\ EventsFrom(s) \in Nat /\ EventsFrom(s)' = EventsFrom(s) + Is(e.from, s)
<1>1. /\ Len(trail) \in Nat /\ DOMAIN trail = 1 .. Len(trail) /\ DOMAIN trail' = 1 .. Len(trail) + 1
      /\ \A i \in DOMAIN trail : trail'[i] = trail[i]
      /\ trail'[Len(trail) + 1] = e
  BY DEF TypeOK
<1> DEFINE n == Len(trail) + 1
           to == {i \in DOMAIN trail : trail[i].to = s}
           from == {i \in DOMAIN trail : trail[i].from = s}
<1>2. IsFiniteSet(to) /\ IsFiniteSet(to') /\ IsFiniteSet(from) /\ IsFiniteSet(from')
  <2>1. IsFiniteSet(1 .. Len(trail)) /\ IsFiniteSet(1 .. Len(trail) + 1)
    BY <1>1, FS_Interval
  <2> QED
    BY <1>1, <2>1, FS_Subset
<1>3. n \notin to /\ n \notin from /\ (n \in to' <=> e.to = s) /\ (n \in from' <=> e.from = s)
  BY <1>1
<1>4. to \ {n} = to' \ {n} /\ from \ {n} = from' \ {n}
  BY <1>1
<1>5. /\ Cardinality(to) \in Nat /\ Cardinality(to') \in Nat
      /\ Cardinality(to') + One(n \in to) = Cardinality(to) + One(n \in to')
  <2> HIDE DEF to, from, n
  <2> QED
    BY <1>2, <1>4, CountsMove
<1>6. /\ Cardinality(from) \in Nat /\ Cardinality(from') \in Nat
      /\ Cardinality(from') + One(n \in from) = Cardinality(from) + One(n \in from')
  <2> HIDE DEF to, from, n
  <2> QED
    BY <1>2, <1>4, CountsMove
<1>7. /\ One(n \in to) = 0 /\ One(n \in to') = Is(e.to, s)
      /\ One(n \in from) = 0 /\ One(n \in from') = Is(e.from, s)
  BY <1>3 DEF One, Is
<1>8. EventsTo(s) = Cardinality(to) /\ EventsFrom(s) = Cardinality(from)
      /\ EventsTo(s)' = Cardinality(to') /\ EventsFrom(s)' = Cardinality(from')
  BY DEF EventsTo, EventsFrom
<1>9. Is(e.to, s) \in Nat /\ Is(e.from, s) \in Nat
  BY DEF Is
<1> HIDE DEF to, from, n
<1> QED
  BY <1>5, <1>6, <1>7, <1>8, <1>9

\* What is counted of the calls, where one of them goes on.
LEMMA CallsMove ==
  ASSUME NEW c \in Calls, OneCall(c),
         NEW s
  PROVE  /\ UnwrittenTo(s) \in Nat /\ UnwrittenFrom(s) \in Nat /\ Cardinality(CallsTelling(s)) \in Nat
         /\ UnwrittenTo(s)' \in Nat /\ UnwrittenFrom(s)' \in Nat /\ Cardinality(CallsTelling(s))' \in Nat
         /\ UnwrittenTo(s)' + One(c \in Unwritten /\ says[c] = s) =
              UnwrittenTo(s) + One(c \in Unwritten' /\ says'[c] = s)
         /\ UnwrittenFrom(s)' + One(c \in Unwritten /\ was[c] = s) =
              UnwrittenFrom(s) + One(c \in Unwritten' /\ was'[c] = s)
         /\ Cardinality(CallsTelling(s))' + One(c \in CallsTelling(s)) =
              Cardinality(CallsTelling(s)) + One(c \in CallsTelling(s)')
<1> DEFINE to == {d \in Unwritten : says[d] = s}
           from == {d \in Unwritten : was[d] = s}
           telling == CallsTelling(s)
<1>1. /\ IsFiniteSet(to) /\ IsFiniteSet(to') /\ IsFiniteSet(from) /\ IsFiniteSet(from')
      /\ IsFiniteSet(telling) /\ IsFiniteSet(telling')
  BY ActorsAssumption, FS_Subset DEF Unwritten, CallsTelling
<1>2. to \ {c} = to' \ {c} /\ from \ {c} = from' \ {c} /\ telling \ {c} = telling' \ {c}
  BY DEF Unwritten, CallsTelling, OneCall
<1>3. /\ c \in to <=> (c \in Unwritten /\ says[c] = s)
      /\ c \in to' <=> (c \in Unwritten' /\ says'[c] = s)
      /\ c \in from <=> (c \in Unwritten /\ was[c] = s)
      /\ c \in from' <=> (c \in Unwritten' /\ was'[c] = s)
  OBVIOUS
<1>4. UnwrittenTo(s) = Cardinality(to) /\ UnwrittenFrom(s) = Cardinality(from)
  BY DEF UnwrittenTo, UnwrittenFrom
<1>5. UnwrittenTo(s)' = Cardinality(to') /\ UnwrittenFrom(s)' = Cardinality(from')
  BY DEF UnwrittenTo, UnwrittenFrom
<1> HIDE DEF to, from, telling
<1>6. /\ Cardinality(to) \in Nat /\ Cardinality(to') \in Nat
      /\ Cardinality(to') + One(c \in to) = Cardinality(to) + One(c \in to')
  BY <1>1, <1>2, CountsMove
<1>7. /\ Cardinality(from) \in Nat /\ Cardinality(from') \in Nat
      /\ Cardinality(from') + One(c \in from) = Cardinality(from) + One(c \in from')
  BY <1>1, <1>2, CountsMove
<1>8. /\ Cardinality(telling) \in Nat /\ Cardinality(telling') \in Nat
      /\ Cardinality(telling') + One(c \in telling) = Cardinality(telling) + One(c \in telling')
  BY <1>1, <1>2, CountsMove
<1> QED
  BY <1>3, <1>4, <1>5, <1>6, <1>7, <1>8 DEF One, telling

\* What is counted of the passes, where one of them goes on.
LEMMA ObserversMove ==
  ASSUME NEW o \in Observers, \A p \in Observers \ {o} : at'[p] = at[p] /\ dep'[p] = dep[p], NEW s
  PROVE  /\ Cardinality(ObserversTelling(s)) \in Nat /\ Cardinality(ObserversTelling(s))' \in Nat
         /\ Cardinality(ObserversTelling(s))' + One(o \in ObserversTelling(s)) =
              Cardinality(ObserversTelling(s)) + One(o \in ObserversTelling(s)')
<1> DEFINE telling == ObserversTelling(s)
<1>1. IsFiniteSet(telling) /\ IsFiniteSet(telling')
  BY ActorsAssumption, FS_Subset DEF ObserversTelling
<1>2. telling \ {o} = telling' \ {o}
  BY DEF ObserversTelling
<1> HIDE DEF telling
<1>3. /\ Cardinality(telling) \in Nat /\ Cardinality(telling') \in Nat
      /\ Cardinality(telling') + One(o \in telling) = Cardinality(telling) + One(o \in telling')
  BY <1>1, <1>2, CountsMove
<1> QED
  BY <1>3 DEF telling

\* What is counted of the notices, where one of them goes on.
LEMMA NoticesMove ==
  ASSUME NEW k \in Notices, \A l \in Notices \ {k} : notice'[l] = notice[l] /\ read'[l] = read[l], NEW s
  PROVE  /\ Cardinality(NoticesTelling(s)) \in Nat /\ Cardinality(NoticesTelling(s))' \in Nat
         /\ Cardinality(NoticesTelling(s))' + One(k \in NoticesTelling(s)) =
              Cardinality(NoticesTelling(s)) + One(k \in NoticesTelling(s)')
<1> DEFINE telling == NoticesTelling(s)
<1>1. IsFiniteSet(telling) /\ IsFiniteSet(telling')
  BY ActorsAssumption, FS_Subset DEF NoticesTelling
<1>2. telling \ {k} = telling' \ {k}
  BY DEF NoticesTelling
<1> HIDE DEF telling
<1>3. /\ Cardinality(telling) \in Nat /\ Cardinality(telling') \in Nat
      /\ Cardinality(telling') + One(k \in telling) = Cardinality(telling) + One(k \in telling')
  BY <1>1, <1>2, CountsMove
<1> QED
  BY <1>3 DEF telling

\* The announcements still to be made are those of the three kinds.
LEMMA Announcements ==
  ASSUME NEW s
  PROVE  /\ Announcing(s) = Cardinality(CallsTelling(s)) + Cardinality(ObserversTelling(s))
                            + Cardinality(NoticesTelling(s))
         /\ Announcing(s)' = Cardinality(CallsTelling(s))' + Cardinality(ObserversTelling(s))'
                             + Cardinality(NoticesTelling(s))'
BY DEF Announcing, CallsTelling, ObserversTelling, NoticesTelling

\* All that is counted is a number, and so are its parts.
LEMMA Counted ==
  ASSUME TypeOK, NEW s \in CardStatuses
  PROVE  /\ EventsTo(s) \in Nat /\ EventsFrom(s) \in Nat /\ news[s] \in Nat
         /\ UnwrittenTo(s) \in Nat /\ UnwrittenFrom(s) \in Nat
         /\ Cardinality(CallsTelling(s)) \in Nat
         /\ Cardinality(ObserversTelling(s)) \in Nat /\ Cardinality(NoticesTelling(s)) \in Nat
<1>1. Len(trail) \in Nat /\ DOMAIN trail = 1 .. Len(trail)
  BY DEF TypeOK
<1>2. IsFiniteSet(DOMAIN trail)
  BY <1>1, FS_Interval
<1>3. EventsTo(s) \in Nat /\ EventsFrom(s) \in Nat
  BY <1>2, FS_Subset, FS_CardinalityType DEF EventsTo, EventsFrom
<1>4. UnwrittenTo(s) \in Nat /\ UnwrittenFrom(s) \in Nat /\ Cardinality(CallsTelling(s)) \in Nat
  BY ActorsAssumption, FS_Subset, FS_CardinalityType DEF UnwrittenTo, UnwrittenFrom, Unwritten, CallsTelling
<1>5. Cardinality(ObserversTelling(s)) \in Nat /\ Cardinality(NoticesTelling(s)) \in Nat
  BY ActorsAssumption, FS_Subset, FS_CardinalityType DEF ObserversTelling, NoticesTelling
<1> QED
  BY <1>3, <1>4, <1>5 DEF TypeOK

-----------------------------------------------------------------------------
\* A request that has not moved the card, or does not go on from where it is.
LEMMA QuietAccounts ==
  ASSUME IInv, TrailAccounts, NEW c \in Calls,
         OneCall(c),
         c \in Unwritten <=> c \in Unwritten',
         caller[c] \in {"moved", "recorded", "unrecorded"} <=> caller'[c] \in {"moved", "recorded", "unrecorded"},
         caller[c] \in {"moved", "recorded", "unrecorded", "lost"} => was'[c] = was[c] /\ says'[c] = says[c],
         UNCHANGED <<cardVars, born, watchVars, noticeVars>>
  PROVE  TrailAccounts'
<1> SUFFICES ASSUME NEW s \in CardStatuses
             PROVE  /\ EventsTo(s)' + UnwrittenTo(s)' + Is(born, s)' = EventsFrom(s)' + UnwrittenFrom(s)' + Is(card, s)'
                    /\ news'[s] + Announcing(s)' <= EventsTo(s)' + UnwrittenTo(s)'
  BY DEF TrailAccounts
<1>1. /\ EventsTo(s)' = EventsTo(s) /\ EventsFrom(s)' = EventsFrom(s) /\ Is(born, s)' = Is(born, s)
      /\ Is(card, s)' = Is(card, s) /\ news' = news
      /\ ObserversTelling(s)' = ObserversTelling(s) /\ NoticesTelling(s)' = NoticesTelling(s)
  BY DEF cardVars, watchVars, noticeVars, EventsTo, EventsFrom, Is, ObserversTelling, NoticesTelling
<1>2. /\ c \in Unwritten /\ says[c] = s <=> c \in Unwritten' /\ says'[c] = s
      /\ c \in Unwritten /\ was[c] = s <=> c \in Unwritten' /\ was'[c] = s
      /\ c \in CallsTelling(s) <=> c \in CallsTelling(s)'
  BY DEF Unwritten, CallsTelling
<1>3. /\ One(c \in Unwritten /\ says[c] = s) = One(c \in Unwritten' /\ says'[c] = s)
      /\ One(c \in Unwritten /\ was[c] = s) = One(c \in Unwritten' /\ was'[c] = s)
      /\ One(c \in CallsTelling(s)) = One(c \in CallsTelling(s)')
      /\ One(c \in Unwritten /\ says[c] = s) \in Nat /\ One(c \in Unwritten /\ was[c] = s) \in Nat
      /\ One(c \in CallsTelling(s)) \in Nat
  BY <1>2 DEF One
<1>4. /\ UnwrittenTo(s)' = UnwrittenTo(s) /\ UnwrittenFrom(s)' = UnwrittenFrom(s)
      /\ Cardinality(CallsTelling(s))' = Cardinality(CallsTelling(s))
  <2>1. /\ UnwrittenTo(s) \in Nat /\ UnwrittenFrom(s) \in Nat /\ Cardinality(CallsTelling(s)) \in Nat
        /\ UnwrittenTo(s)' \in Nat /\ UnwrittenFrom(s)' \in Nat /\ Cardinality(CallsTelling(s))' \in Nat
        /\ UnwrittenTo(s)' + One(c \in Unwritten /\ says[c] = s) =
             UnwrittenTo(s) + One(c \in Unwritten' /\ says'[c] = s)
        /\ UnwrittenFrom(s)' + One(c \in Unwritten /\ was[c] = s) =
             UnwrittenFrom(s) + One(c \in Unwritten' /\ was'[c] = s)
        /\ Cardinality(CallsTelling(s))' + One(c \in CallsTelling(s)) =
             Cardinality(CallsTelling(s)) + One(c \in CallsTelling(s)')
    BY CallsMove, Zenon
  <2> QED
    BY <1>3, <2>1
<1>5. Announcing(s)' = Announcing(s)
  BY <1>1, <1>4, Announcements
<1> QED
  BY <1>1, <1>4, <1>5 DEF TrailAccounts

\* What a call that goes on adds to the counts, and what it takes from them.
LEMMA CallGoesOn ==
  ASSUME NEW c \in Calls, OneCall(c), was'[c] = was[c], says'[c] = says[c], NEW s
  PROVE  /\ c \in Unwritten <=> c \in Unwritten' =>
              UnwrittenTo(s)' = UnwrittenTo(s) /\ UnwrittenFrom(s)' = UnwrittenFrom(s)
         /\ c \notin Unwritten /\ c \in Unwritten' =>
              /\ UnwrittenTo(s)' = UnwrittenTo(s) + Is(says[c], s)
              /\ UnwrittenFrom(s)' = UnwrittenFrom(s) + Is(was[c], s)
         /\ c \in Unwritten /\ c \notin Unwritten' =>
              /\ UnwrittenTo(s)' + Is(says[c], s) = UnwrittenTo(s)
              /\ UnwrittenFrom(s)' + Is(was[c], s) = UnwrittenFrom(s)
         /\ caller[c] \notin Telling /\ caller'[c] \in Telling =>
              Cardinality(CallsTelling(s))' = Cardinality(CallsTelling(s)) + Is(says[c], s)
         /\ caller[c] \in Telling /\ caller'[c] \notin Telling =>
              Cardinality(CallsTelling(s))' + Is(says[c], s) = Cardinality(CallsTelling(s))
         /\ caller[c] \in Telling /\ caller'[c] \in Telling =>
              Cardinality(CallsTelling(s))' = Cardinality(CallsTelling(s))
<1>1. /\ UnwrittenTo(s) \in Nat /\ UnwrittenFrom(s) \in Nat /\ Cardinality(CallsTelling(s)) \in Nat
      /\ UnwrittenTo(s)' \in Nat /\ UnwrittenFrom(s)' \in Nat /\ Cardinality(CallsTelling(s))' \in Nat
      /\ UnwrittenTo(s)' + One(c \in Unwritten /\ says[c] = s) =
           UnwrittenTo(s) + One(c \in Unwritten' /\ says'[c] = s)
      /\ UnwrittenFrom(s)' + One(c \in Unwritten /\ was[c] = s) =
           UnwrittenFrom(s) + One(c \in Unwritten' /\ was'[c] = s)
      /\ Cardinality(CallsTelling(s))' + One(c \in CallsTelling(s)) =
           Cardinality(CallsTelling(s)) + One(c \in CallsTelling(s)')
  BY CallsMove, Zenon
<1>2. /\ One(c \in Unwritten /\ says[c] = s) = IF c \in Unwritten THEN Is(says[c], s) ELSE 0
      /\ One(c \in Unwritten' /\ says'[c] = s) = IF c \in Unwritten' THEN Is(says[c], s) ELSE 0
      /\ One(c \in Unwritten /\ was[c] = s) = IF c \in Unwritten THEN Is(was[c], s) ELSE 0
      /\ One(c \in Unwritten' /\ was'[c] = s) = IF c \in Unwritten' THEN Is(was[c], s) ELSE 0
  BY DEF One, Is
<1>3. /\ One(c \in CallsTelling(s)) = IF caller[c] \in Telling THEN Is(says[c], s) ELSE 0
      /\ One(c \in CallsTelling(s)') = IF caller'[c] \in Telling THEN Is(says[c], s) ELSE 0
  BY DEF One, Is, CallsTelling, Telling
<1>4. Is(says[c], s) \in Nat /\ Is(was[c], s) \in Nat
  BY DEF Is
<1>5. /\ c \in Unwritten <=> c \in Unwritten' =>
           UnwrittenTo(s)' = UnwrittenTo(s) /\ UnwrittenFrom(s)' = UnwrittenFrom(s)
  BY <1>1, <1>2, <1>4
<1>6. c \notin Unwritten /\ c \in Unwritten' =>
              /\ UnwrittenTo(s)' = UnwrittenTo(s) + Is(says[c], s)
              /\ UnwrittenFrom(s)' = UnwrittenFrom(s) + Is(was[c], s)
  BY <1>1, <1>2, <1>4
<1>7. c \in Unwritten /\ c \notin Unwritten' =>
              /\ UnwrittenTo(s)' + Is(says[c], s) = UnwrittenTo(s)
              /\ UnwrittenFrom(s)' + Is(was[c], s) = UnwrittenFrom(s)
  BY <1>1, <1>2, <1>4
<1>8. /\ caller[c] \notin Telling /\ caller'[c] \in Telling =>
              Cardinality(CallsTelling(s))' = Cardinality(CallsTelling(s)) + Is(says[c], s)
      /\ caller[c] \in Telling /\ caller'[c] \notin Telling =>
              Cardinality(CallsTelling(s))' + Is(says[c], s) = Cardinality(CallsTelling(s))
      /\ caller[c] \in Telling /\ caller'[c] \in Telling =>
              Cardinality(CallsTelling(s))' = Cardinality(CallsTelling(s))
  BY <1>1, <1>3, <1>4
<1> QED
  BY <1>5, <1>6, <1>7, <1>8

\* The request: a move whose event is to follow, the event, the announcement.
LEMMA RequestAccounts ==
  ASSUME IInv, TrailAccounts, NEW c \in Calls, Request(c)
  PROVE  TrailAccounts'
<1> DEFINE Accounts(s) == /\ EventsTo(s) + UnwrittenTo(s) + Is(born, s) = EventsFrom(s) + UnwrittenFrom(s) + Is(card, s)
                          /\ news[s] + Announcing(s) <= EventsTo(s) + UnwrittenTo(s)
<1>0. TypeOK /\ CallInv /\ caller \in [Calls -> CallerStates] /\ was \in [Calls -> CardStatuses \cup {"NONE"}]
  BY DEF IInv, TypeOK
<1>1. ASSUME ReadCard(c) \/ WriteDraft(c) \/ AnswerAlreadyThere(c) \/ Send(c) \/ Receive(c) \/ TimeOut(c)
             \/ MarkSubmitted(c) \/ MarkApplied(c) \/ RecordFailure(c)
      PROVE  TrailAccounts'
  <2>1. OneCall(c) /\ says' = says /\ UNCHANGED <<cardVars, born, watchVars, noticeVars>>
    BY <1>0, <1>1 DEF ReadCard, WriteDraft, AnswerAlreadyThere, Send, Receive, TimeOut, MarkSubmitted, MarkApplied,
       RecordFailure, OneCall, originVars
  <2>2. /\ caller[c] \in {"start", "gated", "drafted", "calling", "accepted", "applied", "refused", "failed"}
        /\ caller'[c] \in {"gated", "done", "drafted", "calling", "accepted", "applied", "refused", "failed", "moving"}
    BY <1>0, <1>1 DEF ReadCard, WriteDraft, AnswerAlreadyThere, Send, Receive, TimeOut, MarkSubmitted, MarkApplied,
       RecordFailure
  <2> QED
    BY <2>1, <2>2, QuietAccounts DEF Unwritten
<1>2. ASSUME Abandon(c), caller[c] \notin {"moved", "unrecorded", "recorded"} PROVE TrailAccounts'
  <2>1. OneCall(c) /\ says' = says /\ UNCHANGED <<cardVars, born, watchVars, noticeVars>>
    BY <1>0, <1>2 DEF Abandon, OneCall, originVars
  <2>2. caller[c] # "lost" /\ caller'[c] = "done"
    BY <1>0, <1>2 DEF Abandon
  <2> QED
    BY <1>2, <2>1, <2>2, QuietAccounts DEF Unwritten
<1>3. ASSUME CompareAndSet(c), caller'[c] = "done" PROVE TrailAccounts'
  <2>1. OneCall(c) /\ says' = says /\ UNCHANGED <<trail, news, born, watchVars, noticeVars>> /\ caller[c] = "moving"
    BY <1>0, <1>3 DEF CompareAndSet, OneCall, originVars
  <2>2. card' = card
    BY <1>0, <1>3 DEF CompareAndSet
  <2> QED
    BY <1>3, <2>1, <2>2, QuietAccounts DEF Unwritten, cardVars
<1>4. ASSUME OneCall(c), was' = was, says' = says, UNCHANGED <<born, watchVars, noticeVars>>,
             \/ CompareAndSet(c) /\ caller'[c] # "done"
             \/ RecordEvent(c)
             \/ AnnounceMove(c)
             \/ Abandon(c) /\ caller[c] \in {"moved", "unrecorded", "recorded"},
             NEW s \in CardStatuses
      PROVE  Accounts(s)'
  <2>1. /\ EventsTo(s) \in Nat /\ EventsFrom(s) \in Nat /\ news[s] \in Nat
        /\ UnwrittenTo(s) \in Nat /\ UnwrittenFrom(s) \in Nat
        /\ Cardinality(CallsTelling(s)) \in Nat
        /\ Cardinality(ObserversTelling(s)) \in Nat /\ Cardinality(NoticesTelling(s)) \in Nat
    BY <1>0, Counted
  <2>2. /\ Is(born, s)' = Is(born, s) /\ ObserversTelling(s)' = ObserversTelling(s)
        /\ NoticesTelling(s)' = NoticesTelling(s)
    BY <1>4 DEF Is, ObserversTelling, NoticesTelling, watchVars, noticeVars
  <2>3. Is(says[c], s) \in Nat /\ Is(was[c], s) \in Nat /\ Is(card, s) \in Nat /\ Is(born, s) \in Nat
    BY DEF Is
  <2>4. Accounts(s)
    BY DEF TrailAccounts
  <2>5. /\ Announcing(s) = Cardinality(CallsTelling(s)) + Cardinality(ObserversTelling(s))
                           + Cardinality(NoticesTelling(s))
        /\ Announcing(s)' = Cardinality(CallsTelling(s))' + Cardinality(ObserversTelling(s))
                            + Cardinality(NoticesTelling(s))
    BY <2>2, Announcements
  <2>6. /\ c \in Unwritten <=> caller[c] \in {"moved", "unrecorded", "lost"}
        /\ c \in Unwritten' <=> caller'[c] \in {"moved", "unrecorded", "lost"}
    BY DEF Unwritten
  <2>7. CASE CompareAndSet(c) /\ caller'[c] # "done"
    <3>1. /\ caller[c] = "moving" /\ caller'[c] = "moved" /\ card = was[c] /\ card' = says[c]
          /\ UNCHANGED <<trail, news>>
      BY <1>0, <2>7 DEF CompareAndSet, CardAsRead
    <3>2. /\ UnwrittenTo(s)' = UnwrittenTo(s) + Is(says[c], s)
          /\ UnwrittenFrom(s)' = UnwrittenFrom(s) + Is(was[c], s)
          /\ Cardinality(CallsTelling(s))' = Cardinality(CallsTelling(s)) + Is(says[c], s)
      BY <1>4, <2>6, <3>1, CallGoesOn DEF Telling
    <3>3. EventsTo(s)' = EventsTo(s) /\ EventsFrom(s)' = EventsFrom(s) /\ Is(card, s)' = Is(says[c], s)
      BY <3>1 DEF EventsTo, EventsFrom, Is
    <3> QED
      BY <2>1, <2>2, <2>3, <2>4, <2>5, <3>1, <3>2, <3>3
  <2>8. CASE RecordEvent(c) /\ caller'[c] = "recorded"
    <3>1. /\ caller[c] = "moved" /\ caller'[c] = "recorded" /\ UNCHANGED <<card, news>>
          /\ trail' = Append(trail, [from |-> was[c], to |-> says[c]])
      BY <1>0, <2>8 DEF RecordEvent
    <3>2. /\ UnwrittenTo(s)' + Is(says[c], s) = UnwrittenTo(s)
          /\ UnwrittenFrom(s)' + Is(was[c], s) = UnwrittenFrom(s)
          /\ Cardinality(CallsTelling(s))' = Cardinality(CallsTelling(s))
      BY <1>4, <2>6, <3>1, CallGoesOn DEF Telling
    <3>3. [from |-> was[c], to |-> says[c]] \in Moves
      BY <1>0, <3>1 DEF CallInv, Moves, Operable, CardStatuses
    <3>4. EventsTo(s)' = EventsTo(s) + Is(says[c], s) /\ EventsFrom(s)' = EventsFrom(s) + Is(was[c], s)
      BY <1>0, <3>1, <3>3, EventsMove
    <3>5. UnwrittenTo(s)' \in Nat /\ UnwrittenFrom(s)' \in Nat
      BY <1>4, CallsMove
    <3>6. Is(card, s)' = Is(card, s) /\ news' = news
      BY <3>1 DEF Is
    <3> QED
      BY <2>1, <2>2, <2>3, <2>4, <2>5, <3>2, <3>4, <3>5, <3>6
  <2>9. CASE RecordEvent(c) /\ caller'[c] = "unrecorded"
    <3>1. caller[c] = "moved" /\ UNCHANGED <<card, trail, news>>
      BY <1>0, <2>9 DEF RecordEvent
    <3>2. /\ UnwrittenTo(s)' = UnwrittenTo(s)
          /\ UnwrittenFrom(s)' = UnwrittenFrom(s)
          /\ Cardinality(CallsTelling(s))' = Cardinality(CallsTelling(s))
      BY <1>4, <2>6, <2>9, <3>1, CallGoesOn DEF Telling
    <3>3. EventsTo(s)' = EventsTo(s) /\ EventsFrom(s)' = EventsFrom(s) /\ Is(card, s)' = Is(card, s)
      BY <3>1 DEF EventsTo, EventsFrom, Is
    <3> QED
      BY <2>1, <2>2, <2>3, <2>4, <2>5, <3>1, <3>2, <3>3
  <2>10. CASE AnnounceMove(c)
    <3>1. /\ caller[c] \in {"recorded", "unrecorded"} /\ UNCHANGED <<card, trail>>
          /\ caller'[c] = IF caller[c] = "recorded" THEN "done" ELSE "lost"
          /\ news' = [news EXCEPT ![says[c]] = @ + 1]
      BY <1>0, <2>10 DEF AnnounceMove, AnnounceStatus
    <3>2. /\ UnwrittenTo(s)' = UnwrittenTo(s)
          /\ UnwrittenFrom(s)' = UnwrittenFrom(s)
          /\ Cardinality(CallsTelling(s))' + Is(says[c], s) = Cardinality(CallsTelling(s))
      BY <1>4, <2>6, <3>1, CallGoesOn DEF Telling
    <3>3. EventsTo(s)' = EventsTo(s) /\ EventsFrom(s)' = EventsFrom(s) /\ Is(card, s)' = Is(card, s)
      BY <3>1 DEF EventsTo, EventsFrom, Is
    <3>4. news'[s] = news[s] + Is(says[c], s)
      BY <1>0, <3>1 DEF TypeOK, Is
    <3>5. Cardinality(CallsTelling(s))' \in Nat
      BY <1>4, CallsMove
    <3> QED
      BY <2>1, <2>2, <2>3, <2>4, <2>5, <3>1, <3>2, <3>3, <3>4, <3>5
  <2>11. CASE Abandon(c) /\ caller[c] \in {"moved", "unrecorded", "recorded"}
    <3>1. /\ caller'[c] = IF caller[c] = "recorded" THEN "done" ELSE "lost"
          /\ UNCHANGED <<card, trail, news>>
      BY <1>0, <2>11 DEF Abandon, cardVars
    <3>2. /\ UnwrittenTo(s)' = UnwrittenTo(s)
          /\ UnwrittenFrom(s)' = UnwrittenFrom(s)
          /\ Cardinality(CallsTelling(s))' + Is(says[c], s) = Cardinality(CallsTelling(s))
      BY <1>4, <2>6, <2>11, <3>1, CallGoesOn DEF Telling
    <3>3. EventsTo(s)' = EventsTo(s) /\ EventsFrom(s)' = EventsFrom(s) /\ Is(card, s)' = Is(card, s)
      BY <3>1 DEF EventsTo, EventsFrom, Is
    <3>5. Cardinality(CallsTelling(s))' \in Nat
      BY <1>4, CallsMove
    <3> QED
      BY <2>1, <2>2, <2>3, <2>4, <2>5, <3>1, <3>2, <3>3, <3>5
  <2>12. RecordEvent(c) => caller'[c] \in {"recorded", "unrecorded"}
    BY <1>0 DEF RecordEvent
  <2> QED
    BY <1>4, <2>7, <2>8, <2>9, <2>10, <2>11, <2>12, Zenon
<1>5. ASSUME \/ CompareAndSet(c) /\ caller'[c] # "done"
             \/ RecordEvent(c)
             \/ AnnounceMove(c)
             \/ Abandon(c) /\ caller[c] \in {"moved", "unrecorded", "recorded"}
      PROVE  TrailAccounts'
  <2>1. OneCall(c) /\ was' = was /\ says' = says /\ UNCHANGED <<born, watchVars, noticeVars>>
    BY <1>0, <1>5 DEF CompareAndSet, RecordEvent, AnnounceMove, Abandon, OneCall, originVars
  <2>2. \A s \in CardStatuses : Accounts(s)'
    <3> HIDE DEF Accounts
    <3> QED
      BY <1>4, <1>5, <2>1, Zenon
  <2> QED
    BY <2>2 DEF TrailAccounts
<1> QED
  <2>1. \/ Abandon(c) /\ caller[c] \notin {"moved", "unrecorded", "recorded"}
        \/ CompareAndSet(c) /\ caller'[c] = "done"
        \/ CompareAndSet(c) /\ caller'[c] # "done"
        \/ RecordEvent(c)
        \/ AnnounceMove(c)
        \/ Abandon(c) /\ caller[c] \in {"moved", "unrecorded", "recorded"}
        \/ ReadCard(c) \/ WriteDraft(c) \/ AnswerAlreadyThere(c) \/ Send(c) \/ Receive(c) \/ TimeOut(c)
        \/ MarkSubmitted(c) \/ MarkApplied(c) \/ RecordFailure(c)
    BY DEF Request
  <2> HIDE DEF Accounts
  <2>2. CASE Abandon(c) /\ caller[c] \notin {"moved", "unrecorded", "recorded"}
    BY <1>2, <2>2
  <2>3. CASE CompareAndSet(c) /\ caller'[c] = "done"
    BY <1>3, <2>3
  <2>4. CASE \/ CompareAndSet(c) /\ caller'[c] # "done"
             \/ RecordEvent(c)
             \/ AnnounceMove(c)
             \/ Abandon(c) /\ caller[c] \in {"moved", "unrecorded", "recorded"}
    BY <1>5, <2>4
  <2>5. CASE \/ ReadCard(c) \/ WriteDraft(c) \/ AnswerAlreadyThere(c) \/ Send(c) \/ Receive(c) \/ TimeOut(c)
             \/ MarkSubmitted(c) \/ MarkApplied(c) \/ RecordFailure(c)
    BY <1>1, <2>5
  <2> QED
    BY <2>1, <2>2, <2>3, <2>4, <2>5

\* The issuer acts on a request before its caller has moved anything.
LEMMA IssuerAccounts ==
  ASSUME IInv, TrailAccounts, NEW c \in Calls, Issuer(c)
  PROVE  TrailAccounts'
<1>1. OneCall(c) /\ UNCHANGED <<caller, was, cardVars, born, watchVars, noticeVars>>
  BY DEF Issuer, IssuerAnswers, IssuerCarriesOut, OneCall, IInv, TypeOK, originVars
<1>2. caller[c] \in {"moved", "recorded", "unrecorded", "lost"} => says'[c] = says[c]
  <2>1. ASSUME caller[c] \in {"moved", "recorded", "unrecorded", "lost"} PROVE wire[c] # "request"
    BY <2>1 DEF IInv, CallInv, OutcomeIsIssuers
  <2> QED
    BY <2>1 DEF Issuer, IssuerAnswers, IssuerCarriesOut
<1> QED
  BY <1>1, <1>2, QuietAccounts DEF Unwritten

\* A pass: the move and its event in one transaction, and the announcement.
LEMMA ObserveAccounts ==
  ASSUME IInv, TrailAccounts, NEW o \in Observers, Observe(o)
  PROVE  TrailAccounts'
<1>0. TypeOK /\ WatchInv
  BY DEF IInv
<1> SUFFICES ASSUME NEW s \in CardStatuses
             PROVE  /\ EventsTo(s)' + UnwrittenTo(s)' + Is(born, s)' = EventsFrom(s)' + UnwrittenFrom(s)' + Is(card, s)'
                    /\ news'[s] + Announcing(s)' <= EventsTo(s)' + UnwrittenTo(s)'
  BY DEF TrailAccounts
<1>1. /\ EventsTo(s) \in Nat /\ EventsFrom(s) \in Nat /\ news[s] \in Nat
      /\ UnwrittenTo(s) \in Nat /\ UnwrittenFrom(s) \in Nat
      /\ Cardinality(CallsTelling(s)) \in Nat
      /\ Cardinality(ObserversTelling(s)) \in Nat /\ Cardinality(NoticesTelling(s)) \in Nat
  BY <1>0, Counted
<1>2. UNCHANGED <<born, caller, was, says, noticeVars>>
  BY DEF Observe, Pick, Suspect, LoadCard, Ask, GiveUp, RecordOutcome, OperationLost, TellMove, TellFailure, Escalate,
     originVars, callVars
<1>3. /\ Is(born, s)' = Is(born, s) /\ UnwrittenTo(s)' = UnwrittenTo(s) /\ UnwrittenFrom(s)' = UnwrittenFrom(s)
      /\ CallsTelling(s)' = CallsTelling(s) /\ NoticesTelling(s)' = NoticesTelling(s)
  BY <1>2 DEF Is, UnwrittenTo, UnwrittenFrom, Unwritten, CallsTelling, NoticesTelling, noticeVars
<1>4. /\ Announcing(s) = Cardinality(CallsTelling(s)) + Cardinality(ObserversTelling(s))
                         + Cardinality(NoticesTelling(s))
      /\ Announcing(s)' = Cardinality(CallsTelling(s)) + Cardinality(ObserversTelling(s))'
                          + Cardinality(NoticesTelling(s))
  BY <1>3, Announcements
<1>5. /\ EventsTo(s) + UnwrittenTo(s) + Is(born, s) = EventsFrom(s) + UnwrittenFrom(s) + Is(card, s)
      /\ news[s] + Announcing(s) <= EventsTo(s) + UnwrittenTo(s)
      /\ Is(born, s) \in Nat /\ Is(card, s) \in Nat /\ Is(card, s)' \in Nat
  BY DEF TrailAccounts, Is
<1>6. /\ Cardinality(ObserversTelling(s)) \in Nat /\ Cardinality(ObserversTelling(s))' \in Nat
      /\ Cardinality(ObserversTelling(s))' + One(o \in ObserversTelling(s)) =
           Cardinality(ObserversTelling(s)) + One(o \in ObserversTelling(s)')
  <2>1. \A p \in Observers \ {o} : at'[p] = at[p] /\ dep'[p] = dep[p]
    BY <1>0 DEF TypeOK, Observe, Pick, Suspect, LoadCard, Ask, GiveUp, RecordOutcome, OperationLost, TellMove, TellFailure,
       Escalate, Release
  <2> QED
    BY <2>1, ObserversMove, Zenon
<1>7. CASE at[o] = "moved" \/ at'[o] # "moved"
  <2>1. /\ UNCHANGED <<card, trail>>
        /\ at'[o] # "moved"
        /\ \/ UNCHANGED news
           \/ at[o] = "moved" /\ news' = [news EXCEPT ![Wanted[dep[o]]] = @ + 1]
    BY <1>0, <1>7 DEF TypeOK, Observe, Pick, Suspect, LoadCard, Ask, GiveUp, RecordOutcome, OperationLost, TellMove,
       TellFailure, Escalate, Release, MoveCard, cardVars, AnnounceStatus
  <2>2. EventsTo(s)' = EventsTo(s) /\ EventsFrom(s)' = EventsFrom(s) /\ Is(card, s)' = Is(card, s)
    BY <2>1 DEF EventsTo, EventsFrom, Is
  <2>3. /\ One(o \in ObserversTelling(s)) = IF at[o] = "moved" THEN Is(Wanted[dep[o]], s) ELSE 0
        /\ One(o \in ObserversTelling(s)') = 0
    BY <2>1 DEF ObserversTelling, One, Is
  <2>4. /\ Is(Wanted[dep[o]], s) \in Nat
        /\ \/ news'[s] = news[s]
           \/ at[o] = "moved" /\ news'[s] = news[s] + Is(Wanted[dep[o]], s)
    BY <1>0, <2>1 DEF TypeOK, Is
  <2>5. news'[s] + Cardinality(ObserversTelling(s))' <= news[s] + Cardinality(ObserversTelling(s))
    BY <1>1, <1>6, <2>3, <2>4
  <2> QED
    BY <1>1, <1>3, <1>4, <1>5, <1>6, <2>2, <2>4, <2>5
<1>8. CASE at[o] # "moved" /\ at'[o] = "moved"
  <2>1. /\ seen[o] = card /\ card' = Wanted[dep[o]] /\ UNCHANGED <<news, dep>>
        /\ trail' = Append(trail, [from |-> card, to |-> Wanted[dep[o]]])
        /\ dep[o] \in Calls
    BY <1>0, <1>8 DEF TypeOK, WatchInv, Observe, Pick, Suspect, LoadCard, Ask, GiveUp, RecordOutcome, OperationLost, TellMove,
       TellFailure, Escalate, Release, MoveCard, CardAsLoaded
  <2>2. [from |-> card, to |-> Wanted[dep[o]]] \in Moves
    BY <1>0, <2>1, WantedAssumption DEF TypeOK, Moves, Operable, CardStatuses
  <2>3. EventsTo(s)' = EventsTo(s) + Is(Wanted[dep[o]], s) /\ EventsFrom(s)' = EventsFrom(s) + Is(card, s)
    BY <1>0, <2>1, <2>2, EventsMove
  <2>4. One(o \in ObserversTelling(s)) = 0 /\ One(o \in ObserversTelling(s)') = Is(Wanted[dep[o]], s)
    BY <1>8, <2>1 DEF ObserversTelling, One, Is
  <2>5. Is(card, s)' = Is(Wanted[dep[o]], s) /\ Is(Wanted[dep[o]], s) \in Nat /\ news' = news
    BY <2>1 DEF Is
  <2> QED
    BY <1>1, <1>3, <1>4, <1>5, <1>6, <2>3, <2>4, <2>5
<1> QED
  BY <1>7, <1>8

\* A notice: the move and its event in one transaction, and the announcement.
LEMMA NotifyAccounts ==
  ASSUME IInv, TrailAccounts, NEW k \in Notices, Notify(k)
  PROVE  TrailAccounts'
<1>0. TypeOK /\ NoticeInv
  BY DEF IInv
<1> SUFFICES ASSUME NEW s \in CardStatuses
             PROVE  /\ EventsTo(s)' + UnwrittenTo(s)' + Is(born, s)' = EventsFrom(s)' + UnwrittenFrom(s)' + Is(card, s)'
                    /\ news'[s] + Announcing(s)' <= EventsTo(s)' + UnwrittenTo(s)'
  BY DEF TrailAccounts
<1>1. /\ EventsTo(s) \in Nat /\ EventsFrom(s) \in Nat /\ news[s] \in Nat
      /\ UnwrittenTo(s) \in Nat /\ UnwrittenFrom(s) \in Nat
      /\ Cardinality(CallsTelling(s)) \in Nat
      /\ Cardinality(ObserversTelling(s)) \in Nat /\ Cardinality(NoticesTelling(s)) \in Nat
  BY <1>0, Counted
<1>2. UNCHANGED <<born, callVars, watchVars>>
  BY DEF Notify, LoadForNotice, ReadForNotice, ApplyNotice, TellNotice, DropNotice, originVars
<1>3. /\ Is(born, s)' = Is(born, s) /\ UnwrittenTo(s)' = UnwrittenTo(s) /\ UnwrittenFrom(s)' = UnwrittenFrom(s)
      /\ CallsTelling(s)' = CallsTelling(s) /\ ObserversTelling(s)' = ObserversTelling(s)
  BY <1>2 DEF Is, UnwrittenTo, UnwrittenFrom, Unwritten, CallsTelling, ObserversTelling, callVars, watchVars
<1>4. /\ Announcing(s) = Cardinality(CallsTelling(s)) + Cardinality(ObserversTelling(s))
                         + Cardinality(NoticesTelling(s))
      /\ Announcing(s)' = Cardinality(CallsTelling(s)) + Cardinality(ObserversTelling(s))
                          + Cardinality(NoticesTelling(s))'
  BY <1>3, Announcements
<1>5. /\ EventsTo(s) + UnwrittenTo(s) + Is(born, s) = EventsFrom(s) + UnwrittenFrom(s) + Is(card, s)
      /\ news[s] + Announcing(s) <= EventsTo(s) + UnwrittenTo(s)
      /\ Is(born, s) \in Nat /\ Is(card, s) \in Nat /\ Is(card, s)' \in Nat
  BY DEF TrailAccounts, Is
<1>6. /\ Cardinality(NoticesTelling(s)) \in Nat /\ Cardinality(NoticesTelling(s))' \in Nat
      /\ Cardinality(NoticesTelling(s))' + One(k \in NoticesTelling(s)) =
           Cardinality(NoticesTelling(s)) + One(k \in NoticesTelling(s)')
  <2>1. \A l \in Notices \ {k} : notice'[l] = notice[l] /\ read'[l] = read[l]
    BY <1>0 DEF TypeOK, Notify, LoadForNotice, ReadForNotice, ApplyNotice, TellNotice, DropNotice
  <2> QED
    BY <2>1, NoticesMove, Zenon
<1>7. CASE notice[k] = "moved" \/ notice'[k] # "moved"
  <2>1. /\ UNCHANGED <<card, trail>>
        /\ notice'[k] # "moved"
        /\ \/ UNCHANGED news
           \/ notice[k] = "moved" /\ news' = [news EXCEPT ![read[k]] = @ + 1]
    BY <1>0, <1>7 DEF TypeOK, Notify, LoadForNotice, ReadForNotice, ApplyNotice, TellNotice, DropNotice, MoveCard,
       cardVars, AnnounceStatus
  <2>2. EventsTo(s)' = EventsTo(s) /\ EventsFrom(s)' = EventsFrom(s) /\ Is(card, s)' = Is(card, s)
    BY <2>1 DEF EventsTo, EventsFrom, Is
  <2>3. /\ One(k \in NoticesTelling(s)) = IF notice[k] = "moved" THEN Is(read[k], s) ELSE 0
        /\ One(k \in NoticesTelling(s)') = 0
    BY <2>1 DEF NoticesTelling, One, Is
  <2>4. /\ Is(read[k], s) \in Nat
        /\ \/ news'[s] = news[s]
           \/ notice[k] = "moved" /\ news'[s] = news[s] + Is(read[k], s)
    BY <1>0, <2>1 DEF TypeOK, Is
  <2>5. news'[s] + Cardinality(NoticesTelling(s))' <= news[s] + Cardinality(NoticesTelling(s))
    BY <1>1, <1>6, <2>3, <2>4
  <2> QED
    BY <1>1, <1>3, <1>4, <1>5, <1>6, <2>2, <2>4, <2>5
<1>8. CASE notice[k] # "moved" /\ notice'[k] = "moved"
  <2>1. /\ card = loaded[k] /\ card' = read[k] /\ UNCHANGED <<news, read>> /\ notice[k] = "read"
        /\ trail' = Append(trail, [from |-> card, to |-> read[k]])
    BY <1>0, <1>8 DEF TypeOK, Notify, LoadForNotice, ReadForNotice, ApplyNotice, TellNotice, DropNotice, MoveCard
  <2>2. [from |-> card, to |-> read[k]] \in Moves
    BY <1>0, <2>1 DEF NoticeInv, Moves, TypeOK
  <2>3. EventsTo(s)' = EventsTo(s) + Is(read[k], s) /\ EventsFrom(s)' = EventsFrom(s) + Is(card, s)
    BY <1>0, <2>1, <2>2, EventsMove
  <2>4. One(k \in NoticesTelling(s)) = 0 /\ One(k \in NoticesTelling(s)') = Is(read[k], s)
    BY <1>8, <2>1 DEF NoticesTelling, One, Is
  <2>5. Is(card, s)' = Is(read[k], s) /\ Is(read[k], s) \in Nat /\ news' = news
    BY <2>1 DEF Is
  <2> QED
    BY <1>1, <1>3, <1>4, <1>5, <1>6, <2>3, <2>4, <2>5
<1> QED
  BY <1>7, <1>8

\* Nothing is owed of a card nobody has moved.
LEMMA InitAccounts == Init => TrailAccounts
<1> SUFFICES ASSUME Init, NEW s \in CardStatuses
             PROVE  /\ EventsTo(s) + UnwrittenTo(s) + Is(born, s) = EventsFrom(s) + UnwrittenFrom(s) + Is(card, s)
                    /\ news[s] + Announcing(s) <= EventsTo(s) + UnwrittenTo(s)
  BY DEF TrailAccounts
<1>1. /\ DOMAIN trail = {} /\ Unwritten = {} /\ card = born /\ news[s] = 0
      /\ CallsTelling(s) = {} /\ ObserversTelling(s) = {} /\ NoticesTelling(s) = {}
  BY DEF Init, Unwritten, CallsTelling, ObserversTelling, NoticesTelling
<1>2. /\ EventsTo(s) = Cardinality({}) /\ EventsFrom(s) = Cardinality({})
      /\ UnwrittenTo(s) = Cardinality({}) /\ UnwrittenFrom(s) = Cardinality({})
      /\ Announcing(s) = Cardinality({}) + Cardinality({}) + Cardinality({})
  <2>1. /\ {i \in DOMAIN trail : trail[i].to = s} = {} /\ {i \in DOMAIN trail : trail[i].from = s} = {}
        /\ {c \in Unwritten : says[c] = s} = {} /\ {c \in Unwritten : was[c] = s} = {}
    BY <1>1
  <2> QED
    BY <1>1, <2>1, Announcements DEF EventsTo, EventsFrom, UnwrittenTo, UnwrittenFrom
<1>3. Cardinality({}) = 0
  BY FS_EmptySet
<1>4. Is(born, s) = Is(card, s) /\ Is(card, s) \in Nat
  BY <1>1 DEF Is
<1> QED
  BY <1>1, <1>2, <1>3, <1>4

\* The events of a card, with those still or never to be written, account for
\* its status, and what is announced of it is no more than the moves made, for
\* any number of calls, passes and notices at issuers of either kind.
THEOREM EventsAccountForCard == Spec => []TrailAccounts
<1>1. IInv /\ TrailAccounts /\ [Next]_vars => TrailAccounts'
  <2> SUFFICES ASSUME IInv, TrailAccounts, [Next]_vars PROVE TrailAccounts'
    OBVIOUS
  <2>1. CASE UNCHANGED vars
    BY <2>1 DEF vars, cardVars, originVars, callVars, watchVars, noticeVars, TrailAccounts, EventsTo, EventsFrom,
       UnwrittenTo, UnwrittenFrom, Unwritten, Is, Announcing
  <2>2. CASE Next
    BY <2>2, RequestAccounts, IssuerAccounts, ObserveAccounts, NotifyAccounts DEF Next
  <2> QED
    BY <2>1, <2>2
<1> QED
  BY InitAccounts, Invariant, <1>1, PTL DEF Spec
=============================================================================
