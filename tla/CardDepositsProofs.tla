------------------------- MODULE CardDepositsProofs -------------------------
(***************************************************************************)
(* Proofs about CardDeposits, for every set of calls, keys, observers and  *)
(* reasons. The inductive invariant is IInv of that module.                *)
(***************************************************************************)
EXTENDS CardDeposits, TLAPS

RowStatuses == Statuses \cup {"NONE"}

(* The lifecycle is a partial order. *)

LEMMA ReachesTransitive ==
  ASSUME NEW s \in RowStatuses, NEW t \in RowStatuses, NEW u \in RowStatuses,
         Reaches(s, t), Reaches(t, u)
  PROVE  Reaches(s, u)
BY DEF Reaches, Follows, RowStatuses, Statuses, Terminal, Unsent, Outcomes

LEMMA ReachesAntisymmetric ==
  ASSUME NEW s \in RowStatuses, NEW t \in RowStatuses, Reaches(s, t), Reaches(t, s)
  PROVE  s = t
BY DEF Reaches, Follows, RowStatuses, Statuses, Terminal, Unsent, Outcomes

\* From an accepted deposit one only reaches accepted deposits and outcomes.
LEMMA OutstandingReaches ==
  ASSUME NEW s \in Outstanding, NEW t \in RowStatuses, Reaches(s, t)
  PROVE  t \in Outstanding \cup Outcomes
BY DEF Reaches, Follows, RowStatuses, Statuses, Terminal, Unsent, Outcomes, Outstanding

LEMMA StatusOfIssuer ==
  ASSUME NEW s \in IssuerStates
  PROVE  /\ StatusOf(s) \in RowStatuses
         /\ s \in Outcomes => StatusOf(s) = s
         /\ s # "NONE" => Reaches("SUBMITTED", StatusOf(s))
BY DEF StatusOf, IssuerStates, Reaches, Follows, RowStatuses, Statuses, Terminal,
       Unsent, Outcomes

-----------------------------------------------------------------------------
(* Type correctness. *)

LEMMA InitType == Init => TypeOK
BY AnswersAssumption
   DEF Init, TypeOK, CardStatuses, Rows, NoRow, NewRow, Ids, LocalReasons, IssuerStates,
       Answers, NoAnswer

LEMMA RequestType ==
  ASSUME TypeOK, NEW c \in Calls, Request(c)
  PROVE  TypeOK'
<1> USE DEF TypeOK
<1>1. CASE Admit(c)
  BY <1>1 DEF Admit, issuerVars, observerVars
<1>2. CASE WriteDraft(c)
  <2>1. NewRow("DRAFT", "none", "none") \in Rows
    BY DEF NewRow, Rows, Statuses, Unsent, Ids, LocalReasons
  <2>2. row' \in [Calls -> Rows]
    BY <1>2, <2>1 DEF WriteDraft
  <2>. QED
    BY <1>2, <2>2 DEF WriteDraft, issuerVars, observerVars
<1>3. CASE Send(c)
  BY <1>3 DEF Send, issuerVars, observerVars
<1>4. CASE Receive(c)
  BY <1>4 DEF Receive, issuerVars, observerVars
<1>5. CASE TimeOut(c)
  BY <1>5 DEF TimeOut, issuerVars, observerVars
<1>6. CASE MarkSubmitted(c)
  <2>1. PICK id \in AnswerIds \ {"foreign"} :
          row' = [row EXCEPT ![c] = NewRow("SUBMITTED", id, "none")]
    BY <1>6 DEF MarkSubmitted
  <2>2. NewRow("SUBMITTED", id, "none") \in Rows
    BY AnswersAssumption DEF NewRow, Rows, Statuses, LocalReasons
  <2>3. row' \in [Calls -> Rows]
    BY <2>1, <2>2
  <2>. QED
    BY <1>6, <2>3 DEF MarkSubmitted, issuerVars, observerVars
<1>7. CASE RecordFailure(c)
  <2>1. FailureStatus(c) \in Statuses /\ LocalReason(c) \in LocalReasons
    BY DEF FailureStatus, Statuses, Terminal, Unsent, LocalReason, LocalReasons
  <2>2. NewRow(FailureStatus(c), "none", LocalReason(c)) \in Rows
    BY <2>1 DEF NewRow, Rows, Ids
  <2>3. row' \in [Calls -> Rows]
    BY <1>7, <2>2 DEF RecordFailure
  <2>. QED
    BY <1>7, <2>3 DEF RecordFailure, issuerVars, observerVars
<1>8. CASE Abandon(c)
  BY <1>8 DEF Abandon, issuerVars, observerVars
<1>. QED
  BY <1>1, <1>2, <1>3, <1>4, <1>5, <1>6, <1>7, <1>8 DEF Request

LEMMA IssuerType ==
  ASSUME TypeOK, NEW c \in Calls, Issuer(c)
  PROVE  TypeOK'
<1> USE DEF TypeOK
<1>1. CASE IssuerAnswersRequest(c)
  BY <1>1 DEF IssuerAnswersRequest, observerVars, IssuerStates
<1>2. CASE IssuerMovesOn(c)
  <2>1. Follows(StatusOf(issuer[c])) \cap RowStatuses \subseteq IssuerStates
    BY <1>2 DEF IssuerMovesOn, Follows, StatusOf, IssuerStates, RowStatuses, Statuses,
                Terminal, Unsent, Outcomes
  <2>2. Follows(StatusOf(issuer[c])) \subseteq RowStatuses
    BY DEF Follows, RowStatuses
  <2>. QED
    BY <1>2, <2>1, <2>2 DEF IssuerMovesOn, requestVars, observerVars
<1>3. CASE IssuerRewords(c)
  BY <1>3 DEF IssuerRewords, requestVars, observerVars
<1>. QED
  BY <1>1, <1>2, <1>3 DEF Issuer

LEMMA ReleaseType ==
  ASSUME TypeOK, NEW o \in Observers, Release(o)
  PROVE  /\ at' \in [Observers -> {"idle", "loaded", "answered", "announcing"}]
         /\ dep' \in [Observers -> Calls \cup {NoCall}]
         /\ seen' \in [Observers -> Rows]
         /\ heard' \in [Observers -> Answers]
<1>1. NoRow \in Rows
  BY DEF NoRow, NewRow, Rows, Ids, LocalReasons
<1>2. NoAnswer \in Answers
  BY DEF NoAnswer, Answers, Ids
<1>. QED
  BY <1>1, <1>2 DEF TypeOK, Release

\* What recordOutcome writes is a row.
LEMMA RecordedType ==
  ASSUME TypeOK, NEW o \in Observers, NEW r \in Rows, heard[o].state \in Outcomes
  PROVE  Recorded(o, r) \in Rows
<1>1. heard[o] \in Answers /\ seen[o] \in Rows
  BY DEF TypeOK
<1>2. heard[o].state \in Statuses
  BY DEF Statuses, Terminal, Outcomes
<1>. QED
  BY <1>1, <1>2 DEF Recorded, Rows, Answers, LocalReasons

LEMMA ObserveType ==
  ASSUME TypeOK, ObserverInv, NEW o \in Observers, Observe(o)
  PROVE  TypeOK'
<1>1. CASE \E c \in Calls : Load(o, c)
  BY <1>1 DEF TypeOK, Load, requestVars, issuerVars
<1>2. CASE Ask(o)
  <2>1. PICK a \in AnswersAbout(dep[o]) : heard' = [heard EXCEPT ![o] = a]
    BY <1>2 DEF Ask
  <2>2. a \in Answers
    BY <2>1 DEF AnswersAbout
  <2>. QED
    BY <1>2, <2>1, <2>2 DEF TypeOK, Ask, requestVars, issuerVars
<1>3. CASE GiveUp(o)
  BY <1>3, ReleaseType DEF TypeOK, GiveUp, requestVars, issuerVars
<1>4. CASE RecordOutcome(o)
  <2>1. dep[o] \in Calls /\ heard[o].state \in Outcomes
    BY <1>4 DEF RecordOutcome, ObserverInv
  <2>2. Recorded(o, row[dep[o]]) \in Rows
    BY <2>1, RecordedType DEF TypeOK
  <2>3. row' \in [Calls -> Rows]
    BY <1>4, <2>1, <2>2 DEF TypeOK, RecordOutcome
  <2>4. CASE StatusChanged(o)
    BY <1>4, <2>3, <2>4 DEF TypeOK, RecordOutcome, issuerVars
  <2>5. CASE Release(o)
    BY <1>4, <2>3, <2>5, ReleaseType DEF TypeOK, RecordOutcome, issuerVars
  <2>. QED
    BY <1>4, <2>4, <2>5 DEF RecordOutcome
<1>5. CASE RecordNothing(o)
  BY <1>5, ReleaseType DEF TypeOK, RecordNothing, requestVars, issuerVars
<1>6. CASE Announce(o)
  <2>1. dep[o] \in Calls /\ heard[o].state \in Outcomes
    BY <1>6 DEF Announce, ObserverInv
  <2>2. told' \in [Calls -> SUBSET Outcomes]
    BY <1>6, <2>1 DEF TypeOK, Announce
  <2>. QED
    BY <1>6, <2>2, ReleaseType DEF TypeOK, Announce, requestVars, issuerVars
<1>. QED
  BY <1>1, <1>2, <1>3, <1>4, <1>5, <1>6 DEF Observe

-----------------------------------------------------------------------------
(* Every step of the request preserves the invariant. *)

\* An invariant over the rows and what observers hold of them survives a step
\* of a request: its row is in none of the statuses an observer loads.
LEMMA RowOfRequest ==
  ASSUME TypeOK, ObserverInv, NEW c \in Calls, row[c].status \in {"NONE", "DRAFT"},
         NEW o \in Observers, at[o] # "idle"
  PROVE  dep[o] # c
<1>1. row[dep[o]] \in Rows /\ dep[o] \in Calls
  BY DEF TypeOK, ObserverInv
<1>2. row[dep[o]].status \in Outstanding \cup Outcomes
  BY <1>1, OutstandingReaches DEF ObserverInv, Rows, RowStatuses
<1>. QED
  BY <1>2 DEF Outstanding, Outcomes, Statuses, Terminal, Unsent

\* A request step that writes the row of c, from NONE or DRAFT to a status that
\* is neither an outcome nor ahead of the issuer.
LEMMA RequestRow ==
  ASSUME IInv, TypeOK', NEW c \in Calls, row[c].status \in {"NONE", "DRAFT"},
         NEW r \in Rows, row' = [row EXCEPT ![c] = r],
         Reaches(row[c].status, r.status),
         r.status \in Outstanding \cup Outcomes => Reaches(r.status, StatusOf(issuer[c])),
         UNCHANGED <<issuerVars, observerVars, told>>
  PROVE  BackedByIssuer' /\ ObserverInv' /\ ToldReached' /\ AnnouncedOnce'
<1> USE DEF IInv, issuerVars, observerVars
<1>1. \A d \in Calls : row'[d] = IF d = c THEN r ELSE row[d]
  BY DEF TypeOK
<1>2. BackedByIssuer'
  BY <1>1 DEF BackedByIssuer
<1>3. ObserverInv'
  BY <1>1, RowOfRequest DEF ObserverInv
<1>4. ToldReached'
  <2>1. SUFFICES ASSUME NEW d \in Calls, NEW s \in told[d]
                 PROVE  Reaches(s, row'[d].status)
    BY DEF ToldReached
  <2>2. Reaches(s, row[d].status) /\ s \in Outcomes /\ row[d] \in Rows
    BY DEF ToldReached, TypeOK
  <2>3. d # c
    BY <2>2, OutstandingReaches
       DEF Reaches, Follows, Rows, Outcomes, Statuses, Terminal, Unsent
  <2>. QED
    BY <1>1, <2>2, <2>3
<1>5. AnnouncedOnce'
  BY DEF AnnouncedOnce
<1>. QED
  BY <1>2, <1>3, <1>4, <1>5

\* A step of a request that leaves the rows alone.
LEMMA RequestNoRow ==
  ASSUME IInv, UNCHANGED <<row, issuerVars, observerVars, told>>
  PROVE  OneRowPerKey' /\ BackedByIssuer' /\ ObserverInv' /\ ToldReached' /\ AnnouncedOnce'
BY DEF IInv, issuerVars, observerVars, OneRowPerKey, BackedByIssuer, ObserverInv,
       ToldReached, AnnouncedOnce

LEMMA RequestInvariant ==
  ASSUME IInv, NEW c \in Calls, Request(c)
  PROVE  IInv'
<1> USE DEF IInv
<1>0. TypeOK'
  BY RequestType
<1>1. CASE Admit(c)
  <2>1. RequestInv'
    BY <1>1 DEF RequestInv, TypeOK, issuerVars, Admit, MayDeposit
  <2>. QED
    BY <1>0, <1>1, <2>1, RequestNoRow DEF Admit
<1>2. CASE WriteDraft(c)
  <2>1. CASE KeyTaken(c)
    <3>1. RequestInv'
      BY <1>2, <2>1 DEF RequestInv, TypeOK, issuerVars, WriteDraft
    <3>. QED
      BY <1>0, <1>2, <2>1, <3>1, RequestNoRow DEF WriteDraft
  <2>2. CASE ~KeyTaken(c)
    <3>1. /\ row[c].status = "NONE"
          /\ row' = [row EXCEPT ![c] = NewRow("DRAFT", "none", "none")]
          /\ NewRow("DRAFT", "none", "none") \in Rows
          /\ NewRow("DRAFT", "none", "none").status = "DRAFT"
      BY <1>2, <2>2 DEF WriteDraft, RequestInv, NewRow, Rows, Ids, LocalReasons,
                        Statuses, Unsent
    <3>2. Reaches("NONE", "DRAFT") /\ "DRAFT" \notin Outstanding \cup Outcomes
      BY DEF Reaches, Follows, Statuses, Outstanding, Unsent, Outcomes
    <3>3. \A d \in Calls : row'[d].status = IF d = c THEN "DRAFT" ELSE row[d].status
      BY <3>1 DEF TypeOK
    <3>4. RequestInv'
      BY <1>2, <2>2, <3>3 DEF RequestInv, TypeOK, issuerVars, WriteDraft
    <3>5. OneRowPerKey'
      BY <2>2, <3>3 DEF OneRowPerKey, KeyTaken
    <3>. QED
      BY <1>0, <1>2, <3>1, <3>2, <3>4, <3>5, RequestRow DEF WriteDraft
  <2>. QED
    BY <2>1, <2>2
<1>3. CASE Send(c)
  <2>1. RequestInv'
    BY <1>3 DEF RequestInv, TypeOK, issuerVars, Send
  <2>. QED
    BY <1>0, <1>3, <2>1, RequestNoRow DEF Send
<1>4. CASE Receive(c)
  <2>1. RequestInv'
    BY <1>4 DEF RequestInv, TypeOK, issuerVars, Receive
  <2>. QED
    BY <1>0, <1>4, <2>1, RequestNoRow DEF Receive
<1>5. CASE TimeOut(c)
  <2>1. RequestInv'
    BY <1>5 DEF RequestInv, TypeOK, issuerVars, TimeOut
  <2>. QED
    BY <1>0, <1>5, <2>1, RequestNoRow DEF TimeOut
<1>6. CASE MarkSubmitted(c)
  <2>1. PICK id \in AnswerIds \ {"foreign"} :
          row' = [row EXCEPT ![c] = NewRow("SUBMITTED", id, "none")]
    BY <1>6 DEF MarkSubmitted
  <2>2. /\ row[c].status = "DRAFT"
        /\ NewRow("SUBMITTED", id, "none") \in Rows
        /\ NewRow("SUBMITTED", id, "none").status = "SUBMITTED"
    BY <1>6, AnswersAssumption
       DEF MarkSubmitted, RequestInv, NewRow, Rows, Statuses, LocalReasons
  <2>3. Reaches("DRAFT", "SUBMITTED")
    BY DEF Reaches, Follows, Statuses
  <2>4. Reaches("SUBMITTED", StatusOf(issuer[c]))
    BY <1>6, StatusOfIssuer DEF MarkSubmitted, RequestInv, TypeOK
  <2>5. \A d \in Calls : row'[d].status = IF d = c THEN "SUBMITTED" ELSE row[d].status
    BY <2>1, <2>2 DEF TypeOK
  <2>6. RequestInv'
    BY <1>6, <2>5 DEF RequestInv, TypeOK, issuerVars, MarkSubmitted
  <2>7. OneRowPerKey'
    BY <2>2, <2>5 DEF OneRowPerKey
  <2>. QED
    BY <1>0, <1>6, <2>1, <2>2, <2>3, <2>4, <2>6, <2>7, RequestRow DEF MarkSubmitted
<1>7. CASE RecordFailure(c)
  <2> DEFINE s == FailureStatus(c)
             r == NewRow(s, "none", LocalReason(c))
  <2>1. s \in {"REJECTED", "SUBMISSION_FAILED"} /\ LocalReason(c) \in LocalReasons
    BY DEF FailureStatus, LocalReason, LocalReasons
  <2>2. row[c].status = "DRAFT" /\ r \in Rows /\ r.status = s
    BY <1>7, <2>1 DEF RecordFailure, RequestInv, NewRow, Rows, Ids, Statuses, Terminal, Unsent
  <2>3. Reaches("DRAFT", s) /\ s \notin Outstanding \cup Outcomes
    BY <2>1 DEF Reaches, Follows, Statuses, Outstanding, Terminal, Unsent, Outcomes
  <2>4. row' = [row EXCEPT ![c] = r]
    BY <1>7 DEF RecordFailure
  <2> HIDE DEF s, r
  <2>5. \A d \in Calls : row'[d].status = IF d = c THEN s ELSE row[d].status
    BY <2>2, <2>4 DEF TypeOK
  <2>6. RequestInv'
    BY <1>7, <2>1, <2>5 DEF RequestInv, TypeOK, issuerVars, RecordFailure
  <2>7. OneRowPerKey'
    BY <2>2, <2>5 DEF OneRowPerKey
  <2>. QED
    BY <1>0, <1>7, <2>2, <2>3, <2>4, <2>6, <2>7, RequestRow DEF RecordFailure
<1>8. CASE Abandon(c)
  <2>1. RequestInv'
    BY <1>8 DEF RequestInv, TypeOK, issuerVars, Abandon
  <2>. QED
    BY <1>0, <1>8, <2>1, RequestNoRow DEF Abandon
<1>. QED
  BY <1>1, <1>2, <1>3, <1>4, <1>5, <1>6, <1>7, <1>8 DEF Request

-----------------------------------------------------------------------------
(* The issuer and the card. *)

LEMMA IssuerInvariant ==
  ASSUME IInv, NEW c \in Calls, Issuer(c)
  PROVE  IInv'
<1> USE DEF IInv
<1>0. TypeOK'
  BY IssuerType
<1>1. UNCHANGED <<card, opened, row, caller, observerVars, told>>
  BY DEF Issuer, IssuerAnswersRequest, IssuerMovesOn, IssuerRewords, requestVars
<1>2. \A d \in Calls : Reaches(StatusOf(issuer[d]), StatusOf(issuer'[d]))
  <2>1. CASE IssuerAnswersRequest(c)
    <3>1. issuer[c] = "NONE"
      BY <2>1 DEF IssuerAnswersRequest, RequestInv
    <3>2. Reaches(StatusOf("NONE"), StatusOf("PENDING"))
      BY DEF StatusOf, Reaches, Follows, Statuses, Outcomes
    <3>3. issuer'[c] \in {issuer[c], "PENDING"} /\ \A d \in Calls : d # c => issuer'[d] = issuer[d]
      BY <2>1 DEF IssuerAnswersRequest, TypeOK
    <3>. QED
      BY <3>1, <3>2, <3>3 DEF Reaches
  <2>2. CASE IssuerMovesOn(c)
    <3>1. PICK s \in Follows(StatusOf(issuer[c])) : issuer' = [issuer EXCEPT ![c] = s]
      BY <2>2 DEF IssuerMovesOn
    <3>2. s \in Outcomes
      BY <2>2, <3>1 DEF IssuerMovesOn, TypeOK, IssuerStates, StatusOf, Follows, Outcomes
    <3>. QED
      BY <3>1, <3>2 DEF TypeOK, StatusOf, Reaches
  <2>3. CASE IssuerRewords(c)
    BY <2>3 DEF IssuerRewords, Reaches
  <2>. QED
    BY <2>1, <2>2, <2>3 DEF Issuer
<1>3. /\ \A d \in Calls : StatusOf(issuer[d]) \in RowStatuses /\ StatusOf(issuer'[d]) \in RowStatuses
      /\ \A d \in Calls : row[d].status \in RowStatuses
  BY <1>0, StatusOfIssuer DEF TypeOK, Rows, RowStatuses
<1>4. RequestInv'
  <2>1. CASE IssuerAnswersRequest(c)
    BY <1>1, <2>1 DEF RequestInv, TypeOK, IssuerAnswersRequest
  <2>2. CASE IssuerMovesOn(c)
    <3>1. "NONE" \notin Follows(StatusOf(issuer[c]))
      BY DEF Follows, Statuses, Terminal, Unsent
    <3>. QED
      BY <1>1, <2>2, <3>1 DEF RequestInv, TypeOK, IssuerMovesOn, requestVars
  <2>3. CASE IssuerRewords(c)
    BY <1>1, <2>3 DEF RequestInv, IssuerRewords, requestVars
  <2>. QED
    BY <2>1, <2>2, <2>3 DEF Issuer
<1>5. BackedByIssuer'
  BY <1>1, <1>2, <1>3, ReachesTransitive DEF BackedByIssuer
<1>6. ObserverInv'
  <2>1. Outcomes \subseteq RowStatuses
    BY DEF Outcomes, RowStatuses, Statuses, Terminal
  <2>. QED
    BY <1>1, <1>2, <1>3, <2>1, ReachesTransitive DEF ObserverInv, observerVars
<1>7. OneRowPerKey' /\ ToldReached' /\ AnnouncedOnce'
  BY <1>1 DEF OneRowPerKey, ToldReached, AnnouncedOnce, observerVars
<1>. QED
  BY <1>0, <1>4, <1>5, <1>6, <1>7

LEMMA MoveCardInvariant ==
  ASSUME IInv, MoveCard
  PROVE  IInv'
<1> USE DEF IInv
<1>1. TypeOK' /\ RequestInv'
  BY DEF MoveCard, TypeOK, RequestInv, issuerVars, observerVars
<1>2. UNCHANGED <<row, issuerVars, observerVars, told>>
  BY DEF MoveCard
<1>. QED
  BY <1>1, <1>2, RequestNoRow

-----------------------------------------------------------------------------
(* The observers. *)

\* An observer that writes nothing, and ends up idle or unchanged in what it
\* loaded, disturbs only the parts about observers.
LEMMA ObserverNoRow ==
  ASSUME IInv, UNCHANGED <<requestVars, issuerVars>>
  PROVE  RequestInv' /\ OneRowPerKey' /\ BackedByIssuer'
BY DEF IInv, requestVars, issuerVars, RequestInv, OneRowPerKey, BackedByIssuer

LEMMA ReleaseInvariant ==
  ASSUME IInv, NEW o \in Observers, Release(o), UNCHANGED <<requestVars, issuerVars, told>>
  PROVE  ObserverInv' /\ ToldReached' /\ AnnouncedOnce'
<1> USE DEF IInv, requestVars, issuerVars
<1>1. /\ at'[o] = "idle"
      /\ \A p \in Observers : p # o =>
           /\ at'[p] = at[p] /\ dep'[p] = dep[p]
           /\ seen'[p] = seen[p] /\ heard'[p] = heard[p]
  BY DEF TypeOK, Release
<1>2. ObserverInv'
  BY <1>1 DEF ObserverInv
<1>3. ToldReached' /\ AnnouncedOnce'
  BY <1>1 DEF ToldReached, AnnouncedOnce
<1>. QED
  BY <1>2, <1>3

\* What the statuses an observer holds have in common with those of its row.
LEMMA ObserverStatuses ==
  ASSUME IInv, NEW o \in Observers, at[o] # "idle"
  PROVE  /\ dep[o] \in Calls
         /\ seen[o].status \in RowStatuses
         /\ row[dep[o]].status \in Outstanding \cup Outcomes
         /\ row[dep[o]].status \in RowStatuses
         /\ Reaches(row[dep[o]].status, StatusOf(issuer[dep[o]]))
         /\ StatusOf(issuer[dep[o]]) \in RowStatuses
         /\ at[o] \in {"answered", "announcing"} => heard[o].state \in RowStatuses
<1>1. /\ dep[o] \in Calls /\ seen[o].status \in Outstanding
      /\ Reaches(seen[o].status, row[dep[o]].status)
  BY DEF IInv, ObserverInv
<1>2. row[dep[o]].status \in RowStatuses /\ seen[o].status \in RowStatuses
  BY <1>1 DEF IInv, TypeOK, Rows, RowStatuses
<1>3. row[dep[o]].status \in Outstanding \cup Outcomes
  BY <1>1, <1>2, OutstandingReaches
<1>4. /\ Reaches(row[dep[o]].status, StatusOf(issuer[dep[o]]))
      /\ StatusOf(issuer[dep[o]]) \in RowStatuses
  BY <1>1, <1>3, StatusOfIssuer DEF IInv, BackedByIssuer, TypeOK
<1>5. at[o] \in {"answered", "announcing"} => heard[o].state \in RowStatuses
  BY DEF IInv, ObserverInv, Outcomes, RowStatuses, Statuses, Terminal
<1>. QED
  BY <1>1, <1>2, <1>3, <1>4, <1>5

LEMMA LoadInvariant ==
  ASSUME IInv, NEW o \in Observers, NEW c \in Calls, Load(o, c)
  PROVE  ObserverInv' /\ ToldReached' /\ AnnouncedOnce'
<1> USE DEF IInv, requestVars, issuerVars
<1>1. /\ at'[o] = "loaded" /\ dep'[o] = c /\ seen'[o] = row[c]
      /\ \A p \in Observers : p # o => at'[p] = at[p] /\ dep'[p] = dep[p] /\ seen'[p] = seen[p]
      /\ UNCHANGED <<heard, row, issuer, told>>
  BY DEF TypeOK, Load
<1>2. ObserverInv'
  BY <1>1 DEF ObserverInv, Load, Reaches
<1>3. ToldReached' /\ AnnouncedOnce'
  BY <1>1 DEF ToldReached, AnnouncedOnce
<1>. QED
  BY <1>2, <1>3

LEMMA AskInvariant ==
  ASSUME IInv, NEW o \in Observers, Ask(o)
  PROVE  ObserverInv' /\ ToldReached' /\ AnnouncedOnce'
<1> USE DEF IInv, requestVars, issuerVars
<1>1. PICK a \in AnswersAbout(dep[o]) : heard' = [heard EXCEPT ![o] = a]
  BY DEF Ask
<1>2. /\ at[o] = "loaded" /\ at'[o] = "answered" /\ heard'[o] = a
      /\ a.state = issuer[dep[o]] /\ a.state \in Outcomes
      /\ \A p \in Observers : p # o => at'[p] = at[p] /\ heard'[p] = heard[p]
      /\ UNCHANGED <<dep, seen, row, issuer, told>>
  BY <1>1 DEF TypeOK, Ask, AnswersAbout
<1>3. StatusOf(issuer[dep[o]]) = a.state
  BY <1>2 DEF StatusOf
<1>4. Reaches(seen[o].status, a.state)
  BY <1>2, <1>3, ObserverStatuses, ReachesTransitive DEF ObserverInv
<1>5. ObserverInv'
  BY <1>2, <1>3, <1>4 DEF ObserverInv, Reaches
<1>6. ToldReached' /\ AnnouncedOnce'
  BY <1>2 DEF ToldReached, AnnouncedOnce
<1>. QED
  BY <1>5, <1>6

\* The write moves the row from the status the observer loaded to the one it
\* heard of; whatever was held or told before lies behind the new status.
LEMMA RecordOutcomeInvariant ==
  ASSUME IInv, NEW o \in Observers, RecordOutcome(o)
  PROVE  IInv'
<1> DEFINE c == dep[o]
           h == heard[o].state
<1> USE DEF IInv
<1>0. TypeOK'
  BY ObserveType DEF Observe
<1>1. /\ c \in Calls /\ h \in Outcomes /\ h \in RowStatuses
      /\ row[c].status = seen[o].status /\ row[c].status \in Outstanding
      /\ row[c].status \in RowStatuses
      /\ Reaches(row[c].status, h) /\ Reaches(h, StatusOf(issuer[c]))
  BY ObserverStatuses DEF RecordOutcome, ObserverInv, StillAsLoaded
<1>2. \A d \in Calls : row'[d].status = IF d = c THEN h ELSE row[d].status
  BY <1>1 DEF RecordOutcome, Recorded, TypeOK
<1>3. UNCHANGED <<card, opened, caller, wire, issuerVars, told>>
  BY DEF RecordOutcome
<1>4. at'[o] \in {"idle", "announcing"} /\ (at'[o] = "announcing" <=> h # row[c].status)
  BY <1>1 DEF RecordOutcome, StatusChanged, Release, TypeOK
<1>5. at'[o] = "announcing" => dep'[o] = c /\ seen'[o] = seen[o] /\ heard'[o] = heard[o]
  BY DEF RecordOutcome, Release, TypeOK
<1>6. \A p \in Observers : p # o =>
        at'[p] = at[p] /\ dep'[p] = dep[p] /\ seen'[p] = seen[p] /\ heard'[p] = heard[p]
  BY DEF RecordOutcome, Release, TypeOK
<1> HIDE DEF c, h
<1>7. ASSUME NEW s \in RowStatuses, Reaches(s, row[c].status)
      PROVE  Reaches(s, h) /\ (s = h => row[c].status = h)
  BY <1>1, <1>7, ReachesTransitive, ReachesAntisymmetric
<1>8. RequestInv'
  <2>1. row[c].status \notin {"NONE", "DRAFT"} /\ h \notin {"NONE", "DRAFT"}
    BY <1>1 DEF Outstanding, Statuses, Terminal, Unsent, Outcomes
  <2>. QED
    BY <1>1, <1>2, <1>3, <2>1 DEF RequestInv, issuerVars
<1>9. OneRowPerKey'
  <2>1. row[c].status # "NONE"
    BY <1>1 DEF Outstanding, Statuses, Terminal, Unsent
  <2>. QED
    BY <1>1, <1>2, <2>1 DEF OneRowPerKey
<1>10. BackedByIssuer'
  BY <1>1, <1>2, <1>3 DEF BackedByIssuer, issuerVars
<1>11. ObserverInv'
  <2>1. SUFFICES ASSUME NEW p \in Observers, at'[p] # "idle"
                 PROVE  /\ dep'[p] \in Calls
                        /\ seen'[p].status \in Outstanding
                        /\ Reaches(seen'[p].status, row'[dep'[p]].status)
                        /\ at'[p] \in {"answered", "announcing"} =>
                             /\ heard'[p].state \in Outcomes
                             /\ Reaches(seen'[p].status, heard'[p].state)
                             /\ Reaches(heard'[p].state, StatusOf(issuer'[dep'[p]]))
                        /\ at'[p] = "announcing" =>
                             Reaches(heard'[p].state, row'[dep'[p]].status)
    BY DEF ObserverInv
  <2>2. CASE p = o
    BY <1>1, <1>2, <1>3, <1>4, <1>5, <2>1, <2>2
       DEF ObserverInv, issuerVars, Reaches, c, h
  <2>3. CASE p # o
    <3>1. /\ at[p] # "idle" /\ at'[p] = at[p] /\ dep'[p] = dep[p]
          /\ seen'[p] = seen[p] /\ heard'[p] = heard[p]
      BY <1>6, <2>1, <2>3
    <3>2. CASE dep[p] = c
      BY <1>2, <1>3, <1>7, <3>1, <3>2, ObserverStatuses DEF ObserverInv, issuerVars
    <3>3. CASE dep[p] # c
      BY <1>2, <1>3, <3>1, <3>3, ObserverStatuses DEF ObserverInv, issuerVars
    <3>. QED
      BY <3>2, <3>3
  <2>. QED
    BY <2>2, <2>3
<1>12. ToldReached'
  <2>1. \A d \in Calls : \A s \in told[d] : s \in RowStatuses
    BY DEF TypeOK, RowStatuses, Statuses, Outcomes, Terminal
  <2>. QED
    BY <1>2, <1>3, <1>7, <2>1 DEF ToldReached
<1>13. AnnouncedOnce'
  <2>1. SUFFICES ASSUME NEW p \in Observers, NEW q \in Observers, at'[p] = "announcing"
                 PROVE  /\ heard'[p].state \notin told[dep'[p]]
                        /\ (at'[q] = "announcing" /\ dep'[q] = dep'[p]
                              /\ heard'[q].state = heard'[p].state) => q = p
    BY <1>3 DEF AnnouncedOnce
  <2>2. \A s \in told[c] : h # row[c].status => s # h
    <3>1. \A s \in told[c] : s \in RowStatuses /\ Reaches(s, row[c].status)
      BY <1>1 DEF ToldReached, TypeOK, RowStatuses, Statuses, Outcomes, Terminal
    <3>. QED
      BY <1>7, <3>1
  <2>3. ASSUME NEW x \in Observers, x # o, at[x] = "announcing", dep[x] = c, h # row[c].status
        PROVE  heard[x].state # h
    <3>1. heard[x].state \in RowStatuses /\ Reaches(heard[x].state, row[c].status)
      BY <2>3, ObserverStatuses DEF ObserverInv
    <3>. QED
      BY <1>7, <2>3, <3>1
  <2>4. CASE p = o
    BY <1>4, <1>5, <1>6, <2>1, <2>2, <2>3, <2>4 DEF c, h
  <2>5. CASE p # o /\ q = o
    BY <1>4, <1>5, <1>6, <2>1, <2>3, <2>5 DEF AnnouncedOnce, c, h
  <2>6. CASE p # o /\ q # o
    BY <1>6, <2>1, <2>6 DEF AnnouncedOnce
  <2>. QED
    BY <2>4, <2>5, <2>6
<1>. QED
  BY <1>0, <1>8, <1>9, <1>10, <1>11, <1>12, <1>13

LEMMA AnnounceInvariant ==
  ASSUME IInv, NEW o \in Observers, Announce(o)
  PROVE  ObserverInv' /\ ToldReached' /\ AnnouncedOnce'
<1> USE DEF IInv, requestVars, issuerVars
<1>1. /\ at[o] = "announcing" /\ at'[o] = "idle" /\ dep[o] \in Calls
      /\ told' = [told EXCEPT ![dep[o]] = @ \cup {heard[o].state}]
      /\ UNCHANGED <<row, issuer>>
      /\ \A p \in Observers : p # o =>
           /\ at'[p] = at[p] /\ dep'[p] = dep[p]
           /\ seen'[p] = seen[p] /\ heard'[p] = heard[p]
  BY DEF TypeOK, Announce, Release, ObserverInv
<1>2. \A d \in Calls : told'[d] = told[d] \cup (IF d = dep[o] THEN {heard[o].state} ELSE {})
  BY <1>1 DEF TypeOK
<1>3. ObserverInv'
  BY <1>1 DEF ObserverInv
<1>4. ToldReached'
  BY <1>1, <1>2 DEF ToldReached, ObserverInv
<1>5. AnnouncedOnce'
  <2>1. SUFFICES ASSUME NEW p \in Observers, NEW q \in Observers, at'[p] = "announcing"
                 PROVE  /\ heard'[p].state \notin told'[dep'[p]]
                        /\ (at'[q] = "announcing" /\ dep'[q] = dep'[p]
                              /\ heard'[q].state = heard'[p].state) => q = p
    BY DEF AnnouncedOnce
  <2>2. p # o /\ (at'[q] = "announcing" => q # o)
    BY <1>1, <2>1
  <2>3. dep[p] \in Calls /\ heard[p].state \notin told[dep[p]]
    BY <1>1, <2>1, <2>2 DEF ObserverInv, AnnouncedOnce
  <2>4. ~(dep[p] = dep[o] /\ heard[p].state = heard[o].state)
    BY <1>1, <2>1, <2>2 DEF AnnouncedOnce
  <2>. QED
    BY <1>1, <1>2, <2>1, <2>2, <2>3, <2>4 DEF AnnouncedOnce
<1>. QED
  BY <1>3, <1>4, <1>5

LEMMA ObserveInvariant ==
  ASSUME IInv, NEW o \in Observers, Observe(o)
  PROVE  IInv'
<1>0. TypeOK'
  BY ObserveType DEF IInv
<1>1. CASE \E c \in Calls : Load(o, c)
  BY <1>0, <1>1, LoadInvariant, ObserverNoRow DEF IInv, Load
<1>2. CASE Ask(o)
  BY <1>0, <1>2, AskInvariant, ObserverNoRow DEF IInv, Ask
<1>3. CASE GiveUp(o)
  BY <1>0, <1>3, ReleaseInvariant, ObserverNoRow DEF IInv, GiveUp
<1>4. CASE RecordOutcome(o)
  BY <1>4, RecordOutcomeInvariant
<1>5. CASE RecordNothing(o)
  BY <1>0, <1>5, ReleaseInvariant, ObserverNoRow DEF IInv, RecordNothing
<1>6. CASE Announce(o)
  BY <1>0, <1>6, AnnounceInvariant, ObserverNoRow DEF IInv, Announce
<1>. QED
  BY <1>1, <1>2, <1>3, <1>4, <1>5, <1>6 DEF Observe

-----------------------------------------------------------------------------
(* The theorems. *)

LEMMA InitInvariant == Init => IInv
<1>1. SUFFICES ASSUME Init PROVE IInv
  OBVIOUS
<1>2. TypeOK
  BY <1>1, InitType
<1>3. NoRow.status = "NONE" /\ "NONE" \notin Outstanding \cup Outcomes
  BY DEF NoRow, NewRow, Outstanding, Outcomes, Statuses, Terminal, Unsent
<1>. QED
  BY <1>1, <1>2, <1>3
     DEF IInv, Init, RequestInv, OneRowPerKey, BackedByIssuer, ObserverInv, ToldReached,
         AnnouncedOnce

LEMMA NextInvariant == IInv /\ [Next]_vars => IInv'
<1>1. SUFFICES ASSUME IInv, [Next]_vars PROVE IInv'
  OBVIOUS
<1>2. CASE MoveCard
  BY <1>1, <1>2, MoveCardInvariant
<1>3. ASSUME NEW c \in Calls, Request(c) \/ Issuer(c) PROVE IInv'
  BY <1>1, <1>3, RequestInvariant, IssuerInvariant
<1>4. ASSUME NEW o \in Observers, Observe(o) PROVE IInv'
  BY <1>1, <1>4, ObserveInvariant
<1>5. CASE UNCHANGED vars
  BY <1>1, <1>5
     DEF vars, requestVars, issuerVars, observerVars, IInv, TypeOK, RequestInv,
         OneRowPerKey, BackedByIssuer, ObserverInv, ToldReached, AnnouncedOnce
<1>. QED
  BY <1>1, <1>2, <1>3, <1>4, <1>5 DEF Next

\* The inductive invariant holds throughout: what a request, an observer and
\* the issuer hold about one deposit never contradict each other.
THEOREM Invariant == Spec => []IInv
<1>1. Init => IInv
  BY InitInvariant
<1>2. IInv /\ [Next]_vars => IInv'
  BY NextInvariant
<1>. QED
  BY <1>1, <1>2, PTL DEF Spec

\* Every variable keeps its type, for any set of calls, observers and reasons.
THEOREM TypeCorrect == Spec => []TypeOK
BY Invariant, PTL DEF IInv

\* No row says more than the issuer has reported, whatever the observers hold.
THEOREM NotAheadOfIssuer == Spec => []BackedByIssuer
BY Invariant, PTL DEF IInv

\* No transition of a deposit is announced twice, by any number of observers.
THEOREM AnnouncedAtMostOnce == Spec => []AnnouncedOnce
BY Invariant, PTL DEF IInv

\* One idempotency key puts at most one request on the wire.
THEOREM IssuerAskedOncePerKey == Spec => []OneRequestPerKey
<1>1. IInv => OneRequestPerKey
  BY DEF IInv, RequestInv, OneRowPerKey, OneRequestPerKey
<1>. QED
  BY <1>1, Invariant, PTL

\* No deposit request is on the wire for a card that was never opened.
THEOREM UnopenedCardsGetNoDeposit == Spec => []NoDepositOpensACard
<1>1. IInv => NoDepositOpensACard
  BY DEF IInv, RequestInv, NoDepositOpensACard
<1>. QED
  BY <1>1, Invariant, PTL

\* The abstract specification reads the same lifecycle.
LEMMA LedgerLifecycle ==
  /\ Ledger!Outstanding = Outstanding
  /\ Ledger!Outcomes = Outcomes
  /\ \A s : Ledger!Follows(s) = Follows(s)
  /\ \A s, t : Ledger!Reaches(s, t) <=> Reaches(s, t)
BY DEF Ledger!Outstanding, Outstanding, Ledger!Outcomes, Outcomes, Ledger!Statuses,
       Statuses, Ledger!Terminal, Terminal, Ledger!Unsent, Unsent, Ledger!Follows,
       Follows, Ledger!Reaches, Reaches

\* How one step moves the rows and what the partner was told.
LEMMA StepOfLedger ==
  ASSUME IInv, IInv', [Next]_vars
  PROVE  [Ledger!Next]_(Ledger!vars)
<1> DEFINE status == [c \in Calls |-> row[c].status]
<1>0. SUFFICES \/ UNCHANGED <<status, told>>
               \/ Ledger!Next
  BY DEF Ledger!vars
<1>1. CASE UNCHANGED <<row, told>>
  BY <1>1
<1>2. ASSUME NEW c \in Calls, Request(c), row' # row PROVE Ledger!Next
  <2>1. /\ told' = told
        /\ \/ row[c].status = "NONE" /\ row' = [row EXCEPT ![c] = NewRow("DRAFT", "none", "none")]
           \/ /\ row[c].status = "DRAFT"
              /\ \E s \in {"SUBMITTED", "SUBMISSION_FAILED", "REJECTED"} : \E i, r :
                    row' = [row EXCEPT ![c] = NewRow(s, i, r)]
    BY <1>2 DEF Request, Admit, WriteDraft, Send, Receive, TimeOut, MarkSubmitted,
                RecordFailure, FailureStatus, Abandon, IInv, RequestInv
  <2>2. CASE row[c].status = "NONE" /\ row' = [row EXCEPT ![c] = NewRow("DRAFT", "none", "none")]
    <3>1. status' = [status EXCEPT ![c] = "DRAFT"]
      BY <2>2 DEF NewRow, IInv, TypeOK
    <3>. QED
      BY <2>1, <2>2, <3>1 DEF Ledger!Next, Ledger!Create
  <2>3. ASSUME row[c].status = "DRAFT",
               NEW s \in {"SUBMITTED", "SUBMISSION_FAILED", "REJECTED"}, NEW i, NEW r,
               row' = [row EXCEPT ![c] = NewRow(s, i, r)]
        PROVE  Ledger!Next
    <3>1. status' = [status EXCEPT ![c] = s]
      BY <2>3 DEF NewRow, IInv, TypeOK
    <3>. QED
      BY <2>1, <2>3, <3>1 DEF Ledger!Next, Ledger!Submit
  <2>. QED
    BY <2>1, <2>2, <2>3
<1>3. ASSUME NEW o \in Observers, RecordOutcome(o) PROVE UNCHANGED <<status, told>> \/ Ledger!Next
  <2>1. PICK c \in Calls : c = dep[o]
    BY <1>3 DEF RecordOutcome, IInv, ObserverInv
  <2>2. /\ row[c].status \in Outstanding
        /\ Reaches(row[c].status, heard[o].state)
    BY <1>3, <2>1 DEF RecordOutcome, StillAsLoaded, IInv, ObserverInv
  <2>3. status' = [status EXCEPT ![c] = heard[o].state] /\ told' = told
    BY <1>3, <2>1 DEF RecordOutcome, Recorded, IInv, TypeOK
  <2>4. CASE heard[o].state = row[c].status
    BY <2>3, <2>4
  <2>5. CASE heard[o].state # row[c].status
    <3>1. heard[o].state \in Follows(row[c].status)
      BY <2>2, <2>5 DEF Reaches
    <3>2. Ledger!Advance(c)
      BY <2>2, <2>3, <3>1, LedgerLifecycle DEF Ledger!Advance
    <3>. QED
      BY <3>2 DEF Ledger!Next
  <2>. QED
    BY <2>4, <2>5
<1>4. ASSUME NEW o \in Observers, Announce(o) PROVE Ledger!Next
  <2>1. PICK c \in Calls : c = dep[o]
    BY <1>4 DEF Announce, IInv, ObserverInv
  <2>2. /\ heard[o].state \in Outcomes \ told[c]
        /\ Reaches(heard[o].state, row[c].status)
    BY <1>4, <2>1 DEF Announce, IInv, ObserverInv, AnnouncedOnce
  <2>3. told' = [told EXCEPT ![c] = @ \cup {heard[o].state}] /\ status' = status
    BY <1>4, <2>1 DEF Announce, requestVars
  <2>4. Ledger!Tell(c)
    BY <2>2, <2>3, LedgerLifecycle DEF Ledger!Tell
  <2>. QED
    BY <2>4 DEF Ledger!Next
<1>5. UNCHANGED <<row, told>>
        \/ (\E c \in Calls : Request(c) /\ row' # row)
        \/ (\E o \in Observers : RecordOutcome(o) \/ Announce(o))
  BY DEF Next, vars, requestVars, issuerVars, MoveCard, Issuer, IssuerAnswersRequest,
         IssuerMovesOn, IssuerRewords, Request, Admit, WriteDraft, Send, Receive, TimeOut,
         MarkSubmitted, RecordFailure, Abandon, Observe, Load, Ask, GiveUp, RecordNothing
<1>. QED
  BY <1>1, <1>2, <1>3, <1>4, <1>5

\* The component implements its promise: deposits only advance, and the partner
\* is told of a status at most once and only when the deposit has reached it.
THEOREM ImplementsLedger == Spec => LedgerSpec
<1>1. Init => Ledger!Init
  BY DEF Init, Ledger!Init, NoRow, NewRow
<1>2. IInv /\ IInv' /\ [Next]_vars => [Ledger!Next]_(Ledger!vars)
  BY StepOfLedger
<1>. QED
  BY <1>1, <1>2, Invariant, PTL DEF Spec, LedgerSpec, Ledger!Spec

\* No step takes a deposit back along its lifecycle or out of a final status.
THEOREM LifecycleOnlyAdvances == Spec => NeverWalksBack
<1>1. IInv /\ IInv' /\ [Next]_vars => [\A c \in Calls : Reaches(row[c].status, row'[c].status)]_vars
  <2>1. SUFFICES ASSUME IInv, IInv', [Next]_vars, NEW c \in Calls
                 PROVE  Reaches(row[c].status, row'[c].status)
    OBVIOUS
  <2>2. CASE UNCHANGED row
    BY <2>2 DEF Reaches
  <2>3. ASSUME NEW o \in Observers, RecordOutcome(o) PROVE Reaches(row[c].status, row'[c].status)
    <3>1. /\ dep[o] \in Calls
          /\ Reaches(row[dep[o]].status, heard[o].state)
      BY <2>1, <2>3 DEF RecordOutcome, StillAsLoaded, IInv, ObserverInv
    <3>2. row'[c].status = IF c = dep[o] THEN heard[o].state ELSE row[c].status
      BY <2>1, <2>3, <3>1 DEF RecordOutcome, Recorded, IInv, TypeOK
    <3>. QED
      BY <3>1, <3>2 DEF Reaches
  <2>4. ASSUME NEW d \in Calls, Request(d) PROVE Reaches(row[c].status, row'[c].status)
    <3>1. \/ UNCHANGED row
          \/ /\ row[d].status \in {"NONE", "DRAFT"}
             /\ \E s \in Statuses : \E i, r :
                  /\ row' = [row EXCEPT ![d] = NewRow(s, i, r)]
                  /\ Reaches(row[d].status, s)
      BY <2>1, <2>4
         DEF Request, Admit, WriteDraft, Send, Receive, TimeOut, MarkSubmitted,
             RecordFailure, FailureStatus, Abandon, IInv, RequestInv, Statuses, Terminal,
             Unsent, Reaches, Follows
    <3>2. ASSUME NEW s, NEW i, NEW r, row' = [row EXCEPT ![d] = NewRow(s, i, r)]
          PROVE  row'[c].status = IF c = d THEN s ELSE row[c].status
      BY <2>1, <3>2 DEF NewRow, IInv, TypeOK
    <3>3. CASE UNCHANGED row
      BY <3>3 DEF Reaches
    <3>4. ASSUME NEW s \in Statuses, NEW i, NEW r,
                 row' = [row EXCEPT ![d] = NewRow(s, i, r)], Reaches(row[d].status, s)
          PROVE  Reaches(row[c].status, row'[c].status)
      <4>1. row'[c].status = IF c = d THEN s ELSE row[c].status
        BY <3>2, <3>4
      <4>. QED
        BY <3>4, <4>1 DEF Reaches
    <3>. QED
      BY <3>1, <3>3, <3>4
  <2>5. UNCHANGED row \/ (\E d \in Calls : Request(d)) \/ (\E o \in Observers : RecordOutcome(o))
    BY <2>1
       DEF Next, vars, requestVars, issuerVars, MoveCard, Issuer, IssuerAnswersRequest,
           IssuerMovesOn, IssuerRewords, Observe, Load, Ask, GiveUp, RecordNothing, Announce
  <2>. QED
    BY <2>2, <2>3, <2>4, <2>5
<1>. QED
  BY <1>1, Invariant, PTL DEF Spec, NeverWalksBack
=============================================================================
