--------------------------- MODULE PaymentsProofs ---------------------------
(***************************************************************************)
(* The safety of Payments for any calls, keys, results, callbacks, faults  *)
(* and number of reports, and that it implements PaymentLedger at hosted   *)
(* gateways. The argument: a hosted gateway cannot report before the       *)
(* request is done, so nothing but a callback writes a settled row, and    *)
(* the row's lock makes that one callback. At the end, of WebhookDelivery, *)
(* that no webhook is given up unless that was earned.                     *)
(***************************************************************************)
EXTENDS Payments, WebhookDelivery, TLAPS

\* The element an Append adds, and the ones it keeps.
LEMMA AppendFacts ==
  ASSUME NEW S, NEW s \in Seq(S), NEW e \in S
  PROVE  /\ Append(s, e) \in Seq(S)
         /\ Len(Append(s, e)) = Len(s) + 1
         /\ \A i \in 1..Len(s) : Append(s, e)[i] = s[i]
         /\ Append(s, e)[Len(s) + 1] = e
OBVIOUS

LEMMA Initially == Init => IInv
<1> SUFFICES ASSUME Init PROVE IInv
  OBVIOUS
<1>1. TypeOK
  BY ReportsAssumption DEF Init, TypeOK, CallerStates, CallbackStates
<1>2. RequestInv /\ CallbackInv /\ HostedInv /\ UnwrittenInv
  BY NoCallAssumption DEF Init, RequestInv, CallbackInv, HostedInv, Announcing, UnwrittenInv
<1>3. BackedByReport /\ TrailExplains /\ AnnouncedWasRecorded
  BY DEF Init, BackedByReport, TrailExplains, AnnouncedWasRecorded, Final
<1>4. QED
  BY <1>1, <1>2, <1>3 DEF IInv

\* A callback past LookUp names a call, and brings a result.
LEMMA CallbackFacts ==
  ASSUME IInv, NEW k \in Callbacks, cb[k] # "idle"
  PROVE  /\ about[k] \in Calls /\ told[k] \in Results /\ told[k] \in Final
         /\ signed[k] => told[k] \in reported[about[k]]
BY ResultsAssumption DEF IInv, TypeOK, CallbackInv

LEMMA TypeStep == IInv /\ [Next]_vars => TypeOK'
<1> SUFFICES ASSUME IInv, [Next]_vars PROVE TypeOK'
  OBVIOUS
<1>0. TypeOK
  BY DEF IInv
<1> USE DEF TypeOK, callVars, gatewayVars, callbackVars, CallerStates, CallbackStates
<1>1. ASSUME NEW c \in Calls, Request(c)
      PROVE  TypeOK'
  <2>1. CASE Draft(c)
    BY <1>0, <2>1 DEF Draft, WritePending, Statuses
  <2>2. CASE Refuse(c) \/ Initiate(c) \/ OpenOrder(c) \/ Initiated(c) \/ Answer(c) \/ Abort(c)
             \/ PayerArrives(c)
    BY <1>0, <2>2 DEF Refuse, Initiate, OpenOrder, Initiated, Answer, Abort, PayerArrives
  <2>3. CASE ReadForSave(c)
    BY <1>0, <2>3 DEF ReadForSave
  <2>4. CASE Save(c)
    BY <1>0, <2>4 DEF Save, Statuses
  <2>5. QED
    BY <1>1, <2>1, <2>2, <2>3, <2>4 DEF Request
<1>2. ASSUME NEW k \in Callbacks, NEW c \in Calls, NEW s \in Results, Report(k, c, s)
      PROVE  TypeOK'
  <2>1. reported' \in [Calls -> SUBSET Results]
    <3>1. reported \in [Calls -> SUBSET Results]
      BY <1>0
    <3>2. reported' = [reported EXCEPT ![c] = @ \cup {s}] \/ reported' = reported
      BY <1>2 DEF Report
    <3>3. reported[c] \cup {s} \in SUBSET Results
      BY <3>1
    <3>4. QED
      BY <3>1, <3>2, <3>3
  <2>2. signed' \in [Callbacks -> BOOLEAN] /\ received' \in 0..MaxReports
    <3>1. signed \in [Callbacks -> BOOLEAN] /\ received \in 0..MaxReports
      BY <1>0
    <3>2. \E b \in BOOLEAN : signed' = [signed EXCEPT ![k] = b]
      BY <1>2 DEF Report
    <3>3. received < MaxReports /\ received' = received + 1
      BY <1>2 DEF Report
    <3>4. QED
      BY <3>1, <3>2, <3>3, ReportsAssumption
  <2>3. /\ cb' \in [Callbacks -> CallbackStates]
        /\ about' \in [Callbacks -> Calls \cup {NoCall}]
        /\ told' \in [Callbacks -> Results \cup {"none"}]
    BY <1>0, <1>2 DEF Report
  <2>4. QED
    BY <1>0, <1>2, <2>1, <2>2, <2>3 DEF Report
<1>3. ASSUME NEW k \in Callbacks, Handle(k)
      PROVE  TypeOK'
  <2> DEFINE c == about[k]
  <2>0. cb[k] # "idle" /\ c \in Calls /\ told[k] \in Final
    BY <1>3, CallbackFacts
    DEF Handle, LookUp, Unknown, Distrust, Settle, Ignore, Audit, Enqueue, Fail, Step, IInv,
        CallbackInv
  <2>1. CASE LookUp(k) \/ Unknown(k) \/ Distrust(k) \/ Audit(k) \/ Fail(k)
    BY <1>0, <2>1 DEF LookUp, Unknown, Distrust, Audit, Fail, Step, Ended
  <2>2. CASE Settle(k)
    <3>1. <<row[c], told[k]>> \in Moves
      BY <1>0, <2>0, <2>2, CallbackFacts DEF Settle, Step, Moves, Statuses, IInv, CallbackInv
    <3>2. Append(trail[c], <<row[c], told[k]>>) \in Seq(Moves)
      BY <1>0, <2>0, <3>1, AppendFacts
    <3>3. trail' \in [Calls -> Seq(Moves)]
      BY <1>0, <2>2, <3>2 DEF Settle
    <3>4. row' \in [Calls -> Statuses \cup {"none"}]
      BY <1>0, <2>0, <2>2 DEF Settle, Statuses
    <3>5. QED
      BY <1>0, <2>2, <3>3, <3>4 DEF Settle, Step
  <2>3. CASE Ignore(k)
    <3>1. IgnoredEvent(k) \in Moves
      BY <1>0, <2>0, <2>3 DEF Ignore, Settled, IgnoredEvent, Moves, Statuses
    <3>2. Append(trail[c], IgnoredEvent(k)) \in Seq(Moves)
      BY <1>0, <2>0, <3>1, AppendFacts
    <3>3. trail' \in [Calls -> Seq(Moves)]
      BY <1>0, <2>3, <3>2 DEF Ignore
    <3>4. QED
      BY <1>0, <2>3, <3>3 DEF Ignore, Ended
  <2>4. CASE Enqueue(k)
    <3>1. Append(queued[c], told[k]) \in Seq(Final)
      BY <1>0, <2>0, AppendFacts
    <3>2. queued' \in [Calls -> Seq(Final)]
      BY <1>0, <2>4, <3>1 DEF Enqueue, StatusTold
    <3>3. QED
      BY <1>0, <2>4, <3>2 DEF Enqueue, Ended
  <2>5. QED
    BY <1>3, <2>1, <2>2, <2>3, <2>4 DEF Handle
<1>4. CASE UNCHANGED vars
  BY <1>0, <1>4 DEF vars
<1>5. QED
  BY <1>1, <1>2, <1>3, <1>4 DEF Next

\* What a step does to a row: the request drafts it, or writes its stale copy
\* back; a callback settles it, with a result that verifies.
LEMMA RowWriters ==
  ASSUME IInv, [Next]_vars, NEW c \in Calls
  PROVE  \/ row'[c] = row[c]
         \/ Draft(c) /\ row[c] = "none" /\ row'[c] = "PENDING"
         \/ c \in Direct /\ Save(c) /\ row[c] # "none" /\ row'[c] = "PENDING"
         \/ \E k \in Callbacks : /\ Settle(k) /\ about[k] = c /\ row[c] = "PENDING"
                                  /\ row'[c] = told[k] /\ told[k] \in reported[c]
<1>0. row \in [Calls -> Statuses \cup {"none"}]
  BY DEF IInv, TypeOK
<1>1. ASSUME NEW d \in Calls, Draft(d)
      PROVE  row'[c] = row[c] \/ (d = c /\ row[c] = "none" /\ row'[c] = "PENDING")
  BY <1>0, <1>1 DEF Draft, WritePending, IInv, RequestInv
<1>2. ASSUME NEW d \in Calls, Save(d)
      PROVE  row'[c] = row[c] \/ (d = c /\ c \in Direct /\ row[c] # "none" /\ row'[c] = "PENDING")
  <2>1. CASE dirty[d] /\ d = c
    BY <1>0, <1>2, <2>1 DEF Save, IInv, RequestInv
  <2>2. CASE ~dirty[d] \/ d # c
    BY <1>0, <1>2, <2>2 DEF Save
  <2>3. QED
    BY <2>1, <2>2
<1>3. ASSUME NEW k \in Callbacks, Settle(k)
      PROVE  \/ row'[c] = row[c]
             \/ about[k] = c /\ row[c] = "PENDING" /\ row'[c] = told[k] /\ told[k] \in reported[c]
  <2>1. cb[k] = "found" /\ about[k] \in Calls /\ told[k] \in reported[about[k]]
    BY <1>3, CallbackFacts DEF Settle, Step, Trusted
  <2>2. row[about[k]] = "PENDING"
    BY <1>0, <1>3, <2>1 DEF Settle, Settled, Statuses, IInv, CallbackInv
  <2>3. QED
    BY <1>0, <1>3, <2>1, <2>2 DEF Settle
<1>4. CASE UNCHANGED vars
  BY <1>4 DEF vars
<1>5. CASE \E d \in Calls : Request(d) /\ ~Draft(d) /\ ~Save(d)
  BY <1>5 DEF Request, Refuse, Initiate, OpenOrder, Initiated, ReadForSave, Answer, Abort,
              PayerArrives
<1>6. CASE \E k \in Callbacks, d \in Calls, s \in Results : Report(k, d, s)
  BY <1>6 DEF Report
<1>7. CASE \E k \in Callbacks : Handle(k) /\ ~Settle(k)
  BY <1>7 DEF Handle, LookUp, Unknown, Distrust, Ignore, Audit, Enqueue, Fail
<1>8. QED
  BY <1>1, <1>2, <1>3, <1>4, <1>5, <1>6, <1>7 DEF Next

\* Results are never taken back.
LEMMA ReportsGrow ==
  ASSUME TypeOK, [Next]_vars, NEW c \in Calls
  PROVE  reported[c] \subseteq reported'[c]
<1>1. ASSUME NEW k \in Callbacks, NEW d \in Calls, NEW s \in Results, Report(k, d, s)
      PROVE  reported[c] \subseteq reported'[c]
  BY <1>1 DEF Report, TypeOK
<1>2. CASE UNCHANGED reported
  BY <1>2
<1>3. QED
  BY <1>1, <1>2
  DEF Next, Request, Draft, Refuse, Initiate, OpenOrder, Initiated, ReadForSave, Save, Answer,
      Abort, PayerArrives, Handle, LookUp, Unknown, Distrust, Settle, Ignore, Audit, Enqueue,
      Fail, vars, gatewayVars

\* An order stays held, and a form that is out stays out.
LEMMA VerifiesFromThenOn ==
  ASSUME TypeOK, [Next]_vars, NEW c \in Calls, MayVerify(c)
  PROVE  MayVerify(c)'
<1>1. opened \subseteq opened'
  BY DEF Next, Request, Draft, Refuse, Initiate, OpenOrder, Initiated, ReadForSave, Save, Answer,
         Abort, PayerArrives, Report, Handle, LookUp, Unknown, Distrust, Settle, Ignore, Audit,
         Enqueue, Fail, vars, callVars, gatewayVars
<1>2. caller[c] = "done" => caller'[c] = "done"
  <2>1. ASSUME NEW d \in Calls, Request(d), caller[c] = "done"
        PROVE  caller'[c] = "done"
    BY <2>1 DEF Request, Draft, Refuse, Initiate, OpenOrder, Initiated, ReadForSave, Save, Answer,
                Abort, PayerArrives, callVars, TypeOK
  <2>2. CASE UNCHANGED caller
    BY <2>2
  <2>. QED
    BY <2>1, <2>2
    DEF Next, Report, Handle, LookUp, Unknown, Distrust, Settle, Ignore, Audit, Enqueue, Fail,
        vars, callVars
<1>. QED
  BY <1>1, <1>2 DEF MayVerify

LEMMA BackedStep == IInv /\ [Next]_vars => BackedByReport'
<1> SUFFICES ASSUME IInv, [Next]_vars, NEW c \in Calls, row'[c] \in Final
             PROVE  row'[c] \in reported'[c] /\ MayVerify(c)'
  BY DEF BackedByReport
<1>1. reported[c] \subseteq reported'[c]
  BY ReportsGrow DEF IInv
<1>2. row'[c] \in reported[c]
  <2>1. row[c] \in Final => row[c] \in reported[c]
    BY DEF IInv, BackedByReport
  <2>2. "PENDING" \notin Final
    BY DEF Final
  <2>3. QED
    BY <2>1, <2>2, RowWriters
<1>3. MayVerify(c)'
  <2>1. MayVerify(c)
    BY <1>2 DEF IInv, RequestInv
  <2>. QED
    BY <2>1, VerifiesFromThenOn DEF IInv
<1>4. QED
  BY <1>1, <1>2, <1>3

LEMMA RequestStep == IInv /\ [Next]_vars => RequestInv'
<1> SUFFICES ASSUME IInv, [Next]_vars PROVE RequestInv'
  OBVIOUS
<1>0. /\ row \in [Calls -> Statuses \cup {"none"}] /\ caller \in [Calls -> CallerStates]
      /\ dirty \in [Calls -> BOOLEAN] /\ reported \in [Calls -> SUBSET Results]
      /\ RequestInv /\ BackedByReport
  BY DEF IInv, TypeOK
<1> USE DEF callVars, gatewayVars, CallerStates
<1>01. ASSUME NEW c \in Calls, reported[c] # {}
       PROVE  MayVerify(c)'
  <2>1. MayVerify(c)
    BY <1>0, <1>01 DEF RequestInv
  <2>. QED
    BY <2>1, VerifiesFromThenOn DEF IInv
<1>1. ASSUME NEW c \in Calls, Draft(c)
      PROVE  RequestInv'
  <2>1. reported' = reported
    BY <1>1 DEF Draft
  <2>. QED
    BY <1>0, <1>01, <1>1, <2>1 DEF Draft, WritePending, KeyTaken, RequestInv
<1>2. ASSUME NEW c \in Calls,
             Refuse(c) \/ Initiate(c) \/ OpenOrder(c) \/ Initiated(c) \/ Answer(c) \/ Abort(c)
               \/ PayerArrives(c)
      PROVE  RequestInv'
  <2>1. row' = row /\ dirty' = dirty /\ reported' = reported
    BY <1>2 DEF Refuse, Initiate, OpenOrder, Initiated, Answer, Abort, PayerArrives
  <2>2. \A d \in Calls : caller'[d] \in {"start", "refused"} <=> caller[d] \in {"start", "refused"}
    BY <1>0, <1>2 DEF Refuse, Initiate, OpenOrder, Initiated, Answer, Abort, PayerArrives
  <2>3. opened \subseteq opened'
    BY <1>2 DEF Refuse, Initiate, OpenOrder, Initiated, Answer, Abort, PayerArrives
  <2>4. \A d \in opened' \cap Calls : caller'[d] \notin {"start", "refused", "drafted"}
    BY <1>0, <1>2 DEF RequestInv, Refuse, Initiate, OpenOrder, Initiated, Answer, Abort, PayerArrives
  <2>5. \A d \in (opened' \cap Calls) \ Direct : caller'[d] = "done"
    BY <1>0, <1>2 DEF RequestInv, Refuse, Initiate, OpenOrder, Initiated, Answer, Abort, PayerArrives
  <2>6. QED
    BY <1>0, <1>01, <2>1, <2>2, <2>3, <2>4, <2>5 DEF RequestInv
<1>3. ASSUME NEW c \in Calls, ReadForSave(c)
      PROVE  RequestInv'
  <2>1. c \notin Direct => row[c] = "PENDING"
    <3>1. c \notin Direct => reported[c] = {}
      BY <1>0, <1>3 DEF ReadForSave, RequestInv, MayVerify
    <3>2. row[c] # "none"
      BY <1>0, <1>3 DEF ReadForSave, RequestInv
    <3>3. QED
      BY <1>0, <3>1, <3>2 DEF BackedByReport, Statuses
  <2>2. QED
    BY <1>0, <1>01, <1>3, <2>1 DEF ReadForSave, RequestInv
<1>4. ASSUME NEW c \in Calls, Save(c)
      PROVE  RequestInv'
  <2>1. \A d \in Calls : row'[d] = "none" <=> row[d] = "none"
    BY <1>0, <1>4 DEF Save, RequestInv
  <2>2. \A d \in Calls : caller'[d] = IF d = c THEN "saved" ELSE caller[d]
    BY <1>0, <1>4 DEF Save
  <2>3. caller[c] = "saving" /\ UNCHANGED <<dirty, opened, reported>>
    BY <1>4 DEF Save
  <2>4. QED
    BY <1>0, <1>01, <2>1, <2>2, <2>3 DEF RequestInv
<1>5. ASSUME NEW k \in Callbacks, NEW c \in Calls, NEW s \in Results, Report(k, c, s)
      PROVE  RequestInv'
  <2>1. \A d \in Calls : reported'[d] # {} => reported[d] # {} \/ MayVerify(d)
    BY <1>0, <1>5 DEF Report
  <2>2. \A d \in Calls : reported'[d] # {} => MayVerify(d)'
    BY <1>01, <2>1, VerifiesFromThenOn DEF IInv
  <2>3. UNCHANGED <<row, caller, dirty, opened>>
    BY <1>5 DEF Report
  <2>. QED
    BY <1>0, <2>2, <2>3 DEF RequestInv
<1>6. ASSUME NEW k \in Callbacks, Handle(k)
      PROVE  RequestInv'
  <2>1. UNCHANGED <<caller, dirty, opened, reported>>
    BY <1>6 DEF Handle, LookUp, Unknown, Distrust, Settle, Ignore, Audit, Enqueue, Fail
  <2>2. \A d \in Calls : row'[d] = "none" <=> row[d] = "none"
    <3>1. CASE UNCHANGED row
      BY <3>1
    <3>2. CASE Settle(k)
      <4>1. cb[k] = "found" /\ about[k] \in Calls /\ told[k] \in Final
        BY <3>2, CallbackFacts DEF Settle, Step
      <4>2. row[about[k]] # "none"
        BY <4>1 DEF IInv, CallbackInv
      <4>3. QED
        BY <1>0, <3>2, <4>1, <4>2 DEF Settle, Final
    <3>3. QED
      BY <1>6, <3>1, <3>2 DEF Handle, LookUp, Unknown, Distrust, Ignore, Audit, Enqueue, Fail
  <2>3. QED
    BY <1>0, <1>01, <2>1, <2>2 DEF RequestInv
<1>7. CASE UNCHANGED vars
  BY <1>0, <1>01, <1>7 DEF vars, RequestInv
<1>8. QED
  BY <1>1, <1>2, <1>3, <1>4, <1>5, <1>6, <1>7 DEF Next, Request

\* The trail of a transaction only grows, and only by a callback about it.
LEMMA TrailGrows ==
  ASSUME IInv, [Next]_vars, NEW c \in Calls
  PROVE  \/ trail'[c] = trail[c]
         \/ \E k \in Callbacks :
              /\ about[k] = c /\ cb[k] = "found"
              /\ \/ Settle(k) /\ trail'[c] = Append(trail[c], <<row[c], told[k]>>)
                 \/ Ignore(k) /\ trail'[c] = Append(trail[c], <<row[c], row[c]>>)
<1>0. trail \in [Calls -> Seq(Moves)]
  BY DEF IInv, TypeOK
<1>1. ASSUME NEW k \in Callbacks, Settle(k)
      PROVE  \/ trail'[c] = trail[c]
             \/ about[k] = c /\ cb[k] = "found" /\ trail'[c] = Append(trail[c], <<row[c], told[k]>>)
  <2>1. CASE about[k] = c
    BY <1>0, <1>1, <2>1 DEF Settle, Step
  <2>2. CASE about[k] # c
    BY <1>0, <1>1, <2>2 DEF Settle
  <2>3. QED
    BY <2>1, <2>2
<1>2. ASSUME NEW k \in Callbacks, Ignore(k)
      PROVE  \/ trail'[c] = trail[c]
             \/ about[k] = c /\ cb[k] = "found" /\ trail'[c] = Append(trail[c], <<row[c], row[c]>>)
  <2>1. CASE about[k] = c
    BY <1>0, <1>2, <2>1 DEF Ignore, IgnoredEvent
  <2>2. CASE about[k] # c
    BY <1>0, <1>2, <2>2 DEF Ignore
  <2>3. QED
    BY <2>1, <2>2
<1>3. CASE UNCHANGED trail
  BY <1>3
<1>4. QED
  BY <1>1, <1>2, <1>3
  DEF Next, Request, Draft, Refuse, Initiate, OpenOrder, Initiated, ReadForSave, Save, Answer,
      Abort, PayerArrives, Report, Handle, LookUp, Unknown, Distrust, Audit, Enqueue, Fail, vars

\* An event, once written, stays where it is.
LEMMA EventsStay ==
  ASSUME IInv, [Next]_vars, NEW c \in Calls, NEW e,
         \E j \in 1..Len(trail[c]) : trail[c][j] = e
  PROVE  \E j \in 1..Len(trail'[c]) : trail'[c][j] = e
<1>0. trail[c] \in Seq(Moves)
  BY DEF IInv, TypeOK
<1>1. PICK j \in 1..Len(trail[c]) : trail[c][j] = e
  OBVIOUS
<1>2. CASE trail'[c] = trail[c]
  BY <1>1, <1>2
<1>3. ASSUME NEW m \in Moves, trail'[c] = Append(trail[c], m)
      PROVE  \E i \in 1..Len(trail'[c]) : trail'[c][i] = e
  <2>1. trail'[c][j] = e /\ j \in 1..Len(trail'[c])
    BY <1>0, <1>1, <1>3, AppendFacts
  <2>2. QED
    BY <2>1
<1>4. ASSUME NEW k \in Callbacks, about[k] = c, cb[k] = "found"
      PROVE  <<row[c], told[k]>> \in Moves /\ <<row[c], row[c]>> \in Moves
  <2>1. row[c] \in Statuses
    BY <1>4 DEF IInv, TypeOK, CallbackInv
  <2>2. told[k] \in Final
    BY <1>4, CallbackFacts
  <2>3. QED
    BY <2>1, <2>2 DEF Moves, Statuses
<1>5. QED
  BY <1>2, <1>3, <1>4, TrailGrows

\* No step but the end of callback k changes what it is about.
LEMMA CallbackStep == IInv /\ [Next]_vars => CallbackInv'
<1> SUFFICES ASSUME IInv, [Next]_vars, NEW k \in Callbacks
             PROVE  /\ about'[k] = NoCall <=> cb'[k] = "idle"
                    /\ cb'[k] # "idle" => told'[k] \in Results
                    /\ cb'[k] # "idle" /\ signed'[k] => told'[k] \in reported'[about'[k]]
                    /\ cb'[k] \in {"found", "committed", "audited"} => row'[about'[k]] # "none"
                    /\ cb'[k] \in {"committed", "audited"} =>
                         \E j \in 1..Len(trail'[about'[k]]) :
                           trail'[about'[k]][j] = <<"PENDING", told'[k]>>
  BY DEF CallbackInv
<1>0. /\ cb \in [Callbacks -> CallbackStates] /\ about \in [Callbacks -> Calls \cup {NoCall}]
      /\ told \in [Callbacks -> Results \cup {"none"}] /\ signed \in [Callbacks -> BOOLEAN]
      /\ reported \in [Calls -> SUBSET Results] /\ CallbackInv
  BY DEF IInv, TypeOK
<1>1. ASSUME NEW c \in Calls
      PROVE  reported[c] \subseteq reported'[c] /\ (row[c] # "none" => row'[c] # "none")
  <2>1. \A l \in Callbacks : cb[l] # "idle" => told[l] # "none"
    BY CallbackFacts DEF Final
  <2>2. QED
    BY <2>1, ReportsGrow, RowWriters DEF IInv, Settle, Step
<1> DEFINE Recorded == \E j \in 1..Len(trail[about[k]]) : trail[about[k]][j] = <<"PENDING", told[k]>>
<1>a. ASSUME cb[k] # "idle", UNCHANGED <<about[k], told[k], signed[k]>>
      PROVE  /\ about'[k] \in Calls /\ about'[k] # NoCall /\ told'[k] \in Results
             /\ signed'[k] => told'[k] \in reported'[about'[k]]
             /\ row[about[k]] # "none" => row'[about'[k]] # "none"
             /\ Recorded => Recorded'
  <2>1. /\ about[k] \in Calls /\ told[k] \in Results
        /\ signed[k] => told[k] \in reported[about[k]]
    BY <1>a, CallbackFacts
  <2>2. Recorded => \E j \in 1..Len(trail'[about[k]]) : trail'[about[k]][j] = <<"PENDING", told[k]>>
    BY <2>1, EventsStay
  <2>3. Recorded => Recorded'
    BY <1>a, <2>2
  <2>4. PICK c \in Calls : c = about[k]
    BY <2>1
  <2>5. reported[c] \subseteq reported'[c] /\ (row[c] # "none" => row'[c] # "none")
    BY <1>1
  <2> HIDE DEF Recorded
  <2>6. QED
    BY <1>a, <2>1, <2>3, <2>4, <2>5, NoCallAssumption
<1>2. CASE UNCHANGED <<cb[k], about[k], told[k], signed[k]>>
  <2>1. CASE cb[k] = "idle"
    BY <1>0, <1>2, <2>1 DEF CallbackInv
  <2>2. CASE cb[k] # "idle"
    <3>1. /\ cb[k] \in {"found", "committed", "audited"} => row[about[k]] # "none"
          /\ cb[k] \in {"committed", "audited"} => Recorded
      BY <1>0 DEF CallbackInv
    <3>2. cb'[k] = cb[k]
      BY <1>2
    <3>3. QED
      BY <1>2, <1>a, <2>2, <3>1, <3>2
  <2>3. QED
    BY <2>1, <2>2
<1>3. ASSUME Ended(k)
      PROVE  cb'[k] = "idle" /\ about'[k] = NoCall
  BY <1>0, <1>3 DEF Ended
<1>4. ASSUME NEW c \in Calls, NEW s \in Results, Report(k, c, s)
      PROVE  /\ about'[k] = c /\ cb'[k] = "received" /\ told'[k] = s
             /\ signed'[k] => s \in reported'[c]
  BY <1>0, <1>4 DEF Report
<1>5. CASE Step(k, "received", "found") /\ row[about[k]] # "none"
  <2>1. cb[k] = "received" /\ cb'[k] = "found" /\ UNCHANGED <<about[k], told[k], signed[k]>>
    BY <1>0, <1>5 DEF Step
  <2>2. QED
    BY <1>5, <1>a, <2>1
<1>6. CASE Settle(k)
  <2>1. /\ cb'[k] = "committed" /\ about'[k] = about[k] /\ told'[k] = told[k]
        /\ signed'[k] = signed[k] /\ cb[k] = "found"
    BY <1>0, <1>6 DEF Settle, Step
  <2>2. about[k] \in Calls /\ told[k] \in Final
    BY <2>1, CallbackFacts
  <2>3. row[about[k]] = "PENDING"
    BY <1>6, <2>1, <2>2 DEF Settle, Settled, Statuses, IInv, TypeOK, CallbackInv
  <2>4. \E j \in 1..Len(trail'[about[k]]) : trail'[about[k]][j] = <<"PENDING", told[k]>>
    <3>1. trail[about[k]] \in Seq(Moves) /\ <<"PENDING", told[k]>> \in Moves
      BY <2>2 DEF IInv, TypeOK, Moves, Statuses
    <3>2. trail'[about[k]] = Append(trail[about[k]], <<"PENDING", told[k]>>)
      BY <1>6, <2>2, <2>3 DEF Settle, IInv, TypeOK
    <3>3. Len(trail[about[k]]) + 1 \in 1..Len(trail'[about[k]])
      BY <3>1, <3>2, AppendFacts
    <3>4. QED
      BY <3>1, <3>2, <3>3, AppendFacts
  <2>5. row[about[k]] # "none"
    BY <2>3
  <2>6. QED
    BY <1>a, <2>1, <2>4, <2>5
<1>7. CASE Step(k, "committed", "audited")
  <2>1. cb[k] = "committed" /\ cb'[k] = "audited" /\ UNCHANGED <<about[k], told[k], signed[k]>>
    BY <1>0, <1>7 DEF Step
  <2>2. row[about[k]] # "none" /\ Recorded
    BY <1>0, <2>1 DEF CallbackInv
  <2>3. QED
    BY <1>a, <2>1, <2>2
<1>8. \/ UNCHANGED <<cb[k], about[k], told[k], signed[k]>>
      \/ Ended(k) \/ Settle(k) \/ Step(k, "committed", "audited")
      \/ Step(k, "received", "found") /\ row[about[k]] # "none"
      \/ \E c \in Calls, s \in Results : Report(k, c, s)
  <2>1. ASSUME NEW l \in Callbacks, Handle(l), l # k
        PROVE  UNCHANGED <<cb[k], about[k], told[k], signed[k]>>
    BY <1>0, <2>1
    DEF Handle, LookUp, Unknown, Distrust, Settle, Ignore, Audit, Enqueue, Fail, Step, Ended
  <2>2. ASSUME NEW l \in Callbacks, NEW c \in Calls, NEW s \in Results, Report(l, c, s), l # k
        PROVE  UNCHANGED <<cb[k], about[k], told[k], signed[k]>>
    BY <1>0, <2>2 DEF Report
  <2>3. ASSUME NEW c \in Calls, Request(c)
        PROVE  UNCHANGED <<cb[k], about[k], told[k], signed[k]>>
    BY <2>3
    DEF Request, Draft, Refuse, Initiate, OpenOrder, Initiated, ReadForSave, Save, Answer,
        Abort, PayerArrives, callbackVars
  <2>4. CASE UNCHANGED vars
    BY <2>4 DEF vars, callbackVars
  <2>5. CASE Handle(k)
    BY <2>5 DEF Handle, LookUp, Unknown, Distrust, Ignore, Audit, Enqueue, Fail
  <2>6. QED
    BY <2>1, <2>2, <2>3, <2>4, <2>5 DEF Next
<1>9. QED
  <2>1. CASE Ended(k)
    BY <1>3, <2>1
  <2>2. CASE \E c \in Calls, s \in Results : Report(k, c, s)
    BY <1>4, <2>2, NoCallAssumption
  <2>3. QED
    BY <1>2, <1>5, <1>6, <1>7, <1>8, <2>1, <2>2

\* Writing the settled row and announcing it are one callback's, at a hosted gateway.
LEMMA HostedStep == IInv /\ [Next]_vars => HostedInv'
<1> SUFFICES ASSUME IInv, [Next]_vars PROVE HostedInv'
  OBVIOUS
<1>0. /\ row \in [Calls -> Statuses \cup {"none"}] /\ queued \in [Calls -> Seq(Final)]
      /\ cb \in [Callbacks -> CallbackStates] /\ about \in [Callbacks -> Calls \cup {NoCall}]
      /\ told \in [Callbacks -> Results \cup {"none"}] /\ HostedInv
  BY DEF IInv, TypeOK
<1>1. \A k \in Callbacks : Announcing(k) => /\ about[k] \in Calls /\ told[k] \in Final
  BY CallbackFacts DEF Announcing
\* A row a callback is announcing is settled, and only Settle finds it PENDING.
<1>2. \A c \in Calls \ Direct : row[c] \in Final => row'[c] = row[c]
  BY RowWriters DEF Final
<1>3. CASE \E k \in Callbacks : Settle(k)
  <2>1. PICK k \in Callbacks : Settle(k)
    BY <1>3
  <2>2. cb[k] = "found" /\ about[k] \in Calls /\ told[k] \in Final
    BY <2>1, CallbackFacts DEF Settle, Step
  <2>3. row[about[k]] = "PENDING"
    BY <1>0, <2>1, <2>2 DEF Settle, Settled, Statuses, IInv, CallbackInv
  <2>4. /\ row' = [row EXCEPT ![about[k]] = told[k]] /\ UNCHANGED <<queued, about, told>>
        /\ cb' = [cb EXCEPT ![k] = "committed"]
    BY <2>1 DEF Settle, Step
  <2>5. \A l \in Callbacks : Announcing(l) /\ about[l] \notin Direct => about[l] # about[k]
    BY <1>0, <1>1, <2>3 DEF HostedInv, Final
  <2>6. \A l \in Callbacks : Announcing(l)' <=> l = k \/ Announcing(l)
    BY <1>0, <2>4 DEF Announcing
  <2>7. about[k] \notin Direct => queued[about[k]] = <<>>
    BY <1>0, <2>2, <2>3 DEF HostedInv, Final
  <2>8. \A c \in Calls \ Direct : row'[c] \notin Final => queued'[c] = <<>>
    BY <1>0, <2>2, <2>4 DEF HostedInv
  <2>9. \A l \in Callbacks : Announcing(l)' /\ about'[l] \notin Direct =>
          row'[about'[l]] = told'[l] /\ queued'[about'[l]] = <<>>
    <3>1. \A l \in Callbacks : Announcing(l) /\ about[l] \notin Direct =>
            row'[about[l]] = told[l] /\ queued[about[l]] = <<>>
      BY <1>0, <1>1, <2>4, <2>5 DEF HostedInv
    <3>2. row'[about[k]] = told[k]
      BY <1>0, <2>2, <2>4
    <3>3. QED
      BY <2>4, <2>6, <2>7, <3>1, <3>2
  <2>10. \A l, m \in Callbacks : Announcing(l)' /\ Announcing(m)' /\ about'[l] = about'[m]
           /\ about'[l] \notin Direct => l = m
    BY <1>0, <2>4, <2>5, <2>6 DEF HostedInv
  <2>11. QED
    BY <2>8, <2>9, <2>10 DEF HostedInv
<1>4. CASE \E k \in Callbacks : Enqueue(k)
  <2>1. PICK k \in Callbacks : Enqueue(k)
    BY <1>4
  <2>2. Announcing(k) /\ about[k] \in Calls /\ told[k] \in Final
    BY <1>1, <2>1 DEF Enqueue, Announcing
  <2>3. /\ UNCHANGED row /\ queued' = [queued EXCEPT ![about[k]] = Append(@, told[k])]
        /\ cb' = [cb EXCEPT ![k] = "idle"] /\ about' = [about EXCEPT ![k] = NoCall]
        /\ told' = [told EXCEPT ![k] = "none"]
    BY <2>1 DEF Enqueue, Ended, StatusTold
  <2>4. \A l \in Callbacks : Announcing(l)' => l # k /\ Announcing(l) /\ about'[l] = about[l]
                                             /\ told'[l] = told[l]
    BY <1>0, <2>3 DEF Announcing
  <2>5. \A l \in Callbacks : Announcing(l)' /\ about'[l] \notin Direct => about'[l] # about[k]
    BY <1>0, <2>2, <2>4 DEF HostedInv
  <2>6. \A c \in Calls : c # about[k] => queued'[c] = queued[c]
    BY <1>0, <2>2, <2>3
  <2>7. about[k] \notin Direct => row[about[k]] \in Final
    BY <1>0, <2>2 DEF HostedInv
  <2>8. \A c \in Calls \ Direct : row'[c] \notin Final => queued'[c] = <<>>
    BY <1>0, <2>2, <2>3, <2>6, <2>7 DEF HostedInv
  <2>9. \A l \in Callbacks : Announcing(l)' /\ about'[l] \notin Direct =>
          row'[about'[l]] = told'[l] /\ queued'[about'[l]] = <<>>
    BY <1>0, <1>1, <2>3, <2>4, <2>5, <2>6 DEF HostedInv
  <2>10. \A l, m \in Callbacks : Announcing(l)' /\ Announcing(m)' /\ about'[l] = about'[m]
           /\ about'[l] \notin Direct => l = m
    BY <1>0, <2>4 DEF HostedInv
  <2>11. QED
    BY <2>8, <2>9, <2>10 DEF HostedInv
<1>5. ASSUME UNCHANGED queued,
             \A l \in Callbacks : Announcing(l)' => /\ Announcing(l) /\ about'[l] = about[l]
                                                  /\ told'[l] = told[l]
      PROVE  HostedInv'
  <2>1. \A c \in Calls \ Direct : row'[c] \notin Final => queued'[c] = <<>>
    BY <1>0, <1>2, <1>5 DEF HostedInv
  <2>2. \A l \in Callbacks : Announcing(l)' /\ about'[l] \notin Direct =>
          row'[about'[l]] = told'[l] /\ queued'[about'[l]] = <<>>
    BY <1>0, <1>1, <1>2, <1>5 DEF HostedInv
  <2>3. \A l, m \in Callbacks : Announcing(l)' /\ Announcing(m)' /\ about'[l] = about'[m]
          /\ about'[l] \notin Direct => l = m
    BY <1>0, <1>5 DEF HostedInv
  <2>4. QED
    BY <2>1, <2>2, <2>3 DEF HostedInv
<1>6. CASE UNCHANGED <<queued, cb, about, told>>
  BY <1>5, <1>6 DEF Announcing
<1>7. ASSUME NEW k \in Callbacks, Ended(k), UNCHANGED queued
      PROVE  HostedInv'
  <2>1. \A l \in Callbacks : Announcing(l)' => /\ Announcing(l) /\ about'[l] = about[l]
                                              /\ told'[l] = told[l]
    BY <1>0, <1>7 DEF Ended, Announcing
  <2>2. QED
    BY <1>5, <1>7, <2>1
<1>8. ASSUME NEW k \in Callbacks,
             Step(k, "received", "found") \/ Step(k, "committed", "audited"), UNCHANGED queued
      PROVE  HostedInv'
  <2>1. \A l \in Callbacks : Announcing(l)' => /\ Announcing(l) /\ about'[l] = about[l]
                                              /\ told'[l] = told[l]
    BY <1>0, <1>8 DEF Step, Announcing
  <2>2. QED
    BY <1>5, <1>8, <2>1
<1>9. ASSUME NEW k \in Callbacks, NEW c \in Calls, NEW s \in Results, Report(k, c, s)
      PROVE  HostedInv'
  <2>1. \A l \in Callbacks : Announcing(l)' => /\ Announcing(l) /\ about'[l] = about[l]
                                              /\ told'[l] = told[l]
    BY <1>0, <1>9 DEF Report, Announcing
  <2>2. UNCHANGED queued
    BY <1>9 DEF Report
  <2>3. QED
    BY <1>5, <2>1, <2>2
<1>10. ASSUME NEW c \in Calls, Request(c)
       PROVE  UNCHANGED <<queued, cb, about, told>>
  BY <1>10
  DEF Request, Draft, Refuse, Initiate, OpenOrder, Initiated, ReadForSave, Save, Answer, Abort,
      PayerArrives, callbackVars
<1>11. ASSUME NEW k \in Callbacks, Handle(k), ~Settle(k), ~Enqueue(k)
       PROVE  /\ UNCHANGED queued
              /\ Ended(k) \/ Step(k, "received", "found") \/ Step(k, "committed", "audited")
  BY <1>11 DEF Handle, LookUp, Unknown, Distrust, Ignore, Audit, Fail
<1>12. CASE UNCHANGED vars
  BY <1>6, <1>12 DEF vars, callbackVars
<1>13. QED
  BY <1>3, <1>4, <1>6, <1>7, <1>8, <1>9, <1>10, <1>11, <1>12 DEF Next

LEMMA UnwrittenStep == IInv /\ [Next]_vars => UnwrittenInv'
<1> SUFFICES ASSUME IInv, [Next]_vars, NEW c \in Calls, row'[c] = "none"
             PROVE  trail'[c] = <<>>
  BY DEF UnwrittenInv
<1>1. row[c] = "none"
  <2>1. \A k \in Callbacks : Settle(k) => told[k] # "none"
    BY CallbackFacts DEF Settle, Step, Final
  <2>2. QED
    BY <2>1, RowWriters
<1>2. trail[c] = <<>>
  BY <1>1 DEF IInv, UnwrittenInv
<1>3. \A k \in Callbacks : cb[k] = "found" => about[k] # c
  BY <1>1 DEF IInv, CallbackInv
<1>4. QED
  BY <1>2, <1>3, TrailGrows

\* A hosted gateway's row moves with its trail.
LEMMA TrailStep == IInv /\ [Next]_vars => TrailExplains'
<1> DEFINE Explained(st, t) ==
      /\ st = IF Len(t) = 0 THEN "PENDING" ELSE t[Len(t)][2]
      /\ \A i \in 1..Len(t) : t[i][1] = IF i = 1 THEN "PENDING" ELSE t[i - 1][2]
<1> SUFFICES ASSUME IInv, [Next]_vars, NEW c \in Calls, c \notin Direct, row'[c] # "none"
             PROVE  Explained(row'[c], trail'[c])
  BY DEF TrailExplains
<1>0. trail[c] \in Seq(Moves) /\ row[c] \in Statuses \cup {"none"}
  BY DEF IInv, TypeOK
<1>1. row[c] # "none" => Explained(row[c], trail[c])
  BY DEF IInv, TrailExplains
\* An event that begins where the trail ends explains where it leads to.
<1>2. ASSUME NEW s \in Statuses, row[c] \in Statuses, trail'[c] = Append(trail[c], <<row[c], s>>)
      PROVE  Explained(s, trail'[c])
  <2>1. <<row[c], s>> \in Moves /\ row[c] # "none"
    BY <1>2 DEF Moves, Statuses, Final
  <2> DEFINE t == trail[c]
             n == Len(t)
  <2>2. /\ n \in Nat /\ Len(trail'[c]) = n + 1 /\ trail'[c][n + 1] = <<row[c], s>>
        /\ \A i \in 1..n : trail'[c][i] = t[i]
    BY <1>0, <1>2, <2>1, AppendFacts
  <2>3. Explained(row[c], t)
    BY <1>1, <2>1
  <2> HIDE DEF t
  <2>4. trail'[c][n + 1][1] = IF n + 1 = 1 THEN "PENDING" ELSE trail'[c][n][2]
    BY <2>2, <2>3
  <2>5. ASSUME NEW i \in 1..n
        PROVE  trail'[c][i][1] = IF i = 1 THEN "PENDING" ELSE trail'[c][i - 1][2]
    <3>1. i = 1 \/ i - 1 \in 1..n
      BY <2>2
    <3>2. QED
      BY <2>2, <2>3, <3>1
  <2>6. \A i \in 1..(n + 1) : i = n + 1 \/ i \in 1..n
    BY <2>2
  <2>7. QED
    BY <2>2, <2>4, <2>5, <2>6
<1>3. CASE trail'[c] = trail[c] /\ row'[c] = row[c]
  BY <1>1, <1>3
<1>4. ASSUME NEW k \in Callbacks, about[k] = c, cb[k] = "found"
      PROVE  row[c] \in Statuses /\ told[k] \in Statuses
  BY <1>0, <1>4, CallbackFacts DEF Statuses, IInv, CallbackInv
<1>5. ASSUME NEW k \in Callbacks, about[k] = c, Settle(k)
      PROVE  Explained(row'[c], trail'[c])
  <2>1. cb[k] = "found" /\ row'[c] = told[k] /\ trail'[c] = Append(trail[c], <<row[c], told[k]>>)
    BY <1>5 DEF Settle, Step, IInv, TypeOK
  <2>2. QED
    BY <1>2, <1>4, <1>5, <2>1
<1>6. ASSUME NEW k \in Callbacks, about[k] = c, cb[k] = "found", Ignore(k),
             trail'[c] = Append(trail[c], <<row[c], row[c]>>)
      PROVE  Explained(row'[c], trail'[c])
  <2>1. row'[c] = row[c]
    BY <1>6 DEF Ignore
  <2>2. QED
    BY <1>2, <1>4, <1>6, <2>1
\* Before the row is drafted no callback has got past LookUp.
<1>7. CASE Draft(c) /\ row[c] = "none" /\ row'[c] = "PENDING"
  <2>1. trail'[c] = trail[c]
    BY <1>7 DEF Draft
  <2>2. trail[c] = <<>>
    BY <1>7 DEF IInv, UnwrittenInv
  <2>3. QED
    BY <1>7, <2>1, <2>2
<1>8. QED
  BY <1>3, <1>5, <1>6, <1>7, RowWriters, TrailGrows

\* What a webhook carries, Settle had put into the trail.
LEMMA AnnouncedStep == IInv /\ [Next]_vars => AnnouncedWasRecorded'
<1> SUFFICES ASSUME IInv, [Next]_vars, NEW c \in Calls, NEW i \in 1..Len(queued'[c])
             PROVE  \E j \in 1..Len(trail'[c]) : trail'[c][j] = <<"PENDING", queued'[c][i]>>
  BY DEF AnnouncedWasRecorded
<1>0. queued \in [Calls -> Seq(Final)]
  BY DEF IInv, TypeOK
<1>1. \E j \in 1..Len(trail[c]) : trail[c][j] = <<"PENDING", queued'[c][i]>>
  <2>1. CASE queued'[c] = queued[c]
    BY <2>1 DEF IInv, AnnouncedWasRecorded
  <2>2. ASSUME NEW k \in Callbacks, Enqueue(k), about[k] = c
        PROVE  \E j \in 1..Len(trail[c]) : trail[c][j] = <<"PENDING", queued'[c][i]>>
    <3>1. queued[c] \in Seq(Final) /\ told[k] \in Final
      BY <1>0, <2>2, CallbackFacts DEF Enqueue
    <3>2. queued'[c] = Append(queued[c], told[k])
      BY <1>0, <2>2 DEF Enqueue, StatusTold
    <3>3. \/ i \in 1..Len(queued[c]) /\ queued'[c][i] = queued[c][i]
          \/ queued'[c][i] = told[k]
      BY <3>1, <3>2, AppendFacts
    <3>4. \E j \in 1..Len(trail[c]) : trail[c][j] = <<"PENDING", told[k]>>
      BY <2>2 DEF Enqueue, IInv, CallbackInv
    <3>5. QED
      BY <3>3, <3>4 DEF IInv, AnnouncedWasRecorded
  <2>3. ASSUME NEW k \in Callbacks, Enqueue(k), about[k] # c
        PROVE  queued'[c] = queued[c]
    BY <1>0, <2>3 DEF Enqueue
  <2>4. CASE UNCHANGED queued
    BY <2>1, <2>4
  <2>5. QED
    BY <2>1, <2>2, <2>3, <2>4
    DEF Next, Request, Draft, Refuse, Initiate, OpenOrder, Initiated, ReadForSave, Save, Answer,
        Abort, PayerArrives, Report, Handle, LookUp, Unknown, Distrust, Settle, Ignore, Audit,
        Fail, vars
<1>2. QED
  BY <1>1, EventsStay

LEMMA Inductive == IInv /\ [Next]_vars => IInv'
BY TypeStep, RequestStep, CallbackStep, HostedStep, UnwrittenStep, BackedStep, TrailStep,
   AnnouncedStep DEF IInv

\* The inductive invariant holds, whatever the calls, callbacks and faults.
THEOREM Invariant == Spec => []IInv
<1>1. Init => IInv
  BY Initially
<1>2. IInv /\ [Next]_vars => IInv'
  BY Inductive
<1>3. QED
  BY <1>1, <1>2, PTL DEF Spec

\* Every variable keeps its type.
THEOREM TypeCorrect == Spec => []TypeOK
<1>1. IInv => TypeOK
  BY DEF IInv
<1>2. QED
  BY <1>1, Invariant, PTL

\* No callback about a transaction the ledger lacks carries a signature: the
\* row is written before any gateway hears of it.
THEOREM KnownOrders == Spec => []OrdersAreKnown
<1>1. IInv => OrdersAreKnown
  <2> SUFFICES ASSUME IInv, NEW k \in Callbacks, cb[k] = "received", signed[k]
               PROVE  row[about[k]] # "none"
    BY DEF OrdersAreKnown
  <2>1. about[k] \in Calls /\ told[k] \in reported[about[k]]
    BY CallbackFacts
  <2>2. MayVerify(about[k])
    BY <2>1 DEF IInv, RequestInv
  <2>3. QED
    BY <2>1, <2>2 DEF IInv, RequestInv, MayVerify
<1>2. QED
  BY <1>1, Invariant, PTL

\* A final status is one a verifying callback told, and none verifies before the
\* direct gateway holds the order, or the partner has the hosted one's form.
THEOREM SettledAsVerified == Spec => []BackedByReport
<1>1. IInv => BackedByReport
  BY DEF IInv
<1>2. QED
  BY <1>1, Invariant, PTL

\* A requestId reaches a gateway as one order at most.
THEOREM OneOrder == Spec => []OneOrderPerKey
<1>1. IInv => OneOrderPerKey
  <2> SUFFICES ASSUME IInv, NEW c \in opened, NEW d \in opened, RequestIdOf[c] = RequestIdOf[d]
               PROVE  c = d
    BY DEF OneOrderPerKey
  <2>1. c \in Calls /\ d \in Calls /\ RequestInv
    BY DEF IInv, TypeOK
  <2>2. row[c] # "none" /\ row[d] # "none"
    BY <2>1 DEF RequestInv
  <2>3. QED
    BY <2>1, <2>2 DEF RequestInv
<1>2. QED
  BY <1>1, Invariant, PTL

\* At a hosted gateway the events account for the status.
THEOREM EventsExplain == Spec => []TrailExplains
<1>1. IInv => TrailExplains
  BY DEF IInv
<1>2. QED
  BY <1>1, Invariant, PTL

\* A webhook carries a status an event recorded.
THEOREM WebhooksRecorded == Spec => []AnnouncedWasRecorded
<1>1. IInv => AnnouncedWasRecorded
  BY DEF IInv
<1>2. QED
  BY <1>1, Invariant, PTL

\* At hosted gateways every step of the requests and the callbacks is a step of
\* the ledger partners are promised, or none of it.
THEOREM ImplementsLedger == Spec => LedgerSpec
<1> DEFINE St == [c \in Calls \ Direct |-> row[c]]
           An == [c \in Calls \ Direct |-> queued[c]]
<1>1. Init => Ledger!Init
  BY DEF Init, Ledger!Init
<1>2. IInv /\ [Next]_vars => [Ledger!Next]_Ledger!LedgerVars
  <2> SUFFICES ASSUME IInv, [Next]_vars PROVE Ledger!Next \/ (St' = St /\ An' = An)
    BY DEF Ledger!LedgerVars
  <2>0. /\ row \in [Calls -> Statuses \cup {"none"}] /\ queued \in [Calls -> Seq(Final)]
        /\ about \in [Callbacks -> Calls \cup {NoCall}] /\ RequestInv /\ HostedInv
    BY DEF IInv, TypeOK
  <2>1. ASSUME NEW c \in Calls, Draft(c)
        PROVE  Ledger!Next \/ (St' = St /\ An' = An)
    <3>1. row[c] = "none" /\ row' = [row EXCEPT ![c] = "PENDING"] /\ UNCHANGED queued
      BY <2>0, <2>1 DEF Draft, WritePending, RequestInv
    <3>2. CASE c \in Direct
      BY <2>0, <3>1, <3>2
    <3>3. CASE c \notin Direct
      <4>1. St' = [St EXCEPT ![c] = "PENDING"] /\ An' = An /\ St[c] = "none"
        BY <2>0, <3>1, <3>3
      <4>2. Ledger!Open(c)
        BY <4>1 DEF Ledger!Open
      <4>3. QED
        BY <3>3, <4>2 DEF Ledger!Next
    <3>4. QED
      BY <3>2, <3>3
  <2>2. ASSUME NEW c \in Calls, Save(c)
        PROVE  St' = St /\ An' = An
    <3>1. CASE c \in Direct
      BY <2>0, <2>2, <3>1 DEF Save
    <3>2. CASE c \notin Direct
      BY <2>0, <2>2, <3>2 DEF Save, RequestInv
    <3>3. QED
      BY <3>1, <3>2
  <2>3. ASSUME NEW k \in Callbacks, Settle(k)
        PROVE  Ledger!Next \/ (St' = St /\ An' = An)
    <3>0. PICK c \in Calls, s \in Final : about[k] = c /\ told[k] = s /\ cb[k] = "found"
      BY <2>3, CallbackFacts DEF Settle, Step
    <3>1. cb[k] = "found" /\ c \in Calls /\ told[k] = s /\ about[k] = c
      BY <3>0
    <3>2. row[c] = "PENDING"
      BY <2>0, <2>3, <3>1 DEF Settle, Settled, Statuses, IInv, CallbackInv
    <3>3. row' = [row EXCEPT ![c] = s] /\ UNCHANGED queued
      BY <2>3, <3>1 DEF Settle
    <3>4. CASE c \in Direct
      BY <2>0, <3>3, <3>4
    <3>5. CASE c \notin Direct
      <4>1. St' = [St EXCEPT ![c] = s] /\ An' = An /\ St[c] = "PENDING"
        BY <2>0, <3>1, <3>2, <3>3, <3>5
      <4>2. Ledger!SettleAs(c, s)
        BY <4>1 DEF Ledger!SettleAs
      <4>3. QED
        BY <3>1, <3>5, <4>2 DEF Ledger!Next
    <3>6. QED
      BY <3>4, <3>5
  <2>4. ASSUME NEW k \in Callbacks, Enqueue(k)
        PROVE  Ledger!Next \/ (St' = St /\ An' = An)
    <3>0. PICK c \in Calls, s \in Final : about[k] = c /\ told[k] = s /\ cb[k] = "audited"
      BY <2>4, CallbackFacts DEF Enqueue
    <3>1. cb[k] = "audited" /\ c \in Calls /\ told[k] \in Final /\ about[k] = c
      BY <3>0
    <3>2. queued' = [queued EXCEPT ![c] = Append(@, told[k])] /\ UNCHANGED row
      BY <2>4, <3>1 DEF Enqueue, StatusTold
    <3>3. CASE c \in Direct
      BY <2>0, <3>2, <3>3
    <3>4. CASE c \notin Direct
      <4>1. row[c] = told[k] /\ queued[c] = <<>>
        BY <2>0, <3>1, <3>4 DEF HostedInv, Announcing
      <4>2. Append(queued[c], told[k]) = <<row[c]>>
        BY <4>1
      <4>3. An' = [An EXCEPT ![c] = <<St[c]>>] /\ St' = St /\ St[c] \in Final /\ An[c] = <<>>
        BY <2>0, <3>1, <3>2, <3>4, <4>1, <4>2
      <4>4. Ledger!Announce(c)
        BY <4>3 DEF Ledger!Announce
      <4>5. QED
        BY <3>1, <3>4, <4>4 DEF Ledger!Next
    <3>5. QED
      BY <3>3, <3>4
  <2>5. CASE UNCHANGED <<row, queued>>
    BY <2>5
  <2>6. QED
    BY <2>1, <2>2, <2>3, <2>4, <2>5
    DEF Next, Request, Refuse, Initiate, OpenOrder, Initiated, ReadForSave, Answer,
        Abort, PayerArrives, Report, Handle, LookUp, Unknown, Distrust, Ignore, Audit,
        Fail, vars
<1>3. QED
  BY <1>1, <1>2, Invariant, PTL DEF Spec, LedgerSpec, Ledger!Spec
-----------------------------------------------------------------------------
(***************************************************************************)
(* The delivery of a webhook, once it is queued. What a pass saves is its  *)
(* own copy of the row, so the invariant is stated of every copy too: a    *)
(* stale one says nothing that has not happened, and whichever columns of  *)
(* it a save writes, neither does the row after it.                        *)
(***************************************************************************)

\* What an entity says of the delivery has happened: as many attempts have
\* failed as it counts, and its end was earned.
Earned(entity) ==
  /\ entity.count <= tries
  /\ entity.status = "DELIVERED" => acked
  /\ entity.status = "DEAD_LETTER" => tries >= MAX_ATTEMPTS \/ unset

\* Of the row, and of every copy a pass may save over it.
DeliveryInv == DeliveryOK /\ Earned(delivery) /\ \A p \in Passes : Earned(copy[p])

\* A failure is counted on a copy after it has happened.
LEMMA CountedIsEarned ==
  ASSUME NEW entity \in Deliveries, Earned(entity), tries \in Nat,
         tries' = tries + 1, UNCHANGED <<acked, unset>>
  PROVE  Counted(entity) \in Deliveries /\ Earned(Counted(entity))'
BY AttemptsAssumption DEF Earned, Counted, exhausted, Deliveries, WebhookDeliveryStatus

\* What was earned stays earned.
LEMMA EarnedStays ==
  ASSUME NEW entity \in Deliveries, Earned(entity), tries \in Nat, tries' \in Nat,
         tries' >= tries,
         acked => acked', unset => unset'
  PROVE  entity.count <= tries' /\ (entity.status = "DELIVERED" => acked')
         /\ (entity.status = "DEAD_LETTER" => tries' >= MAX_ATTEMPTS \/ unset')
BY AttemptsAssumption DEF Earned, Deliveries

\* Of a save, whichever columns it writes.
LEMMA UpdateIsEarned ==
  ASSUME NEW entity \in Deliveries, NEW columns \in SUBSET Columns, DeliveryOK,
         Earned(entity), Earned(delivery),
         Update(entity, columns), UNCHANGED <<tries, acked, unset>>
  PROVE  delivery' \in Deliveries /\ mixed' \in BOOLEAN /\ Earned(delivery)'
<1>1. delivery' = [c \in Columns |-> IF c \in columns THEN entity[c] ELSE delivery[c]]
  BY DEF Update
<1>2. /\ delivery'.status \in {entity.status, delivery.status}
      /\ delivery'.count \in {entity.count, delivery.count}
      /\ delivery'.next \in {entity.next, delivery.next}
  BY <1>1 DEF Columns
<1>3. delivery' = [status |-> delivery'.status, count |-> delivery'.count, next |-> delivery'.next]
  BY <1>1 DEF Columns
<1>4. delivery' \in Deliveries
  BY <1>2, <1>3 DEF Deliveries, DeliveryOK
<1> QED
  BY <1>2, <1>4 DEF Earned, Update, DeliveryOK

\* Of the copies, when the entity of one pass is changed and nothing is undone.
LEMMA CopiesEarned ==
  ASSUME DeliveryOK, DeliveryOK', \A p \in Passes : Earned(copy[p]),
         NEW p \in Passes, NEW entity \in Deliveries, copy' = [copy EXCEPT ![p] = entity],
         tries' >= tries, acked => acked', unset => unset', Earned(entity)'
  PROVE  \A q \in Passes : Earned(copy[q])'
<1> SUFFICES ASSUME NEW q \in Passes PROVE Earned(copy[q])'
  OBVIOUS
<1>1. CASE q = p
  BY <1>1 DEF DeliveryOK, Earned
<1>2. CASE q # p
  <2>1. copy'[q] = copy[q] /\ copy[q] \in Deliveries
    BY <1>2 DEF DeliveryOK
  <2>2. Earned(copy[q]) /\ tries \in Nat /\ tries' \in Nat
    BY DEF DeliveryOK
  <2> QED
    BY <2>1, <2>2, EarnedStays DEF Earned
<1> QED
  BY <1>1, <1>2

LEMMA QueuedIsEarned == ASSUME DeliveryOK PROVE Queued \in Deliveries /\ Earned(Queued)
BY DEF Queued, Deliveries, WebhookDeliveryStatus, Earned, DeliveryOK

LEMMA DeliveryBegins == DeliveryInit => DeliveryInv
<1> SUFFICES ASSUME DeliveryInit PROVE DeliveryInv
  OBVIOUS
<1>1. Queued \in Deliveries /\ Queued.count = 0 /\ Queued.status = "PENDING"
  BY DEF Queued, Deliveries, WebhookDeliveryStatus
<1>2. delivery \in Deliveries /\ copy \in [Passes -> Deliveries]
  BY <1>1 DEF DeliveryInit
<1>3. failures \in 0 .. MaxFailures /\ requeues \in 0 .. MaxRequeues
  BY BoundsAssumption DEF DeliveryInit
<1>4. DeliveryOK
  BY <1>2, <1>3 DEF DeliveryInit, DeliveryOK
<1> QED
  BY <1>1, <1>4 DEF DeliveryInit, DeliveryInv, Earned

\* A pass may leave without saving, or after it.
LEMMA LeavesTyped ==
  ASSUME DeliveryOK, NEW p \in Passes, Leaves(p)
  PROVE  /\ at' \in [Passes -> {"idle", "held", "posting"} \cup ToSave]
         /\ saving' \in [Passes -> BOOLEAN] /\ differing' \in [Passes -> SUBSET Columns]
         /\ copy' \in [Passes -> Deliveries] /\ copy' = [copy EXCEPT ![p] = Queued]
BY QueuedIsEarned DEF Leaves, Goes, DeliveryOK

\* A pass changes its own copy, to one that is earned by then.
LEMMA CopyChanges ==
  ASSUME DeliveryInv, NEW p \in Passes, NEW entity \in Deliveries,
         copy' = [copy EXCEPT ![p] = entity],
         tries' >= tries, acked => acked', unset => unset', UNCHANGED delivery,
         Earned(entity)', DeliveryOK'
  PROVE  DeliveryInv'
<1>1. delivery \in Deliveries /\ tries \in Nat /\ tries' \in Nat /\ Earned(delivery) /\ DeliveryOK
  BY DEF DeliveryInv, DeliveryOK
<1>2. Earned(delivery)'
  BY <1>1, EarnedStays DEF Earned
<1>3. \A q \in Passes : Earned(copy[q])'
  BY <1>1, CopiesEarned DEF DeliveryInv
<1> QED
  BY <1>2, <1>3 DEF DeliveryInv

LEMMA DeliveryGoesOn == DeliveryInv /\ [DeliveryNext]_deliveryVars => DeliveryInv'
<1> SUFFICES ASSUME DeliveryInv, [DeliveryNext]_deliveryVars PROVE DeliveryInv'
  OBVIOUS
<1> USE DEF partnerVars, passVars, requeueVars, historyVars
<1>a. DeliveryOK /\ Earned(delivery) /\ \A p \in Passes : Earned(copy[p]) /\ copy[p] \in Deliveries
  BY DEF DeliveryInv, DeliveryOK
<1>b. delivery \in Deliveries /\ tries \in Nat
  BY <1>a DEF DeliveryOK
<1>c. Queued \in Deliveries /\ Queued.count = 0 /\ Queued.status = "PENDING"
  BY DEF Queued, Deliveries, WebhookDeliveryStatus
<1>1. ASSUME NEW p \in Passes, Find(p) PROVE DeliveryInv'
  <2>1. PICK entity \in Deliveries : entity = delivery
    BY <1>b
  <2>2. copy' = [copy EXCEPT ![p] = entity] /\ UNCHANGED <<delivery, tries, acked, unset>>
    BY <1>1, <2>1 DEF Find
  <2>3. DeliveryOK'
    BY <1>a, <1>1 DEF Find, Goes, DeliveryOK
  <2>4. Earned(entity)'
    BY <1>a, <2>1, <2>2 DEF Earned
  <2>5. tries' >= tries
    BY <1>b, <2>2
  <2> QED
    BY <2>2, <2>3, <2>4, <2>5, CopyChanges
<1>2. ASSUME NEW p \in Passes, Unconfigured(p) PROVE DeliveryInv'
  <2>1. PICK entity \in Deliveries : entity = [copy[p] EXCEPT !.status = "DEAD_LETTER", !.next = "null"]
    BY <1>a DEF Deliveries, WebhookDeliveryStatus
  <2>2. copy' = [copy EXCEPT ![p] = entity] /\ unset' /\ UNCHANGED <<delivery, tries, acked>>
    BY <1>2, <1>a, <2>1 DEF Unconfigured, DeliveryOK
  <2>3. copy' \in [Passes -> Deliveries]
    BY <1>a, <2>2 DEF DeliveryOK
  <2>4. DeliveryOK'
    BY <1>a, <1>2, <2>3 DEF Unconfigured, Goes, DeliveryOK, ToSave
  <2>5. entity.count = copy[p].count /\ entity.status = "DEAD_LETTER"
    BY <1>a, <2>1 DEF Deliveries
  <2>6. Earned(entity)'
    BY <1>a, <2>2, <2>5 DEF Earned
  <2>7. tries' >= tries
    BY <1>b, <2>2
  <2> QED
    BY <2>2, <2>4, <2>6, <2>7, CopyChanges
<1>3. ASSUME NEW p \in Passes, Post(p) PROVE DeliveryInv'
  BY <1>3 DEF Post, Goes, DeliveryInv, DeliveryOK, Earned
<1>4. ASSUME NEW p \in Passes, Leaves(p), DeliveryOK', UNCHANGED <<delivery, tries, acked, unset>>
      PROVE  DeliveryInv'
  <2>1. PICK entity \in Deliveries : entity = Queued
    BY <1>c
  <2>2. Earned(entity)'
    BY <1>b, <1>c, <1>4, <2>1 DEF Earned
  <2>3. copy' = [copy EXCEPT ![p] = entity]
    BY <1>4, <2>1 DEF Leaves
  <2>4. tries' >= tries
    BY <1>b, <1>4
  <2> QED
    BY <1>4, <2>2, <2>3, <2>4, CopyChanges
<1>5. ASSUME NEW p \in Passes, Undecryptable(p) PROVE DeliveryInv'
  <2>1. DeliveryOK'
    BY <1>a, <1>5, LeavesTyped DEF Undecryptable, DeliveryOK
  <2> QED
    BY <1>4, <1>5, <2>1 DEF Undecryptable
<1>6. ASSUME NEW p \in Passes, Accepted(p) PROVE DeliveryInv'
  <2>1. PICK entity \in Deliveries : entity = [copy[p] EXCEPT !.status = "DELIVERED", !.next = "null"]
    BY <1>a DEF Deliveries, WebhookDeliveryStatus
  <2>2. copy' = [copy EXCEPT ![p] = entity] /\ acked' /\ UNCHANGED <<delivery, tries, unset>>
    BY <1>6, <1>a, <2>1 DEF Accepted, DeliveryOK
  <2>3. copy' \in [Passes -> Deliveries]
    BY <1>a, <2>2 DEF DeliveryOK
  <2>4. DeliveryOK'
    BY <1>a, <1>6, <2>3 DEF Accepted, Goes, DeliveryOK, ToSave
  <2>5. entity.count = copy[p].count /\ entity.status = "DELIVERED"
    BY <1>a, <2>1 DEF Deliveries
  <2>6. Earned(entity)'
    BY <1>a, <2>2, <2>5 DEF Earned
  <2>7. tries' >= tries
    BY <1>b, <2>2
  <2> QED
    BY <2>2, <2>4, <2>6, <2>7, CopyChanges
\* A failed attempt, or a save that failed inside the try.
<1>7. ASSUME NEW p \in Passes, NEW place \in ToSave, Fails(p, place),
             UNCHANGED <<delivery, acked, unset>>,
             copy' \in [Passes -> Deliveries] => DeliveryOK'
      PROVE  DeliveryInv'
  <2>1. PICK held \in Deliveries : held = copy[p]
    BY <1>a
  <2>2. tries' = tries + 1 /\ Earned(held)
    BY <1>a, <1>7, <2>1 DEF Fails
  <2>3. Counted(held) \in Deliveries /\ Earned(Counted(held))'
    BY <1>7, <1>b, <2>2, CountedIsEarned
  <2>4. copy' = [copy EXCEPT ![p] = Counted(held)]
    BY <1>7, <1>a, <2>1 DEF Fails, DeliveryOK
  <2>5. copy' \in [Passes -> Deliveries]
    BY <1>a, <2>3, <2>4 DEF DeliveryOK
  <2>6. tries' >= tries
    BY <1>b, <2>2
  <2> QED
    BY <1>7, <2>3, <2>4, <2>5, <2>6, CopyChanges
<1>8. ASSUME NEW p \in Passes, Refused(p) PROVE DeliveryInv'
  <2>1. copy' \in [Passes -> Deliveries] => DeliveryOK'
    BY <1>a, <1>8 DEF Refused, Fails, Goes, DeliveryOK, ToSave
  <2> QED
    BY <1>7, <1>8, <2>1 DEF Refused, ToSave
<1>9. ASSUME NEW p \in Passes, Unanswered(p) PROVE DeliveryInv'
  <2>1. copy' \in [Passes -> Deliveries] => DeliveryOK'
    BY <1>a, <1>9 DEF Unanswered, Fails, Goes, DeliveryOK, ToSave
  <2> QED
    BY <1>7, <1>9, <2>1 DEF Unanswered, ToSave
<1>10. ASSUME NEW p \in Passes, SelectRow(p) PROVE DeliveryInv'
  BY <1>10 DEF SelectRow, Differing, DeliveryInv, DeliveryOK, Earned
<1>11. ASSUME NEW p \in Passes, UpdateRow(p) PROVE DeliveryInv'
  <2>1. PICK held \in Deliveries : held = copy[p]
    BY <1>a
  <2>2. PICK columns \in SUBSET Columns : columns = differing[p]
    BY <1>a DEF DeliveryOK
  <2>3. Update(held, columns) /\ Earned(held) /\ Leaves(p) /\ UNCHANGED <<tries, acked, unset>>
    BY <1>a, <1>11, <2>1, <2>2 DEF UpdateRow
  <2>4. delivery' \in Deliveries /\ mixed' \in BOOLEAN /\ Earned(delivery)'
    BY <1>a, <2>3, UpdateIsEarned
  <2>5. DeliveryOK'
    BY <1>a, <1>11, <2>3, <2>4, LeavesTyped DEF UpdateRow, DeliveryOK
  <2>6. copy' = [copy EXCEPT ![p] = Queued]
    BY <2>3 DEF Leaves
  <2>7. \A q \in Passes : Earned(copy[q])'
    BY <1>a, <1>b, <1>c, <2>3, <2>6 DEF Earned, DeliveryOK
  <2> QED
    BY <2>4, <2>5, <2>7 DEF DeliveryInv
<1>12. ASSUME NEW p \in Passes, SaveFails(p) PROVE DeliveryInv'
  <2>1. failures' \in 0 .. MaxFailures
    BY <1>a, <1>12, BoundsAssumption DEF SaveFails, DeliveryOK
  <2>2. CASE at[p] = "inTry"
    <3>1. Fails(p, "inCatch") /\ saving' = [saving EXCEPT ![p] = FALSE] /\ differing' = [differing EXCEPT ![p] = {}]
      BY <1>12, <2>2 DEF SaveFails
    <3>2. copy' \in [Passes -> Deliveries] => DeliveryOK'
      BY <1>a, <1>12, <2>1, <3>1 DEF SaveFails, Fails, Goes, DeliveryOK, ToSave
    <3> QED
      BY <1>7, <1>12, <3>1, <3>2 DEF SaveFails, ToSave
  <2>3. CASE at[p] # "inTry"
    <3>1. Leaves(p) /\ UNCHANGED tries
      BY <1>12, <2>3 DEF SaveFails
    <3>2. DeliveryOK'
      BY <1>a, <1>12, <2>1, <3>1, LeavesTyped DEF SaveFails, DeliveryOK
    <3> QED
      BY <1>4, <1>12, <3>1, <3>2 DEF SaveFails
  <2> QED
    BY <2>2, <2>3
<1>13. CASE RequeueSelect
  <2>1. requeues' \in 0 .. MaxRequeues
    BY <1>a, <1>13, BoundsAssumption DEF RequeueSelect, DeliveryOK
  <2> QED
    BY <1>13, <2>1 DEF RequeueSelect, Differing, DeliveryInv, DeliveryOK, Earned
<1>14. CASE RequeueUpdate
  <2>1. PICK entity \in Deliveries : entity = Queued
    BY <1>c
  <2>2. Earned(entity)
    BY <1>b, <1>c, <2>1 DEF Earned
  <2>3. PICK columns \in SUBSET Columns : columns = requeueDirty
    BY <1>a DEF DeliveryOK
  <2>4. delivery' \in Deliveries /\ mixed' \in BOOLEAN /\ Earned(delivery)'
    BY <1>a, <1>14, <2>1, <2>2, <2>3, UpdateIsEarned DEF RequeueUpdate
  <2> QED
    BY <1>a, <1>14, <2>4 DEF RequeueUpdate, DeliveryInv, DeliveryOK, Earned
<1>15. CASE Elapse
  <2>1. delivery' \in Deliveries /\ delivery'.count = delivery.count /\ delivery'.status = delivery.status
    BY <1>b, <1>15 DEF Elapse, Deliveries
  <2> QED
    BY <1>15, <2>1 DEF Elapse, DeliveryInv, DeliveryOK, Earned
<1>16. CASE Restart
  <2>1. failures' \in 0 .. MaxFailures
    BY <1>a, <1>16, BoundsAssumption DEF Restart, DeliveryOK
  <2>2. DeliveryOK'
    BY <1>a, <1>c, <1>16, <2>1 DEF Restart, DeliveryOK
  <2> QED
    BY <1>b, <1>c, <1>16, <2>2 DEF Restart, DeliveryInv, Earned
<1>17. CASE Configure
  BY <1>17 DEF Configure, DeliveryInv, DeliveryOK, Earned
<1>18. CASE UNCHANGED deliveryVars
  BY <1>18 DEF deliveryVars, DeliveryInv, DeliveryOK, Earned
<1> QED
  BY <1>1, <1>2, <1>3, <1>5, <1>6, <1>8, <1>9, <1>10, <1>11, <1>12, <1>13, <1>14, <1>15, <1>16,
     <1>17, <1>18 DEF DeliveryNext

\* The inductive invariant of one delivery, for any number of passes.
THEOREM DeliveryInvariant == DeliverySpec => []DeliveryInv
BY DeliveryBegins, DeliveryGoesOn, PTL DEF DeliverySpec

\* A delivery is given up only when that was earned, however many passes overlap.
THEOREM NeverGivenUpEarly == DeliverySpec => []GivenUpIsEarned
<1>1. DeliveryInv => GivenUpIsEarned
  BY DEF DeliveryInv, Earned, GivenUpIsEarned
<1> QED
  BY <1>1, DeliveryInvariant, PTL
=============================================================================
