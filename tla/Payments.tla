------------------------------ MODULE Payments ------------------------------
(***************************************************************************)
(* Collecting a payment: the partner's request (initiate-payment), the     *)
(* gateway that takes the order and reports its result, and the callbacks  *)
(* that settle the transaction and queue the partner's webhook             *)
(* (process-gateway-result), several of them at a time.                    *)
(*                                                                         *)
(* A direct gateway (SunPay) opens the order during initiate; a hosted one *)
(* (MLT) when the payer, sent on by the partner, gets there.               *)
(***************************************************************************)
EXTENDS Naturals, Sequences, FiniteSets

CONSTANTS
  Calls,         \* calls of execute; the row a call inserts is named after it
  RequestIds,    \* the (gatewayKey, requestId) pairs partners use
  RequestIdOf,   \* RequestIdOf[c]: the one of call c
  Direct,        \* the calls that go to a direct gateway
  Results,       \* what the gateways report
  Callbacks,     \* callbacks handled at a time
  Faults,        \* what may go wrong: "audit", "other"
  NoCall,        \* what an idle callback is about
  MaxReports     \* bound: callbacks received

Final == {"PAID", "FAILED", "REJECTED", "CANCELLED", "ERROR", "REFUNDED", "PARTIALLY_REFUNDED"}

Statuses == Final \cup {"PENDING"}

ASSUME KeysAssumption == RequestIdOf \in [Calls -> RequestIds]
ASSUME ResultsAssumption == Results \subseteq Final
ASSUME NoCallAssumption == NoCall \notin Calls
ASSUME ReportsAssumption == MaxReports \in Nat
\* The key holds the gateway.
ASSUME DirectAssumption ==
  \A c, d \in Calls : RequestIdOf[c] = RequestIdOf[d] => (c \in Direct <=> d \in Direct)

VARIABLES
  row,       \* row[c]: status of the payment_transaction of call c, "none" before it
  trail,     \* trail[c]: its transaction_event rows
  queued,    \* queued[c]: statuses of the webhook_delivery rows written for it
  caller,    \* caller[c]: how far call c has got
  dirty,     \* dirty[c]: the row differed from the call's copy when save read it
  opened,    \* the calls whose order the gateway holds
  reported,  \* reported[c]: the results that callbacks whose signature verifies have named for it
  cb,        \* cb[k]: how far callback k has got
  about,     \* about[k]: the call k names
  told,      \* told[k]: the result k brings
  signed,    \* signed[k]: its signature verifies
  received   \* callbacks received so far

callVars == <<caller, dirty>>
gatewayVars == <<opened, reported>>
callbackVars == <<cb, about, told, signed>>
vars == <<row, trail, queued, callVars, gatewayVars, callbackVars, received>>

CallerStates == {"start", "drafted", "calling", "initiated", "saving", "saved", "done", "failed", "lost", "refused"}
CallbackStates == {"idle", "received", "found", "committed", "audited"}

Init ==
  /\ row = [c \in Calls |-> "none"]
  /\ trail = [c \in Calls |-> <<>>]
  /\ queued = [c \in Calls |-> <<>>]
  /\ caller = [c \in Calls |-> "start"]
  /\ dirty = [c \in Calls |-> FALSE]
  /\ opened = {}
  /\ reported = [c \in Calls |-> {}]
  /\ cb = [k \in Callbacks |-> "idle"]
  /\ about = [k \in Callbacks |-> NoCall]
  /\ told = [k \in Callbacks |-> "none"]
  /\ signed = [k \in Callbacks |-> FALSE]
  /\ received = 0

-----------------------------------------------------------------------------
\* Mutant: no unique index.
KeyFree(c) == FALSE

\* uq_txn_gateway_request.
KeyTaken(c) == \E d \in Calls : row[d] # "none" /\ RequestIdOf[d] = RequestIdOf[c]

\* The PENDING row, with no provider having been called.
WritePending(c) == row' = [row EXCEPT ![c] = "PENDING"]

\* The row is written before the gateway hears of the payment.
Draft(c) ==
  /\ caller[c] = "start" /\ ~KeyTaken(c)
  /\ WritePending(c)
  /\ caller' = [caller EXCEPT ![c] = "drafted"]
  /\ UNCHANGED <<trail, queued, dirty, gatewayVars, callbackVars, received>>

\* A duplicate requestId is answered with a conflict.
Refuse(c) ==
  /\ caller[c] = "start" /\ KeyTaken(c)
  /\ caller' = [caller EXCEPT ![c] = "refused"]
  /\ UNCHANGED <<row, trail, queued, dirty, gatewayVars, callbackVars, received>>

\* adapter.initiate: a hosted gateway's signs a form and calls nobody.
Initiate(c) ==
  /\ caller[c] = "drafted"
  /\ caller' = [caller EXCEPT ![c] = IF c \in Direct THEN "calling" ELSE "initiated"]
  /\ UNCHANGED <<row, trail, queued, dirty, gatewayVars, callbackVars, received>>

\* The direct gateway takes the order, perhaps after the call gave up on it.
OpenOrder(c) ==
  /\ c \in Direct \ opened /\ caller[c] \in {"calling", "lost"}
  /\ opened' = opened \cup {c}
  /\ UNCHANGED <<row, trail, queued, callVars, reported, callbackVars, received>>

Initiated(c) ==
  /\ caller[c] = "calling" /\ c \in opened
  /\ caller' = [caller EXCEPT ![c] = "initiated"]
  /\ UNCHANGED <<row, trail, queued, dirty, gatewayVars, callbackVars, received>>

\* save first reads the row it is to write, and compares it with the copy.
ReadForSave(c) ==
  /\ caller[c] = "initiated"
  /\ dirty' = [dirty EXCEPT ![c] = row[c] # "PENDING"]
  /\ caller' = [caller EXCEPT ![c] = "saving"]
  /\ UNCHANGED <<row, trail, queued, gatewayVars, callbackVars, received>>

\* It writes the columns that differed: the status too, if the row had moved on.
Save(c) ==
  /\ caller[c] = "saving"
  /\ row' = IF dirty[c] THEN [row EXCEPT ![c] = "PENDING"] ELSE row
  /\ caller' = [caller EXCEPT ![c] = "saved"]
  /\ UNCHANGED <<trail, queued, dirty, gatewayVars, callbackVars, received>>

\* The audit row and the answer to the partner.
Answer(c) ==
  /\ caller[c] = "saved"
  /\ caller' = [caller EXCEPT ![c] = "done"]
  /\ UNCHANGED <<row, trail, queued, dirty, gatewayVars, callbackVars, received>>

\* A timeout, an error or a restart ends the call wherever it has got to.
Abort(c) ==
  /\ caller[c] \in {"drafted", "calling", "initiated", "saving", "saved"} /\ "other" \in Faults
  /\ caller' = [caller EXCEPT ![c] = IF caller[c] = "calling" THEN "lost" ELSE "failed"]
  /\ UNCHANGED <<row, trail, queued, dirty, gatewayVars, callbackVars, received>>

\* The payer posts the form the partner was answered with.
PayerArrives(c) ==
  /\ c \notin Direct \cup opened /\ caller[c] = "done"
  /\ opened' = opened \cup {c}
  /\ UNCHANGED <<row, trail, queued, callVars, reported, callbackVars, received>>

-----------------------------------------------------------------------------
(***************************************************************************)
(* What a signature that verifies says of a callback. A direct gateway     *)
(* signs its whole body, about an order it holds. A hosted one signs the   *)
(* fields the callback names; the form the partner is answered with names  *)
(* the request's own and carries their hash, and a result is not one of    *)
(* them: from then on a callback of any result may verify.                 *)
(***************************************************************************)
MayVerify(c) == IF c \in Direct THEN c \in opened ELSE caller[c] = "done"

\* Any result, again and again, a later one perhaps another than the one before.
\* A callback that does not verify may come at any time.
Report(k, c, s) ==
  /\ cb[k] = "idle" /\ received < MaxReports
  /\ \/ /\ MayVerify(c)
        /\ signed' = [signed EXCEPT ![k] = TRUE]
        /\ reported' = [reported EXCEPT ![c] = @ \cup {s}]
     \/ /\ signed' = [signed EXCEPT ![k] = FALSE]
        /\ UNCHANGED reported
  /\ cb' = [cb EXCEPT ![k] = "received"]
  /\ about' = [about EXCEPT ![k] = c]
  /\ told' = [told EXCEPT ![k] = s]
  /\ received' = received + 1
  /\ UNCHANGED <<row, trail, queued, callVars, opened>>

\* Callback k ends: acknowledged, or answered with an error.
Ended(k) ==
  /\ cb' = [cb EXCEPT ![k] = "idle"]
  /\ about' = [about EXCEPT ![k] = NoCall]
  /\ told' = [told EXCEPT ![k] = "none"]
  /\ signed' = [signed EXCEPT ![k] = FALSE]

Step(k, from, to) ==
  /\ cb[k] = from
  /\ cb' = [cb EXCEPT ![k] = to]
  /\ UNCHANGED <<about, told, signed>>

\* The row is looked up by its key, the result verified, the callback logged.
LookUp(k) ==
  /\ Step(k, "received", "found")
  /\ row[about[k]] # "none"
  /\ UNCHANGED <<row, trail, queued, callVars, gatewayVars, received>>

\* A callback about no row of ours is logged and acknowledged.
Unknown(k) ==
  /\ cb[k] = "received" /\ row[about[k]] = "none"
  /\ Ended(k)
  /\ UNCHANGED <<row, trail, queued, callVars, gatewayVars, received>>

\* Only a callback whose signature verifies gets to the ledger.
Trusted(k) == signed[k]

Distrust(k) ==
  /\ cb[k] = "found" /\ ~Trusted(k)
  /\ Ended(k)
  /\ UNCHANGED <<row, trail, queued, callVars, gatewayVars, received>>

\* Mutant: only PAID counts as settled.
SettledIfPaid(c) == row[c] = "PAID"

\* The status of the locked row is final.
Settled(c) == row[c] \in Final

\* The ledger's transaction, under the row's lock: status, columns and event.
Settle(k) ==
  LET c == about[k] IN
    /\ Step(k, "found", "committed")
    /\ Trusted(k) /\ ~Settled(c)
    /\ row' = [row EXCEPT ![c] = told[k]]
    /\ trail' = [trail EXCEPT ![c] = Append(@, <<row[c], told[k]>>)]
    /\ UNCHANGED <<queued, callVars, gatewayVars, received>>

\* Mutant: the event of an ignored callback records what it told.
ToldEvent(k) == <<row[about[k]], told[k]>>

\* The event that says a callback was ignored.
IgnoredEvent(k) == <<row[about[k]], row[about[k]]>>

\* A settled row keeps its status.
Ignore(k) ==
  LET c == about[k] IN
    /\ cb[k] = "found" /\ Trusted(k) /\ Settled(c)
    /\ trail' = [trail EXCEPT ![c] = Append(@, IgnoredEvent(k))]
    /\ Ended(k)
    /\ UNCHANGED <<row, queued, callVars, gatewayVars, received>>

\* The audit row, after the commit; its failure is the callback's.
Audit(k) ==
  /\ cb[k] = "committed"
  /\ \/ Step(k, "committed", "audited")
     \/ "audit" \in Faults /\ Ended(k)
  /\ UNCHANGED <<row, trail, queued, callVars, gatewayVars, received>>

\* Mutant: the webhook carries the status the row has by now.
StatusNow(k) == row[about[k]]

\* The status the webhook announces.
StatusTold(k) == told[k]

Enqueue(k) ==
  /\ cb[k] = "audited"
  /\ queued' = [queued EXCEPT ![about[k]] = Append(@, StatusTold(k))]
  /\ Ended(k)
  /\ UNCHANGED <<row, trail, callVars, gatewayVars, received>>

\* A failing query or a restart ends the callback wherever it has got to.
Fail(k) ==
  /\ cb[k] # "idle" /\ "other" \in Faults
  /\ Ended(k)
  /\ UNCHANGED <<row, trail, queued, callVars, gatewayVars, received>>

-----------------------------------------------------------------------------
Request(c) ==
  \/ Draft(c) \/ Refuse(c) \/ Initiate(c) \/ OpenOrder(c) \/ Initiated(c)
  \/ ReadForSave(c) \/ Save(c) \/ Answer(c) \/ Abort(c) \/ PayerArrives(c)

Handle(k) ==
  \/ LookUp(k) \/ Unknown(k) \/ Distrust(k) \/ Settle(k) \/ Ignore(k)
  \/ Audit(k) \/ Enqueue(k) \/ Fail(k)

Next ==
  \/ \E c \in Calls : Request(c)
  \/ \E k \in Callbacks, c \in Calls, s \in Results : Report(k, c, s)
  \/ \E k \in Callbacks : Handle(k)

Spec == Init /\ [][Next]_vars

-----------------------------------------------------------------------------
Moves == Statuses \X Statuses

TypeOK ==
  /\ row \in [Calls -> Statuses \cup {"none"}]
  /\ trail \in [Calls -> Seq(Moves)] /\ queued \in [Calls -> Seq(Final)]
  /\ caller \in [Calls -> CallerStates] /\ dirty \in [Calls -> BOOLEAN]
  /\ opened \subseteq Calls /\ reported \in [Calls -> SUBSET Results]
  /\ cb \in [Callbacks -> CallbackStates] /\ about \in [Callbacks -> Calls \cup {NoCall}]
  /\ told \in [Callbacks -> Results \cup {"none"}] /\ signed \in [Callbacks -> BOOLEAN]
  /\ received \in 0..MaxReports

\* No result of a gateway ever names a transaction the ledger does not have:
\* what Unknown acknowledges, and forgets, was never an order of ours.
OrdersAreKnown ==
  \A k \in Callbacks : cb[k] = "received" /\ signed[k] => row[about[k]] # "none"

\* A transaction is settled as a callback that verifies told it, never on the
\* word of another: at a direct gateway as what the gateway signed, of an order
\* it holds; at a hosted one not before the partner has the form.
BackedByReport ==
  \A c \in Calls : row[c] \in Final => row[c] \in reported[c] /\ MayVerify(c)

\* However many requests carry a requestId, a gateway gets one order for it.
OneOrderPerKey ==
  \A c, d \in opened : RequestIdOf[c] = RequestIdOf[d] => c = d

\* The events of a transaction account for its status: each begins where the
\* one before ended, the last ends where it is. A direct gateway may report
\* before the request has saved its answer, and is left out.
TrailExplains ==
  \A c \in Calls \ Direct : row[c] # "none" =>
    LET n == Len(trail[c]) IN
      /\ row[c] = IF n = 0 THEN "PENDING" ELSE trail[c][n][2]
      /\ \A i \in 1..n : trail[c][i][1] = IF i = 1 THEN "PENDING" ELSE trail[c][i - 1][2]

\* A partner is never told a status no event recorded, whatever happened to
\* the row between the commit and the webhook.
AnnouncedWasRecorded ==
  \A c \in Calls : \A i \in 1..Len(queued[c]) :
    \E j \in 1..Len(trail[c]) : trail[c][j] = <<"PENDING", queued[c][i]>>

-----------------------------------------------------------------------------
\* Where a call has got to tells whether its row exists and its order may.
RequestInv ==
  /\ \A c \in Calls :
       /\ row[c] = "none" <=> caller[c] \in {"start", "refused"}
       /\ c \in opened => caller[c] \notin {"start", "refused", "drafted"}
       /\ c \in opened \ Direct => caller[c] = "done"
       /\ c \notin Direct => ~dirty[c]
       /\ reported[c] # {} => MayVerify(c)
  /\ \A c, d \in Calls :
       row[c] # "none" /\ row[d] # "none" /\ RequestIdOf[c] = RequestIdOf[d] => c = d

\* What a callback brings was signed, and is in the events once it is committed.
CallbackInv ==
  \A k \in Callbacks :
    /\ about[k] = NoCall <=> cb[k] = "idle"
    /\ cb[k] # "idle" => told[k] \in Results
    /\ cb[k] # "idle" /\ signed[k] => told[k] \in reported[about[k]]
    /\ cb[k] \in {"found", "committed", "audited"} => row[about[k]] # "none"
    /\ cb[k] \in {"committed", "audited"} =>
         \E j \in 1..Len(trail[about[k]]) : trail[about[k]][j] = <<"PENDING", told[k]>>

\* Callback k has settled the row and not announced it yet.
Announcing(k) == cb[k] \in {"committed", "audited"}

\* At a hosted gateway one callback settles a row, and that one announces it.
HostedInv ==
  /\ \A c \in Calls \ Direct : row[c] \notin Final => queued[c] = <<>>
  /\ \A k \in Callbacks : Announcing(k) /\ about[k] \notin Direct =>
       row[about[k]] = told[k] /\ queued[about[k]] = <<>>
  /\ \A k, l \in Callbacks : Announcing(k) /\ Announcing(l) /\ about[k] = about[l]
       /\ about[k] \notin Direct => k = l

\* A transaction that does not exist has no events.
UnwrittenInv == \A c \in Calls : row[c] = "none" => trail[c] = <<>>

\* The inductive invariant of the proofs.
IInv ==
  /\ TypeOK /\ RequestInv /\ CallbackInv /\ HostedInv /\ UnwrittenInv
  /\ BackedByReport /\ TrailExplains /\ AnnouncedWasRecorded

\* The transactions of hosted gateways, as their partners see them.
Ledger == INSTANCE PaymentLedger WITH
  Payments <- Calls \ Direct,
  status <- [c \in Calls \ Direct |-> row[c]],
  announced <- [c \in Calls \ Direct |-> queued[c]]

\* Concurrent callbacks keep the promise of PaymentLedger at hosted gateways.
LedgerSpec == Ledger!Spec

=============================================================================
