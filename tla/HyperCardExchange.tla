------------------------- MODULE HyperCardExchange -------------------------
(***************************************************************************)
(* One request to HyperCard under a reference of ours, and the questions   *)
(* about what became of it (hypercard.adapter and the mappers of its       *)
(* statuses and its pushes), asked by a pass or on a push of the issuer's  *)
(* (card-provider-callback.dispatcher, apply-issuer-card-status). The      *)
(* issuer keeps a record of what it took; its answers are fields that may  *)
(* be unreadable, and may describe a request that is not the one they were *)
(* asked about.                                                            *)
(***************************************************************************)
EXTENDS HyperCardValues, FiniteSets

CONSTANTS
  UnknownCode,   \* a code that is in none of the appendices
  Figures        \* amounts, of the card's currency and of the coin

Kinds == {"application", "deposit", "operation"}

VARIABLES
  kind,      \* what is requested
  request,   \* what we know of the request: "unsent", "submitted", "declined" or "unanswered"
  record,    \* what the issuer holds under our reference, or NotHeld
  answered,  \* the record when the issuer last answered about it, or Elsewhere
  outcome,   \* what was made of that answer
  pushed     \* the code in the push about the card's status, or Absent

exchangeVars == <<kind, request, record, answered, outcome, pushed>>

NotHeld == [code |-> Absent, card |-> FALSE, fiat |-> null, coin |-> null]
NoOutcome == [state |-> "none"]
\* The last answer was about another request, and nothing in it said so.
Elsewhere == [NotHeld EXCEPT !.code = Garbled]

-----------------------------------------------------------------------------
(* The issuer's appendices, and the readings of them. *)

\* Of a card application: the card's status, and the activation's.
Reading(card, activation) == [card |-> card, activation |-> activation]
READING_BY_CODE ==
  [c \in 0 .. 15 \cup {18} \cup 21 .. 24 \cup {30} |->
     CASE c \in {0, 1, 2, 3, 6, 24, 30}    -> Reading("NOT_ACTIVATED", "null")
       [] c \in {4, 5, 14, 15, 21, 22, 23} -> Reading("CLOSED", "null")
       [] c \in {7, 11}                    -> Reading("NOT_ACTIVATED", "PENDING")
       [] c \in {8, 12}                    -> Reading("NOT_ACTIVATED", "FAILED")
       [] c \in {9, 13}                    -> Reading("ACTIVE", "null")
       [] c \in {10, 18}                   -> Reading("ON_HOLD", "null")]
readingOf(raw) ==
  IF normaliseHyperCardInteger(raw) \in DOMAIN READING_BY_CODE THEN READING_BY_CODE[raw] ELSE Reading("null", "null")
readHyperCardCardStatus(raw) == readingOf(raw).card
mapHyperCardActivationStatus(raw) == readingOf(raw).activation
\* An unreadable code withholds the card.
mapHyperCardCardStatus(raw) ==
  IF readHyperCardCardStatus(raw) = "null" THEN "NOT_ACTIVATED" ELSE readHyperCardCardStatus(raw)

RECHARGE_STATE_BY_CODE == [c \in 0 .. 4 |-> <<"PENDING", "SETTLED", "FAILED", "REFUND_PENDING", "REFUNDED">>[c + 1]]
mapHyperCardRechargeStatus(raw) ==
  IF normaliseHyperCardInteger(raw) \in DOMAIN RECHARGE_STATE_BY_CODE THEN RECHARGE_STATE_BY_CODE[raw] ELSE "PENDING"

OPERATION_STATE_BY_CODE ==
  [c \in {0, 1, 2, 98, 99} |-> IF c = 1 THEN "APPLIED" ELSE IF c = 2 THEN "FAILED" ELSE "PENDING"]
mapHyperCardOperationStatus(raw) ==
  IF normaliseHyperCardInteger(raw) \in DOMAIN OPERATION_STATE_BY_CODE THEN OPERATION_STATE_BY_CODE[raw] ELSE "PENDING"

Codes ==
  [application |-> DOMAIN READING_BY_CODE, deposit |-> DOMAIN RECHARGE_STATE_BY_CODE,
   operation |-> DOMAIN OPERATION_STATE_BY_CODE]

\* The unknown code is a number that is in none of them.
ASSUME ExchangeAssumption ==
  /\ UnknownCode \in Nat /\ \A k \in Kinds : UnknownCode \notin Codes[k]
  /\ Figures \subseteq Nat

-----------------------------------------------------------------------------
(* The request. The envelope's code decides. *)

HYPERCARD_PARAMETER_ERROR_CODE == "A0003"
HYPERCARD_CLIENT_ERROR_CODE == "A0000"
CONFLICT_CODES ==
  {"A0005", "A0006", "A0008", "A0009", "A0010", "A0011", "A0014", "A0016", "A0017", "A0018", "A1002", "A1005"}

Amounts == IF kind = "deposit" THEN Figures ELSE {null}

ExchangeInit ==
  /\ kind \in Kinds /\ request = "unsent"
  /\ record = NotHeld /\ answered = NotHeld /\ outcome = NoOutcome /\ pushed = Absent

\* The issuer takes the request, a deposit for amounts of its own; its acknowledgement arrives, or does not.
Taken ==
  /\ request' \in {"submitted", "unanswered"}
  /\ \E fiat \in Amounts, coin \in Amounts :
       record' = [code |-> 0, card |-> FALSE, fiat |-> fiat, coin |-> coin]

\* It declines, or the request does not arrive. Only what is a refusal on that
\* endpoint may be recorded as one; every other error says nothing of what the
\* issuer did.
NotTaken(refusals) ==
  /\ \E code \in {HYPERCARD_PARAMETER_ERROR_CODE, HYPERCARD_CLIENT_ERROR_CODE, "A0006", "TRANSPORT"} :
       request' = IF code \in refusals THEN "declined" ELSE "unanswered"
  /\ UNCHANGED record

Requests(k, refusals) ==
  /\ kind = k /\ request = "unsent"
  /\ Taken \/ NotTaken(refusals)
  /\ UNCHANGED <<kind, answered, outcome, pushed>>

issueCard == Requests("application", CONFLICT_CODES)
requestCardDeposit == Requests("deposit", CONFLICT_CODES)
\* On this endpoint the generic client error always means that they declined.
updateCardStatus == Requests("operation", CONFLICT_CODES \cup {HYPERCARD_CLIENT_ERROR_CODE})

\* The issuer goes on with it. A closed application, a credited or refunded
\* deposit and an operation's outcome stay as they are, a failed deposit may
\* still be refunded; a card once opened has its number for good.
Final(r) ==
  CASE kind = "application" -> READING_BY_CODE[r.code].card = "CLOSED"
    [] kind = "deposit"     -> r.code \in {1, 4}
    [] kind = "operation"   -> r.code \in {1, 2}
Proceeds ==
  /\ record # NotHeld /\ ~Final(record)
  /\ \E code \in Codes[kind], card \in BOOLEAN :
       /\ kind = "deposit" /\ record.code >= 2 => code > record.code
       /\ card => kind = "application"
       /\ record' = [record EXCEPT !.code = code, !.card = record.card \/ card]
  /\ UNCHANGED <<kind, request, answered, outcome, pushed>>

-----------------------------------------------------------------------------
(* The questions. *)

\* What an answer may be: the record it describes with fields of it unreadable,
\* and how it names that record. An application's answer is compared with nothing.
Another == [code |-> 1, card |-> TRUE, fiat |-> 0, coin |-> 0]
Answers ==
  {[about |-> a, echo |-> e, code |-> c, card |-> i, fiat |-> f] :
     a \in {"ours", "another"}, e \in {"text", "number", "absent"},
     c \in {"itself", "unknown", "garbled"}, i \in {"itself", "garbled"}, f \in {"itself", "garbled"}}
AnswersAbout ==
  {a \in Answers : /\ kind = "application" => a.echo = "absent"
                   /\ a.card = "garbled" => kind = "application"
                   /\ a.fiat = "garbled" => kind = "deposit"}
Described(a) == IF a.about = "ours" THEN record ELSE Another
codeOf(a) == CASE a.code = "itself" -> Described(a).code [] a.code = "unknown" -> UnknownCode [] OTHER -> Garbled
card_id(a) == Described(a).card /\ a.card = "itself"
currency_amount(a) == IF a.fiat = "itself" THEN Described(a).fiat ELSE Garbled

\* An identifier that came as a number is ignored, not compared.
\* Mutant: the answer is taken to be about what was asked.
echoIgnored(a) == TRUE
assertEcho(a) == a.echo = "text" => a.about = "ours"

\* So an answer about another request passes for one about ours, if it does not
\* name its own in text.
PassesForOurs(a) == a.about = "another" /\ a.echo # "text"
Basis(a) == IF PassesForOurs(a) THEN Elsewhere ELSE record

getCardApplicationResult(a) ==
  LET status == mapHyperCardCardStatus(codeOf(a))
  IN  IF card_id(a)
      THEN [state |-> "ISSUED", status |-> status, statusRecognised |-> readHyperCardCardStatus(codeOf(a)) # "null",
            activation |-> mapHyperCardActivationStatus(codeOf(a))]
      ELSE IF status = "CLOSED" THEN [state |-> "REJECTED"]
      ELSE [state |-> "PENDING"]

getCardDepositResult(a) ==
  LET state == mapHyperCardRechargeStatus(codeOf(a))
      creditedAmount == normaliseHyperCardAmount(currency_amount(a))
  IN  IF state # "SETTLED" THEN [state |-> state]
      ELSE IF creditedAmount = null THEN [state |-> "PENDING"]
      ELSE [state |-> "SETTLED", creditedAmount |-> creditedAmount]

getCardOperationResult(a) == [state |-> mapHyperCardOperationStatus(codeOf(a))]

\* What each question may be answered, in the words of the port.
CardApplicationOutcomes ==
  [state : {"PENDING", "REJECTED", "UNKNOWN_REFERENCE"}]
  \cup [state : {"ISSUED"}, status : {"NOT_ACTIVATED", "ACTIVE", "ON_HOLD", "CLOSED"}, statusRecognised : BOOLEAN,
         activation : {"PENDING", "FAILED", "null"}]
CardDepositOutcomes ==
  [state : {"PENDING", "FAILED", "REFUND_PENDING", "REFUNDED", "UNKNOWN_REFERENCE"}]
  \cup [state : {"SETTLED"}, creditedAmount : Nat]
CardOperationOutcomes == [state : {"PENDING", "APPLIED", "FAILED", "UNKNOWN_REFERENCE"}]

Settled(o) == o.state \in {"ISSUED", "REJECTED", "SETTLED", "REFUNDED", "APPLIED"}
              \/ (kind = "operation" /\ o.state = "FAILED")

Asks(k, basis) ==
  /\ kind = k /\ request \in {"submitted", "unanswered"} /\ ~Settled(outcome)
  /\ answered' = basis
  /\ UNCHANGED <<kind, request, record, pushed>>

AskApplication(a) ==
  /\ Asks("application", Basis(a)) /\ Described(a) # NotHeld
  /\ outcome' = getCardApplicationResult(a)
AskDeposit(a) ==
  /\ Asks("deposit", Basis(a)) /\ Described(a) # NotHeld /\ assertEcho(a)
  /\ outcome' = getCardDepositResult(a)
AskOperation(a) ==
  /\ Asks("operation", Basis(a)) /\ Described(a) # NotHeld /\ assertEcho(a)
  /\ outcome' = getCardOperationResult(a)

\* The issuer does not hold the reference: an error code of its own for an
\* application, an answer without a payload for a deposit, and for an operation
\* a code that may as well mean something else.
fetchApplicationResult ==
  Asks("application", record) /\ record = NotHeld /\ outcome' = [state |-> "UNKNOWN_REFERENCE"]
fetchRechargeResult ==
  Asks("deposit", record) /\ record = NotHeld /\ outcome' = [state |-> "UNKNOWN_REFERENCE"]
fetchOperationResult ==
  Asks("operation", record) /\ record = NotHeld /\ outcome' = [state |-> "PENDING"]

-----------------------------------------------------------------------------
(* The issuer's pushes. One names a reference or a card: ours, another         *)
(* environment's, or unreadably.                                               *)

HyperCardNotifyType ==
  {"OPEN_CARD", "RECHARGE", "OPERATION", "CARD_STATUS_CHANGE", "CARD_CONFIG_CHANGE", "CONSUME"}
Named == {"ours", "another", "unreadable"}
HyperCardPushEvents == [notify_type : HyperCardNotifyType \cup {"null"}, names : Named, new_status : {pushed, UnknownCode, Garbled}]

\* No event carries an outcome, but the status of a card, read strictly.
unhandled == [kind |-> "UNHANDLED"]
mapHyperCardCallbackEvent(body) ==
  LET about(k) == IF body.names = "unreadable" THEN unhandled ELSE [kind |-> k, reference |-> body.names]
      status   == readHyperCardCardStatus(body.new_status)
  IN  CASE body.notify_type = "OPEN_CARD" -> about("APPLICATION")
        [] body.notify_type = "RECHARGE"  -> about("DEPOSIT")
        [] body.notify_type = "OPERATION" -> about("OPERATION")
        [] body.notify_type = "CARD_STATUS_CHANGE" ->
             IF body.names = "unreadable" \/ status = "null" THEN unhandled
             ELSE [kind |-> "CARD_STATUS", reference |-> body.names, status |-> status]
        [] body.notify_type = "CARD_CONFIG_CHANGE" -> [kind |-> "PRODUCT_CATALOGUE"]
        [] OTHER -> unhandled

\* The issuer tells of the card's status, once; the push may be long on its way.
Push ==
  /\ pushed = Absent /\ record.card /\ pushed' = record.code
  /\ UNCHANGED <<kind, request, record, answered, outcome>>

\* What a card is moved to on such a push: what the issuer answers when it is
\* asked, and the push only when there is no answer that can be read.
readStatus(announced, a) ==
  LET answer == getCardApplicationResult(a)
  IN  IF answer.state = "ISSUED" /\ answer.statusRecognised THEN answer.status ELSE announced
ApplyIssuerCardStatus(announced, a) ==
  /\ kind = "application" /\ request \in {"submitted", "unanswered"} /\ answered' = Basis(a)
  /\ \E status \in {readStatus(announced, a), announced} : outcome' = [state |-> "MOVED", status |-> status]
  /\ UNCHANGED <<kind, request, record, pushed>>

\* A push that names none of our rows is acknowledged, and nothing is asked.
dispatch(event, a) ==
  /\ event.kind \notin {"PRODUCT_CATALOGUE", "UNHANDLED"} /\ event.reference = "ours"
  /\ CASE event.kind = "APPLICATION" -> AskApplication(a)
       [] event.kind = "DEPOSIT"     -> AskDeposit(a)
       [] event.kind = "OPERATION"   -> AskOperation(a)
       [] event.kind = "CARD_STATUS" -> ApplyIssuerCardStatus(event.status, a)

ExchangeNext ==
  \/ issueCard \/ requestCardDeposit \/ updateCardStatus \/ Proceeds \/ Push
  \/ \E a \in AnswersAbout : AskApplication(a) \/ AskDeposit(a) \/ AskOperation(a)
  \/ fetchApplicationResult \/ fetchRechargeResult \/ fetchOperationResult
  \/ \E event \in {mapHyperCardCallbackEvent(body) : body \in HyperCardPushEvents}, a \in AnswersAbout : dispatch(event, a)

-----------------------------------------------------------------------------
\* What an answer about our request may be told as.
IsSaid ==
  LET means(states, codes) == outcome.state \in states => answered # NotHeld /\ answered.code \in codes
  IN  /\ outcome.state = "SETTLED" => outcome.creditedAmount = answered.fiat
      /\ outcome.state = "ISSUED" =>
           /\ answered.card
           /\ outcome.status = "ACTIVE" => answered.code \in {9, 13}
           /\ outcome.status = "CLOSED" => Final(answered)
           /\ outcome.activation = "FAILED" => answered.code \in {8, 12}
      /\ outcome.state = "MOVED" =>
           \E code \in {answered.code, pushed} : code # Absent /\ outcome.status = READING_BY_CODE[code].card
      /\ means({"REJECTED"}, {4, 5, 14, 15, 21, 22, 23})
      /\ means({"SETTLED"}, {1}) /\ means({"REFUND_PENDING"}, {3}) /\ means({"REFUNDED"}, {4})
      /\ means({"APPLIED"}, {1}) /\ means({"FAILED"}, {2})

\* What is told of a request is what the issuer's own record of it says: a
\* refusal only of what the issuer does not hold; an outcome only at a code
\* that means it, never of another's request that names itself; the money that
\* landed only as the amount in the card's currency; what cannot be read never
\* as an outcome; and a card is moved only to a status that the issuer gave it.
OutcomeIsReported ==
  /\ outcome.state \notin {"none", "MOVED"} =>
       outcome \in (CASE kind = "application" -> CardApplicationOutcomes
                      [] kind = "deposit"     -> CardDepositOutcomes
                      [] kind = "operation"   -> CardOperationOutcomes)
  /\ request = "declined" => record = NotHeld
  /\ outcome.state = "UNKNOWN_REFERENCE" => answered = NotHeld /\ kind # "operation"
  /\ answered # Elsewhere => IsSaid
=============================================================================
