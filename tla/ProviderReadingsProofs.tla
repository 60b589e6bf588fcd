----------------------- MODULE ProviderReadingsProofs -----------------------
(***************************************************************************)
(* That what is told as paid at SunPay has arrived, for every price        *)
(* and every spacing of the numbers; that the balance shown is the latest  *)
(* answer's, for every number of passes and of changes; that a quote       *)
(* covers what is owed and is accepted, for every product and price; that  *)
(* what is told of a request is what the issuer made of it; and that the   *)
(* pages of a statement leave nothing out, whatever is booked meanwhile.   *)
(***************************************************************************)
EXTENDS ProviderReadings, TLAPS, FiniteSetTheorems

\* The types of what is ordered, sent and received.
PaymentOK ==
  /\ gateway \in {"SUNPAY", "MLT"} /\ price \in Nat /\ received \in Nat
  /\ order \in Nat \cup {NoAmount}

\* What an order is for, and that what was paid was covered.
PaymentInv ==
  /\ PaymentOK
  /\ order # NoAmount => order = price
  /\ gateway = "SUNPAY" /\ order # NoAmount => jsonNumber(price) = price
  /\ PaidIsCovered

\* Whatever is rounded is rounded to an integer.
LEMMA NumberIsInteger ==
  ASSUME NEW a \in Nat
  PROVE  jsonNumber(a) \in Int
BY AmountsAssumption DEF jsonNumber

\* A larger amount is not taken for a smaller number.
LEMMA NumberIsMonotone ==
  ASSUME NEW a \in Nat, NEW b \in Nat, a <= b
  PROVE  jsonNumber(a) <= jsonNumber(b)
BY AmountsAssumption, Z3 DEF jsonNumber

\* What SunPay is asked for is the amount itself, as a number.
LEMMA AmountIsExact ==
  ASSUME NEW a \in Nat, toSunPayAmount(a) # NoAmount
  PROVE  toSunPayAmount(a) = a /\ jsonNumber(a) = a
BY NumberIsInteger DEF toSunPayAmount, toScaledBigInt, isSunPayAmountSufficient, NoAmount

\* Where both figures are given, a success that is paid is of enough.
LEMMA PaidIsEnough ==
  ASSUME NEW c, PaymentInv, order # NoAmount, gateway = "SUNPAY",
         c.states = StatedFigures, verifySunPayResult(c) = "PAID"
  PROVE  jsonNumber(received) >= price
<1>1. mapSunPayWebhookStatus(c.word) = "PAID" /\ ~Underpaid(c)
  BY DEF verifySunPayResult
<1>2. isSunPayAmountSufficient(toScaledBigInt(jsonNumber(order)), toScaledBigInt(jsonNumber(received)))
  BY <1>1 DEF Underpaid
<1>3. toScaledBigInt(jsonNumber(order)) = price /\ toScaledBigInt(jsonNumber(received)) = jsonNumber(received)
  BY <1>2 DEF isSunPayAmountSufficient, toScaledBigInt, PaymentInv
<1> QED
  BY <1>2, <1>3 DEF isSunPayAmountSufficient

\* Nothing is ordered.
LEMMA PaymentBegins == GatewayInit => PaymentInv
<1> SUFFICES ASSUME GatewayInit
             PROVE  PaymentInv
  OBVIOUS
<1>1. paid = "PENDING" /\ order = NoAmount
  BY DEF GatewayInit
<1>2. PaymentOK
  BY AmountsAssumption DEF GatewayInit, PaymentOK, NoAmount
<1> QED
  BY <1>1, <1>2 DEF PaymentInv, PaidIsCovered

\* An order, a payment, and a callback at either gateway.
LEMMA PaymentGoesOn == PaymentInv /\ GatewayNext => PaymentInv'
<1> SUFFICES ASSUME PaymentInv, GatewayNext
             PROVE  PaymentInv'
  OBVIOUS
<1> USE DEF PaymentInv, PaymentOK
<1>1. CASE initiateSunPay
  BY <1>1, AmountIsExact DEF initiateSunPay, PaidIsCovered, NoAmount, jsonNumber
<1>2. CASE initiateMlt
  BY <1>2 DEF initiateMlt, PaidIsCovered, NoAmount
<1>3. CASE Pay
  <2>1. received' \in Nat /\ received' >= received
    BY <1>3, AmountsAssumption DEF Pay
  <2>2. UNCHANGED <<gateway, price, order, paid, basis>>
    BY <1>3 DEF Pay
  <2>3. jsonNumber(received') >= jsonNumber(received)
    BY <2>1, NumberIsMonotone, NumberIsInteger
  <2>4. PaidIsCovered'
    BY <2>1, <2>2, <2>3, NumberIsInteger DEF PaidIsCovered, jsonNumber
  <2> QED
    BY <2>1, <2>2, <2>4 DEF jsonNumber
<1>4. ASSUME NEW c \in GatewayCallbacks, c.signatureValid => Signs(c), applyResultToLedger(c)
      PROVE  PaymentInv'
  <2>1. /\ order # NoAmount /\ paid' = verifyResult(c) /\ basis' = c
        /\ UNCHANGED <<gateway, price, order, received>>
    BY <1>4 DEF applyResultToLedger, Signs
  <2>2. CASE gateway = "MLT"
    BY <2>1, <2>2 DEF PaidIsCovered, verifyResult, verifyMltResult, mapMltCardStatus, NoAmount, jsonNumber
  <2>3. CASE gateway = "SUNPAY"
    <3>1. paid' = "PAID" => jsonNumber(received) >= price \/ c.states # StatedFigures
      BY <2>1, <2>3, PaidIsEnough DEF verifyResult
    <3>2. PaidIsCovered'
      BY <2>1, <2>3, <3>1 DEF PaidIsCovered, jsonNumber
    <3> QED
      BY <2>1, <3>2 DEF jsonNumber
  <2> QED
    BY <2>2, <2>3
<1> QED
  BY <1>1, <1>2, <1>3, <1>4 DEF GatewayNext

\* What is told as paid at SunPay has arrived, whatever is ordered, sent and
\* reported; at MLT it is paid by the word of the callback alone.
THEOREM Covered == Spec => []PaidIsCovered
<1>1. Init => PaymentInv
  BY PaymentBegins DEF Init
<1>2. PaymentInv /\ [Next]_vars => PaymentInv'
  <2> SUFFICES ASSUME PaymentInv, [Next]_vars
               PROVE  PaymentInv'
    OBVIOUS
  <2>1. CASE Collecting
    BY <2>1, PaymentGoesOn DEF Collecting
  <2>2. CASE UNCHANGED gatewayVars
    BY <2>2 DEF gatewayVars, PaymentInv, PaymentOK, PaidIsCovered, jsonNumber
  <2> QED
    BY <2>1, <2>2 DEF Next, Quoting, ReadingStatement, ReadingBalance, Requesting, vars
<1>3. PaymentInv => PaidIsCovered
  BY DEF PaymentInv
<1> QED
  BY <1>1, <1>2, <1>3, PTL DEF Spec

-----------------------------------------------------------------------------
\* The figures of an answer, or of none.
SomeFigures == Balances \cup {<<null, null>>}
Observations == [figures : SomeFigures, observedAt : Nat]

\* The answer o was the card's balance when it was asked for, or later.
WasHeld(o) == \E t \in o.observedAt .. Len(bank) : bank[t] = o.figures

BalanceOK ==
  /\ bank \in Seq(Balances) /\ Len(bank) >= 1
  /\ balance \in Observations /\ latest \in Observations
  /\ inFlight \in BOOLEAN
  /\ pass \in [BalancePasses -> {"idle", "loaded", "asking", "answered"}]
  /\ loaded \in [BalancePasses -> Observations] /\ reading \in [BalancePasses -> Observations]

\* What a pass loaded is what is stored; what it was told is not older than
\* what was dealt with.
PassInv(p) ==
  /\ pass[p] # "idle" => inFlight /\ loaded[p] = balance
  /\ pass[p] \in {"asking", "answered"} =>
       reading[p].observedAt >= latest.observedAt /\ reading[p].observedAt \in 1 .. Len(bank)
  /\ pass[p] = "answered" => WasHeld(reading[p])

\* One pass at a time.
OnePass == \A p, q \in BalancePasses : pass[p] # "idle" /\ pass[q] # "idle" => p = q

\* What is stored is of the latest answer, and that was true when it was asked for, or later.
BalanceInv ==
  /\ BalanceOK /\ OnePass
  /\ \A p \in BalancePasses : PassInv(p)
  /\ balance # NoBalance => balance.observedAt >= 1
  /\ latest.observedAt <= Len(bank)
  /\ BalanceIsLatest

\* What the card held it has held, whatever is paid since.
LEMMA HeldStaysHeld ==
  ASSUME NEW o \in Observations, o.observedAt >= 1,
         bank \in Seq(Balances), NEW b \in Balances, bank' = Append(bank, b), WasHeld(o)
  PROVE  \E t \in o.observedAt .. Len(bank') : bank'[t] = o.figures
<1>1. PICK t \in o.observedAt .. Len(bank) : bank[t] = o.figures
  BY DEF WasHeld
<1>2. t \in o.observedAt .. Len(bank') /\ bank'[t] = o.figures
  BY <1>1 DEF Observations
<1> QED
  BY <1>2

\* The mark of no balance is of the type of one.
LEMMA NothingIsAnObservation == NoBalance \in Observations
BY DEF NoBalance, Observations, SomeFigures

\* A card of which nothing is stored yet.
LEMMA BalanceBegins == BalanceInit => BalanceInv
<1> SUFFICES ASSUME BalanceInit PROVE BalanceInv
  OBVIOUS
<1>1. PICK b \in Balances : bank = <<b>>
  BY DEF BalanceInit
<1>2. BalanceOK
  <2>1. <<b>> \in Seq(Balances)
    OBVIOUS
  <2>2. Len(<<b>>) = 1
    OBVIOUS
  <2>3. bank \in Seq(Balances) /\ Len(bank) = 1
    BY <1>1, <2>1, <2>2
  <2>4. /\ balance = NoBalance /\ latest = NoBalance /\ inFlight = FALSE
        /\ pass = [p \in BalancePasses |-> "idle"]
        /\ loaded = [p \in BalancePasses |-> NoBalance] /\ reading = [p \in BalancePasses |-> NoBalance]
    BY DEF BalanceInit
  <2>5. pass \in [BalancePasses -> {"idle", "loaded", "asking", "answered"}]
    BY <2>4
  <2>6. loaded \in [BalancePasses -> Observations] /\ reading \in [BalancePasses -> Observations]
    BY <2>4, NothingIsAnObservation
  <2>7. balance \in Observations /\ latest \in Observations
    BY <2>4, NothingIsAnObservation
  <2>8. inFlight \in BOOLEAN
    BY <2>4
  <2> QED
    BY <2>3, <2>5, <2>6, <2>7, <2>8 DEF BalanceOK
<1>3. /\ balance = NoBalance /\ latest = NoBalance /\ NoBalance.observedAt = 0
      /\ \A p \in BalancePasses : pass[p] = "idle"
  BY DEF BalanceInit, NoBalance
<1>4. OnePass /\ BalanceIsLatest /\ \A p \in BalancePasses : PassInv(p)
  BY <1>3 DEF OnePass, PassInv, BalanceIsLatest
<1>5. latest.observedAt <= Len(bank)
  BY <1>2, <1>3 DEF BalanceOK
<1> QED
  BY <1>2, <1>3, <1>4, <1>5 DEF BalanceInv

\* Every step of a pass, a change of the balance, and a fall.
LEMMA BalanceGoesOn == BalanceInv /\ BalanceNext => BalanceInv'
<1> SUFFICES ASSUME BalanceInv, BalanceNext PROVE BalanceInv'
  OBVIOUS
<1> USE DEF BalanceInv, BalanceOK
<1>1. CASE BalanceChanges
  <2>1. PICK b \in Balances : bank' = Append(bank, b)
    BY <1>1 DEF BalanceChanges
  <2>2. UNCHANGED <<balance, inFlight, pass, loaded, reading, latest>>
    BY <1>1 DEF BalanceChanges
  <2>3. bank' \in Seq(Balances) /\ Len(bank') = Len(bank) + 1
    BY <2>1
  <2>4. ASSUME NEW p \in BalancePasses PROVE PassInv(p)'
    <3>1. PassInv(p) /\ reading[p] \in Observations
      OBVIOUS
    <3>2. pass[p] = "answered" => reading[p].observedAt >= 1
      BY <3>1 DEF PassInv
    <3>3. pass[p] = "answered" => WasHeld(reading[p])'
      BY <2>1, <2>2, <3>1, <3>2, HeldStaysHeld DEF PassInv, WasHeld
    <3> QED
      BY <2>2, <2>3, <3>1, <3>3 DEF PassInv, Observations
  <2>5. BalanceIsLatest'
    BY <2>1, <2>2, HeldStaysHeld DEF BalanceIsLatest, WasHeld
  <2> QED
    BY <2>2, <2>3, <2>4, <2>5 DEF OnePass, Observations
<1>2. CASE BalancesDown
  BY <1>2 DEF BalancesDown, OnePass, PassInv, BalanceIsLatest, NoBalance, Observations, SomeFigures
<1>3. ASSUME NEW p \in BalancePasses, sweep(p) PROVE BalanceInv'
  <2>1. \A q \in BalancePasses : pass[q] = "idle"
    BY <1>3 DEF sweep, MayStart, PassInv
  <2>2. BalanceOK' /\ OnePass' /\ BalanceIsLatest'
    BY <1>3, <2>1 DEF sweep, OnePass, BalanceIsLatest
  <2>3. ASSUME NEW q \in BalancePasses PROVE PassInv(q)'
    BY <1>3, <2>1 DEF sweep, PassInv
  <2> QED
    BY <1>3, <2>2, <2>3 DEF sweep
<1>4. ASSUME NEW p \in BalancePasses, getCardBalance(p) PROVE BalanceInv'
  <2> DEFINE r == [reading[p] EXCEPT !.observedAt = Len(bank)]
  <2>1. reading[p] \in Observations /\ Len(bank) \in Nat
    OBVIOUS
  <2>2. r \in Observations
    BY <2>1 DEF Observations
  <2>3. reading' = [reading EXCEPT ![p] = r]
    BY <1>4 DEF getCardBalance
  <2>4. reading' \in [BalancePasses -> Observations]
    BY <2>2, <2>3
  <2>5. pass' = [pass EXCEPT ![p] = "asking"] /\ pass[p] = "loaded"
        /\ UNCHANGED <<bank, balance, inFlight, loaded, latest>>
    BY <1>4 DEF getCardBalance
  <2>6. BalanceOK'
    BY <2>4, <2>5
  <2>7. OnePass' /\ BalanceIsLatest'
    BY <2>5 DEF OnePass, BalanceIsLatest
  <2>8. ASSUME NEW q \in BalancePasses PROVE PassInv(q)'
    <3>1. CASE q = p
      BY <1>4, <3>1 DEF getCardBalance, PassInv, Observations
    <3>2. CASE q # p
      BY <1>4, <3>2 DEF getCardBalance, PassInv, WasHeld
    <3> QED
      BY <3>1, <3>2
  <2> QED
    BY <2>8, <2>5, <2>6, <2>7
<1>5. ASSUME NEW p \in BalancePasses, mapHyperCardCardBalance(p) PROVE BalanceInv'
  <2>1. bank[Len(bank)] \in SomeFigures
    BY DEF SomeFigures
  <2>2. BalanceOK' /\ OnePass' /\ BalanceIsLatest'
    BY <1>5, <2>1 DEF mapHyperCardCardBalance, OnePass, BalanceIsLatest, Observations
  <2>3. reading'[p].observedAt \in 1 .. Len(bank) /\ reading'[p].figures = bank[Len(bank)]
    BY <1>5 DEF mapHyperCardCardBalance, PassInv, Observations
  <2>4. WasHeld(reading[p])'
    BY <1>5, <2>3 DEF WasHeld, mapHyperCardCardBalance
  <2>5. ASSUME NEW q \in BalancePasses PROVE PassInv(q)'
    <3>1. CASE q = p
      BY <1>5, <2>3, <2>4, <3>1 DEF mapHyperCardCardBalance, PassInv, Observations
    <3>2. CASE q # p
      BY <1>5, <3>2 DEF mapHyperCardCardBalance, PassInv, WasHeld
    <3> QED
      BY <3>1, <3>2
  <2> QED
    BY <1>5, <2>2, <2>5 DEF mapHyperCardCardBalance
<1>6. ASSUME NEW p \in BalancePasses, reconcileFails(p) PROVE BalanceInv'
  <2>1. \A q \in BalancePasses : q # p => pass[q] = "idle"
    BY <1>6 DEF reconcileFails, OnePass
  <2>2. BalanceOK' /\ OnePass' /\ BalanceIsLatest'
    BY <1>6, <2>1 DEF reconcileFails, PassOver, OnePass, BalanceIsLatest, Observations, NoBalance, SomeFigures
  <2>3. ASSUME NEW q \in BalancePasses PROVE PassInv(q)'
    BY <1>6, <2>1 DEF reconcileFails, PassOver, PassInv
  <2> QED
    BY <1>6, <2>2, <2>3 DEF reconcileFails
<1>7. ASSUME NEW p \in BalancePasses, reconcileOne(p) PROVE BalanceInv'
  <2>1. \A q \in BalancePasses : q # p => pass[q] = "idle"
    BY <1>7 DEF reconcileOne, OnePass
  <2>2. /\ latest' = reading[p] /\ loaded[p] = balance /\ WasHeld(reading[p])
        /\ reading[p].observedAt \in 1 .. Len(bank) /\ bank' = bank
        /\ balance' = IF balance.figures = reading[p].figures THEN balance ELSE reading[p]
    BY <1>7 DEF reconcileOne, PassInv, Observations
  <2>3. BalanceIsLatest'
    BY <2>2 DEF BalanceIsLatest, WasHeld
  <2>4. BalanceOK' /\ OnePass'
    BY <1>7, <2>1, <2>2, NothingIsAnObservation DEF reconcileOne, PassOver, OnePass
  <2>5. ASSUME NEW q \in BalancePasses PROVE PassInv(q)'
    BY <1>7, <2>1 DEF reconcileOne, PassOver, PassInv
  <2> QED
    BY <2>2, <2>3, <2>4, <2>5
<1> QED
  BY <1>1, <1>2, <1>3, <1>4, <1>5, <1>6, <1>7 DEF BalanceNext

\* The figures shown are those of the latest answer and were the card's at or
\* after the time they are said to be of, however many passes, balances and
\* falls there are: reconcile-card-balances never puts an older answer back.
THEOREM LatestShown == Spec => []BalanceIsLatest
<1>1. Init => BalanceInv
  BY BalanceBegins DEF Init
<1>2. BalanceInv /\ [Next]_vars => BalanceInv'
  <2> SUFFICES ASSUME BalanceInv, [Next]_vars
               PROVE  BalanceInv'
    OBVIOUS
  <2>1. CASE ReadingBalance
    BY <2>1, BalanceGoesOn DEF ReadingBalance
  <2>2. CASE UNCHANGED balanceVars
    BY <2>2 DEF balanceVars, BalanceInv, BalanceOK, OnePass, PassInv, WasHeld, BalanceIsLatest
  <2> QED
    BY <2>1, <2>2 DEF Next, Quoting, ReadingStatement, Collecting, Requesting, vars
<1>3. BalanceInv => BalanceIsLatest
  BY DEF BalanceInv
<1> QED
  BY <1>1, <1>2, <1>3, PTL DEF Spec

-----------------------------------------------------------------------------
\* A product has its card fee in the coin of quotes, or has none.
HasFee(row) ==
  /\ {"issuanceFeeAmount", "issuanceFeeCurrency"} \subseteq DOMAIN row
  /\ row.issuanceFeeAmount \in (Nat \ {0}) \cup {null, Finer}
  /\ row.issuanceFeeAmount # null => row.issuanceFeeCurrency = HYPERCARD_RECHARGE_PAY_COIN

\* A quote has passed the gates it was asked through, and covers what is owed.
QuoteInv ==
  /\ HasFee(product)
  /\ quoted = NoQuote => acted = "no"
  /\ quoted # NoQuote =>
       \/ /\ quoted.kind = "open"
          /\ \E offer \in resolve(quoted.row) : assertMeetsMinimum(quoted.amount, offer)
       \/ /\ quoted.kind = "topUp"
          /\ assertDepositAmountWithinLimits(quoted.amount, resolveForCard(quoted.row))
  /\ QuoteCovers /\ QuotedIsAccepted

\* Whatever the issuer lists of the product.
LEMMA StoredHasFee ==
  ASSUME NEW row \in Stored
  PROVE  HasFee(row)
<1>1. PICK listed \in ProductRows : row = toRowFields(mapHyperCardCardProduct(listed))
  BY DEF Stored
<1> DEFINE mapped == mapHyperCardCardProduct(listed)
<1>2. /\ {"issuanceFeeAmount", "issuanceFeeCurrency"} \subseteq DOMAIN row
      /\ row.issuanceFeeAmount = mapped.issuanceFee.amount
      /\ row.issuanceFeeCurrency = mapped.issuanceFee.currencyCode
  <2> HIDE DEF mapped
  <2>1. row = toRowFields(mapped)
    BY <1>1 DEF mapped
  <2> QED
    BY <2>1 DEF toRowFields, Joined, UPSERT_COLUMNS
<1>3. mapped.issuanceFee = toFee(listed.card_fee)
  BY DEF mapHyperCardCardProduct
<1>4. listed.card_fee \in Nat \cup {Absent, Blank, Garbled, Finer}
  BY FundingAssumption DEF Fields
<1> QED
  BY <1>2, <1>3, <1>4 DEF HasFee, toFee, normaliseHyperCardAmount, isZeroHyperCardAmount,
     null, Absent, Blank, Garbled, Finer, FEE_CURRENCY_CODE, HYPERCARD_RECHARGE_PAY_COIN

\* What the chains a quote may be paid on leave of the eighth place.
Grain(network) ==
  LET on == IF network = "null" THEN FundingNetworks ELSE {network}
  IN  10 ^ (COMPARISON_SCALE - Min({FUNDING_TOKENS[n] : n \in on} \cup {COMPARISON_SCALE}))
PlacesOf(network) == fundingCoinPrecision(HYPERCARD_RECHARGE_PAY_COIN, network)

\* The coin has six places or more than are counted.
LEMMA Places ==
  ASSUME NEW network \in Networks
  PROVE  \/ PlacesOf(network) = 6 /\ Grain(network) = 100
         \/ PlacesOf(network) = 18 /\ Grain(network) = 1
<1> USE DEF COMPARISON_SCALE, HYPERCARD_RECHARGE_PAY_COIN, PlacesOf, Grain
<1>1. /\ FundingNetworks = {"ETHEREUM", "BSC", "POLYGON", "OPTIMISM", "ARBITRUM", "TRON"}
      /\ \A n \in FundingNetworks : FUNDING_TOKENS[n] = IF n = "BSC" THEN 18 ELSE 6
  BY DEF FundingNetworks, FUNDING_TOKENS
<1>2. network \in FundingNetworks \cup {"null"}
  BY FundingAssumption
<1>3. Min({6, 18, 8}) = 6 /\ Min({6, 8}) = 6 /\ Min({18, 8}) = 8 /\ Min({6, 18}) = 6
  BY DEF Min
<1>4. CASE network = "null"
  <2>1. {FUNDING_TOKENS[n] : n \in FundingNetworks} = {6, 18}
    BY <1>1
  <2>2. {6, 18} \cup {8} = {6, 18, 8}
    OBVIOUS
  <2>3. Min({FUNDING_TOKENS[n] : n \in FundingNetworks} \cup {8}) = 6
    BY <1>3, <2>1, <2>2
  <2>4. fundingCoinPrecision("USDT", network) = 6
    BY <1>3, <1>4, <2>1 DEF fundingCoinPrecision
  <2>5. 10 ^ (8 - 6) = 100
    OBVIOUS
  <2> QED
    BY <1>4, <2>3, <2>4, <2>5
<1>5. CASE network \in FundingNetworks
  <2>1. PICK t : t = FUNDING_TOKENS[network]
    OBVIOUS
  <2>2. network # "null" /\ (t = 18 \/ t = 6)
    BY <1>1, <1>5, <2>1
  <2>3. fundingCoinPrecision("USDT", network) = t
    BY <2>1, <2>2 DEF fundingCoinPrecision
  <2>4. {FUNDING_TOKENS[n] : n \in {network}} \cup {8} = {t, 8}
    BY <2>1
  <2>5. 10 ^ (8 - 6) = 100 /\ 10 ^ (8 - 8) = 1
    OBVIOUS
  <2>6. CASE t = 6
    <3>1. Min({FUNDING_TOKENS[n] : n \in {network}} \cup {8}) = 6
      BY <1>3, <2>4, <2>6
    <3> QED
      BY <2>2, <2>3, <2>5, <2>6, <3>1
  <2>7. CASE t = 18
    <3>1. Min({FUNDING_TOKENS[n] : n \in {network}} \cup {8}) = 8
      BY <1>3, <2>4, <2>7
    <3> QED
      BY <2>2, <2>3, <2>5, <2>7, <3>1
  <2> QED
    BY <2>2, <2>6, <2>7
<1> QED
  BY <1>2, <1>4, <1>5

\* Rounded up, an amount is the least multiple that is enough.
LEMMA RoundedUp ==
  ASSUME NEW amount \in Nat, NEW decimals, NEW grain,
         (decimals = 6 /\ grain = 100) \/ (decimals = 18 /\ grain = 1)
  PROVE  LET rounded == roundUpDecimalString(amount, decimals)
         IN  rounded >= amount /\ rounded < amount + grain /\ rounded % grain = 0
<1>1. 10 ^ 2 = 100
  OBVIOUS
<1>2. CASE decimals = 6
  <2>1. roundUpDecimalString(amount, 6) = IF amount % 100 = 0 THEN amount ELSE amount + (100 - (amount % 100))
    BY <1>1 DEF roundUpDecimalString, COMPARISON_SCALE, Finer
  <2> QED
    BY <1>2, <2>1
<1>3. CASE decimals = 18
  BY <1>3 DEF roundUpDecimalString, COMPARISON_SCALE, Finer
<1> QED
  BY <1>2, <1>3

\* What a quote tells covers what is owed.
LEMMA ToldCovers ==
  ASSUME NEW which \in {"open", "topUp"}, NEW amount, NEW network \in Networks, NEW answer \in Prices,
         mapHyperCardFundingQuote(answer), HasFee(product),
         NEW owed, owed = IF which = "topUp" THEN costOf(answer)
                          ELSE total(costOf(answer), pairedFee(product.issuanceFeeAmount, product.issuanceFeeCurrency)),
         quoted' = Told(which, amount, network, answer, owed)
  PROVE  QuoteCovers'
<1> DEFINE fee == IF which = "open" /\ product.issuanceFeeAmount # null THEN product.issuanceFeeAmount ELSE 0
           sum == addDecimalStrings(answer.recharge_amount, fee)
           payable == IF owed = NoTotal THEN null ELSE payableFundingAmount(owed, network)
<1>1. /\ quoted'.kind = which /\ quoted'.row = product /\ quoted'.price = answer
      /\ quoted'.network = network /\ quoted'.payable = payable
  BY DEF Told
<1>2. PICK decimals, grain :
        /\ decimals = PlacesOf(network) /\ grain = Grain(network)
        /\ (decimals = 6 /\ grain = 100) \/ (decimals = 18 /\ grain = 1)
  BY Places, Zenon
<1>3. answer.recharge_amount \in Nat \cup {Finer} /\ costOf(answer).amount = answer.recharge_amount
      /\ costOf(answer) = [amount |-> answer.recharge_amount, currencyCode |-> HYPERCARD_RECHARGE_PAY_COIN]
  BY FundingAssumption DEF Fields, mapHyperCardFundingQuote, costOf, normaliseHyperCardAmount,
     null, Absent, Blank, Garbled, Finer
<1>4. fee \in Nat \cup {Finer}
  BY DEF HasFee
<1>5. CASE sum = null
  <2>1. payable = null
    BY <1>3, <1>4, <1>5
    DEF HasFee, total, pairedFee, addDecimalStrings, NoTotal, payableFundingAmount, roundUpDecimalString,
        null, Finer, HYPERCARD_RECHARGE_PAY_COIN
  <2> QED
    BY <1>1, <1>5, <2>1 DEF QuoteCovers
<1>6. CASE sum # null
  <2>1. sum \in Nat /\ owed = [amount |-> sum, currencyCode |-> HYPERCARD_RECHARGE_PAY_COIN]
    BY <1>3, <1>4, <1>6
    DEF HasFee, total, pairedFee, addDecimalStrings, NoTotal, null, Finer, HYPERCARD_RECHARGE_PAY_COIN
  <2>2. payable = roundUpDecimalString(sum, decimals)
    BY <1>2, <2>1 DEF NoTotal, payableFundingAmount, PlacesOf, null
  <2>3. payable >= sum /\ payable < sum + grain /\ payable % grain = 0
    <3> HIDE DEF sum, payable
    <3> QED
      BY <1>2, <2>1, <2>2, RoundedUp
  <2> QED
    BY <1>1, <1>2, <1>6, <2>3 DEF QuoteCovers, Grain
<1> QED
  BY <1>5, <1>6

\* No quote is held of a stored product.
LEMMA QuoteBegins == FundingInit => QuoteInv
BY StoredHasFee DEF FundingInit, QuoteInv, QuoteCovers, QuotedIsAccepted, NoQuote

\* A quote, a product stored anew, and the request that follows.
LEMMA QuoteGoesOn == QuoteInv /\ FundingNext => QuoteInv'
<1> SUFFICES ASSUME QuoteInv, FundingNext PROVE QuoteInv'
  OBVIOUS
<1> USE DEF QuoteInv
<1>1. ASSUME NEW amount \in Requested, NEW network \in Networks, NEW answer \in Prices,
             QuoteOpening(amount, network, answer)
      PROVE  QuoteInv'
  <2>1. PICK offer \in resolve(product) :
          /\ assertMeetsMinimum(amount, offer) /\ mapHyperCardFundingQuote(answer)
          /\ quoted' = Told("open", amount, network, answer, total(costOf(answer), offer.issuanceFee))
    BY <1>1 DEF QuoteOpening
  <2>2. offer.issuanceFee = pairedFee(product.issuanceFeeAmount, product.issuanceFeeCurrency)
    BY <2>1 DEF resolve, project
  <2>3. QuoteCovers'
    BY <2>1, <2>2, ToldCovers
  <2>4. quoted'.kind = "open" /\ quoted'.amount = amount /\ quoted'.row = product /\ quoted' # NoQuote
    BY <2>1 DEF Told, NoQuote
  <2>5. quoted = NoQuote /\ UNCHANGED <<product, acted>>
    BY <1>1 DEF QuoteOpening
  <2>6. QuotedIsAccepted'
    BY <2>5 DEF QuotedIsAccepted
  <2> QED
    BY <2>1, <2>3, <2>4, <2>5, <2>6
<1>2. ASSUME NEW amount \in Requested, NEW network \in Networks, NEW answer \in Prices,
             QuoteTopUp(amount, network, answer)
      PROVE  QuoteInv'
  <2>1. quoted' = Told("topUp", amount, network, answer, costOf(answer)) /\ mapHyperCardFundingQuote(answer)
    BY <1>2 DEF QuoteTopUp
  <2>2. QuoteCovers'
    BY <2>1, ToldCovers
  <2>3. quoted'.kind = "topUp" /\ quoted'.amount = amount /\ quoted'.row = product /\ quoted' # NoQuote
    BY <2>1 DEF Told, NoQuote
  <2>4. quoted = NoQuote /\ UNCHANGED <<product, acted>>
        /\ assertDepositAmountWithinLimits(amount, resolveForCard(product))
    BY <1>2 DEF QuoteTopUp
  <2>5. QuotedIsAccepted'
    BY <2>4 DEF QuotedIsAccepted
  <2> QED
    BY <2>2, <2>3, <2>4, <2>5
<1>3. CASE StoreProduct
  <2>1. HasFee(product)'
    BY <1>3, StoredHasFee DEF StoreProduct, HasFee
  <2>2. acted = "no" /\ UNCHANGED <<quoted, acted>>
    BY <1>3 DEF StoreProduct
  <2>3. QuoteCovers' /\ QuotedIsAccepted'
    BY <2>2 DEF QuoteCovers, QuotedIsAccepted
  <2> QED
    BY <2>1, <2>2, <2>3
<1>4. CASE Deposit
  <2>0. quoted.kind = "topUp" /\ quoted # NoQuote
    BY <1>4 DEF Deposit, NoQuote
  <2>1. QuotedIsAccepted'
    BY <1>4, <2>0 DEF Deposit, QuotedIsAccepted
  <2>2. QuoteCovers'
    BY <1>4 DEF Deposit, QuoteCovers
  <2> QED
    BY <1>4, <2>0, <2>1, <2>2 DEF Deposit
<1>5. ASSUME NEW application \in Applications, Apply(application) PROVE QuoteInv'
  <2>1. /\ quoted.kind = "open" /\ quoted # NoQuote /\ UNCHANGED <<product, quoted>>
        /\ acted' = IF IsIssued(application) THEN "accepted" ELSE "refused"
    BY <1>5 DEF Apply, NoQuote
  <2>2. ASSUME product = quoted.row, product.cardType \in IssuableTypes,
               product.applicationMode \in SUPPORTED_APPLICATION_MODES
        PROVE  IsIssued(application)
    <3>1. PICK offer \in resolve(product) : assertMeetsMinimum(quoted.amount, offer)
      BY <2>1, <2>2
    <3>2. offer = project(product)
      BY <3>1 DEF resolve
    <3>3. application.cardType = product.cardType /\ application.currency \in {product.currencyCode, null}
      BY <2>2 DEF Applications
    <3> QED
      BY <2>2, <3>1, <3>2, <3>3 DEF IsIssued, project, assertCardTypeMatchesProduct, resolveCurrency,
         resolveInitialDeposit, assertMeetsMinimum
  <2>3. QuotedIsAccepted'
    BY <2>1, <2>2 DEF QuotedIsAccepted
  <2>4. QuoteCovers'
    BY <2>1 DEF QuoteCovers
  <2> QED
    BY <2>1, <2>3, <2>4
<1>6. CASE AskAgain
  BY <1>6 DEF AskAgain, QuoteCovers, QuotedIsAccepted
<1> QED
  BY <1>1, <1>2, <1>3, <1>4, <1>5, <1>6 DEF FundingNext

\* The quote's inductive invariant, whatever products, prices and amounts there are.
LEMMA Quoted == Spec => []QuoteInv
<1>1. Init => QuoteInv
  BY QuoteBegins DEF Init
<1>2. QuoteInv /\ [Next]_vars => QuoteInv'
  <2> SUFFICES ASSUME QuoteInv, [Next]_vars PROVE QuoteInv'
    OBVIOUS
  <2>1. CASE Quoting
    BY <2>1, QuoteGoesOn DEF Quoting
  <2>2. CASE UNCHANGED quoteVars
    BY <2>2 DEF quoteVars, QuoteInv, QuoteCovers, QuotedIsAccepted
  <2> QED
    BY <2>1, <2>2 DEF Next, ReadingStatement, ReadingBalance, Requesting, Collecting, vars
<1> QED
  BY <1>1, <1>2, PTL DEF Spec

\* The figure told covers what is owed, can be carried by every chain it may be
\* sent on, and is the least such (quote-card-funding, quote-card-deposit).
THEOREM FigureCovers == Spec => []QuoteCovers
<1>1. QuoteInv => QuoteCovers
  BY DEF QuoteInv
<1> QED
  BY <1>1, Quoted, PTL

\* The gates of issue-card and request-card-deposit let pass what the quotes'
\* gates let pass of the same product.
THEOREM GatesAgree == Spec => []QuotedIsAccepted
<1>1. QuoteInv => QuotedIsAccepted
  BY DEF QuoteInv
<1> QED
  BY <1>1, Quoted, PTL

-----------------------------------------------------------------------------
\* What the issuer may hold of a request: nothing, or what it made of it.
Records ==
  {NotHeld} \cup {r \in [code : Codes[kind], card : BOOLEAN, fiat : Amounts, coin : Amounts] :
                    r.card => kind = "application"}

ExchangeOK ==
  /\ kind \in Kinds /\ request \in {"unsent", "submitted", "declined", "unanswered"}
  /\ record \in Records /\ answered \in Records \cup {Elsewhere}
  /\ pushed # Absent => kind = "application" /\ pushed \in Codes.application

\* Nothing is held of a request that was not sent, or was declined.
ExchangeInv ==
  /\ ExchangeOK
  /\ request \in {"unsent", "declined"} => record = NotHeld
  /\ OutcomeIsReported

\* The issuer's codes of a card, and what is read in them.
LEMMA Readings ==
  /\ \A c \in DOMAIN READING_BY_CODE :
       /\ c \in Nat
       /\ READING_BY_CODE[c].card \in {"NOT_ACTIVATED", "ACTIVE", "ON_HOLD", "CLOSED"}
       /\ READING_BY_CODE[c].activation \in {"PENDING", "FAILED", "null"}
       /\ READING_BY_CODE[c].card = "ACTIVE" => c \in {9, 13}
       /\ READING_BY_CODE[c].card = "CLOSED" => c \in {4, 5, 14, 15, 21, 22, 23}
       /\ READING_BY_CODE[c].activation = "FAILED" => c \in {8, 12}
  /\ 0 \in DOMAIN READING_BY_CODE
<1> DEFINE D == 0 .. 15 \cup {18} \cup 21 .. 24 \cup {30}
<1>1. DOMAIN READING_BY_CODE = D /\ D \subseteq Nat /\ 0 \in D
  BY DEF READING_BY_CODE
<1>2. ASSUME NEW c \in D
      PROVE  \/ c \in {0, 1, 2, 3, 6, 24, 30} /\ READING_BY_CODE[c] = Reading("NOT_ACTIVATED", "null")
             \/ c \in {4, 5, 14, 15, 21, 22, 23} /\ READING_BY_CODE[c] = Reading("CLOSED", "null")
             \/ c \in {7, 11} /\ READING_BY_CODE[c] = Reading("NOT_ACTIVATED", "PENDING")
             \/ c \in {8, 12} /\ READING_BY_CODE[c] = Reading("NOT_ACTIVATED", "FAILED")
             \/ c \in {9, 13} /\ READING_BY_CODE[c] = Reading("ACTIVE", "null")
             \/ c \in {10, 18} /\ READING_BY_CODE[c] = Reading("ON_HOLD", "null")
  BY SMTT(60) DEF READING_BY_CODE
<1> QED
  BY <1>1, <1>2 DEF Reading

\* The codes of a deposit and of an operation.
LEMMA States ==
  /\ \A c \in DOMAIN RECHARGE_STATE_BY_CODE :
       \/ c = 0 /\ RECHARGE_STATE_BY_CODE[c] = "PENDING"
       \/ c = 1 /\ RECHARGE_STATE_BY_CODE[c] = "SETTLED"
       \/ c = 2 /\ RECHARGE_STATE_BY_CODE[c] = "FAILED"
       \/ c = 3 /\ RECHARGE_STATE_BY_CODE[c] = "REFUND_PENDING"
       \/ c = 4 /\ RECHARGE_STATE_BY_CODE[c] = "REFUNDED"
  /\ \A c \in DOMAIN OPERATION_STATE_BY_CODE :
       \/ c = 1 /\ OPERATION_STATE_BY_CODE[c] = "APPLIED"
       \/ c = 2 /\ OPERATION_STATE_BY_CODE[c] = "FAILED"
       \/ c \in {0, 98, 99} /\ OPERATION_STATE_BY_CODE[c] = "PENDING"
  /\ 0 \in DOMAIN RECHARGE_STATE_BY_CODE /\ 0 \in DOMAIN OPERATION_STATE_BY_CODE
BY DEF RECHARGE_STATE_BY_CODE, OPERATION_STATE_BY_CODE

\* A record that is held has a code of its kind's appendix.
LEMMA HeldHasCode ==
  ASSUME ExchangeOK, NEW r \in Records, r # NotHeld
  PROVE  /\ r.code \in Codes[kind] /\ r.code \in Nat /\ r.code # Absent
         /\ r.card \in BOOLEAN /\ (r.card => kind = "application")
         /\ kind = "deposit" => r.fiat \in Figures /\ r.fiat \in Nat
<1>1. r \in [code : Codes[kind], card : BOOLEAN, fiat : Amounts, coin : Amounts]
  BY DEF Records
<1>2. Codes[kind] \subseteq Nat
  BY Readings, States DEF ExchangeOK, Kinds, Codes
<1>3. r.code \in Codes[kind] /\ r.card \in BOOLEAN /\ r.fiat \in Amounts
  BY <1>1
<1>4. r.card => kind = "application"
  BY DEF Records
<1>5. kind = "deposit" => r.fiat \in Figures /\ r.fiat \in Nat
  BY <1>3, ExchangeAssumption DEF Amounts
<1> QED
  BY <1>2, <1>3, <1>4, <1>5 DEF Absent

\* An answer is taken to be about what was asked only when it is.
LEMMA AboutOurs ==
  ASSUME NEW a \in AnswersAbout, kind = "application" \/ assertEcho(a), ~PassesForOurs(a)
  PROVE  /\ Described(a) = record
         /\ codeOf(a) \in {record.code, UnknownCode, Garbled}
         /\ currency_amount(a) \in {record.fiat, Garbled}
         /\ card_id(a) => record.card
BY DEF AnswersAbout, Answers, assertEcho, PassesForOurs, Described, codeOf, currency_amount, card_id

\* What can be read as a code of the kind's appendix is the record's.
LEMMA CodeIsRecords ==
  ASSUME ExchangeOK, NEW raw \in {record.code, UnknownCode, Garbled},
         normaliseHyperCardInteger(raw) \in Codes[kind]
  PROVE  raw = record.code
<1>1. UnknownCode \notin Codes[kind] /\ UnknownCode \in Nat
  BY ExchangeAssumption DEF ExchangeOK
<1>2. -1 \notin Codes[kind]
  BY Readings, States DEF ExchangeOK, Kinds, Codes
<1> QED
  BY <1>1, <1>2 DEF normaliseHyperCardInteger, null, Garbled

\* What is made of an answer about an application.
LEMMA ApplicationTold ==
  ASSUME ExchangeOK, kind = "application", record # NotHeld, NEW a \in AnswersAbout, ~PassesForOurs(a)
  PROVE  LET o == getCardApplicationResult(a)
         IN  /\ o \in CardApplicationOutcomes
             /\ o.state \in {"ISSUED", "REJECTED", "PENDING"}
             /\ o.state = "ISSUED" =>
                  /\ record.card
                  /\ o.status = "ACTIVE" => record.code \in {9, 13}
                  /\ o.status = "CLOSED" => READING_BY_CODE[record.code].card = "CLOSED"
                  /\ o.activation = "FAILED" => record.code \in {8, 12}
                  /\ o.statusRecognised => o.status = READING_BY_CODE[record.code].card
             /\ o.state = "REJECTED" => record.code \in {4, 5, 14, 15, 21, 22, 23}
<1> DEFINE raw == codeOf(a)
<1>1. raw \in {record.code, UnknownCode, Garbled} /\ (card_id(a) => record.card)
  BY AboutOurs
<1>2. Codes[kind] = DOMAIN READING_BY_CODE
  BY DEF Codes
<1>3. record \in Records
  BY DEF ExchangeOK
<1>4. CASE normaliseHyperCardInteger(raw) \in DOMAIN READING_BY_CODE
  <2>1. raw = record.code
    BY <1>1, <1>2, <1>4, CodeIsRecords
  <2>2. record.code \in DOMAIN READING_BY_CODE 
    BY <1>2, <1>3, HeldHasCode
  <2>3. readingOf(raw) = READING_BY_CODE[record.code]
    BY <1>4, <2>1 DEF readingOf
  <2>4. /\ readHyperCardCardStatus(raw) = READING_BY_CODE[record.code].card
        /\ mapHyperCardCardStatus(raw) = READING_BY_CODE[record.code].card
        /\ mapHyperCardActivationStatus(raw) = READING_BY_CODE[record.code].activation
        /\ readHyperCardCardStatus(raw) # "null"
    BY <2>2, <2>3, Readings DEF readHyperCardCardStatus, mapHyperCardCardStatus, mapHyperCardActivationStatus
  <2>5. CASE card_id(a)
    <3>1. getCardApplicationResult(a) =
            [state |-> "ISSUED", status |-> READING_BY_CODE[record.code].card, statusRecognised |-> TRUE,
             activation |-> READING_BY_CODE[record.code].activation]
      BY <1>1, <2>4, <2>5 DEF getCardApplicationResult
    <3> QED
      BY <1>1, <2>2, <2>5, <3>1, Readings DEF CardApplicationOutcomes
  <2>6. CASE ~card_id(a)
    BY <1>1, <2>2, <2>4, <2>6, Readings DEF getCardApplicationResult, CardApplicationOutcomes
  <2> QED
    BY <2>5, <2>6
<1>5. CASE normaliseHyperCardInteger(raw) \notin DOMAIN READING_BY_CODE
  <2>1. readingOf(raw) = Reading("null", "null")
    BY <1>5 DEF readingOf
  <2>2. /\ readHyperCardCardStatus(raw) = "null" /\ mapHyperCardCardStatus(raw) = "NOT_ACTIVATED"
        /\ mapHyperCardActivationStatus(raw) = "null"
    BY <2>1 DEF readHyperCardCardStatus, mapHyperCardCardStatus, mapHyperCardActivationStatus, Reading
  <2>3. CASE card_id(a)
    <3>1. getCardApplicationResult(a) =
            [state |-> "ISSUED", status |-> "NOT_ACTIVATED", statusRecognised |-> FALSE, activation |-> "null"]
      BY <1>1, <2>2, <2>3 DEF getCardApplicationResult
    <3> QED
      BY <1>1, <2>3, <3>1 DEF CardApplicationOutcomes
  <2>4. CASE ~card_id(a)
    BY <1>1, <2>2, <2>4 DEF getCardApplicationResult, CardApplicationOutcomes
  <2> QED
    BY <2>3, <2>4
<1> QED
  BY <1>4, <1>5

\* What is made of an answer about a deposit.
LEMMA DepositTold ==
  ASSUME ExchangeOK, kind = "deposit", record # NotHeld, NEW a \in AnswersAbout, assertEcho(a), ~PassesForOurs(a)
  PROVE  LET o == getCardDepositResult(a)
         IN  /\ o \in CardDepositOutcomes
             /\ o.state \in {"PENDING", "SETTLED", "FAILED", "REFUND_PENDING", "REFUNDED"}
             /\ o.state = "SETTLED" => record.code = 1 /\ o.creditedAmount = record.fiat
             /\ o.state = "FAILED" => record.code = 2
             /\ o.state = "REFUND_PENDING" => record.code = 3
             /\ o.state = "REFUNDED" => record.code = 4
<1> DEFINE raw == codeOf(a)
           sum == normaliseHyperCardAmount(currency_amount(a))
<1>1. raw \in {record.code, UnknownCode, Garbled} /\ currency_amount(a) \in {record.fiat, Garbled}
  BY AboutOurs
<1>2. Codes[kind] = DOMAIN RECHARGE_STATE_BY_CODE /\ record \in Records
  BY DEF Codes, ExchangeOK
<1>3. record.fiat \in Figures /\ record.fiat \in Nat
  BY <1>2, HeldHasCode
<1>4. sum = null \/ sum = record.fiat
  BY <1>1, <1>3 DEF normaliseHyperCardAmount, null, Garbled, Finer
<1>5. CASE normaliseHyperCardInteger(raw) \in DOMAIN RECHARGE_STATE_BY_CODE
  <2>1. raw = record.code
    BY <1>1, <1>2, <1>5, CodeIsRecords
  <2>2. record.code \in DOMAIN RECHARGE_STATE_BY_CODE
    BY <1>2, HeldHasCode
  <2>3. mapHyperCardRechargeStatus(raw) = RECHARGE_STATE_BY_CODE[record.code]
    BY <1>5, <2>1 DEF mapHyperCardRechargeStatus
  <2>4. CASE RECHARGE_STATE_BY_CODE[record.code] = "SETTLED"
    <3>1. record.code = 1
      BY <2>2, <2>4, States
    <3>2. \/ getCardDepositResult(a) = [state |-> "PENDING"]
          \/ getCardDepositResult(a) = [state |-> "SETTLED", creditedAmount |-> record.fiat]
      BY <1>4, <2>3, <2>4 DEF getCardDepositResult
    <3> QED
      BY <1>3, <3>1, <3>2 DEF CardDepositOutcomes
  <2>5. CASE RECHARGE_STATE_BY_CODE[record.code] # "SETTLED"
    <3>1. getCardDepositResult(a) = [state |-> RECHARGE_STATE_BY_CODE[record.code]]
      BY <2>3, <2>5 DEF getCardDepositResult
    <3> QED
      BY <2>2, <2>5, <3>1, States DEF CardDepositOutcomes
  <2> QED
    BY <2>4, <2>5
<1>6. CASE normaliseHyperCardInteger(raw) \notin DOMAIN RECHARGE_STATE_BY_CODE
  BY <1>6 DEF getCardDepositResult, mapHyperCardRechargeStatus, CardDepositOutcomes
<1> QED
  BY <1>5, <1>6

\* What is made of an answer about an operation.
LEMMA OperationTold ==
  ASSUME ExchangeOK, kind = "operation", record # NotHeld, NEW a \in AnswersAbout, assertEcho(a), ~PassesForOurs(a)
  PROVE  LET o == getCardOperationResult(a)
         IN  /\ o \in CardOperationOutcomes
             /\ o.state \in {"PENDING", "APPLIED", "FAILED"}
             /\ o.state = "APPLIED" => record.code = 1
             /\ o.state = "FAILED" => record.code = 2
<1> DEFINE raw == codeOf(a)
<1>1. raw \in {record.code, UnknownCode, Garbled}
  BY AboutOurs
<1>2. Codes[kind] = DOMAIN OPERATION_STATE_BY_CODE /\ record \in Records
  BY DEF Codes, ExchangeOK
<1>3. CASE normaliseHyperCardInteger(raw) \in DOMAIN OPERATION_STATE_BY_CODE
  <2>1. raw = record.code
    BY <1>1, <1>2, <1>3, CodeIsRecords
  <2>2. record.code \in DOMAIN OPERATION_STATE_BY_CODE
    BY <1>2, HeldHasCode
  <2>3. getCardOperationResult(a) = [state |-> OPERATION_STATE_BY_CODE[record.code]]
    BY <1>3, <2>1 DEF mapHyperCardOperationStatus, getCardOperationResult
  <2> QED
    BY <2>2, <2>3, States DEF CardOperationOutcomes
<1>4. CASE normaliseHyperCardInteger(raw) \notin DOMAIN OPERATION_STATE_BY_CODE
  BY <1>4 DEF getCardOperationResult, mapHyperCardOperationStatus, CardOperationOutcomes
<1> QED
  BY <1>3, <1>4

\* Whatever an answer is about, it is put in the words of the port.
LEMMA ApplicationWorded ==
  ASSUME NEW a \in AnswersAbout
  PROVE  /\ getCardApplicationResult(a) \in CardApplicationOutcomes
         /\ getCardApplicationResult(a).state \in {"ISSUED", "REJECTED", "PENDING"}
<1>1. PICK raw : raw = codeOf(a)
  OBVIOUS
<1>2. \/ readingOf(raw) = Reading("null", "null")
      \/ \E c \in DOMAIN READING_BY_CODE : readingOf(raw) = READING_BY_CODE[c]
  <2>1. CASE normaliseHyperCardInteger(raw) \in DOMAIN READING_BY_CODE
    <3>1. normaliseHyperCardInteger(raw) = raw
      BY <2>1, Readings DEF normaliseHyperCardInteger, null
    <3> QED
      BY <2>1, <3>1 DEF readingOf
  <2>2. CASE normaliseHyperCardInteger(raw) \notin DOMAIN READING_BY_CODE
    BY <2>2 DEF readingOf
  <2> QED
    BY <2>1, <2>2
<1>3. /\ mapHyperCardCardStatus(raw) \in {"NOT_ACTIVATED", "ACTIVE", "ON_HOLD", "CLOSED"}
      /\ mapHyperCardActivationStatus(raw) \in {"PENDING", "FAILED", "null"}
  BY <1>2, Readings DEF mapHyperCardCardStatus, readHyperCardCardStatus, mapHyperCardActivationStatus, Reading
<1>4. PICK recognised \in BOOLEAN : recognised = (readHyperCardCardStatus(raw) # "null")
  OBVIOUS
<1>5. \/ getCardApplicationResult(a) =
           [state |-> "ISSUED", status |-> mapHyperCardCardStatus(raw), statusRecognised |-> recognised,
            activation |-> mapHyperCardActivationStatus(raw)]
      \/ getCardApplicationResult(a) \in {[state |-> "REJECTED"], [state |-> "PENDING"]}
  BY <1>1, <1>4 DEF getCardApplicationResult
<1> QED
  BY <1>3, <1>5 DEF CardApplicationOutcomes

LEMMA DepositWorded ==
  ASSUME NEW a \in AnswersAbout, PassesForOurs(a)
  PROVE  /\ getCardDepositResult(a) \in CardDepositOutcomes
         /\ getCardDepositResult(a).state \in {"PENDING", "SETTLED", "FAILED", "REFUND_PENDING", "REFUNDED"}
<1>1. currency_amount(a) \in {0, Garbled}
  BY DEF PassesForOurs, currency_amount, Described, Another
<1>2. PICK sum : sum = normaliseHyperCardAmount(currency_amount(a))
  OBVIOUS
<1>3. sum = 0 \/ sum = null
  BY <1>1, <1>2 DEF normaliseHyperCardAmount, Garbled, Finer, null
<1>4. PICK state : state = mapHyperCardRechargeStatus(codeOf(a))
  OBVIOUS
<1>5. state \in {"PENDING", "SETTLED", "FAILED", "REFUND_PENDING", "REFUNDED"}
  <2>1. CASE normaliseHyperCardInteger(codeOf(a)) \in DOMAIN RECHARGE_STATE_BY_CODE
    <3>1. normaliseHyperCardInteger(codeOf(a)) = codeOf(a)
      BY <2>1, States DEF normaliseHyperCardInteger, null, RECHARGE_STATE_BY_CODE
    <3> QED
      BY <1>4, <2>1, <3>1, States DEF mapHyperCardRechargeStatus
  <2>2. CASE normaliseHyperCardInteger(codeOf(a)) \notin DOMAIN RECHARGE_STATE_BY_CODE
    BY <1>4, <2>2 DEF mapHyperCardRechargeStatus
  <2> QED
    BY <2>1, <2>2
<1>6. \/ getCardDepositResult(a) = [state |-> state] /\ state # "SETTLED"
      \/ getCardDepositResult(a) = [state |-> "PENDING"]
      \/ getCardDepositResult(a) = [state |-> "SETTLED", creditedAmount |-> 0]
  BY <1>2, <1>3, <1>4 DEF getCardDepositResult
<1> QED
  BY <1>5, <1>6 DEF CardDepositOutcomes

LEMMA OperationWorded ==
  ASSUME NEW a \in AnswersAbout
  PROVE  /\ getCardOperationResult(a) \in CardOperationOutcomes
         /\ getCardOperationResult(a).state \in {"PENDING", "APPLIED", "FAILED"}
<1>1. CASE normaliseHyperCardInteger(codeOf(a)) \in DOMAIN OPERATION_STATE_BY_CODE
  <2>1. normaliseHyperCardInteger(codeOf(a)) = codeOf(a)
    BY <1>1, States DEF normaliseHyperCardInteger, null, OPERATION_STATE_BY_CODE
  <2> QED
    BY <1>1, <2>1, States DEF mapHyperCardOperationStatus, getCardOperationResult, CardOperationOutcomes
<1>2. CASE normaliseHyperCardInteger(codeOf(a)) \notin DOMAIN OPERATION_STATE_BY_CODE
  BY <1>2 DEF mapHyperCardOperationStatus, getCardOperationResult, CardOperationOutcomes
<1> QED
  BY <1>1, <1>2

\* Nothing is sent yet.
LEMMA ExchangeBegins == ExchangeInit => ExchangeInv
BY DEF ExchangeInit, ExchangeInv, ExchangeOK, Records, OutcomeIsReported, IsSaid, NoOutcome

\* What was reported of an answer stays reported, whatever is requested or
\* pushed since.
LEMMA ReportStays ==
  ASSUME OutcomeIsReported, UNCHANGED <<kind, answered, outcome>>, pushed' = pushed \/ pushed = Absent,
         request' = "declined" => record' = NotHeld
  PROVE  OutcomeIsReported'
<1>1. (outcome.state \notin {"none", "MOVED"} =>
         outcome \in (CASE kind = "application" -> CardApplicationOutcomes
                        [] kind = "deposit"     -> CardDepositOutcomes
                        [] kind = "operation"   -> CardOperationOutcomes))'
  BY DEF OutcomeIsReported, CardApplicationOutcomes, CardDepositOutcomes, CardOperationOutcomes
<1>2. ASSUME answered # Elsewhere
      PROVE  IsSaid'
  <2> USE <1>2 DEF OutcomeIsReported, IsSaid
  <2>1. (outcome.state = "ISSUED" =>
           /\ answered.card
           /\ outcome.status = "ACTIVE" => answered.code \in {9, 13}
           /\ outcome.status = "CLOSED" => Final(answered)
           /\ outcome.activation = "FAILED" => answered.code \in {8, 12})'
    BY DEF Final
  <2>2. (outcome.state = "MOVED" =>
           \E code \in {answered.code, pushed} : code # Absent /\ outcome.status = READING_BY_CODE[code].card)'
    OBVIOUS
  <2> QED
    BY <2>1, <2>2
<1> QED
  BY <1>1, <1>2 DEF OutcomeIsReported

\* A request, taken or not.
LEMMA RequestGoesOn ==
  ASSUME ExchangeInv, NEW k \in Kinds, NEW refusals, Requests(k, refusals)
  PROVE  ExchangeInv'
<1> USE DEF ExchangeInv
<1>1. kind = k /\ request = "unsent" /\ record = NotHeld /\ UNCHANGED <<kind, answered, outcome, pushed>>
  BY DEF Requests
<1>2. (request' = "declined" => record' = NotHeld) => OutcomeIsReported'
  BY <1>1, ReportStays
<1>3. Records' = Records /\ NotHeld \in Records
  BY <1>1 DEF Records, Amounts
<1>4. CASE Taken
  <2>1. PICK fiat \in Amounts, coin \in Amounts : record' = [code |-> 0, card |-> FALSE, fiat |-> fiat, coin |-> coin]
    BY <1>4 DEF Taken
  <2>2. 0 \in Codes[kind]
    BY Readings, States DEF ExchangeOK, Kinds, Codes
  <2>3. record' \in Records
    BY <2>1, <2>2 DEF Records
  <2>4. request' \in {"submitted", "unanswered"}
    BY <1>4 DEF Taken
  <2> QED
    BY <1>1, <1>2, <1>3, <2>3, <2>4 DEF ExchangeOK
<1>5. CASE NotTaken(refusals)
  <2>1. request' \in {"declined", "unanswered"} /\ record' = NotHeld
    BY <1>1, <1>5 DEF NotTaken
  <2> QED
    BY <1>1, <1>2, <1>3, <2>1 DEF ExchangeOK
<1> QED
  BY <1>4, <1>5 DEF Requests

\* The issuer goes on with what it holds.
LEMMA ProceedsGoesOn ==
  ASSUME ExchangeInv, Proceeds
  PROVE  ExchangeInv'
<1> USE DEF ExchangeInv
<1>1. UNCHANGED <<kind, request, answered, outcome, pushed>> /\ record # NotHeld
  BY DEF Proceeds
<1>2. PICK code \in Codes[kind], card \in BOOLEAN :
        /\ card => kind = "application"
        /\ record' = [record EXCEPT !.code = code, !.card = record.card \/ card]
  BY DEF Proceeds
<1>3. record \in [code : Codes[kind], card : BOOLEAN, fiat : Amounts, coin : Amounts]
      /\ (record.card => kind = "application")
  BY <1>1 DEF ExchangeOK, Records
<1>4. PICK held \in BOOLEAN : held = (record.card \/ card)
  OBVIOUS
<1>5. record' = [record EXCEPT !.code = code, !.card = held] /\ (held => kind = "application")
  BY <1>2, <1>3, <1>4
<1>6. record' \in Records
  BY <1>3, <1>5 DEF Records
<1>7. Records' = Records
  BY <1>1 DEF Records, Amounts
<1>8. request \notin {"unsent", "declined"}
  BY <1>1
<1>9. OutcomeIsReported'
  BY <1>1, <1>8, ReportStays
<1> QED
  BY <1>1, <1>6, <1>7, <1>8, <1>9 DEF ExchangeOK

\* A push carries the code of the card.
LEMMA PushGoesOn ==
  ASSUME ExchangeInv, Push
  PROVE  ExchangeInv'
<1> USE DEF ExchangeInv
<1>1. UNCHANGED <<kind, request, record, answered, outcome>> /\ pushed = Absent /\ record.card /\ pushed' = record.code
  BY DEF Push
<1>2. record # NotHeld
  BY <1>1 DEF NotHeld
<1>3. kind = "application" /\ record.code \in Codes[kind]
  BY <1>1, <1>2, HeldHasCode DEF ExchangeOK
<1>4. Records' = Records
  BY <1>1 DEF Records, Amounts
<1>5. OutcomeIsReported'
  BY <1>1, ReportStays
<1> QED
  BY <1>1, <1>3, <1>4, <1>5 DEF ExchangeOK

\* An answer, of which only the outcome is kept.
LEMMA AskGoesOn ==
  ASSUME ExchangeInv, answered' \in {record, Elsewhere}, UNCHANGED <<kind, request, record, pushed>>,
         OutcomeIsReported'
  PROVE  ExchangeInv'
<1>1. Records' = Records
  BY DEF Records, Amounts
<1> QED
  BY <1>1 DEF ExchangeInv, ExchangeOK

\* What is told of an application.
LEMMA ApplicationGoesOn ==
  ASSUME ExchangeInv, NEW a \in AnswersAbout, AskApplication(a)
  PROVE  ExchangeInv'
<1>1. /\ kind = "application" /\ Described(a) # NotHeld /\ answered' = Basis(a)
      /\ UNCHANGED <<kind, request, record, pushed>> /\ outcome' = getCardApplicationResult(a)
  BY DEF AskApplication, Asks
<1>2. request # "declined"
  BY DEF AskApplication, Asks
<1>3. PICK o : o = getCardApplicationResult(a)
  OBVIOUS
<1>4. ASSUME PassesForOurs(a)
      PROVE  OutcomeIsReported'
  <2>1. answered' = Elsewhere
    BY <1>1, <1>4 DEF Basis
  <2>2. o \in CardApplicationOutcomes /\ o.state # "UNKNOWN_REFERENCE"
    BY <1>3, <1>4, ApplicationWorded
  <2> QED
    BY <1>1, <1>2, <1>3, <2>1, <2>2 DEF OutcomeIsReported, CardApplicationOutcomes
<1>5. ASSUME ~PassesForOurs(a)
      PROVE  OutcomeIsReported'
  <2>1. record # NotHeld /\ answered' = record
    BY <1>1, <1>5, AboutOurs DEF Basis
  <2>2. /\ o \in CardApplicationOutcomes
        /\ o.state \in {"ISSUED", "REJECTED", "PENDING"}
        /\ o.state = "ISSUED" =>
             /\ record.card
             /\ o.status = "ACTIVE" => record.code \in {9, 13}
             /\ o.status = "CLOSED" => READING_BY_CODE[record.code].card = "CLOSED"
             /\ o.activation = "FAILED" => record.code \in {8, 12}
        /\ o.state = "REJECTED" => record.code \in {4, 5, 14, 15, 21, 22, 23}
    BY <1>1, <1>3, <1>5, <2>1, ApplicationTold DEF ExchangeInv
  <2> QED
    BY <1>1, <1>2, <1>3, <2>1, <2>2 DEF OutcomeIsReported, IsSaid, Final, CardApplicationOutcomes
<1>6. answered' \in {record, Elsewhere}
  BY <1>1 DEF Basis
<1> QED
  BY <1>1, <1>4, <1>5, <1>6, AskGoesOn

\* What is told of a deposit.
LEMMA DepositGoesOn ==
  ASSUME ExchangeInv, NEW a \in AnswersAbout, AskDeposit(a)
  PROVE  ExchangeInv'
<1>1. /\ kind = "deposit" /\ Described(a) # NotHeld /\ answered' = Basis(a) /\ assertEcho(a)
      /\ UNCHANGED <<kind, request, record, pushed>> /\ outcome' = getCardDepositResult(a)
  BY DEF AskDeposit, Asks
<1>2. request # "declined"
  BY DEF AskDeposit, Asks
<1>3. PICK o : o = getCardDepositResult(a)
  OBVIOUS
<1>4. ASSUME PassesForOurs(a)
      PROVE  OutcomeIsReported'
  <2>1. answered' = Elsewhere
    BY <1>1, <1>4 DEF Basis
  <2>2. o \in CardDepositOutcomes /\ o.state # "UNKNOWN_REFERENCE"
    BY <1>3, <1>4, DepositWorded
  <2> QED
    BY <1>1, <1>2, <1>3, <2>1, <2>2 DEF OutcomeIsReported, CardDepositOutcomes
<1>5. ASSUME ~PassesForOurs(a)
      PROVE  OutcomeIsReported'
  <2>1. record # NotHeld /\ answered' = record
    BY <1>1, <1>5, AboutOurs DEF Basis
  <2>2. /\ o \in CardDepositOutcomes
        /\ o.state \in {"PENDING", "SETTLED", "FAILED", "REFUND_PENDING", "REFUNDED"}
        /\ o.state = "SETTLED" => record.code = 1 /\ o.creditedAmount = record.fiat
        /\ o.state = "FAILED" => record.code = 2
        /\ o.state = "REFUND_PENDING" => record.code = 3
        /\ o.state = "REFUNDED" => record.code = 4
    BY <1>1, <1>3, <1>5, <2>1, DepositTold DEF ExchangeInv
  <2> QED
    BY <1>1, <1>2, <1>3, <2>1, <2>2 DEF OutcomeIsReported, IsSaid, CardDepositOutcomes
<1>6. answered' \in {record, Elsewhere}
  BY <1>1 DEF Basis
<1> QED
  BY <1>1, <1>4, <1>5, <1>6, AskGoesOn

\* What is told of an operation.
LEMMA OperationGoesOn ==
  ASSUME ExchangeInv, NEW a \in AnswersAbout, AskOperation(a)
  PROVE  ExchangeInv'
<1>1. /\ kind = "operation" /\ Described(a) # NotHeld /\ answered' = Basis(a) /\ assertEcho(a)
      /\ UNCHANGED <<kind, request, record, pushed>> /\ outcome' = getCardOperationResult(a)
  BY DEF AskOperation, Asks
<1>2. request # "declined"
  BY DEF AskOperation, Asks
<1>3. PICK o : o = getCardOperationResult(a)
  OBVIOUS
<1>4. ASSUME PassesForOurs(a)
      PROVE  OutcomeIsReported'
  <2>1. answered' = Elsewhere
    BY <1>1, <1>4 DEF Basis
  <2>2. o \in CardOperationOutcomes /\ o.state # "UNKNOWN_REFERENCE"
    BY <1>3, <1>4, OperationWorded
  <2> QED
    BY <1>1, <1>2, <1>3, <2>1, <2>2 DEF OutcomeIsReported, CardOperationOutcomes
<1>5. ASSUME ~PassesForOurs(a)
      PROVE  OutcomeIsReported'
  <2>1. record # NotHeld /\ answered' = record
    BY <1>1, <1>5, AboutOurs DEF Basis
  <2>2. /\ o \in CardOperationOutcomes
        /\ o.state \in {"PENDING", "APPLIED", "FAILED"}
        /\ o.state = "APPLIED" => record.code = 1
        /\ o.state = "FAILED" => record.code = 2
    BY <1>1, <1>3, <1>5, <2>1, OperationTold DEF ExchangeInv
  <2> QED
    BY <1>1, <1>2, <1>3, <2>1, <2>2 DEF OutcomeIsReported, IsSaid, CardOperationOutcomes
<1>6. answered' \in {record, Elsewhere}
  BY <1>1 DEF Basis
<1> QED
  BY <1>1, <1>4, <1>5, <1>6, AskGoesOn

\* The issuer says it holds no such request, or fails to say so.
LEMMA UnknownGoesOn ==
  ASSUME ExchangeInv, fetchApplicationResult \/ fetchRechargeResult \/ fetchOperationResult
  PROVE  ExchangeInv'
<1>1. /\ record = NotHeld /\ answered' = record /\ UNCHANGED <<kind, request, record, pushed>>
      /\ kind \in Kinds
      /\ outcome' = [state |-> IF kind = "operation" THEN "PENDING" ELSE "UNKNOWN_REFERENCE"]
  BY DEF fetchApplicationResult, fetchRechargeResult, fetchOperationResult, Asks, Kinds
<1>2. OutcomeIsReported'
  BY <1>1 DEF OutcomeIsReported, IsSaid, Kinds, CardApplicationOutcomes, CardDepositOutcomes, CardOperationOutcomes
<1> QED
  BY <1>1, <1>2, AskGoesOn

\* A card is moved to what the push says, or to what the issuer answers.
LEMMA MoveGoesOn ==
  ASSUME ExchangeInv, NEW a \in AnswersAbout, NEW body \in HyperCardPushEvents,
         mapHyperCardCallbackEvent(body).kind = "CARD_STATUS",
         ApplyIssuerCardStatus(mapHyperCardCallbackEvent(body).status, a)
  PROVE  ExchangeInv'
<1>1. PICK announced : announced = readHyperCardCardStatus(body.new_status)
  OBVIOUS
<1>2. mapHyperCardCallbackEvent(body).status = announced /\ announced # "null"
  BY <1>1 DEF mapHyperCardCallbackEvent, unhandled, HyperCardPushEvents
<1>3. /\ kind = "application" /\ answered' = Basis(a) /\ UNCHANGED <<kind, request, record, pushed>>
      /\ request # "declined"
  BY DEF ApplyIssuerCardStatus
<1>4. PICK status \in {readStatus(announced, a), announced} : outcome' = [state |-> "MOVED", status |-> status]
  BY <1>2 DEF ApplyIssuerCardStatus
<1>5. pushed # Absent /\ announced = READING_BY_CODE[pushed].card
  <2>1. body.new_status \in {pushed, UnknownCode, Garbled}
    BY DEF HyperCardPushEvents
  <2>2. normaliseHyperCardInteger(body.new_status) \in DOMAIN READING_BY_CODE
        /\ announced = READING_BY_CODE[body.new_status].card
    BY <1>1, <1>2 DEF readHyperCardCardStatus, readingOf, Reading
  <2>3. UnknownCode \notin DOMAIN READING_BY_CODE /\ UnknownCode \in Nat
    BY ExchangeAssumption DEF Codes, Kinds
  <2>4. body.new_status = pushed
    BY <2>1, <2>2, <2>3, Readings DEF normaliseHyperCardInteger, null, Garbled
  <2>5. pushed # Absent
    BY <2>2, <2>4, Readings DEF normaliseHyperCardInteger, null, Absent
  <2> QED
    BY <2>2, <2>4, <2>5
<1>6. ASSUME ~PassesForOurs(a)
      PROVE  \E code \in {record.code, pushed} : code # Absent /\ status = READING_BY_CODE[code].card
  <2>1. CASE status = announced
    BY <1>5, <2>1
  <2>2. CASE status # announced
    <3>1. PICK o : o = getCardApplicationResult(a)
      OBVIOUS
    <3>2. o.state = "ISSUED" /\ o.statusRecognised /\ status = o.status
      BY <1>4, <2>2, <3>1 DEF readStatus
    <3>3. record # NotHeld
      BY <1>3, <1>6, <3>1, <3>2, AboutOurs DEF getCardApplicationResult, NotHeld
    <3>4. status = READING_BY_CODE[record.code].card
      BY <1>3, <1>6, <3>1, <3>2, <3>3, ApplicationTold DEF ExchangeInv
    <3>5. record.code # Absent
      BY <1>3, <3>3, HeldHasCode DEF ExchangeInv, ExchangeOK
    <3> QED
      BY <3>4, <3>5
  <2> QED
    BY <2>1, <2>2
<1>7. CASE PassesForOurs(a)
  <2>1. answered' = Elsewhere
    BY <1>3, <1>7 DEF Basis
  <2> QED
    BY <1>3, <1>4, <2>1, AskGoesOn DEF OutcomeIsReported
<1>8. CASE ~PassesForOurs(a)
  <2>1. answered' = record
    BY <1>3, <1>8 DEF Basis
  <2>2. OutcomeIsReported'
    BY <1>3, <1>4, <1>6, <1>8, <2>1 DEF OutcomeIsReported, IsSaid
  <2> QED
    BY <1>3, <2>1, <2>2, AskGoesOn
<1> QED
  BY <1>7, <1>8

\* Every step of the exchange.
LEMMA ExchangeGoesOn == ExchangeInv /\ ExchangeNext => ExchangeInv'
<1> SUFFICES ASSUME ExchangeInv, ExchangeNext PROVE ExchangeInv'
  OBVIOUS
<1>1. CASE issueCard \/ requestCardDeposit \/ updateCardStatus
  BY <1>1, RequestGoesOn DEF issueCard, requestCardDeposit, updateCardStatus, Kinds
<1>2. ASSUME NEW body \in HyperCardPushEvents, NEW a \in AnswersAbout, dispatch(mapHyperCardCallbackEvent(body), a)
      PROVE  ExchangeInv'
  <2>1. mapHyperCardCallbackEvent(body).kind \in {"APPLICATION", "DEPOSIT", "OPERATION", "CARD_STATUS"}
    BY <1>2 DEF dispatch, mapHyperCardCallbackEvent, unhandled
  <2> QED
    BY <1>2, <2>1, ApplicationGoesOn, DepositGoesOn, OperationGoesOn, MoveGoesOn DEF dispatch
<1> QED
  BY <1>1, <1>2, ProceedsGoesOn, PushGoesOn, ApplicationGoesOn, DepositGoesOn, OperationGoesOn, UnknownGoesOn
  DEF ExchangeNext

\* What is told of a request is what the issuer's record of it says, for any
\* amounts (hypercard.adapter, its mappers of statuses and pushes, and
\* card-provider-callback.dispatcher).
THEOREM OutcomesReported == Spec => []OutcomeIsReported
<1>1. Init => ExchangeInv
  BY ExchangeBegins DEF Init
<1>2. ExchangeInv /\ [Next]_vars => ExchangeInv'
  <2> SUFFICES ASSUME ExchangeInv, [Next]_vars PROVE ExchangeInv'
    OBVIOUS
  <2>1. CASE Requesting
    BY <2>1, ExchangeGoesOn DEF Requesting
  <2>2. CASE UNCHANGED exchangeVars
    <3>1. Records' = Records
      BY <2>2 DEF exchangeVars, Records, Amounts
    <3>2. OutcomeIsReported'
      BY <2>2, ReportStays DEF exchangeVars, ExchangeInv
    <3> QED
      BY <2>2, <3>1, <3>2 DEF exchangeVars, ExchangeInv, ExchangeOK
  <2> QED
    BY <2>1, <2>2 DEF Next, Quoting, ReadingStatement, ReadingBalance, Collecting, vars
<1>3. ExchangeInv => OutcomeIsReported
  BY DEF ExchangeInv
<1> QED
  BY <1>1, <1>2, <1>3, PTL DEF Spec

-----------------------------------------------------------------------------
(* The pages of a statement. *)

\* The rows the issuer may hold, and what is made of them.
Flaws == {"none", "amount", "date"}
Rows == [id : Ids, at : Instants, flaw : Flaws]
Transactions == {mapHyperCardTransaction(row) : row \in Rows}

\* A row keeps its place, and has one identifier.
LEMMA TransactionTells ==
  ASSUME NEW row \in Rows
  PROVE  LET tx == mapHyperCardTransaction(row)
         IN  /\ tx.row = row.id /\ tx.at = row.at /\ tx.id = readTransactionId(row.id)
             /\ tx.id \in Int /\ tx.id >= 0 /\ tx.at \in Nat
<1>1. row.id \in Nat /\ row.at \in Nat
  <2>1. row.id \in Ids /\ row.at \in Instants
    BY DEF Rows
  <2>2. Ids \subseteq Nat /\ Instants \subseteq Nat
    BY StatementAssumption DEF Instants
  <2> QED
    BY <2>1, <2>2
<1>2. \A id \in Nat : readTransactionId(id) \in Int /\ readTransactionId(id) >= 0
  <2> SUFFICES ASSUME NEW id \in Nat
               PROVE  readTransactionId(id) \in Int /\ readTransactionId(id) >= 0
    OBVIOUS
  <2>1. PICK c : c = Coarseness /\ c \in Nat \ {0}
    BY StatementAssumption
  <2>2. PICK q : q = (id + c \div 2) \div c
    OBVIOUS
  <2>3. q \in Nat
    BY <2>1, <2>2
  <2>4. q * c \in Nat
    BY <2>1, <2>3
  <2> QED
    BY <2>1, <2>2, <2>4 DEF readTransactionId
<1> QED
  BY <1>1, <1>2 DEF mapHyperCardTransaction

\* A sequence of all the entries has each of them.
LEMMA SortedIsSorted ==
  ASSUME NEW S, IsFiniteSet(S), NEW s \in Sorted(S)
  PROVE  /\ Cardinality(S) \in Nat
         /\ s \in [1 .. Cardinality(S) -> S]
         /\ \A i, j \in 1 .. Cardinality(S) : i < j => ~isNewer(s[j], s[i]) /\ s[i] # s[j]
         /\ \A a \in S : \E i \in 1 .. Cardinality(S) : s[i] = a
<1> DEFINE n == Cardinality(S)
<1>1. n \in Nat
  BY FS_CardinalityType
<1>2. /\ s \in [1 .. n -> S]
      /\ \A i, j \in 1 .. n : i # j => s[i] # s[j]
      /\ \A i, j \in 1 .. n : i < j => ~isNewer(s[j], s[i])
  BY DEF Sorted, SetToSeqs
<1>3. s \in Injection(1 .. n, S)
  BY <1>2 DEF Injection, IsInjective
<1>4. Cardinality(1 .. n) = n /\ IsFiniteSet(1 .. n)
  BY <1>1, FS_Interval
<1>5. s \in Surjection(1 .. n, S)
  BY <1>3, <1>4, FS_Injection
<1>6. \A a \in S : \E i \in 1 .. n : s[i] = a
  BY <1>5 DEF Surjection
<1>7. \A i, j \in 1 .. n : i < j => i # j
  BY <1>1
<1> QED
  BY <1>1, <1>2, <1>6, <1>7

\* What is kept of the rows the issuer holds.
PostedOK ==
  /\ posted \subseteq Rows /\ IsFiniteSet(posted) /\ clock \in Instants
  /\ \A a, b \in posted : a.id = b.id => a = b

\* What is told of the rows the issuer holds.
Listed == {mapHyperCardTransaction(row) : row \in posted}

\* What is kept of the pages shown: transactions of the range, newest first.
ShownOK ==
  /\ shown \in Seq(Transactions)
  /\ \A i \in 1 .. Len(shown) : shown[i] \in Listed
  /\ \A i, j \in 1 .. Len(shown) : i < j => ~isNewer(shown[j], shown[i]) /\ shown[i] # shown[j]
  /\ \A i \in 1 .. Len(shown) : isWithin(asked, shown[i])

\* The row is on a page, or another that is published as it is.
IsTold(row) == \E i \in 1 .. Len(shown) : shown[i].at = row.at /\ shown[i].id = readTransactionId(row.id)

\* The range is still the one asked for; every row of it that was there is on a
\* page or comes after the cursor, and all that comes after it is older than
\* what is on the pages.
Onward(window) ==
  /\ asked = window /\ atStart \subseteq Entries(window)
  /\ \A row \in atStart : IsTold(row) \/ isAfter(cursor, mapHyperCardTransaction(row))
  /\ \A i \in 1 .. Len(shown), tx \in Transactions : isAfter(cursor, tx) => isNewer(shown[i], tx)

StatementInv ==
  /\ PostedOK /\ ShownOK
  /\ walk \in {"idle", "paging", "done", "failed"}
  /\ walk = "idle" => cursor = NoCursor /\ shown = <<>>
  /\ walk = "paging" => cursor # NoCursor /\ Onward([to |-> cursor.to, from |-> cursor.from])
  /\ walk = "done" => \A row \in atStart : IsTold(row)

IsRest(rest, from, window) ==
  /\ rest \in Seq(Transactions) /\ Len(rest) \in Nat
  /\ \A i \in 1 .. Len(rest) : rest[i] \in Listed
  /\ \A i, j \in 1 .. Len(rest) : i < j => ~isNewer(rest[j], rest[i]) /\ rest[i] # rest[j]
  /\ \A i \in 1 .. Len(rest) : isAfter(from, rest[i]) /\ isWithin(window, rest[i])
  /\ \A row \in Entries(window) : isAfter(from, mapHyperCardTransaction(row)) =>
       \E i \in 1 .. Len(rest) : rest[i] = mapHyperCardTransaction(row)

\* The entries of a page, as a sequence.
LEMMA RemainingIsRest ==
  ASSUME PostedOK, NEW window, mapsAll(window), NEW from, NEW rest \in Sorted(Remaining(from, window))
  PROVE  IsRest(rest, from, window)
<1> DEFINE E == Entries(window)
           A == {mapHyperCardTransaction(row) : row \in E}
           M == {tx \in A : isAfter(from, tx)}
<1>1. /\ E \subseteq Rows /\ E \subseteq posted /\ IsFiniteSet(E)
      /\ \A row \in E : isWithin(window, row)
  <2>1. E \subseteq posted
    BY DEF Entries, Answered
  <2>2. \A row \in E : isWithin(window, row)
    BY DEF mapsAll, Entries
  <2> QED
    BY <2>1, <2>2, FS_Subset DEF PostedOK
<1>2. IsFiniteSet(M)
  <2> DEFINE f == [row \in E |-> mapHyperCardTransaction(row)]
  <2>1. f \in Surjection(E, A)
    BY DEF Surjection
  <2>2. IsFiniteSet(A)
    BY <1>1, <2>1, FS_Surjection
  <2> QED
    BY <2>2, FS_Subset
<1>3. \A tx \in M : isAfter(from, tx) /\ isWithin(window, tx)
  <2> SUFFICES ASSUME NEW tx \in M PROVE isAfter(from, tx) /\ isWithin(window, tx)
    OBVIOUS
  <2>1. PICK row \in E : tx = mapHyperCardTransaction(row)
    OBVIOUS
  <2>2. tx.at = row.at
    BY <1>1, <2>1, TransactionTells
  <2> QED
    BY <1>1, <2>1, <2>2 DEF isWithin
<1>4. M \subseteq Transactions /\ M \subseteq Listed
  BY <1>1 DEF Transactions, Listed
<1>5. \A row \in E : isAfter(from, mapHyperCardTransaction(row)) => mapHyperCardTransaction(row) \in M
  OBVIOUS
<1>6. M = Remaining(from, window)
  BY DEF Remaining
<1> HIDE DEF M, E
<1>7. /\ Cardinality(M) \in Nat
      /\ rest \in [1 .. Cardinality(M) -> M]
      /\ \A i, j \in 1 .. Cardinality(M) : i < j => ~isNewer(rest[j], rest[i]) /\ rest[i] # rest[j]
      /\ \A a \in M : \E i \in 1 .. Cardinality(M) : rest[i] = a
  BY <1>2, <1>6, SortedIsSorted
<1>8. rest \in Seq(Transactions) /\ Len(rest) = Cardinality(M)
  BY <1>4, <1>7
<1>9. \A i \in 1 .. Cardinality(M) : isAfter(from, rest[i]) /\ isWithin(window, rest[i]) /\ rest[i] \in Listed
  BY <1>3, <1>4, <1>7
<1>10. \A row \in Entries(window) : isAfter(from, mapHyperCardTransaction(row)) =>
         \E i \in 1 .. Cardinality(M) : rest[i] = mapHyperCardTransaction(row)
  BY <1>5, <1>7 DEF E
<1> QED
  BY <1>7, <1>8, <1>9, <1>10 DEF IsRest

IsLonger(S, longer, q, page, r, m) ==
  /\ longer \in Seq(S) /\ Len(q) \in Nat /\ Len(longer) = Len(q) + m
  /\ \A i \in 1 .. Len(q) : longer[i] = q[i]
  /\ \A i \in 1 .. m : longer[Len(q) + i] = r[i]
  /\ Len(page) = m /\ (page = <<>> <=> m = 0)
  /\ m > 0 => Last(page) = r[m]

\* A page put behind those shown so far.
LEMMA Prolonged ==
  ASSUME NEW S, NEW q \in Seq(S), NEW r \in Seq(S), NEW m \in 0 .. Len(r), NEW page, page = SubSeq(r, 1, m),
         NEW longer, longer = q \o page
  PROVE  IsLonger(S, longer, q, page, r, m)
<1>1. /\ page \in Seq(S) /\ Len(page) = m
      /\ \A i \in 1 .. m : page[i] = r[i]
  OBVIOUS
<1>2. page = <<>> <=> m = 0
  <2>1. m = 0 => SubSeq(r, 1, m) = <<>>
    OBVIOUS
  <2> QED
    BY <1>1, <2>1
<1>3. m > 0 => Last(page) = r[m]
  BY <1>1 DEF Last
<1>4. /\ longer \in Seq(S) /\ Len(q) \in Nat /\ Len(longer) = Len(q) + m
      /\ \A i \in 1 .. Len(q) : longer[i] = q[i]
      /\ \A i \in 1 .. m : longer[Len(q) + i] = r[i]
  <2> HIDE <1>2
  <2>1. \A i \in 1 .. m : longer[Len(q) + i] = page[i]
    BY <1>1
  <2> QED
    BY <1>1, <2>1
<1> QED
  BY <1>1, <1>2, <1>3, <1>4 DEF IsLonger

\* What is not older than something newer is newer.
LEMMA NewerStill ==
  ASSUME NEW a \in Transactions, NEW b \in Transactions, NEW c \in Transactions, ~isNewer(b, a), isNewer(b, c)
  PROVE  isNewer(a, c)
<1>1. \A tx \in Transactions : tx.at \in Nat /\ tx.id \in Int
  BY TransactionTells DEF Transactions
<1> QED
  BY <1>1 DEF isNewer

\* What is newer is another, and not older.
LEMMA NewerIsAhead ==
  ASSUME NEW a \in Transactions, NEW b \in Transactions, isNewer(a, b)
  PROVE  ~isNewer(b, a) /\ a # b
<1>1. \A tx \in Transactions : tx.at \in Nat /\ tx.id \in Int
  BY TransactionTells DEF Transactions
<1> QED
  BY <1>1 DEF isNewer

\* A page of a range, read as the walk so far leaves it, or a page that fails.
LEMMA PageGoesOn ==
  ASSUME PostedOK, UNCHANGED <<clock, posted>>, NEW to, NEW from, NEW limit \in Limits,
         asked' = [to |-> to, from |-> from], atStart' \subseteq Entries(asked'),
         shown \in Seq(Transactions),
         \A i \in 1 .. Len(shown) : shown[i] \in Listed,
         \A i, j \in 1 .. Len(shown) : i < j => ~isNewer(shown[j], shown[i]) /\ shown[i] # shown[j],
         \A i \in 1 .. Len(shown) : isWithin(asked', shown[i]),
         \A row \in atStart' : IsTold(row) \/ isAfter(cursor, mapHyperCardTransaction(row)),
         \A i \in 1 .. Len(shown), tx \in Transactions : isAfter(cursor, tx) => isNewer(shown[i], tx),
         IF mapsAll(asked') THEN Shows(asked', limit) ELSE Fails
  PROVE  StatementInv'
<1>0. PICK window : window = asked' /\ window = [to |-> to, from |-> from]
  OBVIOUS
<1>1. PostedOK' /\ Entries(window)' = Entries(window) /\ Listed' = Listed
  BY DEF PostedOK, Entries, Answered, Listed
<1>2. CASE ~mapsAll(window)
  <2>1. walk' = "failed" /\ shown' = shown
    BY <1>0, <1>2 DEF Fails
  <2> QED
    BY <1>0, <1>1, <2>1 DEF StatementInv, ShownOK
<1>3. CASE mapsAll(window)
  <2>1. PICK rest \in Sorted(Remaining(cursor, window)) :
          LET page == Page(rest, window, limit)
          IN  /\ cursor' = page.next /\ shown' = shown \o page.items
              /\ walk' = IF page.next = NoCursor THEN "done" ELSE "paging"
    BY <1>0, <1>3 DEF Shows
  <2>2. /\ rest \in Seq(Transactions) /\ Len(rest) \in Nat
        /\ \A i \in 1 .. Len(rest) : rest[i] \in Listed
        /\ \A i, j \in 1 .. Len(rest) : i < j => ~isNewer(rest[j], rest[i]) /\ rest[i] # rest[j]
        /\ \A i \in 1 .. Len(rest) : isAfter(cursor, rest[i]) /\ isWithin(window, rest[i])
        /\ \A row \in Entries(window) : isAfter(cursor, mapHyperCardTransaction(row)) =>
             \E i \in 1 .. Len(rest) : rest[i] = mapHyperCardTransaction(row)
    <3>1. IsRest(rest, cursor, window)
      BY <1>3, <2>1, RemainingIsRest
    <3> QED
      BY <3>1 DEF IsRest
  <2>3. PICK m \in 0 .. Len(rest) : m = (IF limit < Len(rest) THEN limit ELSE Len(rest)) /\ (m = 0 => Len(rest) = 0)
    BY <2>2, StatementAssumption
  <2> DEFINE page == SubSeq(rest, 1, m)
             next == IF page # <<>> /\ Len(rest) > Len(page)
                       THEN [from |-> window.from, to |-> window.to, at |-> Last(page).at, id |-> Last(page).id]
                       ELSE NoCursor
  <2>4. shown' = shown \o page /\ cursor' = next /\ walk' = (IF next = NoCursor THEN "done" ELSE "paging")
    BY <2>1, <2>3 DEF Page
  <2>5. /\ shown' \in Seq(Transactions) /\ Len(shown) \in Nat /\ Len(shown') = Len(shown) + m
        /\ \A i \in 1 .. Len(shown) : shown'[i] = shown[i]
        /\ \A i \in 1 .. m : shown'[Len(shown) + i] = rest[i]
        /\ page = <<>> <=> m = 0
        /\ m > 0 => Last(page) = rest[m]
        /\ Len(page) = m
    <3>1. PICK shorter : shorter = page
      OBVIOUS
    <3> HIDE DEF page
    <3>2. shorter = SubSeq(rest, 1, m)
      BY <3>1 DEF page
    <3>3. shown' = shown \o shorter
      BY <2>4, <3>1
    <3>4. IsLonger(Transactions, shown', shown, shorter, rest, m)
      BY <2>2, <3>2, <3>3, Prolonged
    <3> QED
      BY <3>1, <3>4 DEF IsLonger
  <2> HIDE DEF page
  <2>6. \A i \in 1 .. Len(shown') : i \in 1 .. Len(shown) \/ \E k \in 1 .. m : i = Len(shown) + k
    <3> SUFFICES ASSUME NEW i \in 1 .. Len(shown'), i \notin 1 .. Len(shown)
                 PROVE  \E k \in 1 .. m : i = Len(shown) + k
      OBVIOUS
    <3>1. i - Len(shown) \in 1 .. m /\ i = Len(shown) + (i - Len(shown))
      BY <2>5
    <3> QED
      BY <3>1
  <2>7. \A i \in 1 .. m : i \in 1 .. Len(rest) /\ rest[i] \in Transactions
    BY <2>2
  <2>8. \A i, j \in 1 .. Len(shown') : i < j => ~isNewer(shown'[j], shown'[i]) /\ shown'[i] # shown'[j]
    <3> SUFFICES ASSUME NEW i \in 1 .. Len(shown'), NEW j \in 1 .. Len(shown'), i < j
                 PROVE  ~isNewer(shown'[j], shown'[i]) /\ shown'[i] # shown'[j]
      OBVIOUS
    <3>1. CASE j \in 1 .. Len(shown)
      BY <2>5, <3>1
    <3>2. CASE \E k \in 1 .. m : j = Len(shown) + k
      <4>1. PICK k \in 1 .. m : j = Len(shown) + k
        BY <3>2
      <4>2. shown'[j] = rest[k] /\ k \in 1 .. Len(rest) /\ rest[k] \in Transactions /\ isAfter(cursor, rest[k])
        BY <2>2, <2>5, <2>7, <4>1
      <4>3. CASE i \in 1 .. Len(shown)
        <5>1. shown'[i] = shown[i] /\ shown[i] \in Transactions /\ isNewer(shown[i], rest[k])
          BY <2>5, <4>2, <4>3
        <5> QED
          BY <4>2, <5>1, NewerIsAhead
      <4>4. CASE \E l \in 1 .. m : i = Len(shown) + l
        <5>1. PICK l \in 1 .. m : i = Len(shown) + l
          BY <4>4
        <5>2. l < k /\ l \in 1 .. Len(rest) /\ shown'[i] = rest[l]
          BY <2>5, <2>7, <4>1, <5>1
        <5> QED
          BY <2>2, <4>2, <5>2
      <4> QED
        BY <2>6, <4>3, <4>4
    <3> QED
      BY <2>6, <3>1, <3>2
  <2>14. \A i \in 1 .. Len(shown') : isWithin(window, shown'[i]) /\ shown'[i] \in Listed
    <3> SUFFICES ASSUME NEW i \in 1 .. Len(shown')
                 PROVE  isWithin(window, shown'[i]) /\ shown'[i] \in Listed
      OBVIOUS
    <3>1. CASE i \in 1 .. Len(shown)
      <4>1. shown'[i] = shown[i]
        BY <2>5, <3>1
      <4> QED
        BY <1>0, <3>1, <4>1
    <3>2. CASE \E k \in 1 .. m : i = Len(shown) + k
      <4>1. PICK k \in 1 .. m : i = Len(shown) + k
        BY <3>2
      <4>2. shown'[i] = rest[k] /\ k \in 1 .. Len(rest)
        BY <2>5, <2>7, <4>1
      <4> QED
        BY <2>2, <4>2
    <3> QED
      BY <2>6, <3>1, <3>2
  <2>9. \A i \in 1 .. Len(shown') : isWithin(window, shown'[i])
    BY <2>14
  <2>10. ShownOK'
    <3>1. \A i \in 1 .. Len(shown') : shown'[i] \in Listed
      BY <2>14
    <3> QED
      BY <1>0, <1>1, <2>5, <2>8, <2>9, <3>1 DEF ShownOK
  <2>11. \A row \in atStart' : IsTold(row)' \/ \E i \in m + 1 .. Len(rest) : rest[i] = mapHyperCardTransaction(row)
    <3> SUFFICES ASSUME NEW row \in atStart', ~(IsTold(row)')
                 PROVE  \E i \in m + 1 .. Len(rest) : rest[i] = mapHyperCardTransaction(row)
      OBVIOUS
    <3>0. row \in Rows
      BY <1>0 DEF Entries, Answered, PostedOK
    <3>1. \A i \in 1 .. Len(shown') : shown'[i] # mapHyperCardTransaction(row)
      BY <3>0, TransactionTells DEF IsTold
    <3>2. ~IsTold(row)
      <4>1. \A i \in 1 .. Len(shown) : i \in 1 .. Len(shown') /\ shown'[i] = shown[i]
        BY <2>5
      <4> QED
        BY <4>1 DEF IsTold
    <3>3. isAfter(cursor, mapHyperCardTransaction(row)) /\ row \in Entries(window)
      BY <1>0, <3>2
    <3>4. PICK i \in 1 .. Len(rest) : rest[i] = mapHyperCardTransaction(row)
      BY <2>2, <3>3
    <3>5. i \notin 1 .. m
      <4>1. \A k \in 1 .. m : Len(shown) + k \in 1 .. Len(shown') /\ shown'[Len(shown) + k] = rest[k]
        BY <2>5
      <4> QED
        BY <3>1, <3>4, <4>1
    <3>6. i \in m + 1 .. Len(rest)
      BY <2>2, <2>3, <3>5
    <3> QED
      BY <3>4, <3>6
  <2>12. CASE next = NoCursor
    <3>1. m = Len(rest)
      <4>1. CASE m = 0
        BY <2>3, <4>1
      <4>2. CASE m > 0 /\ Len(rest) > m
        <5>1. next.id = rest[m].id /\ rest[m] \in Transactions
          BY <2>5, <2>7, <4>2
        <5>2. rest[m].id \in Int /\ rest[m].id >= 0
          BY <5>1, TransactionTells DEF Transactions
        <5> QED
          BY <2>12, <5>1, <5>2 DEF NoCursor, null
      <4> QED
        BY <2>2, <2>3, <4>1, <4>2
    <3>2. \A row \in atStart' : IsTold(row)'
      BY <2>2, <2>11, <3>1
    <3>3. walk' = "done"
      BY <2>4, <2>12
    <3> QED
      BY <1>1, <2>10, <3>2, <3>3 DEF StatementInv
  <2>13. CASE next # NoCursor
    <3>1. PICK last \in Transactions :
            /\ m \in 1 .. Len(rest) /\ m > 0 /\ last = rest[m]
            /\ cursor' = [from |-> from, to |-> to, at |-> last.at, id |-> last.id]
      <4>1. page # <<>> /\ Len(rest) > m
        BY <2>5, <2>13
      <4>2. m > 0 /\ m \in 1 .. Len(rest)
        BY <2>2, <2>3, <2>5, <4>1
      <4> QED
        BY <1>0, <2>4, <2>5, <2>7, <4>1, <4>2
    <3>2. walk' = "paging" /\ cursor' # NoCursor
      BY <2>4, <2>13
    <3>3. \A tx \in Transactions : tx.at \in Nat /\ tx.id \in Int /\ tx.id >= 0
      BY TransactionTells DEF Transactions
    <3>4. \A row \in atStart' : IsTold(row)' \/ isAfter(cursor', mapHyperCardTransaction(row))
      <4> SUFFICES ASSUME NEW row \in atStart', ~(IsTold(row)'), NEW i \in m + 1 .. Len(rest),
                          rest[i] = mapHyperCardTransaction(row)
                   PROVE  isAfter(cursor', rest[i])
        BY <2>11
      <4>0. row \in Rows
        BY <1>0 DEF Entries, Answered, PostedOK
      <4>1. ~isNewer(rest[i], last) /\ rest[i] \in Transactions
        BY <2>2, <3>1
      <4>2. ~(last.at = rest[i].at /\ last.id = rest[i].id)
        <5>1. Len(shown) + m \in 1 .. Len(shown') /\ shown'[Len(shown) + m] = last
          BY <2>5, <3>1
        <5>2. rest[i].at = row.at /\ rest[i].id = readTransactionId(row.id)
          BY <4>0, TransactionTells
        <5> QED
          BY <5>1, <5>2 DEF IsTold
      <4> QED
        BY <3>1, <3>3, <4>1, <4>2 DEF isAfter, isNewer
    <3>5. \A i \in 1 .. Len(shown'), tx \in Transactions : isAfter(cursor', tx) => isNewer(shown'[i], tx)
      <4> SUFFICES ASSUME NEW i \in 1 .. Len(shown'), NEW tx \in Transactions, isAfter(cursor', tx)
                   PROVE  isNewer(shown'[i], tx)
        OBVIOUS
      <4>1. isNewer(last, tx)
        BY <3>1, <3>2 DEF isAfter, isNewer
      <4>2. Len(shown) + m \in 1 .. Len(shown') /\ shown'[Len(shown) + m] = last
        BY <2>5, <3>1
      <4>3. shown'[i] = last \/ ~isNewer(last, shown'[i])
        <5>1. i = Len(shown) + m \/ i < Len(shown) + m
          BY <2>5
        <5> QED
          BY <2>8, <4>2, <5>1
      <4>4. shown'[i] \in Transactions
        BY <2>5
      <4>5. shown'[i] = last => isNewer(shown'[i], tx)
        BY <4>1
      <4> QED
        BY <4>1, <4>3, <4>4, <4>5, NewerStill
    <3>6. [to |-> cursor'.to, from |-> cursor'.from] = window
      BY <1>0, <3>1
    <3>7. Onward([to |-> cursor.to, from |-> cursor.from])'
      BY <1>0, <1>1, <3>4, <3>5, <3>6 DEF Onward
    <3> QED
      BY <1>1, <2>10, <3>2, <3>7 DEF StatementInv
  <2> QED
    BY <2>12, <2>13
<1> QED
  BY <1>2, <1>3

\* No page has been asked for and no row booked.
LEMMA StatementBegins == StatementInit => StatementInv
<1> SUFFICES ASSUME StatementInit PROVE StatementInv
  OBVIOUS
<1>1. clock = 0 /\ posted = {} /\ walk = "idle" /\ cursor = NoCursor /\ shown = <<>>
  BY DEF StatementInit
<1>2. PostedOK
  <2>1. IsFiniteSet({})
    BY FS_EmptySet
  <2>2. 0 \in Instants
    BY StatementAssumption DEF Instants
  <2> QED
    BY <1>1, <2>1, <2>2 DEF PostedOK
<1>3. ShownOK
  BY <1>1 DEF ShownOK
<1> QED
  BY <1>1, <1>2, <1>3 DEF StatementInv

\* A walk that is not begun, or has failed, holds no range to keep to.
LEMMA StatementRests ==
  ASSUME PostedOK', walk' \in {"idle", "failed"}, ShownOK', walk' = "idle" => cursor' = NoCursor /\ shown' = <<>>
  PROVE  StatementInv'
BY DEF StatementInv

\* A first page, a further page, the end of a walk, a booked row, time.
LEMMA StatementStep == StatementInv /\ StatementNext => StatementInv'
<1> SUFFICES ASSUME StatementInv, StatementNext PROVE StatementInv'
  OBVIOUS
<1>0. PostedOK /\ ShownOK
  BY DEF StatementInv
<1>1. CASE \E params \in Params, limit \in Limits : ListCardTransactions(params, limit)
  <2>1. PICK params \in Params, limit \in Limits : ListCardTransactions(params, limit)
    BY <1>1
  <2>2. PICK to, from : resolveHyperCardStatementWindow(params, NoCursor) = [to |-> to, from |-> from]
    BY DEF resolveHyperCardStatementWindow
  <2>3. /\ walk = "idle" /\ asked' = [to |-> to, from |-> from] /\ atStart' = Entries(asked')
        /\ IF mapsAll(asked') THEN Shows(asked', limit) ELSE Fails
        /\ UNCHANGED <<clock, posted>>
    BY <2>1, <2>2 DEF ListCardTransactions
  <2>4. cursor = NoCursor /\ shown = <<>>
    BY <2>3 DEF StatementInv
  <2>5. shown \in Seq(Transactions) /\ Len(shown) = 0
    BY <2>4
  <2>6. \A row \in atStart' : IsTold(row) \/ isAfter(cursor, mapHyperCardTransaction(row))
    BY <2>4 DEF isAfter
  <2>7. /\ \A i \in 1 .. Len(shown) : shown[i] \in Listed
        /\ \A i, j \in 1 .. Len(shown) : i < j => ~isNewer(shown[j], shown[i]) /\ shown[i] # shown[j]
        /\ \A i \in 1 .. Len(shown) : isWithin(asked', shown[i])
        /\ \A i \in 1 .. Len(shown), tx \in Transactions : isAfter(cursor, tx) => isNewer(shown[i], tx)
    BY <2>5
  <2>8. atStart' \subseteq Entries(asked')
    BY <2>3
  <2> QED
    BY <1>0, <2>3, <2>5, <2>6, <2>7, <2>8, PageGoesOn
<1>2. CASE \E params \in Params, limit \in Limits : ListOn(params, limit)
  <2>1. PICK params \in Params, limit \in Limits : ListOn(params, limit)
    BY <1>2
  <2>2. walk = "paging"
    BY <2>1 DEF ListOn
  <2>3. PICK to, from : to = cursor.to /\ from = cursor.from
    OBVIOUS
  <2>4. cursor # NoCursor /\ Onward([to |-> to, from |-> from])
    BY <2>2, <2>3 DEF StatementInv
  <2>5. resolveHyperCardStatementWindow(params, cursor) = [to |-> to, from |-> from]
    BY <2>3, <2>4 DEF resolveHyperCardStatementWindow
  <2>6. asked = [to |-> to, from |-> from] /\ atStart \subseteq Entries(asked)
    BY <2>4 DEF Onward
  <2>7. /\ asked' = asked /\ atStart' = atStart
        /\ IF mapsAll(asked') THEN Shows(asked', limit) ELSE Fails
        /\ UNCHANGED <<clock, posted>>
    BY <2>1, <2>5, <2>6 DEF ListOn
  <2>8. /\ \A row \in atStart' : IsTold(row) \/ isAfter(cursor, mapHyperCardTransaction(row))
        /\ \A i \in 1 .. Len(shown), tx \in Transactions : isAfter(cursor, tx) => isNewer(shown[i], tx)
    BY <2>4, <2>7 DEF Onward
  <2>9. /\ shown \in Seq(Transactions)
        /\ \A i \in 1 .. Len(shown) : shown[i] \in Listed
        /\ \A i, j \in 1 .. Len(shown) : i < j => ~isNewer(shown[j], shown[i]) /\ shown[i] # shown[j]
        /\ \A i \in 1 .. Len(shown) : isWithin(asked', shown[i])
    BY <1>0, <2>7 DEF ShownOK
  <2>10. asked' = [to |-> to, from |-> from] /\ atStart' \subseteq Entries(asked')
    BY <2>6, <2>7
  <2> QED
    BY <1>0, <2>7, <2>8, <2>9, <2>10, PageGoesOn
<1>3. CASE WalkOver
  <2>1. walk' = "idle" /\ cursor' = NoCursor /\ shown' = <<>> /\ UNCHANGED <<clock, posted>>
    BY <1>3 DEF WalkOver
  <2>2. PostedOK'
    BY <1>0, <2>1 DEF PostedOK
  <2>3. ShownOK'
    BY <2>1 DEF ShownOK
  <2> QED
    BY <2>1, <2>2, <2>3, StatementRests
<1>4. CASE \E id \in Ids : Book(id)
  <2>1. PICK id \in Ids : Book(id)
    BY <1>4
  <2>2. PICK at \in 0 .. clock, flaw \in Flaws : posted' = posted \cup {[id |-> id, at |-> at, flaw |-> flaw]}
    BY <2>1 DEF Book, Flaws
  <2>3. UNCHANGED <<clock, walk, cursor, asked, atStart, shown>>
    BY <2>1 DEF Book
  <2>4. PICK new : new = [id |-> id, at |-> at, flaw |-> flaw]
    OBVIOUS
  <2>5. at \in Instants
    BY <1>0, StatementAssumption DEF PostedOK, Instants
  <2>6. new \in Rows /\ new.id = id
    BY <2>4, <2>5 DEF Rows
  <2>7. posted' = posted \cup {new} /\ \A row \in posted : row.id # new.id
    BY <2>1, <2>2, <2>4, <2>6 DEF Book
  <2>8. IsFiniteSet(posted')
    BY <1>0, <2>7, FS_AddElement DEF PostedOK
  <2>9. PostedOK'
    BY <1>0, <2>3, <2>6, <2>7, <2>8 DEF PostedOK
  <2>10. \A window : Entries(window) \subseteq Entries(window)'
    BY <2>7 DEF Entries, Answered
  <2>11. ShownOK' /\ \A row : IsTold(row)' <=> IsTold(row)
    <3>1. Listed \subseteq Listed'
      BY <2>7 DEF Listed
    <3> QED
      BY <1>0, <2>3, <3>1 DEF ShownOK, IsTold
  <2>12. ASSUME walk' = "paging" PROVE cursor' # NoCursor /\ Onward([to |-> cursor.to, from |-> cursor.from])'
    <3>1. cursor # NoCursor /\ Onward([to |-> cursor.to, from |-> cursor.from])
      BY <2>3, <2>12 DEF StatementInv
    <3>2. atStart' \subseteq Entries(asked)'
      BY <2>3, <2>10, <3>1 DEF Onward
    <3> QED
      BY <2>3, <2>11, <3>1, <3>2 DEF Onward
  <2> QED
    BY <2>3, <2>9, <2>11, <2>12 DEF StatementInv
<1>5. CASE Tick
  <2>1. UNCHANGED <<posted, walk, cursor, asked, atStart, shown>> /\ clock' \in Instants
    BY <1>0, <1>5, StatementAssumption DEF Tick, PostedOK, Instants
  <2>2. PostedOK' /\ ShownOK'
    BY <1>0, <2>1 DEF PostedOK, ShownOK, Listed
  <2>3. /\ \A row : IsTold(row)' <=> IsTold(row)
        /\ \A window : Entries(window)' = Entries(window)
    BY <2>1 DEF IsTold, Entries, Answered
  <2>4. Onward([to |-> cursor.to, from |-> cursor.from]) => Onward([to |-> cursor.to, from |-> cursor.from])'
    BY <2>1, <2>3 DEF Onward
  <2> QED
    BY <2>1, <2>2, <2>3, <2>4 DEF StatementInv
<1> QED
  BY <1>1, <1>2, <1>3, <1>4, <1>5 DEF StatementNext

\* What is kept says that the pages are whole.
LEMMA PagesAreWhole == StatementInv => PagedWhole
<1> SUFFICES ASSUME StatementInv PROVE PagedWhole
  OBVIOUS
<1>1. ShownOK
  BY DEF StatementInv
<1>2. DOMAIN shown = 1 .. Len(shown) /\ \A i \in 1 .. Len(shown) : shown[i] \in Transactions
  BY <1>1 DEF ShownOK
<1>3. \A tx : tx \in ToSet(shown) <=> \E i \in 1 .. Len(shown) : tx = shown[i]
  BY <1>2 DEF ToSet
<1>4. \A tx \in ToSet(shown) : isWithin(asked, tx)
  BY <1>1, <1>3 DEF ShownOK
<1>5. walk = "done" => \A row \in atStart : \E tx \in ToSet(shown) :
        tx.row = row.id \/ (tx.at = row.at /\ tx.id = readTransactionId(row.id))
  BY <1>3 DEF StatementInv, IsTold
<1>6. \A tx \in Listed : \E row \in posted : tx = mapHyperCardTransaction(row) /\ tx.row = row.id
  <2>1. posted \subseteq Rows
    BY DEF StatementInv, PostedOK
  <2> QED
    BY <2>1, TransactionTells DEF Listed
<1>7. \A i, j \in DOMAIN shown : i < j => ~isNewer(shown[j], shown[i]) /\ shown[i].row # shown[j].row
  <2> SUFFICES ASSUME NEW i \in DOMAIN shown, NEW j \in DOMAIN shown, i < j
               PROVE  ~isNewer(shown[j], shown[i]) /\ shown[i].row # shown[j].row
    OBVIOUS
  <2>1. ~isNewer(shown[j], shown[i]) /\ shown[i] # shown[j] /\ shown[i] \in Listed /\ shown[j] \in Listed
    BY <1>1, <1>2 DEF ShownOK
  <2>2. PICK a \in posted : shown[i] = mapHyperCardTransaction(a) /\ shown[i].row = a.id
    BY <1>6, <2>1
  <2>3. PICK b \in posted : shown[j] = mapHyperCardTransaction(b) /\ shown[j].row = b.id
    BY <1>6, <2>1
  <2>4. a.id = b.id => a = b
    BY DEF StatementInv, PostedOK
  <2> QED
    BY <2>1, <2>2, <2>3, <2>4
<1> QED
  BY <1>4, <1>5, <1>7 DEF PagedWhole

\* The pages of a walk put together are transactions of the range it was begun
\* with, newest first and none twice, and a walk that reached its end has shown
\* every row that was there when it was begun, or one of the same instant that is
\* published under the same identifier.
THEOREM PagesWhole == Spec => []PagedWhole
<1>1. Init => StatementInv
  BY StatementBegins DEF Init
<1>2. StatementInv /\ [Next]_vars => StatementInv'
  <2> SUFFICES ASSUME StatementInv, [Next]_vars PROVE StatementInv'
    OBVIOUS
  <2>1. CASE ReadingStatement
    BY <2>1, StatementStep DEF ReadingStatement
  <2>2. CASE UNCHANGED statementVars
    <3>1. UNCHANGED <<clock, posted, walk, cursor, asked, atStart, shown>>
      BY <2>2 DEF statementVars
    <3>2. PostedOK' = PostedOK /\ ShownOK' = ShownOK
      BY <3>1 DEF PostedOK, ShownOK, Listed
    <3>3. /\ \A row : IsTold(row)' = IsTold(row)
          /\ \A window : Onward(window)' = Onward(window)
      BY <3>1 DEF IsTold, Onward, Entries, Answered
    <3> QED
      BY <3>1, <3>2, <3>3 DEF StatementInv
  <2> QED
    BY <2>1, <2>2 DEF Next, vars, Quoting, ReadingBalance, Requesting, Collecting
<1>3. StatementInv => PagedWhole
  BY PagesAreWhole
<1> QED
  BY <1>1, <1>2, <1>3, PTL DEF Spec
=============================================================================
