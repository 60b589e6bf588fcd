--------------------------- MODULE FundingQuotes ---------------------------
(***************************************************************************)
(* What a partner is told to send before it opens a card or tops one up    *)
(* (quote-card-funding, quote-card-deposit, card-funding-quote,            *)
(* decimal-amount.util, funding-token), and the request it then makes for  *)
(* the amount it was quoted: the gates of issue-card and                   *)
(* request-card-deposit on the product and the amount. The product may be  *)
(* stored anew between the two.                                            *)
(***************************************************************************)
EXTENDS CardProducts

CONSTANTS
  ProductRows,   \* what the issuer may list of the one product
  Requested,     \* the amounts a partner asks for: positive, at most eight places
  Prices,        \* what the issuer may answer for a price
  Networks       \* the chains a partner names, "null" for none

VARIABLES
  product,   \* the stored row of the product
  quoted,    \* the quote that is held, or NoQuote
  acted      \* what became of the request made with it: "no", "accepted", "refused"

quoteVars == <<product, quoted, acted>>

Stored == {toRowFields(mapHyperCardCardProduct(row)) : row \in ProductRows}
NoQuote == [kind |-> "none"]

FundingInit == product \in Stored /\ quoted = NoQuote /\ acted = "no"

-----------------------------------------------------------------------------
(* Decimal strings, at eight places. An amount with more has no value here. *)

COMPARISON_SCALE == 8
addDecimalStrings(a, b) == IF Finer \in {a, b} THEN null ELSE a + b
isLess(a, b) == a # Finer /\ b # Finer /\ a < b
isIncomparable(a, b) == Finer \in {a, b}

\* Mutant: to the chain's places, down.
roundDownDecimalString(amount, decimals) ==
  IF amount = Finer THEN null
  ELSE IF decimals >= COMPARISON_SCALE THEN amount
  ELSE amount - (amount % (10 ^ (COMPARISON_SCALE - decimals)))
roundUpDecimalString(amount, decimals) ==
  IF amount = Finer THEN null
  ELSE IF decimals >= COMPARISON_SCALE THEN amount
  ELSE LET step == 10 ^ (COMPARISON_SCALE - decimals)
           remainder == amount % step
       IN  IF remainder = 0 THEN amount ELSE amount + (step - remainder)

\* The decimals of the coin on each chain.
FUNDING_TOKENS == [ETHEREUM |-> 6, BSC |-> 18, POLYGON |-> 6, OPTIMISM |-> 6, ARBITRUM |-> 6, TRON |-> 6]
FundingNetworks == DOMAIN FUNDING_TOKENS

\* A partner names a chain the coin is on, or none; the amounts the issuer
\* sends are fields of its answers.
ASSUME FundingAssumption ==
  /\ Networks \subseteq FundingNetworks \cup {"null"}
  /\ \A row \in ProductRows : row.card_fee \in Fields
  /\ \A price \in Prices : price.recharge_amount \in Fields

fundingCoinPrecision(coin, network) ==
  IF coin # "USDT" THEN null
  ELSE IF network # "null" THEN FUNDING_TOKENS[network]
  ELSE Min({FUNDING_TOKENS[n] : n \in FundingNetworks})

payableFundingAmount(owed, network) ==
  LET decimals == fundingCoinPrecision(owed.currencyCode, network)
  IN  IF decimals = null THEN null ELSE roundUpDecimalString(owed.amount, decimals)

-----------------------------------------------------------------------------
(* The gates. *)

\* Mutant: the product's minimum is held against mandatory deposits only.
meetsMandate(amount, offer) ==
  offer.requiresInitialDeposit /\ offer.depositMinInitial # null =>
    /\ ~isIncomparable(amount, offer.depositMinInitial) /\ ~isLess(amount, offer.depositMinInitial)
assertMeetsMinimum(amount, offer) ==
  offer.depositMinInitial # null =>
    /\ ~isIncomparable(amount, offer.depositMinInitial) /\ ~isLess(amount, offer.depositMinInitial)

assertDepositAmountWithinLimits(amount, funded) ==
  /\ funded.depositMinPerTransaction # null =>
       ~isIncomparable(amount, funded.depositMinPerTransaction) /\ ~isLess(amount, funded.depositMinPerTransaction)
  /\ funded.depositMaxPerTransaction # null =>
       ~isIncomparable(amount, funded.depositMaxPerTransaction) /\ ~isLess(funded.depositMaxPerTransaction, amount)

\* Issuance settles the opening deposit on its own.
resolveInitialDeposit(amount, offer) ==
  offer.depositMinInitial # null =>
    /\ ~isIncomparable(amount, offer.depositMinInitial) /\ ~isLess(amount, offer.depositMinInitial)

-----------------------------------------------------------------------------
(* The quotes. *)

\* In the case the mapper puts codes of currencies into.
HYPERCARD_RECHARGE_PAY_COIN == "USDT"

\* The issuer's estimate as a cost, or not at all: another coin than the one
\* asked for, or an amount that cannot be read, fails the request.
mapHyperCardFundingQuote(price) ==
  /\ price.pay_coin \in {"null", HYPERCARD_RECHARGE_PAY_COIN}
  /\ null \notin {normaliseHyperCardAmount(a) :
       a \in {price.currency_amount, price.recharge_amount, price.recharge_fee_amount}}
costOf(price) == [amount |-> normaliseHyperCardAmount(price.recharge_amount), currencyCode |-> HYPERCARD_RECHARGE_PAY_COIN]

NoTotal == [amount |-> null, currencyCode |-> "null"]
total(cost, issuanceFee) ==
  IF issuanceFee.amount = null THEN cost
  ELSE IF issuanceFee.currencyCode # cost.currencyCode THEN NoTotal
  ELSE LET amount == addDecimalStrings(cost.amount, issuanceFee.amount)
       IN  IF amount = null THEN NoTotal ELSE [amount |-> amount, currencyCode |-> cost.currencyCode]

Told(kind, amount, network, price, owed) ==
  [kind |-> kind, amount |-> amount, network |-> network, price |-> price, row |-> product,
   payable |-> IF owed = NoTotal THEN null ELSE payableFundingAmount(owed, network)]

\* Opening a card: the deposit's cost and the card fee. Every refusal leaves
\* the partner with no quote.
QuoteOpening(amount, network, price) ==
  /\ quoted = NoQuote
  /\ \E offer \in resolve(product) :
       /\ assertMeetsMinimum(amount, offer) /\ mapHyperCardFundingQuote(price)
       /\ quoted' = Told("open", amount, network, price, total(costOf(price), offer.issuanceFee))
  /\ UNCHANGED <<product, acted>>

\* A top-up of a card opened under the product, on offer or not: no card fee.
QuoteTopUp(amount, network, price) ==
  /\ quoted = NoQuote
  /\ assertDepositAmountWithinLimits(amount, resolveForCard(product))
  /\ mapHyperCardFundingQuote(price)
  /\ quoted' = Told("topUp", amount, network, price, costOf(price))
  /\ UNCHANGED <<product, acted>>

\* A run of the sync stores the product as it is listed now, or withdraws it.
StoreProduct ==
  /\ acted = "no"
  /\ product' \in Stored \cup {[product EXCEPT !.availableForIssuance = FALSE]}
  /\ UNCHANGED <<quoted, acted>>

\* Of what the issuer's adapter can do: the form factors it issues, and the
\* modes of application it sends. A request for another is refused, the mode
\* when the application is about to be sent.
IssuableTypes == {"VIRTUAL"}
SUPPORTED_APPLICATION_MODES == {"NO_KYC"}

\* What a partner says of the card is what it was quoted, its currency or nothing.
Applications == [cardType : {quoted.row.cardType}, currency : {quoted.row.currencyCode, null}]
assertCardTypeMatchesProduct(application, offer) == application.cardType = offer.cardType
resolveCurrency(application, offer) == application.currency \in {offer.currencyCode, null}

IsIssued(application) ==
  /\ application.cardType \in IssuableTypes
  /\ \E offer \in resolve(product) :
       /\ assertCardTypeMatchesProduct(application, offer) /\ resolveCurrency(application, offer)
       /\ resolveInitialDeposit(quoted.amount, offer)
       /\ offer.applicationMode \in SUPPORTED_APPLICATION_MODES

\* The application or the deposit, for the amount that was quoted.
Apply(application) ==
  /\ quoted.kind = "open" /\ acted = "no"
  /\ acted' = IF IsIssued(application) THEN "accepted" ELSE "refused"
  /\ UNCHANGED <<product, quoted>>
Deposit ==
  /\ quoted.kind = "topUp" /\ acted = "no"
  /\ acted' = IF assertDepositAmountWithinLimits(quoted.amount, resolveForCard(product)) THEN "accepted" ELSE "refused"
  /\ UNCHANGED <<product, quoted>>

AskAgain ==
  /\ acted # "no" /\ acted' = "no" /\ quoted' = NoQuote
  /\ UNCHANGED product

FundingNext ==
  \/ \E amount \in Requested, network \in Networks, price \in Prices :
       QuoteOpening(amount, network, price) \/ QuoteTopUp(amount, network, price)
  \/ StoreProduct \/ Deposit \/ AskAgain
  \/ quoted # NoQuote /\ \E application \in Applications : Apply(application)

-----------------------------------------------------------------------------
\* The figure a partner is told to send covers everything that is owed, the
\* issuer's price and on opening its card fee, can be carried by every chain
\* it may be sent on, and is the least such figure.
QuoteCovers ==
  quoted # NoQuote =>
    LET fee  == IF quoted.kind = "open" /\ quoted.row.issuanceFeeAmount # null THEN quoted.row.issuanceFeeAmount ELSE 0
        owed == addDecimalStrings(quoted.price.recharge_amount, fee)
        on   == IF quoted.network = "null" THEN FundingNetworks ELSE {quoted.network}
        grain == 10 ^ (COMPARISON_SCALE - Min({FUNDING_TOKENS[n] : n \in on} \cup {COMPARISON_SCALE}))
    IN  IF owed = null THEN quoted.payable = null
        ELSE /\ quoted.payable >= owed /\ quoted.payable < owed + grain
             /\ quoted.payable % grain = 0

\* What was quoted is taken when it is asked for, unless the product has been
\* stored differently since, or is one this integration applies for no card of:
\* a partner is not priced an amount its application or its deposit will be
\* refused for.
QuotedIsAccepted ==
  acted = "refused" =>
    \/ product # quoted.row
    \/ quoted.kind = "open" /\ product.cardType \notin IssuableTypes
    \/ quoted.kind = "open" /\ product.applicationMode \notin SUPPORTED_APPLICATION_MODES
=============================================================================
