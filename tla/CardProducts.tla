---------------------------- MODULE CardProducts ----------------------------
(***************************************************************************)
(* One card product from the issuer's row of codes to what a partner reads *)
(* of it, what an application is made under, and what a card opened under  *)
(* it accepts (hypercard-card-product.mapper, the columns of card_product, *)
(* card-product-resolver, card-operation-availability).                    *)
(*                                                                         *)
(* Labels and the order of lists are left out.                             *)
(***************************************************************************)
EXTENDS HyperCardValues, Sequences, FiniteSetsExt, TLC

FEE_CURRENCY_CODE == "USDT"
HYPERCARD_FLAG_YES == 1

toFee(raw) ==
  LET amount == normaliseHyperCardAmount(raw)
  IN  IF amount = null \/ isZeroHyperCardAmount(amount)
      THEN [amount |-> null, currencyCode |-> "null"]
      ELSE [amount |-> amount, currencyCode |-> FEE_CURRENCY_CODE]

\* A fraction becomes a percentage: the point moves two places.
shiftDecimalPointRight(amount, places) == IF amount = Finer THEN Finer ELSE amount * 10 ^ places
toDepositFeePercent(raw) ==
  LET fraction == normaliseHyperCardAmount(raw)
  IN  IF fraction = null \/ isZeroHyperCardAmount(fraction) THEN null
      ELSE shiftDecimalPointRight(fraction, 2)

isAffirmativeFlag(raw) == normaliseHyperCardInteger(raw) = HYPERCARD_FLAG_YES
isEnabledFlag(raw) == raw \in {Absent, Blank} \/ normaliseHyperCardInteger(raw) = HYPERCARD_FLAG_YES

-----------------------------------------------------------------------------
(* The issuer's appendices: a table is a function from its codes. *)

CARD_TYPE_BY_CODE == <<"VIRTUAL", "PHYSICAL">>
ORGANISATION_BY_CODE == <<"VISA", "MASTERCARD", "AMERICAN_EXPRESS", "UNIONPAY", "DISCOVER", "JCB">>
MATERIAL_BY_CODE == <<"METAL", "PLASTIC">>
APPLICATION_MODE_BY_CODE ==
  <<"FULL_KYC", "NO_KYC", "PREISSUED_CARD", "KYC_WITH_BILLING_ADDRESS", "ONLINE_KYC">>
ACTIVATION_BY_CODE ==
  <<[mode |-> "ISSUER_REQUEST", document |-> 1], [mode |-> "CARDHOLDER_DIRECT", document |-> null],
    [mode |-> "ISSUER_REQUEST", document |-> 0]>>
SENSITIVE_DETAIL_MODE_BY_CODE ==
  [c \in 0 .. 2 |-> <<"API", "HOSTED_PAGE", "CARDHOLDER_DIRECT">>[c + 1]]
OPERATION_BY_CODE ==
  [c \in 1 .. 6 \cup {9} |->
     IF c = 9 THEN "CANCEL"
     ELSE <<"BLOCK", "UNBLOCK", "REPORT_LOSS", "RESET_PASSWORD", "REISSUE", "CHANGE_PIN">>[c]]

Known(table, raw) == normaliseHyperCardInteger(raw) \in DOMAIN table
lookupCode(table, raw) == IF Known(table, raw) THEN table[raw] ELSE "undefined"

\* A row with a code nobody can name is left out, not guessed at. Only the
\* material may be absent.
Understood(row) ==
  /\ row.card_type_id >= 0 /\ row.card_coin >= 0
  /\ Known(CARD_TYPE_BY_CODE, row.card_type)
  /\ Known(ORGANISATION_BY_CODE, row.card_org)
  /\ row.card_sub_type = Absent \/ Known(MATERIAL_BY_CODE, row.card_sub_type)
  /\ Known(APPLICATION_MODE_BY_CODE, row.apply_type)
  /\ Known(ACTIVATION_BY_CODE, row.activate_type)

resolveSensitiveDetailMode(row) ==
  IF Known(SENSITIVE_DETAIL_MODE_BY_CODE, row.card_detail_obtain_way)
  THEN lookupCode(SENSITIVE_DETAIL_MODE_BY_CODE, row.card_detail_obtain_way) ELSE "null"

\* support_business is the set of the codes in the list; one that nobody can
\* name is dropped.
mapSupportedOperations(row) ==
  {lookupCode(OPERATION_BY_CODE, c) : c \in {d \in row.support_business : Known(OPERATION_BY_CODE, d)}}

mapHyperCardCardProduct(row) ==
  [cardType |-> lookupCode(CARD_TYPE_BY_CODE, row.card_type),
   cardOrganisation |-> lookupCode(ORGANISATION_BY_CODE, row.card_org),
   material |-> IF row.card_sub_type = Absent THEN "null" ELSE lookupCode(MATERIAL_BY_CODE, row.card_sub_type),
   currencyCode |-> row.card_coin,
   issuanceFee |-> toFee(row.card_fee), annualFee |-> toFee(row.annual_fee),
   depositFeePercent |-> toDepositFeePercent(row.recharge_fee),
   minPerTransaction |-> normaliseHyperCardAmount(row.min_single_recharge_amount),
   maxPerTransaction |-> normaliseHyperCardAmount(row.max_single_recharge_amount),
   maxPerDay |-> normaliseHyperCardAmount(row.max_recharge_amount),
   requiresInitialDeposit |-> isAffirmativeFlag(row.need_first_recharge),
   minInitialDeposit |-> normaliseHyperCardAmount(row.min_first_recharge_amount),
   applicationMode |-> lookupCode(APPLICATION_MODE_BY_CODE, row.apply_type),
   requiresKyc |-> lookupCode(APPLICATION_MODE_BY_CODE, row.apply_type) # "NO_KYC",
   activation |-> lookupCode(ACTIVATION_BY_CODE, row.activate_type),
   sensitiveDetailMode |-> resolveSensitiveDetailMode(row),
   availableForIssuance |-> isEnabledFlag(row.status) /\ isEnabledFlag(row.can_recharge),
   supportedOperations |-> mapSupportedOperations(row)]

\* The listing as a function from handles: of the rows of one handle, the
\* first that is understood.
mapHyperCardCardProducts(data) ==
  LET readable == {i \in DOMAIN data : Understood(data[i])}
      first(p) == Min({i \in readable : data[i].card_type_id = p})
  IN  [p \in {data[i].card_type_id : i \in readable} |-> mapHyperCardCardProduct(data[first(p)])]

-----------------------------------------------------------------------------
(* The row that is stored, and the three readings of it. A product's pairs *)
(* (a fee, the activation) are stored as two columns each.                 *)

UPSERT_COLUMNS == {"cardType", "cardOrganisation", "material", "currencyCode", "depositFeePercent",
  "minPerTransaction", "maxPerTransaction", "maxPerDay", "requiresInitialDeposit",
  "minInitialDeposit", "applicationMode", "requiresKyc", "sensitiveDetailMode",
  "availableForIssuance", "supportedOperations"}

\* The columns of the one and the columns of the other.
Joined(f, g) == [c \in DOMAIN f \cup DOMAIN g |-> IF c \in DOMAIN f THEN f[c] ELSE g[c]]

toRowFields(product) == Joined(
  [c \in UPSERT_COLUMNS |-> product[c]],
  [issuanceFeeAmount |-> product.issuanceFee.amount,
   issuanceFeeCurrency |-> product.issuanceFee.currencyCode,
   annualFeeAmount |-> product.annualFee.amount,
   annualFeeCurrency |-> product.annualFee.currencyCode,
   activationMode |-> product.activation.mode,
   activationRequiresIdentityDocument |->
     IF product.activation.mode = "ISSUER_REQUEST" THEN product.activation.document ELSE null])

\* Half a fee is no fee.
pairedFee(amount, currency) ==
  IF amount # null /\ currency # "null" THEN [amount |-> amount, currencyCode |-> currency]
  ELSE [amount |-> null, currencyCode |-> "null"]

toCardProductResponse(row) == Joined(
  [c \in UPSERT_COLUMNS |-> row[c]],
  [issuanceFee |-> pairedFee(row.issuanceFeeAmount, row.issuanceFeeCurrency),
   annualFee |-> pairedFee(row.annualFeeAmount, row.annualFeeCurrency),
   activation |-> [mode |-> row.activationMode,
     document |-> IF row.activationMode = "ISSUER_REQUEST" THEN row.activationRequiresIdentityDocument
                  ELSE null]])

\* What an application is made under; a product that is not on offer is refused.
assertAvailableForIssuance(row) == row.availableForIssuance
project(row) ==
  [applicationMode |-> row.applicationMode, cardType |-> row.cardType, currencyCode |-> row.currencyCode,
   requiresInitialDeposit |-> row.requiresInitialDeposit, depositMinInitial |-> row.minInitialDeposit,
   issuanceFee |-> pairedFee(row.issuanceFeeAmount, row.issuanceFeeCurrency)]

\* The one offer that a reference to the product resolves to, if it is on offer.
resolve(row) == IF assertAvailableForIssuance(row) THEN {project(row)} ELSE {}

\* What a card opened under it is funded by, on offer or withdrawn.
resolveForCard(row) ==
  [currencyCode |-> row.currencyCode, depositMinPerTransaction |-> row.minPerTransaction,
   depositMaxPerTransaction |-> row.maxPerTransaction]
=============================================================================
