-------------------------- MODULE ProviderReadings --------------------------
(***************************************************************************)
(* What a partner is told on the strength of one kind of answer of a       *)
(* provider's: the price of a deposit, a card's statement, its balance,    *)
(* what became of a request to the issuer, or of a payment at a gateway.   *)
(* They share no state; a behaviour follows one of them, its topic, and    *)
(* the others stay as they began.                                          *)
(***************************************************************************)
EXTENDS FundingQuotes, CardStatement, CardBalances, HyperCardExchange, GatewayResults

VARIABLE topic

vars == <<topic, quoteVars, statementVars, balanceVars, exchangeVars, gatewayVars>>

Topics == {"quote", "statement", "balance", "request", "payment"}

Init ==
  /\ topic \in Topics
  /\ FundingInit /\ StatementInit /\ BalanceInit /\ ExchangeInit /\ GatewayInit
  /\ topic # "quote" => product = CHOOSE row \in Stored : TRUE
  /\ topic # "balance" => bank = CHOOSE b \in {<<b>> : b \in Balances} : TRUE
  /\ topic # "request" => kind = "application"
  /\ topic # "payment" => gateway = "MLT" /\ price = CHOOSE p \in Payments : TRUE

Quoting ==
  topic = "quote" /\ FundingNext /\ UNCHANGED <<topic, statementVars, balanceVars, exchangeVars, gatewayVars>>
ReadingStatement ==
  topic = "statement" /\ StatementNext /\ UNCHANGED <<topic, quoteVars, balanceVars, exchangeVars, gatewayVars>>
ReadingBalance ==
  topic = "balance" /\ BalanceNext /\ UNCHANGED <<topic, quoteVars, statementVars, exchangeVars, gatewayVars>>
Requesting ==
  topic = "request" /\ ExchangeNext /\ UNCHANGED <<topic, quoteVars, statementVars, balanceVars, gatewayVars>>
Collecting ==
  topic = "payment" /\ GatewayNext /\ UNCHANGED <<topic, quoteVars, statementVars, balanceVars, exchangeVars>>

Next == Quoting \/ ReadingStatement \/ ReadingBalance \/ Requesting \/ Collecting

Spec == Init /\ [][Next]_vars
=============================================================================
