---------------------------- MODULE CardBalances ----------------------------
(***************************************************************************)
(* What is stored of the balance of one active card (reconcile-card-       *)
(* balances, hypercard-card-balance.mapper), while the card is used: a     *)
(* pass reads the row, asks the issuer, and compares with the row as it    *)
(* read it. The timer does not wait for its pass: one that is slow would   *)
(* meet the next (reconcile-cards-sweep).                                  *)
(***************************************************************************)
EXTENDS HyperCardValues, Sequences

CONSTANTS
  BalancePasses,   \* the passes a timer starts
  Balances,        \* the balances a card may have, pairs of available and ledger
  LastChange       \* bound: how often the balance may change

VARIABLES
  bank,       \* bank[t]: the balance the issuer held at its t-th moment, the last being now
  balance,    \* the balance columns of the row: the figures and when they were observed
  inFlight,   \* the process' flag: a pass is running
  pass,       \* of a pass: "idle", "loaded", "asking" or "answered"
  loaded,     \* of a pass: the row as it read it
  reading,    \* of a pass: the answer it was given
  latest      \* the answer of all that were dealt with that was asked for last

balanceVars == <<bank, balance, inFlight, pass, loaded, reading, latest>>

NoBalance == [figures |-> <<null, null>>, observedAt |-> 0]

BalanceInit ==
  /\ bank \in {<<b>> : b \in Balances} /\ balance = NoBalance
  /\ inFlight = FALSE /\ pass = [p \in BalancePasses |-> "idle"]
  /\ loaded = [p \in BalancePasses |-> NoBalance] /\ reading = [p \in BalancePasses |-> NoBalance]
  /\ latest = NoBalance

PassOver(p) ==
  /\ pass' = [pass EXCEPT ![p] = "idle"] /\ inFlight' = FALSE
  /\ loaded' = [loaded EXCEPT ![p] = NoBalance] /\ reading' = [reading EXCEPT ![p] = NoBalance]

-----------------------------------------------------------------------------
\* The card is paid with, or paid into.
BalanceChanges ==
  /\ Len(bank) <= LastChange
  /\ \E b \in Balances : bank' = Append(bank, b)
  /\ UNCHANGED <<balance, inFlight, pass, loaded, reading, latest>>

\* Mutant: the timer starts a pass whether or not one is running.
StartsAlways == TRUE
MayStart == ~inFlight
sweep(p) ==
  /\ pass[p] = "idle" /\ MayStart
  /\ inFlight' = TRUE /\ pass' = [pass EXCEPT ![p] = "loaded"]
  /\ loaded' = [loaded EXCEPT ![p] = balance]
  /\ UNCHANGED <<bank, balance, reading, latest>>

\* An observation is dated when the question is asked.
getCardBalance(p) ==
  /\ pass[p] = "loaded" /\ pass' = [pass EXCEPT ![p] = "asking"]
  /\ reading' = [reading EXCEPT ![p].observedAt = Len(bank)]
  /\ UNCHANGED <<bank, balance, inFlight, loaded, latest>>

mapHyperCardCardBalance(p) ==
  /\ pass[p] = "asking" /\ pass' = [pass EXCEPT ![p] = "answered"]
  /\ reading' = [reading EXCEPT ![p].figures = bank[Len(bank)]]
  /\ UNCHANGED <<bank, balance, inFlight, loaded, latest>>

\* No answer, one of which a figure or the currency cannot be read, or, of an
\* issuer that may give one, none: the row stays as it is.
reconcileFails(p) ==
  /\ pass[p] = "asking" /\ PassOver(p)
  /\ UNCHANGED <<bank, balance, latest>>

\* The observation alone does not make a row worth rewriting.
reconcileOne(p) ==
  /\ pass[p] = "answered" /\ PassOver(p)
  /\ balance' = IF loaded[p].figures = reading[p].figures THEN balance ELSE reading[p]
  /\ latest' = IF reading[p].observedAt >= latest.observedAt THEN reading[p] ELSE latest
  /\ UNCHANGED bank

\* The process goes down, and its flag with it.
BalancesDown ==
  /\ inFlight /\ inFlight' = FALSE
  /\ pass' = [p \in BalancePasses |-> "idle"]
  /\ loaded' = [p \in BalancePasses |-> NoBalance] /\ reading' = [p \in BalancePasses |-> NoBalance]
  /\ UNCHANGED <<bank, balance, latest>>

BalanceNext ==
  \/ BalanceChanges \/ BalancesDown
  \/ \E p \in BalancePasses :
       sweep(p) \/ getCardBalance(p) \/ mapHyperCardCardBalance(p) \/ reconcileFails(p) \/ reconcileOne(p)

-----------------------------------------------------------------------------
\* The figures a partner is shown are those of one answer, which the card had
\* at or after the time they are said to be of, and of the latest answer: a
\* slow pass does not put an older balance over a newer one, and what is not
\* written is what is there already.
BalanceIsLatest ==
  /\ balance # NoBalance => \E t \in balance.observedAt .. Len(bank) : bank[t] = balance.figures
  /\ balance.figures = latest.figures
=============================================================================
