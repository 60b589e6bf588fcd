# A verification of the card and payment backend

The repository is a NestJS service over MariaDB through which partners issue and operate
prepaid cards at two issuers (HyperCard and Axys) and collect payments at two gateways
(SunPay and MLT). It has no document of its own: what is said here is taken from the code
under `src/src`, its comments and its tests. This directory holds TLA+ modules of the parts
where money moves, where several actors write one row, and where an issuer's answer becomes
what a partner is told; the TLC configurations that check them on small instances; and TLAPS
proofs, for every instance, of every safety property the runs check.

## 1. Inventory

### How the system runs

One process serves HTTP requests from partners (`*.controller.ts` → a use case per
operation), callbacks from gateways and issuers, and timers (`@Interval` in the sweep
services). Everything is asynchronous: each `await` (a query, an HTTP call of up to twenty
seconds, an insert) is a point at which every other request, callback and timer may run.
Rows are written in three ways, and most of what can go wrong follows from which one is used:

* `repository.update({id, status: X}, …)` is a compare-and-set whose `affected` count tells
  whether it won;
* `repository.save(entity)` reads the row again, compares it with the entity the caller has
  held since before its awaits, and overwrites what differs;
* `dataSource.transaction(…)` groups statements and reads from a snapshot; only
  `process-gateway-result` also locks the row.

Partners learn of changes through `webhook_delivery` rows, written by
`WebhookDeliveryService.enqueue*` after the change has been committed.

### Components

| component | state | operations | interacts with | hard | correct when |
|---|---|---|---|---|---|
| Card deposits | `card_deposit` | request; observe (sweep, callback); announce | issuer, card, sweeps, webhooks | retries of the partner, timeouts, racing observers | one request per key, never ahead of the issuer, never backwards, announced once, outcome arrives |
| Card operations, card lifecycle | `card`, `card_event`, `card_operation` | block, unblock; resolve; escalate; issuer's notice | issuer, sweeps, callbacks, webhooks | four writers of one card, stale reads, lost acknowledgements | one in flight, outcome is the issuer's, events account for the card, CLOSED is final, nothing held unnoticed |
| Rotating sweeps | flag of the service, `status_checked_at` | tick, batch, stamp, ask, finish | every reconciliation | slow passes, failing rows, restarts | no starvation, bounded batch, one pass at a time |
| Payment collection, gateways | `payment_transaction`, `transaction_event`, callback log | initiate; gateway callback | gateways, audit, webhooks | callback before the request has saved, duplicate callbacks, failure between effects, amounts rounded or short | settled once, on a callback that verifies, announced once, events account for the status, what SunPay reports as paid has arrived |
| Card issuance, application resolution | `card`, `card_application` | issue; result sweep | issuer, products, enrolment | stale save beside a sweep, two observers without a lock | decision is the issuer's, events account for the card, an approved card is opened |
| Card activation | `card.activation_*` | activate; status pass | issuer, sweeps | four writers of one card, events written apart from it | one webhook per activation, a marked card is one the status pass selects until the issuer has moved it |
| Provider callbacks | `card_provider_callback` | record, dispatch, stamp | deposits, operations, cards, catalogue | redelivery, concurrent delivery, notice before the row, crash between dispatch and stamp | acknowledged only after it was acted on, twice only when two are at work |
| Cardholder enrolment, KYC | `cardholder_enrolment` | claim, enrol, re-attempt, submit KYC | issuer | a claim held over the issuer's call, stale saves, crash after the claim | one attempt at a time, nobody stored without an enrolment, identifier kept |
| Cardholder status sync | `cardholder_enrolment` | sync, reconcile, announce | enrolment, webhooks | full save of a stale copy, two readers of one decision | a decision is recorded and announced |
| Product catalogue | `card_product`, refresh state | sync, list | issuer, callbacks | shared refresh, deadlock retry, empty listings, two runs at once | one whole listing is served, follows the issuer, an empty one is confirmed |
| Webhook delivery | `webhook_delivery` | enqueue, attempt, retry, requeue | partner endpoints | overlapping passes, stale and partial saves, unreadable secret | delivered, or given up after the promised attempts |
| Quotes, limits, decimals | none | quote, compare, add, round | products, deposits, issuance | eight places, equality at a limit, unreadable fees, the product changes | what is quoted covers what is owed and is then accepted |
| Balances | columns of `card` | reconcile | issuer, sweeps | slow pass, conditional write on what was read | the latest answer is what is stored |
| Card statement | none (a cursor the partner holds) | page | issuer | paging over a list that grows, month windows, identifiers that rounding makes equal | each row of the range once, as far as its published identifier tells it apart |
| Issuer adapter: HyperCard | none | request, ask, map | issuer | unreadable codes, answers about something else, lost replies | an outcome is told only at a code that means it |
| PIN change, other card reads | columns of `card` | change, read | issuer | save from a stale load | no transition lost |
| Issuer adapter: Axys | none | calls | issuers, gateways | timeouts, unknown codes | every answer mapped to what it says |
| Identity, partners, keys, secrets, audit, analytics, config | own rows | administration | all | little concurrency | — |

`PROJECT.json` lists each of them with its sources and whether it is modelled, and lists,
under `hazards`, the lines at which the code is exposed to each difficulty.

## 2. The modules

| module | models | proofs |
|---|---|---|
| `CardDepositStatus` | the statuses of a deposit and the order they advance in | |
| `CardDepositLedger` | what a partner is promised of deposits (abstract) | |
| `CardDeposits` | `request-card-deposit`, `resolve-card-deposits`, and the issuer behind them | `CardDepositsProofs` |
| `CardOperationStatus` | the statuses of cards and of operations | |
| `CardLifecycle` | what a reader of a card is promised by all its writers (abstract) | |
| `CardOperations` | `update-card-status`, `resolve-card-operations`, `apply-issuer-card-status`, `announce-card-status` | `CardOperationsProofs` |
| `CardIssuance` | `issue-card`, `resolve-card-applications`, `reconcile-not-activated-cards`, `activate-card`, what notices and lifecycle operations do to the card meanwhile, and the issuer behind them | `CardIssuanceProofs` |
| `RotatingSweep` | the sweep services and the batch every pass takes | `RotatingSweepProofs` |
| `PaymentLedger` | what a partner is promised of payments (abstract) | |
| `Payments` | `initiate-payment`, `process-gateway-result`, and the gateway behind them | `PaymentsProofs` |
| `CardholderEnrolment` | `onboard-cardholder`, `enrol-cardholder`, `cardholder-enrolment.service`, `submit-kyc`, `cardholder-status-sync`, `reconcile-cardholders` | `CardholderEnrolmentProofs` |
| `WebhookDelivery` | `webhook-delivery.service`, `webhook-retry-sweep`, the requeue | `PaymentsProofs` |
| `HyperCardValues` | how a field of HyperCard's is read (`hypercard-coercion.util`) | |
| `CardProducts` | `hypercard-card-product.mapper`, `toRow`, `card-product-resolver` | |
| `CardCatalogue` | `sync-card-products`, `list-card-products` | `CatalogueNoticesProofs` |
| `CardProviderCallbacks` | `process-card-provider-callback`: the inbox, whatever a notice is about | `CatalogueNoticesProofs` |
| `CatalogueNotices` | a notice about the products, acted on by a run of the catalogue's sync | `CatalogueNoticesProofs` |
| `FundingQuotes` | `quote-card-funding`, `quote-card-deposit`, `decimal-amount.util`, `funding-token`, the gates of the request that follows | |
| `CardStatement` | `list-card-transactions`, the statement window, the transaction mapper | |
| `CardBalances` | `reconcile-card-balances`, its timer, the balance mapper | |
| `HyperCardExchange` | the adapter's requests and lookups, its mappers of statuses and pushes, the dispatcher | |
| `GatewayResults` | the amounts and results of `sunpay.adapter` and `mlt.adapter`, with their mappers | |
| `ProviderReadings` | the five modules above as topics of one specification | `ProviderReadingsProofs` |

`MC…` modules instantiate them for TLC. An abstract module is shown to be implemented by an
instance inside the detailed one (`Ledger`, `Lifecycle`) whose `Spec` is both a property of a
run and a theorem.

### CardDeposits

`row[c]` is the `card_deposit` row of call `c`; `caller[c]` is the await at which
`execute` stands; `wire[c]` the HTTP exchange; `issuer[c]` what the issuer holds;
`at/dep/seen/heard` are the local variables of one `observeOne` (the row as loaded, the
answer). `Admit`, `WriteDraft`, `Send`, `Receive`/`TimeOut`, `MarkSubmitted`/`RecordFailure`
are the request in its order; `Load`, `Ask`, `RecordOutcome`/`RecordNothing`, `Announce` the
observation. A crash, a failing save and a failing lookup are `Abandon` and `GiveUp`. The
issuer may accept a request whose reply nobody waits for, and may move its own deposit along
at any time. `MoveCard` stands for every writer of the card. Amounts, fees, and text are
abstracted to what the code compares: the identifier (none, own, foreign), the failure
reason, and whether a credited amount was filled in.

### CardOperations

`card`, `trail` (its `card_event` rows), `op[c]` (the `card_operation` row), and the same
program counters for the request, the passes and the notices. `Settles` chooses the kind of
issuer: Axys answers with the outcome and the request itself moves the card in two
statements (`CompareAndSet`, `RecordEvent`); HyperCard acknowledges, and a pass moves the
card and writes the event in one transaction (`RecordOutcome`). `WriteDraft` is guarded by
the unique index over `in_flight_card_id`, nothing else. `Suspect` and `Escalate` are the
escalation, `LoadForNotice` … `TellNotice` a notice of the issuer.

### CardIssuance

One card and its application; an application names one card and no other, so one is all there
is to model. `card`, `opened` (`provider_card_id` is set) and `activation` are the columns of
the card that matter, `app` is the status of its application. The request is
`WriteAttempt` … `RecordIssue`; `answer` is the status the issuer replied with. Its
`save(card)` is `ReadForSave` and `Save` as in `Payments`: `stale` holds the columns that
differed from the request's copy when the first of them read the row. The lookups of an
application are the observers (`at`, `heard`, and `snap`, the card as their transaction read
it); MariaDB refuses a write to a row that changed under such a transaction
(`ER_CHECKREAD`, which `duplicate-entry.util.ts` names as one to restart for), hence
`UnchangedSince`. The status pass is the watchers (`looking`, `saw`, `told`), and
`act/had/got` is a call of `activate-card`. `reports` chooses the kind of issuer: HyperCard
acknowledges and decides afterwards, and only its cards are looked up and watched; Axys opens
the card during the call. `Selected` is what the pass selects by, the status included. The others
who move the card are those of `CardOperations`, here by their writes: `Notice` is the issuer's
notice (a compare-and-set on the status read, and its event, in one transaction), to any status;
`Operate` a lifecycle operation, `oper/route` how far it is and which move it made. Where the
outcome is looked up its event is in the same transaction; at an issuer that settles during the call
`RecordOperation` is a second statement, whose failure is swallowed (`DropOperation`). Of the events
the model keeps `trace[s]`, how many lead to status `s` less how many lead from it. The request's
save may write over what somebody else wrote: `takenBack` is the status it took the card back from,
`blanked` that it blanked the identifier.

### RotatingSweep

`later[r]` is the order of the `status_checked_at` stamps and nothing else of them, so no
clock is needed. A pass is `Tick`, `TakeFavoured`, `TakeRest`, `Stamp`, `LoadApplications`, then
`Examine` and `Answered` per row, `Finish`. The status pass has three queries, and the third, for
the applications it asks by, comes after the stamp: `GiveUp` there costs the whole batch its turn.
`Bare` are the cards without an application row, which `Examine` passes over. For the passes without
these queries `Favoured` and `Bare` are empty, `TakeFavoured` takes nothing and `LoadApplications`
is the step to the loop. `overtaken` is a history variable: the rows passes took while
another one waited.

### Payments

`row`, `trail` and `queued` are the transaction, its events and its webhooks; `opened` is what the
gateway holds, and `reported` the results that callbacks with a verifying signature told. When one
may verify is `MayVerify`: at a direct gateway once it holds the order; at a hosted one once the
partner has the form. MLT's hash covers the fields a callback names, and the form carries one
(`mlt.adapter.ts:75-124`), so nothing is assumed of the result such a callback tells. `ReadForSave` and `Save` are the two
statements of `save(entity)`: the second writes back the call's copy of every column that
differed when the first read the row (`dirty`). A callback is `Report`, `LookUp`, then
`Distrust`, `Ignore`, or `Settle` (the locked transaction), `Audit`, `Enqueue`. A `Direct`
gateway (SunPay) has the order before `initiate` returns; a hosted one (MLT) only when the
payer posts the form the partner was answered with, so that its first callback comes after the
save. Every partner is taken to have a webhook address.

### CardholderEnrolment

One person at one issuer. `row` is the enrolment's status and whether the issuer's identifier is
known; `at/mine` are the place and the copy of a request that puts the person to the issuer,
`look/copy` those of whoever reads the row, asks the issuer and saves. A request is `Onboard` or
`Enrol`, then `Claim` (the insert) or `Reclaim` (the row that is there, under its lock), the
issuer's `IssuerTakes` or `CallFails`, then `RecordAnswer` or `RecordFailure`. A looker is
`ReadForSync` (`Sweep` for the run of a tick, the `Sweeper`), `Ask`, `SaveTold`, `Announce`, or the
submission of KYC. A save is the SELECT (`SelectRow`, `SelectCopy`), which finds the columns of the copy
that differ (`differing`), and if there are any their UPDATE (`UpdateRow`, `UpdateTold`,
`UpdateSubmitted`), with other writers between. `trampled` remembers that a looker
saved over a DRAFT, `broken` that a failing statement or a restart cut somebody short, and
`untold` that a decision still lacks its webhook.

### WebhookDelivery

One queued delivery. A pass is `Find`, `Post`, the partner's `Accepted`/`Refused` or `Unanswered`,
then `SelectRow` and `UpdateRow`, the two statements of `save(delivery)`: the columns of the copy
that differed at the first are written at the second (`differing`), the rest stay as they are by then.
`next_attempt_at` is abstracted to whether it has come, and `Elapse` lets it. `Requeue…` is the
request that makes a dead letter PENDING again. `tries` and `acked` are what the partner was really
asked and answered.

### CardProducts, CardCatalogue, CardProviderCallbacks, CatalogueNotices

`CardProducts` is pure: a listed row (fields that may be absent, blank or unreadable) to the product
of the domain, to the stored row, and to what a partner sees. `CardCatalogue` runs it: a run is
`Begin`, `List`, `Persist` (one transaction: upsert, then withdrawal of what was not listed),
restarted after a deadlock at most `MAX_PERSIST_ATTEMPTS` times; a reader is the SELECT, the
decision whether the rows are cold, the refresh it starts or joins, and its answer.
`confirmedAt/failedAt/inFlight` are the service's memory, lost on a restart. Instants are "new"
or "old", and `Expire` turns one into the other.

`CardProviderCallbacks` is the inbox of one notice: `Record` (the dedupe index decides), `Act`,
`Acted` or `Failed`, `Stamp`, `Acknowledge`; the issuer delivers until it has read the
acknowledgement. It does not say what acting is. `CatalogueNotices` composes the two: a handler is
the name of the run it starts, `Dispatch` is `Act` and `Begin` in one step, `DispatchEnds` is
`Acted` or `Failed` according to how the run ended, `ChangeAndTell` changes the issuer's listing and
sends the notice, and a restart takes both modules' volatile state.

### FundingQuotes, CardStatement, CardBalances, HyperCardExchange, GatewayResults, ProviderReadings

`FundingQuotes` prices a card or a top-up from the stored product and one of the issuer's answers,
then makes the request for the amount quoted, with the product stored anew in between or not.
Amounts are integers in units of the eighth decimal place; `Finer` stands for all amounts with more
places. `CardStatement` walks the pages of a statement: each page is cut from an answer of its own,
while rows are posted and time passes. A row's `tx_id` is published as it is where it is text, and
where it is a JSON number as what the parser kept of it (`readTransactionId`; `QuotedIds` are the
first, `Coarseness` the gap between the numbers kept apart), so that two rows may share an
identifier. `CardBalances` is a pass over one card beside a second tick:
the row as loaded, the question, the answer, and the write conditional on what was loaded.
`HyperCardExchange` is one request (application, deposit or operation) and the questions about it:
the issuer's record may change between question and answer, the answer's code, amount or card identifier
may be unknown or unreadable, it may be about another request and pass for ours when it does not name its
own in text (`PassesForOurs`), and a push may say something of its own. `GatewayResults` is one
payment from the amount a partner asks for to the order, the money that arrives and the callback that
settles it; `Signs` says what a verifying callback stands for: at SunPay the gateway's own word, as it signs the
whole body; at MLT any word, as its hash need not cover the outcome. A JSON number names only some amounts (`jsonNumber`), and the text of some numbers cannot be
read back (`Illegible`). How callbacks race is `Payments`, which takes their results as given.
`ProviderReadings` lets a behaviour follow one of the five; they share no state, so one run checks them all without
their product.

## 3. The runs

| run | instance | what it shows |
|---|---|---|
| `deposits` | 2 calls with one key, 2 observers, an issuer with or without identifiers | one request per key reaches the issuer, and a row never says more than the issuer |
| `deposits_live` | 1 call, a fair sweep, an unfair callback | the deposits implement `CardDepositLedger`; a final outcome at the issuer reaches the row |
| `operations` | a block and an unblock, 2 observers, 1 notice, an issuer that settles afterwards | at most one operation at the issuer, outcomes are its own, events form a chain, a failure is told once; `CardLifecycle` is implemented |
| `operations_settled` | the same with an issuer that settles during the call | events, those still to be written, and webhooks account for each other and for the card |
| `operations_live` | a fair pass beside one that may stop | an operation that holds its card is resolved or escalated; an outcome frees the card |
| `sweep` | 3 rows, batch 2, 2 favoured, 1 without an application, 2 passes, a restart, a callback | no row has two turns while another waits; every waiting row that can be asked about has its turn unless favoured rows fill the batch |
| `payments` | 1 call to a direct gateway, 2 with one key to a hosted one, 2 callbacks | one order per key, events explain the status, webhooks were recorded; `PaymentLedger` is implemented at hosted gateways |
| `issuance` | 1 card, 2 lookups of its application, 1 status pass, 1 activation, 1 lifecycle operation, 1 notice, both kinds of issuer | the decision recorded is the issuer's, `card.activated` once per activation, events and those still owed account for the card, a marked card is one the pass selects until the issuer has moved it |
| `enrolment` | 2 requests, a tick's run, another looker, both kinds of issuer, 1 fault | one attempt at a time, nobody stored and forgotten, decisions announced and recorded, the identifier kept |
| `webhooks` | 2 overlapping passes, 2 attempts, 1 fault, 1 requeue | giving up is earned, every delivery settles |
| `catalogue` | 2 listings, 1 handler or administrator, the readers' refresh, 2 readers, 2 faults | one whole listing is served, a notice is acted on before it is acknowledged, and once; an empty answer is a confirmed one; the rows come to say what the issuer lists |
| `readings` | every row, price, page size, answer and payment of `MCProviderReadings` and its cfg | a quote covers what is owed and is accepted, a walk shows each row that is published under an identifier of its own once, the balance stored is the latest answer, outcomes are told only at a code that means them, what SunPay's callbacks make PAID has arrived |

Each property has a mutant in `PROJECT.json`: one definition changed as a bug would change it, under
which the same run finds the property violated.

### Bounds

Two calls are what it takes to compete for a key, for the index or for a card, and two
observers to race for one row; a third adds a repetition of one of the two, since each race in
these components is between a write and one earlier read. Calls, observers and deliveries are
reused or independent of one another, and the theorems hold for any number of them. `MaxReports
= 2`: the second report is the one that meets a settled row; the violation runs keep the same
bound. `MaxCrashes` and `MaxNudges` of the sweep are one each: a restart loses at most one
pass, and three rows with a batch of two are the least in which a batch can leave a row behind; two
of the rows may be favoured, so that they fill the batch (`Crowded`), and one of these has no
application. `MaxMoves = 1` of `CardIssuance` is one notice, beside one operation: one move by another writer
is what comes between somebody's read and write, and each writer there runs beside one of every
other kind. One
failure reason and two kinds of identifier are enough since the code compares them for equality
only. Observers, and callbacks of payments, are symmetric where no liveness is checked. The
inductive invariants, and the properties that only the theorems of section 4 state, were model-checked
on these instances before they were proved and are no longer listed in a cfg: the theorems cover
them. `CHECK_DEADLOCK FALSE` is
given where calls and callbacks are finitely many, so that the system comes to rest; the sweep
never rests and is checked for deadlock.

* `enrolment`: two requests are what competes for the claim, two lookers, the run of a tick and
  one that syncs or submits KYC, what saves over one another; `broken` marks the behaviours with a fault, so that one fault of each kind is
  enough to tell them apart.
* `webhooks`: `MAX_ATTEMPTS` is 2 (5 in the code), the least with an attempt that is retried
  and one that is the last; two passes since nothing keeps a slow one from meeting the next.
* `catalogue`: the first listing holds nothing that can be read and the second a product twice at
  two prices, one that takes no deposits and one of an unknown network, so that withdrawal,
  duplicates and the empty catalogue happen. There is one handler in the instance: two at once both
  act (section 5), which `excused` takes out of `ActsOnce` anyway. `MaxFaults` is 2: one failing
  attempt and one more after the restart of the transaction.
* `readings`: a month has two instants and the issuer answers at most two months, so that five
  instants cross every edge of a window; three rows paged by one and by two, one identified by text and two
  by numbers that a parser makes one (`Coarseness` 3); a second balance
  pass; amounts around both limits, with free, unreadable and too fine fees; payments in units of which
  a number names every third, so that amounts are rounded up and down on the way.

### Fairness

* Only the timer is fair: `@Interval` reruns a pass for ever, `RotatingSweep` shows
  (`EveryRowAsked`) that each waiting row is examined again and again, and the HTTP clients
  have a timeout so that no call hangs. This justifies `SF` on loading a given row, and `WF`
  on the steps that follow.
* `SF` on the lookup and on the write says that they do not fail every single time they
  are tried. It is an assumption on the issuer and the database.
* The status pass's query for the applications costs a batch its turn when it fails, so of it
  `RotatingSweep` assumes that it does not fail every single time a given row is in the batch (`SF`
  per row).
* Nothing is assumed of partners, issuers, callbacks, or of a second pass.
* The overlap flag lives in the memory of one process: the rotation and the balances are stated
  for one process. The other modules allow any number of passes at once and so cover several.
* `enrolment`: the runs of one tick after the other read the row again and again (`SF`), save and tell
  what they hold (`WF`), and get an answer in the end (`SF` on `Ask`). The other looker and the
  requests may stop anywhere, and nothing makes the issuer decide.
* `webhooks`: ticks, posts and the passing of time (`WF`); a POST is given up after ten seconds.
  Faults are bounded.
* `catalogue`: partners keep asking, runs that began go on, time passes (`WF`). `Converges` rests on
  the partners: nothing else refreshes the catalogue. The issuer's redeliveries are not fair.

## 4. What is proved

The proofs need only the named assumptions in the modules, which TLC evaluates on the instances:

* keys are assigned to calls (`RequestsAssumption`, `KeysAssumption`), what an idle observer
  examines is no call (`NoCallAssumption`), a key belongs to one gateway (`DirectAssumption`),
  handlers are the runs of the sync other than the readers' (`HandlersAssumption`);
* those who act on one row are finitely many (`ActorsAssumption`, `CallersAssumption`,
  `PassesAssumption`), rows are finitely many integers (`RowsAssumption`), some of them
  favoured and some without an application (`FavouredAssumption`, `BareAssumption`), and bounds are naturals
  (`AttemptsAssumption`, `StatementAssumption`, `AmountsAssumption` and the like);
* what a provider sends is in the set the module reads from: the columns of a listed row
  (`ListingAssumption`), fees and amounts (`FundingAssumption`), figures and codes, of which the
  unknown one is in no table (`ExchangeAssumption`).

* **CardDeposits.** `IInv` adds to the properties: where a call has got to decides its row
  and the wire (`RequestInv`); a key has one row (`OneRowPerKey`); what an observer loaded
  and heard lies, in this order, at or before the row and the issuer (`ObserverInv`); nothing
  is announced that the row has not reached (`ToldReached`). The lifecycle is a reachability
  relation, so "the row never goes back" and "at most one observer announces" both follow
  from the compare-and-set on the loaded status: a second observer that loaded the same
  status no longer finds it. `NeverWalksBack` alone is not inductive, as a stale observer
  could write anything. Proved: the safety properties, `NeverWalksBack`, and
  that `CardDepositLedger` is implemented.
* **CardOperations.** `CallInv` says that a request in progress is a DRAFT row nobody else
  writes, which is why its unconditional writes are safe; `WatchInv` that a pass holds the
  issuer's final answer to an acknowledged operation. `ExclusiveAtIssuer` and `OneInFlight`
  rest on the index and on `CallInv`; `TrailIsChain` on the compare-and-set of the card and
  its event sharing a transaction. Proved: type correctness, `ExclusiveAtIssuer`, `OneInFlight`,
  `OutcomeIsIssuers`, `TrailIsChain`, `FailureToldOnce`, that final rows stay, that none of the writers of this module takes a card out of
  CLOSED (`OperationsKeepClosed`; the late answer to an application does, which is in
  `CardIssuance` and `ClosedButForIssue`), that
  an escalation happens once, and that `CardLifecycle`
  is implemented when the issuer settles afterwards. `TrailAccounts` counts: events of two kinds,
  announcements, and three kinds of writers that have still to write or to announce. It is
  inductive on `IInv` because a step moves one writer: each set is counted with that writer apart
  (`FS_AddElement`, `FS_RemoveElement`), and the trail grows by one event, so that no induction over
  it is needed. It is proved for both kinds of issuer; the run needs the one that settles in the call.
* **CardIssuance.** `IInv` adds to `DecisionIsIssuers` and `PendingIsResolvable` that an answer
  heard is one the issuer does not take back (`AnswersAreFinal`), that the request, the wire
  and the issuer go together (`RequestMatchesIssuer`), that at an issuer that answers at once
  nobody meets the card before it is saved (`SavedFirst`), that whoever is about to mark an
  activation found the card opened (`WritersSawCardOpened`), and that, at an issuer that answers
  afterwards, the card leaves NOT_ACTIVATED only after it has at the issuer (`CardFollowsIssuer`), which is
  what keeps a marked card selected. On top of it
  `ActivatedOncePerMove` counts those that made the card usable and have not said so yet, and
  `EventsAccount` those whose event follows their write as a statement of its own (the request,
  activations, operations of an issuer that settles at once), each with the two ends of its move: each step
  adds to, or takes from, one of these finite sets exactly what it takes from, or adds to,
  the counters. The one write no event tells, the request's stale save, is accounted for by the
  status it took back. Proved: all the properties of `issuance`, and that only a late answer to the application and
  the request's stale save take a card out of CLOSED (`ClosedUnlessIssued`), for any number of
  lookups, passes, activations, operations and notices.
* **RotatingSweep.** Stamps form a weak order, and a row that overtook another has a later
  stamp (`OvertakenIsEarlier`); hence it cannot be among the first of the queue while the
  other one waits outside the batch. The two queries of a batch are counted with the finite-set
  theorems. Proved: `NoOvertaking`, `BatchIsBounded`, for any rows, favoured or without an application.
* **Payments.** `CallbackInv` says that a committed callback left its event; `HostedInv` that
  at a hosted gateway the one callback that settled the row announces it. `SettledAsVerified` says of
  a final status that a verifying callback told it, and that none did before `MayVerify`; it says no
  more, since at MLT the hash need not cover the outcome. Proved: type
  correctness, six safety properties, and that `PaymentLedger` is implemented at hosted
  gateways.

* **ProviderReadings.** `PaymentInv` says what an order is for: at SunPay a price that comes
  through a JSON number unchanged, as nothing else is asked for. Rounding is monotone
  (`NumberIsMonotone`), so what SunPay reports as enough was enough; of MLT it says only that PAID was
  the callback's word. `BalanceInv` says that
  the flag leaves one pass at a time, that what it loaded is still what is stored
  (`PassInv`), and that what it was told is not older than what was dealt with before.
  `QuoteInv` says that a stored fee is in the coin of quotes (`HasFee`), and that what was quoted
  has passed the gates its request will meet; `QuoteCovers` follows when the quote is made, from the
  places the chains of a quote carry (`Places`) and what rounding up to them yields (`RoundedUp`).
  `ExchangeInv` says that the issuer's record has a code of its kind of request and that nothing is
  held of a request that was not sent or was declined; what is told of an answer about ours is taken case
  by case of the appendices (`ApplicationTold`, `DepositTold`, `OperationTold`), and of one about another
  only that it is in the port's words (`ApplicationWorded`, `DepositWorded`, `OperationWorded`). `StatementInv` says of a walk that is
  not over that every row of its range that was there when it began is on a page, or another row of
  its instant that is published under its identifier is, or it comes after the
  cursor; and that all that comes after the cursor is older than all that is shown: a row booked
  meanwhile can then go in front of the cursor and be left out, or behind it and be shown, but can
  push out nothing. Rows that share an identifier may stand in any order on a page (`Sorted` is a
  set), so what is used of a page is that it is a sequence of all the entries, none newer than
  one before it (`SortedIsSorted`).
  Proved: `PaidIsCovered`, `BalanceIsLatest`, `QuoteCovers`, `QuotedIsAccepted`,
  `OutcomeIsReported`, `PagedWhole`; the topics share no state, and each proof looks at its own.
* **CardholderEnrolment.** `ClaimIsExclusive` holds of the requests alone and is not inductive:
  `ClaimHeld` adds that a request that put the person to the issuer holds a DRAFT, unless a looker
  saved over it (`trampled`); `CopiesKnow` that a copy in someone's hands, once the row knows the
  issuer's identifier, knows it too, which is why a save of a stale copy keeps it
  (`IdentityKept`); `Telling` that a decision that has not been told is in the hands of a looker
  that saved it, or something was cut short. Proved: type correctness, `ClaimIsExclusive`, `NoOrphan`,
  `DecisionIsTold`, `IdentityKept`, for any number of requests and lookers.
* **CardCatalogue, CardProviderCallbacks.** The inbox and the catalogue share no
  variable but the handlers' names, so the invariant is one of each and what the inbox relies on:
  the run a handler waits for began after the notice was sent and so lists what it tells of
  (`Honouring`). `WorkOnce` says that unless excused one handler is at work, on a notice not yet
  stamped. `SnapshotIsWhole` follows the columns there and back (a fee is two columns, read back as
  one); which of two rows of one product is stored is a least index, whose existence is proved from
  the finite intervals and not by induction (`LeastNatural`). Functions are joined with the
  module's own `Joined`, whose value at a point the provers see. Proved: `ActsOnce`,
  `NoticeIsHonoured`, `SnapshotIsWhole`, `EmptyIsConfirmed`, for any number of
  handlers and readers.
* **WebhookDelivery.** Two passes save overlapping copies column by column, so the invariant is said
  of each copy as of the row (`Earned`): the attempts it counts have failed, DELIVERED was answered by
  the partner, and a dead letter has had all its attempts or no address to go to; whichever columns
  of an earned copy are written to an earned row, the row stays earned. Proved: `GivenUpIsEarned`, for any passes and attempts.

Only model-checked: all liveness (`OutcomeReachesRow`, `HeldCardIsNoticed`,
`OutcomeFreesCard`, `EveryRowAsked`, `DecisionIsRecorded`, `Settles`, `Converges`). TLAPS
here has no support for liveness under fairness, for `ENABLED`, for induction theorems that
take an operator, or for `RECURSIVE` operators, and no module with proofs uses those.

## 5. Where the code does other than it says

Met while modelling. The models contain each of these, and where a property would be violated by one
it names the exception instead (`trampled`, `mixed`, `excused`, `takenBack`, `blanked`, a hosted gateway), so that
what is left of the property is checked. None has a run of its own.

Money and cards:

* `SUBMISSION_FAILED` is documented as freeing the card because the request "is known not to have
  landed" (`card-operation-status.enum.ts:66`); a timeout is recorded so too, and the issuer may have
  the request. The same holds of a deposit whose call timed out.
* The issuing request marks its application SUBMITTED and only then saves the card it created before
  the call (`issue-card.usecase.ts:211-219`). A lookup in between records the issued card; the save
  then takes its `provider_card_id` away again ("null until issuance succeeds", `card.entity.ts:62`),
  for good: an approved application is not looked up again, and the status pass skips a card without
  an id.
* `initiate` saves the row it loaded before the gateway call (`initiate-payment.usecase.ts:161`). A
  SunPay callback in between is undone, and the next one is announced again, though a callback on a
  settled transaction is meant to be ignored (`process-gateway-result.usecase.spec.ts:203`).
* An audit write is said never to abort a business operation (`audit.service.ts:31-33`); its failure
  ends the callback before the webhook (`process-gateway-result.usecase.ts:227`), and a repeated
  callback is ignored.
* The shortcut of `update-card-status` below its draft records APPLIED from a card status read
  above it, before the availability queries; another operation may have been resolved in
  between (`OutcomeIsIssuers` allows for it).
* Cards with an activation outstanding are taken first by each status pass, whatever their
  stamp, so a batch of them leaves no place for the rest (`Crowded`).
* The status pass queries the applications of its batch after it has stamped it
  (`reconcile-not-activated-cards.usecase.ts:140`); when that query fails the whole batch has lost
  its turn unasked. A card without an application row is stamped and passed over each time.
* A late `recordIssued` with an old answer can take a card out of CLOSED or ON_HOLD: it saves
  the status it heard without asking what the card has become.
* A `provider_deposit_id` can be overwritten by a second observer that loaded none.
* `update-card-status` refuses a card whose activation is outstanding, as a move "would strand" the
  PENDING mark where nothing clears it (`update-card-status.usecase.ts:125-134`). The issuer's own move
  does: a notice, or a late `recordIssued`, that makes the card ON_HOLD or CLOSED leaves the mark, and the
  status pass, which selects NOT_ACTIVATED, no longer looks. `PendingIsResolvable` therefore promises the pass only until the
  issuer has moved the card.
* An operation of an issuer that settles during the call logs the failure of
  its event and goes on (`update-card-status.usecase.ts:225-252`), and the card's history then lacks the move;
  `EventsAccount` counts it as owed.
* A payment whose gateway call threw stays PENDING, and `queryStatus` is never called; `ERROR` is
  terminal, so a SUCCESS after an underpayment is recorded as ignored.
* A SunPay success that leaves a figure out is taken as paid in full, and the figures of a callback have
  been through a JSON number before they are compared "as decimal strings"
  (`sunpay-status.mapper.ts:45-48`); `PaidIsCovered` excepts the first and allows for the second.
* MLT's hash covers the fields that the callback itself names (`mlt.adapter.ts:100-124`), and its test
  accepts one that does not cover the status (`mlt.adapter.spec.ts:100-128`). At MLT an outcome is therefore
  as good as the callback's word, and no property here says more of it.
* Webhooks of two transitions of one card may be queued in the opposite order.

Enrolment and webhooks:

* A sync that read the row before a new attempt claimed it may save ERROR over the attempt's DRAFT;
  another request then finds the row re-attemptable and proceeds too, which the lock of the claim is
  said to stop (`cardholder-enrolment.service.ts:176-178`). `ClaimIsExclusive` excepts it
  (`trampled`) and is violated without the exception.
* A DRAFT whose request was cut short is never looked at again: nothing re-claims a draft and the
  sweep does not read one. `DecisionIsRecorded` excepts it.
* Two saves of one delivery that mix their columns can leave it PENDING with `next_attempt_at` null,
  which no pass finds (`Settles` excepts it).
* A partner's secret that cannot be decrypted ends the pass for the deliveries behind it; `Settles` is
  stated for secrets that can be read.

Catalogue and inbox:

* Two deliveries of one notice in flight are both acted on, though "acting twice on one delivery is what
  this table exists to prevent" (`process-card-provider-callback.usecase.ts:101`); `ActsOnce`
  counts only while no two handlers were at work and no stamp was lost.
* A reader whose SELECT precedes the first commit and that goes on after `confirmedAt` is set answers
  with an empty list (`list-card-products.usecase.ts:140-142`), a false one only by then.

Quotes and the adapter:

* The quote for opening a card ignores the product's application mode and form factor: a product that
  cannot be applied for is priced and the application refused, against
  `quote-card-funding.usecase.ts:70-71`. `QuotedIsAccepted` excepts both.
* A statement row's unquoted `tx_id` past 2^53 is rounded (`hypercard-transaction.mapper.ts:109-129`).
  Of two rows of one instant that round to one identifier, the second is skipped for good when a page
  ends between them (`hypercard.adapter.ts:268`); `PagedWhole` allows for it.
* `getCardApplicationResult` compares no echo of `mc_trade_no`, unlike the other lookups, and an
  identifier echoed as a number is passed over, not compared (`hypercard.adapter.ts:901-910`). Such an
  answer about another request is taken for one about ours; of it `OutcomeIsReported` promises only that
  it is told in the port's words.
* The application of a closed card whose identifier cannot be read is told as REJECTED, though there
  was a card (`hypercard.adapter.ts:428-467`).
* HyperCard's balance is dated when it is asked for, Axys' by the issuer.

## 6. Not modelled

* PIN change: one call to the issuer between a read of the card and a save of it (Axys only). It is one
  more writer of the card of `CardOperations`, whose save would bring back a stale status; modelling
  it means an exception in most invariants proved there.
* Signatures' arithmetic, encryption, formatting and logging; the gateways' status queries, which
  nothing calls; the sweep of cardholders' limit of fifty unordered rows, of which
  `CardholderEnrolment` models one; the length of a backoff.
* Of a statement row its direction, status, category and amounts' text; of the catalogue the
  configuration switch that turns the refresh on read off (the model has it on); an inbox row that cannot be
  read back after the duplicate-key error, which needs a deleted row, and nothing deletes one.
* Queries and analytics; identity, partners and keys, whose rows have one writer at a time; payouts,
  refunds and routing, which are tables without operations; the issuers' emulations; Axys' own
  reads.

## 7. Plan

Done, in this order: deposits, operations with the card lifecycle, the rotation, payment
collection, issuance with activation, each with its proofs; then enrolment with its status sync,
webhook delivery, the catalogue with the inbox, and the readings, model-checked; then the theorems
of these, and the counting of a card's events. Every safety property of every run is now a theorem.

Next:

1. Abstract specifications of enrolment (a claim that is held, given back, or ends in an identifier)
   and of the catalogue (one confirmed listing after the other), and their refinement.
2. Liveness of issuance: with a fair sweep and a fair pass a decision of the issuer reaches the
   application, and an opened card is watched until it is usable.
3. The activation request as a kind of `HyperCardExchange`.
4. PIN change, as one more writer of a card.
