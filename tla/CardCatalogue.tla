--------------------------- MODULE CardCatalogue ---------------------------
(***************************************************************************)
(* One issuer's card products: the runs that read the issuer's listing and *)
(* write it as rows (sync-card-products), and the partners' reads, which   *)
(* serve the rows and refresh them when they are cold, one refresh at a    *)
(* time (list-card-products). Runs are also started by an administrator    *)
(* and by the issuer's notices.                                            *)
(*                                                                         *)
(* An instant is "new" within the window of the catalogue, "old" past it.  *)
(* The listing goes through versions; Listing[v] is what the issuer        *)
(* answers in version v, and CardProducts reads the products from it.      *)
(***************************************************************************)
EXTENDS CardProducts

CONSTANTS
  Products,              \* the handles of the issuer's products
  Listing,               \* Listing[v]: the rows of version v, in order
  Runs,                  \* runs of the sync, of which
  Refresh,               \* this one is the readers'
  Readers,               \* requests for the catalogue
  MAX_PERSIST_ATTEMPTS,  \* 5 in the code
  MaxFaults              \* bound: failing calls and statements, and restarts

LastVersion == Cardinality(DOMAIN Listing) - 1

ASSUME ListingAssumption ==
  /\ IsFiniteSet(DOMAIN Listing) /\ DOMAIN Listing = 0 .. LastVersion /\ 0 \in DOMAIN Listing
  /\ \A v \in DOMAIN Listing : DOMAIN Listing[v] \subseteq Nat
ASSUME RunsAssumption == Refresh \in Runs
ASSUME PersistAssumption == MAX_PERSIST_ATTEMPTS \in Nat \ {0} /\ MaxFaults \in Nat

Versions == 0 .. LastVersion
Mapped == [v \in Versions |-> mapHyperCardCardProducts(Listing[v])]
ASSUME ProductsAssumption == \A v \in Versions : DOMAIN Mapped[v] \subseteq Products
Instants == {"null", "old", "new"}
NoVersion == -1

VARIABLES
  current,    \* the version the issuer lists
  rows,       \* card_product: the version a row was written from, and whether it is on offer
  syncedAt,   \* the newest synced_at of the rows
  from,       \* the version written last
  best,       \* the newest version ever written
  run,        \* of a run: how far
  listed,     \* of a run: the version it was told
  stamp,      \* of a run: when it was told, the synced_at of all it writes
  attempt,    \* of a run: which attempt at the transaction
  confirmedAt, failedAt, inFlight,  \* the readers' refresh state: failedAt is "new" within the backoff
  reader,     \* of a reader: how far
  seen,       \* of a reader: whether it found no rows, and the newest synced_at of them
  falseEmpty, \* a reader has been told of no products before any listing was stored
  faults

tableVars == <<rows, syncedAt, from, best>>
runVars == <<run, listed, stamp, attempt>>
stateVars == <<confirmedAt, failedAt, inFlight>>
readerVars == <<reader, seen, falseEmpty>>
catalogueVars == <<current, tableVars, runVars, stateVars, readerVars, faults>>

NoRows == [x \in Products |-> [version |-> NoVersion, onOffer |-> FALSE]]
Unread == [empty |-> TRUE, at |-> "null"]

CatalogueInit ==
  /\ current = 0
  /\ rows = NoRows /\ syncedAt = "null" /\ from = NoVersion /\ best = NoVersion
  /\ run = [r \in Runs |-> "idle"] /\ listed = [r \in Runs |-> NoVersion]
  /\ stamp = [r \in Runs |-> "null"] /\ attempt = [r \in Runs |-> 1]
  /\ confirmedAt = "null" /\ failedAt = "null" /\ inFlight = FALSE
  /\ reader = [q \in Readers |-> "idle"] /\ seen = [q \in Readers |-> Unread]
  /\ falseEmpty = FALSE
  /\ faults = 0

RunGoes(r, place) == run' = [run EXCEPT ![r] = place]
RunEnds(r, how) ==
  /\ RunGoes(r, how)
  /\ listed' = [listed EXCEPT ![r] = NoVersion] /\ stamp' = [stamp EXCEPT ![r] = "null"]
  /\ attempt' = [attempt EXCEPT ![r] = 1]
Fault == faults < MaxFaults /\ faults' = faults + 1

-----------------------------------------------------------------------------
(* A run of the sync. *)

Begin(r) ==
  /\ run[r] = "idle"
  /\ RunGoes(r, "listing")
  /\ UNCHANGED <<listed, stamp, attempt>>

\* The issuer's whole listing, of which a repeated product is dropped.
List(r) ==
  /\ run[r] = "listing"
  /\ RunGoes(r, "writing") /\ listed' = [listed EXCEPT ![r] = current]
  /\ stamp' = [stamp EXCEPT ![r] = "new"]
  /\ UNCHANGED <<current, tableVars, attempt, stateVars, readerVars, faults>>

\* CardProviderCatalogueUnavailableError: nothing was read or written.
ListFails(r) ==
  /\ run[r] = "listing" /\ Fault
  /\ RunEnds(r, "failed")
  /\ UNCHANGED <<current, tableVars, stateVars, readerVars>>

\* The upsert of what was listed, then the withdrawal of what was not.
Upserted(v) ==
  [x \in Products |-> IF x \in DOMAIN Mapped[v]
                      THEN [version |-> v, onOffer |-> Mapped[v][x].availableForIssuance] ELSE rows[x]]
\* Mutant: what the issuer no longer lists stays on offer.
KeptOnOffer(table, v) == table
WithdrawnAbsent(table, v) ==
  [x \in Products |-> IF x \in DOMAIN Mapped[v] THEN table[x] ELSE [table[x] EXCEPT !.onOffer = FALSE]]

\* The row of x as it is stored: what it was written from, or withdrawn since.
StoredRow(x) ==
  [toRowFields(Mapped[rows[x].version][x]) EXCEPT !.availableForIssuance = rows[x].onOffer]

\* One transaction; both statements stamp every row of the issuer.
Persist(r) ==
  /\ run[r] = "writing"
  /\ RunEnds(r, "stored")
  /\ rows' = WithdrawnAbsent(Upserted(listed[r]), listed[r])
  /\ syncedAt' = IF rows' = NoRows THEN "null" ELSE stamp[r]
  /\ from' = listed[r]
  /\ best' = IF listed[r] > best THEN listed[r] ELSE best
  /\ UNCHANGED <<current, stateVars, readerVars, faults>>

\* The server rolls the transaction back: once more, up to the last attempt.
Restarted(r) ==
  /\ run[r] = "writing" /\ Fault
  /\ IF attempt[r] < MAX_PERSIST_ATTEMPTS
     THEN attempt' = [attempt EXCEPT ![r] = @ + 1] /\ UNCHANGED <<run, listed, stamp>>
     ELSE RunEnds(r, "failed")
  /\ UNCHANGED <<current, tableVars, stateVars, readerVars>>

\* Any other failure of a statement: CardProviderCatalogueNotStoredError.
PersistFails(r) ==
  /\ run[r] = "writing" /\ Fault
  /\ RunEnds(r, "failed")
  /\ UNCHANGED <<current, tableVars, stateVars, readerVars>>

Ended(r) == run[r] \in {"stored", "failed"}

\* The run's result has reached whoever started it.
RunLeaves(r) == RunGoes(r, "idle") /\ UNCHANGED <<listed, stamp, attempt>>

-----------------------------------------------------------------------------
(* A reader. *)

ReaderGoes(q, place) == reader' = [reader EXCEPT ![q] = place]

\* findAll answers with the rows of one instant.
Reads(q) ==
  /\ seen' = [seen EXCEPT ![q] = [empty |-> rows = NoRows, at |-> syncedAt]]

FindAll(q) ==
  /\ reader[q] = "idle"
  /\ ReaderGoes(q, "found") /\ Reads(q)
  /\ UNCHANGED <<current, tableVars, runVars, stateVars, falseEmpty, faults>>

laterOf(a, b) == IF a = "null" THEN b ELSE IF b = "null" THEN a
                 ELSE IF "new" \in {a, b} THEN "new" ELSE "old"

needsRefresh(q) == laterOf(seen[q].at, confirmedAt) # "new" /\ failedAt # "new"

\* Nothing is stored and nothing was ever confirmed: 503 instead of a list.
isUnavailable(q) == seen[q].empty /\ seen[q].at = "null" /\ confirmedAt = "null"

\* The request is answered from what it has seen.
Answers(q) ==
  /\ reader' = [reader EXCEPT ![q] = "idle"] /\ seen' = [seen EXCEPT ![q] = Unread]
  /\ falseEmpty' = (falseEmpty \/ (seen[q].empty /\ ~isUnavailable(q) /\ from = NoVersion))

\* A warm snapshot, or a refresh that failed a moment ago.
AnswerWarm(q) ==
  /\ reader[q] = "found" /\ ~needsRefresh(q)
  /\ Answers(q)
  /\ UNCHANGED <<current, tableVars, runVars, stateVars, faults>>

\* refreshOnce: the first to need a refresh starts it, the others wait for it.
StartRefresh(q) ==
  /\ reader[q] = "found" /\ needsRefresh(q) /\ ~inFlight
  /\ ReaderGoes(q, "waiting") /\ inFlight' = TRUE
  /\ Begin(Refresh)
  /\ UNCHANGED <<current, tableVars, confirmedAt, failedAt, seen, falseEmpty, faults>>
JoinRefresh(q) ==
  /\ reader[q] = "found" /\ needsRefresh(q) /\ inFlight
  /\ ReaderGoes(q, "waiting")
  /\ UNCHANGED <<current, tableVars, runVars, stateVars, seen, falseEmpty, faults>>

Wakes(place) ==
  reader' = [q \in Readers |-> IF reader[q] = "waiting" THEN place ELSE reader[q]]

RefreshStored ==
  /\ run[Refresh] = "stored" /\ RunLeaves(Refresh)
  /\ confirmedAt' = "new" /\ failedAt' = "null" /\ inFlight' = FALSE
  /\ Wakes("confirmed")
  /\ UNCHANGED <<current, tableVars, seen, falseEmpty, faults>>
\* Mutant: a failed refresh confirms the catalogue all the same.
RefreshSettled ==
  /\ run[Refresh] = "failed" /\ RunLeaves(Refresh)
  /\ confirmedAt' = "new" /\ failedAt' = "new" /\ inFlight' = FALSE
  /\ Wakes("degraded")
  /\ UNCHANGED <<current, tableVars, seen, falseEmpty, faults>>
\* Mutant: a failed refresh is not let go of.
RefreshHeld ==
  /\ run[Refresh] = "failed" /\ RunLeaves(Refresh)
  /\ failedAt' = "new" /\ UNCHANGED <<confirmedAt, inFlight>>
  /\ Wakes("degraded")
  /\ UNCHANGED <<current, tableVars, seen, falseEmpty, faults>>
RefreshFailed ==
  /\ run[Refresh] = "failed" /\ RunLeaves(Refresh)
  /\ failedAt' = "new" /\ inFlight' = FALSE /\ UNCHANGED confirmedAt
  /\ Wakes("degraded")
  /\ UNCHANGED <<current, tableVars, seen, falseEmpty, faults>>

FindAllAgain(q) ==
  /\ reader[q] = "confirmed"
  /\ ReaderGoes(q, "degraded") /\ Reads(q)
  /\ UNCHANGED <<current, tableVars, runVars, stateVars, falseEmpty, faults>>

\* After its refresh, stored or failed, a reader answers from what it read last.
AnswerRefreshed(q) ==
  /\ reader[q] = "degraded"
  /\ Answers(q)
  /\ UNCHANGED <<current, tableVars, runVars, stateVars, faults>>

-----------------------------------------------------------------------------
(* The issuer, time and restarts. *)

Relist ==
  /\ current < LastVersion /\ current' = current + 1
  /\ UNCHANGED <<tableVars, runVars, stateVars, readerVars, faults>>

aged(t) == IF t = "new" THEN "old" ELSE t

\* The window of the catalogue goes by, and the shorter backoff with it.
Expire ==
  /\ "new" \in {syncedAt, confirmedAt, failedAt}
  /\ syncedAt' = aged(syncedAt) /\ confirmedAt' = aged(confirmedAt) /\ failedAt' = aged(failedAt)
  /\ seen' = [q \in Readers |-> [seen[q] EXCEPT !.at = aged(@)]]
  /\ stamp' = [r \in Runs |-> aged(stamp[r])]
  /\ UNCHANGED <<current, rows, from, best, run, listed, attempt, inFlight, reader, falseEmpty, faults>>

BackoffOver ==
  /\ failedAt = "new" /\ failedAt' = "old"
  /\ UNCHANGED <<current, tableVars, runVars, confirmedAt, inFlight, readerVars, faults>>

\* The process goes down: runs, readers and the refresh state are gone.
CatalogueDown ==
  /\ Fault
  /\ run' = [r \in Runs |-> "idle"] /\ listed' = [r \in Runs |-> NoVersion]
  /\ stamp' = [r \in Runs |-> "null"] /\ attempt' = [r \in Runs |-> 1]
  /\ confirmedAt' = "null" /\ failedAt' = "null" /\ inFlight' = FALSE
  /\ reader' = [q \in Readers |-> "idle"] /\ seen' = [q \in Readers |-> Unread]
  /\ UNCHANGED <<current, tableVars, falseEmpty>>

RunNext(r) ==
  List(r) \/ ListFails(r) \/ Persist(r) \/ Restarted(r) \/ PersistFails(r)

ReaderNext(q) ==
  \/ FindAll(q) \/ AnswerWarm(q) \/ StartRefresh(q) \/ JoinRefresh(q)
  \/ FindAllAgain(q) \/ AnswerRefreshed(q)

CatalogueNext ==
  \/ \E r \in Runs : RunNext(r)
  \/ \E q \in Readers : ReaderNext(q)
  \/ RefreshStored \/ RefreshFailed \/ Relist \/ Expire \/ BackoffOver
=============================================================================
