--------------------------- MODULE CardStatement ---------------------------
(***************************************************************************)
(* A partner reads a card's statement page by page (list-card-             *)
(* transactions, getCardTransactions, hypercard-statement-window.util).    *)
(* The issuer answers whole months, at most MAX_MONTHS of them, and has no *)
(* pages: the pages are cut here, each from an answer of its own, while    *)
(* the card goes on being used.                                            *)
(*                                                                         *)
(* Months all have Month instants; a month of the issuer's begins          *)
(* BEIJING_OFFSET before ours.                                             *)
(***************************************************************************)
EXTENDS HyperCardValues, Sequences, FiniteSets, SequencesExt

CONSTANTS
  Ids,             \* the issuer's tx_id of its rows, numbers in the order of compareIdentifiers
  QuotedIds,       \* those it sends as text; the others are JSON numbers
  Coarseness,      \* between the numbers a parser can tell apart, where those are
  Month, BEIJING_OFFSET,
  MAX_MONTHS,      \* HYPERCARD_STATEMENT_MAX_MONTHS, 6 in the code
  Limits,          \* the page sizes a partner asks for
  LastInstant      \* bound: the clock stops here

ASSUME StatementAssumption ==
  /\ Ids \subseteq Nat /\ IsFiniteSet(Ids) /\ Limits \subseteq Nat \ {0}
  /\ Coarseness \in Nat \ {0}
  /\ Month \in Nat \ {0} /\ BEIJING_OFFSET \in Nat /\ MAX_MONTHS \in Nat \ {0} /\ LastInstant \in Nat

Instants == 0 .. LastInstant

VARIABLES
  clock,
  posted,     \* the rows the issuer holds: when each happened, and whether a field of it cannot be read
  walk,       \* "idle", "paging", "done" or "failed"
  cursor,     \* the continuation the partner holds: the range, and the row it ended with
  asked,      \* of the walk: the range it was begun with
  atStart,    \* of the walk: the rows of that range when it was begun
  shown       \* of the walk: the transactions on its pages, one after the other

statementVars == <<clock, posted, walk, cursor, asked, atStart, shown>>

NoCursor == [from |-> null, to |-> null, at |-> null, id |-> null]
NoRange == [from |-> null, to |-> null]

StatementInit ==
  /\ clock = 0 /\ posted = {}
  /\ walk = "idle" /\ cursor = NoCursor /\ asked = NoRange /\ atStart = {} /\ shown = <<>>

-----------------------------------------------------------------------------
(* Months. *)

beijingMonth(t) == (t + BEIJING_OFFSET) \div Month
monthStartSeconds(m) == m * Month - BEIJING_OFFSET
monthEndSeconds(m) == monthStartSeconds(m + 1) - 1
hyperCardMonthStartSecondsBefore(t, monthsBack) == monthStartSeconds(beijingMonth(t) - monthsBack)

\* The range of a page: the cursor's where there is one, whatever comes with it.
resolveHyperCardStatementWindow(params, from) ==
  LET to == IF from # NoCursor THEN from.to
            ELSE IF params.before # null THEN params.before
            ELSE monthEndSeconds(beijingMonth(clock))
  IN  [to |-> to,
       from |-> IF from # NoCursor THEN from.from
                ELSE IF params.after # null THEN params.after
                ELSE hyperCardMonthStartSecondsBefore(to, MAX_MONTHS - 1)]

isRefused(window) ==
  \/ window.from > window.to
  \/ beijingMonth(window.to) - beijingMonth(window.from) + 1 > MAX_MONTHS

\* What the issuer answers: whole months.
Answered(window) ==
  {row \in posted : beijingMonth(row.at) \in beijingMonth(window.from) .. beijingMonth(window.to)}

-----------------------------------------------------------------------------
(* One page. *)

isWithin(window, row) == window.from <= row.at /\ row.at <= window.to

\* Trimmed to the range before anything else about a row is read: one that
\* cannot be read fails the request when it was asked for, or does not say when
\* it happened.
Entries(window) == {row \in Answered(window) : row.flaw = "date" \/ isWithin(window, row)}
mapsAll(window) == \A row \in Entries(window) : row.flaw = "none"

\* What is published as the identifier of a row: text as it is, and of a number
\* what the parser kept of it, so that rows may come to share one.
readTransactionId(id) ==
  IF id \in QuotedIds THEN id ELSE ((id + Coarseness \div 2) \div Coarseness) * Coarseness

\* What is told of a row, and for the properties which row it is.
mapHyperCardTransaction(row) == [row |-> row.id, id |-> readTransactionId(row.id), at |-> row.at]

\* Newest first, the published identifier between rows of one instant.
isNewer(a, b) == a.at > b.at \/ (a.at = b.at /\ a.id > b.id)

\* The entries in order; those it does not tell apart stay as the answer has them.
Sorted(entries) == {s \in SetToSeqs(entries) : \A i, j \in DOMAIN s : i < j => ~isNewer(s[j], s[i])}

\* Mutant: a page starts past the instant the last one ended in.
isLater(from, tx) == from = NoCursor \/ tx.at < from.at
isAfter(from, tx) ==
  \/ from = NoCursor
  \/ tx.at < from.at
  \/ tx.at = from.at /\ tx.id < from.id

Remaining(from, window) ==
  {tx \in {mapHyperCardTransaction(row) : row \in Entries(window)} : isAfter(from, tx)}

Page(remaining, window, limit) ==
  LET page == SubSeq(remaining, 1, IF limit < Len(remaining) THEN limit ELSE Len(remaining))
  IN  [items |-> page,
       next |-> IF page # <<>> /\ Len(remaining) > Len(page)
                THEN [from |-> window.from, to |-> window.to, at |-> Last(page).at, id |-> Last(page).id]
                ELSE NoCursor]

Shows(window, limit) ==
  \E remaining \in Sorted(Remaining(cursor, window)) :
    LET page == Page(remaining, window, limit)
    IN  /\ cursor' = page.next /\ shown' = shown \o page.items
        /\ walk' = IF page.next = NoCursor THEN "done" ELSE "paging"

Fails == walk' = "failed" /\ UNCHANGED <<cursor, shown>>

\* The first page, of a range the partner names or leaves open on either side.
ListCardTransactions(params, limit) ==
  LET window == resolveHyperCardStatementWindow(params, NoCursor)
  IN  /\ walk = "idle" /\ ~isRefused(window)
      /\ asked' = window /\ atStart' = Entries(window)
      /\ IF mapsAll(window) THEN Shows(window, limit) ELSE Fails
      /\ UNCHANGED <<clock, posted>>

\* A further page; the other parameters may come with it again, or not.
ListOn(params, limit) ==
  LET window == resolveHyperCardStatementWindow(params, cursor)
  IN  /\ walk = "paging" /\ ~isRefused(window)
      /\ IF mapsAll(window) THEN Shows(window, limit) ELSE Fails
      /\ UNCHANGED <<clock, posted, asked, atStart>>

WalkOver ==
  /\ walk \in {"done", "failed"}
  /\ walk' = "idle" /\ cursor' = NoCursor /\ asked' = NoRange /\ atStart' = {} /\ shown' = <<>>
  /\ UNCHANGED <<clock, posted>>

\* The issuer books a row, which may have happened a while ago.
Book(id) ==
  /\ \A row \in posted : row.id # id
  /\ \E at \in 0 .. clock, flaw \in {"none", "amount", "date"} :
       posted' = posted \cup {[id |-> id, at |-> at, flaw |-> flaw]}
  /\ UNCHANGED <<clock, walk, cursor, asked, atStart, shown>>

Tick ==
  /\ clock < LastInstant /\ clock' = clock + 1
  /\ UNCHANGED <<posted, walk, cursor, asked, atStart, shown>>

Params == [before : Instants \cup {null}, after : Instants \cup {null}]

StatementNext ==
  \/ \E params \in Params, limit \in Limits : ListCardTransactions(params, limit) \/ ListOn(params, limit)
  \/ WalkOver \/ (\E id \in Ids : Book(id)) \/ Tick

-----------------------------------------------------------------------------
\* The pages of a walk put together are transactions of the range it was begun
\* with, newest first and none twice. A walk that reached its end has shown every
\* row that was there when it was begun, whatever was booked and however far time
\* went on in between; but of the rows of one instant that are published under
\* one identifier, perhaps one for another: a page that ends with it is followed
\* by one that starts past it.
PagedWhole ==
  LET told == ToSet(shown)
  IN  /\ \A i, j \in DOMAIN shown : i < j => ~isNewer(shown[j], shown[i]) /\ shown[i].row # shown[j].row
      /\ \A tx \in told : isWithin(asked, tx)
      /\ walk = "done" => \A row \in atStart : \E tx \in told :
           tx.row = row.id \/ (tx.at = row.at /\ tx.id = readTransactionId(row.id))
=============================================================================
