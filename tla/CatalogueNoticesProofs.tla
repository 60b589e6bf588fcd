----------------------- MODULE CatalogueNoticesProofs -----------------------
(***************************************************************************)
(* What CatalogueNotices promises, for any listings, any number of         *)
(* deliveries, runs and readers, and any number of faults.                 *)
(***************************************************************************)
EXTENDS CatalogueNotices, FiniteSetTheorems, TLAPS

\* The types of the inbox.
InboxOK ==
  /\ sent \in BOOLEAN /\ acked \in BOOLEAN /\ excused \in BOOLEAN /\ acts \in Nat
  /\ inbox \in {"none", "recorded", "processed"}
  /\ at \in [Handlers -> {"idle", "toAct", "acting", "toStamp", "acking"}]

\* How far the notice has got: nothing is acknowledged that is not stamped.
InboxOrder ==
  /\ ~sent => inbox = "none" /\ ~acked
  /\ inbox = "none" => \A h \in Handlers : at[h] = "idle"
  /\ acked \/ (\E h \in Handlers : at[h] = "acking") => inbox = "processed"

\* Unless excused, one handler is at work at a time, on a notice that is not
\* stamped, and what it has done is not done yet or about to be stamped.
WorkOnce ==
  IF excused THEN acts = 0
  ELSE /\ acts \in 0 .. 1
       /\ acts = 1 => inbox = "processed" \/ \E h \in Handlers : at[h] = "toStamp"
       /\ \A h \in Handlers : AtWork(h) => inbox = "recorded" /\ \A g \in Handlers : AtWork(g) => g = h

InboxInv == InboxOK /\ InboxOrder /\ WorkOnce

\* The types of the sync: versions and runs.
RunsOK ==
  /\ current \in Versions /\ from \in Versions \cup {NoVersion} /\ best \in Versions \cup {NoVersion}
  /\ run \in [Runs -> {"idle", "listing", "writing", "stored", "failed"}]
  /\ listed \in [Runs -> Versions \cup {NoVersion}] /\ stamp \in [Runs -> Instants] /\ syncedAt \in Instants
  /\ \A r \in Runs : run[r] = "writing" => listed[r] \in Versions

\* The run that a handler waits for was begun after the notice was sent, so it
\* lists what the notice tells of.
Honouring ==
  /\ noticed \in Versions \cup {NoVersion} /\ noticed <= current
  /\ \A h \in Handlers : at[h] = "acting" =>
       /\ run[h] # "idle"
       /\ run[h] = "writing" => listed[h] >= noticed
       /\ run[h] = "stored" => best >= noticed
  /\ inbox = "processed" \/ (\E h \in Handlers : at[h] = "toStamp") => best >= noticed

\* Before a listing is stored nobody finds, confirms or is told of anything.
NothingYet ==
  /\ ~falseEmpty
  /\ from = NoVersion =>
       /\ syncedAt = "null" /\ confirmedAt = "null"
       /\ \A q \in Readers : seen[q].at = "null"
       /\ \A r \in Runs : run[r] # "stored"
  /\ seen \in [Readers -> [empty : BOOLEAN, at : Instants]]

\* The rows are a table of the products.
RowsOK == rows \in [Products -> [version : Versions \cup {NoVersion}, onOffer : BOOLEAN]]

\* What happens to the inbox.
InboxNext ==
  \/ Send \/ InboxDown
  \/ \E h \in Handlers :
       Record(h) \/ Act(h) \/ Acted(h) \/ Failed(h) \/ Stamp(h) \/ StampFails(h) \/ Acknowledge(h)

\* What happens to the catalogue: a run begins or is left besides, for a
\* handler or an administrator.
OutsideRun(r) ==
  /\ Begin(r) \/ (Ended(r) /\ RunLeaves(r))
  /\ UNCHANGED <<current, tableVars, stateVars, readerVars>>
CatalogueStep == CatalogueNext \/ CatalogueDown \/ \E r \in Runs : OutsideRun(r)

\* Every step of the whole is one of the inbox's, or leaves it.
LEMMA NextOfInbox == Next => InboxNext \/ UNCHANGED inboxVars
BY DEF Next, InboxNext, ChangeAndTell, HandlerNext, Dispatch, DispatchEnds, AdminBegins,
   AdminEnds, Restart

\* Every step of the whole is one of the catalogue's, or leaves all but its faults.
LEMMA NextOfCatalogue ==
  Next => CatalogueStep \/ UNCHANGED <<current, tableVars, runVars, stateVars, readerVars>>
BY HandlersAssumption DEF Next, CatalogueStep, CatalogueNext, ChangeAndTell, HandlerNext,
   Dispatch, DispatchEnds, AdminBegins,
       AdminEnds, OutsideRun, Restart, catalogueVars

\* Every step of the whole persists a listing, or leaves the rows.
LEMMA NextOfTable == Next => (\E r \in Runs : Persist(r)) \/ UNCHANGED <<rows, from, best>>
BY DEF Next, CatalogueNext, RunNext, ReaderNext, List, ListFails, Restarted, PersistFails,
   FindAll, AnswerWarm,
       StartRefresh, JoinRefresh, FindAllAgain, AnswerRefreshed, RefreshStored, RefreshFailed, Relist, Expire,
       BackoffOver, ChangeAndTell, HandlerNext, Dispatch, DispatchEnds, AdminBegins, AdminEnds, Restart,
       CatalogueDown, catalogueVars, tableVars

\* Versions are numbers.
LEMMA VersionsAreNumbers == LastVersion \in Nat /\ Versions \subseteq Nat /\ 0 \in Versions
BY ListingAssumption, FS_CardinalityType DEF LastVersion, Versions

\* What the inbox does keeps its invariant.
LEMMA InboxKept ==
  ASSUME InboxInv, InboxNext \/ UNCHANGED inboxVars
  PROVE  InboxInv'
<1> USE DEF InboxInv, InboxOK, InboxOrder, WorkOnce, AtWork
<1>1. CASE Send
  BY <1>1 DEF Send
<1>2. ASSUME NEW h \in Handlers, Record(h)
      PROVE  InboxInv'
  BY <1>2 DEF Record, Recorded, FindsProcessed, Goes, Excuse
<1>3. ASSUME NEW h \in Handlers, Act(h)
      PROVE  InboxInv'
  BY <1>3 DEF Act, Goes
<1>4. ASSUME NEW h \in Handlers, Acted(h)
      PROVE  InboxInv'
  BY <1>4 DEF Acted, Goes
<1>5. ASSUME NEW h \in Handlers, Failed(h)
      PROVE  InboxInv'
  BY <1>5 DEF Failed, Goes
<1>6. ASSUME NEW h \in Handlers, Stamp(h)
      PROVE  InboxInv'
  BY <1>6 DEF Stamp, Goes
<1>7. ASSUME NEW h \in Handlers, StampFails(h)
      PROVE  InboxInv'
  BY <1>7 DEF StampFails, Goes, Excuse
<1>8. ASSUME NEW h \in Handlers, Acknowledge(h)
      PROVE  InboxInv'
  BY <1>8 DEF Acknowledge, Goes
<1>9. CASE InboxDown
  BY <1>9 DEF InboxDown, Excuse
<1>10. CASE UNCHANGED inboxVars
  BY <1>10 DEF inboxVars
<1> QED
  BY <1>1, <1>2, <1>3, <1>4, <1>5, <1>6, <1>7, <1>8, <1>9, <1>10 DEF InboxNext

\* The runs stay what they are.
LEMMA RunsKept ==
  ASSUME RunsOK, Next
  PROVE  RunsOK'
<1> USE VersionsAreNumbers, RunsAssumption DEF RunsOK, Versions, NoVersion, Instants, aged
<1>1. ASSUME NEW r \in Runs, List(r)
      PROVE  RunsOK'
  BY <1>1 DEF List, RunGoes, tableVars, stateVars, readerVars, runVars
<1>2. ASSUME NEW r \in Runs, ListFails(r)
      PROVE  RunsOK'
  BY <1>2 DEF ListFails, RunEnds, RunGoes, tableVars, stateVars, readerVars, runVars
<1>3. ASSUME NEW r \in Runs, Persist(r)
      PROVE  RunsOK'
  BY <1>3 DEF Persist, RunEnds, RunGoes, tableVars, stateVars, readerVars, runVars
<1>4. ASSUME NEW r \in Runs, Restarted(r)
      PROVE  RunsOK'
  BY <1>4 DEF Restarted, RunEnds, RunGoes, tableVars, stateVars, readerVars, runVars
<1>5. ASSUME NEW r \in Runs, PersistFails(r)
      PROVE  RunsOK'
  BY <1>5 DEF PersistFails, RunEnds, RunGoes, tableVars, stateVars, readerVars, runVars
<1>6. ASSUME NEW q \in Readers, FindAll(q)
      PROVE  RunsOK'
  BY <1>6 DEF FindAll, ReaderGoes, Reads, tableVars, stateVars, readerVars, runVars
<1>7. ASSUME NEW q \in Readers, AnswerWarm(q)
      PROVE  RunsOK'
  BY <1>7 DEF AnswerWarm, Answers, tableVars, stateVars, readerVars, runVars
<1>8. ASSUME NEW q \in Readers, StartRefresh(q)
      PROVE  RunsOK'
  BY <1>8 DEF StartRefresh, ReaderGoes, Begin, RunGoes, tableVars, stateVars, readerVars, runVars
<1>9. ASSUME NEW q \in Readers, JoinRefresh(q)
      PROVE  RunsOK'
  BY <1>9 DEF JoinRefresh, ReaderGoes, tableVars, stateVars, readerVars, runVars
<1>10. ASSUME NEW q \in Readers, FindAllAgain(q)
      PROVE  RunsOK'
  BY <1>10 DEF FindAllAgain, ReaderGoes, Reads, tableVars, stateVars, readerVars, runVars
<1>11. ASSUME NEW q \in Readers, AnswerRefreshed(q)
      PROVE  RunsOK'
  BY <1>11 DEF AnswerRefreshed, Answers, tableVars, stateVars, readerVars, runVars
<1>12. CASE RefreshStored
  BY <1>12 DEF RefreshStored, RunLeaves, RunGoes, tableVars, stateVars, readerVars, runVars
<1>13. CASE RefreshFailed
  BY <1>13 DEF RefreshFailed, RunLeaves, RunGoes, tableVars, stateVars, readerVars, runVars
<1>14. CASE Relist
  BY <1>14 DEF Relist, tableVars, stateVars, readerVars, runVars
<1>15. CASE Expire
  BY <1>15 DEF Expire, tableVars, stateVars, readerVars, runVars
<1>16. CASE BackoffOver
  BY <1>16 DEF BackoffOver, tableVars, stateVars, readerVars, runVars
<1>17. CASE CatalogueDown
  BY <1>17 DEF CatalogueDown, tableVars, stateVars, readerVars, runVars
<1>18. ASSUME NEW r \in Runs, OutsideRun(r)
      PROVE  RunsOK'
  BY <1>18 DEF OutsideRun, Begin, Ended, RunLeaves, RunGoes, tableVars, stateVars, readerVars, runVars
<1>19. CASE UNCHANGED <<current, tableVars, runVars, stateVars, readerVars>>
  BY <1>19 DEF tableVars, stateVars, readerVars, runVars
<1> QED
  BY <1>1, <1>2, <1>3, <1>4, <1>5, <1>6, <1>7, <1>8, <1>9, <1>10, <1>11, <1>12, <1>13, <1>14,
     <1>15, <1>16, <1>17, <1>18, <1>19, NextOfCatalogue
     DEF CatalogueStep, CatalogueNext, RunNext, ReaderNext


\* Before the first listing is stored nobody is told of none.
LEMMA NothingYetKept ==
  ASSUME RunsOK, NothingYet, Next
  PROVE  NothingYet'
<1> USE RunsAssumption DEF RunsOK, NothingYet, Versions, NoVersion, Instants, aged
<1>1. ASSUME NEW r \in Runs, List(r)
      PROVE  NothingYet'
  BY <1>1 DEF List, RunGoes, tableVars, stateVars, readerVars, runVars
<1>2. ASSUME NEW r \in Runs, ListFails(r)
      PROVE  NothingYet'
  BY <1>2 DEF ListFails, RunEnds, RunGoes, tableVars, stateVars, readerVars, runVars
<1>3. ASSUME NEW r \in Runs, Persist(r)
      PROVE  NothingYet'
  BY <1>3 DEF Persist, RunEnds, RunGoes, tableVars, stateVars, readerVars, runVars
<1>4. ASSUME NEW r \in Runs, Restarted(r)
      PROVE  NothingYet'
  BY <1>4 DEF Restarted, RunEnds, RunGoes, tableVars, stateVars, readerVars, runVars
<1>5. ASSUME NEW r \in Runs, PersistFails(r)
      PROVE  NothingYet'
  BY <1>5 DEF PersistFails, RunEnds, RunGoes, tableVars, stateVars, readerVars, runVars
<1>6. ASSUME NEW q \in Readers, FindAll(q)
      PROVE  NothingYet'
  <2>1. [empty |-> rows = NoRows, at |-> syncedAt] \in [empty : BOOLEAN, at : Instants]
    OBVIOUS
  <2>2. /\ seen' = [seen EXCEPT ![q] = [empty |-> rows = NoRows, at |-> syncedAt]]
        /\ UNCHANGED <<from, syncedAt, confirmedAt, run, falseEmpty>>
    BY <1>6 DEF FindAll, Reads, tableVars, stateVars, runVars
  <2> QED
    BY <2>1, <2>2
<1>7. ASSUME NEW q \in Readers, AnswerWarm(q)
      PROVE  NothingYet'
  <2>1. Unread \in [empty : BOOLEAN, at : Instants] /\ Unread.at = "null"
    BY DEF Unread
  <2>2. /\ seen' = [seen EXCEPT ![q] = Unread]
        /\ falseEmpty' = (falseEmpty \/ (seen[q].empty /\ ~isUnavailable(q) /\ from = NoVersion))
        /\ UNCHANGED <<from, syncedAt, confirmedAt, run>>
    BY <1>7 DEF AnswerWarm, Answers, tableVars, stateVars, runVars
  <2>3. ~falseEmpty'
    BY <2>2 DEF isUnavailable
  <2> QED
    BY <2>1, <2>2, <2>3
<1>8. ASSUME NEW q \in Readers, StartRefresh(q)
      PROVE  NothingYet'
  BY <1>8 DEF StartRefresh, ReaderGoes, Begin, RunGoes, tableVars, stateVars, readerVars, runVars
<1>9. ASSUME NEW q \in Readers, JoinRefresh(q)
      PROVE  NothingYet'
  BY <1>9 DEF JoinRefresh, ReaderGoes, tableVars, stateVars, readerVars, runVars
<1>10. ASSUME NEW q \in Readers, FindAllAgain(q)
      PROVE  NothingYet'
  <2>1. [empty |-> rows = NoRows, at |-> syncedAt] \in [empty : BOOLEAN, at : Instants]
    OBVIOUS
  <2>2. /\ seen' = [seen EXCEPT ![q] = [empty |-> rows = NoRows, at |-> syncedAt]]
        /\ UNCHANGED <<from, syncedAt, confirmedAt, run, falseEmpty>>
    BY <1>10 DEF FindAllAgain, Reads, tableVars, stateVars, runVars
  <2> QED
    BY <2>1, <2>2
<1>11. ASSUME NEW q \in Readers, AnswerRefreshed(q)
      PROVE  NothingYet'
  <2>1. Unread \in [empty : BOOLEAN, at : Instants] /\ Unread.at = "null"
    BY DEF Unread
  <2>2. /\ seen' = [seen EXCEPT ![q] = Unread]
        /\ falseEmpty' = (falseEmpty \/ (seen[q].empty /\ ~isUnavailable(q) /\ from = NoVersion))
        /\ UNCHANGED <<from, syncedAt, confirmedAt, run>>
    BY <1>11 DEF AnswerRefreshed, Answers, tableVars, stateVars, runVars
  <2>3. ~falseEmpty'
    BY <2>2 DEF isUnavailable
  <2> QED
    BY <2>1, <2>2, <2>3
<1>12. CASE RefreshStored
  BY <1>12 DEF RefreshStored, RunLeaves, RunGoes, tableVars, stateVars, readerVars, runVars
<1>13. CASE RefreshFailed
  BY <1>13 DEF RefreshFailed, RunLeaves, RunGoes, tableVars, stateVars, readerVars, runVars
<1>14. CASE Relist
  BY <1>14 DEF Relist, tableVars, stateVars, readerVars, runVars
<1>15. CASE Expire
  <2>1. /\ seen' = [q \in Readers |-> [seen[q] EXCEPT !.at = aged(@)]]
        /\ syncedAt' = aged(syncedAt) /\ confirmedAt' = aged(confirmedAt)
        /\ UNCHANGED <<from, run, falseEmpty>>
    BY <1>15 DEF Expire
  <2>2. \A q \in Readers : seen'[q] \in [empty : BOOLEAN, at : Instants] /\ seen'[q].at = aged(seen[q].at)
    BY <2>1
  <2>3. aged("null") = "null"
    OBVIOUS
  <2>4. seen' \in [Readers -> [empty : BOOLEAN, at : Instants]]
    BY <2>1, <2>2
  <2> QED
    BY <2>1, <2>2, <2>3, <2>4
<1>16. CASE BackoffOver
  BY <1>16 DEF BackoffOver, tableVars, stateVars, readerVars, runVars
<1>17. CASE CatalogueDown
  <2>1. Unread \in [empty : BOOLEAN, at : Instants] /\ Unread.at = "null"
    BY DEF Unread
  <2> QED
    BY <1>17, <2>1 DEF CatalogueDown, tableVars
<1>18. ASSUME NEW r \in Runs, OutsideRun(r)
      PROVE  NothingYet'
  BY <1>18 DEF OutsideRun, Begin, Ended, RunLeaves, RunGoes, tableVars, stateVars, readerVars, runVars
<1>19. CASE UNCHANGED <<current, tableVars, runVars, stateVars, readerVars>>
  BY <1>19 DEF tableVars, stateVars, readerVars, runVars
<1> QED
  BY <1>1, <1>2, <1>3, <1>4, <1>5, <1>6, <1>7, <1>8, <1>9, <1>10, <1>11, <1>12, <1>13, <1>14,
     <1>15, <1>16, <1>17, <1>18, <1>19, NextOfCatalogue
     DEF CatalogueStep, CatalogueNext, RunNext, ReaderNext


\* What the inbox relies on of the catalogue.
HonourVars == <<current, best, run, listed>>

\* An acknowledged notice is honoured: its run was begun after it was sent.
LEMMA HonouringKept ==
  ASSUME InboxInv, RunsOK, Honouring, Next
  PROVE  Honouring'
<1> USE VersionsAreNumbers, HandlersAssumption, RunsAssumption DEF RunsOK, Honouring, InboxInv, InboxOK, InboxOrder, NoVersion
<1>1. CASE CatalogueNext /\ UNCHANGED <<inboxVars, noticed>>
  <2> USE <1>1 DEF inboxVars
  <2>1. ASSUME NEW r \in Runs, List(r)
        PROVE  Honouring'
    BY <2>1 DEF List, RunGoes, tableVars
  <2>2. ASSUME NEW r \in Runs, Persist(r)
        PROVE  Honouring'
    <3>1. listed[r] \in Versions /\ best' >= best /\ best' >= listed[r] /\ best' \in Versions \cup {NoVersion}
      BY <2>2 DEF Persist
    <3>2. run' = [run EXCEPT ![r] = "stored"] /\ current' = current
      BY <2>2 DEF Persist, RunEnds, RunGoes
    <3>3. \A h \in Handlers : h # r => listed'[h] = listed[h]
      BY <2>2 DEF Persist, RunEnds
    <3>4. ASSUME NEW h \in Handlers, at[h] = "acting"
          PROVE  /\ run'[h] # "idle"
                 /\ run'[h] = "writing" => listed'[h] >= noticed
                 /\ run'[h] = "stored" => best' >= noticed
      BY <2>2, <3>1, <3>2, <3>3, <3>4 DEF Persist
    <3> QED
      BY <3>1, <3>2, <3>4
  <2>3. ASSUME NEW r \in Runs, ListFails(r) \/ Restarted(r) \/ PersistFails(r)
        PROVE  Honouring'
    BY <2>3 DEF ListFails, Restarted, PersistFails, RunEnds, RunGoes, tableVars
  <2>4. ASSUME NEW q \in Readers, StartRefresh(q)
        PROVE  Honouring'
    BY <2>4 DEF StartRefresh, Begin, RunGoes, tableVars
  <2>5. CASE RefreshStored \/ RefreshFailed
    BY <2>5 DEF RefreshStored, RefreshFailed, RunLeaves, RunGoes, tableVars
  <2>6. CASE Relist
    BY <2>6 DEF Relist, tableVars, runVars
  <2>7. CASE UNCHANGED HonourVars
    BY <2>7 DEF HonourVars
  <2> QED
    BY <2>1, <2>2, <2>3, <2>4, <2>5, <2>6, <2>7 DEF CatalogueNext, RunNext, ReaderNext, FindAll,
       AnswerWarm, JoinRefresh,
       FindAllAgain, AnswerRefreshed, Expire, BackoffOver, HonourVars, tableVars, runVars
<1>2. CASE ChangeAndTell
  <2>1. /\ inbox = "none" /\ inbox' = inbox /\ at' = at
        /\ noticed' = current'
    BY <1>2 DEF ChangeAndTell, Send
  <2>2. current' \in Versions
    BY <1>2 DEF ChangeAndTell, Relist, Versions
  <2> QED
    BY <2>1, <2>2
<1>3. ASSUME NEW h \in Handlers, Dispatch(h)
      PROVE  Honouring'
  BY <1>3 DEF Dispatch, Act, Goes, Begin, RunGoes, tableVars
<1>4. ASSUME NEW h \in Handlers, DispatchEnds(h)
      PROVE  Honouring'
  BY <1>4 DEF DispatchEnds, Ended, RunLeaves, RunGoes, Acted, Failed, Goes, tableVars
<1>5. ASSUME NEW h \in Handlers, AdminBegins(h) \/ AdminEnds(h)
      PROVE  Honouring'
  BY <1>5 DEF AdminBegins, AdminEnds, Begin, Ended, RunLeaves, RunGoes, inboxVars, tableVars
<1>6. ASSUME NEW h \in Handlers, Record(h), UNCHANGED <<catalogueVars, noticed>>
      PROVE  Honouring'
  BY <1>6 DEF Record, Recorded, FindsProcessed, Goes, catalogueVars, tableVars, runVars
<1>7. ASSUME NEW h \in Handlers, Stamp(h) \/ Acknowledge(h), UNCHANGED <<catalogueVars, noticed>>
      PROVE  Honouring'
  BY <1>7 DEF Stamp, Acknowledge, Goes, catalogueVars, tableVars, runVars
<1>8. ASSUME NEW h \in Handlers, StampFails(h), UNCHANGED <<current, tableVars, runVars, noticed>>
      PROVE  Honouring'
  BY <1>8 DEF StampFails, Goes, tableVars, runVars
<1>9. CASE Restart
  BY <1>9 DEF Restart, CatalogueDown, InboxDown, tableVars
<1> QED
  BY <1>1, <1>2, <1>3, <1>4, <1>5, <1>6, <1>7, <1>8, <1>9 DEF Next, HandlerNext


-----------------------------------------------------------------------------
(* What is stored and read back is what the issuer listed. *)

\* A set of naturals has a least one: the intervals from 0 to each are finite
\* sets, and strictly ordered by inclusion.
LEMMA LeastNatural ==
  ASSUME NEW T \in SUBSET Nat, T # {}
  PROVE  Min(T) \in T
<1> DEFINE Below == {0 .. n : n \in T}
           R == StrictSubsetOrdering(Nat)
<1>1. Below \subseteq FiniteSubsetsOf(Nat) /\ Below # {}
  <2>1. ASSUME NEW n \in T
        PROVE  0 .. n \in SUBSET Nat /\ IsFiniteSet(0 .. n)
    BY FS_Interval
  <2> QED
    BY <2>1 DEF FiniteSubsetsOf
<1>2. PICK B \in Below : \A C \in Below : ~ (<<C, B>> \in R)
  BY <1>1, FS_StrictSubsetOrderingWellFounded, WFMin
<1>3. PICK m \in T : B = 0 .. m
  OBVIOUS
<1>4. ASSUME NEW n \in T, n < m
      PROVE  FALSE
  <2>1. 0 .. n \in Below /\ 0 .. n \subseteq B /\ 0 .. n # B
    BY <1>3, <1>4
  <2>2. <<0 .. n, B>> \in R
    BY <1>3, <2>1 DEF StrictSubsetOrdering
  <2> QED
    BY <1>2, <2>1, <2>2
<1>5. \A n \in T : m <= n
  BY <1>4
<1> QED
  BY <1>5 DEF Min

\* A product that was read from a listing is what one row of it says.
LEMMA MappedIsOfRow ==
  ASSUME NEW v \in Versions, NEW x \in DOMAIN Mapped[v]
  PROVE  \E row : Understood(row) /\ Mapped[v][x] = mapHyperCardCardProduct(row)
<1> DEFINE data == Listing[v]
           readable == {i \in DOMAIN data : Understood(data[i])}
           first(p) == Min({i \in readable : data[i].card_type_id = p})
<1>1. Mapped[v] = [p \in {data[i].card_type_id : i \in readable} |-> mapHyperCardCardProduct(data[first(p)])]
  BY DEF Mapped, mapHyperCardCardProducts
<1>2. x \in {data[i].card_type_id : i \in readable} /\ Mapped[v][x] = mapHyperCardCardProduct(data[first(x)])
  BY <1>1
<1>3. {i \in readable : data[i].card_type_id = x} \in SUBSET Nat
  BY ListingAssumption DEF Versions
<1>4. first(x) \in {i \in readable : data[i].card_type_id = x}
  BY <1>2, <1>3, LeastNatural
<1> QED
  BY <1>2, <1>4

\* The fields of a product, and the columns of its row.
ProductFields == UPSERT_COLUMNS \cup {"issuanceFee", "annualFee", "activation"}
RowFields == UPSERT_COLUMNS \cup {"issuanceFeeAmount", "issuanceFeeCurrency", "annualFeeAmount", "annualFeeCurrency",
  "activationMode", "activationRequiresIdentityDocument"}

\* A fee is stored as a pair of columns and read back.
LEMMA FeeSurvives ==
  ASSUME NEW raw
  PROVE  pairedFee(toFee(raw).amount, toFee(raw).currencyCode) = toFee(raw)
BY DEF pairedFee, toFee, FEE_CURRENCY_CODE

\* An activation likewise.
LEMMA ActivationSurvives ==
  ASSUME NEW raw, Known(ACTIVATION_BY_CODE, raw)
  PROVE  LET a == lookupCode(ACTIVATION_BY_CODE, raw)
         IN  a = [mode |-> a.mode, document |-> IF a.mode = "ISSUER_REQUEST" THEN a.document ELSE null]
<1>1. raw \in 1 .. 3
  BY DEF Known, ACTIVATION_BY_CODE, normaliseHyperCardInteger, null
<1> QED
  BY <1>1 DEF Known, ACTIVATION_BY_CODE, lookupCode, normaliseHyperCardInteger, null

\* What is joined is a function.
LEMMA JoinedIsFunction ==
  ASSUME NEW f, NEW g
  PROVE  Joined(f, g) = [c \in DOMAIN Joined(f, g) |-> Joined(f, g)[c]]
BY DEF Joined

\* A partner reads of a stored product what the issuer's row said of it.
LEMMA ResponseIsProduct ==
  ASSUME NEW row, Understood(row)
  PROVE  LET product == mapHyperCardCardProduct(row)
         IN  toCardProductResponse([toRowFields(product) EXCEPT !.availableForIssuance = product.availableForIssuance]) = product
<1> DEFINE p == mapHyperCardCardProduct(row)
           r == toRowFields(p)
           s == [r EXCEPT !.availableForIssuance = p.availableForIssuance]
           q == toCardProductResponse(s)
<1>1. DOMAIN p = ProductFields
  BY DEF mapHyperCardCardProduct, ProductFields, UPSERT_COLUMNS
<1>2. DOMAIN r = RowFields
  BY DEF toRowFields, Joined, RowFields, UPSERT_COLUMNS
<1>3. \A c \in UPSERT_COLUMNS : s[c] = p[c]
  BY <1>2 DEF toRowFields, Joined, RowFields, UPSERT_COLUMNS
<1>4. /\ s.issuanceFeeAmount = p.issuanceFee.amount /\ s.issuanceFeeCurrency = p.issuanceFee.currencyCode
      /\ s.annualFeeAmount = p.annualFee.amount /\ s.annualFeeCurrency = p.annualFee.currencyCode
      /\ s.activationMode = p.activation.mode
      /\ s.activationRequiresIdentityDocument =
           IF p.activation.mode = "ISSUER_REQUEST" THEN p.activation.document ELSE null
  BY <1>2 DEF toRowFields, Joined, RowFields, UPSERT_COLUMNS
<1>5. DOMAIN q = ProductFields
  BY DEF toCardProductResponse, Joined, ProductFields, UPSERT_COLUMNS
<1>6. \A c \in UPSERT_COLUMNS : q[c] = s[c]
  BY DEF toCardProductResponse, Joined, UPSERT_COLUMNS
<1>7. /\ q.issuanceFee = pairedFee(s.issuanceFeeAmount, s.issuanceFeeCurrency)
      /\ q.annualFee = pairedFee(s.annualFeeAmount, s.annualFeeCurrency)
      /\ q.activation = [mode |-> s.activationMode,
            document |-> IF s.activationMode = "ISSUER_REQUEST" THEN s.activationRequiresIdentityDocument ELSE null]
  BY DEF toCardProductResponse, Joined, UPSERT_COLUMNS
<1>8. p.issuanceFee = toFee(row.card_fee) /\ p.annualFee = toFee(row.annual_fee)
      /\ p.activation = lookupCode(ACTIVATION_BY_CODE, row.activate_type)
  BY DEF mapHyperCardCardProduct
<1>9. q.issuanceFee = p.issuanceFee /\ q.annualFee = p.annualFee
  BY <1>4, <1>7, <1>8, FeeSurvives
<1>10. q.activation = p.activation
  BY <1>4, <1>7, <1>8, ActivationSurvives DEF Understood
<1>11. \A c \in ProductFields : q[c] = p[c]
  BY <1>3, <1>6, <1>9, <1>10 DEF ProductFields
<1>12. q = [c \in DOMAIN q |-> q[c]]
  BY JoinedIsFunction DEF toCardProductResponse
<1>13. p = [c \in DOMAIN p |-> p[c]]
  BY DEF mapHyperCardCardProduct
<1> QED
  BY <1>1, <1>5, <1>11, <1>12, <1>13

\* The rows are whole after every listing that is persisted.
LEMMA WholeAfterPersist ==
  ASSUME RunsOK, RowsOK, NEW r \in Runs, Persist(r)
  PROVE  SnapshotIsWhole'
<1> DEFINE v == listed[r]
<1>1. v \in Versions /\ from' = v
  BY DEF Persist, RunsOK
<1>2. rows' = WithdrawnAbsent(Upserted(v), v)
  BY DEF Persist
<1>3. ASSUME NEW x \in Products, x \in DOMAIN Mapped[v]
      PROVE  rows'[x].version = from' /\ toCardProductResponse(StoredRow(x)') = Mapped[v][x]
  <2>1. rows'[x] = [version |-> v, onOffer |-> Mapped[v][x].availableForIssuance]
    BY <1>2, <1>3 DEF WithdrawnAbsent, Upserted
  <2>2. StoredRow(x)' = [toRowFields(Mapped[v][x]) EXCEPT !.availableForIssuance = Mapped[v][x].availableForIssuance]
    BY <2>1 DEF StoredRow
  <2>3. PICK row : Understood(row) /\ Mapped[v][x] = mapHyperCardCardProduct(row)
    BY <1>1, <1>3, MappedIsOfRow
  <2> QED
    BY <1>1, <2>1, <2>2, <2>3, ResponseIsProduct
<1>4. ASSUME NEW x \in Products, x \notin DOMAIN Mapped[v]
      PROVE  ~rows'[x].onOffer
  BY <1>2, <1>4 DEF WithdrawnAbsent, Upserted, RowsOK
<1> QED
  BY <1>1, <1>3, <1>4 DEF SnapshotIsWhole

\* The table stays one.
LEMMA TableKept ==
  ASSUME RunsOK, RowsOK, NEW r \in Runs, Persist(r)
  PROVE  RowsOK'
<1> DEFINE v == listed[r]
<1>1. v \in Versions
  BY DEF Persist, RunsOK
<1>2. rows' = WithdrawnAbsent(Upserted(v), v)
  BY DEF Persist
<1>3. ASSUME NEW x \in Products
      PROVE  rows'[x] \in [version : Versions \cup {NoVersion}, onOffer : BOOLEAN]
  <2>1. CASE x \in DOMAIN Mapped[v]
    <3>1. Mapped[v][x].availableForIssuance \in BOOLEAN
      <4>1. PICK row : Mapped[v][x] = mapHyperCardCardProduct(row)
        BY <1>1, <2>1, MappedIsOfRow
      <4>2. Mapped[v][x].availableForIssuance = (isEnabledFlag(row.status) /\ isEnabledFlag(row.can_recharge))
        BY <4>1 DEF mapHyperCardCardProduct
      <4> QED
        BY <4>2
    <3> QED
      BY <1>1, <1>2, <2>1, <3>1 DEF WithdrawnAbsent, Upserted
  <2>2. CASE x \notin DOMAIN Mapped[v]
    BY <1>2, <2>2 DEF WithdrawnAbsent, Upserted, RowsOK
  <2> QED
    BY <2>1, <2>2
<1> QED
  BY <1>2, <1>3 DEF WithdrawnAbsent, RowsOK

-----------------------------------------------------------------------------
(* The theorems. *)

\* The inductive invariant.
IInv == InboxInv /\ RunsOK /\ Honouring /\ NothingYet /\ RowsOK /\ SnapshotIsWhole

\* At the start nothing is sent, listed, stored or asked for.
LEMMA Begins == Init => IInv
<1> SUFFICES ASSUME Init
             PROVE  IInv
  OBVIOUS
<1>1. InboxInv
  <2>1. InboxOK
    BY DEF Init, InboxInit, InboxOK
  <2>2. InboxOrder
    BY DEF Init, InboxInit, InboxOrder
  <2>3. WorkOnce
    BY DEF Init, InboxInit, WorkOnce, AtWork
  <2> QED
    BY <2>1, <2>2, <2>3 DEF InboxInv
<1>2. RunsOK
  BY VersionsAreNumbers DEF Init, CatalogueInit, RunsOK, Instants
<1>3. Honouring
  BY VersionsAreNumbers DEF Init, CatalogueInit, InboxInit, Honouring, NoVersion
<1>4. NothingYet
  BY DEF Init, CatalogueInit, NothingYet, Unread, Instants
<1>5. RowsOK
  BY DEF Init, CatalogueInit, RowsOK, NoRows
<1>6. SnapshotIsWhole
  BY DEF Init, CatalogueInit, SnapshotIsWhole
<1> QED
  BY <1>1, <1>2, <1>3, <1>4, <1>5, <1>6 DEF IInv

\* Every step keeps all of it.
LEMMA GoesOn == IInv /\ [Next]_vars => IInv'
<1> SUFFICES ASSUME IInv, [Next]_vars
             PROVE  IInv'
  OBVIOUS
<1> USE DEF IInv
<1>1. CASE Next
  <2>1. InboxInv'
    BY <1>1, NextOfInbox, InboxKept
  <2>2. RunsOK' /\ Honouring' /\ NothingYet'
    BY <1>1, RunsKept, HonouringKept, NothingYetKept
  <2>3. RowsOK' /\ SnapshotIsWhole'
    <3>1. CASE UNCHANGED <<rows, from, best>>
      BY <3>1 DEF RowsOK, SnapshotIsWhole, StoredRow
    <3> QED
      BY <1>1, <3>1, NextOfTable, TableKept, WholeAfterPersist
  <2> QED
    BY <2>1, <2>2, <2>3
<1>2. CASE UNCHANGED vars
  <2> USE <1>2 DEF vars, catalogueVars, tableVars, runVars, stateVars, readerVars, inboxVars
  <2>1. InboxInv'
    BY InboxKept
  <2>2. RunsOK' /\ Honouring' /\ NothingYet'
    BY DEF RunsOK, Honouring, NothingYet
  <2>3. RowsOK' /\ SnapshotIsWhole'
    BY DEF RowsOK, SnapshotIsWhole, StoredRow
  <2> QED
    BY <2>1, <2>2, <2>3
<1> QED
  BY <1>1, <1>2

\* The inductive invariant holds of the catalogue and its inbox together.
THEOREM Invariant == Spec => []IInv
BY Begins, GoesOn, PTL DEF Spec

\* A notice is acted on once however often process-card-provider-callback is
\* called with it, by however many deliveries, unless two are handled together
\* or a stamp is lost.
THEOREM ActedOnce == Spec => []ActsOnce
<1>1. IInv => ActsOnce
  BY DEF IInv, InboxInv, InboxOK, WorkOnce, ActsOnce
<1> QED
  BY <1>1, Invariant, PTL

\* A notice is acknowledged only when the listing it tells of, or a later one,
\* is stored (sync-card-products on a notice), whatever has failed.
THEOREM NoticesHonoured == Spec => []NoticeIsHonoured
<1>1. IInv => NoticeIsHonoured
  BY DEF IInv, InboxInv, InboxOrder, Honouring, NoticeIsHonoured
<1> QED
  BY <1>1, Invariant, PTL

\* What partners read is one listing, whole, whatever the issuer lists: stored
\* by the upsert and the withdrawal, and read back through the columns.
THEOREM SnapshotsWhole == Spec => []SnapshotIsWhole
<1>1. IInv => SnapshotIsWhole
  BY DEF IInv
<1> QED
  BY <1>1, Invariant, PTL

\* list-card-products tells nobody of no products before a listing was stored.
THEOREM EmptyConfirmed == Spec => []EmptyIsConfirmed
<1>1. IInv => EmptyIsConfirmed
  BY DEF IInv, NothingYet, EmptyIsConfirmed
<1> QED
  BY <1>1, Invariant, PTL
=============================================================================
