-------------------------- MODULE CatalogueNotices --------------------------
(***************************************************************************)
(* The issuer tells of a change to its products (CardProviderCallbacks);   *)
(* acting on the notice is a run of the catalogue's sync (CardCatalogue),  *)
(* next to the readers' refresh, and next to what an administrator asks    *)
(* for. A handler is the name of the run it starts.                        *)
(***************************************************************************)
EXTENDS CardCatalogue, CardProviderCallbacks

VARIABLE noticed   \* the version the notice is about

vars == <<catalogueVars, inboxVars, noticed>>

ASSUME HandlersAssumption == Handlers = Runs \ {Refresh}

Init == CatalogueInit /\ InboxInit /\ noticed = NoVersion

\* The issuer changes its listing and sends the one notice that is modelled.
ChangeAndTell ==
  /\ Relist /\ Send
  /\ noticed' = current'

\* The notice is acted on by a run over the whole catalogue.
Dispatch(h) ==
  /\ Act(h) /\ Begin(h)
  /\ UNCHANGED <<current, tableVars, stateVars, readerVars, faults, noticed>>

\* Mutant: a run that fails is taken for one that stored.
DispatchSwallowed(h) ==
  /\ Ended(h) /\ RunLeaves(h) /\ Acted(h)
  /\ UNCHANGED <<current, tableVars, stateVars, readerVars, faults, noticed>>
\* The run's failure is the dispatch's.
DispatchEnds(h) ==
  /\ Ended(h) /\ RunLeaves(h)
  /\ IF run[h] = "stored" THEN Acted(h) ELSE Failed(h)
  /\ UNCHANGED <<current, tableVars, stateVars, readerVars, faults, noticed>>

\* A request may instead be an administrator's, for a run of the sync.
AdminBegins(r) ==
  /\ at[r] = "idle" /\ Begin(r)
  /\ UNCHANGED <<current, tableVars, stateVars, readerVars, faults, inboxVars, noticed>>
AdminEnds(r) ==
  /\ at[r] = "idle" /\ Ended(r) /\ RunLeaves(r)
  /\ UNCHANGED <<current, tableVars, stateVars, readerVars, faults, inboxVars, noticed>>

HandlerNext(h) ==
  \/ Dispatch(h) \/ DispatchEnds(h) \/ AdminBegins(h) \/ AdminEnds(h)
  \/ run[h] = "idle" /\ Record(h) /\ UNCHANGED <<catalogueVars, noticed>>
  \/ (Stamp(h) \/ Acknowledge(h)) /\ UNCHANGED <<catalogueVars, noticed>>
  \/ StampFails(h) /\ Fault /\ UNCHANGED <<current, tableVars, runVars, stateVars, readerVars, noticed>>

Restart == CatalogueDown /\ InboxDown /\ UNCHANGED noticed

Next ==
  \/ CatalogueNext /\ UNCHANGED <<inboxVars, noticed>>
  \/ ChangeAndTell
  \/ \E h \in Handlers : HandlerNext(h)
  \/ Restart

\* Partners go on asking, time passes, and what was begun goes on. Neither the
\* issuer's changes nor its redeliveries are owed to anybody.
Fairness ==
  /\ \A q \in Readers : WF_vars(ReaderNext(q) /\ UNCHANGED <<inboxVars, noticed>>)
  /\ \A r \in Runs : WF_vars((List(r) \/ Persist(r)) /\ UNCHANGED <<inboxVars, noticed>>)
  /\ WF_vars((RefreshStored \/ RefreshFailed) /\ UNCHANGED <<inboxVars, noticed>>)
  /\ WF_vars(Expire /\ UNCHANGED <<inboxVars, noticed>>)

Spec == Init /\ [][Next]_vars /\ Fairness

-----------------------------------------------------------------------------
\* What partners read is one listing of the issuer's, whole and as the issuer
\* gave it, whoever wrote last: everything in it that can be understood, on
\* offer unless the issuer takes no application for it, and nothing that is not
\* in it is on offer.
SnapshotIsWhole ==
  from # NoVersion =>
    \A x \in Products :
      IF x \in DOMAIN Mapped[from]
      THEN rows[x].version = from /\ toCardProductResponse(StoredRow(x)) = Mapped[from][x]
      ELSE ~rows[x].onOffer

\* An acknowledged notice has been honoured: the listing it announces, or a
\* later one, has been stored, whatever failed on the way.
NoticeIsHonoured == acked => best >= noticed

\* No partner is told that the issuer offers nothing before a listing of the
\* issuer's has been stored, whatever refreshes fail and however often the
\* process starts again.
EmptyIsConfirmed == ~falseEmpty

\* Once the issuer's listing stands still, the rows come to say it and go on
\* saying it: a run that was slow to store an older listing is made good.
Converges == \A v \in Versions : <>[](current = v) => <>[](from = v)
=============================================================================
