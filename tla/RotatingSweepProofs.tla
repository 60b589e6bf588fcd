------------------------- MODULE RotatingSweepProofs -------------------------
(***************************************************************************)
(* NoOvertaking and BatchIsBounded for any rows, any batch size, any set   *)
(* of favoured rows and any number of restarts and callbacks. The query's  *)
(* order is a strict total order as long as the stamps are a weak one; a   *)
(* batch is then closed under it, and a row that overtook another is later *)
(* in it, so it cannot be in a batch the other is not in.                  *)
(***************************************************************************)
EXTENDS RotatingSweep, FiniteSetTheorems, TLAPS

\* The order of the query is transitive.
LEMMA BeforeTransitive ==
  ASSUME StampsOrdered, NEW r \in Rows, NEW s \in Rows, NEW t \in Rows,
         Before(r, s), Before(s, t)
  PROVE  Before(r, t)
<1>1. r \in Int /\ s \in Int /\ t \in Int
  BY RowsAssumption
<1>2. CASE s \in later[r]
  BY <1>2 DEF StampsOrdered, Before
<1>3. CASE s \notin later[r] /\ r \notin later[s]
  BY <1>1, <1>3 DEF StampsOrdered, Before
<1>4. QED
  BY <1>2, <1>3 DEF Before

\* The order of the query is irreflexive, and orders any two rows.
LEMMA BeforeTotal ==
  ASSUME StampsOrdered, NEW r \in Rows, NEW s \in Rows
  PROVE  /\ ~Before(r, r)
         /\ r # s => Before(r, s) \/ Before(s, r)
<1>1. r \in Int /\ s \in Int
  BY RowsAssumption
<1>2. QED
  BY <1>1 DEF StampsOrdered, Before

\* A row precedes every row its predecessors precede.
LEMMA FewerAhead ==
  ASSUME StampsOrdered, NEW S \in SUBSET Rows, NEW r \in S, NEW s \in S, Before(r, s)
  PROVE  /\ Cardinality({t \in S : Before(t, r)}) \in Nat
         /\ Cardinality({t \in S : Before(t, s)}) \in Nat
         /\ Cardinality({t \in S : Before(t, r)}) < Cardinality({t \in S : Before(t, s)})
<1> DEFINE Ahead(x) == {t \in S : Before(t, x)}
<1>1. IsFiniteSet(Ahead(r)) /\ IsFiniteSet(Ahead(s))
  BY RowsAssumption, FS_Subset
<1>2. Ahead(r) \subseteq Ahead(s)
  BY BeforeTransitive
<1>3. r \in Ahead(s) /\ r \notin Ahead(r)
  BY BeforeTotal
<1>4. Cardinality(Ahead(r)) <= Cardinality(Ahead(s)) /\ Cardinality(Ahead(r)) # Cardinality(Ahead(s))
  <2> HIDE DEF Ahead
  <2> QED
    BY <1>1, <1>2, <1>3, FS_Subset
<1>5. Cardinality(Ahead(r)) \in Nat /\ Cardinality(Ahead(s)) \in Nat
  <2> HIDE DEF Ahead
  <2> QED
    BY <1>1, FS_CardinalityType
<1>6. QED
  BY <1>4, <1>5

\* What First returns is closed: with a row it holds every row before it.
LEMMA FirstClosed ==
  ASSUME StampsOrdered, NEW S \in SUBSET Rows, NEW n \in Int,
         NEW r \in First(S, n), NEW s \in S, Before(s, r)
  PROVE  s \in First(S, n)
<1>1. r \in S /\ Cardinality({t \in S : Before(t, r)}) < n
  BY DEF First
<1> DEFINE Ahead(x) == Cardinality({t \in S : Before(t, x)})
<1>2. Ahead(s) \in Nat /\ Ahead(r) \in Nat /\ Ahead(s) < Ahead(r)
  BY <1>1, FewerAhead
<1>3. Ahead(s) < n
  <2>1. Ahead(r) < n
    BY <1>1
  <2> HIDE DEF Ahead
  <2>2. QED
    BY <1>2, <2>1
<1>4. QED
  BY <1>3 DEF First

\* What First returns has at most n rows.
LEMMA FirstBounded ==
  ASSUME StampsOrdered, NEW S \in SUBSET Rows, NEW n \in Nat
  PROVE  /\ First(S, n) \subseteq S /\ IsFiniteSet(First(S, n))
         /\ Cardinality(First(S, n)) \in Nat /\ Cardinality(First(S, n)) <= n
<1> DEFINE F == First(S, n)
<1> DEFINE rank == [r \in F |-> Cardinality({t \in S : Before(t, r)})]
<1>1. F \subseteq S /\ IsFiniteSet(F)
  BY RowsAssumption, FS_Subset DEF First
<1>2. Cardinality(F) \in Nat
  BY <1>1, FS_CardinalityType
<1>3. ASSUME NEW r \in F
      PROVE  rank[r] \in 0..(n - 1)
  <2>1. IsFiniteSet({t \in S : Before(t, r)})
    BY RowsAssumption, FS_Subset
  <2>2. Cardinality({t \in S : Before(t, r)}) \in Nat
    BY <2>1, FS_CardinalityType
  <2>3. QED
    BY <2>2 DEF First
<1>4. ASSUME NEW r \in F, NEW s \in F, r # s
      PROVE  rank[r] # rank[s]
  <2> r \in S /\ s \in S
    BY <1>1
  <2> DEFINE Ahead(x) == Cardinality({t \in S : Before(t, x)})
  <2>0. rank[r] = Ahead(r) /\ rank[s] = Ahead(s)
    OBVIOUS
  <2>1. CASE Before(r, s)
    <3>1. Ahead(r) \in Nat /\ Ahead(s) \in Nat /\ Ahead(r) < Ahead(s)
      BY <2>1, FewerAhead
    <3> HIDE DEF Ahead, rank
    <3>2. QED
      BY <2>0, <3>1
  <2>2. CASE Before(s, r)
    <3>1. Ahead(r) \in Nat /\ Ahead(s) \in Nat /\ Ahead(s) < Ahead(r)
      BY <2>2, FewerAhead
    <3> HIDE DEF Ahead, rank
    <3>2. QED
      BY <2>0, <3>1
  <2>3. QED
    BY <1>1, <1>4, <2>1, <2>2, BeforeTotal
<1>5. IsFiniteSet(0..(n - 1)) /\ Cardinality(0..(n - 1)) = n
  BY FS_Interval
<1>6. rank \in [F -> 0..(n - 1)]
  BY <1>3
<1>7. ~(n < Cardinality(F))
  <2> HIDE DEF F, rank
  <2> SUFFICES ASSUME n < Cardinality(F) PROVE FALSE
    OBVIOUS
  <2>1. \E x, y \in F : x # y /\ rank[x] = rank[y]
    BY <1>1, <1>5, <1>6, FS_PigeonHole
  <2>2. QED
    BY <2>1, <1>4
<1>8. QED
  BY <1>1, <1>2, <1>7
-----------------------------------------------------------------------------
\* A stamp keeps the stamps in a weak order, and puts its rows behind all others.
LEMMA StampedOrdered ==
  ASSUME TypeOK, StampsOrdered, NEW B \in SUBSET Rows, later' = Stamped(B)
  PROVE  /\ later' \in [Rows -> SUBSET Rows]
         /\ StampsOrdered'
<1>1. later \in [Rows -> SUBSET Rows]
  BY DEF TypeOK
<1>2. \A r, s \in Rows : s \in later'[r] <=> (r \notin B /\ (s \in later[r] \/ s \in B))
  BY <1>1 DEF Stamped
<1>3. later' \in [Rows -> SUBSET Rows]
  BY <1>1 DEF Stamped
<1>4. QED
  BY <1>2, <1>3 DEF StampsOrdered

\* What the second query adds to a batch is closed, and fits into the batch.
LEMMA RestClosed ==
  ASSUME StampsOrdered, TypeOK, NEW p \in Passes, NEW r \in Rest(p),
         NEW s \in waiting, s \notin batch[p], Before(s, r), Cardinality(batch[p]) \in Nat
  PROVE  s \in Rest(p)
<1> DEFINE F == First(waiting, Batch)
<1>1. waiting \in SUBSET Rows /\ Batch \in Nat
  BY BatchAssumption DEF TypeOK
<1>2. F \subseteq waiting /\ r \in F \ batch[p] /\ F \in SUBSET Rows
  BY <1>1 DEF First, Rest
<1>3. s \in F \ batch[p]
  BY <1>1, <1>2, FirstClosed
<1>4. Batch - Cardinality(batch[p]) \in Int
  BY <1>1
<1>5. QED
  <2> DEFINE G == F \ batch[p]
  <2> DEFINE n == Batch - Cardinality(batch[p])
  <2>1. r \in First(G, n) /\ G \in SUBSET Rows /\ n \in Int /\ s \in G
    BY <1>2, <1>3, <1>4 DEF Rest
  <2> HIDE DEF F, G, n
  <2>2. s \in First(G, n)
    BY <2>1, FirstClosed
  <2>3. QED
    BY <2>2 DEF Rest, F, G, n
-----------------------------------------------------------------------------
LEMMA Initially == Init => IInv
<1> SUFFICES ASSUME Init PROVE IInv
  OBVIOUS
<1>1. TypeOK
  <2>1. crashes \in 0..MaxCrashes /\ nudges \in 0..MaxNudges
    BY BoundsAssumption DEF Init
  <2>2. at \in [Passes -> PassStates] /\ asking \in [Passes -> Rows \cup {NoRow}]
    BY DEF Init, PassStates
  <2>3. \A p \in Passes : asking[p] = NoRow /\ at[p] # "asking"
    BY DEF Init
  <2>4. QED
    BY <2>1, <2>2, <2>3 DEF Init, TypeOK
<1>2. BatchIsBounded
  BY BatchAssumption, FS_EmptySet DEF Init, BatchIsBounded
<1>3. StampsOrdered /\ OvertakenIsEarlier /\ FlagIsUp /\ FavouredFirst /\ NoOvertaking
  BY DEF Init, StampsOrdered, OvertakenIsEarlier, FlagIsUp, FavouredFirst, NoOvertaking
<1>4. QED
  BY <1>1, <1>2, <1>3 DEF IInv

LEMMA TypeStep == TypeOK /\ [Next]_vars => TypeOK'
<1> SUFFICES ASSUME TypeOK, [Next]_vars PROVE TypeOK'
  OBVIOUS
<1> USE DEF TypeOK, PassStates, rowVars, stampVars, passVars, countVars
<1>1. CASE UNCHANGED vars
  BY <1>1 DEF vars
<1>2. ASSUME NEW p \in Passes, Tick(p) PROVE TypeOK'
  BY <1>2 DEF Tick
<1>3. ASSUME NEW p \in Passes, TakeFavoured(p) PROVE TypeOK'
  BY <1>3 DEF TakeFavoured, First
<1>4. ASSUME NEW p \in Passes, TakeRest(p) PROVE TypeOK'
  BY <1>4 DEF TakeRest, Rest, First
<1>5. ASSUME NEW p \in Passes, Stamp(p) PROVE TypeOK'
  BY <1>5 DEF Stamp, Stamped
<1>6. ASSUME NEW p \in Passes, Examine(p) PROVE TypeOK'
  BY <1>6, RowsAssumption DEF Examine
<1>7. ASSUME NEW p \in Passes, Answered(p) PROVE TypeOK'
  BY <1>7 DEF Answered, LeavesTheSet, LeftAfterThrow
<1>8. ASSUME NEW p \in Passes, Finish(p) PROVE TypeOK'
  BY <1>8 DEF Finish
<1>9. ASSUME NEW p \in Passes, GiveUp(p) \/ LoadApplications(p) PROVE TypeOK'
  BY <1>9 DEF GiveUp, LoadApplications
<1>10. ASSUME NEW r \in Rows, Arrive(r) PROVE TypeOK'
  BY <1>10 DEF Arrive
<1>11. ASSUME NEW r \in Rows, Depart(r) PROVE TypeOK'
  BY <1>11 DEF Depart, LeavesTheSet
<1>12. ASSUME NEW r \in Rows, Nudge(r) PROVE TypeOK'
  BY <1>12, BoundsAssumption DEF Nudge, Stamped
<1>13. ASSUME NEW r \in Rows, Activate(r) PROVE TypeOK'
  BY <1>13 DEF Activate
<1>14. CASE Crash
  <2>1. crashes' \in 0..MaxCrashes
    BY <1>14, BoundsAssumption DEF Crash
  <2>2. at' \in [Passes -> PassStates] /\ asking' \in [Passes -> Rows \cup {NoRow}]
    BY <1>14 DEF Crash
  <2>3. \A p \in Passes : asking'[p] = NoRow /\ at'[p] # "asking"
    BY <1>14 DEF Crash
  <2>4. QED
    BY <1>14, <2>1, <2>2, <2>3 DEF Crash
<1>15. QED
  BY <1>1, <1>2, <1>3, <1>4, <1>5, <1>6, <1>7, <1>8, <1>9, <1>10, <1>11, <1>12, <1>13, <1>14
  DEF Next

\* The stamps stay a weak order, and a row that overtook another stays later.
LEMMA StampsStep ==
  TypeOK /\ StampsOrdered /\ OvertakenIsEarlier /\ [Next]_vars
    => StampsOrdered' /\ OvertakenIsEarlier'
<1> SUFFICES ASSUME TypeOK, StampsOrdered, OvertakenIsEarlier, [Next]_vars
             PROVE  StampsOrdered' /\ OvertakenIsEarlier'
  OBVIOUS
<1>0. /\ later \in [Rows -> SUBSET Rows] /\ overtaken \in [Rows -> SUBSET Rows]
      /\ batch \in [Passes -> SUBSET Rows]
  BY DEF TypeOK
<1>1. CASE UNCHANGED stampVars
  BY <1>1 DEF stampVars, StampsOrdered, OvertakenIsEarlier
<1>2. ASSUME NEW p \in Passes, Stamp(p)
      PROVE  StampsOrdered' /\ OvertakenIsEarlier'
  <2>1. later' = Stamped(batch[p]) /\ batch[p] \in SUBSET Rows
    BY <1>0, <1>2 DEF Stamp
  <2>2. StampsOrdered'
    BY <2>1, StampedOrdered
  <2>3. \A s \in Rows : overtaken'[s] \subseteq later'[s]
    BY <1>0, <1>2, <2>1 DEF Stamp, Stamped, OvertakenIsEarlier
  <2>4. QED
    BY <2>2, <2>3 DEF OvertakenIsEarlier
<1>3. ASSUME NEW r \in Rows, Nudge(r)
      PROVE  StampsOrdered' /\ OvertakenIsEarlier'
  <2>1. later' = Stamped({r}) /\ {r} \in SUBSET Rows
    BY <1>3 DEF Nudge
  <2>2. StampsOrdered'
    BY <2>1, StampedOrdered
  <2>3. \A s \in Rows : overtaken'[s] \subseteq later'[s]
    BY <1>0, <1>3, <2>1 DEF Nudge, Stamped, OvertakenIsEarlier
  <2>4. QED
    BY <2>2, <2>3 DEF OvertakenIsEarlier
<1>4. ASSUME NEW r \in Rows, Arrive(r)
      PROVE  StampsOrdered' /\ OvertakenIsEarlier'
  BY <1>0, <1>4 DEF Arrive, StampsOrdered, OvertakenIsEarlier
<1>5. QED
  BY <1>1, <1>2, <1>3, <1>4
  DEF Next, vars, Tick, TakeFavoured, TakeRest, LoadApplications, Examine, Answered, Finish, GiveUp,
      Depart, Activate, Crash

\* One pass at a time, its favoured rows first, its batch within bounds.
LEMMA PassStep ==
  TypeOK /\ StampsOrdered /\ FlagIsUp /\ FavouredFirst /\ BatchIsBounded /\ [Next]_vars
    => FlagIsUp' /\ FavouredFirst' /\ BatchIsBounded'
<1> SUFFICES ASSUME TypeOK, StampsOrdered, FlagIsUp, FavouredFirst, BatchIsBounded, [Next]_vars
             PROVE  FlagIsUp' /\ FavouredFirst' /\ BatchIsBounded'
  OBVIOUS
<1> USE DEF PassStates
<1>0. /\ at \in [Passes -> PassStates] /\ batch \in [Passes -> SUBSET Rows]
      /\ waiting \in SUBSET Rows /\ urgent \in SUBSET Favoured /\ Batch \in Nat
  BY BatchAssumption DEF TypeOK
<1>1. \A p \in Passes : IsFiniteSet(batch[p]) /\ Cardinality(batch[p]) \in Nat
  BY <1>0, RowsAssumption, FS_Subset, FS_CardinalityType
<1>2. CASE UNCHANGED <<at, batch, inFlight>>
  BY <1>2 DEF FlagIsUp, FavouredFirst, BatchIsBounded
<1>3. ASSUME NEW p \in Passes, Tick(p)
      PROVE  FlagIsUp' /\ FavouredFirst' /\ BatchIsBounded'
  BY <1>0, <1>3 DEF Tick, MayStart, FlagIsUp, FavouredFirst, BatchIsBounded
<1>4. ASSUME NEW p \in Passes, TakeFavoured(p)
      PROVE  FlagIsUp' /\ FavouredFirst' /\ BatchIsBounded'
  <2> DEFINE F == First(waiting \cap urgent, Batch)
  <2>1. F \subseteq waiting \cap urgent /\ Cardinality(F) <= Batch
    BY <1>0, FirstBounded
  <2> HIDE DEF F
  <2>2. batch' = [batch EXCEPT ![p] = F] /\ at[p] # "idle"
        /\ at' = [at EXCEPT ![p] = "favoured"] /\ inFlight' = inFlight
    BY <1>4 DEF TakeFavoured, F
  <2>3. QED
    BY <1>0, <2>1, <2>2 DEF FlagIsUp, FavouredFirst, BatchIsBounded
<1>5. ASSUME NEW p \in Passes, TakeRest(p)
      PROVE  FlagIsUp' /\ FavouredFirst' /\ BatchIsBounded'
  <2> DEFINE room == Batch - Cardinality(batch[p])
  <2>1. room \in Nat
    BY <1>0, <1>1 DEF BatchIsBounded
  <2>2. First(waiting, Batch) \ batch[p] \in SUBSET Rows
    BY <1>0 DEF First
  <2>3. /\ Rest(p) \cap batch[p] = {} /\ IsFiniteSet(Rest(p))
        /\ Cardinality(Rest(p)) \in Nat /\ Cardinality(Rest(p)) <= room
    BY <2>1, <2>2, FirstBounded DEF Rest
  <2>4. Cardinality(batch[p] \cup Rest(p)) <= Batch
    <3>1. Cardinality(batch[p] \cup Rest(p))
            = Cardinality(batch[p]) + Cardinality(Rest(p)) - Cardinality(batch[p] \cap Rest(p))
      BY <1>1, <2>3, FS_Union
    <3>2. Cardinality(batch[p] \cap Rest(p)) = 0
      BY <2>3, FS_EmptySet
    <3>3. QED
      BY <1>0, <1>1, <2>3, <3>1, <3>2
  <2>5. batch' = [batch EXCEPT ![p] = @ \cup Rest(p)] /\ at[p] # "idle"
        /\ at' = [at EXCEPT ![p] = "taken"] /\ inFlight' = inFlight
    BY <1>5 DEF TakeRest
  <2> HIDE DEF room
  <2>6. QED
    BY <1>0, <2>4, <2>5 DEF FlagIsUp, FavouredFirst, BatchIsBounded
<1>6. ASSUME NEW p \in Passes, Stamp(p)
      PROVE  FlagIsUp' /\ FavouredFirst' /\ BatchIsBounded'
  BY <1>0, <1>6 DEF Stamp, FlagIsUp, FavouredFirst, BatchIsBounded
<1>7. ASSUME NEW p \in Passes, Examine(p)
      PROVE  FlagIsUp' /\ FavouredFirst' /\ BatchIsBounded'
  <2>1. PICK r \in batch[p] : batch' = [batch EXCEPT ![p] = @ \ {r}]
    BY <1>7 DEF Examine
  <2>2. /\ IsFiniteSet(batch[p] \ {r})
        /\ Cardinality(batch[p] \ {r}) <= Cardinality(batch[p])
    <3>1. batch[p] \ {r} \in SUBSET batch[p]
      OBVIOUS
    <3>2. QED
      BY <1>1, <3>1, FS_Subset
  <2>3. Cardinality(batch[p] \ {r}) <= Batch
    <3>1. Cardinality(batch[p] \ {r}) \in Nat
      BY <2>2, FS_CardinalityType
    <3>2. Cardinality(batch[p]) <= Batch
      BY DEF BatchIsBounded
    <3>3. QED
      BY <1>0, <1>1, <2>2, <3>1, <3>2
  <2>4. QED
    BY <1>0, <1>7, <2>1, <2>3 DEF Examine, FlagIsUp, FavouredFirst, BatchIsBounded
<1>8. ASSUME NEW p \in Passes, Answered(p)
      PROVE  FlagIsUp' /\ FavouredFirst' /\ BatchIsBounded'
  <2>1. batch' = batch
    BY <1>0, <1>8 DEF Answered, LeftAfterThrow
  <2>2. QED
    BY <1>0, <1>8, <2>1 DEF Answered, FlagIsUp, FavouredFirst, BatchIsBounded
<1>9. ASSUME NEW p \in Passes, Finish(p)
      PROVE  FlagIsUp' /\ FavouredFirst' /\ BatchIsBounded'
  BY <1>0, <1>9 DEF Finish, FlagIsUp, FavouredFirst, BatchIsBounded
<1>10. ASSUME NEW p \in Passes, GiveUp(p)
       PROVE  FlagIsUp' /\ FavouredFirst' /\ BatchIsBounded'
  BY <1>0, <1>10, FS_EmptySet DEF GiveUp, FlagIsUp, FavouredFirst, BatchIsBounded
<1>11. CASE Crash
  BY <1>0, <1>11, FS_EmptySet DEF Crash, FlagIsUp, FavouredFirst, BatchIsBounded
<1>12. ASSUME NEW p \in Passes, LoadApplications(p)
       PROVE  FlagIsUp' /\ FavouredFirst' /\ BatchIsBounded'
  BY <1>0, <1>12 DEF LoadApplications, FlagIsUp, FavouredFirst, BatchIsBounded
<1>13. QED
  BY <1>2, <1>3, <1>4, <1>5, <1>6, <1>7, <1>8, <1>9, <1>10, <1>11, <1>12
  DEF Next, vars, passVars, Arrive, Depart, Nudge, Activate

\* A batch is closed when it is taken, and nothing overtakes while it is held.
LEMMA OvertakingStep == IInv /\ [Next]_vars => NoOvertaking'
<1> SUFFICES ASSUME IInv, [Next]_vars PROVE NoOvertaking'
  OBVIOUS
<1> USE DEF PassStates
<1>0. /\ at \in [Passes -> PassStates] /\ batch \in [Passes -> SUBSET Rows]
      /\ waiting \in SUBSET Rows /\ overtaken \in [Rows -> SUBSET Rows]
  BY DEF IInv, TypeOK
<1>1. StampsOrdered /\ OvertakenIsEarlier /\ FlagIsUp /\ FavouredFirst /\ NoOvertaking
  BY DEF IInv
<1>2. CASE UNCHANGED <<at, batch, overtaken>> /\ waiting' \subseteq waiting
  BY <1>1, <1>2 DEF NoOvertaking
<1>3. ASSUME NEW p \in Passes, TakeRest(p)
      PROVE  NoOvertaking'
  <2>1. \A q \in Passes : at'[q] = "taken" => q = p
    BY <1>0, <1>1, <1>3 DEF TakeRest, FlagIsUp
  <2>2. batch'[p] = batch[p] \cup Rest(p) /\ waiting' = waiting /\ overtaken' = overtaken
    BY <1>0, <1>3 DEF TakeRest, rowVars, stampVars
  <2>3. ASSUME NEW r \in batch'[p] \ Favoured, NEW s \in waiting \ batch'[p], r \in overtaken[s]
        PROVE  FALSE
    <3>1. r \in Rest(p)
      BY <1>1, <1>3, <2>2, <2>3 DEF FavouredFirst, TakeRest
    <3>2. r \in later[s]
      BY <1>0, <1>1, <2>3 DEF OvertakenIsEarlier
    <3>3. Before(s, r)
      BY <3>2 DEF Before
    <3>4. Cardinality(batch[p]) \in Nat
      BY <1>0, RowsAssumption, FS_Subset, FS_CardinalityType
    <3>5. s \in Rest(p)
      <4>1. TypeOK
        BY DEF IInv
      <4>2. QED
        BY <1>1, <2>2, <2>3, <3>1, <3>3, <3>4, <4>1, RestClosed
    <3>6. QED
      BY <2>2, <2>3, <3>5
  <2>4. QED
    BY <2>1, <2>2, <2>3 DEF NoOvertaking
<1>4. ASSUME NEW p \in Passes, Stamp(p)
      PROVE  NoOvertaking'
  BY <1>0, <1>1, <1>4 DEF Stamp, FlagIsUp, NoOvertaking
<1>5. ASSUME NEW r \in Rows, Arrive(r)
      PROVE  NoOvertaking'
  BY <1>0, <1>1, <1>5 DEF Arrive, passVars, NoOvertaking
<1>6. ASSUME NEW r \in Rows, Nudge(r)
      PROVE  NoOvertaking'
  BY <1>0, <1>1, <1>6 DEF Nudge, passVars, rowVars, NoOvertaking
<1>7. ASSUME NEW p \in Passes, \/ Tick(p) \/ TakeFavoured(p) \/ Finish(p)
                                  \/ GiveUp(p) \/ LoadApplications(p)
      PROVE  NoOvertaking'
  <2>1. waiting' = waiting /\ overtaken' = overtaken
    BY <1>7 DEF Tick, TakeFavoured, Finish, GiveUp, LoadApplications, rowVars, stampVars
  <2>2. \A q \in Passes : at'[q] = "taken" => at[q] = "taken" /\ batch'[q] = batch[q]
    BY <1>0, <1>7 DEF Tick, TakeFavoured, Finish, GiveUp, LoadApplications
  <2>3. QED
    BY <1>1, <2>1, <2>2 DEF NoOvertaking
<1>8. ASSUME NEW p \in Passes, Examine(p) \/ Answered(p)
      PROVE  NoOvertaking'
  <2>1. waiting' \subseteq waiting /\ overtaken' = overtaken
    BY <1>8 DEF Examine, Answered, LeavesTheSet, rowVars, stampVars
  <2>2. \A q \in Passes : at'[q] = "taken" => at[q] = "taken" /\ batch'[q] = batch[q]
    BY <1>0, <1>8 DEF Examine, Answered, LeftAfterThrow
  <2>3. QED
    BY <1>1, <2>1, <2>2 DEF NoOvertaking
<1>9. CASE Crash
  BY <1>9 DEF Crash, NoOvertaking
<1>10. ASSUME NEW r \in Rows, Depart(r) \/ Activate(r)
       PROVE  UNCHANGED <<at, batch, overtaken>> /\ waiting' \subseteq waiting
  BY <1>10 DEF Depart, Activate, LeavesTheSet, passVars, stampVars
<1>11. CASE UNCHANGED vars
  BY <1>2, <1>11 DEF vars, passVars, stampVars, rowVars
<1>12. QED
  BY <1>2, <1>3, <1>4, <1>5, <1>6, <1>7, <1>8, <1>9, <1>10, <1>11 DEF Next

\* The inductive invariant of the rotation.
THEOREM Invariant == Spec => []IInv
<1>1. Init => IInv
  BY Initially
<1>2. IInv /\ [Next]_vars => IInv'
  BY TypeStep, StampsStep, PassStep, OvertakingStep DEF IInv
<1>3. QED
  BY <1>1, <1>2, PTL DEF Spec

\* No row is asked about twice while one it was asked about ahead of still
\* waits: for any number of rows, any batch, restarts and callbacks.
THEOREM QueueHasItsTurn == Spec => []NoOvertaking
<1>1. IInv => NoOvertaking
  BY DEF IInv
<1>2. QED
  BY <1>1, Invariant, PTL

\* A pass never asks about more rows than its batch size, in spite of the two
\* queries its batch comes from.
THEOREM BatchNeverExceeded == Spec => []BatchIsBounded
<1>1. IInv => BatchIsBounded
  BY DEF IInv
<1>2. QED
  BY <1>1, Invariant, PTL
=============================================================================
