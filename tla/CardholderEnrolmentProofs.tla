---------------------- MODULE CardholderEnrolmentProofs ----------------------
(***************************************************************************)
(* What CardholderEnrolment promises, for any number of requests and of    *)
(* readers.                                                                *)
(***************************************************************************)
EXTENDS CardholderEnrolment, TLAPS

\* A request in flight holds the DRAFT it claimed, until somebody saves over it.
ClaimHeld ==
  \A c \in Callers : InFlight(c) => stored /\ (trampled \/ row.status = "DRAFT")

\* Nobody's copy knows less of the person than the row does: a reader's copy was
\* taken from a row that knew, and a request's from the row as it still is,
\* unless a reader has saved over it, who knew.
CopiesKnow ==
  /\ ~stored => row = NoRow
  /\ trampled => row.known
  /\ \A l \in Lookers : look[l] # "idle" => stored /\ row.known /\ copy[l].known
  /\ \A c \in Callers :
       /\ InFlight(c) /\ row.known => mine[c].known
       /\ at[c] = "answered" => mine[c].known

\* What nobody was told of yet is what a reader is about to tell.
Telling ==
  untold => broken \/ \E l \in Lookers : look[l] = "saved" /\ copy[l].status = row.status

\* A stored person has been put to the issuer, or is about to be.
Admitting == person => stored \/ broken \/ \E c \in Callers : at[c] = "admitted"

\* Every step keeps the types.
LEMMA TypeKept ==
  ASSUME TypeOK, Next
  PROVE  TypeOK'
<1> USE DEF TypeOK, Rows, NoRow, CardholderStatuses, Words, NON_TERMINAL_STATUSES, Columns
<1>1. ASSUME NEW c \in Callers, Onboard(c)
      PROVE  TypeOK'
  BY <1>1 DEF Onboard, Goes, assertCanEnrol, lookerVars, rowVars
<1>2. ASSUME NEW c \in Callers, Enrol(c)
      PROVE  TypeOK'
  BY <1>2 DEF Enrol, Goes, assertCanEnrol, lookerVars, rowVars
<1>3. ASSUME NEW c \in Callers, Claim(c)
      PROVE  TypeOK'
  BY <1>3 DEF Claim, Goes, Keeps, lookerVars
<1>4. ASSUME NEW c \in Callers, Reclaim(c)
      PROVE  TypeOK'
  <2>1. Draft \in Rows
    BY DEF Draft
  <2>2. CASE mayReclaim
    <3>1. at' \in [Callers -> {"idle", "admitted", "calling", "answered", "failed", "saving"}]
      BY <1>4, <2>2 DEF Reclaim, Goes
    <3>2. mine' \in [Callers -> Rows] /\ row' \in Rows
      BY <1>4, <2>1, <2>2 DEF Reclaim, Keeps
    <3> QED
      BY <1>4, <2>2, <3>1, <3>2 DEF Reclaim, lookerVars
  <2>3. CASE ~mayReclaim
    BY <1>4, <2>3 DEF Reclaim, Goes, rowVars, lookerVars
  <2> QED
    BY <2>2, <2>3
<1>5. ASSUME NEW c \in Callers, IssuerTakes(c)
      PROVE  TypeOK'
  <2>1. account' \in Words
    BY <1>5 DEF IssuerTakes, onboardedLocally
  <2>2. [status |-> mapAxysCardholderStatus(account'), known |-> TRUE] \in Rows
    BY <2>1 DEF mapAxysCardholderStatus
  <2>3. Failed(mine[c]) \in Rows
    BY DEF Failed
  <2> QED
    <3>1. at' \in [Callers -> {"idle", "admitted", "calling", "answered", "failed", "saving"}]
      BY <1>5 DEF IssuerTakes, Goes
    <3>2. mine' \in [Callers -> Rows]
      BY <1>5, <2>2, <2>3 DEF IssuerTakes, Keeps
    <3> QED
      BY <1>5, <2>1, <3>1, <3>2 DEF IssuerTakes, rowVars, lookerVars
<1>6. ASSUME NEW c \in Callers, CallFails(c)
      PROVE  TypeOK'
  BY <1>6 DEF CallFails, Goes, Keeps, Failed, rowVars, lookerVars
<1>7. ASSUME NEW c \in Callers, RecordAnswer(c)
      PROVE  TypeOK'
  <2>1. SelectRow(c) /\ at[c] = "answered"
    BY <1>7 DEF RecordAnswer
  <2>2. CASE Goes(c, "idle") /\ Drops(c)
    BY <2>1, <2>2 DEF SelectRow, Select, Differing, Goes, Drops, Keeps, rowVars, lookerVars
  <2>3. CASE Goes(c, "saving") /\ UNCHANGED mine
    BY <2>1, <2>3 DEF SelectRow, Select, Differing, Goes, rowVars, lookerVars
  <2> QED
    BY <2>1, <2>2, <2>3 DEF SelectRow
<1>8. ASSUME NEW c \in Callers, RecordFailure(c)
      PROVE  TypeOK'
  <2>1. SelectRow(c) /\ at[c] = "failed"
    BY <1>8 DEF RecordFailure
  <2>2. CASE Goes(c, "idle") /\ Drops(c)
    BY <2>1, <2>2 DEF SelectRow, Select, Differing, Goes, Drops, Keeps, rowVars, lookerVars
  <2>3. CASE Goes(c, "saving") /\ UNCHANGED mine
    BY <2>1, <2>3 DEF SelectRow, Select, Differing, Goes, rowVars, lookerVars
  <2> QED
    BY <2>1, <2>2, <2>3 DEF SelectRow
<1>9. ASSUME NEW l \in Lookers, ReadForSync(l)
      PROVE  TypeOK'
  BY <1>9 DEF ReadForSync, Reads, Steps, Holds, Answerable, OthersUnchanged, rowVars, callerVars
<1>10. ASSUME NEW l \in Lookers, Ask(l)
       PROVE  TypeOK'
  <2>1. queryCardholderStatus \in CardholderStatuses
    BY DEF queryCardholderStatus, mapAxysCardholderStatus
  <2>2. [copy[l] EXCEPT !.status = queryCardholderStatus] \in Rows
    BY <2>1
  <2>3. UNCHANGED <<asks, person, stored, row, untold, account, at, mine, differing, trampled, broken>>
    BY <1>10 DEF Ask, OthersUnchanged, rowVars, callerVars
  <2>4. CASE Ends(l)
    BY <2>3, <2>4 DEF Ends, Steps, Holds
  <2>5. CASE Steps(l, "told") /\ Told(l, queryCardholderStatus)
    BY <2>2, <2>3, <2>5 DEF Steps, Told, Holds
  <2> QED
    BY <1>10, <2>4, <2>5 DEF Ask
<1>11. ASSUME NEW l \in Lookers, AskFails(l)
      PROVE  TypeOK'
  BY <1>11 DEF AskFails, Ends, Steps, Holds, OthersUnchanged, rowVars, callerVars
<1>12. ASSUME NEW l \in Lookers, ReadForKyc(l)
      PROVE  TypeOK'
  BY <1>12 DEF ReadForKyc, Reads, Steps, Holds, Answerable, OthersUnchanged, rowVars, callerVars
<1>13. ASSUME NEW l \in Lookers, SubmitKyc(l)
      PROVE  TypeOK'
  BY <1>13 DEF SubmitKyc, Steps, Holds, Told, OthersUnchanged, rowVars, callerVars
<1>14. ASSUME NEW l \in Lookers, SaveTold(l)
       PROVE  TypeOK'
  <2>1. CASE Steps(l, "recording") /\ UNCHANGED copy
    BY <1>14, <2>1 DEF SaveTold, SelectCopy, Select, Differing, Steps, OthersUnchanged, rowVars, callerVars
  <2>2. CASE Steps(l, "saved") /\ UNCHANGED copy
    BY <1>14, <2>2 DEF SaveTold, SelectCopy, Select, Differing, Steps, OthersUnchanged, rowVars, callerVars
  <2>3. CASE Ends(l)
    BY <1>14, <2>3 DEF SaveTold, SelectCopy, Select, Differing, Ends, Steps, Holds, OthersUnchanged,
       rowVars, callerVars
  <2> QED
    BY <1>14, <2>1, <2>2, <2>3 DEF SaveTold, Recorded
<1>15. ASSUME NEW l \in Lookers, SaveSubmitted(l)
       PROVE  TypeOK'
  <2>1. CASE Steps(l, "filing") /\ UNCHANGED copy
    BY <1>15, <2>1 DEF SaveSubmitted, SelectCopy, Select, Differing, Steps, OthersUnchanged, rowVars, callerVars
  <2>2. CASE Ends(l)
    BY <1>15, <2>2 DEF SaveSubmitted, SelectCopy, Select, Differing, Ends, Steps, Holds, OthersUnchanged,
       rowVars, callerVars
  <2> QED
    BY <1>15, <2>1, <2>2 DEF SaveSubmitted
<1>16. ASSUME NEW l \in Lookers, Announce(l)
      PROVE  TypeOK'
  BY <1>16 DEF Announce, Steps, Holds, Ends, OthersUnchanged, callerVars
<1>17. CASE IssuerDecides
  BY <1>17 DEF IssuerDecides, rowVars, callerVars, lookerVars
<1>18. CASE StatementFails
  <2>1. UNCHANGED <<asks, person, stored, row, untold, account, trampled>> /\ broken' = TRUE
    BY <1>18 DEF StatementFails, rowVars
  <2>2. CASE \E c \in Callers : Goes(c, "idle") /\ Drops(c) /\ Forgets(c) /\ UNCHANGED lookerVars
    BY <2>1, <2>2 DEF Goes, Drops, Keeps, Forgets, lookerVars
  <2>3. CASE \E l \in Lookers : Ends(l) /\ Forgets(l) /\ UNCHANGED callerVars
    BY <2>1, <2>3 DEF Ends, Steps, Holds, Forgets, callerVars
  <2> QED
    BY <1>18, <2>2, <2>3 DEF StatementFails
<1>19. CASE Restart
  BY <1>19 DEF Restart, rowVars
<1>20. ASSUME NEW c \in Callers, UpdateRow(c)
       PROVE  TypeOK'
  BY <1>20 DEF UpdateRow, Update, Goes, Drops, Keeps, lookerVars
<1>21. ASSUME NEW l \in Lookers, UpdateTold(l)
       PROVE  TypeOK'
  <2>1. /\ row' \in Rows /\ trampled' \in BOOLEAN
        /\ differing' \in [Callers \cup Lookers -> SUBSET Columns]
        /\ UNCHANGED <<stored, account, asks, person, at, mine, broken>>
    BY <1>21 DEF UpdateTold, UpdateCopy, Update, OthersUnchanged, callerVars
  <2>2. untold' \in BOOLEAN
    <3>1. CASE "status" \in differing[l]
      BY <1>21, <3>1 DEF UpdateTold
    <3>2. CASE "status" \notin differing[l]
      BY <1>21, <3>2 DEF UpdateTold
    <3> QED
      BY <3>1, <3>2
  <2>3. CASE Steps(l, "saved") /\ UNCHANGED copy
    BY <2>1, <2>2, <2>3 DEF Steps
  <2>4. CASE Ends(l)
    BY <2>1, <2>2, <2>4 DEF Ends, Steps, Holds
  <2> QED
    BY <1>21, <2>3, <2>4 DEF UpdateTold, Recorded
<1>22. ASSUME NEW l \in Lookers, UpdateSubmitted(l)
       PROVE  TypeOK'
  BY <1>22 DEF UpdateSubmitted, UpdateCopy, Update, Ends, Steps, Holds, OthersUnchanged, callerVars
<1> QED
  BY <1>1, <1>2, <1>3, <1>4, <1>5, <1>6, <1>7, <1>8, <1>9, <1>10, <1>11, <1>12, <1>13, <1>14,
     <1>15, <1>16, <1>17, <1>18, <1>19, <1>20, <1>21, <1>22
     DEF Next, CallerNext, LookerNext, Sweep

\* The claim is held by one request.
LEMMA ClaimKept ==
  ASSUME TypeOK, ClaimIsExclusive, ClaimHeld, Next
  PROVE  (ClaimIsExclusive /\ ClaimHeld)'
<1> USE DEF TypeOK, Rows, CardholderStatuses, ClaimIsExclusive, ClaimHeld, InFlight, NoRow
<1>1. ASSUME NEW c \in Callers, Onboard(c)
      PROVE  (ClaimIsExclusive /\ ClaimHeld)'
  BY <1>1 DEF Onboard, Goes, assertCanEnrol, lookerVars, rowVars
<1>2. ASSUME NEW c \in Callers, Enrol(c)
      PROVE  (ClaimIsExclusive /\ ClaimHeld)'
  BY <1>2 DEF Enrol, Goes, assertCanEnrol, lookerVars, rowVars
<1>3. ASSUME NEW c \in Callers, Claim(c)
      PROVE  (ClaimIsExclusive /\ ClaimHeld)'
  BY <1>3 DEF Claim, Goes, Keeps, lookerVars
<1>4. ASSUME NEW c \in Callers, Reclaim(c)
      PROVE  (ClaimIsExclusive /\ ClaimHeld)'
  <2>1. CASE mayReclaim
    <3>1. \A d \in Callers : InFlight(d) => trampled
      BY <2>1 DEF mayReclaim, REATTEMPTABLE_STATUSES
    <3> QED
      BY <1>4, <2>1, <3>1 DEF Reclaim, Goes, Keeps, Draft, lookerVars
  <2>2. CASE ~mayReclaim
    BY <1>4, <2>2 DEF Reclaim, Goes, rowVars, lookerVars
  <2> QED
    BY <2>1, <2>2
<1>5. ASSUME NEW c \in Callers, IssuerTakes(c)
      PROVE  (ClaimIsExclusive /\ ClaimHeld)'
  BY <1>5 DEF IssuerTakes, Goes, Keeps, Failed, onboardedLocally, mapAxysCardholderStatus,
     rowVars, lookerVars
<1>6. ASSUME NEW c \in Callers, CallFails(c)
      PROVE  (ClaimIsExclusive /\ ClaimHeld)'
  BY <1>6 DEF CallFails, Goes, Keeps, Failed, rowVars, lookerVars
<1>7. ASSUME NEW c \in Callers, RecordAnswer(c)
      PROVE  (ClaimIsExclusive /\ ClaimHeld)'
  <2>1. SelectRow(c) /\ at[c] = "answered"
    BY <1>7 DEF RecordAnswer
  <2>2. CASE Goes(c, "idle") /\ Drops(c)
    BY <2>1, <2>2 DEF SelectRow, Select, Differing, Goes, Drops, Keeps, rowVars, lookerVars
  <2>3. CASE Goes(c, "saving") /\ UNCHANGED mine
    BY <2>1, <2>3 DEF SelectRow, Select, Differing, Goes, rowVars, lookerVars
  <2> QED
    BY <2>1, <2>2, <2>3 DEF SelectRow
<1>8. ASSUME NEW c \in Callers, RecordFailure(c)
      PROVE  (ClaimIsExclusive /\ ClaimHeld)'
  <2>1. SelectRow(c) /\ at[c] = "failed"
    BY <1>8 DEF RecordFailure
  <2>2. CASE Goes(c, "idle") /\ Drops(c)
    BY <2>1, <2>2 DEF SelectRow, Select, Differing, Goes, Drops, Keeps, rowVars, lookerVars
  <2>3. CASE Goes(c, "saving") /\ UNCHANGED mine
    BY <2>1, <2>3 DEF SelectRow, Select, Differing, Goes, rowVars, lookerVars
  <2> QED
    BY <2>1, <2>2, <2>3 DEF SelectRow
<1>9. ASSUME NEW l \in Lookers, ReadForSync(l)
      PROVE  (ClaimIsExclusive /\ ClaimHeld)'
  BY <1>9 DEF ReadForSync, Reads, Steps, Holds, Answerable, OthersUnchanged, rowVars, callerVars
<1>10. ASSUME NEW l \in Lookers, Ask(l)
      PROVE  (ClaimIsExclusive /\ ClaimHeld)'
  BY <1>10 DEF Ask, Ends, Steps, Holds, Told, queryCardholderStatus, mapAxysCardholderStatus,
     OthersUnchanged, rowVars, callerVars
<1>11. ASSUME NEW l \in Lookers, AskFails(l)
      PROVE  (ClaimIsExclusive /\ ClaimHeld)'
  BY <1>11 DEF AskFails, Ends, Steps, Holds, OthersUnchanged, rowVars, callerVars
<1>12. ASSUME NEW l \in Lookers, ReadForKyc(l)
      PROVE  (ClaimIsExclusive /\ ClaimHeld)'
  BY <1>12 DEF ReadForKyc, Reads, Steps, Holds, Answerable, OthersUnchanged, rowVars, callerVars
<1>13. ASSUME NEW l \in Lookers, SubmitKyc(l)
      PROVE  (ClaimIsExclusive /\ ClaimHeld)'
  BY <1>13 DEF SubmitKyc, Steps, Holds, Told, OthersUnchanged, rowVars, callerVars
<1>14. ASSUME NEW l \in Lookers, SaveTold(l)
       PROVE  (ClaimIsExclusive /\ ClaimHeld)'
  <2>1. CASE Steps(l, "recording") /\ UNCHANGED copy
    BY <1>14, <2>1 DEF SaveTold, SelectCopy, Select, Differing, Steps, OthersUnchanged, rowVars, callerVars
  <2>2. CASE Steps(l, "saved") /\ UNCHANGED copy
    BY <1>14, <2>2 DEF SaveTold, SelectCopy, Select, Differing, Steps, OthersUnchanged, rowVars, callerVars
  <2>3. CASE Ends(l)
    BY <1>14, <2>3 DEF SaveTold, SelectCopy, Select, Differing, Ends, Steps, Holds, OthersUnchanged,
       rowVars, callerVars
  <2> QED
    BY <1>14, <2>1, <2>2, <2>3 DEF SaveTold, Recorded
<1>15. ASSUME NEW l \in Lookers, SaveSubmitted(l)
       PROVE  (ClaimIsExclusive /\ ClaimHeld)'
  <2>1. CASE Steps(l, "filing") /\ UNCHANGED copy
    BY <1>15, <2>1 DEF SaveSubmitted, SelectCopy, Select, Differing, Steps, OthersUnchanged, rowVars, callerVars
  <2>2. CASE Ends(l)
    BY <1>15, <2>2 DEF SaveSubmitted, SelectCopy, Select, Differing, Ends, Steps, Holds, OthersUnchanged,
       rowVars, callerVars
  <2> QED
    BY <1>15, <2>1, <2>2 DEF SaveSubmitted
<1>16. ASSUME NEW l \in Lookers, Announce(l)
      PROVE  (ClaimIsExclusive /\ ClaimHeld)'
  BY <1>16 DEF Announce, Steps, Holds, Ends, OthersUnchanged, callerVars
<1>17. CASE IssuerDecides
  BY <1>17 DEF IssuerDecides, rowVars, callerVars, lookerVars
<1>18. CASE StatementFails
  <2>1. UNCHANGED <<asks, person, stored, row, untold, account, trampled>> /\ broken' = TRUE
    BY <1>18 DEF StatementFails, rowVars
  <2>2. CASE \E c \in Callers : Goes(c, "idle") /\ Drops(c) /\ Forgets(c) /\ UNCHANGED lookerVars
    BY <2>1, <2>2 DEF Goes, Drops, Keeps, Forgets, lookerVars
  <2>3. CASE \E l \in Lookers : Ends(l) /\ Forgets(l) /\ UNCHANGED callerVars
    BY <2>1, <2>3 DEF Ends, Steps, Holds, Forgets, callerVars
  <2> QED
    BY <1>18, <2>2, <2>3 DEF StatementFails
<1>19. CASE Restart
  BY <1>19 DEF Restart, rowVars
<1>20. ASSUME NEW c \in Callers, UpdateRow(c)
       PROVE  (ClaimIsExclusive /\ ClaimHeld)'
  BY <1>20 DEF UpdateRow, Update, Goes, Drops, Keeps, lookerVars
<1>21. ASSUME NEW l \in Lookers, UpdateTold(l)
       PROVE  (ClaimIsExclusive /\ ClaimHeld)'
  <2>1. CASE Steps(l, "saved") /\ UNCHANGED copy
    BY <1>21, <2>1 DEF UpdateTold, UpdateCopy, Update, Steps, OthersUnchanged, callerVars
  <2>2. CASE Ends(l) /\ ~Announces(l)
    BY <1>21, <2>2 DEF UpdateTold, UpdateCopy, Update, Announces, Ends, Steps, Holds, OthersUnchanged, callerVars
  <2> QED
    BY <1>21, <2>1, <2>2 DEF UpdateTold, Recorded
<1>22. ASSUME NEW l \in Lookers, UpdateSubmitted(l)
       PROVE  (ClaimIsExclusive /\ ClaimHeld)'
  BY <1>22 DEF UpdateSubmitted, UpdateCopy, Update, Ends, Steps, Holds, OthersUnchanged, callerVars
<1> QED
  BY <1>1, <1>2, <1>3, <1>4, <1>5, <1>6, <1>7, <1>8, <1>9, <1>10, <1>11, <1>12, <1>13, <1>14,
     <1>15, <1>16, <1>17, <1>18, <1>19, <1>20, <1>21, <1>22
     DEF Next, CallerNext, LookerNext, Sweep

\* No copy forgets the person.
LEMMA KnowingKept ==
  ASSUME TypeOK, ClaimIsExclusive, ClaimHeld, CopiesKnow, Next
  PROVE  CopiesKnow'
<1> USE DEF TypeOK, Rows, CardholderStatuses, ClaimIsExclusive, ClaimHeld, CopiesKnow, InFlight, NoRow
<1>1. ASSUME NEW c \in Callers, Onboard(c)
      PROVE  CopiesKnow'
  BY <1>1 DEF Onboard, Goes, assertCanEnrol, lookerVars, rowVars
<1>2. ASSUME NEW c \in Callers, Enrol(c)
      PROVE  CopiesKnow'
  BY <1>2 DEF Enrol, Goes, assertCanEnrol, lookerVars, rowVars
<1>3. ASSUME NEW c \in Callers, Claim(c)
      PROVE  CopiesKnow'
  BY <1>3 DEF Claim, Goes, Keeps, lookerVars
<1>4. ASSUME NEW c \in Callers, Reclaim(c)
      PROVE  CopiesKnow'
  <2>1. Draft \in Rows /\ Draft.known = row.known
    BY DEF Draft
  <2>2. CASE mayReclaim
    BY <1>4, <2>1, <2>2 DEF Reclaim, Goes, Keeps, lookerVars
  <2>3. CASE ~mayReclaim
    BY <1>4, <2>3 DEF Reclaim, Goes, rowVars, lookerVars
  <2> QED
    BY <2>2, <2>3
<1>5. ASSUME NEW c \in Callers, IssuerTakes(c)
      PROVE  CopiesKnow'
  BY <1>5 DEF IssuerTakes, Goes, Keeps, Failed, onboardedLocally, mapAxysCardholderStatus,
     rowVars, lookerVars
<1>6. ASSUME NEW c \in Callers, CallFails(c)
      PROVE  CopiesKnow'
  BY <1>6 DEF CallFails, Goes, Keeps, Failed, rowVars, lookerVars
<1>7. ASSUME NEW c \in Callers, RecordAnswer(c)
      PROVE  CopiesKnow'
  <2>1. SelectRow(c) /\ at[c] = "answered"
    BY <1>7 DEF RecordAnswer
  <2>2. CASE Goes(c, "idle") /\ Drops(c)
    BY <2>1, <2>2 DEF SelectRow, Select, Differing, Goes, Drops, Keeps, rowVars, lookerVars
  <2>3. CASE Goes(c, "saving") /\ UNCHANGED mine
    BY <2>1, <2>3 DEF SelectRow, Select, Differing, Goes, rowVars, lookerVars
  <2> QED
    BY <2>1, <2>2, <2>3 DEF SelectRow
<1>8. ASSUME NEW c \in Callers, RecordFailure(c)
      PROVE  CopiesKnow'
  <2>1. SelectRow(c) /\ at[c] = "failed"
    BY <1>8 DEF RecordFailure
  <2>2. CASE Goes(c, "idle") /\ Drops(c)
    BY <2>1, <2>2 DEF SelectRow, Select, Differing, Goes, Drops, Keeps, rowVars, lookerVars
  <2>3. CASE Goes(c, "saving") /\ UNCHANGED mine
    BY <2>1, <2>3 DEF SelectRow, Select, Differing, Goes, rowVars, lookerVars
  <2> QED
    BY <2>1, <2>2, <2>3 DEF SelectRow
<1>9. ASSUME NEW l \in Lookers, ReadForSync(l)
      PROVE  CopiesKnow'
  BY <1>9 DEF ReadForSync, Reads, Steps, Holds, Answerable, OthersUnchanged, rowVars, callerVars
<1>10. ASSUME NEW l \in Lookers, Ask(l)
      PROVE  CopiesKnow'
  BY <1>10 DEF Ask, Ends, Steps, Holds, Told, queryCardholderStatus, mapAxysCardholderStatus,
     OthersUnchanged, rowVars, callerVars
<1>11. ASSUME NEW l \in Lookers, AskFails(l)
      PROVE  CopiesKnow'
  BY <1>11 DEF AskFails, Ends, Steps, Holds, OthersUnchanged, rowVars, callerVars
<1>12. ASSUME NEW l \in Lookers, ReadForKyc(l)
      PROVE  CopiesKnow'
  BY <1>12 DEF ReadForKyc, Reads, Steps, Holds, Answerable, OthersUnchanged, rowVars, callerVars
<1>13. ASSUME NEW l \in Lookers, SubmitKyc(l)
      PROVE  CopiesKnow'
  BY <1>13 DEF SubmitKyc, Steps, Holds, Told, OthersUnchanged, rowVars, callerVars
<1>14. ASSUME NEW l \in Lookers, SaveTold(l)
       PROVE  CopiesKnow'
  <2>1. CASE Steps(l, "recording") /\ UNCHANGED copy
    BY <1>14, <2>1 DEF SaveTold, SelectCopy, Select, Differing, Steps, OthersUnchanged, rowVars, callerVars
  <2>2. CASE Steps(l, "saved") /\ UNCHANGED copy
    BY <1>14, <2>2 DEF SaveTold, SelectCopy, Select, Differing, Steps, OthersUnchanged, rowVars, callerVars
  <2>3. CASE Ends(l)
    BY <1>14, <2>3 DEF SaveTold, SelectCopy, Select, Differing, Ends, Steps, Holds, OthersUnchanged,
       rowVars, callerVars
  <2> QED
    BY <1>14, <2>1, <2>2, <2>3 DEF SaveTold, Recorded
<1>15. ASSUME NEW l \in Lookers, SaveSubmitted(l)
       PROVE  CopiesKnow'
  <2>1. CASE Steps(l, "filing") /\ UNCHANGED copy
    BY <1>15, <2>1 DEF SaveSubmitted, SelectCopy, Select, Differing, Steps, OthersUnchanged, rowVars, callerVars
  <2>2. CASE Ends(l)
    BY <1>15, <2>2 DEF SaveSubmitted, SelectCopy, Select, Differing, Ends, Steps, Holds, OthersUnchanged,
       rowVars, callerVars
  <2> QED
    BY <1>15, <2>1, <2>2 DEF SaveSubmitted
<1>16. ASSUME NEW l \in Lookers, Announce(l)
      PROVE  CopiesKnow'
  BY <1>16 DEF Announce, Steps, Holds, Ends, OthersUnchanged, callerVars
<1>17. CASE IssuerDecides
  BY <1>17 DEF IssuerDecides, rowVars, callerVars, lookerVars
<1>18. CASE StatementFails
  <2>1. UNCHANGED <<asks, person, stored, row, untold, account, trampled>> /\ broken' = TRUE
    BY <1>18 DEF StatementFails, rowVars
  <2>2. CASE \E c \in Callers : Goes(c, "idle") /\ Drops(c) /\ Forgets(c) /\ UNCHANGED lookerVars
    BY <2>1, <2>2 DEF Goes, Drops, Keeps, Forgets, lookerVars
  <2>3. CASE \E l \in Lookers : Ends(l) /\ Forgets(l) /\ UNCHANGED callerVars
    BY <2>1, <2>3 DEF Ends, Steps, Holds, Forgets, callerVars
  <2> QED
    BY <1>18, <2>2, <2>3 DEF StatementFails
<1>19. CASE Restart
  BY <1>19 DEF Restart, rowVars
<1>20. ASSUME NEW c \in Callers, UpdateRow(c)
       PROVE  CopiesKnow'
  BY <1>20 DEF UpdateRow, Update, Goes, Drops, Keeps, lookerVars
<1>21. ASSUME NEW l \in Lookers, UpdateTold(l)
       PROVE  CopiesKnow'
  <2>1. CASE Steps(l, "saved") /\ UNCHANGED copy
    BY <1>21, <2>1 DEF UpdateTold, UpdateCopy, Update, Steps, OthersUnchanged, callerVars
  <2>2. CASE Ends(l) /\ ~Announces(l)
    BY <1>21, <2>2 DEF UpdateTold, UpdateCopy, Update, Announces, Ends, Steps, Holds, OthersUnchanged, callerVars
  <2> QED
    BY <1>21, <2>1, <2>2 DEF UpdateTold, Recorded
<1>22. ASSUME NEW l \in Lookers, UpdateSubmitted(l)
       PROVE  CopiesKnow'
  BY <1>22 DEF UpdateSubmitted, UpdateCopy, Update, Ends, Steps, Holds, OthersUnchanged, callerVars
<1> QED
  BY <1>1, <1>2, <1>3, <1>4, <1>5, <1>6, <1>7, <1>8, <1>9, <1>10, <1>11, <1>12, <1>13, <1>14,
     <1>15, <1>16, <1>17, <1>18, <1>19, <1>20, <1>21, <1>22
     DEF Next, CallerNext, LookerNext, Sweep

\* What is to be told has somebody to tell it.
LEMMA TellingKept ==
  ASSUME TypeOK, Telling, Next
  PROVE  Telling'
<1> USE DEF TypeOK, Rows, CardholderStatuses, Telling, NoRow
<1>1. ASSUME NEW c \in Callers, Onboard(c)
      PROVE  Telling'
  BY <1>1 DEF Onboard, Goes, assertCanEnrol, lookerVars, rowVars
<1>2. ASSUME NEW c \in Callers, Enrol(c)
      PROVE  Telling'
  BY <1>2 DEF Enrol, Goes, assertCanEnrol, lookerVars, rowVars
<1>3. ASSUME NEW c \in Callers, Claim(c)
      PROVE  Telling'
  BY <1>3 DEF Claim, Goes, Keeps, lookerVars
<1>4. ASSUME NEW c \in Callers, Reclaim(c)
      PROVE  Telling'
  BY <1>4 DEF Reclaim, Goes, Keeps, Draft, mayReclaim, REATTEMPTABLE_STATUSES, rowVars,
     lookerVars
<1>5. ASSUME NEW c \in Callers, IssuerTakes(c)
      PROVE  Telling'
  BY <1>5 DEF IssuerTakes, Goes, Keeps, Failed, onboardedLocally, mapAxysCardholderStatus,
     rowVars, lookerVars
<1>6. ASSUME NEW c \in Callers, CallFails(c)
      PROVE  Telling'
  BY <1>6 DEF CallFails, Goes, Keeps, Failed, rowVars, lookerVars
<1>7. ASSUME NEW c \in Callers, RecordAnswer(c)
      PROVE  Telling'
  <2>1. SelectRow(c) /\ at[c] = "answered"
    BY <1>7 DEF RecordAnswer
  <2>2. CASE Goes(c, "idle") /\ Drops(c)
    BY <2>1, <2>2 DEF SelectRow, Select, Differing, Goes, Drops, Keeps, rowVars, lookerVars
  <2>3. CASE Goes(c, "saving") /\ UNCHANGED mine
    BY <2>1, <2>3 DEF SelectRow, Select, Differing, Goes, rowVars, lookerVars
  <2> QED
    BY <2>1, <2>2, <2>3 DEF SelectRow
<1>8. ASSUME NEW c \in Callers, RecordFailure(c)
      PROVE  Telling'
  <2>1. SelectRow(c) /\ at[c] = "failed"
    BY <1>8 DEF RecordFailure
  <2>2. CASE Goes(c, "idle") /\ Drops(c)
    BY <2>1, <2>2 DEF SelectRow, Select, Differing, Goes, Drops, Keeps, rowVars, lookerVars
  <2>3. CASE Goes(c, "saving") /\ UNCHANGED mine
    BY <2>1, <2>3 DEF SelectRow, Select, Differing, Goes, rowVars, lookerVars
  <2> QED
    BY <2>1, <2>2, <2>3 DEF SelectRow
<1>9. ASSUME NEW l \in Lookers, ReadForSync(l)
      PROVE  Telling'
  BY <1>9 DEF ReadForSync, Reads, Steps, Holds, Answerable, OthersUnchanged, rowVars, callerVars
<1>10. ASSUME NEW l \in Lookers, Ask(l)
      PROVE  Telling'
  BY <1>10 DEF Ask, Ends, Steps, Holds, Told, queryCardholderStatus, mapAxysCardholderStatus,
     OthersUnchanged, rowVars, callerVars
<1>11. ASSUME NEW l \in Lookers, AskFails(l)
      PROVE  Telling'
  BY <1>11 DEF AskFails, Ends, Steps, Holds, OthersUnchanged, rowVars, callerVars
<1>12. ASSUME NEW l \in Lookers, ReadForKyc(l)
      PROVE  Telling'
  BY <1>12 DEF ReadForKyc, Reads, Steps, Holds, Answerable, OthersUnchanged, rowVars, callerVars
<1>13. ASSUME NEW l \in Lookers, SubmitKyc(l)
      PROVE  Telling'
  BY <1>13 DEF SubmitKyc, Steps, Holds, Told, OthersUnchanged, rowVars, callerVars
<1>14. ASSUME NEW l \in Lookers, SaveTold(l)
       PROVE  Telling'
  <2>1. CASE Steps(l, "recording") /\ UNCHANGED copy
    BY <1>14, <2>1 DEF SaveTold, SelectCopy, Select, Differing, Steps, OthersUnchanged, rowVars, callerVars
  <2>2. CASE Steps(l, "saved") /\ UNCHANGED copy
    BY <1>14, <2>2 DEF SaveTold, SelectCopy, Select, Differing, Steps, OthersUnchanged, rowVars, callerVars
  <2>3. CASE Ends(l)
    BY <1>14, <2>3 DEF SaveTold, SelectCopy, Select, Differing, Ends, Steps, Holds, OthersUnchanged,
       rowVars, callerVars
  <2> QED
    BY <1>14, <2>1, <2>2, <2>3 DEF SaveTold, Recorded
<1>15. ASSUME NEW l \in Lookers, SaveSubmitted(l)
       PROVE  Telling'
  <2>1. CASE Steps(l, "filing") /\ UNCHANGED copy
    BY <1>15, <2>1 DEF SaveSubmitted, SelectCopy, Select, Differing, Steps, OthersUnchanged, rowVars, callerVars
  <2>2. CASE Ends(l)
    BY <1>15, <2>2 DEF SaveSubmitted, SelectCopy, Select, Differing, Ends, Steps, Holds, OthersUnchanged,
       rowVars, callerVars
  <2> QED
    BY <1>15, <2>1, <2>2 DEF SaveSubmitted
<1>16. ASSUME NEW l \in Lookers, Announce(l)
      PROVE  Telling'
  BY <1>16 DEF Announce, Steps, Holds, Ends, OthersUnchanged, callerVars
<1>17. CASE IssuerDecides
  BY <1>17 DEF IssuerDecides, rowVars, callerVars, lookerVars
<1>18. CASE StatementFails
  <2>1. UNCHANGED <<asks, person, stored, row, untold, account, trampled>> /\ broken' = TRUE
    BY <1>18 DEF StatementFails, rowVars
  <2>2. CASE \E c \in Callers : Goes(c, "idle") /\ Drops(c) /\ Forgets(c) /\ UNCHANGED lookerVars
    BY <2>1, <2>2 DEF Goes, Drops, Keeps, Forgets, lookerVars
  <2>3. CASE \E l \in Lookers : Ends(l) /\ Forgets(l) /\ UNCHANGED callerVars
    BY <2>1, <2>3 DEF Ends, Steps, Holds, Forgets, callerVars
  <2> QED
    BY <1>18, <2>2, <2>3 DEF StatementFails
<1>19. CASE Restart
  BY <1>19 DEF Restart, rowVars
<1>20. ASSUME NEW c \in Callers, UpdateRow(c)
       PROVE  Telling'
  BY <1>20 DEF UpdateRow, Update, Goes, Drops, Keeps, lookerVars
<1>21. ASSUME NEW l \in Lookers, UpdateTold(l)
       PROVE  Telling'
  <2>1. CASE Steps(l, "saved") /\ UNCHANGED copy
    BY <1>21, <2>1 DEF UpdateTold, UpdateCopy, Update, Steps, OthersUnchanged, callerVars
  <2>2. CASE Ends(l) /\ ~Announces(l)
    BY <1>21, <2>2 DEF UpdateTold, UpdateCopy, Update, Announces, Ends, Steps, Holds, OthersUnchanged, callerVars
  <2> QED
    BY <1>21, <2>1, <2>2 DEF UpdateTold, Recorded
<1>22. ASSUME NEW l \in Lookers, UpdateSubmitted(l)
       PROVE  Telling'
  BY <1>22 DEF UpdateSubmitted, UpdateCopy, Update, Ends, Steps, Holds, OthersUnchanged, callerVars
<1> QED
  BY <1>1, <1>2, <1>3, <1>4, <1>5, <1>6, <1>7, <1>8, <1>9, <1>10, <1>11, <1>12, <1>13, <1>14,
     <1>15, <1>16, <1>17, <1>18, <1>19, <1>20, <1>21, <1>22
     DEF Next, CallerNext, LookerNext, Sweep

\* A stored person is put to the issuer.
LEMMA AdmittingKept ==
  ASSUME TypeOK, Admitting, Next
  PROVE  Admitting'
<1> USE DEF TypeOK, Admitting
<1>1. ASSUME NEW c \in Callers, Onboard(c)
      PROVE  Admitting'
  BY <1>1 DEF Onboard, Goes, assertCanEnrol, lookerVars, rowVars
<1>2. ASSUME NEW c \in Callers, Enrol(c)
      PROVE  Admitting'
  BY <1>2 DEF Enrol, Goes, assertCanEnrol, lookerVars, rowVars
<1>3. ASSUME NEW c \in Callers, Claim(c)
      PROVE  Admitting'
  BY <1>3 DEF Claim, Goes, Keeps, lookerVars
<1>4. ASSUME NEW c \in Callers, Reclaim(c)
      PROVE  Admitting'
  BY <1>4 DEF Reclaim, Goes, Keeps, Draft, mayReclaim, REATTEMPTABLE_STATUSES, rowVars,
     lookerVars
<1>5. ASSUME NEW c \in Callers, IssuerTakes(c)
      PROVE  Admitting'
  BY <1>5 DEF IssuerTakes, Goes, Keeps, Failed, onboardedLocally, mapAxysCardholderStatus,
     rowVars, lookerVars
<1>6. ASSUME NEW c \in Callers, CallFails(c)
      PROVE  Admitting'
  BY <1>6 DEF CallFails, Goes, Keeps, Failed, rowVars, lookerVars
<1>7. ASSUME NEW c \in Callers, RecordAnswer(c)
      PROVE  Admitting'
  <2>1. SelectRow(c) /\ at[c] = "answered"
    BY <1>7 DEF RecordAnswer
  <2>2. CASE Goes(c, "idle") /\ Drops(c)
    BY <2>1, <2>2 DEF SelectRow, Select, Differing, Goes, Drops, Keeps, rowVars, lookerVars
  <2>3. CASE Goes(c, "saving") /\ UNCHANGED mine
    BY <2>1, <2>3 DEF SelectRow, Select, Differing, Goes, rowVars, lookerVars
  <2> QED
    BY <2>1, <2>2, <2>3 DEF SelectRow
<1>8. ASSUME NEW c \in Callers, RecordFailure(c)
      PROVE  Admitting'
  <2>1. SelectRow(c) /\ at[c] = "failed"
    BY <1>8 DEF RecordFailure
  <2>2. CASE Goes(c, "idle") /\ Drops(c)
    BY <2>1, <2>2 DEF SelectRow, Select, Differing, Goes, Drops, Keeps, rowVars, lookerVars
  <2>3. CASE Goes(c, "saving") /\ UNCHANGED mine
    BY <2>1, <2>3 DEF SelectRow, Select, Differing, Goes, rowVars, lookerVars
  <2> QED
    BY <2>1, <2>2, <2>3 DEF SelectRow
<1>9. ASSUME NEW l \in Lookers, ReadForSync(l)
      PROVE  Admitting'
  BY <1>9 DEF ReadForSync, Reads, Steps, Holds, Answerable, OthersUnchanged, rowVars, callerVars
<1>10. ASSUME NEW l \in Lookers, Ask(l)
      PROVE  Admitting'
  BY <1>10 DEF Ask, Ends, Steps, Holds, Told, queryCardholderStatus, mapAxysCardholderStatus,
     OthersUnchanged, rowVars, callerVars
<1>11. ASSUME NEW l \in Lookers, AskFails(l)
      PROVE  Admitting'
  BY <1>11 DEF AskFails, Ends, Steps, Holds, OthersUnchanged, rowVars, callerVars
<1>12. ASSUME NEW l \in Lookers, ReadForKyc(l)
      PROVE  Admitting'
  BY <1>12 DEF ReadForKyc, Reads, Steps, Holds, Answerable, OthersUnchanged, rowVars, callerVars
<1>13. ASSUME NEW l \in Lookers, SubmitKyc(l)
      PROVE  Admitting'
  BY <1>13 DEF SubmitKyc, Steps, Holds, Told, OthersUnchanged, rowVars, callerVars
<1>14. ASSUME NEW l \in Lookers, SaveTold(l)
       PROVE  Admitting'
  <2>1. CASE Steps(l, "recording") /\ UNCHANGED copy
    BY <1>14, <2>1 DEF SaveTold, SelectCopy, Select, Differing, Steps, OthersUnchanged, rowVars, callerVars
  <2>2. CASE Steps(l, "saved") /\ UNCHANGED copy
    BY <1>14, <2>2 DEF SaveTold, SelectCopy, Select, Differing, Steps, OthersUnchanged, rowVars, callerVars
  <2>3. CASE Ends(l)
    BY <1>14, <2>3 DEF SaveTold, SelectCopy, Select, Differing, Ends, Steps, Holds, OthersUnchanged,
       rowVars, callerVars
  <2> QED
    BY <1>14, <2>1, <2>2, <2>3 DEF SaveTold, Recorded
<1>15. ASSUME NEW l \in Lookers, SaveSubmitted(l)
       PROVE  Admitting'
  <2>1. CASE Steps(l, "filing") /\ UNCHANGED copy
    BY <1>15, <2>1 DEF SaveSubmitted, SelectCopy, Select, Differing, Steps, OthersUnchanged, rowVars, callerVars
  <2>2. CASE Ends(l)
    BY <1>15, <2>2 DEF SaveSubmitted, SelectCopy, Select, Differing, Ends, Steps, Holds, OthersUnchanged,
       rowVars, callerVars
  <2> QED
    BY <1>15, <2>1, <2>2 DEF SaveSubmitted
<1>16. ASSUME NEW l \in Lookers, Announce(l)
      PROVE  Admitting'
  BY <1>16 DEF Announce, Steps, Holds, Ends, OthersUnchanged, callerVars
<1>17. CASE IssuerDecides
  BY <1>17 DEF IssuerDecides, rowVars, callerVars, lookerVars
<1>18. CASE StatementFails
  <2>1. UNCHANGED <<asks, person, stored, row, untold, account, trampled>> /\ broken' = TRUE
    BY <1>18 DEF StatementFails, rowVars
  <2>2. CASE \E c \in Callers : Goes(c, "idle") /\ Drops(c) /\ Forgets(c) /\ UNCHANGED lookerVars
    BY <2>1, <2>2 DEF Goes, Drops, Keeps, Forgets, lookerVars
  <2>3. CASE \E l \in Lookers : Ends(l) /\ Forgets(l) /\ UNCHANGED callerVars
    BY <2>1, <2>3 DEF Ends, Steps, Holds, Forgets, callerVars
  <2> QED
    BY <1>18, <2>2, <2>3 DEF StatementFails
<1>19. CASE Restart
  BY <1>19 DEF Restart, rowVars
<1>20. ASSUME NEW c \in Callers, UpdateRow(c)
       PROVE  Admitting'
  BY <1>20 DEF UpdateRow, Update, Goes, Drops, Keeps, lookerVars
<1>21. ASSUME NEW l \in Lookers, UpdateTold(l)
       PROVE  Admitting'
  <2>1. CASE Steps(l, "saved") /\ UNCHANGED copy
    BY <1>21, <2>1 DEF UpdateTold, UpdateCopy, Update, Steps, OthersUnchanged, callerVars
  <2>2. CASE Ends(l) /\ ~Announces(l)
    BY <1>21, <2>2 DEF UpdateTold, UpdateCopy, Update, Announces, Ends, Steps, Holds, OthersUnchanged, callerVars
  <2> QED
    BY <1>21, <2>1, <2>2 DEF UpdateTold, Recorded
<1>22. ASSUME NEW l \in Lookers, UpdateSubmitted(l)
       PROVE  Admitting'
  BY <1>22 DEF UpdateSubmitted, UpdateCopy, Update, Ends, Steps, Holds, OthersUnchanged, callerVars
<1> QED
  BY <1>1, <1>2, <1>3, <1>4, <1>5, <1>6, <1>7, <1>8, <1>9, <1>10, <1>11, <1>12, <1>13, <1>14,
     <1>15, <1>16, <1>17, <1>18, <1>19, <1>20, <1>21, <1>22
     DEF Next, CallerNext, LookerNext, Sweep

\* The inductive invariant.
IInv == TypeOK /\ ClaimIsExclusive /\ ClaimHeld /\ CopiesKnow /\ Telling /\ Admitting

\* At the start nobody is at work and nothing is stored.
LEMMA Begins == Init => IInv
<1> SUFFICES ASSUME Init
             PROVE  IInv
  OBVIOUS
<1>1. TypeOK
  BY DEF Init, TypeOK, Rows, NoRow, CardholderStatuses, Words
<1>2. ClaimIsExclusive /\ ClaimHeld
  BY DEF Init, ClaimIsExclusive, ClaimHeld, InFlight
<1>3. CopiesKnow
  BY DEF Init, CopiesKnow, InFlight
<1>4. Telling /\ Admitting
  BY DEF Init, Telling, Admitting
<1> QED
  BY <1>1, <1>2, <1>3, <1>4 DEF IInv

\* Every step keeps all of it.
LEMMA GoesOn == IInv /\ [Next]_vars => IInv'
<1> SUFFICES ASSUME IInv, [Next]_vars
             PROVE  IInv'
  OBVIOUS
<1>1. CASE Next
  BY <1>1, TypeKept, ClaimKept, KnowingKept, TellingKept, AdmittingKept DEF IInv
<1>2. CASE UNCHANGED vars
  BY <1>2 DEF vars, rowVars, callerVars, lookerVars, IInv, TypeOK, Rows, ClaimIsExclusive,
     ClaimHeld, CopiesKnow,
              Telling, Admitting, InFlight, NoRow
<1> QED
  BY <1>1, <1>2


\* The inductive invariant holds of enrol-cardholder, onboard-cardholder,
\* cardholder-status-sync and submit-kyc, however many run at once.
THEOREM Invariant == Spec => []IInv
BY Begins, GoesOn, PTL DEF Spec

\* Rows, accounts and copies are what their columns may hold.
THEOREM Typed == Spec => []TypeOK
<1>1. IInv => TypeOK
  BY DEF IInv
<1> QED
  BY <1>1, Invariant, PTL

\* However many requests race for a person, one gets past the claim
\* (cardholder-enrolment.service), until a reader's stale copy is saved over it.
THEOREM Exclusive == Spec => []ClaimIsExclusive
<1>1. IInv => ClaimIsExclusive
  BY DEF IInv
<1> QED
  BY <1>1, Invariant, PTL

\* A refused request leaves no person behind (onboard-cardholder).
THEOREM NobodyOrphaned == Spec => []NoOrphan
<1>1. IInv => NoOrphan
  BY DEF IInv, Admitting, NoOrphan, TypeOK
<1> QED
  BY <1>1, Invariant, PTL

\* Whoever makes a row's status terminal by reading it announces it
\* (cardholder-status-sync), whoever else writes the row.
THEOREM DecisionsTold == Spec => []DecisionIsTold
<1>1. IInv => DecisionIsTold
  BY DEF IInv, Telling, DecisionIsTold, TypeOK
<1> QED
  BY <1>1, Invariant, PTL

\* No write blanks the issuer's identifier of a person: a save writes whatever
\* differed from its copy, but no copy knows less than the row.
THEOREM IdentityStays == Spec => IdentityKept
<1>1. IInv /\ [Next]_vars => [row.known => row'.known]_vars
  <2> SUFFICES ASSUME IInv, Next, row.known
               PROVE  row'.known
    OBVIOUS
  <2> USE DEF IInv, CopiesKnow, InFlight, TypeOK
  <2>1. CASE row' = row
    BY <2>1
  <2>2. ASSUME NEW c \in Callers, Claim(c)
        PROVE  row'.known
    BY <2>2 DEF Claim, NoRow
  <2>3. ASSUME NEW c \in Callers, Reclaim(c)
        PROVE  row'.known
    BY <2>3 DEF Reclaim, Draft, Rows, rowVars
  <2>4. ASSUME NEW c \in Callers, UpdateRow(c)
        PROVE  row'.known
    BY <2>4 DEF UpdateRow, Update
  <2>5. ASSUME NEW l \in Lookers, UpdateTold(l) \/ UpdateSubmitted(l)
        PROVE  row'.known
    <3>1. copy[l].known
      BY <2>5 DEF UpdateTold, UpdateSubmitted
    <3>2. Update(l, copy[l])
      BY <2>5 DEF UpdateTold, UpdateSubmitted, UpdateCopy
    <3> QED
      BY <3>1, <3>2 DEF Update
  <2> QED
    BY <2>1, <2>2, <2>3, <2>4, <2>5 DEF Next, CallerNext, LookerNext, Onboard, Enrol, IssuerTakes, CallFails,
       RecordAnswer, RecordFailure, SelectRow, SaveTold, SaveSubmitted, SelectCopy,
       OthersUnchanged, Sweep, ReadForSync, ReadForKyc, Reads, Ask, AskFails, SubmitKyc, Announce,
       IssuerDecides, StatementFails, Restart, rowVars
<1> QED
  BY <1>1, Invariant, PTL DEF Spec, IdentityKept
=============================================================================
