-------------------------- MODULE WebhookDelivery --------------------------
(***************************************************************************)
(* One queued webhook from its row to the partner: the timer's passes over *)
(* the rows that are due, each posting to the partner and saving what came *)
(* of it, and the request that requeues a delivery. Nothing keeps a tick   *)
(* from starting a pass while another still waits for a partner.           *)
(*                                                                         *)
(* The rows of a batch meet only in that an exception of one ends the pass *)
(* for those behind it. save(delivery) is a SELECT, a comparison and an    *)
(* UPDATE of the columns that differ. Instants are abstracted to whether   *)
(* next_attempt_at has come: it is "now", "later" or "null".               *)
(***************************************************************************)
EXTENDS Integers, FiniteSets

CONSTANTS
  Passes,        \* passes that may overlap
  MAX_ATTEMPTS,  \* 5 in the code
  MaxFailures,   \* bound: statements that fail, and restarts
  MaxRequeues    \* bound: requests to requeue

ASSUME PassesAssumption == IsFiniteSet(Passes)
ASSUME AttemptsAssumption == MAX_ATTEMPTS \in Nat \ {0}
ASSUME BoundsAssumption == MaxFailures \in Nat /\ MaxRequeues \in Nat

WebhookDeliveryStatus == {"PENDING", "DELIVERED", "DEAD_LETTER"}
Columns == {"status", "count", "next"}
Deliveries == [status : WebhookDeliveryStatus, count : Nat, next : {"now", "later", "null"}]
Queued == [status |-> "PENDING", count |-> 0, next |-> "now"]

VARIABLES
  configured,   \* the partner has a webhook URL and a secret
  readable,     \* the secrets of the partners of the batch can be decrypted
  delivery,     \* the stored delivery
  at, saving,   \* of a pass: how far it is, and whether its save has read the row
  copy, differing, \* its copy of the row, and the columns that differed
  requeuing, requeueDirty,  \* the save of a request to requeue, likewise
  acked,        \* the partner has answered a 2xx
  tries,        \* attempts that failed, and saves that did
  unset,        \* the partner's webhook was not configured when it was to be used
  mixed,        \* a save has written only some of its columns over a row changed since its SELECT
  failures, requeues

partnerVars == <<configured, readable>>
passVars == <<at, saving, copy, differing>>
requeueVars == <<requeuing, requeueDirty, requeues>>
historyVars == <<acked, tries, unset, mixed>>
deliveryVars == <<partnerVars, delivery, passVars, requeueVars, historyVars, failures>>

DeliveryInit ==
  /\ configured \in BOOLEAN /\ readable \in BOOLEAN
  /\ delivery = Queued
  /\ at = [p \in Passes |-> "idle"] /\ saving = [p \in Passes |-> FALSE]
  /\ copy = [p \in Passes |-> Queued] /\ differing = [p \in Passes |-> {}]
  /\ requeuing = FALSE /\ requeueDirty = {}
  /\ acked = FALSE /\ tries = 0 /\ unset = FALSE /\ mixed = FALSE
  /\ failures = 0 /\ requeues = 0

Differing(entity) == {c \in Columns : entity[c] # delivery[c]}

\* The UPDATE of the columns found to differ; every other column stays as it is.
Update(entity, columns) ==
  /\ delivery' = [c \in Columns |-> IF c \in columns THEN entity[c] ELSE delivery[c]]
  /\ mixed' = (mixed \/ delivery' # entity)

Goes(p, place) == at' = [at EXCEPT ![p] = place]
\* The pass leaves the row, and its copy with it.
Leaves(p) ==
  /\ Goes(p, "idle") /\ saving' = [saving EXCEPT ![p] = FALSE]
  /\ copy' = [copy EXCEPT ![p] = Queued] /\ differing' = [differing EXCEPT ![p] = {}]

-----------------------------------------------------------------------------
(* A pass. *)

\* Mutant: only a delivery never attempted is found.
isFresh == delivery = Queued
isDue == delivery.status = "PENDING" /\ delivery.next = "now"

\* processDueDeliveries reads the batch: the row is copied.
Find(p) ==
  /\ at[p] = "idle" /\ isDue
  /\ Goes(p, "held") /\ copy' = [copy EXCEPT ![p] = delivery]
  /\ UNCHANGED <<partnerVars, delivery, saving, differing, requeueVars, historyVars, failures>>

\* The row's turn: the partner is read.
Unconfigured(p) ==
  /\ at[p] = "held" /\ ~configured
  /\ Goes(p, "dead")
  /\ copy' = [copy EXCEPT ![p].status = "DEAD_LETTER", ![p].next = "null"]
  /\ unset' = TRUE
  /\ UNCHANGED <<partnerVars, delivery, saving, differing, requeueVars, acked, tries, mixed, failures>>

Post(p) ==
  /\ at[p] = "held" /\ configured
  /\ Goes(p, "posting")
  /\ UNCHANGED <<partnerVars, delivery, saving, copy, differing, requeueVars, historyVars, failures>>

\* A secret that cannot be decrypted, this row's or one's before it, ends the pass.
Undecryptable(p) ==
  /\ at[p] = "held" /\ ~readable
  /\ Leaves(p)
  /\ UNCHANGED <<partnerVars, delivery, requeueVars, historyVars, failures>>

Accepted(p) ==
  /\ at[p] = "posting"
  /\ Goes(p, "inTry") /\ acked' = TRUE
  /\ copy' = [copy EXCEPT ![p].status = "DELIVERED", ![p].next = "null"]
  /\ UNCHANGED <<partnerVars, delivery, saving, differing, requeueVars, tries, unset, mixed, failures>>

\* Mutant: one attempt too few.
exhaustedEarly(count) == count + 1 >= MAX_ATTEMPTS
exhausted(count) == count >= MAX_ATTEMPTS

\* One failure more on the copy, and the next attempt or none.
Counted(entity) ==
  LET count == entity.count + 1
  IN  [status |-> IF exhausted(count) THEN "DEAD_LETTER" ELSE entity.status,
       count |-> count,
       next |-> IF exhausted(count) THEN "null" ELSE "later"]

\* recordFailureAndScheduleRetry up to its save.
Fails(p, place) ==
  /\ Goes(p, place) /\ tries' = tries + 1
  /\ copy' = [copy EXCEPT ![p] = Counted(@)]

\* A status that is not 2xx, still inside the try; or no answer, in the catch.
Refused(p) ==
  /\ at[p] = "posting" /\ Fails(p, "inTry")
  /\ UNCHANGED <<partnerVars, delivery, saving, differing, requeueVars, acked, unset, mixed, failures>>
Unanswered(p) ==
  /\ at[p] = "posting" /\ Fails(p, "inCatch")
  /\ UNCHANGED <<partnerVars, delivery, saving, differing, requeueVars, acked, unset, mixed, failures>>

ToSave == {"inTry", "inCatch", "dead"}

SelectRow(p) ==
  /\ at[p] \in ToSave /\ ~saving[p]
  /\ saving' = [saving EXCEPT ![p] = TRUE]
  /\ differing' = [differing EXCEPT ![p] = Differing(copy[p])]
  /\ UNCHANGED <<partnerVars, delivery, at, copy, requeueVars, historyVars, failures>>

UpdateRow(p) ==
  /\ at[p] \in ToSave /\ saving[p]
  /\ Update(copy[p], differing[p])
  /\ Leaves(p)
  /\ UNCHANGED <<partnerVars, requeueVars, acked, tries, unset, failures>>

\* A save that throws inside the try is counted as one more failed attempt, on
\* a copy that may say DELIVERED; elsewhere it ends the pass.
SaveFails(p) ==
  /\ at[p] \in ToSave /\ saving[p] /\ failures < MaxFailures
  /\ failures' = failures + 1
  /\ IF at[p] = "inTry"
     THEN /\ Fails(p, "inCatch")
          /\ saving' = [saving EXCEPT ![p] = FALSE] /\ differing' = [differing EXCEPT ![p] = {}]
     ELSE Leaves(p) /\ UNCHANGED tries
  /\ UNCHANGED <<partnerVars, delivery, requeueVars, acked, unset, mixed>>

-----------------------------------------------------------------------------
(* Requeueing, time, the partner and restarts. *)

\* retryDeadLetter, whatever the row says.
RequeueSelect ==
  /\ ~requeuing /\ requeues < MaxRequeues
  /\ requeuing' = TRUE /\ requeues' = requeues + 1
  /\ requeueDirty' = Differing(Queued)
  /\ UNCHANGED <<partnerVars, delivery, passVars, historyVars, failures>>
RequeueUpdate ==
  /\ requeuing
  /\ Update(Queued, requeueDirty)
  /\ requeuing' = FALSE /\ requeueDirty' = {}
  /\ UNCHANGED <<partnerVars, passVars, acked, tries, unset, failures, requeues>>

Elapse ==
  /\ delivery.next = "later"
  /\ delivery' = [delivery EXCEPT !.next = "now"]
  /\ UNCHANGED <<partnerVars, passVars, requeueVars, historyVars, failures>>

Restart ==
  /\ failures < MaxFailures /\ failures' = failures + 1
  /\ at' = [p \in Passes |-> "idle"] /\ saving' = [p \in Passes |-> FALSE]
  /\ copy' = [p \in Passes |-> Queued] /\ differing' = [p \in Passes |-> {}]
  /\ requeuing' = FALSE /\ requeueDirty' = {}
  /\ UNCHANGED <<partnerVars, delivery, historyVars, requeues>>

Configure ==
  /\ ~configured /\ configured' = TRUE
  /\ UNCHANGED <<readable, delivery, passVars, requeueVars, historyVars, failures>>

DeliveryNext ==
  \/ \E p \in Passes :
       \/ Find(p) \/ Unconfigured(p) \/ Post(p) \/ Undecryptable(p) \/ Accepted(p)
       \/ Refused(p) \/ Unanswered(p) \/ SelectRow(p) \/ UpdateRow(p) \/ SaveFails(p)
  \/ RequeueSelect \/ RequeueUpdate \/ Elapse \/ Restart \/ Configure

PassMoves(p) ==
  \/ Unconfigured(p) \/ Post(p) \/ Accepted(p) \/ Refused(p) \/ Unanswered(p)
  \/ SelectRow(p) \/ UpdateRow(p)

\* The timer ticks for ever, time passes, a POST is given up after ten seconds.
DeliveryFairness ==
  /\ \A p \in Passes : WF_deliveryVars(Find(p)) /\ WF_deliveryVars(PassMoves(p))
  /\ WF_deliveryVars(Elapse)

DeliverySpec == DeliveryInit /\ [][DeliveryNext]_deliveryVars /\ DeliveryFairness

-----------------------------------------------------------------------------
DeliveryOK ==
  /\ configured \in BOOLEAN /\ readable \in BOOLEAN /\ delivery \in Deliveries
  /\ at \in [Passes -> {"idle", "held", "posting"} \cup ToSave]
  /\ saving \in [Passes -> BOOLEAN]
  /\ copy \in [Passes -> Deliveries] /\ differing \in [Passes -> SUBSET Columns]
  /\ requeuing \in BOOLEAN /\ requeueDirty \subseteq Columns
  /\ acked \in BOOLEAN /\ tries \in Nat /\ unset \in BOOLEAN /\ mixed \in BOOLEAN
  /\ failures \in 0 .. MaxFailures /\ requeues \in 0 .. MaxRequeues

\* A delivery is given up only after MAX_ATTEMPTS attempts or saves that failed,
\* or because the partner had no webhook: stale copies undercount, never over.
\* One that is DELIVERED was answered a 2xx, by whichever pass it was posted.
GivenUpIsEarned ==
  /\ delivery.count <= tries
  /\ delivery.status = "DELIVERED" => acked
  /\ delivery.status = "DEAD_LETTER" => tries >= MAX_ATTEMPTS \/ unset

\* Unless a secret cannot be read, a delivery ends delivered or given up,
\* though stale copies may take it back to PENDING on the way; what two mixed
\* saves may leave behind is a delivery that waits without a time.
Settles == readable => <>[](delivery.status = "PENDING" => mixed /\ delivery.next = "null")
=============================================================================
