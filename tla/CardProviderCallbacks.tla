----------------------- MODULE CardProviderCallbacks -----------------------
(***************************************************************************)
(* The inbox of an issuer's notices: one notice, delivered again until it  *)
(* is acknowledged, and the handlers that record it, act on it, and stamp  *)
(* it last. Two deliveries may be handled at once. What acting means is    *)
(* left to the module that says what the notice is about. A delivery that  *)
(* does not verify is recorded on a row of its own, which never holds the  *)
(* key, and refused: nothing below depends on it.                          *)
(***************************************************************************)
EXTENDS Integers, FiniteSets

CONSTANTS Handlers   \* concurrent deliveries of the notice

VARIABLES
  sent,     \* the issuer has something to say
  acked,    \* the issuer has read its acknowledgement
  inbox,    \* the verified row: "none", "recorded", or "processed" once it is stamped
  at,       \* of a handler: how far
  acts,     \* how often the notice was acted on to the end, while not excused
  excused   \* two handlers found it unprocessed together, or a stamp was lost

inboxVars == <<sent, acked, inbox, at, acts, excused>>

InboxInit ==
  /\ sent = FALSE /\ acked = FALSE /\ inbox = "none"
  /\ at = [h \in Handlers |-> "idle"]
  /\ acts = 0 /\ excused = FALSE

Goes(h, place) == at' = [at EXCEPT ![h] = place]

\* A handler that found the notice unprocessed, and has not stamped it.
AtWork(h) == at[h] \in {"toAct", "acting", "toStamp"}

\* Once excused, the count stops.
Excuse(happened) ==
  /\ excused' = (excused \/ happened)
  /\ acts' = IF excused' THEN 0 ELSE acts

-----------------------------------------------------------------------------
Send ==
  /\ ~sent /\ sent' = TRUE
  /\ UNCHANGED <<acked, inbox, at, acts, excused>>

\* The insert, which the dedupe index decides; on a collision the row is read,
\* its attempt counted, and its stamp is what the handler goes by. The row that
\* collided is committed and no row is ever deleted, so that it is found.
Recorded == IF inbox = "none" THEN "recorded" ELSE inbox
\* Mutant: the stamp of the row that is found is not looked at.
ForgetsStamp == FALSE
FindsProcessed == inbox = "processed"
Record(h) ==
  /\ sent /\ ~acked /\ at[h] = "idle"
  /\ inbox' = Recorded
  /\ Goes(h, IF FindsProcessed THEN "acking" ELSE "toAct")
  /\ Excuse(~FindsProcessed /\ \E g \in Handlers : AtWork(g))
  /\ UNCHANGED <<sent, acked>>

\* dispatch begins.
Act(h) ==
  /\ at[h] = "toAct"
  /\ Goes(h, "acting")
  /\ UNCHANGED <<sent, acked, inbox, acts, excused>>

\* dispatch has returned.
Acted(h) ==
  /\ at[h] = "acting"
  /\ Goes(h, "toStamp") /\ acts' = IF excused THEN 0 ELSE acts + 1
  /\ UNCHANGED <<sent, acked, inbox, excused>>

\* dispatch has thrown: the error is noted, the answer is 500.
Failed(h) ==
  /\ at[h] = "acting"
  /\ Goes(h, "idle")
  /\ UNCHANGED <<sent, acked, inbox, acts, excused>>

Stamp(h) ==
  /\ at[h] = "toStamp"
  /\ Goes(h, "acking") /\ inbox' = "processed"
  /\ UNCHANGED <<sent, acked, acts, excused>>

StampFails(h) ==
  /\ at[h] = "toStamp"
  /\ Goes(h, "idle") /\ Excuse(TRUE)
  /\ UNCHANGED <<sent, acked, inbox>>

\* The acknowledgement reaches the issuer, or is lost on the way.
Acknowledge(h) ==
  /\ at[h] = "acking"
  /\ Goes(h, "idle") /\ acked' \in {acked, TRUE}
  /\ UNCHANGED <<sent, inbox, acts, excused>>

InboxDown ==
  /\ at' = [h \in Handlers |-> "idle"]
  /\ Excuse(\E h \in Handlers : at[h] = "toStamp")
  /\ UNCHANGED <<sent, acked, inbox>>

-----------------------------------------------------------------------------
\* A notice is acted on once however often it is delivered, unless two
\* deliveries of it are handled together or the stamp of the first is lost.
ActsOnce == acts <= 1
=============================================================================
