-------------------------------- MODULE Outbox --------------------------------
(***************************************************************************)
(* What delivery promises about each message an agent writes, with no        *)
(* sessions, timer chains, guards or tables: it is due until it is delivered *)
(* or, after MaxAttempts failures that no restart came between, failed.      *)
(* Neither end is ever left, and the user sees a message again only while    *)
(* there is a doubt whether it was seen.  A restart touches every message.   *)
(***************************************************************************)
EXTENDS Naturals

CONSTANTS Msgs, MaxAttempts

VARIABLES
  stage,    \* where each message is: absent, due, delivered or failed
  route,    \* whether it can be sent, is barred, or has no bridge
  seen,     \* how often the user has seen it
  doubts,   \* answers about it that were lost, and restarts
  tries     \* failures counted since the last restart

OutboxInit ==
  /\ stage = [m \in Msgs |-> "absent"]
  /\ seen = [m \in Msgs |-> 0]
  /\ doubts = [m \in Msgs |-> 0]
  /\ tries = [m \in Msgs |-> 0]

SameMessage(m) == stage'[m] = stage[m] /\ route'[m] = route[m]
Unseen(m) == seen'[m] = seen[m]
Undoubted(m) == doubts'[m] = doubts[m]

Written(m) ==
  /\ stage[m] = "absent" /\ stage'[m] = "due"
  /\ Unseen(m) /\ Undoubted(m) /\ tries'[m] = tries[m]

\* At most once for each doubt, beside the first time.
Shown(m) ==
  /\ stage[m] = "due" /\ route[m] = "sent"
  /\ seen[m] <= doubts[m]
  /\ seen'[m] = seen[m] + 1
  /\ SameMessage(m) /\ Undoubted(m) /\ tries'[m] = tries[m]

\* Only what has no bridge is delivered unseen.
Delivered(m) ==
  /\ stage[m] = "due" /\ stage'[m] = "delivered"
  /\ route'[m] = route[m]
  /\ route[m] = "unbridged" \/ (route[m] = "sent" /\ seen[m] > 0)
  /\ Unseen(m) /\ Undoubted(m) /\ tries'[m] = 0

\* A refusal, or an answer that is bad; a bad answer to what was seen is a doubt.
Failed(m) ==
  /\ stage[m] = "due" /\ route[m] # "unbridged"
  /\ Undoubted(m) \/ (seen[m] > 0 /\ doubts'[m] = doubts[m] + 1)
  /\ route'[m] = route[m] /\ Unseen(m)
  /\ IF tries[m] + 1 = MaxAttempts
       THEN stage'[m] = "failed" /\ tries'[m] = 0
       ELSE stage'[m] = "due" /\ tries'[m] = tries[m] + 1

Untouched(m) ==
  SameMessage(m) /\ Unseen(m) /\ Undoubted(m) /\ tries'[m] = tries[m]

\* The counts are kept in memory, and any message may have been on its way.
Restarted(m) ==
  /\ SameMessage(m) /\ Unseen(m)
  /\ doubts'[m] = doubts[m] + 1
  /\ tries'[m] = 0

Move(m) ==
  Written(m) \/ Shown(m) \/ Delivered(m) \/ Failed(m) \/ Untouched(m)

OutboxNext == (\A m \in Msgs : Move(m)) \/ (\A m \in Msgs : Restarted(m))

OutboxSpec == OutboxInit /\ [][OutboxNext]_<<stage, route, seen, doubts, tries>>
=============================================================================
