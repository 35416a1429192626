------------------------------- MODULE Delivery -------------------------------
(***************************************************************************)
(* Delivery of what the agents write to messages_out.  Two timer chains     *)
(* read the sessions' outbound.db files: the active poll visits the sessions *)
(* whose container runs, the sweep poll all active ones.  A visit drains the *)
(* session: each undelivered message is handed to a channel adapter, awaited,*)
(* and recorded in the delivered table of inbound.db; a failure is counted   *)
(* in memory.  The chains interleave at every await; the host may die        *)
(* between the moment the platform shows a message and the record of it.    *)
(***************************************************************************)
EXTENDS Integers

CONSTANTS
  Sessions,     \* the active sessions
  NMsgs,        \* messages that may be written; a message is its timestamp order
  None,         \* no session
  Kinds,        \* the kinds of message that may be written
  MaxAttempts,  \* MAX_DELIVERY_ATTEMPTS
  MaxLost,      \* answers lost per message
  MaxCrash      \* crashes of the host that may happen

\* How deliverMessage treats a message:
\*   sent       a channel adapter or a system action handler takes it
\*   barred     it throws before that: unknown or unauthorised destination
\*   unbridged  no adapter is registered for its channel type
AllKinds == {"sent", "barred", "unbridged"}

ASSUME ConstantsOK ==
  /\ NMsgs \in Nat
  /\ None \notin Sessions
  /\ Kinds \subseteq AllKinds
  /\ MaxAttempts \in Nat \ {0}
  /\ MaxLost \in Nat
  /\ MaxCrash \in Nat

Msgs == 1..NMsgs
Polls == {"active", "sweep"}

VARIABLES
  owner,      \* messages_out: the session whose agent wrote the message
  kind,       \* how deliverMessage treats it
  fate,       \* delivered.status; "none" when there is no row
  attempts,   \* deliveryAttempts
  shown,      \* how often the platform has shown the message
  lost,       \* how often the adapter failed although the platform showed it
  inflight,   \* inflightDeliveries
  poll,       \* where each timer chain is
  hostUp,     \* the host process runs
  crashes     \* crashes so far

outbox == <<owner, kind>>
table == <<fate, attempts>>
platform == <<shown, lost>>
vars == <<owner, kind, fate, attempts, shown, lost, inflight, poll,
          hostUp, crashes>>

\* A timer chain sleeps ("idle"), is between two sessions ("next"), or is
\* draining session `at`: between two messages ("drain"), awaiting the adapter
\* ("sending"), or awaiting it after the platform showed the message ("shown").
Stages == {"idle", "next", "drain", "sending", "shown"}
Chain == [stage : Stages, todo : SUBSET Sessions, at : Sessions \cup {None},
          queue : SUBSET Msgs]

Asleep == [stage |-> "idle", todo |-> {}, at |-> None, queue |-> {}]

\* Mutant: the newest message first.
HeadNewest(p, m) == m \in poll[p].queue /\ \A n \in poll[p].queue : m >= n

\* ORDER BY timestamp ASC: the message the drain is at.  Timestamps of the same
\* second are taken to keep the order of the writes; no caller sets deliver_after.
Head(p, m) == m \in poll[p].queue /\ \A n \in poll[p].queue : m <= n

\* Mutant: the delivered table is not consulted.
UndeliveredOrNot(s) == {m \in Msgs : owner[m] = s}

Undelivered(s) == {m \in Msgs : owner[m] = s /\ fate[m] = "none"}

Init ==
  /\ owner = [m \in Msgs |-> None]
  /\ kind = [m \in Msgs |-> "sent"]
  /\ fate = [m \in Msgs |-> "none"]
  /\ attempts = [m \in Msgs |-> 0]
  /\ shown = [m \in Msgs |-> 0]
  /\ lost = [m \in Msgs |-> 0]
  /\ inflight = {}
  /\ poll = [p \in Polls |-> Asleep]
  /\ hostUp = TRUE
  /\ crashes = 0
-----------------------------------------------------------------------------
(* The containers *)

\* writeMessageOut: an agent writes a message, whatever the host is doing.
WriteMessageOut(s, k) ==
  \E m \in Msgs :
    /\ owner[m] = None
    /\ \A n \in 1..(m - 1) : owner[n] # None
    /\ owner' = [owner EXCEPT ![m] = s]
    /\ kind' = [kind EXCEPT ![m] = k]
    /\ UNCHANGED <<table, platform, inflight, poll, hostUp, crashes>>
-----------------------------------------------------------------------------
(* The two timer chains *)

\* Mutant: the sweep poll reads the running sessions too.
ToVisitRunning(p) == SUBSET Sessions

\* The sessions a chain may find when it fires: the active poll those whose
\* container runs, which may be any at that moment, the sweep poll all.
ToVisit(p) == IF p = "active" THEN SUBSET Sessions ELSE {Sessions}

\* pollActive or pollSweep fires.
PollStart(p) ==
  /\ hostUp
  /\ poll[p].stage = "idle"
  /\ \E found \in ToVisit(p) :
       poll' = [poll EXCEPT ![p] = [@ EXCEPT !.stage = "next", !.todo = found]]
  /\ UNCHANGED <<outbox, table, platform, inflight, hostUp, crashes>>

\* The queue is read once: what is written meanwhile waits for the next visit.
EnterSession(p, s) ==
  /\ poll[p].stage = "next"
  /\ s \in poll[p].todo
  /\ s \notin inflight
  /\ Undelivered(s) # {}
  /\ inflight' = inflight \cup {s}
  /\ poll' = [poll EXCEPT ![p] = [@ EXCEPT !.stage = "drain", !.todo = poll[p].todo \ {s},
                                           !.at = s, !.queue = Undelivered(s)]]
  /\ UNCHANGED <<outbox, table, platform, hostUp, crashes>>

\* The other chain is draining the session, or there is nothing to deliver.
SkipSession(p, s) ==
  /\ poll[p].stage = "next"
  /\ s \in poll[p].todo
  /\ s \in inflight \/ Undelivered(s) = {}
  /\ poll' = [poll EXCEPT ![p] = [@ EXCEPT !.todo = poll[p].todo \ {s}]]
  /\ UNCHANGED <<outbox, table, platform, inflight, hostUp, crashes>>

PollEnd(p) ==
  /\ poll[p].stage = "next"
  /\ poll[p].todo = {}
  /\ poll' = [poll EXCEPT ![p] = [@ EXCEPT !.stage = "idle"]]
  /\ UNCHANGED <<outbox, table, platform, inflight, hostUp, crashes>>

\* The drain goes on with the next message, whatever became of m.
Proceed(p, m) ==
  poll' = [poll EXCEPT ![p] = [@ EXCEPT !.stage = "drain", !.queue = poll[p].queue \ {m}]]

\* Mutant: the comparison with MAX_DELIVERY_ATTEMPTS is off by one.
RecordFailureLate(m) ==
  IF attempts[m] + 1 > MaxAttempts
    THEN /\ fate' = [fate EXCEPT ![m] = "failed"]
         /\ attempts' = [attempts EXCEPT ![m] = 0]
    ELSE /\ attempts' = [attempts EXCEPT ![m] = attempts[m] + 1]
         /\ UNCHANGED fate

\* The catch block: the attempt is counted, the last one marks the message failed.
RecordFailure(m) ==
  IF attempts[m] + 1 >= MaxAttempts
    THEN /\ fate' = [fate EXCEPT ![m] = IF fate[m] = "none" THEN "failed" ELSE fate[m]]
         /\ attempts' = [attempts EXCEPT ![m] = 0]
    ELSE /\ attempts' = [attempts EXCEPT ![m] = attempts[m] + 1]
         /\ UNCHANGED fate

\* deliverMessage throws before it reaches the adapter.
Refuse(p) ==
  \E m \in Msgs :
    /\ poll[p].stage = "drain"
    /\ Head(p, m)
    /\ kind[m] = "barred"
    /\ RecordFailure(m)
    /\ Proceed(p, m)
    /\ UNCHANGED <<outbox, platform, inflight, hostUp, crashes>>

Send(p) ==
  \E m \in Msgs :
    /\ poll[p].stage = "drain"
    /\ Head(p, m)
    /\ kind[m] # "barred"
    /\ poll' = [poll EXCEPT ![p] = [@ EXCEPT !.stage = "sending"]]
    /\ UNCHANGED <<outbox, table, platform, inflight, hostUp, crashes>>

\* The platform shows the message; the adapter's promise is still pending.
Show(p) ==
  \E m \in Msgs :
    /\ poll[p].stage = "sending"
    /\ Head(p, m)
    /\ kind[m] = "sent"
    /\ shown' = [shown EXCEPT ![m] = shown[m] + 1]
    /\ poll' = [poll EXCEPT ![p] = [@ EXCEPT !.stage = "shown"]]
    /\ UNCHANGED <<outbox, table, lost, inflight, hostUp, crashes>>

\* The promise resolves: markDelivered.  The bridge in index.ts resolves at
\* once when no adapter is registered for the channel type.
Answer(p) ==
  \E m \in Msgs :
    /\ Head(p, m)
    /\ \/ poll[p].stage = "shown"
       \/ poll[p].stage = "sending" /\ kind[m] = "unbridged"
    /\ fate' = [fate EXCEPT ![m] = IF fate[m] = "none" THEN "delivered" ELSE fate[m]]
    /\ attempts' = [attempts EXCEPT ![m] = 0]
    /\ Proceed(p, m)
    /\ UNCHANGED <<outbox, platform, inflight, hostUp, crashes>>

\* The promise rejects, before or after the platform showed the message.
Reject(p) ==
  \E m \in Msgs :
    /\ Head(p, m)
    /\ kind[m] = "sent"
    /\ \/ poll[p].stage = "sending" /\ UNCHANGED lost
       \/ /\ poll[p].stage = "shown"
          /\ lost[m] < MaxLost
          /\ lost' = [lost EXCEPT ![m] = lost[m] + 1]
    /\ RecordFailure(m)
    /\ Proceed(p, m)
    /\ UNCHANGED <<outbox, shown, inflight, hostUp, crashes>>

\* The drain is over; the finally block releases the session.
LeaveSession(p) ==
  /\ poll[p].stage = "drain"
  /\ poll[p].queue = {}
  /\ poll' = [poll EXCEPT ![p] = [@ EXCEPT !.stage = "next", !.at = None]]
  /\ inflight' = inflight \ {poll[p].at}
  /\ UNCHANGED <<outbox, table, platform, hostUp, crashes>>
-----------------------------------------------------------------------------
\* The host dies: both chains, the guard and the attempt counts are gone; the
\* two databases stay.
HostCrash ==
  /\ hostUp
  /\ crashes < MaxCrash
  /\ crashes' = crashes + 1
  /\ hostUp' = FALSE
  /\ poll' = [p \in Polls |-> Asleep]
  /\ inflight' = {}
  /\ attempts' = [m \in Msgs |-> 0]
  /\ UNCHANGED <<outbox, fate, platform>>

HostStart ==
  /\ ~hostUp
  /\ hostUp' = TRUE
  /\ UNCHANGED <<outbox, table, platform, inflight, poll, crashes>>

ChainStep(p) ==
  \/ PollStart(p)
  \/ \E s \in Sessions : EnterSession(p, s)
  \/ \E s \in Sessions : SkipSession(p, s)
  \/ PollEnd(p)
  \/ Refuse(p)
  \/ Send(p)
  \/ Show(p)
  \/ Answer(p)
  \/ Reject(p)
  \/ LeaveSession(p)

Next ==
  \/ \E s \in Sessions, k \in Kinds : WriteMessageOut(s, k)
  \/ \E p \in Polls : ChainStep(p)
  \/ HostCrash
  \/ HostStart

Spec == Init /\ [][Next]_vars

\* Fairness.  A chain's timer fires, its loop goes on, and an adapter's promise
\* settles one way or the other.  Nothing makes an adapter succeed, an agent
\* write or a container run.
FairSpec ==
  /\ Spec
  /\ WF_vars(HostStart)
  /\ \A p \in Polls : WF_vars(ChainStep(p))
-----------------------------------------------------------------------------
(* Properties *)

\* Every variable has its type.
TypeOK ==
  /\ owner \in [Msgs -> Sessions \cup {None}]
  /\ kind \in [Msgs -> AllKinds]
  /\ fate \in [Msgs -> {"none", "delivered", "failed"}]
  /\ attempts \in [Msgs -> 0..(MaxAttempts - 1)]
  /\ shown \in [Msgs -> Nat]
  /\ lost \in [Msgs -> 0..MaxLost]
  /\ inflight \subseteq Sessions
  /\ poll \in [Polls -> Chain]
  /\ hostUp \in BOOLEAN
  /\ crashes \in 0..MaxCrash

\* A running session is in both chains' result sets, and yet the two chains
\* never drain it at the same time (inflightDeliveries).
SingleDrain ==
  \A p, q \in Polls : poll[p].at # None /\ poll[p].at = poll[q].at => p = q

\* The user sees a message a second time only if the platform's answer to an
\* earlier sending was lost, or the host died before it was recorded.
NoEcho == \A m \in Msgs : shown[m] <= 1 + lost[m] + crashes

\* Once a message is delivered or given up the user never sees it again, also
\* not from a queue that was read before (a drain reads the delivered table
\* once and then awaits an adapter for every message).
SettledStaysHidden ==
  [][\A m \in Msgs : fate[m] # "none" => shown'[m] = shown[m]]_shown

\* A session's messages are handed to the adapter in the order in which they
\* were written; one is overtaken only after it was refused or rejected.
InOrder ==
  [][\A p \in Polls, m, n \in Msgs :
       /\ poll[p].stage = "drain" /\ poll'[p].stage = "sending"
       /\ Head(p, m) /\ n < m /\ owner[n] = owner[m]
       => fate[n] # "none" \/ attempts[n] > 0]_poll

\* What is refused is never shown; what counts as delivered was shown unless no
\* adapter is registered for its channel type, and such a message never fails.
RouteDecides ==
  \A m \in Msgs :
    /\ kind[m] # "sent" => shown[m] = 0
    /\ fate[m] = "delivered" => kind[m] = "unbridged" \/ shown[m] > 0
    /\ fate[m] = "failed" => kind[m] # "unbridged"

\* Each message follows the abstract outbox: it is due until it is delivered,
\* seen unless nothing bridges its channel, or given up after MaxAttempts
\* failures in one life of the host, and it is never shown from either end.
Stage == [m \in Msgs |-> IF owner[m] = None THEN "absent"
                         ELSE IF fate[m] = "none" THEN "due" ELSE fate[m]]

Doubts == [m \in Msgs |-> lost[m] + crashes]

Outbox == INSTANCE Outbox
  WITH stage <- Stage, route <- kind, seen <- shown, doubts <- Doubts, tries <- attempts

ImplementsOutbox == Outbox!OutboxSpec

\* Every message an agent writes ends delivered or given up, also when its
\* container is gone, the other chain skipped it, or the host died over it.
Resolved == \A m \in Msgs : owner[m] # None ~> fate[m] # "none"

-----------------------------------------------------------------------------
(* What the repository says of the program and the code does not do *)

\* delivery.ts, deliverMessage: failures throw "instead of marking it delivered
\* when nothing was actually delivered".  The bridge in index.ts returns.
DeliveredWasShown == \A m \in Msgs : fate[m] = "delivered" => shown[m] > 0
=============================================================================
