------------------------------ MODULE WhatsApp ------------------------------
(***************************************************************************)
(* The texts and the connection of the WhatsApp adapter.  A text delivered  *)
(* while the socket is closed, or whose send throws, waits in a queue in     *)
(* memory; the host counts it as delivered all the same.  Every open of a    *)
(* socket flushes the queue.  Cards, reactions, files and inbound messages   *)
(* of the adapter are not modelled here.                                     *)
(***************************************************************************)
EXTENDS Integers, Sequences, FiniteSets

CONSTANTS
  Texts,     \* texts that the host delivers
  MaxOpens,  \* bound: the connection that stays
  MaxCrash   \* bound: crashes of the host

ASSUME ConstantsOK ==
  /\ IsFiniteSet(Texts) /\ "none" \notin Texts
  /\ MaxOpens \in Nat \ {0} /\ MaxCrash \in Nat

VARIABLES
  link,      \* "setup", "reconnect" or "retry" while connectSocket runs for the
             \* first time, after a close and after its first failure; "made" and
             \* "open" with a socket; "loggedOut" and "dead" without
  ready,     \* setup() has returned: the adapter is registered
  queue,     \* outgoingQueue
  flushing,
  hand,      \* the item that the flush has shifted and sends
  stage,     \* each text: "new", "sending", "taken", "done", "dropped" or "gone"
  failed,    \* a send failed since the last open
  shown,     \* how often the chat shows each text
  opens, crashes

connection == <<link, ready, opens>>
outgoing == <<queue, flushing, hand, stage, failed, shown>>
vars == <<link, ready, queue, flushing, hand, stage, failed, shown, opens, crashes>>

NoText == "none"
Queued == {queue[i] : i \in DOMAIN queue}
Connected == link = "open"

Init ==
  /\ link = "setup" /\ ready = FALSE
  /\ queue = <<>> /\ flushing = FALSE /\ hand = NoText
  /\ stage = [t \in Texts |-> "new"]
  /\ failed = FALSE
  /\ shown = [t \in Texts |-> 0]
  /\ opens = 0 /\ crashes = 0
-----------------------------------------------------------------------------
(* The connection *)

\* connectSocket fetches the version and makes a socket.
Dialled ==
  /\ link \in {"setup", "reconnect", "retry"}
  /\ link' = "made"
  /\ UNCHANGED <<ready, opens, outgoing, crashes>>

\* It throws.  setup() rejects, and the adapter is not registered; after a close
\* connectSocket is called once more, five seconds later.
DialFails ==
  /\ link \in {"setup", "reconnect", "retry"}
  /\ link' = IF link = "reconnect" THEN "retry" ELSE "dead"
  /\ UNCHANGED <<ready, opens, outgoing, crashes>>

\* The flush takes the first item, or ends.
TakeNext ==
  IF queue = <<>>
  THEN flushing' = FALSE /\ hand' = NoText /\ UNCHANGED queue
  ELSE flushing' = TRUE /\ hand' = Head(queue) /\ queue' = Tail(queue)

\* Mutant: a connection opens without a flush.
OpenedQuietly ==
  /\ link = "made" /\ opens < MaxOpens
  /\ link' = "open" /\ ready' = TRUE /\ opens' = opens + 1
  /\ failed' = FALSE
  /\ UNCHANGED <<queue, flushing, hand, stage, shown, crashes>>

\* connection.update: open.  The queue is flushed unless a flush still runs.
Opened ==
  /\ link = "made" /\ opens < MaxOpens
  /\ link' = "open" /\ ready' = TRUE /\ opens' = opens + 1
  /\ failed' = FALSE
  /\ IF flushing THEN UNCHANGED <<queue, flushing, hand>> ELSE TakeNext
  /\ UNCHANGED <<stage, shown, crashes>>

\* connection.update: close.  The last connection stays.
Closed ==
  /\ link \in {"made", "open"} /\ opens < MaxOpens
  /\ link' \in {"reconnect", "loggedOut"}
  /\ UNCHANGED <<ready, opens, outgoing, crashes>>
-----------------------------------------------------------------------------
(* Texts *)

\* sendRawMessage for a text of the delivery poll.  It throws for a chat that the
\* private mode bars, and for no other: the host marks the text delivered.
Deliver(t) ==
  /\ ready /\ stage[t] = "new"
  /\ IF Connected
     THEN stage' = [stage EXCEPT ![t] = "sending"] /\ UNCHANGED queue
     ELSE stage' = [stage EXCEPT ![t] = "taken"] /\ queue' = Append(queue, t)
  /\ UNCHANGED <<connection, flushing, hand, failed, shown, crashes>>

Sent(t) ==
  /\ stage[t] = "sending"
  /\ stage' = [stage EXCEPT ![t] = "done"]
  /\ shown' = [shown EXCEPT ![t] = @ + 1]
  /\ UNCHANGED <<connection, queue, flushing, hand, failed, crashes>>

\* The send throws, before or after the chat shows the text.
SendFails(t) ==
  /\ stage[t] = "sending"
  /\ queue' = Append(queue, t)
  /\ stage' = [stage EXCEPT ![t] = "taken"]
  /\ failed' = TRUE
  /\ shown' \in {shown, [shown EXCEPT ![t] = @ + 1]}
  /\ UNCHANGED <<connection, flushing, hand, crashes>>

\* The flush goes on with whatever socket there is.
FlushSent ==
  /\ hand # NoText
  /\ stage' = [stage EXCEPT ![hand] = "done"]
  /\ shown' = [shown EXCEPT ![hand] = @ + 1]
  /\ TakeNext
  /\ UNCHANGED <<connection, failed, crashes>>

\* Mutant: the flag of the flush is not reset when a send throws.
FlushStuck ==
  /\ hand # NoText
  /\ stage' = [stage EXCEPT ![hand] = "dropped"]
  /\ hand' = NoText
  /\ failed' = TRUE
  /\ shown' \in {shown, [shown EXCEPT ![hand] = @ + 1]}
  /\ UNCHANGED <<connection, queue, flushing, crashes>>

\* Mutant: the flush goes on after a send that throws.
FlushGoesOn ==
  /\ hand # NoText
  /\ stage' = [stage EXCEPT ![hand] = "dropped"]
  /\ TakeNext
  /\ failed' = TRUE
  /\ shown' \in {shown, [shown EXCEPT ![hand] = @ + 1]}
  /\ UNCHANGED <<connection, crashes>>

\* Mutant: the item is put back when its send throws.
FlushPutsBack ==
  /\ hand # NoText
  /\ queue' = <<hand>> \o queue
  /\ flushing' = FALSE /\ hand' = NoText
  /\ failed' = TRUE
  /\ shown' \in {shown, [shown EXCEPT ![hand] = @ + 1]}
  /\ UNCHANGED <<connection, stage, crashes>>

\* Its send throws: the item is in no queue, and the flush is over.
FlushFails ==
  /\ hand # NoText
  /\ stage' = [stage EXCEPT ![hand] = "dropped"]
  /\ flushing' = FALSE /\ hand' = NoText
  /\ failed' = TRUE
  /\ shown' \in {shown, [shown EXCEPT ![hand] = @ + 1]}
  /\ UNCHANGED <<connection, queue, crashes>>
-----------------------------------------------------------------------------
InFlight == {t \in Texts : stage[t] = "sending"} \cup ({hand} \cap Texts)

\* The host dies: what it still delivers is delivered again, and the queue, which
\* it counts as delivered, is gone.
HostCrash ==
  /\ crashes < MaxCrash
  /\ crashes' = crashes + 1
  /\ link' = "setup" /\ ready' = FALSE
  /\ queue' = <<>> /\ flushing' = FALSE /\ hand' = NoText /\ failed' = FALSE
  /\ stage' = [t \in Texts |-> CASE stage[t] = "sending" -> "new"
                                 [] stage[t] = "taken" -> "gone"
                                 [] OTHER -> stage[t]]
  /\ \E seen \in SUBSET InFlight :
       shown' = [t \in Texts |-> IF t \in seen THEN shown[t] + 1 ELSE shown[t]]
  /\ UNCHANGED opens

Next ==
  \/ Dialled \/ DialFails \/ Opened \/ Closed
  \/ \E t \in Texts : Deliver(t) \/ Sent(t) \/ SendFails(t)
  \/ FlushSent \/ FlushFails
  \/ HostCrash

Spec == Init /\ [][Next]_vars

\* Fairness: dialling and sending settle, and a socket that is made again and
\* again opens in the end.
FairSpec ==
  /\ Spec
  /\ WF_vars(Dialled \/ DialFails)
  /\ SF_vars(Opened)
  /\ WF_vars(FlushSent \/ FlushFails)
  /\ \A t \in Texts : WF_vars(Sent(t) \/ SendFails(t))
-----------------------------------------------------------------------------
(* Properties *)

\* The types; the queue and the flush hold exactly the texts that were taken, each
\* once, and flushing is true exactly while an item is being sent.
TypeOK ==
  /\ link \in {"setup", "reconnect", "retry", "made", "open", "loggedOut", "dead"}
  /\ ready \in BOOLEAN /\ (link = "open" => ready)
  /\ queue \in Seq(Texts) /\ \A i, j \in DOMAIN queue : queue[i] = queue[j] => i = j
  /\ flushing \in BOOLEAN /\ hand \in Texts \cup {NoText} /\ (flushing <=> hand # NoText)
  /\ stage \in [Texts -> {"new", "sending", "taken", "done", "dropped", "gone"}]
  /\ {t \in Texts : stage[t] = "taken"} = Queued \cup ({hand} \cap Texts)
  /\ hand \notin Queued
  /\ failed \in BOOLEAN
  /\ shown \in [Texts -> Nat]
  /\ opens \in 0..MaxOpens /\ crashes \in 0..MaxCrash

\* The chat shows a text twice at most when the first send throws although the
\* text arrived, and once more for each crash of the host: neither the queue nor
\* the retries of the host send it a third time.
ShownAtMostTwice == \A t \in Texts : shown[t] <= 2 + crashes

Dropped == {t \in Texts : stage[t] = "dropped"}

\* While the host lives, a text that it counts as delivered was shown, waits, or
\* was dropped by a flush; every connection drops one at most.
LossesAreBounded ==
  /\ \A t \in Texts : stage[t] = "done" => shown[t] > 0
  /\ \A t \in Texts : stage[t] = "gone" => crashes > 0
  /\ Cardinality(Dropped) <= opens

\* With an open connection, and no flush, texts are left in the queue only after
\* a send of this connection threw.
StrandedByFailure ==
  Connected /\ ~flushing /\ queue # <<>> => failed

\* A text leaves the queue, unless a send throws on an open connection, both
\* attempts to reconnect fail, or the account is logged out.
QueuedLeaves ==
  \A t \in Texts :
    t \in Queued ~> t \notin Queued \/ failed \/ link \in {"dead", "loggedOut"}
=============================================================================
