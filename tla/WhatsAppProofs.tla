--------------------------- MODULE WhatsAppProofs ---------------------------
(* Proofs of the safety properties of WhatsApp, for every value of its         *)
(* constants.                                                                  *)
EXTENDS WhatsApp, FiniteSetTheorems, TLAPS

Elements(q) == {q[i] : i \in DOMAIN q}
Distinct(q) == \A i, j \in DOMAIN q : q[i] = q[j] => i = j

\* What the queue holds after a push and after a shift.
LEMMA AppendElements ==
  ASSUME NEW S, NEW q \in Seq(S), NEW t \in S
  PROVE  /\ Append(q, t) \in Seq(S)
         /\ Elements(Append(q, t)) = Elements(q) \cup {t}
         /\ Distinct(q) /\ t \notin Elements(q) => Distinct(Append(q, t))
<1> DEFINE r == Append(q, t)
<1>1. r \in Seq(S) /\ Len(r) = Len(q) + 1 /\ r[Len(q) + 1] = t
      /\ \A i \in 1..Len(q) : r[i] = q[i]
  OBVIOUS
<1>2. DOMAIN r = 1..(Len(q) + 1) /\ DOMAIN q = 1..Len(q) /\ Len(q) \in Nat
  BY <1>1
<1>3. Elements(r) = Elements(q) \cup {t}
  <2>1. Elements(r) \subseteq Elements(q) \cup {t}
    BY <1>1, <1>2 DEF Elements
  <2>2. Elements(q) \cup {t} \subseteq Elements(r)
    BY <1>1, <1>2 DEF Elements
  <2>3. QED
    BY <2>1, <2>2
<1>4. Distinct(q) /\ t \notin Elements(q) => Distinct(r)
  BY <1>1, <1>2 DEF Elements, Distinct
<1>5. QED
  BY <1>1, <1>3, <1>4

LEMMA TailElements ==
  ASSUME NEW S, NEW q \in Seq(S), q # <<>>
  PROVE  /\ Head(q) \in S /\ Tail(q) \in Seq(S)
         /\ Elements(q) = Elements(Tail(q)) \cup {Head(q)}
         /\ Distinct(q) => Distinct(Tail(q)) /\ Head(q) \notin Elements(Tail(q))
<1> DEFINE r == Tail(q)
<1>1. /\ Head(q) \in S /\ r \in Seq(S) /\ Len(q) > 0 /\ Len(r) = Len(q) - 1 /\ Head(q) = q[1]
      /\ \A i \in 1..Len(r) : r[i] = q[i + 1]
  OBVIOUS
<1>2. DOMAIN r = 1..(Len(q) - 1) /\ DOMAIN q = 1..Len(q) /\ Len(q) \in Nat
  BY <1>1
<1>3. Elements(q) \subseteq Elements(r) \cup {Head(q)}
  <2>1. ASSUME NEW i \in DOMAIN q, i # 1 PROVE i - 1 \in DOMAIN r /\ r[i - 1] = q[i]
    BY <1>1, <1>2, <2>1
  <2>2. QED
    BY <1>1, <2>1 DEF Elements
<1>4. Elements(r) \cup {Head(q)} \subseteq Elements(q)
  BY <1>1, <1>2 DEF Elements
<1>5. Distinct(q) => Distinct(r) /\ Head(q) \notin Elements(r)
  BY <1>1, <1>2 DEF Elements, Distinct
<1>6. QED
  BY <1>1, <1>3, <1>4, <1>5

LEMMA Waiting ==
  TypeOK => /\ Queued = Elements(queue) /\ Distinct(queue)
            /\ Queued \subseteq Texts
BY DEF TypeOK, Queued, Elements, Distinct

\* The flush's step: its hand was empty or is just emptied, and the texts that are
\* taken are those of the queue.
LEMMA TakeNextTypes ==
  ASSUME TypeOK, TakeNext
  PROVE  /\ queue' \in Seq(Texts) /\ Distinct(queue')
         /\ flushing' \in BOOLEAN /\ hand' \in Texts \cup {NoText}
         /\ flushing' <=> hand' # NoText
         /\ Elements(queue') \cup ({hand'} \cap Texts) = Elements(queue)
         /\ hand' \notin Elements(queue')
         /\ ~flushing' => queue' = <<>>
<1>1. NoText \notin Texts
  BY ConstantsOK DEF NoText
<1>2. CASE queue = <<>>
  <2>1. queue' = <<>> /\ flushing' = FALSE /\ hand' = NoText
    BY <1>2 DEF TakeNext
  <2>2. queue' \in Seq(Texts)
    BY <2>1
  <2>3. Elements(queue') = {} /\ Elements(queue) = {} /\ Distinct(queue')
    BY <1>2, <2>1 DEF Elements, Distinct
  <2>4. QED
    BY <1>1, <2>1, <2>2, <2>3
<1>3. CASE queue # <<>>
  <2>1. queue' = Tail(queue) /\ hand' = Head(queue) /\ flushing' = TRUE
    BY <1>3 DEF TakeNext
  <2>2. queue \in Seq(Texts) /\ Distinct(queue)
    BY Waiting DEF TypeOK
  <2>3. QED
    BY <1>1, <1>3, <2>1, <2>2, TailElements
<1>4. QED
  BY <1>2, <1>3
-----------------------------------------------------------------------------
(* Types *)

\* The part of TypeOK that is about the texts in the adapter's hands.
Taken == {t \in Texts : stage[t] = "taken"}

HoldsTaken ==
  /\ queue \in Seq(Texts) /\ Distinct(queue)
  /\ flushing \in BOOLEAN /\ hand \in Texts \cup {NoText} /\ (flushing <=> hand # NoText)
  /\ Taken = Elements(queue) \cup ({hand} \cap Texts)
  /\ hand \notin Elements(queue)

Simple ==
  /\ link \in {"setup", "reconnect", "retry", "made", "open", "loggedOut", "dead"}
  /\ ready \in BOOLEAN /\ (link = "open" => ready)
  /\ stage \in [Texts -> {"new", "sending", "taken", "done", "dropped", "gone"}]
  /\ failed \in BOOLEAN
  /\ shown \in [Texts -> Nat]
  /\ opens \in 0..MaxOpens /\ crashes \in 0..MaxCrash

LEMMA TypeParts ==
  /\ TypeOK <=> HoldsTaken /\ Simple
  /\ TypeOK' <=> HoldsTaken' /\ Simple'
BY DEF TypeOK, HoldsTaken, Simple, Queued, Elements, Distinct, Taken

FlushStep == FlushSent \/ FlushFails

LEMMA SimpleNext ==
  ASSUME TypeOK, [Next]_vars
  PROVE  Simple'
<1> USE TypeParts DEF Simple
<1>1. CASE Dialled \/ DialFails \/ Opened \/ Closed
  <2>1. link' \in {"setup", "reconnect", "retry", "made", "open", "loggedOut", "dead"}
    BY <1>1 DEF Dialled, DialFails, Opened, Closed
  <2>2. ready' \in BOOLEAN /\ (link' = "open" => ready')
    BY <1>1 DEF Dialled, DialFails, Opened, Closed
  <2>3. opens' \in 0..MaxOpens
    BY <1>1, ConstantsOK DEF Dialled, DialFails, Opened, Closed
  <2>4. failed' \in BOOLEAN /\ UNCHANGED <<stage, shown, crashes>>
    BY <1>1 DEF Dialled, DialFails, Opened, Closed, outgoing
  <2>5. QED
    BY <2>1, <2>2, <2>3, <2>4
<1>2. ASSUME NEW t \in Texts, Deliver(t) \/ Sent(t) \/ SendFails(t) PROVE Simple'
  <2>1. /\ stage' \in [Texts -> {"new", "sending", "taken", "done", "dropped", "gone"}]
        /\ failed' \in BOOLEAN
    BY <1>2 DEF Deliver, Sent, SendFails
  <2>2. shown' \in [Texts -> Nat]
    BY <1>2 DEF Deliver, Sent, SendFails
  <2>3. UNCHANGED <<link, ready, opens, crashes>>
    BY <1>2 DEF Deliver, Sent, SendFails, connection
  <2>4. QED
    BY <2>1, <2>2, <2>3
<1>3. CASE FlushStep
  <2>1. hand \in Texts
    BY <1>3 DEF FlushStep, FlushSent, FlushFails, HoldsTaken
  <2>2. /\ stage' \in [Texts -> {"new", "sending", "taken", "done", "dropped", "gone"}]
        /\ failed' \in BOOLEAN
    BY <1>3 DEF FlushStep, FlushSent, FlushFails
  <2>3. shown' \in [Texts -> Nat]
    BY <1>3, <2>1 DEF FlushStep, FlushSent, FlushFails
  <2>4. UNCHANGED <<link, ready, opens, crashes>>
    BY <1>3 DEF FlushStep, FlushSent, FlushFails, connection
  <2>5. QED
    BY <2>2, <2>3, <2>4
<1>4. CASE HostCrash
  <2>1. stage' \in [Texts -> {"new", "sending", "taken", "done", "dropped", "gone"}]
    BY <1>4 DEF HostCrash
  <2>2. shown' \in [Texts -> Nat]
    BY <1>4 DEF HostCrash
  <2>3. /\ link' = "setup" /\ ready' = FALSE /\ failed' = FALSE /\ opens' = opens
        /\ crashes' \in 0..MaxCrash
    BY <1>4, ConstantsOK DEF HostCrash
  <2>4. QED
    BY <2>1, <2>2, <2>3
<1>5. CASE UNCHANGED vars
  BY <1>5 DEF vars
<1>6. QED
  BY <1>1, <1>2, <1>3, <1>4, <1>5 DEF Next, FlushStep

LEMMA HoldsNext ==
  ASSUME TypeOK, [Next]_vars
  PROVE  HoldsTaken'
<1>0. HoldsTaken /\ Simple /\ NoText \notin Texts
  BY TypeParts, ConstantsOK DEF NoText
<1>1. CASE UNCHANGED <<queue, flushing, hand>> /\ Taken' = Taken
  BY <1>0, <1>1 DEF HoldsTaken
<1>2. CASE Opened /\ ~flushing
  <2>1. TakeNext /\ Taken' = Taken
    BY <1>2 DEF Opened, Taken
  <2>2. Taken = Elements(queue)
    BY <1>0, <1>2 DEF HoldsTaken
  <2>3. QED
    BY <2>1, <2>2, TakeNextTypes DEF HoldsTaken
<1>3. ASSUME NEW t \in Texts, Deliver(t) \/ SendFails(t), stage'[t] = "taken" PROVE HoldsTaken'
  <2>1. queue' = Append(queue, t) /\ UNCHANGED <<flushing, hand>>
    BY <1>0, <1>3 DEF Deliver, SendFails, Simple
  <2>2. Taken' = Taken \cup {t}
    BY <1>0, <1>3 DEF Deliver, SendFails, Simple, Taken
  <2>3. t \notin Taken
    BY <1>3 DEF Deliver, SendFails, Taken
  <2>4. t \notin Elements(queue) /\ t # hand
    BY <1>0, <2>3 DEF HoldsTaken
  <2>5. /\ queue' \in Seq(Texts) /\ Elements(queue') = Elements(queue) \cup {t}
        /\ Distinct(queue')
    BY <1>0, <2>1, <2>4, AppendElements DEF HoldsTaken
  <2>6. QED
    BY <1>0, <2>1, <2>2, <2>4, <2>5 DEF HoldsTaken
<1>4. ASSUME NEW t \in Texts, Deliver(t) \/ Sent(t) \/ SendFails(t), stage'[t] # "taken"
      PROVE  HoldsTaken'
  <2>1. UNCHANGED <<queue, flushing, hand>>
    BY <1>0, <1>4 DEF Deliver, Sent, SendFails, Simple
  <2>2. Taken' = Taken
    BY <1>0, <1>4 DEF Deliver, Sent, SendFails, Simple, Taken
  <2>3. QED
    BY <1>1, <2>1, <2>2
<1>5. CASE FlushSent
  <2>1. hand \in Texts /\ TakeNext
    BY <1>0, <1>5 DEF FlushSent, HoldsTaken
  <2>2. Taken' = Taken \ {hand}
    BY <1>0, <1>5, <2>1 DEF FlushSent, Simple, Taken
  <2>3. Taken' = Elements(queue)
    BY <1>0, <2>1, <2>2 DEF HoldsTaken
  <2>4. QED
    BY <2>1, <2>3, TakeNextTypes DEF HoldsTaken
<1>6. CASE FlushFails
  <2>1. hand \in Texts /\ hand' = NoText /\ flushing' = FALSE /\ queue' = queue
    BY <1>0, <1>6 DEF FlushFails, HoldsTaken
  <2>2. Taken' = Taken \ {hand}
    BY <1>0, <1>6, <2>1 DEF FlushFails, Simple, Taken
  <2>3. NoText \notin Elements(queue)
    BY <1>0, Waiting
  <2>4. QED
    BY <1>0, <2>1, <2>2, <2>3 DEF HoldsTaken
<1>7. CASE HostCrash
  <2>1. queue' = <<>> /\ flushing' = FALSE /\ hand' = NoText
    BY <1>7 DEF HostCrash
  <2>2. Taken' = {}
    BY <1>7 DEF HostCrash, Taken
  <2>3. queue' \in Seq(Texts) /\ Elements(queue') = {} /\ Distinct(queue')
    BY <2>1 DEF Elements, Distinct
  <2>4. QED
    BY <1>0, <2>1, <2>2, <2>3 DEF HoldsTaken
<1>8. CASE Dialled \/ DialFails \/ Closed \/ (Opened /\ flushing) \/ UNCHANGED vars
  <2>1. UNCHANGED <<queue, flushing, hand, stage>>
    BY <1>8 DEF Dialled, DialFails, Closed, Opened, outgoing, vars
  <2>2. QED
    BY <1>1, <2>1 DEF Taken
<1>9. QED
  <2>1. ASSUME NEW t \in Texts, Deliver(t) \/ Sent(t) \/ SendFails(t) PROVE HoldsTaken'
    BY <1>0, <1>3, <1>4, <2>1 DEF Sent, Simple
  <2>2. QED
    BY <1>2, <1>5, <1>6, <1>7, <1>8, <2>1 DEF Next
-----------------------------------------------------------------------------
(* The invariant *)

\* How often the chat may show a text, by where it is: the crashes that it saw on
\* its way, and one for the send of the host, one for the flush.
Budget ==
  \A t \in Texts :
    shown[t] <= crashes + (CASE stage[t] \in {"new", "sending"} -> 0
                             [] stage[t] = "taken" -> 1
                             [] OTHER -> 2)

OutcomesAreTrue ==
  /\ \A t \in Texts : stage[t] = "done" => shown[t] > 0
  /\ \A t \in Texts : stage[t] = "gone" => crashes > 0

\* Every open starts one flush at most, and a flush drops one text at most.
DropsAreBounded == Cardinality(Dropped) + (IF flushing THEN 1 ELSE 0) <= opens

IInv == TypeOK /\ Budget /\ OutcomesAreTrue /\ DropsAreBounded /\ StrandedByFailure

LEMMA InitIInv == Init => IInv
<1> SUFFICES ASSUME Init PROVE IInv
  OBVIOUS
<1>0. NoText \notin Texts
  BY ConstantsOK DEF NoText
<1>1. Simple
  <2>1. opens \in 0..MaxOpens /\ crashes \in 0..MaxCrash
    BY ConstantsOK DEF Init
  <2>2. /\ stage \in [Texts -> {"new", "sending", "taken", "done", "dropped", "gone"}]
        /\ shown \in [Texts -> Nat]
    BY DEF Init
  <2>3. QED
    BY <2>1, <2>2 DEF Init, Simple
<1>2. HoldsTaken
  <2>1. queue = <<>> /\ flushing = FALSE /\ hand = NoText /\ Taken = {}
    BY DEF Init, Taken
  <2>2. queue \in Seq(Texts) /\ Elements(queue) = {} /\ Distinct(queue)
    BY <2>1 DEF Elements, Distinct
  <2>3. QED
    BY <1>0, <2>1, <2>2 DEF HoldsTaken
<1>3. Budget /\ OutcomesAreTrue /\ StrandedByFailure
  BY DEF Init, Budget, OutcomesAreTrue, StrandedByFailure, Connected
<1>4. Dropped = {}
  BY DEF Init, Dropped
<1>5. DropsAreBounded
  BY <1>4, FS_EmptySet DEF Init, DropsAreBounded
<1>6. QED
  BY <1>1, <1>2, <1>3, <1>5, TypeParts DEF IInv

LEMMA BudgetNext ==
  ASSUME IInv, [Next]_vars
  PROVE  Budget' /\ OutcomesAreTrue'
<1> USE TypeParts DEF IInv, Simple, Budget, OutcomesAreTrue
<1>1. ASSUME NEW t \in Texts, Deliver(t) \/ Sent(t) \/ SendFails(t)
      PROVE  Budget' /\ OutcomesAreTrue'
  <2>1. crashes' = crashes /\ crashes \in Nat /\ \A u \in Texts : shown[u] \in Nat
    BY <1>1, ConstantsOK DEF Deliver, Sent, SendFails
  <2>2. \A u \in Texts \ {t} : stage'[u] = stage[u] /\ shown'[u] = shown[u]
    BY <1>1 DEF Deliver, Sent, SendFails
  <2>3. stage[t] \in {"new", "sending"} /\ shown[t] <= crashes
    BY <1>1, <2>1 DEF Deliver, Sent, SendFails
  <2>4. \/ stage'[t] \in {"sending", "taken"} /\ shown'[t] = shown[t]
        \/ stage'[t] \in {"taken", "done"} /\ shown'[t] = shown[t] + 1
    BY <1>1 DEF Deliver, Sent, SendFails
  <2>5. QED
    BY <2>1, <2>2, <2>3, <2>4
<1>2. CASE FlushStep
  <2>1. hand \in Texts /\ stage[hand] = "taken"
    BY <1>2 DEF FlushStep, FlushSent, FlushFails, HoldsTaken, Taken
  <2>2. QED
    BY <1>2, <2>1 DEF FlushStep, FlushSent, FlushFails
<1>3. CASE HostCrash
  <2>1. crashes' = crashes + 1 /\ crashes \in Nat
    BY <1>3, ConstantsOK DEF HostCrash
  <2>2. ASSUME NEW t \in Texts
        PROVE  /\ shown'[t] \in {shown[t], shown[t] + 1}
               /\ shown'[t] = shown[t] \/ stage[t] = "sending" \/ t = hand
    <3>1. PICK seen \in SUBSET InFlight :
            shown' = [u \in Texts |-> IF u \in seen THEN shown[u] + 1 ELSE shown[u]]
      BY <1>3 DEF HostCrash
    <3>2. shown'[t] = IF t \in seen THEN shown[t] + 1 ELSE shown[t]
      BY <3>1
    <3>3. t \in seen => stage[t] = "sending" \/ t = hand
      BY <3>1 DEF InFlight
    <3>4. QED
      BY <3>2, <3>3
  <2>3. \A t \in Texts : t = hand => stage[t] = "taken"
    BY DEF HoldsTaken, Taken
  <2>4. ASSUME NEW t \in Texts
        PROVE  \/ stage[t] = "sending" /\ stage'[t] = "new"
               \/ stage[t] = "taken" /\ stage'[t] = "gone"
               \/ stage[t] \notin {"sending", "taken"} /\ stage'[t] = stage[t]
    <3>1. stage'[t] = CASE stage[t] = "sending" -> "new"
                        [] stage[t] = "taken" -> "gone"
                        [] OTHER -> stage[t]
      BY <1>3 DEF HostCrash
    <3>2. QED
      BY <3>1
  <2>5. \A t \in Texts : shown[t] \in Nat
    OBVIOUS
  <2>6. QED
    BY <2>1, <2>2, <2>3, <2>4, <2>5
<1>4. CASE Dialled \/ DialFails \/ Opened \/ Closed \/ UNCHANGED vars
  BY <1>4 DEF Dialled, DialFails, Opened, Closed, outgoing, vars
<1>5. QED
  BY <1>1, <1>2, <1>3, <1>4 DEF Next, FlushStep

LEMMA DroppedFinite ==
  ASSUME NEW x
  PROVE  /\ IsFiniteSet(Dropped) /\ Cardinality(Dropped) \in Nat
         /\ Cardinality(Dropped \cup {x}) <= Cardinality(Dropped) + 1
BY ConstantsOK, FS_Subset, FS_AddElement, FS_CardinalityType DEF Dropped

LEMMA DropsNext ==
  ASSUME IInv, [Next]_vars
  PROVE  DropsAreBounded'
<1> USE TypeParts DEF IInv, Simple, DropsAreBounded
<1>0. Cardinality(Dropped) \in Nat /\ opens \in Nat /\ flushing \in BOOLEAN
  <2>1. Cardinality(Dropped) \in Nat
    BY DroppedFinite
  <2>2. opens \in Nat /\ flushing \in BOOLEAN
    BY ConstantsOK DEF HoldsTaken
  <2>3. QED
    BY <2>1, <2>2
<1>1. ASSUME Dropped' = Dropped, opens' = opens, flushing' \in BOOLEAN, flushing' => flushing
      PROVE  DropsAreBounded'
  BY <1>0, <1>1
<1>2. CASE Opened
  <2>1. Dropped' = Dropped /\ opens' = opens + 1
    BY <1>2 DEF Opened, Dropped
  <2>2. flushing' \in BOOLEAN
    BY HoldsNext DEF HoldsTaken
  <2>3. flushing => flushing'
    BY <1>2 DEF Opened
  <2>4. QED
    BY <1>0, <2>1, <2>2, <2>3
<1>3. CASE FlushFails
  <2>1. Dropped' = Dropped \cup {hand} /\ flushing' = FALSE /\ flushing = TRUE /\ opens' = opens
    BY <1>3 DEF FlushFails, Dropped, HoldsTaken, connection
  <2>2. Cardinality(Dropped') <= Cardinality(Dropped) + 1
    BY <2>1, DroppedFinite
  <2>3. Cardinality(Dropped') \in Nat
    BY ConstantsOK, FS_Subset, FS_CardinalityType DEF Dropped
  <2>4. QED
    BY <1>0, <2>1, <2>2, <2>3
<1>4. CASE FlushSent
  <2>1. Dropped' = Dropped
    BY <1>4 DEF FlushSent, Dropped, HoldsTaken, Taken
  <2>2. opens' = opens /\ flushing = TRUE
    BY <1>4 DEF FlushSent, connection, HoldsTaken
  <2>3. flushing' \in BOOLEAN
    BY HoldsNext DEF HoldsTaken
  <2>4. QED
    BY <1>1, <2>1, <2>2, <2>3
<1>5. CASE HostCrash
  <2>1. Dropped' = Dropped /\ opens' = opens /\ flushing' = FALSE
    BY <1>5 DEF HostCrash, Dropped
  <2>2. QED
    BY <1>1, <2>1
<1>6. ASSUME NEW t \in Texts, Deliver(t) \/ Sent(t) \/ SendFails(t) PROVE DropsAreBounded'
  <2>1. Dropped' = Dropped /\ opens' = opens /\ flushing' = flushing
    BY <1>6 DEF Deliver, Sent, SendFails, Dropped, connection
  <2>2. QED
    BY <1>0, <1>1, <2>1
<1>7. CASE Dialled \/ DialFails \/ Closed \/ UNCHANGED vars
  <2>1. Dropped' = Dropped /\ opens' = opens /\ flushing' = flushing
    BY <1>7 DEF Dialled, DialFails, Closed, Dropped, outgoing, vars
  <2>2. QED
    BY <1>0, <1>1, <2>1
<1>8. QED
  BY <1>2, <1>3, <1>4, <1>5, <1>6, <1>7 DEF Next

LEMMA StrandedNext ==
  ASSUME IInv, [Next]_vars
  PROVE  StrandedByFailure'
<1> USE TypeParts DEF IInv, StrandedByFailure, Connected
<1>1. ASSUME NEW t \in Texts, Deliver(t) \/ Sent(t) \/ SendFails(t) PROVE StrandedByFailure'
  BY <1>1 DEF Deliver, Sent, SendFails, connection
<1>2. CASE Opened
  <2>1. flushing' \/ TakeNext
    BY <1>2 DEF Opened
  <2>2. QED
    BY <2>1, TakeNextTypes
<1>3. CASE FlushSent
  BY <1>3, TakeNextTypes DEF FlushSent
<1>4. CASE FlushFails
  BY <1>4 DEF FlushFails
<1>5. CASE HostCrash
  BY <1>5 DEF HostCrash
<1>6. CASE Dialled \/ DialFails \/ Closed
  BY <1>6 DEF Dialled, DialFails, Closed
<1>7. CASE UNCHANGED vars
  BY <1>7 DEF vars
<1>8. QED
  BY <1>1, <1>2, <1>3, <1>4, <1>5, <1>6, <1>7 DEF Next

LEMMA Invariance == Spec => []IInv
<1>1. IInv /\ [Next]_vars => IInv'
  BY HoldsNext, SimpleNext, TypeParts, BudgetNext, DropsNext, StrandedNext DEF IInv
<1>2. QED
  BY <1>1, InitIInv, PTL DEF Spec
-----------------------------------------------------------------------------
(* Theorems *)

\* The adapter's variables keep their types: the queue and the hand of the flush
\* hold each text that was taken exactly once.
THEOREM TypesHold == Spec => []TypeOK
<1>1. IInv => TypeOK
  BY DEF IInv
<1>2. QED
  BY <1>1, Invariance, PTL

\* Neither the queue, the flush nor a crash of the host shows a text more than
\* twice, plus once for each crash.
THEOREM RepeatsAreBounded == Spec => []ShownAtMostTwice
<1>1. IInv => ShownAtMostTwice
  BY TypeParts, ConstantsOK DEF IInv, Budget, ShownAtMostTwice, Simple
<1>2. QED
  BY <1>1, Invariance, PTL

\* flushOutgoingQueue loses one text at most for each connection that opens.
THEOREM FewAreLost == Spec => []LossesAreBounded
<1>1. IInv => LossesAreBounded
  <2>1. ASSUME IInv PROVE Cardinality(Dropped) <= opens
    <3>1. Cardinality(Dropped) \in Nat
      BY DroppedFinite
    <3>2. opens \in Nat
      BY <2>1, TypeParts, ConstantsOK DEF IInv, Simple
    <3>3. QED
      BY <2>1, <3>1, <3>2 DEF IInv, DropsAreBounded
  <2>2. QED
    BY <2>1 DEF IInv, OutcomesAreTrue, LossesAreBounded
<1>2. QED
  BY <1>1, Invariance, PTL

\* An open and idle connection has an empty queue unless one of its sends threw.
THEOREM OnlyFailuresStrand == Spec => []StrandedByFailure
<1>1. IInv => StrandedByFailure
  BY DEF IInv
<1>2. QED
  BY <1>1, Invariance, PTL
=====
