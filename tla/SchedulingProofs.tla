--------------------------- MODULE SchedulingProofs ---------------------------
(* Proofs of the safety properties of Scheduling, for every value of its      *)
(* constants.                                                                 *)
EXTENDS Scheduling, FiniteSetTheorems, TLAPS

\* What the sweep has read is still completed and recurring, and nothing of
\* the series exists before its first insert is applied.
Fresh ==
  /\ todo \subseteq CompletedRecurring
  /\ asked = "none" => /\ Alive = {}
                       /\ asks # <<>>
                       /\ Head(asks) \in {"schedule", "scheduleOnce"}

\* Nobody has acked a row that does not exist or was given up, or is about to
\* claim it: a sync of acks does not bring it back.
Unacked ==
  \A o \in Rows : row[o] \in {"absent", "failed"} => ack[o] = "none" /\ o \notin seen

Chains == Cardinality(Alive) <= 1 + crashes

\* The next occurrence n of o is inserted, and o stops recurring or the host
\* dies first.
InsertsNext(o, n) ==
  /\ row' = [row EXCEPT ![n] = "pending"]
  /\ ack' = [ack EXCEPT ![n] = "none"]
  /\ later' = later \cup {n}
  /\ \/ /\ recurs' = [recurs EXCEPT ![n] = TRUE, ![o] = FALSE]
        /\ todo' = todo \ {o}
        /\ UNCHANGED <<sweep, hostUp, crashes>>
     \/ /\ recurs' = [recurs EXCEPT ![n] = TRUE]
        /\ HostDies
  /\ UNCHANGED <<seen, asks, asked>>

LEMMA FollowUpInserts ==
  ASSUME NEW o \in Rows, FollowUp(o)
  PROVE  o \in todo /\ \E n \in Spent : InsertsNext(o, n)
BY DEF FollowUp, InsertsNext

\* The inductive invariant.
IInv == TypeOK /\ Fresh /\ Unacked /\ Chains

LEMMA InitIInv == Init => IInv
<1> SUFFICES ASSUME Init PROVE IInv
  OBVIOUS
<1>1. Alive = {}
  BY DEF Init, Alive, Live, CompletedRecurring
<1>2. TypeOK
  <2>1. asks \in Seq(Requests) /\ Len(asks) <= MaxAsks
    <3>1. PICK r \in {"schedule", "scheduleOnce"} : asks = <<r>>
      BY DEF Init
    <3>2. r \in Requests /\ <<r>> \in Seq(Requests) /\ Len(<<r>>) = 1
      BY <3>1 DEF Requests
    <3>3. 1 <= MaxAsks
      BY ConstantsOK
    <3>4. QED
      BY <3>1, <3>2, <3>3
  <2>2. QED
    BY <2>1, ConstantsOK DEF Init, TypeOK
<1>3. Fresh
  BY <1>1 DEF Init, Fresh, CompletedRecurring
<1>4. Unacked
  BY DEF Init, Unacked
<1>5. Chains
  BY <1>1, FS_EmptySet, ConstantsOK DEF Init, Chains
<1>6. QED
  BY <1>2, <1>3, <1>4, <1>5 DEF IInv
-----------------------------------------------------------------------------
(* Types *)

LEMMA HandleType ==
  ASSUME TypeOK, NEW r \in Requests, Handle(r)
  PROVE  /\ row' \in [Rows -> {"absent", "pending", "paused", "completed", "failed"}]
         /\ recurs' \in [Rows -> BOOLEAN]
         /\ later' \subseteq Rows
         /\ ack' \in [Rows -> {"none", "processing", "completed"}]
         /\ asked' \in {"none", "run", "paused", "cancelled"}
<1>1. ASSUME NEW b \in BOOLEAN, InsertTask(b)
      PROVE  /\ row' \in [Rows -> {"absent", "pending", "paused", "completed", "failed"}]
             /\ recurs' \in [Rows -> BOOLEAN]
             /\ later' \subseteq Rows
             /\ ack' \in [Rows -> {"none", "processing", "completed"}]
             /\ asked' \in {"none", "run", "paused", "cancelled"}
  <2>1. CASE asked = "none"
    <3>1. PICK o \in Spent : InsertRow(o, b) /\ later' \in {later, later \cup {o}}
      BY <1>1, <2>1 DEF InsertTask
    <3>2. o \in Rows
      BY DEF Spent
    <3>3. QED
      BY <1>1, <2>1, <3>1, <3>2 DEF TypeOK, InsertTask, InsertRow
  <2>2. CASE asked # "none"
    BY <1>1, <2>2 DEF TypeOK, InsertTask, series
  <2>3. QED
    BY <2>1, <2>2
<1>2. CASE CancelTask
  BY <1>2 DEF TypeOK, CancelTask, Status, Recurrence
<1>3. CASE PauseTask
  BY <1>3 DEF TypeOK, PauseTask, Status
<1>4. CASE ResumeTask
  BY <1>4 DEF TypeOK, ResumeTask, Status
<1>5. CASE UpdateTask(r)
  BY <1>5 DEF TypeOK, UpdateTask, Recurrence, Live
<1>6. QED
  BY <1>1, <1>2, <1>3, <1>4, <1>5 DEF Handle

LEMMA DiesType ==
  ASSUME TypeOK, HostDies \/ UNCHANGED <<sweep, todo, hostUp, crashes>>
  PROVE  /\ sweep' \in {"idle", "synced", "recur", "fan"}
         /\ todo' \subseteq Rows
         /\ hostUp' \in BOOLEAN
         /\ crashes' \in 0..MaxCrash
<1>1. CASE HostDies
  <2>1. crashes + 1 \in 0..MaxCrash
    BY <1>1, ConstantsOK DEF TypeOK, HostDies
  <2>2. QED
    BY <1>1, <2>1 DEF HostDies
<1>2. CASE UNCHANGED <<sweep, todo, hostUp, crashes>>
  BY <1>2 DEF TypeOK
<1>3. QED
  BY <1>1, <1>2

LEMMA StepType == ASSUME TypeOK, [Next]_vars PROVE TypeOK'
<1>1. CASE \E r \in Changes : Ask(r)
  <2>1. PICK r \in Changes : Ask(r)
    BY <1>1
  <2>2. asks' \in Seq(Requests) /\ Len(asks') <= MaxAsks
    BY <2>1, ConstantsOK DEF TypeOK, Ask, Requests
  <2>3. QED
    BY <2>1, <2>2 DEF TypeOK, Ask, series, host
<1>2. CASE \E o \in Rows : Elapse(o)
  BY <1>2 DEF TypeOK, Elapse, host
<1>3. CASE Read \/ Take
  BY <1>3 DEF TypeOK, Read, Take, Pending, series, host
<1>4. CASE \E o \in Rows : Finish(o)
  BY <1>4 DEF TypeOK, Finish, series, host
<1>5. CASE ClearStaleClaims
  BY <1>5 DEF TypeOK, ClearStaleClaims, ClaimsGone, series, host
<1>6. CASE Deliver
  <2>1. asks # <<>> /\ Head(asks) \in Requests /\ Handle(Head(asks))
    BY <1>6 DEF TypeOK, Deliver
  <2>2. asks' \in Seq(Requests) /\ Len(asks') <= MaxAsks
    <3>1. Tail(asks) \in Seq(Requests) /\ Len(Tail(asks)) <= MaxAsks
      BY <2>1, ConstantsOK DEF TypeOK
    <3>2. QED
      BY <1>6, <3>1 DEF Deliver, TypeOK
  <2>3. /\ sweep' \in {"idle", "synced", "recur", "fan"}
        /\ todo' \subseteq Rows
        /\ hostUp' \in BOOLEAN
        /\ crashes' \in 0..MaxCrash
    BY <1>6, DiesType DEF Deliver, host
  <2>4. seen' = seen
    BY <1>6 DEF Deliver
  <2>5. QED
    BY <2>1, <2>2, <2>3, <2>4, HandleType DEF TypeOK
<1>7. CASE SyncProcessingAcks
  BY <1>7 DEF TypeOK, SyncProcessingAcks
<1>8. CASE CheckContainer
  BY <1>8 DEF TypeOK, CheckContainer, ResetClaims, ClaimsGone, Status, Pending
<1>9. CASE ReadRecurring
  BY <1>9 DEF TypeOK, ReadRecurring, CompletedRecurring, series
<1>10. CASE \E o \in Rows : FollowUp(o)
  <2>1. PICK o \in Rows : FollowUp(o)
    BY <1>10
  <2>2. PICK n \in Spent : InsertsNext(o, n)
    BY <2>1, FollowUpInserts
  <2>3. n \in Rows
    BY DEF Spent
  <2>4. CASE HostDies
    BY <2>2, <2>3, <2>4, DiesType DEF TypeOK, InsertsNext
  <2>5. CASE todo' = todo \ {o} /\ UNCHANGED <<sweep, hostUp, crashes>>
    BY <2>2, <2>3, <2>5 DEF TypeOK, InsertsNext
  <2>6. QED
    BY <2>2, <2>4, <2>5 DEF InsertsNext
<1>11. CASE SweepEnd
  BY <1>11 DEF TypeOK, SweepEnd, series
<1>12. CASE HostCrash
  BY <1>12, DiesType DEF TypeOK, HostCrash, series
<1>13. CASE HostStart
  BY <1>13 DEF TypeOK, HostStart, series
<1>14. CASE UNCHANGED vars
  BY <1>14 DEF TypeOK, vars
<1>15. QED
  BY <1>1, <1>2, <1>3, <1>4, <1>5, <1>6, <1>7, <1>8, <1>9, <1>10, <1>11,
     <1>12, <1>13, <1>14 DEF Next

\* Every variable of a series' schedule keeps its type.
THEOREM SchedulingTypeCorrect == Spec => []TypeOK
<1>1. Init => TypeOK
  BY InitIInv DEF IInv
<1>2. TypeOK /\ [Next]_vars => TypeOK'
  BY StepType
<1>3. QED
  BY <1>1, <1>2, PTL DEF Spec
-----------------------------------------------------------------------------
(* What a step does to the rows that keep the series going *)

\* The first insert: before it, nothing of the series exists.
Begins == /\ asked = "none" /\ asked' # "none"
          /\ \E n \in Rows : Alive' \subseteq {n} /\ n \in Alive'

\* An occurrence is replaced by its successor.
Succeeds == \E o \in Alive, n \in Rows \ Alive :
              Alive' = (Alive \ {o}) \cup {n} /\ crashes' = crashes

\* A crash leaves both.
Forks == \E o \in Alive, n \in Rows \ Alive :
           Alive' = Alive \cup {n} /\ crashes' = crashes + 1

LEMMA RowsKept ==
  ASSUME row' = row, recurs' = recurs
  PROVE  Live' = Live /\ CompletedRecurring' = CompletedRecurring /\ Alive' = Alive
BY DEF Live, CompletedRecurring, Alive

LEMMA HandleAlive ==
  ASSUME TypeOK, Fresh, NEW r \in Requests, Handle(r)
  PROVE  /\ Alive' \subseteq Alive \/ Begins
         /\ todo \subseteq CompletedRecurring'
         /\ asked # "none" => asked' # "none"
         /\ r \notin {"cancel", "schedule", "scheduleOnce"} => Alive \subseteq Alive'
         /\ r \in {"schedule", "scheduleOnce"} /\ asked = "none" => Begins
         /\ r \in {"schedule", "scheduleOnce"} /\ asked # "none" => Alive' = Alive
<1>1. CASE r \in {"schedule", "scheduleOnce"}
  <2>1. PICK b \in BOOLEAN : InsertTask(b)
    BY <1>1 DEF Handle
  <2>2. CASE asked # "none"
    BY <1>1, <2>1, <2>2, RowsKept DEF InsertTask, series, Fresh
  <2>3. CASE asked = "none"
    <3>1. PICK n \in Spent : InsertRow(n, b)
      BY <2>1, <2>3 DEF InsertTask
    <3>2. n \in Rows /\ asked' = "run"
      BY <2>1, <2>3 DEF Spent, InsertTask
    <3>3. Alive = {} /\ todo = {}
      BY <2>3 DEF Fresh, Alive
    <3>4. Alive' \subseteq {n} /\ n \in Alive'
      BY <3>1, <3>2, <3>3 DEF InsertRow, Alive, Live, CompletedRecurring, TypeOK
    <3>5. QED
      BY <1>1, <2>3, <3>2, <3>3, <3>4 DEF Begins
  <2>4. QED
    BY <2>2, <2>3
<1>2. CASE r = "cancel" /\ CancelTask
  <2>1. Alive' \subseteq Alive /\ CompletedRecurring \subseteq CompletedRecurring'
    BY <1>2 DEF CancelTask, Status, Recurrence, Alive, Live, CompletedRecurring, TypeOK
  <2>2. QED
    BY <1>2, <2>1 DEF CancelTask, Fresh
<1>3. CASE r = "pause" /\ PauseTask
  <2>1. Alive' = Alive /\ CompletedRecurring \subseteq CompletedRecurring'
    BY <1>3 DEF PauseTask, Status, Pending, Alive, Live, CompletedRecurring, TypeOK
  <2>2. QED
    BY <1>3, <2>1 DEF PauseTask, Fresh
<1>4. CASE r = "resume" /\ ResumeTask
  <2>1. Alive' = Alive /\ CompletedRecurring \subseteq CompletedRecurring'
    BY <1>4 DEF ResumeTask, Status, Paused, Alive, Live, CompletedRecurring, TypeOK
  <2>2. QED
    BY <1>4, <2>1 DEF ResumeTask, Fresh
<1>5. CASE r \in {"once", "recur", "delay"} /\ UpdateTask(r)
  <2>1. row' = row /\ asked' = asked
    BY <1>5 DEF UpdateTask
  <2>2. \A o \in Rows \ Live : recurs'[o] = recurs[o]
    BY <1>5 DEF UpdateTask, Recurrence, TypeOK
  <2>3. Alive' = Alive /\ CompletedRecurring \subseteq CompletedRecurring'
    BY <2>1, <2>2 DEF Alive, Live, CompletedRecurring
  <2>4. QED
    BY <1>5, <2>1, <2>3 DEF Fresh
<1>6. QED
  BY <1>1, <1>2, <1>3, <1>4, <1>5 DEF Handle

LEMMA FollowUpAlive ==
  ASSUME TypeOK, Fresh, NEW o \in Rows, FollowUp(o)
  PROVE  /\ o \in Alive /\ Alive' # {}
         /\ Succeeds \/ Forks
         /\ todo' \subseteq CompletedRecurring'
<1>1. PICK n \in Spent : InsertsNext(o, n)
  BY FollowUpInserts
<1>2. o \in todo /\ o \in CompletedRecurring /\ o \in Alive /\ n \in Rows /\ n \notin Alive /\ n # o
  BY FollowUpInserts DEF Fresh, Alive, Spent
<1>3. n \in Alive'
  BY <1>1, <1>2 DEF InsertsNext, Alive, Live, TypeOK
<1>4. CASE recurs' = [recurs EXCEPT ![n] = TRUE, ![o] = FALSE] /\ todo' = todo \ {o} /\ crashes' = crashes
  <2>1. Alive' = (Alive \ {o}) \cup {n}
    BY <1>1, <1>2, <1>4 DEF InsertsNext, Alive, Live, CompletedRecurring, TypeOK
  <2>2. todo' \subseteq CompletedRecurring'
    BY <1>1, <1>2, <1>4 DEF InsertsNext, Alive, CompletedRecurring, TypeOK, Fresh
  <2>3. QED
    BY <1>2, <1>3, <2>1, <2>2, <1>4 DEF Succeeds
<1>5. CASE recurs' = [recurs EXCEPT ![n] = TRUE] /\ HostDies
  <2>1. Alive' = Alive \cup {n}
    BY <1>1, <1>2, <1>5 DEF InsertsNext, Alive, Live, CompletedRecurring, TypeOK
  <2>2. QED
    BY <1>2, <1>3, <1>5, <2>1 DEF Forks, HostDies
<1>6. QED
  BY <1>1, <1>4, <1>5 DEF InsertsNext

LEMMA SyncAlive ==
  ASSUME TypeOK, Fresh, Unacked, SyncProcessingAcks
  PROVE  Alive' \subseteq Alive /\ todo' \subseteq CompletedRecurring'
<1>1. \A o \in Rows : row'[o] = row[o] \/ (row'[o] = "completed" /\ ack[o] = "completed")
  BY DEF SyncProcessingAcks
<1>2. recurs' = recurs /\ todo' = todo
  BY DEF SyncProcessingAcks
<1>3. CompletedRecurring \subseteq CompletedRecurring'
  BY <1>1, <1>2 DEF CompletedRecurring
<1>4. \A o \in Rows : ack[o] = "completed" => row[o] \in {"pending", "paused", "completed"}
  BY DEF Unacked, TypeOK
<1>5. Alive' \subseteq Alive
  BY <1>1, <1>2, <1>4 DEF Alive, Live, CompletedRecurring
<1>6. QED
  BY <1>2, <1>3, <1>5 DEF Fresh

LEMMA CheckAlive ==
  ASSUME TypeOK, Fresh, CheckContainer
  PROVE  /\ Alive' \subseteq Alive /\ todo' \subseteq CompletedRecurring'
         /\ \A o \in Alive : o \notin Alive' => o \in Pending /\ row'[o] = "failed"
<1>1. recurs' = recurs /\ todo' = todo
  BY DEF CheckContainer
<1>2. \A o \in Rows : row'[o] = row[o] \/ (o \in Pending /\ row'[o] = "failed")
  BY DEF CheckContainer, ResetClaims, Status, Pending
<1>3. QED
  BY <1>1, <1>2 DEF Alive, Live, CompletedRecurring, Pending, Fresh

\* Every step but those of the requests and of the follow-ups.
LEMMA QuietSteps ==
  ASSUME TypeOK, Fresh, [Next]_vars, ~Deliver, ~SyncProcessingAcks, ~CheckContainer,
         \A o \in Rows : ~FollowUp(o)
  PROVE  /\ row' = row /\ recurs' = recurs /\ asked' = asked
         /\ crashes' = crashes \/ crashes' = crashes + 1
         /\ todo' \subseteq CompletedRecurring
         /\ asks' = asks \/ \E r \in Changes : asks' = Append(asks, r)
BY DEF Next, vars, Ask, Elapse, Read, Take, Finish, ClearStaleClaims, ReadRecurring, SweepEnd,
       HostCrash, HostStart, HostDies, series, host, Fresh
-----------------------------------------------------------------------------
(* The inductive invariant *)

LEMMA FreshStep == ASSUME TypeOK, Fresh, Unacked, [Next]_vars PROVE Fresh'
<1>1. CASE Deliver
  <2>1. asks # <<>> /\ Head(asks) \in Requests /\ Handle(Head(asks))
    BY <1>1 DEF Deliver, TypeOK
  <2>2. todo' \subseteq CompletedRecurring'
    BY <1>1, <2>1, HandleAlive DEF Deliver, HostDies, host
  <2>3. asked' # "none"
    BY <2>1, HandleAlive DEF Fresh, Begins
  <2>4. QED
    BY <2>2, <2>3 DEF Fresh
<1>2. CASE SyncProcessingAcks
  BY <1>2, SyncAlive DEF SyncProcessingAcks, Fresh
<1>3. CASE CheckContainer
  BY <1>3, CheckAlive DEF CheckContainer, Fresh
<1>4. CASE \E o \in Rows : FollowUp(o)
  <2>1. PICK o \in Rows : FollowUp(o)
    BY <1>4
  <2>2. asked # "none" /\ asked' = asked
    BY <2>1, FollowUpAlive DEF Fresh, FollowUp
  <2>3. QED
    BY <2>1, <2>2, FollowUpAlive DEF Fresh
<1>5. CASE ~Deliver /\ ~SyncProcessingAcks /\ ~CheckContainer /\ \A o \in Rows : ~FollowUp(o)
  <2>1. /\ row' = row /\ recurs' = recurs /\ asked' = asked
        /\ todo' \subseteq CompletedRecurring
        /\ asks' = asks \/ \E r \in Changes : asks' = Append(asks, r)
    BY <1>5, QuietSteps
  <2>2. asks # <<>> => asks' # <<>> /\ Head(asks') = Head(asks)
    BY <2>1 DEF TypeOK
  <2>3. Alive' = Alive /\ CompletedRecurring' = CompletedRecurring
    BY <2>1, RowsKept
  <2>4. QED
    BY <2>1, <2>2, <2>3 DEF Fresh
<1>6. QED
  BY <1>1, <1>2, <1>3, <1>4, <1>5

LEMMA UnackedStep == ASSUME TypeOK, Unacked, [Next]_vars PROVE Unacked'
<1>1. CASE Deliver
  <2>1. Head(asks) \in Requests /\ Handle(Head(asks)) /\ seen' = seen
    BY <1>1 DEF Deliver, TypeOK
  <2>2. ASSUME NEW b \in BOOLEAN, InsertTask(b) PROVE Unacked'
    BY <2>1, <2>2 DEF InsertTask, InsertRow, Spent, series, Unacked, TypeOK
  <2>3. CASE CancelTask
    BY <2>1, <2>3 DEF CancelTask, Status, Unacked, TypeOK
  <2>4. CASE PauseTask
    BY <2>1, <2>4 DEF PauseTask, Status, Unacked, TypeOK
  <2>5. CASE ResumeTask
    BY <2>1, <2>5 DEF ResumeTask, Status, Unacked, TypeOK
  <2>6. CASE UpdateTask(Head(asks))
    BY <2>1, <2>6 DEF UpdateTask, Unacked
  <2>7. QED
    BY <2>1, <2>2, <2>3, <2>4, <2>5, <2>6 DEF Handle
<1>2. CASE SyncProcessingAcks
  BY <1>2 DEF SyncProcessingAcks, Unacked, TypeOK
<1>3. CASE CheckContainer
  BY <1>3 DEF CheckContainer, ResetClaims, ClaimsGone, Status, Unacked, TypeOK
<1>4. CASE \E o \in Rows : FollowUp(o)
  BY <1>4 DEF FollowUp, Spent, Unacked, TypeOK
<1>5. CASE Read \/ Take
  BY <1>5 DEF Read, Take, Pending, series, Unacked, TypeOK
<1>6. CASE \E o \in Rows : Finish(o)
  BY <1>6 DEF Finish, series, Unacked, TypeOK
<1>7. CASE ClearStaleClaims
  BY <1>7 DEF ClearStaleClaims, ClaimsGone, series, Unacked, TypeOK
<1>8. CASE row' = row /\ ack' = ack /\ seen' = seen
  BY <1>8 DEF Unacked
<1>9. QED
  BY <1>1, <1>2, <1>3, <1>4, <1>5, <1>6, <1>7, <1>8
     DEF Next, vars, Ask, Elapse, ReadRecurring, SweepEnd, HostCrash, HostStart, series

LEMMA AliveEffect ==
  ASSUME TypeOK, Fresh, Unacked, [Next]_vars
  PROVE  \/ Alive' \subseteq Alive /\ crashes <= crashes'
         \/ Begins /\ crashes <= crashes'
         \/ Succeeds \/ Forks
<1>0. crashes \in Nat
  BY ConstantsOK DEF TypeOK
<1>1. CASE Deliver
  <2>1. Head(asks) \in Requests /\ Handle(Head(asks))
    BY <1>1 DEF Deliver, TypeOK
  <2>2. crashes <= crashes'
    BY <1>0, <1>1 DEF Deliver, HostDies
  <2>3. QED
    BY <2>1, <2>2, HandleAlive
<1>2. CASE SyncProcessingAcks
  BY <1>0, <1>2, SyncAlive DEF SyncProcessingAcks
<1>3. CASE CheckContainer
  BY <1>0, <1>3, CheckAlive DEF CheckContainer
<1>4. CASE \E o \in Rows : FollowUp(o)
  BY <1>4, FollowUpAlive
<1>5. CASE ~Deliver /\ ~SyncProcessingAcks /\ ~CheckContainer /\ \A o \in Rows : ~FollowUp(o)
  <2>1. row' = row /\ recurs' = recurs /\ crashes <= crashes'
    BY <1>0, <1>5, QuietSteps
  <2>2. QED
    BY <2>1, RowsKept
<1>6. QED
  BY <1>1, <1>2, <1>3, <1>4, <1>5

LEMMA FreshKeepsAsked ==
  ASSUME TypeOK, Fresh, [Next]_vars, asked # "none"
  PROVE  asked' # "none"
<1>1. CASE Deliver
  BY <1>1, HandleAlive DEF Deliver, TypeOK
<1>2. CASE ~Deliver
  BY <1>2, QuietSteps DEF SyncProcessingAcks, CheckContainer, FollowUp
<1>3. QED
  BY <1>1, <1>2

LEMMA AliveFinite == IsFiniteSet(Alive) /\ Cardinality(Alive) \in Nat
<1>1. Alive \subseteq Rows
  BY DEF Alive, Live, CompletedRecurring
<1>2. QED
  BY <1>1, ConstantsOK, FS_Subset, FS_CardinalityType

LEMMA ChainsStep ==
  ASSUME TypeOK, Fresh, Unacked, Chains, [Next]_vars
  PROVE  Chains'
<1>1. IsFiniteSet(Alive) /\ Cardinality(Alive) \in Nat /\ crashes \in Nat /\ crashes' \in Nat
  <2>1. TypeOK'
    BY StepType
  <2>2. QED
    BY <2>1, AliveFinite, ConstantsOK DEF TypeOK
<1>2. CASE Alive' \subseteq Alive /\ crashes <= crashes'
  <2>1. Cardinality(Alive') <= Cardinality(Alive) /\ Cardinality(Alive') \in Nat
    BY <1>1, <1>2, FS_Subset, FS_CardinalityType
  <2>2. QED
    BY <1>1, <1>2, <2>1 DEF Chains
<1>3. CASE Begins /\ crashes <= crashes'
  <2>1. PICK n \in Rows : Alive' = {n}
    BY <1>3 DEF Begins
  <2>2. Cardinality(Alive') = 1
    BY <2>1, FS_Singleton
  <2>3. 1 <= 1 + crashes'
    <3>1. \A k \in Nat : 1 <= 1 + k
      OBVIOUS
    <3>2. QED
      BY <1>1, <3>1
  <2>4. QED
    BY <2>2, <2>3 DEF Chains
<1>4. CASE Succeeds
  <2>1. PICK o \in Alive, n \in Rows \ Alive :
          Alive' = (Alive \ {o}) \cup {n} /\ crashes' = crashes
    BY <1>4 DEF Succeeds
  <2>2. IsFiniteSet(Alive \ {o}) /\ Cardinality(Alive \ {o}) = Cardinality(Alive) - 1
    BY <1>1, <2>1, FS_RemoveElement
  <2>3. n \notin Alive \ {o}
    BY <2>1
  <2>4. Cardinality((Alive \ {o}) \cup {n}) = Cardinality(Alive \ {o}) + 1
    BY <2>2, <2>3, FS_AddElement
  <2>5. Cardinality((Alive \ {o}) \cup {n}) = Cardinality(Alive)
    BY <1>1, <2>2, <2>4
  <2>6. QED
    BY <2>1, <2>5 DEF Chains
<1>5. CASE Forks
  <2>1. PICK o \in Alive, n \in Rows \ Alive :
          Alive' = Alive \cup {n} /\ crashes' = crashes + 1
    BY <1>5 DEF Forks
  <2>2. Cardinality(Alive') = Cardinality(Alive) + 1
    BY <1>1, <2>1, FS_AddElement
  <2>3. QED
    BY <1>1, <2>1, <2>2 DEF Chains
<1>6. QED
  BY <1>2, <1>3, <1>4, <1>5, AliveEffect

LEMMA AlwaysIInv == Spec => []IInv
<1>1. IInv /\ [Next]_vars => IInv'
  BY StepType, FreshStep, UnackedStep, ChainsStep DEF IInv
<1>2. QED
  BY <1>1, InitIInv, PTL DEF Spec
-----------------------------------------------------------------------------
(* Theorems *)

\* A series has one live occurrence, and one more at most for every crash of
\* the host between the two statements of handleRecurrence.
THEOREM SeriesDoesNotFork == Spec => []NoFork
<1>1. IInv => NoFork
  <2> SUFFICES ASSUME IInv PROVE NoFork
    OBVIOUS
  <2>1. Cardinality(Live) <= Cardinality(Alive) /\ Cardinality(Live) \in Nat
    BY AliveFinite, FS_Subset, FS_CardinalityType DEF Alive
  <2>2. crashes \in Nat
    BY ConstantsOK DEF IInv, TypeOK
  <2>3. QED
    BY <2>1, <2>2, AliveFinite DEF IInv, Chains, NoFork
<1>2. QED
  BY <1>1, AlwaysIInv, PTL

\* A cancel that meets no completed occurrence still to be followed is final,
\* and so is the end of a series of any other kind: neither a sweep nor a late
\* ack, a further request or a crash inserts or releases another occurrence.
THEOREM CancelIsFinal == Spec => CancelEnds
<1>1. ASSUME IInv, [Next]_vars, Over \/ (Deliver /\ Applied("cancel") /\ CompletedRecurring = {})
      PROVE  Over'
  <2>1. CASE Over
    <3>1. asked # "none" /\ Alive = {}
      BY <2>1 DEF Over
    <3>2. Alive' = {}
      BY <1>1, <3>1, AliveEffect DEF IInv, Begins, Succeeds, Forks
    <3>3. asked' # "none"
      BY <1>1, <3>1, FreshKeepsAsked DEF IInv
    <3>4. QED
      BY <3>2, <3>3 DEF Over
  <2>2. CASE Deliver /\ Applied("cancel") /\ CompletedRecurring = {}
    <3>1. CancelTask
      BY <2>2 DEF Deliver, Applied, Handle
    <3>2. Live' = {} /\ CompletedRecurring' = {}
      BY <1>1, <2>2, <3>1 DEF CancelTask, Status, Recurrence, Live, CompletedRecurring, IInv, TypeOK
    <3>3. QED
      BY <3>1, <3>2 DEF CancelTask, Over, Alive
  <2>3. QED
    BY <1>1, <2>1, <2>2
<1>2. IInv /\ [Next]_vars =>
        [Over \/ (Deliver /\ Applied("cancel") /\ CompletedRecurring = {}) => Over']_vars
  BY <1>1
<1>3. QED
  BY <1>2, AlwaysIInv, PTL DEF Spec, CancelEnds

\* No crash and no late ack drops a series: it ends by a cancel, with a
\* one-shot, or with an occurrence that failed for good.
THEOREM SeriesGoesOn == Spec => GoesOn
<1>1. ASSUME IInv, [Next]_vars, ~Over, Over'
      PROVE  \/ asked' = "cancelled" /\ Applied("cancel")
             \/ \E o \in Live : row'[o] = "completed" /\ ~recurs[o]
             \/ \E o \in Pending : row'[o] = "failed"
  <2>1. Alive' = {} /\ (asked = "none" \/ Alive # {})
    BY <1>1 DEF Over
  <2>2. CASE Deliver
    <3>1. asks # <<>> /\ Head(asks) \in Requests /\ Handle(Head(asks))
      BY <1>1, <2>2 DEF Deliver, IInv, TypeOK
    <3>2. asked = "none" => Alive' # {}
      BY <1>1, <3>1, HandleAlive DEF IInv, Fresh, Begins
    <3>3. Head(asks) = "cancel"
      BY <1>1, <2>1, <3>1, <3>2, HandleAlive DEF IInv
    <3>4. CancelTask
      BY <3>1, <3>3 DEF Handle
    <3>5. QED
      BY <3>1, <3>3, <3>4 DEF CancelTask, Applied
  <2>3. CASE SyncProcessingAcks
    <3>1. asked # "none"
      BY <1>1, <2>3 DEF Over, SyncProcessingAcks
    <3>2. PICK o \in Alive : o \notin Alive'
      BY <2>1, <3>1
    <3>3. o \in Rows /\ recurs' = recurs /\ row'[o] \in {row[o], "completed"}
      BY <2>3 DEF SyncProcessingAcks, Alive, Live, CompletedRecurring
    <3>4. o \in Live /\ row'[o] = "completed" /\ ~recurs[o]
      BY <3>2, <3>3 DEF Alive, Live, CompletedRecurring
    <3>5. QED
      BY <3>4
  <2>4. CASE CheckContainer
    <3>1. asked # "none"
      BY <1>1, <2>4 DEF Over, CheckContainer
    <3>2. QED
      BY <1>1, <2>1, <2>4, <3>1, CheckAlive DEF IInv
  <2>5. CASE \E o \in Rows : FollowUp(o)
    BY <1>1, <2>1, <2>5, FollowUpAlive DEF IInv
  <2>6. CASE ~Deliver /\ ~SyncProcessingAcks /\ ~CheckContainer /\ \A o \in Rows : ~FollowUp(o)
    <3>1. row' = row /\ recurs' = recurs /\ asked' = asked
      BY <1>1, <2>6, QuietSteps DEF IInv
    <3>2. QED
      BY <1>1, <3>1, RowsKept DEF Over
  <2>7. QED
    BY <2>2, <2>3, <2>4, <2>5, <2>6
<1>2. QED
  BY <1>1, AlwaysIInv, PTL DEF Spec, GoesOn

\* The death of a container does not undo a pause: a paused occurrence whose
\* run has not completed is released by a resume or a cancel only.
THEOREM PausesHold == Spec => PauseHolds
<1>1. ASSUME TypeOK, [Next]_vars, NEW o \in Paused, row'[o] # "paused"
      PROVE  \/ ack[o] = "completed"
             \/ row'[o] = "pending" /\ Applied("resume")
             \/ row'[o] = "completed" /\ Applied("cancel")
  <2>1. o \in Rows /\ row[o] = "paused" /\ o \notin Spent /\ o \notin Pending
    BY DEF Paused, Spent, Alive, Live, Pending
  <2>2. CASE Deliver
    <3>1. asks # <<>> /\ Handle(Head(asks))
      BY <2>2 DEF Deliver
    <3>2. ASSUME NEW b \in BOOLEAN, InsertTask(b) PROVE FALSE
      BY <1>1, <2>1, <3>2 DEF InsertTask, InsertRow, series, TypeOK
    <3>3. ~PauseTask
      BY <1>1, <2>1 DEF PauseTask, Status
    <3>4. ~UpdateTask(Head(asks))
      BY <1>1, <2>1 DEF UpdateTask
    <3>5. CASE Head(asks) = "cancel" /\ CancelTask
      BY <2>1, <3>1, <3>5 DEF CancelTask, Status, Live, Applied
    <3>6. CASE Head(asks) = "resume" /\ ResumeTask
      BY <2>1, <3>1, <3>6 DEF ResumeTask, Status, Paused, Applied
    <3>7. QED
      BY <3>1, <3>2, <3>3, <3>4, <3>5, <3>6 DEF Handle
  <2>3. CASE SyncProcessingAcks
    BY <1>1, <2>1, <2>3 DEF SyncProcessingAcks
  <2>4. CASE CheckContainer
    BY <1>1, <2>1, <2>4 DEF CheckContainer, ResetClaims, Status
  <2>5. CASE \E p \in Rows : FollowUp(p)
    BY <1>1, <2>1, <2>5 DEF FollowUp, TypeOK
  <2>6. CASE row' = row
    BY <1>1, <2>1, <2>6
  <2>7. QED
    BY <1>1, <2>2, <2>3, <2>4, <2>5, <2>6
       DEF Next, vars, Ask, Elapse, Read, Take, Finish, ClearStaleClaims, ReadRecurring,
           SweepEnd, HostCrash, HostStart, series
<1>2. TypeOK /\ [Next]_vars =>
        [\A o \in Paused : row'[o] # "paused" =>
           \/ ack[o] = "completed"
           \/ row'[o] = "pending" /\ Applied("resume")
           \/ row'[o] = "completed" /\ Applied("cancel")]_vars
  BY <1>1
<1>3. QED
  BY <1>2, SchedulingTypeCorrect, PTL DEF Spec, PauseHolds

\* While the series rests, a step that a request does not decide changes no row,
\* and acks none that is paused.
LEMMA RestStep ==
  ASSUME IInv, [Next]_vars, Resting
  PROVE  \/ asked' = "run" /\ Applied("resume")
         \/ asked' = "cancelled" /\ Applied("cancel")
         \/ /\ row' = row /\ asked' = asked
            /\ \A o \in Rows \ Live : recurs'[o] = recurs[o]
            /\ seen' = {} /\ \A o \in Paused : ack'[o] = "none"
<1> USE DEF Resting
<1>1. \A o \in Paused : o \in Rows /\ row[o] = "paused" /\ ack[o] = "none"
  BY DEF Paused
<1>2. \A o \in Rows : ack[o] = "completed" => row[o] = "completed"
  BY DEF IInv, Unacked, TypeOK, Pending, Paused
<1>3. CASE Deliver
  <2>1. asks # <<>> /\ Handle(Head(asks))
    BY <1>3 DEF Deliver
  <2>2. CASE \E b \in BOOLEAN : InsertTask(b)
    BY <1>1, <1>3, <2>2 DEF Deliver, InsertTask, series
  <2>3. CASE Head(asks) = "cancel" /\ CancelTask
    BY <2>1, <2>3 DEF CancelTask, Applied
  <2>4. CASE PauseTask
    <3>1. row' = row
      BY <2>4 DEF PauseTask, Status, IInv, TypeOK
    <3>2. QED
      BY <1>1, <1>3, <2>4, <3>1 DEF Deliver, PauseTask
  <2>5. CASE Head(asks) = "resume" /\ ResumeTask
    BY <2>1, <2>5 DEF ResumeTask, Applied
  <2>6. CASE UpdateTask(Head(asks))
    BY <1>1, <1>3, <2>6 DEF Deliver, UpdateTask, Recurrence
  <2>7. QED
    BY <2>1, <2>2, <2>3, <2>4, <2>5, <2>6 DEF Handle
<1>4. CASE SyncProcessingAcks
  <2>1. row' = row
    BY <1>2, <1>4 DEF SyncProcessingAcks, IInv, TypeOK
  <2>2. QED
    BY <1>1, <1>4, <2>1 DEF SyncProcessingAcks
<1>5. CASE CheckContainer
  <2>1. row' = row
    BY <1>5 DEF CheckContainer, ResetClaims, Status, IInv, TypeOK
  <2>2. QED
    BY <1>1, <1>5, <2>1 DEF CheckContainer, ResetClaims, ClaimsGone
<1>6. ~Read /\ ~Take /\ \A o \in Rows : ~FollowUp(o)
  <2>1. ~Read
    BY DEF Read
  <2>2. ~Take
    BY DEF Take
  <2>3. \A o \in Rows : ~FollowUp(o)
    BY DEF FollowUp, IInv, Fresh
  <2>4. QED
    BY <2>1, <2>2, <2>3
<1>7. CASE ClearStaleClaims \/ \E o \in Rows : Finish(o)
  BY <1>1, <1>7 DEF Finish, ClearStaleClaims, ClaimsGone, series, IInv, TypeOK
<1>8. CASE UNCHANGED <<series, ack, seen, asked>>
  BY <1>1, <1>8 DEF series
<1>9. CASE \E o \in Rows : Elapse(o)
  BY <1>1, <1>9 DEF Elapse
<1>10. QED
  BY <1>3, <1>4, <1>5, <1>6, <1>7, <1>8, <1>9
     DEF Next, vars, Ask, ReadRecurring, SweepEnd, HostCrash, HostStart, series

\* A pause that found nothing in flight lasts until a resume or a cancel: no late
\* ack, no sweep, no update and no crash sets the series going again.
THEOREM RestsUntilAsked == Spec => RestLasts
<1>1. ASSUME IInv, [Next]_vars, Resting
      PROVE  \/ Resting' /\ Live' = Live
             \/ asked' = "run" /\ Applied("resume")
             \/ asked' = "cancelled" /\ Applied("cancel")
  <2>1. CASE /\ row' = row /\ asked' = asked
             /\ \A o \in Rows \ Live : recurs'[o] = recurs[o]
             /\ seen' = {} /\ \A o \in Paused : ack'[o] = "none"
    <3>1. Live' = Live /\ Pending' = Pending /\ Paused' = Paused
      BY <2>1 DEF Live, Pending, Paused
    <3>2. CompletedRecurring' = CompletedRecurring
      BY <2>1 DEF CompletedRecurring, Live
    <3>3. QED
      BY <1>1, <2>1, <3>1, <3>2 DEF Resting
  <2>2. QED
    BY <1>1, <2>1, RestStep
<1>2. IInv /\ [Next]_vars =>
        [Resting => \/ Resting' /\ Live' = Live
                    \/ asked' = "run" /\ Applied("resume")
                    \/ asked' = "cancelled" /\ Applied("cancel")]_vars
  BY <1>1
<1>3. QED
  BY <1>2, AlwaysIInv, PTL DEF Spec, RestLasts
=============================================================================
