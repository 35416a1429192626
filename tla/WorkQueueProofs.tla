---------------------------- MODULE WorkQueueProofs ----------------------------
(* Proofs of the safety properties of WorkQueue, for any number of requests,  *)
(* bridge processes and crashes.                                              *)
EXTENDS WorkQueue, FiniteSetTheorems, TLAPS

\* A timer's run has the lock, and only such a run executes.
Locked ==
  /\ SingleTimer
  /\ Timers # {} => lock
  /\ \A r \in Runs : Busy(r) => run[r].mode = "timer"

\* A file is created once, and what a run has loaded has been filled.
Filled ==
  /\ \A i \in Items : author[i] \in {"idle", "noted"} => file[i] = "none"
  /\ \A i \in Items : author[i] = "creating" => file[i] = "torn"
  /\ \A r \in Runs : run[r].stage \in {"pick", "exec", "move", "unlink", "note", "log"} =>
       \A i \in run[r].todo : file[i] \in {"queued", "gone"}

\* The outcome is on record before the file goes, and the file is gone before
\* anyone is told.
InOrder ==
  \A r \in Runs :
    /\ run[r].stage \in {"unlink", "note", "log"} => HasRecord(run[r].item, run[r].outcome)
    /\ run[r].stage \in {"note", "log"} => file[run[r].item] = "gone"

\* A handoff that was executed without success, and not by a run that died
\* over it, is out of the queue or in the hands of its run; a timer's run has
\* no such handoff left in its window.
Attempted == ran \ done

Settled ==
  bridge = "codex" =>
    /\ \A i \in Attempted :
         file[i] = "gone" \/ \E r \in Runs : Busy(r) /\ run[r].item = i
    /\ \A r \in Timers : \A i \in run[r].todo \cap Attempted : Busy(r) /\ run[r].item = i

\* What a timer's run still has to look at is queued, or its success is on
\* record, or it is the request in hand; what is executed is queued and no
\* success of it is on record until the run itself writes one.
Loaded == {"pick", "exec", "move", "unlink", "note", "log"}

HandOK ==
  /\ \A r \in Timers : run[r].stage \in Loaded =>
       \A i \in run[r].todo :
         file[i] = "gone" => Recorded(i) \/ (Busy(r) /\ run[r].item = i)
  /\ \A r \in Runs : run[r].stage \in {"exec", "move"} =>
       file[run[r].item] = "queued" /\ ~Recorded(run[r].item)

\* A request that is not begun has no note.
Silent == \A i \in Items : author[i] = "idle" => note[i] = "none"

\* The inductive invariant.
IInv ==
  /\ TypeOK /\ Locked /\ Filled /\ InOrder
  /\ NothingLost /\ ReportsAreTrue /\ SuccessIsFinal /\ Settled
  /\ HandOK /\ Silent /\ LocksAreHeld

LEMMA InitIInv == Init => IInv
<1> SUFFICES ASSUME Init PROVE IInv
  OBVIOUS
<1> USE DEF Init
<1>1. \A r \in Runs : run[r] = Off
  OBVIOUS
<1>2. \A r \in Runs : run[r].stage = "off"
  BY <1>1 DEF Off
<1>3. Off \in Run
  BY DEF Off, Run, Stages
<1>4. TypeOK
  <2>1. run \in [Runs -> Run] /\ \A r \in Runs : ~Busy(r)
    BY <1>2, <1>3 DEF Busy
  <2>2. crashes \in 0..MaxCrash /\ bridge \in {"codex", "action"}
    BY ConstantsOK
  <2>3. QED
    BY <2>1, <2>2 DEF TypeOK
<1>5. Timers = {}
  BY <1>2 DEF Timers, Alive
<1>6. Locked
  BY <1>2, <1>5 DEF Locked, SingleTimer, Busy
<1>7. Filled
  BY <1>2, ConstantsOK DEF Filled
<1>8. InOrder
  BY <1>2 DEF InOrder
<1>9. NothingLost /\ ReportsAreTrue /\ SuccessIsFinal
  BY <1>2 DEF NothingLost, ReportsAreTrue, SuccessIsFinal, Executing
<1>10. Settled
  BY <1>5 DEF Settled, Attempted
<1>11. HandOK
  BY <1>2, <1>5 DEF HandOK
<1>12. Silent
  BY ConstantsOK DEF Silent
<1>13. LocksAreHeld
  BY DEF Init, LocksAreHeld, StaleLock
<1>14. QED
  BY <1>4, <1>6, <1>7, <1>8, <1>9, <1>10, <1>11, <1>12, <1>13 DEF IInv
-----------------------------------------------------------------------------
(* What a step does to the processes *)

Only(r) == \A s \in Runs \ {r} : run'[s] = run[s]

LEMMA GotoEffect ==
  ASSUME TypeOK, NEW r \in Runs, NEW stage \in Stages, Goto(r, stage)
  PROVE  /\ run' \in [Runs -> Run]
         /\ Only(r)
         /\ run'[r].stage = stage
         /\ run'[r].mode = run[r].mode /\ run'[r].todo = run[r].todo
         /\ run'[r].item = run[r].item /\ run'[r].outcome = run[r].outcome
BY DEF TypeOK, Goto, Run, Only

LEMMA NextItemEffect ==
  ASSUME TypeOK, NEW r \in Runs, NEW i, NextItem(r, i)
  PROVE  /\ run' \in [Runs -> Run]
         /\ Only(r)
         /\ run'[r].stage = "pick"
         /\ run'[r].mode = run[r].mode
         /\ run'[r].todo = run[r].todo \ {i}
<1> DEFINE new == [run[r] EXCEPT !.stage = "pick", !.todo = @ \ {i}, !.item = NoItem]
<1>1. run[r] \in Run
  BY DEF TypeOK
<1>2. /\ new \in Run
      /\ new.stage = "pick" /\ new.mode = run[r].mode /\ new.todo = run[r].todo \ {i}
  BY <1>1 DEF Run, Stages
<1>3. run' = [run EXCEPT ![r] = new]
  BY DEF NextItem
<1> HIDE DEF new
<1>4. QED
  BY <1>2, <1>3 DEF TypeOK, Only

LEMMA ExitEffect ==
  ASSUME TypeOK, NEW r \in Runs, Exit(r)
  PROVE  /\ run' \in [Runs -> Run]
         /\ Only(r)
         /\ run'[r].stage = "off"
BY DEF TypeOK, Exit, Run, Stages, Off, Only

LEMMA StartEffect ==
  ASSUME TypeOK, NEW r \in Runs, NEW mode \in {"timer", "dry"},
         run' = [run EXCEPT ![r] = [Off EXCEPT !.mode = mode, !.stage = "list"]]
  PROVE  /\ run' \in [Runs -> Run]
         /\ Only(r)
         /\ run'[r].stage = "list"
         /\ run'[r].mode = mode
         /\ run'[r].todo = {}
<1>1. [Off EXCEPT !.mode = mode, !.stage = "list"] \in Run
  BY DEF Off, Run, Stages
<1>2. run'[r] = [Off EXCEPT !.mode = mode, !.stage = "list"]
  BY DEF TypeOK
<1>3. run' \in [Runs -> Run] /\ Only(r)
  BY <1>1 DEF TypeOK, Only
<1>4. QED
  BY <1>2, <1>3 DEF Off

LEMMA ListEffect ==
  ASSUME TypeOK, NEW r \in Runs, ListQueue(r)
  PROVE  /\ run' \in [Runs -> Run]
         /\ Only(r)
         /\ run'[r].stage = "load"
         /\ run'[r].mode = run[r].mode
         /\ run'[r].todo = Window
<1>1. Window \subseteq Items
  BY DEF Window, Queued
<1> DEFINE new == [run[r] EXCEPT !.stage = "load", !.todo = Window]
<1>2. run[r] \in Run
  BY DEF TypeOK
<1>3. /\ new \in Run
      /\ new.stage = "load" /\ new.mode = run[r].mode /\ new.todo = Window
  BY <1>1, <1>2 DEF Run, Stages
<1>4. run' = [run EXCEPT ![r] = new]
  BY DEF ListQueue
<1> HIDE DEF new
<1>5. QED
  BY <1>3, <1>4 DEF TypeOK, Only

LEMMA ExecuteEffect ==
  ASSUME TypeOK, NEW r \in Runs, NEW i \in run[r].todo, Execute(r, i)
  PROVE  /\ run' \in [Runs -> Run]
         /\ Only(r)
         /\ run'[r].stage = "exec"
         /\ run'[r].item = i
         /\ run'[r].mode = run[r].mode /\ run'[r].todo = run[r].todo
<1>1. i \in Items
  BY DEF TypeOK, Run
<1> DEFINE new == [run[r] EXCEPT !.stage = "exec", !.item = i]
<1>2. run[r] \in Run
  BY DEF TypeOK
<1>3. /\ new \in Run
      /\ new.stage = "exec" /\ new.item = i
      /\ new.mode = run[r].mode /\ new.todo = run[r].todo
  BY <1>1, <1>2 DEF Run, Stages
<1>4. run' = [run EXCEPT ![r] = new]
  BY DEF Execute
<1> HIDE DEF new
<1>5. QED
  BY <1>3, <1>4 DEF TypeOK, Only

LEMMA ExecutedEffect ==
  ASSUME TypeOK, NEW r \in Runs, Executed(r)
  PROVE  /\ run' \in [Runs -> Run]
         /\ Only(r)
         /\ run'[r].stage = "move"
         /\ run'[r].mode = run[r].mode /\ run'[r].todo = run[r].todo
         /\ run'[r].item = run[r].item
<1>1. PICK outcome \in {"done", "failed"}, abandoned \in BOOLEAN :
        run' = [run EXCEPT ![r].stage = "move", ![r].outcome = outcome,
                           ![r].doomed = @ \/ abandoned]
  BY DEF Executed
<1> DEFINE new == [run[r] EXCEPT !.stage = "move", !.outcome = outcome,
                                 !.doomed = @ \/ abandoned]
<1>2. run[r] \in Run
  BY DEF TypeOK
<1>3. (run[r].doomed \/ abandoned) \in BOOLEAN
  OBVIOUS
<1>4. /\ new \in Run
      /\ new.stage = "move" /\ new.item = run[r].item
      /\ new.mode = run[r].mode /\ new.todo = run[r].todo
  BY <1>2, <1>3 DEF Run, Stages
<1>5. run' = [run EXCEPT ![r] = new]
  BY <1>1
<1> HIDE DEF new
<1>6. QED
  BY <1>4, <1>5 DEF TypeOK, Only

\* A process that has no item in hand, or the one it had, keeps the item in
\* its window.
LEMMA InHand ==
  ASSUME TypeOK, NEW r \in Runs, Only(r), Busy(r)' => run'[r].item \in run'[r].todo
  PROVE  \A s \in Runs : Busy(s)' => run'[s].item \in run'[s].todo
BY DEF TypeOK, Only, Busy

\* The three ways a request of the window is dealt with.
LEMMA ExamineCases ==
  ASSUME NEW r \in Runs, Examine(r)
  PROVE  /\ run[r].stage = "pick"
         /\ \E i \in run[r].todo :
              \/ Recorded(i) /\ ClearQueued(r, i)
              \/ ~Recorded(i) /\ Skip(r, i)
              \/ ~Recorded(i) /\ Execute(r, i)
BY DEF Examine

-----------------------------------------------------------------------------
(* Types *)

LEMMA StepType == ASSUME TypeOK, [Next]_vars PROVE TypeOK'
<1> USE DEF queue, records
<1>1. CASE \E i \in Items : WriteNote(i)
  BY <1>1 DEF TypeOK, WriteNote, Written, Busy
<1>2. CASE \E i \in Items : CreateFile(i)
  BY <1>2 DEF TypeOK, CreateFile, Written, Busy
<1>3. CASE \E i \in Items : FillFile(i)
  BY <1>3 DEF TypeOK, FillFile, Written, Busy
<1>4. CASE \E i \in Items : LogQueued(i)
  BY <1>4 DEF TypeOK, LogQueued, Written, Busy
<1>5. CASE \E i \in Items : AuthorDies(i)
  BY <1>5 DEF TypeOK, AuthorDies, Busy
<1>6. CASE \E r \in Runs : StartTimer(r)
  BY <1>6, StartEffect, InHand DEF TypeOK, StartTimer, Busy
<1>7. CASE \E r \in Runs : StartDryRun(r)
  BY <1>7, StartEffect, InHand DEF TypeOK, StartDryRun, Busy
<1>8. CASE \E r \in Runs : ListQueue(r)
  BY <1>8, ListEffect, InHand DEF TypeOK, ListQueue, Busy
<1>9. CASE \E r \in Runs : LoadQueue(r)
  <2>1. PICK r \in Runs : LoadQueue(r)
    BY <1>9
  <2>2. CASE Goto(r, "pick") /\ UNCHANGED lock
    BY <2>1, <2>2, GotoEffect, InHand DEF LoadQueue, TypeOK, Busy, Stages
  <2>3. CASE Exit(r)
    BY <2>1, <2>3, ExitEffect, InHand DEF LoadQueue, TypeOK, Busy, Exit
  <2>4. QED
    BY <2>1, <2>2, <2>3 DEF LoadQueue
<1>10. CASE \E r \in Runs : Examine(r)
  <2>1. PICK r \in Runs : Examine(r)
    BY <1>10
  <2>2. PICK i \in run[r].todo : ClearQueued(r, i) \/ Skip(r, i) \/ Execute(r, i)
    BY <2>1, ExamineCases
  <2>3. i \in Items /\ run[r].stage = "pick"
    BY <2>1, <2>2, ExamineCases DEF TypeOK, Run
  <2>4. CASE ClearQueued(r, i)
    BY <2>3, <2>4, NextItemEffect, InHand DEF ClearQueued, Log, TypeOK, Busy
  <2>5. CASE Skip(r, i)
    BY <2>3, <2>5, NextItemEffect, InHand DEF Skip, Log, TypeOK, Busy
  <2>6. CASE Execute(r, i)
    <3>1. /\ run' \in [Runs -> Run]
          /\ \A s \in Runs : Busy(s)' => run'[s].item \in run'[s].todo
      BY <2>2, <2>6, ExecuteEffect, InHand
    <3>2. QED
      BY <2>3, <2>6, <3>1 DEF Execute, Log, TypeOK
  <2>7. QED
    BY <2>2, <2>4, <2>5, <2>6
<1>11. CASE \E r \in Runs : Executed(r)
  BY <1>11, ExecutedEffect, InHand DEF TypeOK, Executed, Busy
<1>12. CASE \E r \in Runs : ExecutionThrows(r)
  BY <1>12, NextItemEffect, InHand DEF TypeOK, ExecutionThrows, Busy
<1>13. CASE \E r \in Runs : MoveRecord(r)
  <2>1. PICK r \in Runs : MoveRecord(r)
    BY <1>13
  <2>2. Busy(r) /\ run[r].item \in Items
    BY <2>1 DEF MoveRecord, Busy, TypeOK, Run
  <2>3. /\ run' \in [Runs -> Run]
        /\ \A s \in Runs : Busy(s)' => run'[s].item \in run'[s].todo
    BY <2>1, <2>2, GotoEffect, NextItemEffect, InHand DEF MoveRecord, MoveHandoff, MoveAction, Stages, Busy, TypeOK
  <2>4. done' \subseteq Items /\ failed' \subseteq Items
    BY <2>1, <2>2 DEF MoveRecord, MoveHandoff, MoveAction, Record, TypeOK
  <2>5. file' \in [Items -> {"none", "torn", "queued", "gone"}]
    BY <2>1, <2>2 DEF MoveRecord, MoveHandoff, MoveAction, TypeOK
  <2>6. QED
    BY <2>1, <2>3, <2>4, <2>5 DEF TypeOK, MoveRecord
<1>14. CASE \E r \in Runs : Unlink(r)
  <2>1. PICK r \in Runs : Unlink(r)
    BY <1>14
  <2>2. /\ run' \in [Runs -> Run]
        /\ \A s \in Runs : Busy(s)' => run'[s].item \in run'[s].todo
    BY <2>1, GotoEffect, NextItemEffect, InHand DEF Unlink, Stages, Busy, TypeOK
  <2>3. QED
    BY <2>1, <2>2 DEF TypeOK, Unlink
<1>15. CASE \E r \in Runs : UpdateNote(r)
  <2>1. PICK r \in Runs : UpdateNote(r)
    BY <1>15
  <2>2. /\ run' \in [Runs -> Run]
        /\ \A s \in Runs : Busy(s)' => run'[s].item \in run'[s].todo
    BY <2>1, GotoEffect, InHand DEF UpdateNote, Stages, Busy, TypeOK
  <2>3. run[r].outcome \in {"done", "failed"}
    BY DEF TypeOK, Run
  <2>4. QED
    BY <2>1, <2>2, <2>3 DEF TypeOK, UpdateNote
<1>16. CASE \E r \in Runs : LogOutcome(r)
  <2>1. PICK r \in Runs : LogOutcome(r)
    BY <1>16
  <2>2. run[r].outcome \in {"done", "failed"}
    BY DEF TypeOK, Run
  <2>3. QED
    BY <2>1, <2>2, NextItemEffect, InHand DEF TypeOK, LogOutcome, Log, Busy
<1>17. CASE \E r \in Runs : RunEnds(r)
  BY <1>17, ExitEffect, InHand DEF TypeOK, RunEnds, Busy, Exit
<1>18. CASE \E r \in Runs : WaiterFires(r)
  BY <1>18, ExitEffect, InHand DEF TypeOK, WaiterFires, Busy, Exit
<1>19. CASE \E r \in Runs : BridgeCrash(r)
  <2>1. PICK r \in Runs : BridgeCrash(r)
    BY <1>19
  <2>2. crashes' \in 0..MaxCrash
    BY <2>1, ConstantsOK DEF BridgeCrash, TypeOK
  <2>3. /\ run' \in [Runs -> Run] /\ lock' \in BOOLEAN
        /\ \A s \in Runs : Busy(s)' => run'[s].item \in run'[s].todo
    BY <2>1, ExitEffect, InHand DEF BridgeCrash, Exit, Busy, TypeOK
  <2>4. QED
    BY <2>1, <2>2, <2>3 DEF BridgeCrash, TypeOK
<1>20. CASE PowerLoss
  <2>1. crashes' \in 0..MaxCrash
    BY <1>20, ConstantsOK DEF PowerLoss, TypeOK
  <2>2. run' \in [Runs -> Run] /\ \A s \in Runs : run'[s].stage = "off"
    BY <1>20 DEF PowerLoss, Off, Run, Stages
  <2>3. ran' \subseteq Items
    BY <1>20 DEF PowerLoss, TypeOK
  <2>4. QED
    BY <1>20, <2>1, <2>2, <2>3 DEF PowerLoss, TypeOK, Busy
<1>21. CASE UNCHANGED vars
  BY <1>21 DEF TypeOK, vars, Busy
<1>22. QED
  BY <1>1, <1>2, <1>3, <1>4, <1>5, <1>6, <1>7, <1>8, <1>9, <1>10, <1>11, <1>12,
     <1>13, <1>14, <1>15, <1>16, <1>17, <1>18, <1>19, <1>20, <1>21 DEF Next
-----------------------------------------------------------------------------
(* The lock *)

LEMMA LockedStays ==
  ASSUME TypeOK, Locked, NEW r \in Runs, Only(r), run' \in [Runs -> Run],
         Alive(r), lock' = lock, run'[r].mode = run[r].mode,
         Busy(r)' => run[r].mode = "timer"
  PROVE  Locked'
<1>1. Timers' \subseteq Timers
  BY DEF Timers, Alive, Only
<1>2. SingleTimer' /\ (Timers' # {} => lock')
  BY <1>1 DEF Locked, SingleTimer
<1>3. \A s \in Runs : Busy(s)' => run'[s].mode = "timer"
  BY DEF Locked, Only, Busy
<1>4. QED
  BY <1>2, <1>3 DEF Locked

LEMMA LockedExit ==
  ASSUME TypeOK, Locked, NEW r \in Runs, Alive(r), Exit(r)
  PROVE  Locked'
<1>1. Only(r) /\ run'[r].stage = "off"
  BY ExitEffect
<1>2. Timers' = Timers \ {r}
  BY <1>1 DEF Timers, Alive, Only
<1>3. SingleTimer'
  BY <1>2 DEF Locked, SingleTimer
<1>4. Timers' # {} => lock'
  <2>1. CASE run[r].mode = "timer"
    BY <1>2, <2>1 DEF Locked, SingleTimer, Timers
  <2>2. CASE run[r].mode # "timer"
    BY <1>2, <2>2 DEF Locked, Exit
  <2>3. QED
    BY <2>1, <2>2
<1>5. \A s \in Runs : Busy(s)' => run'[s].mode = "timer"
  BY <1>1 DEF Locked, Only, Busy
<1>6. QED
  BY <1>3, <1>4, <1>5 DEF Locked

LEMMA LockedStart ==
  ASSUME TypeOK, Locked, NEW r \in Runs, StartTimer(r) \/ StartDryRun(r)
  PROVE  Locked'
<1>1. CASE StartTimer(r)
  <2>1. Only(r) /\ run'[r].stage = "list" /\ run'[r].mode = "timer"
    BY <1>1, StartEffect DEF StartTimer
  <2>2. Timers = {}
    BY <1>1 DEF Locked, StartTimer
  <2>3. Timers' = {r}
    BY <2>1, <2>2 DEF Timers, Alive, Only
  <2>4. \A s \in Runs : Busy(s)' => run'[s].mode = "timer"
    BY <2>1 DEF Locked, Only, Busy
  <2>5. QED
    BY <1>1, <2>3, <2>4 DEF Locked, SingleTimer, StartTimer
<1>2. CASE StartDryRun(r)
  <2>1. Only(r) /\ run'[r].stage = "list" /\ run'[r].mode = "dry"
    BY <1>2, StartEffect DEF StartDryRun
  <2>2. Timers' = Timers
    BY <1>2, <2>1 DEF Timers, Alive, Only, StartDryRun
  <2>3. \A s \in Runs : Busy(s)' => run'[s].mode = "timer"
    BY <2>1 DEF Locked, Only, Busy
  <2>4. QED
    BY <1>2, <2>2, <2>3 DEF Locked, SingleTimer, StartDryRun
<1>3. QED
  BY <1>1, <1>2

LEMMA LockedStep == ASSUME TypeOK, Locked, [Next]_vars PROVE Locked'
<1> USE DEF queue, records
<1>1. CASE UNCHANGED <<run, lock>>
  BY <1>1 DEF Locked, SingleTimer, Timers, Alive, Busy
<1>2. CASE \E r \in Runs : StartTimer(r) \/ StartDryRun(r)
  BY <1>2, LockedStart
<1>3. CASE \E r \in Runs : RunEnds(r) \/ WaiterFires(r) \/ BridgeCrash(r)
  <2>1. PICK r \in Runs : Alive(r) /\ Exit(r)
    BY <1>3 DEF RunEnds, WaiterFires, BridgeCrash, Alive
  <2>2. QED
    BY <2>1, LockedExit
<1>4. CASE \E r \in Runs : ListQueue(r)
  BY <1>4, ListEffect, LockedStays DEF ListQueue, Busy, Alive
<1>5. CASE \E r \in Runs : LoadQueue(r)
  <2>1. PICK r \in Runs : LoadQueue(r)
    BY <1>5
  <2>2. Alive(r)
    BY <2>1 DEF LoadQueue, Alive
  <2>3. CASE Goto(r, "pick") /\ UNCHANGED lock
    BY <2>2, <2>3, GotoEffect, LockedStays DEF Busy, Stages
  <2>4. CASE Exit(r)
    BY <2>2, <2>4, LockedExit
  <2>5. QED
    BY <2>1, <2>3, <2>4 DEF LoadQueue
<1>6. CASE \E r \in Runs : Examine(r)
  <2>1. PICK r \in Runs : Examine(r)
    BY <1>6
  <2>2. PICK i \in run[r].todo : ClearQueued(r, i) \/ Skip(r, i) \/ Execute(r, i)
    BY <2>1, ExamineCases
  <2>3. Alive(r)
    BY <2>1 DEF Examine, Alive
  <2>4. CASE ClearQueued(r, i) \/ Skip(r, i)
    BY <2>3, <2>4, NextItemEffect, LockedStays DEF ClearQueued, Skip, Busy
  <2>5. CASE Execute(r, i)
    BY <2>3, <2>5, ExecuteEffect, LockedStays DEF Execute
  <2>6. QED
    BY <2>2, <2>4, <2>5
<1>7. CASE \E r \in Runs : Executed(r)
  BY <1>7, ExecutedEffect, LockedStays DEF Executed, Alive, Busy, Locked
<1>8. CASE \E r \in Runs : ExecutionThrows(r) \/ LogOutcome(r)
  BY <1>8, NextItemEffect, LockedStays DEF ExecutionThrows, LogOutcome, Alive, Busy
<1>9. CASE \E r \in Runs : MoveRecord(r)
  BY <1>9, GotoEffect, NextItemEffect, LockedStays
     DEF MoveRecord, MoveHandoff, MoveAction, Alive, Busy, Stages, Locked
<1>10. CASE \E r \in Runs : Unlink(r)
  BY <1>10, GotoEffect, NextItemEffect, LockedStays DEF Unlink, Alive, Busy, Stages, Locked
<1>11. CASE \E r \in Runs : UpdateNote(r)
  BY <1>11, GotoEffect, LockedStays DEF UpdateNote, Alive, Busy, Stages, Locked
<1>12. CASE PowerLoss
  <2>1. \A s \in Runs : run'[s].stage = "off"
    BY <1>12 DEF PowerLoss, Off
  <2>2. QED
    BY <2>1 DEF Locked, SingleTimer, Timers, Alive, Busy
<1>13. CASE \E i \in Items : WriteNote(i) \/ CreateFile(i) \/ FillFile(i) \/ LogQueued(i) \/ AuthorDies(i)
  BY <1>1, <1>13 DEF WriteNote, CreateFile, FillFile, LogQueued, AuthorDies, Written
<1>14. CASE UNCHANGED vars
  BY <1>1, <1>14 DEF vars
<1>15. QED
  BY <1>2, <1>3, <1>4, <1>5, <1>6, <1>7, <1>8, <1>9, <1>10, <1>11, <1>12, <1>13, <1>14 DEF Next
\* A step that ends no process and removes no lock leaves no lock behind.
LEMMA HeldStays ==
  ASSUME TypeOK, LocksAreHeld, NEW r \in Runs, Only(r), lock' = lock, crashes' = crashes,
         run'[r].mode = run[r].mode, run'[r].stage # "off"
  PROVE  LocksAreHeld'
<1>1. Timers \subseteq Timers'
  BY DEF Timers, Alive, Only
<1>2. QED
  BY <1>1 DEF LocksAreHeld, StaleLock

\* A process that exits takes its own lock with it and no other.
LEMMA HeldExit ==
  ASSUME TypeOK, LocksAreHeld, NEW r \in Runs, Alive(r), Exit(r),
         crashes' = crashes \/ crashes' = crashes + 1
  PROVE  LocksAreHeld'
<1>1. Only(r) /\ crashes \in Nat
  BY ExitEffect DEF TypeOK
<1>2. CASE run[r].mode = "timer"
  BY <1>2 DEF Exit, LocksAreHeld, StaleLock
<1>3. CASE run[r].mode # "timer"
  <2>1. Timers \subseteq Timers' /\ lock' = lock
    BY <1>1, <1>3 DEF Timers, Alive, Only, Exit
  <2>2. QED
    BY <1>1, <2>1 DEF LocksAreHeld, StaleLock
<1>4. QED
  BY <1>2, <1>3

LEMMA HeldStep == ASSUME TypeOK, LocksAreHeld, [Next]_vars PROVE LocksAreHeld'
<1> USE DEF queue, records
<1>1. CASE UNCHANGED <<run, lock, crashes>>
  BY <1>1 DEF LocksAreHeld, StaleLock, Timers, Alive
<1>2. ASSUME NEW r \in Runs, StartTimer(r) PROVE LocksAreHeld'
  <2>1. r \in Timers'
    BY <1>2, StartEffect DEF StartTimer, Timers, Alive
  <2>2. QED
    BY <2>1 DEF LocksAreHeld, StaleLock
<1>3. ASSUME NEW r \in Runs, StartDryRun(r) PROVE LocksAreHeld'
  <2>1. Only(r) /\ run[r].stage = "off" /\ UNCHANGED <<lock, crashes>>
    BY <1>3, StartEffect DEF StartDryRun, Alive
  <2>2. Timers \subseteq Timers'
    BY <2>1 DEF Timers, Alive, Only
  <2>3. QED
    BY <2>1, <2>2 DEF LocksAreHeld, StaleLock
<1>4. CASE \E r \in Runs : RunEnds(r) \/ WaiterFires(r) \/ BridgeCrash(r)
  <2>1. PICK r \in Runs :
          Alive(r) /\ Exit(r) /\ (crashes' = crashes \/ crashes' = crashes + 1)
    BY <1>4 DEF RunEnds, WaiterFires, BridgeCrash, Alive
  <2>2. QED
    BY <2>1, HeldExit
<1>5. CASE \E r \in Runs : ListQueue(r)
  BY <1>5, ListEffect, HeldStays DEF ListQueue
<1>6. ASSUME NEW r \in Runs, LoadQueue(r) PROVE LocksAreHeld'
  <2>1. Alive(r) /\ crashes' = crashes
    BY <1>6 DEF LoadQueue, Alive
  <2>2. CASE Goto(r, "pick") /\ UNCHANGED lock
    BY <2>1, <2>2, GotoEffect, HeldStays DEF Stages
  <2>3. CASE Exit(r)
    BY <2>1, <2>3, HeldExit
  <2>4. QED
    BY <1>6, <2>2, <2>3 DEF LoadQueue
<1>7. ASSUME NEW r \in Runs, Examine(r) PROVE LocksAreHeld'
  <2>1. PICK i \in run[r].todo : ClearQueued(r, i) \/ Skip(r, i) \/ Execute(r, i)
    BY <1>7, ExamineCases
  <2>2. CASE ClearQueued(r, i) \/ Skip(r, i)
    BY <2>2, NextItemEffect, HeldStays DEF ClearQueued, Skip
  <2>3. CASE Execute(r, i)
    BY <2>3, ExecuteEffect, HeldStays DEF Execute
  <2>4. QED
    BY <2>1, <2>2, <2>3
<1>8. CASE \E r \in Runs : Executed(r)
  BY <1>8, ExecutedEffect, HeldStays DEF Executed
<1>9. CASE \E r \in Runs : ExecutionThrows(r) \/ LogOutcome(r)
  BY <1>9, NextItemEffect, HeldStays DEF ExecutionThrows, LogOutcome
<1>10. CASE \E r \in Runs : MoveRecord(r)
  BY <1>10, GotoEffect, NextItemEffect, HeldStays
     DEF MoveRecord, MoveHandoff, MoveAction, Stages
<1>11. CASE \E r \in Runs : Unlink(r)
  BY <1>11, GotoEffect, NextItemEffect, HeldStays DEF Unlink, Stages
<1>12. CASE \E r \in Runs : UpdateNote(r)
  BY <1>12, GotoEffect, HeldStays DEF UpdateNote, Stages
<1>13. CASE PowerLoss
  BY <1>13 DEF PowerLoss, LocksAreHeld, TypeOK
<1>14. CASE \E i \in Items : WriteNote(i) \/ CreateFile(i) \/ FillFile(i) \/ LogQueued(i) \/ AuthorDies(i)
  BY <1>1, <1>14 DEF WriteNote, CreateFile, FillFile, LogQueued, AuthorDies, Written
<1>15. CASE UNCHANGED vars
  BY <1>1, <1>15 DEF vars
<1>16. QED
  BY <1>2, <1>3, <1>4, <1>5, <1>6, <1>7, <1>8, <1>9, <1>10, <1>11, <1>12, <1>13, <1>14, <1>15
     DEF Next
-----------------------------------------------------------------------------
(* The queued files *)

LEMMA FilledStays ==
  ASSUME TypeOK, Filled, NEW r \in Runs, Only(r), UNCHANGED <<author, file>>,
         run'[r].stage \in Loaded => run[r].stage \in Loaded /\ run'[r].todo \subseteq run[r].todo
  PROVE  Filled'
<1>1. ASSUME NEW s \in Runs, run'[s].stage \in Loaded
      PROVE  run[s].stage \in Loaded /\ run'[s].todo \subseteq run[s].todo
  BY <1>1 DEF Only
<1>2. QED
  BY <1>1 DEF Filled, Loaded

\* A file that a run has loaded is unlinked.
LEMMA FilledUnlinked ==
  ASSUME TypeOK, Filled, NEW r \in Runs, Only(r), author' = author,
         run[r].stage \in Loaded, run'[r].todo \subseteq run[r].todo,
         NEW i \in run[r].todo, file' = [file EXCEPT ![i] = "gone"]
  PROVE  Filled'
<1>1. i \in Items /\ file[i] \in {"queued", "gone"}
  BY DEF Filled, Loaded, TypeOK, Run
<1>2. ASSUME NEW s \in Runs, run'[s].stage \in Loaded
      PROVE  run[s].stage \in Loaded /\ run'[s].todo \subseteq run[s].todo
  BY <1>2 DEF Only
<1>3. \A s \in Runs : run[s].todo \subseteq Items
  BY DEF TypeOK, Run
<1>4. QED
  BY <1>1, <1>2, <1>3 DEF Filled, Loaded, TypeOK

LEMMA FilledStep == ASSUME TypeOK, Filled, [Next]_vars PROVE Filled'
<1> USE DEF queue, records
<1>1. CASE \E i \in Items : WriteNote(i) \/ CreateFile(i) \/ FillFile(i) \/ LogQueued(i) \/ AuthorDies(i)
  <2>1. PICK i \in Items : WriteNote(i) \/ CreateFile(i) \/ FillFile(i) \/ LogQueued(i) \/ AuthorDies(i)
    BY <1>1
  <2>2. run' = run /\ \A s \in Runs : run[s].todo \subseteq Items
    BY <2>1 DEF WriteNote, CreateFile, FillFile, LogQueued, AuthorDies, Written, TypeOK, Run
  <2>3. \A j \in Items : /\ author'[j] \in {"idle", "noted"} => file'[j] = "none"
                         /\ author'[j] = "creating" => file'[j] = "torn"
    BY <2>1 DEF WriteNote, CreateFile, FillFile, LogQueued, AuthorDies, Written, TypeOK, Filled
  <2>4. \A j \in Items : file[j] \in {"queued", "gone"} => file'[j] \in {"queued", "gone"}
    BY <2>1 DEF WriteNote, CreateFile, FillFile, LogQueued, AuthorDies, Written, TypeOK, Filled
  <2>5. QED
    BY <2>2, <2>3, <2>4 DEF Filled
<1>2. CASE \E r \in Runs : StartTimer(r) \/ StartDryRun(r)
  BY <1>2, StartEffect, FilledStays DEF StartTimer, StartDryRun, Loaded
<1>3. CASE \E r \in Runs : RunEnds(r) \/ WaiterFires(r) \/ BridgeCrash(r)
  BY <1>3, ExitEffect, FilledStays DEF RunEnds, WaiterFires, BridgeCrash, Loaded
<1>4. CASE \E r \in Runs : ListQueue(r)
  BY <1>4, ListEffect, FilledStays DEF ListQueue, Loaded
<1>5. CASE \E r \in Runs : LoadQueue(r)
  <2>1. PICK r \in Runs : LoadQueue(r)
    BY <1>5
  <2>2. CASE Exit(r)
    BY <2>1, <2>2, ExitEffect, FilledStays DEF LoadQueue, Loaded
  <2>3. CASE Goto(r, "pick") /\ \A i \in run[r].todo : file[i] = "queued"
    <3>1. Only(r) /\ run'[r].todo = run[r].todo
      BY <2>3, GotoEffect DEF Stages
    <3>2. \A s \in Runs : run'[s].todo = run[s].todo
      BY <3>1 DEF Only
    <3>3. \A s \in Runs : s = r \/ run'[s].stage = run[s].stage
      BY <3>1 DEF Only
    <3>4. QED
      BY <2>1, <2>3, <3>2, <3>3 DEF LoadQueue, Filled
  <2>4. QED
    BY <2>1, <2>2, <2>3 DEF LoadQueue, Exit
<1>6. CASE \E r \in Runs : Examine(r)
  <2>1. PICK r \in Runs : Examine(r)
    BY <1>6
  <2>2. run[r].stage = "pick"
    BY <2>1, ExamineCases
  <2>3. PICK i \in run[r].todo : ClearQueued(r, i) \/ Skip(r, i) \/ Execute(r, i)
    BY <2>1, ExamineCases
  <2>4. CASE ClearQueued(r, i)
    BY <2>2, <2>3, <2>4, NextItemEffect, FilledUnlinked DEF ClearQueued, Loaded
  <2>5. CASE Skip(r, i)
    BY <2>2, <2>5, NextItemEffect, FilledStays DEF Skip, Loaded
  <2>6. CASE Execute(r, i)
    BY <2>2, <2>6, ExecuteEffect, FilledStays DEF Execute, Loaded
  <2>7. QED
    BY <2>3, <2>4, <2>5, <2>6
<1>7. CASE \E r \in Runs : Executed(r)
  BY <1>7, ExecutedEffect, FilledStays DEF Executed, Loaded
<1>8. CASE \E r \in Runs : ExecutionThrows(r) \/ LogOutcome(r)
  BY <1>8, NextItemEffect, FilledStays DEF ExecutionThrows, LogOutcome, Loaded
<1>9. CASE \E r \in Runs : MoveRecord(r)
  <2>1. PICK r \in Runs : MoveRecord(r)
    BY <1>9
  <2>2. /\ Only(r) /\ run'[r].todo \subseteq run[r].todo
        /\ run[r].item \in run[r].todo /\ run[r].stage \in Loaded
        /\ author' = author
    BY <2>1, GotoEffect, NextItemEffect
       DEF MoveRecord, MoveHandoff, MoveAction, Busy, TypeOK, Stages, Loaded
  <2>3. file' = file \/ file' = [file EXCEPT ![run[r].item] = "gone"]
    BY <2>1 DEF MoveRecord, MoveHandoff, MoveAction
  <2>4. QED
    BY <2>2, <2>3, FilledStays, FilledUnlinked
<1>10. CASE \E r \in Runs : Unlink(r)
  <2>1. PICK r \in Runs : Unlink(r)
    BY <1>10
  <2>2. /\ Only(r) /\ run'[r].todo \subseteq run[r].todo
        /\ run[r].item \in run[r].todo /\ run[r].stage \in Loaded
        /\ author' = author
    BY <2>1, GotoEffect, NextItemEffect DEF Unlink, Busy, TypeOK, Stages, Loaded
  <2>3. file' = file \/ file' = [file EXCEPT ![run[r].item] = "gone"]
    BY <2>1 DEF Unlink
  <2>4. QED
    BY <2>2, <2>3, FilledStays, FilledUnlinked
<1>11. CASE \E r \in Runs : UpdateNote(r)
  BY <1>11, GotoEffect, FilledStays DEF UpdateNote, Loaded, Stages
<1>12. CASE PowerLoss
  <2>1. \A s \in Runs : run'[s].stage = "off"
    BY <1>12 DEF PowerLoss, Off
  <2>2. QED
    BY <1>12, <2>1 DEF PowerLoss, Filled
<1>13. CASE UNCHANGED vars
  BY <1>13 DEF vars, Filled
<1>14. QED
  BY <1>1, <1>2, <1>3, <1>4, <1>5, <1>6, <1>7, <1>8, <1>9, <1>10, <1>11, <1>12, <1>13 DEF Next
-----------------------------------------------------------------------------
(* Records *)

\* Records are never removed, and a file that is gone never comes back.
Grows ==
  /\ done \subseteq done' /\ failed \subseteq failed'
  /\ \A i \in Items : file[i] = "gone" => file'[i] = "gone"

LEMMA StepGrows == ASSUME TypeOK, Filled, [Next]_vars PROVE Grows
<1> USE DEF queue, records, Grows
<1>1. CASE \E i \in Items : WriteNote(i) \/ CreateFile(i) \/ FillFile(i) \/ LogQueued(i) \/ AuthorDies(i)
  BY <1>1 DEF WriteNote, CreateFile, FillFile, LogQueued, AuthorDies, Written, TypeOK, Filled
<1>2. CASE \E r \in Runs : Examine(r)
  <2>1. PICK r \in Runs : Examine(r)
    BY <1>2
  <2>2. PICK i \in run[r].todo : ClearQueued(r, i) \/ Skip(r, i) \/ Execute(r, i)
    BY <2>1, ExamineCases
  <2>3. i \in Items
    BY DEF TypeOK, Run
  <2>4. QED
    BY <2>2, <2>3 DEF ClearQueued, Skip, Execute, TypeOK
<1>3. CASE \E r \in Runs : MoveRecord(r)
  BY <1>3 DEF MoveRecord, MoveHandoff, MoveAction, Record, TypeOK
<1>4. CASE \E r \in Runs : Unlink(r)
  BY <1>4 DEF Unlink, TypeOK
<1>5. CASE UNCHANGED <<file, done, failed>>
  BY <1>5
<1>6. QED
  BY <1>1, <1>2, <1>3, <1>4, <1>5
     DEF Next, StartTimer, StartDryRun, ListQueue, LoadQueue, Executed, ExecutionThrows,
         UpdateNote, LogOutcome, RunEnds, WaiterFires, BridgeCrash, PowerLoss, vars

LEMMA NothingLostStep ==
  ASSUME TypeOK, Filled, InOrder, NothingLost, [Next]_vars
  PROVE  NothingLost'
<1> USE DEF queue, records
<1>1. Grows
  BY StepGrows
<1>2. CASE \A i \in Items : file'[i] = "gone" => file[i] = "gone"
  BY <1>1, <1>2 DEF Grows, NothingLost
<1>3. CASE \E i \in Items : WriteNote(i) \/ CreateFile(i) \/ FillFile(i) \/ LogQueued(i) \/ AuthorDies(i)
  BY <1>2, <1>3 DEF WriteNote, CreateFile, FillFile, LogQueued, AuthorDies, Written, TypeOK
<1>4. CASE \E r \in Runs : Examine(r)
  <2>1. PICK r \in Runs : Examine(r)
    BY <1>4
  <2>2. PICK i \in run[r].todo :
          \/ Recorded(i) /\ ClearQueued(r, i)
          \/ Skip(r, i) \/ Execute(r, i)
    BY <2>1, ExamineCases
  <2>3. i \in Items
    BY DEF TypeOK, Run
  <2>4. QED
    BY <1>1, <1>2, <2>2, <2>3 DEF ClearQueued, Skip, Execute, Recorded, NothingLost, TypeOK, Grows
<1>5. CASE \E r \in Runs : MoveRecord(r)
  <2>1. PICK r \in Runs : MoveRecord(r)
    BY <1>5
  <2>2. CASE file' = file
    BY <1>2, <2>2
  <2>3. CASE HasRecord(run[r].item, run[r].outcome)
             /\ file' = [file EXCEPT ![run[r].item] = "gone"]
    BY <1>1, <2>3 DEF HasRecord, NothingLost, TypeOK, Grows
  <2>4. QED
    BY <2>1, <2>2, <2>3 DEF MoveRecord, MoveHandoff, MoveAction
<1>6. CASE \E r \in Runs : Unlink(r)
  <2>1. PICK r \in Runs : Unlink(r)
    BY <1>6
  <2>2. HasRecord(run[r].item, run[r].outcome)
    BY <2>1 DEF Unlink, InOrder
  <2>3. QED
    BY <1>1, <2>1, <2>2 DEF Unlink, HasRecord, NothingLost, TypeOK, Grows
<1>7. CASE UNCHANGED file
  BY <1>2, <1>7
<1>8. QED
  BY <1>3, <1>4, <1>5, <1>6, <1>7
     DEF Next, StartTimer, StartDryRun, ListQueue, LoadQueue, Executed, ExecutionThrows,
         UpdateNote, LogOutcome, RunEnds, WaiterFires, BridgeCrash, PowerLoss, vars

LEMMA ReportsStep ==
  ASSUME TypeOK, Filled, InOrder, ReportsAreTrue, [Next]_vars
  PROVE  ReportsAreTrue'
<1> USE DEF queue, records
<1>1. Grows
  BY StepGrows
<1>2. CASE \A i \in Items : /\ note'[i] \in {"done", "failed"} => note'[i] = note[i]
                            /\ log'[i] \in {"done", "failed"} => log'[i] = log[i]
  BY <1>1, <1>2 DEF Grows, ReportsAreTrue
<1>3. CASE \E i \in Items : WriteNote(i) \/ CreateFile(i) \/ FillFile(i) \/ LogQueued(i) \/ AuthorDies(i)
  BY <1>2, <1>3 DEF WriteNote, CreateFile, FillFile, LogQueued, AuthorDies, Written, TypeOK
<1>4. CASE \E r \in Runs : Examine(r)
  <2>1. PICK r \in Runs : Examine(r)
    BY <1>4
  <2>2. PICK i \in run[r].todo : ClearQueued(r, i) \/ Skip(r, i) \/ Execute(r, i)
    BY <2>1, ExamineCases
  <2>3. i \in Items
    BY DEF TypeOK, Run
  <2>4. QED
    BY <1>2, <2>2, <2>3 DEF ClearQueued, Skip, Execute, Log, TypeOK
<1>5. CASE \E r \in Runs : UpdateNote(r)
  <2>1. PICK r \in Runs : UpdateNote(r)
    BY <1>5
  <2>2. HasRecord(run[r].item, run[r].outcome) /\ run[r].outcome \in {"done", "failed"}
    BY <2>1 DEF UpdateNote, InOrder, TypeOK, Run
  <2>3. QED
    BY <2>1, <2>2 DEF UpdateNote, HasRecord, ReportsAreTrue, TypeOK
<1>6. CASE \E r \in Runs : LogOutcome(r)
  <2>1. PICK r \in Runs : LogOutcome(r)
    BY <1>6
  <2>2. HasRecord(run[r].item, run[r].outcome) /\ run[r].outcome \in {"done", "failed"}
    BY <2>1 DEF LogOutcome, InOrder, TypeOK, Run
  <2>3. QED
    BY <2>1, <2>2 DEF LogOutcome, Log, HasRecord, ReportsAreTrue, TypeOK
<1>7. CASE UNCHANGED <<note, log>>
  BY <1>2, <1>7
<1>8. QED
  BY <1>3, <1>4, <1>5, <1>6, <1>7
     DEF Next, StartTimer, StartDryRun, ListQueue, LoadQueue, Executed, ExecutionThrows,
         MoveRecord, Unlink, RunEnds, WaiterFires, BridgeCrash, PowerLoss, vars

\* A step that leaves a process without an outcome, or with the one it had,
\* leaves the writes in order.
LEMMA InOrderStays ==
  ASSUME TypeOK, InOrder, Grows, NEW r \in Runs, Only(r),
         \/ run'[r].stage \notin {"unlink", "note", "log"}
         \/ /\ run'[r].item = run[r].item /\ run'[r].outcome = run[r].outcome
            /\ run[r].item \in Items
            /\ HasRecord(run[r].item, run[r].outcome)'
            /\ run'[r].stage \in {"note", "log"} => file'[run[r].item] = "gone"
  PROVE  InOrder'
<1>1. ASSUME NEW s \in Runs, s # r, run[s].stage \in {"unlink", "note", "log"}
      PROVE  run[s].item \in Items
  BY <1>1 DEF TypeOK, Busy, Run
<1>2. QED
  BY <1>1 DEF Only, InOrder, HasRecord, Grows

LEMMA InOrderStep ==
  ASSUME TypeOK, Filled, InOrder, [Next]_vars
  PROVE  InOrder'
<1> USE DEF queue, records
<1>1. Grows
  BY StepGrows
<1>2. CASE UNCHANGED run
  <2>1. \A s \in Runs : Busy(s) => run[s].item \in Items
    BY DEF TypeOK, Run
  <2>2. QED
    BY <1>1, <1>2, <2>1 DEF InOrder, HasRecord, Grows, Busy
<1>3. CASE \E r \in Runs : StartTimer(r) \/ StartDryRun(r)
  BY <1>1, <1>3, StartEffect, InOrderStays DEF StartTimer, StartDryRun
<1>4. CASE \E r \in Runs : RunEnds(r) \/ WaiterFires(r) \/ BridgeCrash(r)
  BY <1>1, <1>4, ExitEffect, InOrderStays DEF RunEnds, WaiterFires, BridgeCrash
<1>5. CASE \E r \in Runs : ListQueue(r)
  BY <1>1, <1>5, ListEffect, InOrderStays
<1>6. CASE \E r \in Runs : LoadQueue(r)
  BY <1>1, <1>6, GotoEffect, ExitEffect, InOrderStays DEF LoadQueue, Stages
<1>7. CASE \E r \in Runs : Examine(r)
  <2>1. PICK r \in Runs : Examine(r)
    BY <1>7
  <2>2. PICK i \in run[r].todo : ClearQueued(r, i) \/ Skip(r, i) \/ Execute(r, i)
    BY <2>1, ExamineCases
  <2>3. QED
    BY <1>1, <2>2, NextItemEffect, ExecuteEffect, InOrderStays DEF ClearQueued, Skip
<1>8. CASE \E r \in Runs : Executed(r)
  BY <1>1, <1>8, ExecutedEffect, InOrderStays
<1>9. CASE \E r \in Runs : ExecutionThrows(r) \/ LogOutcome(r)
  BY <1>1, <1>9, NextItemEffect, InOrderStays DEF ExecutionThrows, LogOutcome
<1>10. CASE \E r \in Runs : MoveRecord(r)
  <2>1. PICK r \in Runs : MoveRecord(r)
    BY <1>10
  <2>2. run[r].item \in Items
    BY <2>1 DEF MoveRecord, TypeOK, Busy, Run
  <2>3. CASE NextItem(r, run[r].item)
    BY <1>1, <2>3, NextItemEffect, InOrderStays
  <2>4. CASE Record(run[r].item, run[r].outcome) /\ Goto(r, "unlink")
    BY <1>1, <2>2, <2>4, GotoEffect, InOrderStays DEF Record, HasRecord, Stages
  <2>5. CASE /\ HasRecord(run[r].item, run[r].outcome) /\ UNCHANGED records
             /\ file' = [file EXCEPT ![run[r].item] = "gone"]
             /\ Goto(r, "note")
    BY <1>1, <2>2, <2>5, GotoEffect, InOrderStays DEF HasRecord, Stages, TypeOK
  <2>6. QED
    BY <2>1, <2>3, <2>4, <2>5 DEF MoveRecord, MoveHandoff, MoveAction
<1>11. CASE \E r \in Runs : Unlink(r)
  <2>1. PICK r \in Runs : Unlink(r)
    BY <1>11
  <2>2. run[r].item \in Items /\ HasRecord(run[r].item, run[r].outcome)
    BY <2>1 DEF Unlink, TypeOK, Busy, Run, InOrder
  <2>3. CASE NextItem(r, run[r].item)
    BY <1>1, <2>3, NextItemEffect, InOrderStays
  <2>4. CASE file' = [file EXCEPT ![run[r].item] = "gone"] /\ Goto(r, "note")
    <3>1. /\ Only(r) /\ run'[r].stage = "note"
          /\ run'[r].item = run[r].item /\ run'[r].outcome = run[r].outcome
      BY <2>4, GotoEffect DEF Stages
    <3>2. file'[run[r].item] = "gone"
      BY <2>2, <2>4 DEF TypeOK
    <3>3. IF run[r].outcome = "done" THEN run[r].item \in done' ELSE run[r].item \in failed'
      BY <2>1, <2>2 DEF Unlink, HasRecord
    <3>4. QED
      BY <1>1, <2>2, <3>1, <3>2, <3>3 DEF InOrder, Only, HasRecord, Grows, TypeOK, Busy, Run
  <2>5. QED
    BY <2>1, <2>3, <2>4 DEF Unlink
<1>12. CASE \E r \in Runs : UpdateNote(r)
  <2>1. PICK r \in Runs : UpdateNote(r)
    BY <1>12
  <2>2. run[r].item \in Items
    BY <2>1 DEF UpdateNote, TypeOK, Busy, Run
  <2>3. QED
    BY <1>1, <2>1, <2>2, GotoEffect, InOrderStays DEF UpdateNote, HasRecord, Stages, InOrder
<1>13. CASE PowerLoss
  BY <1>13 DEF PowerLoss, Off, InOrder
<1>14. QED
  BY <1>2, <1>3, <1>4, <1>5, <1>6, <1>7, <1>8, <1>9, <1>10, <1>11, <1>12, <1>13
     DEF Next, WriteNote, CreateFile, FillFile, LogQueued, AuthorDies, Written, vars
-----------------------------------------------------------------------------
(* Executions *)

\* An execution goes on, or a request of the window without a record of its
\* success begins one.
LEMMA Begins ==
  ASSUME TypeOK, [Next]_vars, NEW s \in Runs, run'[s].stage = "exec"
  PROVE  \/ run[s].stage = "exec" /\ run'[s].item = run[s].item
         \/ \E i \in run[s].todo :
              /\ run[s].stage = "pick"
              /\ Execute(s, i) /\ ~Recorded(i)
              /\ run'[s].item = i
<1> USE DEF queue, records
<1>1. CASE UNCHANGED run
  BY <1>1
<1>2. ASSUME NEW r \in Runs, Only(r), s # r
      PROVE  run[s].stage = "exec" /\ run'[s].item = run[s].item
  BY <1>2 DEF Only
<1>3. CASE \E r \in Runs : StartTimer(r) \/ StartDryRun(r)
  BY <1>2, <1>3, StartEffect DEF StartTimer, StartDryRun
<1>4. CASE \E r \in Runs : RunEnds(r) \/ WaiterFires(r) \/ BridgeCrash(r)
  BY <1>2, <1>4, ExitEffect DEF RunEnds, WaiterFires, BridgeCrash
<1>5. CASE \E r \in Runs : ListQueue(r)
  BY <1>2, <1>5, ListEffect
<1>6. CASE \E r \in Runs : LoadQueue(r)
  BY <1>2, <1>6, GotoEffect, ExitEffect DEF LoadQueue, Stages
<1>7. CASE \E r \in Runs : Examine(r)
  <2>1. PICK r \in Runs : Examine(r)
    BY <1>7
  <2>2. run[r].stage = "pick"
    BY <2>1, ExamineCases
  <2>3. PICK i \in run[r].todo : \/ ClearQueued(r, i) \/ Skip(r, i)
                                 \/ ~Recorded(i) /\ Execute(r, i)
    BY <2>1, ExamineCases
  <2>4. CASE ClearQueued(r, i) \/ Skip(r, i)
    BY <1>2, <2>4, NextItemEffect DEF ClearQueued, Skip
  <2>5. CASE ~Recorded(i) /\ Execute(r, i)
    BY <1>2, <2>2, <2>5, ExecuteEffect
  <2>6. QED
    BY <2>3, <2>4, <2>5
<1>8. CASE \E r \in Runs : Executed(r)
  BY <1>2, <1>8, ExecutedEffect
<1>9. CASE \E r \in Runs : ExecutionThrows(r) \/ LogOutcome(r)
  BY <1>2, <1>9, NextItemEffect DEF ExecutionThrows, LogOutcome
<1>10. CASE \E r \in Runs : MoveRecord(r)
  BY <1>2, <1>10, GotoEffect, NextItemEffect DEF MoveRecord, MoveHandoff, MoveAction, Stages
<1>11. CASE \E r \in Runs : Unlink(r)
  BY <1>2, <1>11, GotoEffect, NextItemEffect DEF Unlink, Stages
<1>12. CASE \E r \in Runs : UpdateNote(r)
  BY <1>2, <1>12, GotoEffect DEF UpdateNote, Stages
<1>13. CASE PowerLoss
  BY <1>13 DEF PowerLoss, Off
<1>14. QED
  BY <1>1, <1>3, <1>4, <1>5, <1>6, <1>7, <1>8, <1>9, <1>10, <1>11, <1>12, <1>13
     DEF Next, WriteNote, CreateFile, FillFile, LogQueued, AuthorDies, Written, vars

\* Only the move of a record adds one.
LEMMA DoneGrows ==
  ASSUME TypeOK, [Next]_vars, done' # done
  PROVE  \E r \in Runs : MoveRecord(r) /\ done' \subseteq done \cup {run[r].item}
<1> USE DEF queue, records
<1>1. ASSUME NEW r \in Runs, Examine(r)
      PROVE  done' = done
  BY <1>1, ExamineCases DEF ClearQueued, Skip, Execute
<1>2. ASSUME NEW r \in Runs, MoveRecord(r)
      PROVE  done' \subseteq done \cup {run[r].item}
  BY <1>2 DEF MoveRecord, MoveHandoff, MoveAction, Record
<1>3. QED
  BY <1>1, <1>2
     DEF Next, WriteNote, CreateFile, FillFile, LogQueued, AuthorDies, Written, StartTimer,
         StartDryRun, ListQueue, LoadQueue, Executed, ExecutionThrows, Unlink, UpdateNote,
         LogOutcome, RunEnds, WaiterFires, BridgeCrash, PowerLoss, vars

LEMMA SuccessStep ==
  ASSUME TypeOK, Locked, SuccessIsFinal, [Next]_vars
  PROVE  SuccessIsFinal'
<1> SUFFICES ASSUME bridge' = "codex", NEW i \in done', NEW s \in Runs,
                    run'[s].stage = "exec", run'[s].item = i
             PROVE  FALSE
  BY DEF SuccessIsFinal, Executing
<1>1. bridge' = bridge
  BY ExamineCases
     DEF Next, WriteNote, CreateFile, FillFile, LogQueued, AuthorDies, Written, StartTimer,
         StartDryRun, ListQueue, LoadQueue, Executed, ExecutionThrows, MoveRecord, Unlink,
         UpdateNote, LogOutcome, RunEnds, WaiterFires, BridgeCrash, PowerLoss, vars, queue,
         ClearQueued, Skip, Execute
<1>2. CASE run[s].stage = "exec" /\ run[s].item = i
  <2>1. i \notin done
    BY <1>1, <1>2 DEF SuccessIsFinal, Executing
  <2>2. PICK r \in Runs : MoveRecord(r)
    BY <2>1, DoneGrows
  <2>3. r \in Timers /\ s \in Timers
    BY <1>2, <2>2 DEF Locked, Timers, Alive, Busy, MoveRecord
  <2>4. r = s
    BY <2>3 DEF Locked, SingleTimer
  <2>5. QED
    BY <1>2, <2>2, <2>4 DEF MoveRecord
<1>3. CASE \E j \in run[s].todo : Execute(s, j) /\ ~Recorded(j) /\ run'[s].item = j
  BY <1>1, <1>3 DEF Execute, Recorded, records
<1>4. QED
  BY <1>2, <1>3, Begins
-----------------------------------------------------------------------------
(* Attempts *)

\* One process moves and begins no execution.
LEMMA SettledStays ==
  ASSUME TypeOK, Settled, Grows, bridge' = bridge, NEW r \in Runs, Only(r),
         Attempted' \subseteq Attempted,
         \A i \in Attempted' :
           Busy(r) /\ run[r].item = i
             => file'[i] = "gone" \/ (Busy(r)' /\ run'[r].item = i),
         Alive(r)' /\ run'[r].mode = "timer" =>
           \/ run'[r].todo = {}
           \/ /\ Alive(r) /\ run[r].mode = "timer"
              /\ run'[r].todo \subseteq run[r].todo
              /\ \A i \in run'[r].todo \cap Attempted' :
                   Busy(r) /\ run[r].item = i => Busy(r)' /\ run'[r].item = i
  PROVE  Settled'
<1> SUFFICES ASSUME bridge' = "codex" PROVE Settled'
  BY DEF Settled
<1>1. ASSUME NEW i \in Attempted'
      PROVE  file'[i] = "gone" \/ \E s \in Runs : Busy(s)' /\ run'[s].item = i
  <2>1. i \in Attempted /\ i \in Items
    BY <1>1 DEF Attempted, TypeOK
  <2>2. CASE file[i] = "gone"
    BY <2>1, <2>2 DEF Grows
  <2>3. CASE \E s \in Runs : Busy(s) /\ run[s].item = i
    <3>1. PICK s \in Runs : Busy(s) /\ run[s].item = i
      BY <2>3
    <3>2. CASE s = r
      BY <1>1, <3>1, <3>2
    <3>3. CASE s # r
      BY <3>1, <3>3 DEF Only, Busy
    <3>4. QED
      BY <3>2, <3>3
  <2>4. QED
    BY <2>1, <2>2, <2>3 DEF Settled
<1>2. ASSUME NEW s \in Timers', NEW i \in run'[s].todo \cap Attempted'
      PROVE  Busy(s)' /\ run'[s].item = i
  <2>1. s \in Runs /\ i \in Attempted
    BY <1>2 DEF Timers
  <2>2. CASE s = r
    <3>1. r \in Timers /\ i \in run[r].todo \cap Attempted
      BY <1>2, <2>1, <2>2 DEF Timers
    <3>2. Busy(r) /\ run[r].item = i
      BY <3>1 DEF Settled
    <3>3. QED
      BY <1>2, <2>2, <3>2 DEF Timers
  <2>3. CASE s # r
    <3>1. s \in Timers /\ i \in run[s].todo \cap Attempted
      BY <1>2, <2>1, <2>3 DEF Timers, Alive, Only
    <3>2. Busy(s) /\ run[s].item = i
      BY <3>1 DEF Settled
    <3>3. QED
      BY <2>1, <2>3, <3>2 DEF Only, Busy
  <2>4. QED
    BY <2>2, <2>3
<1>3. QED
  BY <1>1, <1>2 DEF Settled

\* A run that lists the queue finds no request in it that has been attempted.
LEMMA SettledList ==
  ASSUME TypeOK, Locked, Settled, NEW r \in Runs, ListQueue(r)
  PROVE  Settled'
<1> SUFFICES ASSUME bridge = "codex" PROVE Settled'
  BY DEF Settled, ListQueue, queue
<1>1. /\ Only(r) /\ run'[r].stage = "load" /\ run'[r].todo = Window
      /\ run'[r].mode = run[r].mode
  BY ListEffect
<1>2. Attempted' = Attempted /\ file' = file
  BY DEF ListQueue, queue, Attempted
<1>3. \A s \in Runs : Busy(s) => s # r
  BY DEF ListQueue, Busy
<1>4. ASSUME NEW i \in Attempted'
      PROVE  file'[i] = "gone" \/ \E s \in Runs : Busy(s)' /\ run'[s].item = i
  BY <1>1, <1>2, <1>3, <1>4 DEF Settled, Only, Busy
<1>5. ASSUME NEW s \in Timers', NEW i \in run'[s].todo \cap Attempted'
      PROVE  Busy(s)' /\ run'[s].item = i
  <2>1. CASE s = r
    <3>1. i \in Attempted /\ file[i] # "gone"
      BY <1>1, <1>2, <1>5, <2>1 DEF Window, Queued
    <3>2. PICK q \in Runs : Busy(q)
      BY <3>1 DEF Settled
    <3>3. q \in Timers /\ r \in Timers
      BY <1>1, <1>5, <2>1, <3>2 DEF Timers, Locked, Alive, Busy, ListQueue
    <3>4. q = r
      BY <3>3 DEF Locked, SingleTimer
    <3>5. QED
      BY <1>3, <3>2, <3>4
  <2>2. CASE s # r
    <3>1. s \in Timers /\ i \in run[s].todo \cap Attempted
      BY <1>1, <1>2, <1>5, <2>2 DEF Timers, Alive, Only
    <3>2. QED
      BY <1>1, <2>2, <3>1 DEF Settled, Only, Busy, Timers
  <2>3. QED
    BY <2>1, <2>2
<1>6. QED
  BY <1>4, <1>5 DEF Settled

LEMMA SettledExecute ==
  ASSUME TypeOK, Locked, Settled, NEW r \in Runs, NEW i \in run[r].todo,
         run[r].stage = "pick", Execute(r, i)
  PROVE  Settled'
<1> SUFFICES ASSUME bridge = "codex" PROVE Settled'
  BY DEF Settled, Execute
<1>1. /\ Only(r) /\ run'[r].stage = "exec" /\ run'[r].item = i
      /\ run'[r].mode = run[r].mode /\ run'[r].todo = run[r].todo
  BY ExecuteEffect
<1>2. Attempted' \subseteq Attempted \cup {i} /\ file' = file
  BY DEF Execute, records, Attempted
<1>3. r \in Timers /\ ~Busy(r)
  BY DEF Execute, Timers, Alive, Busy
<1>4. ASSUME NEW j \in Attempted'
      PROVE  file'[j] = "gone" \/ \E s \in Runs : Busy(s)' /\ run'[s].item = j
  <2>1. CASE j = i
    BY <1>1, <2>1 DEF Busy
  <2>2. CASE j # i
    BY <1>1, <1>2, <1>3, <1>4, <2>2 DEF Settled, Only, Busy
  <2>3. QED
    BY <2>1, <2>2
<1>5. ASSUME NEW s \in Timers', NEW j \in run'[s].todo \cap Attempted'
      PROVE  Busy(s)' /\ run'[s].item = j
  <2>1. s = r
    BY <1>1, <1>3 DEF Timers, Alive, Only, Locked, SingleTimer
  <2>2. j \notin Attempted
    BY <1>1, <1>3, <1>5, <2>1 DEF Settled
  <2>3. j = i
    BY <1>2, <1>5, <2>2
  <2>4. QED
    BY <1>1, <2>1, <2>3 DEF Busy
<1>6. QED
  BY <1>4, <1>5 DEF Settled

\* A process dies: what it had in hand is no longer an attempt, or its file
\* is gone.
LEMMA SettledExit ==
  ASSUME TypeOK, InOrder, Settled, NEW r \in Runs, Exit(r),
         ran' = ran \ Held(r), UNCHANGED queue
  PROVE  Settled'
<1>1. Only(r) /\ run'[r].stage = "off"
  BY ExitEffect
<1>2. Attempted' = Attempted \ Held(r) /\ Grows
  BY DEF Attempted, queue, records, Grows
<1>3. ASSUME NEW i \in Attempted', Busy(r), run[r].item = i
      PROVE  file'[i] = "gone"
  BY <1>2, <1>3 DEF Held, InOrder, Busy, queue
<1>4. QED
  BY <1>1, <1>2, <1>3, SettledStays DEF Alive, queue

LEMMA SettledStep ==
  ASSUME TypeOK, Locked, Filled, InOrder, Settled, [Next]_vars
  PROVE  Settled'
<1> USE DEF queue, records
<1>1. Grows
  BY StepGrows
<1>2. CASE UNCHANGED <<bridge, run, ran, done>>
  BY <1>1, <1>2 DEF Settled, Attempted, Timers, Alive, Busy, Grows, TypeOK
<1>3. CASE \E r \in Runs : StartTimer(r) \/ StartDryRun(r)
  BY <1>1, <1>3, StartEffect, SettledStays DEF StartTimer, StartDryRun, Attempted, Alive, Busy
<1>4. CASE \E r \in Runs : WaiterFires(r) \/ BridgeCrash(r)
  BY <1>4, SettledExit DEF WaiterFires, BridgeCrash
<1>5. CASE \E r \in Runs : RunEnds(r)
  <2>1. PICK r \in Runs : RunEnds(r)
    BY <1>5
  <2>2. Exit(r) /\ ran' = ran \ Held(r)
    BY <2>1 DEF RunEnds, Held
  <2>3. QED
    BY <2>1, <2>2, SettledExit DEF RunEnds
<1>6. CASE \E r \in Runs : ListQueue(r)
  BY <1>6, SettledList
<1>7. CASE \E r \in Runs : LoadQueue(r)
  <2>1. PICK r \in Runs : LoadQueue(r)
    BY <1>7
  <2>2. CASE Exit(r)
    <3>1. ran' = ran \ Held(r)
      BY <2>1 DEF LoadQueue, Held
    <3>2. QED
      BY <2>1, <2>2, <3>1, SettledExit DEF LoadQueue
  <2>3. CASE Goto(r, "pick")
    BY <1>1, <2>1, <2>3, GotoEffect, SettledStays DEF LoadQueue, Attempted, Alive, Busy, Stages
  <2>4. QED
    BY <2>1, <2>2, <2>3 DEF LoadQueue
<1>8. CASE \E r \in Runs : Examine(r)
  <2>1. PICK r \in Runs : Examine(r)
    BY <1>8
  <2>2. run[r].stage = "pick"
    BY <2>1, ExamineCases
  <2>3. PICK i \in run[r].todo : ClearQueued(r, i) \/ Skip(r, i) \/ Execute(r, i)
    BY <2>1, ExamineCases
  <2>4. CASE ClearQueued(r, i) \/ Skip(r, i)
    <3>1. /\ Only(r) /\ run'[r].stage = "pick" /\ run'[r].mode = run[r].mode
          /\ run'[r].todo \subseteq run[r].todo
      BY <2>4, NextItemEffect DEF ClearQueued, Skip
    <3>2. Attempted' = Attempted /\ bridge' = bridge
      BY <2>4 DEF ClearQueued, Skip, Attempted
    <3>3. QED
      BY <1>1, <2>2, <3>1, <3>2, SettledStays DEF Alive, Busy
  <2>5. CASE Execute(r, i)
    BY <2>2, <2>5, SettledExecute
  <2>6. QED
    BY <2>3, <2>4, <2>5
<1>9. CASE \E r \in Runs : Executed(r)
  BY <1>1, <1>9, ExecutedEffect, SettledStays DEF Executed, Attempted, Alive, Busy
<1>10. CASE \E r \in Runs : ExecutionThrows(r)
  BY <1>10 DEF ExecutionThrows, Settled
<1>11. CASE \E r \in Runs : LogOutcome(r)
  <2>1. PICK r \in Runs : LogOutcome(r)
    BY <1>11
  <2>2. /\ Only(r) /\ run'[r].stage = "pick" /\ run'[r].mode = run[r].mode
        /\ run'[r].todo = run[r].todo \ {run[r].item}
    BY <2>1, NextItemEffect DEF LogOutcome
  <2>3. file'[run[r].item] = "gone"
    BY <2>1 DEF LogOutcome, InOrder
  <2>4. QED
    BY <1>1, <2>1, <2>2, <2>3, SettledStays DEF LogOutcome, Attempted, Alive
<1>12. CASE \E r \in Runs : MoveRecord(r)
  <2>1. PICK r \in Runs : MoveRecord(r)
    BY <1>12
  <2>2. CASE bridge = "action"
    BY <2>1, <2>2 DEF MoveRecord, Settled
  <2>3. CASE bridge # "action"
    <3>1. MoveHandoff(r, run[r].item)
      BY <2>1, <2>3 DEF MoveRecord, MoveAction
    <3>2. /\ Only(r) /\ run'[r].stage \in {"note", "unlink"} /\ run'[r].mode = run[r].mode
          /\ run'[r].todo = run[r].todo /\ run'[r].item = run[r].item
      BY <3>1, GotoEffect DEF MoveHandoff, Stages
    <3>3. Attempted' \subseteq Attempted /\ bridge' = bridge
      BY <1>1, <2>1 DEF MoveRecord, Attempted, Grows
    <3>4. QED
      BY <1>1, <2>1, <3>2, <3>3, SettledStays DEF MoveRecord, Alive, Busy
  <2>4. QED
    BY <2>2, <2>3
<1>13. CASE \E r \in Runs : Unlink(r)
  <2>1. PICK r \in Runs : Unlink(r)
    BY <1>13
  <2>2. Attempted' = Attempted /\ bridge' = bridge
    BY <2>1 DEF Unlink, Attempted
  <2>3. CASE Goto(r, "note")
    BY <1>1, <2>1, <2>2, <2>3, GotoEffect, SettledStays DEF Unlink, Alive, Busy, Stages
  <2>4. CASE file[run[r].item] # "queued" /\ UNCHANGED file /\ NextItem(r, run[r].item)
    <3>1. /\ Only(r) /\ run'[r].stage = "pick" /\ run'[r].mode = run[r].mode
          /\ run'[r].todo = run[r].todo \ {run[r].item}
      BY <2>4, NextItemEffect
    <3>2. file'[run[r].item] = "gone"
      BY <2>1, <2>4 DEF Unlink, Filled, TypeOK, Busy
    <3>3. QED
      BY <1>1, <2>1, <2>2, <3>1, <3>2, SettledStays DEF Unlink, Alive
  <2>5. QED
    BY <2>1, <2>3, <2>4 DEF Unlink
<1>14. CASE \E r \in Runs : UpdateNote(r)
  BY <1>1, <1>14, GotoEffect, SettledStays DEF UpdateNote, Attempted, Alive, Busy, Stages
<1>15. CASE PowerLoss
  <2>1. Attempted' = Attempted \ UNION {Held(r) : r \in Runs}
    BY <1>15 DEF PowerLoss, Attempted
  <2>2. Timers' = {}
    BY <1>15 DEF PowerLoss, Off, Timers, Alive
  <2>3. ASSUME NEW i \in Attempted', bridge = "codex"
        PROVE  file'[i] = "gone"
    <3>1. i \in Attempted /\ \A s \in Runs : i \notin Held(s)
      BY <2>1, <2>3
    <3>2. CASE \E s \in Runs : Busy(s) /\ run[s].item = i
      BY <1>15, <3>1, <3>2 DEF PowerLoss, Held, InOrder, Busy
    <3>3. QED
      BY <1>15, <2>3, <3>1, <3>2 DEF PowerLoss, Settled
  <2>4. QED
    BY <1>15, <2>2, <2>3 DEF PowerLoss, Settled
<1>16. CASE \E i \in Items : WriteNote(i) \/ CreateFile(i) \/ FillFile(i) \/ LogQueued(i) \/ AuthorDies(i)
  BY <1>2, <1>16 DEF WriteNote, CreateFile, FillFile, LogQueued, AuthorDies, Written
<1>17. CASE UNCHANGED vars
  BY <1>2, <1>17 DEF vars
<1>18. QED
  BY <1>3, <1>4, <1>5, <1>6, <1>7, <1>8, <1>9, <1>10, <1>11, <1>12, <1>13, <1>14, <1>15,
     <1>16, <1>17 DEF Next
-----------------------------------------------------------------------------
(* What the runs have in hand *)

LEMMA BridgeStays == ASSUME [Next]_vars PROVE bridge' = bridge
BY ExamineCases
   DEF Next, WriteNote, CreateFile, FillFile, LogQueued, AuthorDies, Written, StartTimer,
       StartDryRun, ListQueue, LoadQueue, Executed, ExecutionThrows, MoveRecord, Unlink,
       UpdateNote, LogOutcome, RunEnds, WaiterFires, BridgeCrash, PowerLoss, vars, queue,
       ClearQueued, Skip, Execute

\* One process moves.  What it clears without being the timer's run has its
\* success on record, and the timer's run is the only one that is busy.
LEMMA HandStays ==
  ASSUME TypeOK, Locked, HandOK, Grows, bridge' = bridge, NEW r \in Runs, Only(r),
         \/ r \in Timers
         \/ /\ done' = done
            /\ \A i \in Items : file'[i] = file[i] \/ Recorded(i),
         r \in Timers' /\ run'[r].stage \in Loaded =>
           \A i \in run'[r].todo :
             file'[i] = "gone" => Recorded(i)' \/ (Busy(r)' /\ run'[r].item = i),
         run'[r].stage \in {"exec", "move"} =>
           file'[run'[r].item] = "queued" /\ ~Recorded(run[r].item)'
  PROVE  HandOK'
<1>1. \A i \in Items : Recorded(i) => Recorded(i)'
  BY DEF Recorded, Grows
<1>2. ASSUME NEW s \in Timers', run'[s].stage \in Loaded, NEW i \in run'[s].todo, file'[i] = "gone"
      PROVE  Recorded(i)' \/ (Busy(s)' /\ run'[s].item = i)
  <2>1. CASE s = r
    BY <1>2, <2>1
  <2>2. CASE s # r
    <3>1. s \in Runs /\ run'[s] = run[s] /\ s \in Timers /\ i \in Items
      BY <1>2, <2>2 DEF Only, Timers, Alive, TypeOK, Run
    <3>2. r \notin Timers
      BY <2>2, <3>1 DEF Locked, SingleTimer
    <3>3. file[i] = "gone" \/ Recorded(i)
      BY <1>2, <3>1, <3>2
    <3>4. QED
      BY <1>1, <1>2, <3>1, <3>3 DEF HandOK, Busy
  <2>3. QED
    BY <2>1, <2>2
<1>3. ASSUME NEW s \in Runs, run'[s].stage \in {"exec", "move"}
      PROVE  file'[run'[s].item] = "queued" /\ ~Recorded(run[s].item)'
  <2>1. CASE s = r
    BY <1>3, <2>1
  <2>2. CASE s # r
    <3>1. run'[s] = run[s]
      BY <2>2 DEF Only
    <3>2. Busy(s) /\ run[s].item \in Items
      BY <1>3, <3>1 DEF Busy, TypeOK, Run
    <3>3. s \in Timers
      BY <3>2 DEF Locked, Timers, Alive, Busy
    <3>4. r \notin Timers
      BY <2>2, <3>3 DEF Locked, SingleTimer
    <3>5. file[run[s].item] = "queued" /\ ~Recorded(run[s].item)
      BY <1>3, <3>1 DEF HandOK
    <3>6. file'[run[s].item] = file[run[s].item] /\ done' = done
      BY <3>2, <3>4, <3>5
    <3>7. QED
      BY <3>1, <3>5, <3>6 DEF Recorded
  <2>3. QED
    BY <2>1, <2>2
<1>4. QED
  BY <1>2, <1>3 DEF HandOK

LEMMA HandStep ==
  ASSUME TypeOK, Locked, Filled, InOrder, HandOK, [Next]_vars
  PROVE  HandOK'
<1> USE DEF queue, records
<1>1. Grows /\ bridge' = bridge
  BY StepGrows, BridgeStays
<1>2. \A r \in Runs : run[r].todo \subseteq Items
  BY DEF TypeOK, Run
<1>3. CASE \E i \in Items : WriteNote(i) \/ CreateFile(i) \/ FillFile(i) \/ LogQueued(i) \/ AuthorDies(i)
  <2>1. PICK i \in Items : WriteNote(i) \/ CreateFile(i) \/ FillFile(i) \/ LogQueued(i) \/ AuthorDies(i)
    BY <1>3
  <2>2. UNCHANGED <<run, done>>
    BY <2>1 DEF WriteNote, CreateFile, FillFile, LogQueued, AuthorDies, Written
  <2>3. \A j \in Items : \/ file'[j] = file[j]
                         \/ file[j] \in {"none", "torn"} /\ file'[j] \in {"torn", "queued"}
    BY <2>1 DEF WriteNote, CreateFile, FillFile, LogQueued, AuthorDies, Written, Filled, TypeOK
  <2>4. \A r \in Runs : run[r].stage \in {"exec", "move"} => run[r].item \in Items
    BY <1>2 DEF TypeOK, Busy
  <2>5. QED
    BY <1>1, <1>2, <2>2, <2>3, <2>4 DEF HandOK, Timers, Alive, Busy, Recorded
<1>4. CASE \E r \in Runs : StartTimer(r) \/ StartDryRun(r)
  BY <1>1, <1>4, StartEffect, HandStays DEF StartTimer, StartDryRun, Loaded
<1>5. CASE \E r \in Runs : RunEnds(r) \/ WaiterFires(r) \/ BridgeCrash(r)
  BY <1>1, <1>5, ExitEffect, HandStays DEF RunEnds, WaiterFires, BridgeCrash, Loaded
<1>6. CASE \E r \in Runs : ListQueue(r)
  BY <1>1, <1>6, ListEffect, HandStays DEF ListQueue, Loaded
<1>7. CASE \E r \in Runs : LoadQueue(r)
  <2>1. PICK r \in Runs : LoadQueue(r)
    BY <1>7
  <2>2. UNCHANGED <<file, done>>
    BY <2>1 DEF LoadQueue
  <2>3. CASE Exit(r)
    BY <1>1, <2>2, <2>3, ExitEffect, HandStays DEF Loaded
  <2>4. CASE Goto(r, "pick") /\ \A i \in run[r].todo : file[i] = "queued"
    <3>1. Only(r) /\ run'[r].stage = "pick" /\ run'[r].todo = run[r].todo
      BY <2>4, GotoEffect DEF Stages
    <3>2. QED
      BY <1>1, <2>2, <2>4, <3>1, HandStays
  <2>5. QED
    BY <2>1, <2>3, <2>4 DEF LoadQueue
<1>8. CASE \E r \in Runs : Examine(r)
  <2>1. PICK r \in Runs : Examine(r)
    BY <1>8
  <2>2. run[r].stage = "pick" /\ ~Busy(r)
    BY <2>1, ExamineCases DEF Busy
  <2>3. PICK i \in run[r].todo : \/ Recorded(i) /\ ClearQueued(r, i)
                                 \/ Skip(r, i)
                                 \/ ~Recorded(i) /\ Execute(r, i)
    BY <2>1, ExamineCases
  <2>4. i \in Items /\ \A j \in Items : Recorded(j) => Recorded(j)'
    BY <1>1, <1>2 DEF Recorded, Grows
  <2>5. r \in Timers => \A j \in run[r].todo : file[j] = "gone" => Recorded(j)
    BY <2>2 DEF HandOK, Loaded
  <2>6. CASE Recorded(i) /\ ClearQueued(r, i)
    <3>1. /\ Only(r) /\ run'[r].stage = "pick" /\ run'[r].mode = run[r].mode
          /\ run'[r].todo = run[r].todo \ {i}
      BY <2>6, NextItemEffect DEF ClearQueued
    <3>2. done' = done /\ \A j \in Items : file'[j] = file[j] \/ Recorded(j)
      BY <2>4, <2>6 DEF ClearQueued, TypeOK
    <3>3. r \in Timers' => r \in Timers
      BY <2>2, <3>1 DEF Timers, Alive
    <3>4. QED
      BY <1>1, <1>2, <2>4, <2>5, <3>1, <3>2, <3>3, HandStays
  <2>7. CASE Skip(r, i)
    <3>1. /\ Only(r) /\ run'[r].stage = "pick" /\ run'[r].mode = run[r].mode
          /\ run'[r].todo = run[r].todo \ {i}
      BY <2>7, NextItemEffect DEF Skip
    <3>2. UNCHANGED <<file, done>>
      BY <2>7 DEF Skip
    <3>3. r \in Timers' => r \in Timers
      BY <2>2, <3>1 DEF Timers, Alive
    <3>4. QED
      BY <1>1, <1>2, <2>4, <2>5, <3>1, <3>2, <3>3, HandStays
  <2>8. CASE ~Recorded(i) /\ Execute(r, i)
    <3>1. /\ Only(r) /\ run'[r].stage = "exec" /\ run'[r].item = i
          /\ run'[r].todo = run[r].todo
      BY <2>8, ExecuteEffect
    <3>2. UNCHANGED <<file, done>> /\ r \in Timers
      BY <2>2, <2>8 DEF Execute, Timers, Alive
    <3>3. file[i] = "queued"
      BY <2>2, <2>5, <2>8, <3>2 DEF Filled
    <3>4. ~Recorded(i)'
      BY <1>1, <2>8, <3>2 DEF Recorded
    <3>5. QED
      BY <1>1, <1>2, <2>4, <2>5, <3>1, <3>2, <3>3, <3>4, HandStays
  <2>9. QED
    BY <2>3, <2>6, <2>7, <2>8
\* From here on the process that moves is busy: it is the timer's run.
<1>b. ASSUME NEW r \in Runs, Busy(r)
      PROVE  /\ r \in Timers /\ run[r].stage \in Loaded
             /\ run[r].item \in Items
             /\ \A i \in run[r].todo : file[i] = "gone" /\ i # run[r].item => Recorded(i)'
  <2>1. r \in Timers /\ run[r].stage \in Loaded
    BY <1>b DEF Locked, Timers, Alive, Busy, Loaded
  <2>2. \A i \in run[r].todo : file[i] = "gone" /\ i # run[r].item => Recorded(i)
    BY <2>1 DEF HandOK
  <2>3. QED
    BY <1>1, <1>2, <1>b, <2>1, <2>2 DEF Recorded, Grows, TypeOK
<1>9. CASE \E r \in Runs : Executed(r)
  <2>1. PICK r \in Runs : Executed(r)
    BY <1>9
  <2>2. /\ Only(r) /\ run'[r].stage = "move" /\ run'[r].todo = run[r].todo
        /\ run'[r].item = run[r].item
    BY <2>1, ExecutedEffect
  <2>3. Busy(r) /\ Busy(r)' /\ run[r].stage = "exec" /\ UNCHANGED <<file, done>>
    BY <2>1, <2>2 DEF Executed, Busy
  <2>4. file'[run'[r].item] = "queued" /\ ~Recorded(run[r].item)'
    BY <1>1, <2>2, <2>3 DEF HandOK, Recorded
  <2>5. QED
    BY <1>1, <1>b, <2>2, <2>3, <2>4, HandStays
<1>10. CASE \E r \in Runs : ExecutionThrows(r) \/ LogOutcome(r)
  <2>1. PICK r \in Runs : ExecutionThrows(r) \/ LogOutcome(r)
    BY <1>10
  <2>2. Busy(r) /\ UNCHANGED <<file, done>>
    BY <2>1 DEF ExecutionThrows, LogOutcome, Busy
  <2>3. Only(r) /\ run'[r].stage = "pick" /\ run'[r].todo = run[r].todo \ {run[r].item}
    BY <2>1, NextItemEffect DEF ExecutionThrows, LogOutcome
  <2>4. QED
    BY <1>1, <1>b, <2>2, <2>3, HandStays
<1>11. CASE \E r \in Runs : MoveRecord(r) \/ Unlink(r) \/ UpdateNote(r)
  <2>1. PICK r \in Runs : MoveRecord(r) \/ Unlink(r) \/ UpdateNote(r)
    BY <1>11
  <2>2. Busy(r)
    BY <2>1 DEF MoveRecord, Unlink, UpdateNote, Busy
  <2>3. \A i \in Items \ {run[r].item} : file'[i] = file[i]
    BY <2>1 DEF MoveRecord, MoveHandoff, MoveAction, Unlink, UpdateNote, TypeOK
  <2>4. \/ NextItem(r, run[r].item)
        \/ \E st \in {"unlink", "note", "log"} : Goto(r, st)
    BY <2>1 DEF MoveRecord, MoveHandoff, MoveAction, Unlink, UpdateNote
  <2>5. CASE NextItem(r, run[r].item)
    <3>1. Only(r) /\ run'[r].stage = "pick" /\ run'[r].todo = run[r].todo \ {run[r].item}
      BY <2>5, NextItemEffect
    <3>2. QED
      BY <1>1, <1>2, <1>b, <2>2, <2>3, <3>1, HandStays
  <2>6. CASE \E st \in {"unlink", "note", "log"} : Goto(r, st)
    <3>1. /\ Only(r) /\ run'[r].stage \in {"unlink", "note", "log"}
          /\ run'[r].todo = run[r].todo /\ run'[r].item = run[r].item
      BY <2>6, GotoEffect DEF Stages
    <3>2. Busy(r)'
      BY <3>1 DEF Busy
    <3>3. QED
      BY <1>1, <1>2, <1>b, <2>2, <2>3, <3>1, <3>2, HandStays
  <2>7. QED
    BY <2>4, <2>5, <2>6
<1>12. CASE PowerLoss
  BY <1>12 DEF PowerLoss, Off, HandOK, Loaded, Timers, Alive
<1>13. CASE UNCHANGED vars
  BY <1>13 DEF vars, HandOK, Timers, Alive, Busy, Recorded
<1>14. QED
  BY <1>3, <1>4, <1>5, <1>6, <1>7, <1>8, <1>9, <1>10, <1>11, <1>12, <1>13 DEF Next

\* Only the tool call begins a note, and a bridge only changes one.
LEMMA SilentStep == ASSUME TypeOK, Silent, [Next]_vars PROVE Silent'
<1> USE DEF queue, records
<1>1. CASE \E i \in Items : WriteNote(i)
  BY <1>1 DEF WriteNote, Written, Silent, TypeOK
<1>2. CASE \E r \in Runs : UpdateNote(r)
  BY <1>2 DEF UpdateNote, Silent, TypeOK
<1>3. CASE note' = note /\ \A i \in Items : author'[i] = "idle" => author[i] = "idle"
  BY <1>3 DEF Silent
<1>4. CASE \E i \in Items : CreateFile(i) \/ FillFile(i) \/ LogQueued(i) \/ AuthorDies(i)
  BY <1>3, <1>4 DEF CreateFile, FillFile, LogQueued, AuthorDies, Written, TypeOK
<1>5. ASSUME NEW r \in Runs, Examine(r)
      PROVE  Silent'
  BY <1>3, <1>5, ExamineCases DEF ClearQueued, Skip, Execute
<1>6. QED
  BY <1>1, <1>2, <1>3, <1>4, <1>5
     DEF Next, StartTimer, StartDryRun, ListQueue, LoadQueue, Executed, ExecutionThrows,
         MoveRecord, Unlink, LogOutcome, RunEnds, WaiterFires, BridgeCrash, PowerLoss, vars
-----------------------------------------------------------------------------
(* The abstract ledger *)

\* The refinement mapping, opened once.
LEMMA Mapped ==
  /\ \A i \in Items :
       /\ State[i] = IF file[i] \in {"none", "torn"} THEN "absent"
                     ELSE IF file[i] = "gone" THEN "gone"
                     ELSE IF Worked(i) THEN "worked" ELSE "queued"
       /\ Outcomes[i] = {o \in {"done", "failed"} : HasRecord(i, o)}
  /\ \A i \in Items :
       /\ State'[i] = IF file'[i] \in {"none", "torn"} THEN "absent"
                      ELSE IF file'[i] = "gone" THEN "gone"
                      ELSE IF Worked(i)' THEN "worked" ELSE "queued"
       /\ Outcomes'[i] = {o \in {"done", "failed"} : HasRecord(i, o)'}
BY DEF State, Outcomes

LEMMA OutcomesAre ==
  /\ \A i \in Items : /\ "done" \in Outcomes[i] <=> i \in done
                      /\ "failed" \in Outcomes[i] <=> i \in failed
                      /\ Outcomes[i] \subseteq {"done", "failed"}
  /\ \A i \in Items : /\ "done" \in Outcomes'[i] <=> i \in done'
                      /\ "failed" \in Outcomes'[i] <=> i \in failed'
                      /\ Outcomes'[i] \subseteq {"done", "failed"}
BY DEF Outcomes, HasRecord

LEMMA SameOutcomes ==
  ASSUME NEW i \in Items, i \in done' <=> i \in done, i \in failed' <=> i \in failed
  PROVE  Outcomes'[i] = Outcomes[i]
<1>1. \A o : o \in Outcomes'[i] <=> o \in Outcomes[i]
  <2>1. \A o \in Outcomes[i] \cup Outcomes'[i] : o \in {"done", "failed"}
    BY OutcomesAre
  <2>2. \A o \in {"done", "failed"} : o \in Outcomes'[i] <=> o \in Outcomes[i]
    BY OutcomesAre
  <2>3. QED
    BY <2>1, <2>2
<1>2. QED
  BY <1>1

\* What the abstract ledger sees of a request besides who works on it.
Still(i) ==
  /\ file'[i] = file[i] /\ note'[i] = note[i]
  /\ (i \in done' <=> i \in done) /\ (i \in failed' <=> i \in failed)

\* Nobody begins to work on it: it is left alone, or its work is broken off.
LEMMA StillMoves ==
  ASSUME NEW i \in Items, Still(i),
         Worked(i)' => Worked(i)
  PROVE  Ledger!Move(i)
<1>1. Outcomes'[i] = Outcomes[i]
  BY SameOutcomes DEF Still
<1>2. \/ State'[i] = State[i]
      \/ State[i] = "worked" /\ State'[i] = "queued"
  BY Mapped DEF Still
<1>3. QED
  BY <1>1, <1>2 DEF Still, Ledger!Move, Ledger!BrokenOff, Ledger!Untouched, Ledger!Goes,
     Ledger!Unrecorded, Ledger!Untold

\* What a process has in hand is in the queue or gone, and in no other hands.
LEMMA HeldOnce ==
  ASSUME TypeOK, Locked, Filled, NEW r \in Runs, NEW i \in Held(r)
  PROVE  /\ run[r].item = i /\ i \in Items /\ Worked(i) /\ Busy(r)
         /\ file[i] \in {"queued", "gone"}
         /\ \A s \in Runs : Busy(s) => s = r
<1>1. run[r].stage \in {"exec", "move", "unlink"} /\ run[r].item = i /\ Busy(r)
  BY DEF Held, Busy
<1>2. i \in run[r].todo /\ i \in Items
  BY <1>1 DEF TypeOK, Run
<1>3. \A s \in Runs : Busy(s) => s \in Timers
  BY DEF Locked, Timers, Alive, Busy
<1>4. QED
  BY <1>1, <1>2, <1>3 DEF Locked, SingleTimer, Filled, Worked

\* The work of the others goes on.
LEMMA WorkedFrame ==
  ASSUME NEW r \in Runs, Only(r), NEW i, i \in Held(r)' => i \in Held(r)
  PROVE  Worked(i)' => Worked(i)
BY DEF Only, Worked, Held

\* A step of one process that only drops what it had in hand.
LEMMA DropMoves ==
  ASSUME NEW r \in Runs, Only(r), Held(r)' \subseteq Held(r),
         UNCHANGED <<file, note, done, failed>>, NEW i \in Items
  PROVE  Ledger!Move(i)
BY WorkedFrame, StillMoves DEF Still

\* The tool call writes the note, the file and its contents.
LEMMA AuthorMoves ==
  ASSUME IInv, NEW j \in Items, NEW i \in Items,
         WriteNote(j) \/ CreateFile(j) \/ FillFile(j) \/ LogQueued(j) \/ AuthorDies(j)
  PROVE  Ledger!Move(i)
<1> USE DEF queue, records
<1>t. TypeOK /\ Filled /\ Locked /\ Silent
  BY DEF IInv
<1>1. UNCHANGED <<run, done, failed>>
  BY DEF WriteNote, CreateFile, FillFile, LogQueued, AuthorDies, Written
<1>2. Worked(i)' <=> Worked(i)
  BY <1>1 DEF Worked, Held
<1>3. CASE file'[i] = file[i] /\ note'[i] = note[i]
  BY <1>1, <1>2, <1>3, StillMoves DEF Still
<1>4. Outcomes'[i] = Outcomes[i]
  BY <1>1, SameOutcomes
<1>5. CASE WriteNote(j) /\ i = j
  <2>1. note[i] = "none" /\ note'[i] = "queued" /\ file[i] = "none" /\ file'[i] = "none"
    BY <1>t, <1>5 DEF WriteNote, Written, Filled, Silent, TypeOK
  <2>2. State[i] = "absent" /\ State'[i] = "absent"
    BY <2>1, Mapped
  <2>3. QED
    BY <1>4, <2>1, <2>2 DEF Ledger!Move, Ledger!Announced, Ledger!Goes, Ledger!Unrecorded
<1>6. CASE CreateFile(j) /\ i = j
  <2>1. file[i] = "none" /\ file'[i] = "torn" /\ note'[i] = note[i]
    BY <1>t, <1>6 DEF CreateFile, Written, Filled, TypeOK
  <2>2. State[i] = "absent" /\ State'[i] = "absent"
    BY <2>1, Mapped
  <2>3. QED
    BY <1>4, <2>1, <2>2 DEF Ledger!Move, Ledger!Untouched, Ledger!Unrecorded, Ledger!Untold
<1>7. CASE FillFile(j) /\ i = j
  <2>1. file[i] = "torn" /\ file'[i] = "queued" /\ note'[i] = note[i]
    BY <1>t, <1>7 DEF FillFile, Written, Filled, TypeOK
  <2>2. ~Worked(i)
    BY <1>t, <2>1, HeldOnce DEF Worked
  <2>3. State[i] = "absent" /\ State'[i] = "queued"
    BY <1>2, <2>1, <2>2, Mapped
  <2>4. QED
    BY <1>4, <2>1, <2>3 DEF Ledger!Move, Ledger!Submitted, Ledger!Goes, Ledger!Unrecorded,
       Ledger!Untold
<1>8. QED
  BY <1>t, <1>3, <1>5, <1>6, <1>7 DEF WriteNote, CreateFile, FillFile, LogQueued, AuthorDies,
     Written, TypeOK

\* A request of the window is cleared, passed over or begun.
LEMMA ExamineMoves ==
  ASSUME IInv, NEW r \in Runs, Examine(r), NEW i \in Items
  PROVE  Ledger!Move(i)
<1> USE DEF records
<1>t. TypeOK /\ Filled /\ Locked /\ HandOK
  BY DEF IInv
<1>1. run[r].stage = "pick" /\ ~Busy(r) /\ Held(r) = {}
  BY ExamineCases DEF Busy, Held
<1>2. PICK j \in run[r].todo : \/ Recorded(j) /\ ClearQueued(r, j)
                               \/ Skip(r, j)
                               \/ ~Recorded(j) /\ Execute(r, j)
  BY ExamineCases
<1>3. j \in Items /\ file[j] \in {"queued", "gone"}
  BY <1>t, <1>1 DEF TypeOK, Run, Filled
<1>4. CASE Skip(r, j)
  <2>1. Only(r) /\ run'[r].stage = "pick"
    BY <1>t, <1>4, NextItemEffect DEF Skip
  <2>2. Held(r)' = {} /\ UNCHANGED <<file, note, done, failed>>
    BY <1>4, <2>1 DEF Held, Skip
  <2>3. QED
    BY <2>1, <2>2, DropMoves
<1>5. CASE Recorded(j) /\ ClearQueued(r, j)
  <2>1. Only(r) /\ run'[r].stage = "pick"
    BY <1>t, <1>5, NextItemEffect DEF ClearQueued
  <2>2. Held(r)' = {} /\ UNCHANGED <<note, done, failed, bridge>>
    BY <1>5, <2>1 DEF Held, ClearQueued
  <2>3. file'[j] = "gone" /\ \A k \in Items \ {j} : file'[k] = file[k]
    BY <1>t, <1>3, <1>5 DEF ClearQueued, TypeOK
  <2>4. Worked(i)' => Worked(i)
    BY <2>1, <2>2, WorkedFrame
  <2>5. CASE i # j \/ file[j] = "gone"
    BY <2>2, <2>3, <2>4, <2>5, StillMoves DEF Still
  <2>6. CASE i = j /\ file[j] = "queued"
    <3>1. "done" \in Outcomes[i] /\ Careful /\ Outcomes'[i] = Outcomes[i]
      BY <1>5, <2>2, <2>6, OutcomesAre, SameOutcomes DEF Recorded, Careful
    <3>2. State[i] \in {"worked", "queued"} /\ State'[i] = "gone"
      BY <2>3, <2>6, Mapped
    <3>3. Ledger!Cleared(i)
      BY <2>2, <3>1, <3>2 DEF Ledger!Cleared, Ledger!Goes, Ledger!Unrecorded, Ledger!Untold
    <3>4. QED
      BY <3>3 DEF Ledger!Move
  <2>7. QED
    BY <1>3, <2>5, <2>6
<1>6. CASE ~Recorded(j) /\ Execute(r, j)
  <2>1. Only(r) /\ run'[r].stage = "exec" /\ run'[r].item = j
    BY <1>t, <1>6, ExecuteEffect
  <2>2. Held(r)' = {j} /\ UNCHANGED <<file, note, done, failed>>
    BY <1>6, <2>1 DEF Held, Execute
  <2>3. CASE i # j
    <3>1. Worked(i)' => Worked(i)
      BY <2>1, <2>2, <2>3, WorkedFrame
    <3>2. QED
      BY <2>2, <3>1, StillMoves DEF Still
  <2>4. CASE i = j
    <3>1. r \in Timers
      BY <1>1, <1>6 DEF Execute, Timers, Alive
    <3>2. file[i] = "queued"
      BY <1>t, <1>1, <1>3, <1>6, <2>4, <3>1 DEF HandOK, Loaded
    <3>3. ~Worked(i)
      <4> SUFFICES ASSUME NEW s \in Runs, i \in Held(s) PROVE FALSE
        BY DEF Worked
      <4>1. s \in Timers /\ Busy(s)
        BY DEF Held, Locked, Timers, Alive, Busy, IInv
      <4>2. QED
        BY <1>t, <1>1, <3>1, <4>1 DEF Locked, SingleTimer
    <3>4. State[i] = "queued" /\ State'[i] = "worked"
      BY <2>2, <2>4, <3>2, <3>3, Mapped DEF Worked
    <3>5. i \notin Refused /\ (Careful => "done" \notin Outcomes[i]) /\ Outcomes'[i] = Outcomes[i]
      BY <1>6, <2>2, <2>4, OutcomesAre, SameOutcomes DEF Execute, Recorded, Careful
    <3>6. Ledger!Begun(i)
      BY <2>2, <3>4, <3>5 DEF Ledger!Begun, Ledger!Goes, Ledger!Unrecorded, Ledger!Untold
    <3>7. QED
      BY <3>6 DEF Ledger!Move
  <2>5. QED
    BY <2>3, <2>4
<1>7. QED
  BY <1>2, <1>4, <1>5, <1>6

\* The record of an outcome, and the end of the queued file.
LEMMA OutcomeMoves ==
  ASSUME IInv, NEW r \in Runs, MoveRecord(r) \/ Unlink(r), NEW i \in Items
  PROVE  Ledger!Move(i)
<1> USE DEF records
<1> DEFINE j == run[r].item
<1>t. TypeOK /\ Filled /\ Locked /\ HandOK /\ InOrder
  BY DEF IInv
<1>1. j \in Held(r)
  BY DEF MoveRecord, Unlink, Held
<1>2. /\ j \in Items /\ Worked(j) /\ file[j] \in {"queued", "gone"}
      /\ \A s \in Runs : Busy(s) => s = r
  BY <1>t, <1>1, HeldOnce
<1>3. run[r].outcome \in {"done", "failed"}
  BY <1>t DEF TypeOK, Run
<1>4. UNCHANGED note /\ \A k \in Items \ {j} : file'[k] = file[k]
  BY <1>t DEF MoveRecord, MoveHandoff, MoveAction, Unlink, TypeOK
<1>5. \/ NextItem(r, j)
      \/ Goto(r, "unlink") \/ Goto(r, "note")
  BY DEF MoveRecord, MoveHandoff, MoveAction, Unlink
<1>6. Only(r) /\ Held(r)' \subseteq {j}
  <2>1. CASE NextItem(r, j)
    BY <1>t, <2>1, NextItemEffect DEF Held
  <2>2. CASE Goto(r, "unlink") \/ Goto(r, "note")
    BY <1>t, <2>2, GotoEffect DEF Held, Stages
  <2>3. QED
    BY <1>5, <2>1, <2>2
<1>7. \A k \in Items : Worked(k)' => Worked(k)
  BY <1>1, <1>6, WorkedFrame
<1>8. CASE i # j
  <2>1. (i \in done' <=> i \in done) /\ (i \in failed' <=> i \in failed)
    BY <1>8 DEF MoveRecord, MoveHandoff, MoveAction, Record, Unlink
  <2>2. QED
    BY <1>4, <1>7, <1>8, <2>1, StillMoves DEF Still
<1>9. CASE i = j /\ UNCHANGED <<file, done, failed>>
  BY <1>4, <1>7, <1>9, StillMoves DEF Still
<1>10. CASE /\ i = j /\ MoveRecord(r) /\ Record(j, run[r].outcome)
            /\ Goto(r, "unlink") /\ UNCHANGED file
  <2>1. file[i] = "queued"
    BY <1>t, <1>10 DEF HandOK, MoveRecord
  <2>2. Worked(i)'
    BY <1>t, <1>10, GotoEffect DEF Worked, Held, Stages
  <2>3. State[i] = "worked" /\ State'[i] = "worked"
    BY <1>2, <1>10, <2>1, <2>2, Mapped
  <2>4. Outcomes'[i] = Outcomes[i] \cup {run[r].outcome}
    BY <1>2, <1>3, <1>10, OutcomesAre DEF Record
  <2>5. QED
    BY <1>3, <1>4, <2>3, <2>4 DEF Ledger!Move, Ledger!Recorded, Ledger!Goes, Ledger!Untold
<1>11. CASE /\ i = j /\ HasRecord(j, run[r].outcome)
            /\ UNCHANGED <<done, failed>>
            /\ file' = [file EXCEPT ![j] = "gone"]
  <2>1. file'[i] = "gone"
    BY <1>t, <1>2, <1>11 DEF TypeOK
  <2>2. Outcomes[i] # {} /\ Outcomes'[i] = Outcomes[i]
    BY <1>2, <1>3, <1>11, OutcomesAre, SameOutcomes DEF HasRecord
  <2>3. CASE file[i] = "gone"
    BY <1>4, <1>7, <1>11, <2>1, <2>3, StillMoves DEF Still
  <2>4. CASE file[i] = "queued"
    <3>1. State[i] = "worked" /\ State'[i] = "gone"
      BY <1>2, <1>11, <2>1, <2>4, Mapped
    <3>2. QED
      BY <1>4, <2>2, <3>1 DEF Ledger!Move, Ledger!Cleared, Ledger!Goes, Ledger!Unrecorded,
         Ledger!Untold
  <2>5. QED
    BY <1>2, <1>11, <2>3, <2>4
<1>12. CASE MoveRecord(r) /\ i = j
  BY <1>9, <1>10, <1>11, <1>12 DEF MoveRecord, MoveHandoff, MoveAction
<1>13. CASE Unlink(r) /\ i = j
  <2>1. HasRecord(j, run[r].outcome)
    BY <1>t, <1>13 DEF Unlink, InOrder
  <2>2. QED
    BY <1>9, <1>11, <1>13, <2>1 DEF Unlink
<1>14. QED
  BY <1>8, <1>12, <1>13

\* The note is told an outcome that is on record, and only once.
LEMMA NoteMoves ==
  ASSUME IInv, NEW r \in Runs, UpdateNote(r), NEW i \in Items
  PROVE  Ledger!Move(i)
<1> USE DEF records
<1> DEFINE j == run[r].item
<1>t. TypeOK /\ InOrder
  BY DEF IInv
<1>1. /\ j \in Items /\ file[j] = "gone" /\ HasRecord(j, run[r].outcome)
      /\ run[r].outcome \in {"done", "failed"}
  BY <1>t DEF UpdateNote, TypeOK, Busy, Run, InOrder
<1>2. /\ UNCHANGED <<file, done, failed>>
      /\ note'[j] = IF note[j] = "queued" THEN run[r].outcome ELSE note[j]
      /\ \A k \in Items \ {j} : note'[k] = note[k]
  BY <1>t, <1>1 DEF UpdateNote, TypeOK
<1>3. Only(r) /\ Held(r)' = {}
  BY <1>t, GotoEffect DEF UpdateNote, Held, Stages
<1>4. CASE note'[i] = note[i]
  BY <1>2, <1>3, <1>4, WorkedFrame, StillMoves DEF Still
<1>5. CASE i = j /\ note[i] = "queued"
  <2>1. State[i] = "gone" /\ State'[i] = "gone"
    BY <1>1, <1>2, <1>5, Mapped
  <2>2. run[r].outcome \in Outcomes[i] /\ Outcomes'[i] = Outcomes[i]
    BY <1>1, <1>2, <1>5, OutcomesAre, SameOutcomes DEF HasRecord
  <2>3. QED
    BY <1>2, <1>5, <2>1, <2>2 DEF Ledger!Move, Ledger!Told, Ledger!Goes, Ledger!Unrecorded
<1>6. QED
  BY <1>2, <1>4, <1>5

LEMMA StepMoves ==
  ASSUME IInv, [Next]_vars
  PROVE  Ledger!LedgerNext
<1> USE DEF queue, records
<1>t. TypeOK
  BY DEF IInv
<1>1. Careful' = Careful
  BY BridgeStays DEF Careful
<1> SUFFICES ASSUME NEW i \in Items PROVE Ledger!Move(i)
  BY <1>1 DEF Ledger!LedgerNext
<1>2. ASSUME NEW r \in Runs, Only(r), Held(r)' \subseteq Held(r),
             UNCHANGED <<file, note, done, failed>>
      PROVE  Ledger!Move(i)
  BY <1>2, DropMoves
<1>3. CASE \E r \in Runs : StartTimer(r) \/ StartDryRun(r)
  BY <1>t, <1>2, <1>3, StartEffect DEF StartTimer, StartDryRun, Held
<1>4. CASE \E r \in Runs : RunEnds(r) \/ WaiterFires(r) \/ BridgeCrash(r)
  BY <1>t, <1>2, <1>4, ExitEffect DEF RunEnds, WaiterFires, BridgeCrash, Held
<1>5. CASE \E r \in Runs : ListQueue(r)
  BY <1>t, <1>2, <1>5, ListEffect DEF ListQueue, Held
<1>6. CASE \E r \in Runs : LoadQueue(r)
  BY <1>t, <1>2, <1>6, GotoEffect, ExitEffect DEF LoadQueue, Held, Stages
<1>7. CASE \E r \in Runs : Executed(r)
  <2>1. PICK r \in Runs : Executed(r)
    BY <1>7
  <2>2. Only(r) /\ run'[r].stage = "move" /\ run'[r].item = run[r].item
    BY <1>t, <2>1, ExecutedEffect
  <2>3. Held(r)' = Held(r)
    BY <2>1, <2>2 DEF Executed, Held
  <2>4. QED
    BY <1>2, <2>1, <2>2, <2>3 DEF Executed
<1>8. CASE \E r \in Runs : ExecutionThrows(r) \/ LogOutcome(r)
  BY <1>t, <1>2, <1>8, NextItemEffect DEF ExecutionThrows, LogOutcome, Held
<1>9. CASE PowerLoss
  <2>1. ~Worked(i)'
    BY <1>9 DEF PowerLoss, Off, Worked, Held
  <2>2. QED
    BY <1>9, <2>1, StillMoves DEF PowerLoss, Still
<1>10. CASE UNCHANGED vars
  BY <1>10, StillMoves DEF vars, Still, Worked, Held
<1>11. QED
  BY <1>3, <1>4, <1>5, <1>6, <1>7, <1>8, <1>9, <1>10, AuthorMoves, ExamineMoves, OutcomeMoves,
     NoteMoves DEF Next
-----------------------------------------------------------------------------
(* The theorems *)

LEMMA StepIInv == IInv /\ [Next]_vars => IInv'
BY StepType, LockedStep, FilledStep, InOrderStep, NothingLostStep, ReportsStep, SuccessStep,
   SettledStep, HandStep, SilentStep, HeldStep DEF IInv

LEMMA Inductive == Spec => []IInv
BY InitIInv, StepIInv, PTL DEF Spec

\* Every variable keeps its type, and a busy process keeps its item in its window.
THEOREM TypesHold == Spec => []TypeOK
<1>1. IInv => TypeOK
  BY DEF IInv
<1>2. QED
  BY <1>1, Inductive, PTL

\* The lock directory keeps the runs of the timer apart, whoever crashes.
THEOREM OneTimerRun == Spec => []SingleTimer
<1>1. IInv => SingleTimer
  BY DEF IInv, Locked
<1>2. QED
  BY <1>1, Inductive, PTL

\* The runner's lock outlives its run only when something has died: as long as
\* nothing has, no tick is skipped for a run that is not there.
THEOREM TicksAreNotSkippedInVain == Spec => []LocksAreHeld
<1>1. IInv => LocksAreHeld
  BY DEF IInv
<1>2. QED
  BY <1>1, Inductive, PTL

\* No crash, dry run or second execution loses a queued request.
THEOREM QueuedIsNotLost == Spec => []NothingLost
<1>1. IInv => NothingLost
  BY DEF IInv
<1>2. QED
  BY <1>1, Inductive, PTL

\* Note and log never tell of an outcome that is not on record.
THEOREM NoteAndLogAreTrue == Spec => []ReportsAreTrue
<1>1. IInv => ReportsAreTrue
  BY DEF IInv
<1>2. QED
  BY <1>1, Inductive, PTL

\* A handoff whose success is on record is not being executed.
THEOREM NotTwiceDone == Spec => []SuccessIsFinal
<1>1. IInv => SuccessIsFinal
  BY DEF IInv
<1>2. QED
  BY <1>1, Inductive, PTL

\* A handoff is executed a second time only if a bridge died over the first.
THEOREM NotTwiceAlive == Spec => RepeatsOnlyAfterDeath
<1>1. ASSUME IInv, [Next]_vars
      PROVE  [bridge = "codex" => \A i \in ran : Executing(i)' => Executing(i)]_vars
  <2> SUFFICES ASSUME bridge = "codex", NEW i \in ran, NEW s \in Runs,
                      run'[s].stage = "exec", run'[s].item = i
               PROVE  Executing(i)
    BY DEF Executing
  <2>1. CASE run[s].stage = "exec" /\ run[s].item = i
    BY <2>1 DEF Executing
  <2>2. CASE i \in run[s].todo /\ run[s].stage = "pick" /\ Execute(s, i) /\ ~Recorded(i)
    <3>1. i \in Attempted /\ s \in Timers
      BY <2>2 DEF Recorded, Attempted, Execute, Timers, Alive
    <3>2. Busy(s)
      BY <1>1, <2>2, <3>1 DEF IInv, Settled
    <3>3. QED
      BY <2>2, <3>2 DEF Busy
  <2>3. QED
    BY <1>1, <2>1, <2>2, Begins DEF IInv
<1>2. QED
  BY <1>1, Inductive, PTL DEF Spec, RepeatsOnlyAfterDeath

\* The bridges' files, locks and processes implement the ledger: a request
\* leaves the queue once, with an outcome on record, and the note tells of it
\* only then; a handoff that succeeded is not begun again.
THEOREM LedgerImplemented == Spec => ImplementsLedger
<1>1. Init => Ledger!LedgerInit
  <2> SUFFICES ASSUME Init PROVE Ledger!LedgerInit
    OBVIOUS
  <2>1. \A i \in Items : ~Worked(i)
    BY DEF Init, Worked, Held, Off
  <2>2. State \in [Items -> {"absent", "queued"}]
    BY <2>1 DEF Init, State
  <2>3. Outcomes = [i \in Items |-> {}]
    BY DEF Init, Outcomes, HasRecord
  <2>4. QED
    BY <2>2, <2>3 DEF Ledger!LedgerInit
<1>2. IInv /\ [Next]_vars => [Ledger!LedgerNext]_<<Careful, State, Outcomes, note>>
  BY StepMoves
<1>3. QED
  BY <1>1, <1>2, Inductive, PTL DEF Spec, ImplementsLedger, Ledger!LedgerSpec
==============================================================================
