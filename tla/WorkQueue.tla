------------------------------ MODULE WorkQueue ------------------------------
(***************************************************************************)
(* The file queue between the agent's container and a host bridge.  A tool   *)
(* of the agent writes a request: a Markdown note, a JSON file in queued/    *)
(* and a line of the operations log.  A bridge process, started by a timer   *)
(* under a lock directory or by hand without one, reads a window of the      *)
(* queue, executes each request, and then writes the outcome's record,       *)
(* unlinks the queued file, updates the note and logs: four writes to four   *)
(* places, with nothing that ties them together.                            *)
(*                                                                         *)
(* There are two such queues with a bridge each: codex handoffs and action   *)
(* requests.  They share no file, so a behaviour follows one of them.        *)
(***************************************************************************)
EXTENDS Integers, FiniteSets

CONSTANTS
  Bridges,   \* the bridges whose queue may be followed
  Items,     \* requests, numbered in the order of their file names
  Waiting,   \* those queued before the behaviour ran
  Refused,   \* those that do not validate or are not allowed: left queued
  Limit,     \* --limit: how many names a run takes
  Runs,      \* numbers of the bridge processes that may exist at the same time
  MaxDry,    \* bound: how many of them are runs by hand
  MaxCrash   \* crashes of a bridge or of the machine that may happen

ASSUME ConstantsOK ==
  /\ Bridges \subseteq {"codex", "action"}
  /\ Items \subseteq Nat /\ IsFiniteSet(Items)
  /\ Waiting \subseteq Items
  /\ Refused \subseteq Items
  /\ Runs \subseteq Nat
  /\ Limit \in Nat \ {0}
  /\ MaxCrash \in Nat

VARIABLES
  bridge,   \* whose queue this is: "codex" or "action"
  author,   \* where the tool call that writes the request is
  file,     \* queued/<id>.json
  done,     \* records in completed/ or submitted/
  failed,   \* records in failed/
  note,     \* the note's status line
  log,      \* the status of the request's newest line in the operations log
  lock,     \* the lock directory of the timer's job exists
  run,      \* the bridge processes
  ran,      \* requests executed by a process that did not die over them
  crashes   \* crashes so far

records == <<done, failed>>
queue == <<bridge, author, file, done, failed, note, log>>
vars == <<bridge, author, file, done, failed, note, log, lock, run, ran, crashes>>

NoItem == -1

\* A bridge process.  `todo` is the rest of its window, `item` the request in
\* hand; `doomed`: a timer it forgot to clear will reject a promise that nobody
\* awaits, which ends the process.
Stages == {"off", "list", "load", "pick", "exec", "move", "unlink", "note", "log"}
Run == [mode : {"timer", "dry"}, stage : Stages, todo : SUBSET Items,
        item : Items \cup {NoItem}, outcome : {"done", "failed"}, doomed : BOOLEAN]

Off == [mode |-> "timer", stage |-> "off", todo |-> {},
        item |-> NoItem, outcome |-> "failed", doomed |-> FALSE]

Busy(r) == run[r].stage \in {"exec", "move", "unlink", "note", "log"}
Alive(r) == run[r].stage # "off"
\* The numbers of processes mean nothing: a timer's run takes the first that is
\* free and a run by hand the last, so that a state is not met again with its
\* numbers exchanged.
FirstFree(r) == \A s \in Runs : Alive(s) \/ r <= s
LastFree(r) == \A s \in Runs : Alive(s) \/ s <= r

Queued == {i \in Items : file[i] # "none" /\ file[i] # "gone"}

\* readdirSync().sort().slice(0, limit)
Window == {i \in Queued : Cardinality({j \in Queued : j < i}) < Limit}

Init ==
  /\ bridge \in Bridges
  /\ author = [i \in Items |-> IF i \in Waiting THEN "told" ELSE "idle"]
  /\ file = [i \in Items |-> IF i \in Waiting THEN "queued" ELSE "none"]
  /\ done = {} /\ failed = {}
  /\ note = [i \in Items |-> IF i \in Waiting THEN "queued" ELSE "none"]
  /\ log = [i \in Items |-> IF i \in Waiting THEN "queued" ELSE "none"]
  /\ lock = FALSE
  /\ run = [r \in Runs |-> Off]
  /\ ran = {}
  /\ crashes = 0
-----------------------------------------------------------------------------
(* The tool call in the container *)

Written(i, from, to) ==
  /\ author[i] = from
  /\ author' = [author EXCEPT ![i] = to]
  /\ UNCHANGED <<bridge, records, lock, run, ran, crashes>>

\* writeNew(pending-review/...)
WriteNote(i) ==
  /\ Written(i, "idle", "noted")
  /\ note' = [note EXCEPT ![i] = "queued"]
  /\ UNCHANGED <<file, log>>

\* writeFileSync(queued/<id>.json, wx): the file exists before it is filled.
CreateFile(i) ==
  /\ Written(i, "noted", "creating")
  /\ file' = [file EXCEPT ![i] = "torn"]
  /\ UNCHANGED <<note, log>>

FillFile(i) ==
  /\ Written(i, "creating", "filled")
  /\ file' = [file EXCEPT ![i] = "queued"]
  /\ UNCHANGED <<note, log>>

\* appendOperationEvent, by which time a bridge may have seen the file.
LogQueued(i) ==
  /\ Written(i, "filled", "told")
  /\ log' = [log EXCEPT ![i] = "queued"]
  /\ UNCHANGED <<file, note>>

\* Its container is killed.
AuthorDies(i) ==
  /\ author[i] \in {"noted", "creating", "filled"}
  /\ author' = [author EXCEPT ![i] = "dead"]
  /\ UNCHANGED <<bridge, file, records, note, log, lock, run, ran, crashes>>
-----------------------------------------------------------------------------
(* A bridge process *)

Goto(r, stage) == run' = [run EXCEPT ![r].stage = stage]

\* The loop goes on with the next item of the window.
NextItem(r, i) ==
  run' = [run EXCEPT ![r].stage = "pick", ![r].todo = @ \ {i}, ![r].item = NoItem]

\* The process is gone; the runner's exit trap removes the lock of a timer's run.
Exit(r) ==
  /\ run' = [run EXCEPT ![r] = Off]
  /\ lock' = IF run[r].mode = "timer" THEN FALSE ELSE lock

\* A tick of the timer; with the lock taken it is skipped.
StartTimer(r) ==
  /\ ~Alive(r) /\ FirstFree(r)
  /\ ~lock
  /\ lock' = TRUE
  /\ run' = [run EXCEPT ![r] = [Off EXCEPT !.mode = "timer", !.stage = "list"]]
  /\ UNCHANGED <<queue, ran, crashes>>

\* By hand, as the docs advise: without --execute and without the lock.
StartDryRun(r) ==
  /\ ~Alive(r) /\ LastFree(r)
  /\ Cardinality({s \in Runs : Alive(s) /\ run[s].mode = "dry"}) < MaxDry
  /\ run' = [run EXCEPT ![r] = [Off EXCEPT !.mode = "dry", !.stage = "list"]]
  /\ UNCHANGED <<queue, lock, ran, crashes>>

ListQueue(r) ==
  /\ run[r].stage = "list"
  /\ run' = [run EXCEPT ![r].stage = "load", ![r].todo = Window]
  /\ UNCHANGED <<queue, lock, ran, crashes>>

\* Every file of the window is read before the first is processed.  One that
\* does not parse or has just been unlinked throws out of the whole run.
LoadQueue(r) ==
  /\ run[r].stage = "load"
  /\ IF \A i \in run[r].todo : file[i] = "queued"
       THEN Goto(r, "pick") /\ UNCHANGED lock
       ELSE Exit(r)
  /\ UNCHANGED <<queue, ran, crashes>>

Log(i, status) == log' = [log EXCEPT ![i] = status]

\* Mutant: no look at the terminal records before a handoff is executed.
NeverRecorded(i) == FALSE

\* terminalRecordPath, which the action bridge does not have.
Recorded(i) == bridge = "codex" /\ i \in done

\* Left queued: the record does not validate, which is not logged, or is not
\* allowed, or the run is dry.
Skip(r, i) ==
  /\ i \in Refused \/ run[r].mode = "dry"
  /\ Log(i, "left") \/ (i \in Refused /\ UNCHANGED log)
  /\ NextItem(r, i)
  /\ UNCHANGED <<bridge, author, file, records, note, lock, ran, crashes>>

\* Mutant: the stale file is reported but left in the queue.
ClearLogOnly(r, i) ==
  /\ Recorded(i)
  /\ Log(i, "skipped")
  /\ NextItem(r, i)
  /\ UNCHANGED <<bridge, author, file, records, note, lock, ran, crashes>>

\* A terminal record exists: what a dead run left is cleared, by a dry run too.
ClearQueued(r, i) ==
  /\ Recorded(i)
  /\ file' = [file EXCEPT ![i] = "gone"]
  /\ Log(i, "skipped")
  /\ NextItem(r, i)
  /\ UNCHANGED <<bridge, author, records, note, lock, ran, crashes>>

Execute(r, i) ==
  /\ i \notin Refused /\ run[r].mode = "timer"
  /\ Log(i, "running")
  /\ ran' = ran \cup {i}
  /\ run' = [run EXCEPT ![r].stage = "exec", ![r].item = i]
  /\ UNCHANGED <<bridge, author, file, records, note, lock, crashes>>

\* The head of the loop body in processQueue.
Examine(r) ==
  /\ run[r].stage = "pick"
  /\ \E i \in run[r].todo :
       /\ \A j \in run[r].todo : i <= j
       /\ IF Recorded(i)
            THEN ClearQueued(r, i)
            ELSE Skip(r, i) \/ Execute(r, i)

\* Mutant: the note is told the outcome before the record is written.
ExecutedNoteFirst(r) ==
  /\ run[r].stage = "exec"
  /\ \E outcome \in {"done", "failed"} :
       /\ run' = [run EXCEPT ![r].stage = "move", ![r].outcome = outcome]
       /\ note' = [note EXCEPT ![run[r].item] = outcome]
  /\ UNCHANGED <<bridge, author, file, records, log, lock, ran, crashes>>

\* The execution answers or times out.  A turn/start that fails leaves the
\* completion waiter's timer behind.
Executed(r) ==
  /\ run[r].stage = "exec"
  /\ \E outcome \in {"done", "failed"}, abandoned \in BOOLEAN :
       /\ abandoned => outcome = "failed"
       /\ run' = [run EXCEPT ![r].stage = "move", ![r].outcome = outcome,
                             ![r].doomed = @ \/ abandoned]
  /\ UNCHANGED <<queue, lock, ran, crashes>>

\* The action bridge's document builders throw: the request stays queued.
ExecutionThrows(r) ==
  /\ run[r].stage = "exec"
  /\ bridge = "action"
  /\ NextItem(r, run[r].item)
  /\ UNCHANGED <<queue, lock, ran, crashes>>

Record(i, outcome) ==
  IF outcome = "done" THEN done' = done \cup {i} /\ UNCHANGED failed
                      ELSE failed' = failed \cup {i} /\ UNCHANGED done

HasRecord(i, outcome) == IF outcome = "done" THEN i \in done ELSE i \in failed

\* Mutant: a record that exists is taken as a file already moved.
MoveHandoffOnce(r, i) ==
  /\ bridge = "codex"
  /\ UNCHANGED file
  /\ IF HasRecord(i, run[r].outcome)
       THEN Goto(r, "note") /\ UNCHANGED records
       ELSE Record(i, run[r].outcome) /\ Goto(r, "unlink")

\* moveRecord of dc-codex-bridge: a record of the same outcome is kept.
MoveHandoff(r, i) ==
  /\ bridge = "codex"
  /\ IF HasRecord(i, run[r].outcome)
       THEN /\ file' = [file EXCEPT ![i] = "gone"]
            /\ Goto(r, "note")
            /\ UNCHANGED records
       ELSE /\ Record(i, run[r].outcome)
            /\ Goto(r, "unlink")
            /\ UNCHANGED file

\* moveRecord of dc-action-bridge: the write throws when the record exists.
MoveAction(r, i) ==
  /\ bridge = "action"
  /\ UNCHANGED file
  /\ IF HasRecord(i, run[r].outcome)
       THEN NextItem(r, i) /\ UNCHANGED records
       ELSE Record(i, run[r].outcome) /\ Goto(r, "unlink")

\* Mutant: rename first, as if the queued file were the record.
UnlinkFirst(r) ==
  /\ run[r].stage = "move"
  /\ file' = [file EXCEPT ![run[r].item] = "gone"]
  /\ Goto(r, "unlink")
  /\ UNCHANGED <<bridge, author, records, note, log, lock, ran, crashes>>

\* One write that creates the record.  A bridge only asks whether it exists, so a
\* record cut off by a death counts as one from its creation.
MoveRecord(r) ==
  /\ run[r].stage = "move"
  /\ MoveHandoff(r, run[r].item) \/ MoveAction(r, run[r].item)
  /\ UNCHANGED <<bridge, author, note, log, lock, ran, crashes>>

\* Mutant: the item leaves the window as soon as its file is unlinked.
UnlinkAndDrop(r) ==
  /\ run[r].stage = "unlink"
  /\ file' = [file EXCEPT ![run[r].item] = "gone"]
  /\ run' = [run EXCEPT ![r].stage = "note", ![r].todo = @ \ {run[r].item}]
  /\ UNCHANGED <<bridge, author, records, note, log, lock, ran, crashes>>

\* unlinkSync throws when a dry run has cleared the file meanwhile; the item
\* then counts as failed, and neither the note nor the log hears of it.
Unlink(r) ==
  /\ run[r].stage = "unlink"
  /\ IF file[run[r].item] = "queued"
       THEN /\ file' = [file EXCEPT ![run[r].item] = "gone"]
            /\ Goto(r, "note")
       ELSE UNCHANGED file /\ NextItem(r, run[r].item)
  /\ UNCHANGED <<bridge, author, records, note, log, lock, ran, crashes>>

\* Only the word "queued" in the status line is replaced.
UpdateNote(r) ==
  /\ run[r].stage = "note"
  /\ note' = [note EXCEPT ![run[r].item] = IF @ = "queued" THEN run[r].outcome ELSE @]
  /\ Goto(r, "log")
  /\ UNCHANGED <<bridge, author, file, records, log, lock, ran, crashes>>

LogOutcome(r) ==
  /\ run[r].stage = "log"
  /\ Log(run[r].item, run[r].outcome)
  /\ NextItem(r, run[r].item)
  /\ UNCHANGED <<bridge, author, file, records, note, lock, ran, crashes>>

\* A timer still pending keeps the process, and with it the lock, alive.
RunEnds(r) ==
  /\ run[r].stage = "pick"
  /\ run[r].todo = {}
  /\ ~run[r].doomed
  /\ Exit(r)
  /\ UNCHANGED <<queue, ran, crashes>>

\* What the process has begun and not taken out of the queue yet.
Held(r) == IF run[r].stage \in {"exec", "move", "unlink"} THEN {run[r].item} ELSE {}

\* Timers fire while the process awaits an execution or has nothing to do.
WaiterFires(r) ==
  /\ run[r].doomed
  /\ run[r].stage = "exec" \/ (run[r].stage = "pick" /\ run[r].todo = {})
  /\ Exit(r)
  /\ ran' = ran \ Held(r)
  /\ UNCHANGED <<queue, crashes>>

BridgeCrash(r) ==
  /\ crashes < MaxCrash
  /\ Alive(r)
  /\ Exit(r)
  /\ ran' = ran \ Held(r)
  /\ crashes' = crashes + 1
  /\ UNCHANGED queue

\* The machine of the bridge loses power: no exit trap runs.
PowerLoss ==
  /\ crashes < MaxCrash
  /\ crashes' = crashes + 1
  /\ run' = [r \in Runs |-> Off]
  /\ ran' = ran \ UNION {Held(r) : r \in Runs}
  /\ UNCHANGED <<queue, lock>>

Next ==
  \/ \E i \in Items : WriteNote(i)
  \/ \E i \in Items : CreateFile(i)
  \/ \E i \in Items : FillFile(i)
  \/ \E i \in Items : LogQueued(i)
  \/ \E i \in Items : AuthorDies(i)
  \/ \E r \in Runs : StartTimer(r)
  \/ \E r \in Runs : StartDryRun(r)
  \/ \E r \in Runs : ListQueue(r)
  \/ \E r \in Runs : LoadQueue(r)
  \/ \E r \in Runs : Examine(r)
  \/ \E r \in Runs : Executed(r)
  \/ \E r \in Runs : ExecutionThrows(r)
  \/ \E r \in Runs : MoveRecord(r)
  \/ \E r \in Runs : Unlink(r)
  \/ \E r \in Runs : UpdateNote(r)
  \/ \E r \in Runs : LogOutcome(r)
  \/ \E r \in Runs : RunEnds(r)
  \/ \E r \in Runs : WaiterFires(r)
  \/ \E r \in Runs : BridgeCrash(r)
  \/ PowerLoss

Spec == Init /\ [][Next]_vars

\* Fairness.  A write in progress is finished unless its container is killed,
\* a bridge process takes its next step or dies, executions are answered or
\* time out, and the timer ticks: however often a run by hand or a crash comes
\* in between, a tick that finds no lock comes again and again.
Step(r) ==
  \/ ListQueue(r) \/ LoadQueue(r) \/ Examine(r) \/ Executed(r) \/ MoveRecord(r)
  \/ Unlink(r) \/ UpdateNote(r) \/ LogOutcome(r) \/ RunEnds(r) \/ WaiterFires(r)

FairSpec ==
  /\ Spec
  /\ WF_vars(\E i \in Items : FillFile(i))
  /\ \A r \in Runs : WF_vars(Step(r))
  /\ SF_vars(\E r \in Runs : StartTimer(r))
-----------------------------------------------------------------------------
(* Properties *)

\* Every variable has its type.
TypeOK ==
  /\ bridge \in {"codex", "action"}
  /\ author \in [Items -> {"idle", "noted", "creating", "filled", "told", "dead"}]
  /\ file \in [Items -> {"none", "torn", "queued", "gone"}]
  /\ done \subseteq Items /\ failed \subseteq Items
  /\ note \in [Items -> {"none", "queued", "done", "failed"}]
  /\ log \in [Items -> {"none", "queued", "left", "skipped", "running", "done", "failed"}]
  /\ lock \in BOOLEAN
  /\ run \in [Runs -> Run]
  /\ \A r \in Runs : Busy(r) => run[r].item \in run[r].todo
  /\ ran \subseteq Items
  /\ crashes \in 0..MaxCrash

Timers == {r \in Runs : Alive(r) /\ run[r].mode = "timer"}

\* Two runs of the timer never overlap, through crashes of either.
SingleTimer == \A r, s \in Timers : r = s

\* A request that was queued is never lost: when its file has left the queue,
\* an outcome is on record, wherever a bridge, a dry run beside it or the
\* machine died.
NothingLost == \A i \in Items : file[i] = "gone" => i \in done \cup failed

\* What the note and the log tell the user about the outcome of a request is
\* on record, also after a crash and a second execution.
ReportsAreTrue ==
  \A i \in Items :
    /\ note[i] = "done" \/ log[i] = "done" => i \in done
    /\ note[i] = "failed" \/ log[i] = "failed" => i \in failed

Executing(i) == \E r \in Runs : run[r].stage = "exec" /\ run[r].item = i

\* A handoff that succeeded is not executed again, although the crash of a
\* bridge may leave it in the queue.
SuccessIsFinal == bridge = "codex" => \A i \in done : ~Executing(i)

\* A handoff is executed again only after a bridge died over it: a run that
\* ends its execution, well or badly, takes it out of the queue.
RepeatsOnlyAfterDeath ==
  [][bridge = "codex" =>
       \A i \in ran : Executing(i)' => Executing(i)]_vars

\* Each request follows the abstract ledger: it is queued until a bridge works
\* on it, and leaves the queue once, with an outcome on record, before the note
\* tells of that outcome; codex handoffs are not begun again after a success.
Worked(i) == \E r \in Runs : i \in Held(r)

State == [i \in Items |->
            IF file[i] \in {"none", "torn"} THEN "absent"
            ELSE IF file[i] = "gone" THEN "gone"
            ELSE IF Worked(i) THEN "worked" ELSE "queued"]

Outcomes == [i \in Items |-> {o \in {"done", "failed"} : HasRecord(i, o)}]

Careful == bridge = "codex"

Ledger == INSTANCE WorkLedger
  WITH careful <- Careful, state <- State, outcomes <- Outcomes, told <- note

ImplementsLedger == Ledger!LedgerSpec

\* A machine died under a timer's run: nobody will remove the lock.
StaleLock == lock /\ Timers = {}

\* As long as nothing has died, every tick that is skipped is skipped for a run
\* of the timer, whatever throws out of it or ends it.
LocksAreHeld == StaleLock => crashes > 0

\* A container died in the middle of writing a queued file.
TornFile == \E i \in Items : file[i] = "torn" /\ author[i] = "dead"

\* A handoff that is allowed leaves the queue, crashes of the bridge, abandoned
\* waiters, dry runs and requests ahead of it that stay notwithstanding, unless
\* the lock is stale or the window holds a file that does not parse.
Drains ==
  Cardinality(Refused) < Limit =>
    \A i \in Items \ Refused :
      (bridge = "codex" /\ file[i] = "queued")
        ~> (file[i] = "gone" \/ StaleLock \/ TornFile)

-----------------------------------------------------------------------------
(* What the repository says of the program and the code does not do *)

\* dc-run-launchd-job.sh, to a tick that finds the lock: "already running;
\* skipping this tick".  After a power loss nothing runs, and every tick is
\* skipped.
SkipsOnlyWhileRunning == lock => Timers # {}
=============================================================================
