--------------------------- MODULE SessionLifecycle ---------------------------
(***************************************************************************)
(* The life of the inbound messages of ONE session: the host writes them   *)
(* to inbound.db, wakes a container, the container's poll loop claims them  *)
(* in outbound.db's processing_ack table, hands them to the agent and acks  *)
(* them, and the host's 60-second sweep syncs the acks, kills containers    *)
(* that went silent and reschedules what they had claimed.                  *)
(*                                                                         *)
(* Three kinds of process interleave: the host (one JavaScript thread: its  *)
(* synchronous blocks exclude each other, but never the container), the     *)
(* containers, and time.  A tick is one CLAIM_STUCK_MS = one sweep period;  *)
(* ages saturate one tick past the last threshold they are compared with.   *)
(***************************************************************************)
EXTENDS Integers, FiniteSets

CONSTANTS
  NMsgs,        \* messages that may arrive; a message is its seq order, 1..NMsgs
  Slots,        \* container instances that can exist at the same time
  None,         \* no container
  Classes,      \* the classes of message that may arrive
  MaxTries,     \* MAX_TRIES
  Backoff,      \* Backoff[t]: ticks before the retry that follows t tries
  ClaimStuck,   \* CLAIM_STUCK_MS in ticks
  Ceiling,      \* ABSOLUTE_CEILING_MS in ticks
  MaxPrompt,    \* maxMessagesPerPrompt
  MaxCrash,     \* crashes of containers and of the host that may happen
  StopCanFail   \* whether `docker stop` can fail on a running container

\* What a message can be, as far as the lifecycle tells messages apart:
\*   chat     engages the agent (trigger = 1), the router wakes a container
\*   context  accumulated by the router without engaging (trigger = 0)
\*   task     scheduled, carries a pre-task script, inserted without a wake
\*   clear    the /clear command, which the runner answers itself
\*   compact  another slash command, which must open a query of its own
\*   onwake   written by a container restart (on_wake = 1)
AllClasses == {"chat", "context", "task", "clear", "compact", "onwake"}

ASSUME ConstantsOK ==
  /\ NMsgs \in Nat
  /\ None \notin Slots
  /\ Classes \subseteq AllClasses
  /\ MaxTries \in Nat
  /\ Backoff \in [0..MaxTries -> Nat]
  /\ ClaimStuck \in Nat
  /\ Ceiling \in Nat
  /\ MaxPrompt \in Nat \ {0}
  /\ MaxCrash \in Nat
  /\ StopCanFail \in BOOLEAN

Msgs == 1..NMsgs
Wakes == {"chat", "clear", "compact"}      \* the router calls wakeContainer
Commands == {"clear", "compact"}           \* isRunnerCommand

VARIABLES
  class,      \* messages_in: what the message is; "chat" until it arrives
  status,     \* messages_in.status; "absent" before the row is written
  tries,      \* messages_in.tries
  wait,       \* messages_in.process_after: ticks until the row is due
  ack,        \* processing_ack.status; "none" when there is no row
  claimAge,   \* age in ticks of a "processing" row, 0 for any other
  hb,         \* age of the heartbeat file, NoFile when it does not exist
  quiet,      \* claims not followed by a heartbeat: heartbeat <= status_changed
  hostUp,     \* the host process runs
  active,     \* activeContainers' entry for the session
  ended,      \* the entry's docker client exited, its 'close' event is queued
  onExit,     \* a kill registered a wake on that 'close' event
  waking,     \* wakePromises has an entry: a spawn is in flight
  sweep,      \* where sweepSession is
  restart,    \* where a container restart is
  box,        \* each container's own state
  crashes     \* crashes so far

inbound  == <<class, status, tries, wait>>
outbound == <<ack, claimAge>>
files    == <<hb, quiet>>
runner   == <<active, ended, onExit, waking>>
host     == <<hostUp, active, ended, onExit, waking, sweep, restart>>
vars == <<class, status, tries, wait, ack, claimAge, hb, quiet, hostUp, active,
          ended, onExit, waking, sweep, restart, box, crashes>>

NoFile == -1
Phases == {"off", "boot", "poll", "command", "script", "query"}

\* A container's memory.  `seen` holds the rows a poll has read and not yet
\* claimed: the read and the claim are two statements on two databases, with
\* the steps of every other process between them and none of its own.  `late`
\* holds the follow-up batches whose scripts are still awaited after their
\* query ended; `turn` the messages given to the agent and not answered by a
\* result yet; `stuck`: the agent went silent.
Box == [phase : Phases, first : BOOLEAN, seen : SUBSET Msgs,
        batch : SUBSET Msgs, follow : SUBSET Msgs, late : SUBSET (SUBSET Msgs),
        turn : SUBSET Msgs, ending : BOOLEAN, stuck : BOOLEAN]

Off == [phase |-> "off", first |-> TRUE, seen |-> {}, batch |-> {}, follow |-> {},
        late |-> {}, turn |-> {}, ending |-> FALSE, stuck |-> FALSE]
Fresh == [Off EXCEPT !.phase = "boot"]

Live == {c \in Slots : box[c].phase # "off"}

\* Everything a container has claimed and still has in its hands.
InHand(b) == b.batch \cup b.follow \cup UNION b.late
Held(c) == InHand(box[c])

-----------------------------------------------------------------------------
(* Reading the two databases *)

Due == {m \in Msgs : status[m] = "pending" /\ wait[m] = 0}

\* countDueMessages(db) > 0
WorkDue(due) == \E m \in due : class[m] # "context"

\* ORDER BY seq DESC LIMIT maxMessagesPerPrompt
Newest(S) == {m \in S : Cardinality({n \in S : n > m}) < MaxPrompt}

\* The limit is applied to the rows before the acked ones are filtered out.
GetPendingMessages(isFirstPoll) ==
  {m \in Newest({n \in Due : isFirstPoll \/ class[n] # "onwake"}) :
     ack[m] = "none"}

Claims == {m \in Msgs : ack[m] = "processing"}
-----------------------------------------------------------------------------
(* Writing processing_ack and the heartbeat file *)

SetAcks(new) ==
  /\ ack' = new
  /\ claimAge' = [m \in Msgs |-> IF new[m] = "processing" /\ ack[m] = "processing"
                                   THEN claimAge[m] ELSE 0]

Marked(S, mark) == [m \in Msgs |-> IF m \in S THEN mark ELSE ack[m]]

Unclaimed == [m \in Msgs |-> IF ack[m] = "processing" THEN "none" ELSE ack[m]]

TouchHeartbeat == hb' = 0 /\ quiet' = {}

\* No touch: the heartbeat file stays, new claims are newer than it.
LeaveHeartbeat(new) ==
  /\ UNCHANGED hb
  /\ quiet' = {m \in Msgs : new[m] = "processing" /\ (m \in quiet \/ m \notin Claims)}

\* applyPreTaskScripts touches the heartbeat around each script it runs.
Scripted(S) == {m \in S : class[m] = "task"}
TouchForScripts(S, new) ==
  IF Scripted(S) # {} THEN TouchHeartbeat ELSE LeaveHeartbeat(new)
-----------------------------------------------------------------------------
Init ==
  /\ class = [m \in Msgs |-> "chat"]
  /\ status = [m \in Msgs |-> "absent"]
  /\ tries = [m \in Msgs |-> 0]
  /\ wait = [m \in Msgs |-> 0]
  /\ ack = [m \in Msgs |-> "none"]
  /\ claimAge = [m \in Msgs |-> 0]
  /\ hb = NoFile
  /\ quiet = {}
  /\ hostUp = TRUE
  /\ active = None
  /\ ended = FALSE
  /\ onExit = FALSE
  /\ waking = FALSE
  /\ sweep = "idle"
  /\ restart = "idle"
  /\ box = [c \in Slots |-> Off]
  /\ crashes = 0

-----------------------------------------------------------------------------
(* The container: the runner's poll loop and the query it runs *)

\* clearStaleProcessingAcks, then the loop starts with isFirstPoll = true.
Boot(c) ==
  /\ box[c].phase = "boot"
  /\ box' = [box EXCEPT ![c] = [@ EXCEPT !.phase = "poll"]]
  /\ SetAcks(Unclaimed)
  /\ LeaveHeartbeat(Unclaimed)
  /\ UNCHANGED <<inbound, host, crashes>>

\* Nothing pending, or only accumulated context: sleep.  Only the first such
\* poll changes anything.
PollIdle(c) ==
  /\ box[c].phase = "poll"
  /\ box[c].seen = {}
  /\ box[c].first
  /\ ~WorkDue(GetPendingMessages(TRUE))
  /\ box' = [box EXCEPT ![c] = [@ EXCEPT !.first = FALSE]]
  /\ UNCHANGED <<inbound, outbound, files, host, crashes>>

\* getPendingMessages returns a batch that engages the agent.
PollRead(c) ==
  LET batch == GetPendingMessages(box[c].first)
  IN /\ box[c].phase = "poll"
     /\ box[c].seen = {}
     /\ WorkDue(batch)
     /\ box' = [box EXCEPT ![c] = [@ EXCEPT !.first = FALSE, !.seen = batch]]
     /\ UNCHANGED <<inbound, outbound, files, host, crashes>>

\* markProcessing of what was read, whatever its rows say by now.
PollClaim(c) ==
  LET batch == box[c].seen
      acks == Marked(batch, "processing")
      clears == {m \in batch : class[m] = "clear"}
  IN /\ box[c].phase = "poll"
     /\ batch # {}
     /\ box' = [box EXCEPT ![c] =
                   [@ EXCEPT !.seen = {}, !.batch = batch,
                             !.phase = IF clears # {} THEN "command" ELSE "script"]]
     /\ SetAcks(acks)
     /\ TouchForScripts(batch, acks)
     /\ UNCHANGED <<inbound, host, crashes>>

\* /clear is answered by the runner; the rest of the batch goes on.
ClearCommands(c) ==
  LET clears == {m \in box[c].batch : class[m] = "clear"}
      acks == Marked(clears, "completed")
      rest == box[c].batch \ clears
  IN /\ box[c].phase = "command"
     /\ box' = [box EXCEPT ![c] =
                   [@ EXCEPT !.batch = rest,
                             !.phase = IF rest = {} THEN "poll" ELSE "script"]]
     /\ SetAcks(acks)
     /\ LeaveHeartbeat(acks)
     /\ UNCHANGED <<inbound, host, crashes>>

\* The pre-task scripts of the batch are done: the tasks they gate are acked
\* completed, what is left becomes the prompt of a query.
StartQuery(c, skipped) ==
  LET acks == Marked(skipped, "completed")
      keep == box[c].batch \ skipped
  IN /\ box[c].phase = "script"
     /\ skipped \subseteq Scripted(box[c].batch)
     /\ box' = [box EXCEPT ![c] =
                   [@ EXCEPT !.batch = keep, !.turn = keep,
                             !.phase = IF keep = {} THEN "poll" ELSE "query"]]
     /\ SetAcks(acks)
     /\ TouchForScripts(box[c].batch, acks)
     /\ UNCHANGED <<inbound, host, crashes>>

\* The agent works: an event of the stream other than a result.
QueryEvent(c) ==
  /\ box[c].phase = "query"
  /\ box[c].seen = {}
  /\ ~box[c].stuck
  /\ box[c].turn # {}
  /\ TouchHeartbeat
  /\ UNCHANGED <<inbound, outbound, host, box, crashes>>

\* The agent stops producing events (an endless tool call, a dead API call).
AgentStuck(c) ==
  /\ box[c].phase = "query"
  /\ ~box[c].stuck
  /\ box' = [box EXCEPT ![c] = [@ EXCEPT !.stuck = TRUE]]
  /\ UNCHANGED <<inbound, outbound, files, host, crashes>>

\* A result event.  It answers the prompt and perhaps what was pushed after
\* it; answered = {} is the result a provider yields when it compacts its
\* context in the middle of a turn.  Any result acks the initial batch.
QueryResult(c, answered) ==
  LET acks == Marked(box[c].batch, "completed")
  IN /\ box[c].phase = "query"
     /\ box[c].seen = {}
     /\ ~box[c].stuck
     /\ box[c].turn # {}
     /\ answered \subseteq box[c].turn
     /\ answered # {} => box[c].batch \cap box[c].turn \subseteq answered
     /\ box' = [box EXCEPT ![c] = [@ EXCEPT !.turn = box[c].turn \ answered]]
     /\ SetAcks(acks)
     /\ TouchHeartbeat
     /\ UNCHANGED <<inbound, host, crashes>>

\* The stream closes, or throws after the event that reports the error; the
\* batch is acked completed either way.  A follow-up poll that still awaits
\* its scripts goes on while the outer loop polls again.
QueryEnd(c, failed) ==
  LET acks == Marked(box[c].batch, "completed")
  IN /\ box[c].phase = "query"
     /\ box[c].seen = {}
     /\ ~box[c].stuck
     /\ box' = [box EXCEPT ![c] =
                   [@ EXCEPT !.phase = "poll", !.batch = {}, !.turn = {},
                             !.follow = {}, !.ending = FALSE,
                             !.late = box[c].late \cup ({box[c].follow} \ {{}})]]
     /\ SetAcks(acks)
     /\ IF failed THEN TouchHeartbeat ELSE LeaveHeartbeat(acks)
     /\ UNCHANGED <<inbound, host, crashes>>

\* The 500 ms poll while a query is open: a pending slash command ends the
\* stream, anything else is about to be claimed.  There is no accumulate gate
\* here.
FollowUpRead(c) ==
  LET pending == GetPendingMessages(FALSE)
      command == \E m \in pending : class[m] \in Commands
  IN /\ box[c].phase = "query"
     /\ ~box[c].ending
     /\ box[c].seen = {} /\ box[c].follow = {}
     /\ pending # {}
     /\ box' = [box EXCEPT ![c] =
                   [@ EXCEPT !.ending = command, !.seen = IF command THEN {} ELSE pending]]
     /\ UNCHANGED <<inbound, outbound, files, host, crashes>>

FollowUpClaim(c) ==
  LET acks == Marked(box[c].seen, "processing")
  IN /\ box[c].phase = "query"
     /\ box[c].seen # {}
     /\ box' = [box EXCEPT ![c] = [@ EXCEPT !.seen = {}, !.follow = box[c].seen]]
     /\ SetAcks(acks)
     /\ TouchForScripts(box[c].seen, acks)
     /\ UNCHANGED <<inbound, host, crashes>>

\* Scripts done, query still open: the rest is pushed into the stream and
\* acked completed at once, before the agent answers it.
FollowUpPush(c, skipped) ==
  LET acks == Marked(box[c].follow, "completed")
  IN /\ box[c].phase = "query"
     /\ box[c].follow # {}
     /\ skipped \subseteq Scripted(box[c].follow)
     /\ box' = [box EXCEPT ![c] =
                   [@ EXCEPT !.follow = {},
                             !.turn = box[c].turn \cup (box[c].follow \ skipped)]]
     /\ SetAcks(acks)
     /\ TouchForScripts(box[c].follow, acks)
     /\ UNCHANGED <<inbound, host, crashes>>

\* Scripts done, but the query ended meanwhile: only the gated tasks are
\* acked, the other claims stay "processing".
FollowUpTooLate(c, group, skipped) ==
  LET acks == Marked(skipped, "completed")
  IN /\ group \in box[c].late
     /\ box[c].seen = {}
     /\ skipped \subseteq Scripted(group)
     /\ box' = [box EXCEPT ![c] = [@ EXCEPT !.late = box[c].late \ {group}]]
     /\ SetAcks(acks)
     /\ TouchForScripts(group, acks)
     /\ UNCHANGED <<inbound, host, crashes>>

\* The container dies on its own.  Its docker client exits with it.
Crash(c) ==
  /\ c \in Live
  /\ crashes < MaxCrash
  /\ crashes' = crashes + 1
  /\ box' = [box EXCEPT ![c] = Off]
  /\ ended' = (ended \/ c = active)
  /\ UNCHANGED <<inbound, outbound, files, hostUp, active, onExit, waking,
                 sweep, restart>>
-----------------------------------------------------------------------------
(* The host: waking, killing, restarting *)

\* No synchronous block of the host is in the middle of its work.
HostFree == hostUp /\ sweep \in {"idle", "wait"} /\ restart = "idle"

\* Mutant: a wake does not look at activeContainers.
WakeContainerBlindly == waking' = TRUE

\* wakeContainer: no-op while a container is tracked, joins a spawn in flight.
WakeContainer == waking' = (waking \/ active = None)

\* A message is inserted; the router wakes a container when it engages.  A
\* task may be scheduled for later.
Arrive(m, k) ==
  /\ HostFree
  /\ m \in Msgs /\ status[m] = "absent"
  /\ \A n \in 1..(m - 1) : status[n] # "absent"
  /\ k \in Classes \ {"onwake"}
  /\ class' = [class EXCEPT ![m] = k]
  /\ status' = [status EXCEPT ![m] = "pending"]
  /\ \E due \in IF k = "task" THEN {0, 1} ELSE {0} :
       wait' = [wait EXCEPT ![m] = due]
  /\ IF k \in Wakes THEN WakeContainer ELSE UNCHANGED waking
  /\ UNCHANGED <<tries, outbound, files, hostUp, active, ended, onExit, sweep,
                 restart, box, crashes>>

\* spawnContainer reaches spawn(): the old heartbeat file is removed first.
\* A sweep that awaited the wake goes on at once.
SpawnOk(c) ==
  /\ HostFree
  /\ waking
  /\ c \notin Live
  /\ active' = c
  /\ ended' = FALSE
  /\ waking' = FALSE
  /\ sweep' = IF sweep = "wait" THEN "sla" ELSE sweep
  /\ box' = [box EXCEPT ![c] = Fresh]
  /\ hb' = NoFile
  /\ quiet' = Claims
  /\ UNCHANGED <<inbound, outbound, hostUp, onExit, restart, crashes>>

\* spawnContainer throws (the OneCLI gateway is down): nothing is tracked.
SpawnFail ==
  /\ HostFree
  /\ waking
  /\ waking' = FALSE
  /\ sweep' = IF sweep = "wait" THEN "reset" ELSE sweep
  /\ UNCHANGED <<inbound, outbound, files, hostUp, active, ended, onExit,
                 restart, box, crashes>>

\* The 'close' event: the entry is deleted, then the once() callback runs.
ContainerClosed ==
  /\ HostFree
  /\ ended
  /\ active' = None
  /\ ended' = FALSE
  /\ onExit' = FALSE
  /\ waking' = (waking \/ onExit)
  /\ UNCHANGED <<inbound, outbound, files, hostUp, sweep, restart, box, crashes>>

\* killContainer: `docker stop`, or SIGKILL to the docker client alone when
\* that fails.  Either way the client exits.
KillContainer ==
  /\ \E stopped \in IF StopCanFail THEN BOOLEAN ELSE {TRUE} :
       box' = IF stopped THEN [box EXCEPT ![active] = Off] ELSE box
  /\ ended' = TRUE

\* restartAgentGroupContainers: the on_wake row is written for a running
\* container, then the container is killed with a wake on exit.  The
\* container runs on while the host is inside docker stop.
RestartWrite(m) ==
  /\ HostFree
  /\ active # None
  /\ "onwake" \in Classes
  /\ m \in Msgs /\ status[m] = "absent"
  /\ \A n \in 1..(m - 1) : status[n] # "absent"
  /\ class' = [class EXCEPT ![m] = "onwake"]
  /\ status' = [status EXCEPT ![m] = "pending"]
  /\ restart' = "kill"
  /\ UNCHANGED <<tries, wait, outbound, files, hostUp, runner, sweep, box, crashes>>

RestartKill ==
  /\ restart = "kill"
  /\ restart' = "idle"
  /\ onExit' = TRUE
  /\ KillContainer
  /\ UNCHANGED <<inbound, outbound, files, hostUp, active, waking, sweep, crashes>>
-----------------------------------------------------------------------------
(* The host: sweepSession *)

\* Mutant: the sweep never wakes a container for due work.
SweepStartWithoutWake ==
  /\ HostFree
  /\ sweep = "idle"
  /\ status' = [m \in Msgs |-> IF ack[m] = "completed" THEN "completed" ELSE status[m]]
  /\ sweep' = IF active # None THEN "sla" ELSE "reset"
  /\ UNCHANGED <<class, tries, wait, outbound, files, runner, hostUp, restart,
                 box, crashes>>

\* Steps 1 and 2: syncProcessingAcks, then a wake when work is due and no
\* container is tracked.  The sweep awaits that wake.
SweepStart ==
  LET synced == [m \in Msgs |-> IF ack[m] = "completed" THEN "completed" ELSE status[m]]
      due == {m \in Msgs : synced[m] = "pending" /\ wait[m] = 0}
      wake == WorkDue(due) /\ active = None
  IN /\ HostFree
     /\ sweep = "idle"
     /\ status' = synced
     /\ waking' = (waking \/ wake)
     /\ sweep' = IF wake THEN "wait" ELSE IF active # None THEN "sla" ELSE "reset"
     /\ UNCHANGED <<class, tries, wait, outbound, files, hostUp, active, ended,
                    onExit, restart, box, crashes>>

\* Mutant: no absolute ceiling.
DecideClaimStuckOnly ==
  \E m \in Claims : claimAge[m] > ClaimStuck /\ m \in quiet

\* decideStuckAction # ok
DecideStuckAction ==
  \/ hb # NoFile /\ hb > Ceiling
  \/ \E m \in Claims : claimAge[m] > ClaimStuck /\ m \in quiet

\* Mutant: stuck claims are reset without killing the container.
SweepSlaResetOnly ==
  /\ sweep = "sla"
  /\ sweep' = IF DecideStuckAction THEN "reset" ELSE "idle"
  /\ UNCHANGED <<inbound, outbound, files, hostUp, runner, restart, box, crashes>>

\* Step 3: enforceRunningContainerSla decides to kill, or leaves it running.
SweepSla ==
  /\ sweep = "sla"
  /\ sweep' = IF DecideStuckAction THEN "kill" ELSE "idle"
  /\ UNCHANGED <<inbound, outbound, files, hostUp, runner, restart, box, crashes>>

SweepKill ==
  /\ sweep = "kill"
  /\ sweep' = "reset"
  /\ KillContainer
  /\ UNCHANGED <<inbound, outbound, files, hostUp, active, onExit, waking,
                 restart, crashes>>

\* What resetStuckProcessingRows does when it gives up after `limit` tries.
ResetAfter(limit) ==
  LET stale == Claims \cap Due
      givenUp == {m \in stale : tries[m] >= limit}
      retried == stale \ givenUp
  IN /\ sweep = "reset"
     /\ sweep' = "idle"
     /\ status' = [m \in Msgs |-> IF m \in givenUp THEN "failed" ELSE status[m]]
     /\ tries' = [m \in Msgs |-> IF m \in retried THEN tries[m] + 1 ELSE tries[m]]
     /\ wait' = [m \in Msgs |-> IF m \in retried THEN Backoff[tries[m]] ELSE wait[m]]
     /\ SetAcks(Unclaimed)
     /\ LeaveHeartbeat(Unclaimed)
     /\ UNCHANGED <<class, hostUp, runner, restart, box, crashes>>

\* Mutants: one try too many, one try too few.
SweepResetLate == ResetAfter(MaxTries + 1)
SweepResetEarly == ResetAfter(MaxTries - 1)

\* resetStuckProcessingRows: claims whose message is still pending and not
\* already rescheduled are retried later or given up; every claim is dropped.
SweepReset == ResetAfter(MaxTries)
-----------------------------------------------------------------------------
(* The host process dies and comes back; time *)

\* The containers keep running; everything the host held in memory is gone.
HostCrash ==
  /\ hostUp
  /\ crashes < MaxCrash
  /\ crashes' = crashes + 1
  /\ hostUp' = FALSE
  /\ active' = None
  /\ ended' = FALSE
  /\ onExit' = FALSE
  /\ waking' = FALSE
  /\ sweep' = "idle"
  /\ restart' = "idle"
  /\ UNCHANGED <<inbound, outbound, files, box>>

\* Mutant: startup does not look for containers of the previous run.
HostStartWithoutCleanup ==
  /\ ~hostUp
  /\ hostUp' = TRUE
  /\ UNCHANGED <<inbound, outbound, files, runner, sweep, restart, box, crashes>>

\* cleanupOrphans stops every container of this install, as far as it can.
HostStart ==
  /\ ~hostUp
  /\ hostUp' = TRUE
  /\ \E orphans \in SUBSET Live :
       /\ StopCanFail \/ orphans = {}
       /\ box' = [c \in Slots |-> IF c \in orphans THEN box[c] ELSE Off]
  /\ UNCHANGED <<inbound, outbound, files, runner, sweep, restart, crashes>>

\* A minute passes.  The host's synchronous blocks take less.
Tick ==
  /\ sweep \in {"idle", "wait"} /\ restart = "idle"
  /\ wait' = [m \in Msgs |-> IF wait[m] = 0 THEN 0 ELSE wait[m] - 1]
  /\ claimAge' = [m \in Msgs |-> IF m \in Claims /\ claimAge[m] <= ClaimStuck
                                   THEN claimAge[m] + 1 ELSE claimAge[m]]
  /\ hb' = IF hb # NoFile /\ hb <= Ceiling THEN hb + 1 ELSE hb
  /\ UNCHANGED <<class, status, tries, ack, quiet, host, box, crashes>>
-----------------------------------------------------------------------------
ContainerStep(c) ==
  \/ Boot(c)
  \/ PollIdle(c)
  \/ PollRead(c)
  \/ PollClaim(c)
  \/ ClearCommands(c)
  \/ \E skipped \in SUBSET Msgs : StartQuery(c, skipped)
  \/ QueryEvent(c)
  \/ AgentStuck(c)
  \/ \E answered \in SUBSET Msgs : QueryResult(c, answered)
  \/ \E failed \in BOOLEAN : QueryEnd(c, failed)
  \/ FollowUpRead(c)
  \/ FollowUpClaim(c)
  \/ \E skipped \in SUBSET Msgs : FollowUpPush(c, skipped)
  \/ \E group, skipped \in SUBSET Msgs : FollowUpTooLate(c, group, skipped)
  \/ Crash(c)

HostStep ==
  \/ \E m \in Msgs, k \in Classes : Arrive(m, k)
  \/ \E c \in Slots : SpawnOk(c)
  \/ SpawnFail
  \/ ContainerClosed
  \/ \E m \in Msgs : RestartWrite(m)
  \/ RestartKill
  \/ SweepStart
  \/ SweepSla
  \/ SweepKill
  \/ SweepReset
  \/ HostCrash
  \/ HostStart

Next == HostStep \/ Tick \/ \E c \in Slots : ContainerStep(c)

Spec == Init /\ [][Next]_vars

\* Fairness.  The runner's timers and awaited calls come back, and scripts
\* have a timeout; an agent that is not stuck ends its turn, and a closed
\* stream ends.  The host's timer fires and its event loop runs what is
\* queued; a spawn tried again and again succeeds at some point; time passes.
\* Nothing is assumed of the users, of crashes, or of an agent gone silent.
RunnerFairness(c) ==
  /\ WF_vars(Boot(c))
  /\ WF_vars(PollIdle(c) \/ PollRead(c))
  /\ WF_vars(PollClaim(c))
  /\ WF_vars(ClearCommands(c))
  /\ WF_vars(\E skipped \in SUBSET Msgs : StartQuery(c, skipped))
  /\ WF_vars(\E answered \in SUBSET Msgs : answered # {} /\ QueryResult(c, answered))
  /\ WF_vars(box[c].ending /\ \E failed \in BOOLEAN : QueryEnd(c, failed))
  /\ WF_vars(FollowUpRead(c))
  /\ WF_vars(FollowUpClaim(c))
  /\ WF_vars(\E skipped \in SUBSET Msgs : FollowUpPush(c, skipped))
  /\ WF_vars(\E group, skipped \in SUBSET Msgs : FollowUpTooLate(c, group, skipped))

HostFairness ==
  /\ SF_vars(\E c \in Slots : SpawnOk(c))
  /\ SF_vars(ContainerClosed)
  /\ WF_vars(RestartKill)
  /\ WF_vars(SweepStart)
  /\ WF_vars(SweepSla)
  /\ WF_vars(SweepKill)
  /\ WF_vars(SweepReset)
  /\ WF_vars(HostStart)
  /\ SF_vars(Tick)

FairSpec == Spec /\ HostFairness /\ \A c \in Slots : RunnerFairness(c)
-----------------------------------------------------------------------------
(* Properties *)

InboundOK ==
  /\ class \in [Msgs -> AllClasses]
  /\ status \in [Msgs -> {"absent", "pending", "completed", "failed"}]
  /\ tries \in [Msgs -> 0..MaxTries]
  /\ wait \in [Msgs -> Nat]

OutboundOK ==
  /\ ack \in [Msgs -> {"none", "processing", "completed"}]
  /\ claimAge \in [Msgs -> 0..(ClaimStuck + 1)]
  /\ hb \in NoFile..(Ceiling + 1)
  /\ quiet \subseteq Msgs

HostOK ==
  /\ active \in Slots \cup {None}
  /\ sweep \in {"idle", "wait", "sla", "kill", "reset"}
  /\ restart \in {"idle", "kill"}
  /\ hostUp \in BOOLEAN /\ ended \in BOOLEAN
  /\ onExit \in BOOLEAN /\ waking \in BOOLEAN
  /\ crashes \in 0..MaxCrash

\* Every variable has its type; tries never exceed MAX_TRIES.
TypeOK == InboundOK /\ OutboundOK /\ HostOK /\ box \in [Slots -> Box]

\* At most one container runs on the session's directory at any time,
\* whatever races between the router's wakes, the sweep's, a restart's wake
\* on exit, kills, crashes and host restarts (wakePromises and
\* activeContainers exist for this; "One writer per file").
SingleContainer == \A c, d \in Live : c = d

\* When the host deletes claims in the container-owned outbound.db, no
\* container is running ("Safe because the host only writes to outbound.db
\* when no container is running").
ResetAlone == sweep = "reset" => Live = {}

\* The batch of the query, the claims of the follow-up poll and those it left
\* behind never share a message.
OneHand(b) ==
  /\ b.batch \cap b.follow = {}
  /\ \A g \in b.late : g \cap (b.batch \cup b.follow) = {}
  /\ \A g, h \in b.late : g = h \/ g \cap h = {}

\* What a running container has in its hands, or its agent has been given and
\* not answered, is in one hand and stays marked in processing_ack, so that no
\* poll, its own or a successor's, can hand it out again.
HeldStaysClaimed ==
  \A c \in Live :
    /\ \A m \in Held(c) \cup box[c].turn : ack[m] # "none"
    /\ OneHand(box[c])

\* An ack is never taken back: a message the runner is done with is neither
\* reset by a sweep, nor cleared by a fresh container, nor claimed again.
AckIsFinal ==
  [][\A m \in Msgs : ack[m] = "completed" => ack'[m] = "completed"]_ack

\* A message the host gave up on stays given up: nothing that was still
\* running acks it later, and no container ever claims it again.
GivenUpIsFinal ==
  [][\A m \in Msgs : status[m] = "failed" =>
        status'[m] = "failed" /\ ack'[m] = ack[m]]_<<status, ack>>

\* A message is given up only after MAX_TRIES counted retries.
FailedWhenExhausted == \A m \in Msgs : status[m] = "failed" => tries[m] = MaxTries

\* The host closes a row for one of two reasons: its tries are used up, or it
\* was acked, and then it stays acked.
ClosedForAReason ==
  FailedWhenExhausted /\ \A m \in Msgs : status[m] = "completed" => ack[m] = "completed"

\* Each message follows the abstract ledger: it is queued, claimed and then
\* done, or back in the queue with or without a counted retry, or dead after
\* exactly MaxTries counted ones.
Stage == [m \in Msgs |->
            IF status[m] = "absent" THEN "absent"
            ELSE IF status[m] = "failed" THEN "dead"
            ELSE IF ack[m] = "completed" THEN "done"
            ELSE IF ack[m] = "processing" THEN "working" ELSE "queued"]

Ledger == INSTANCE MessageLedger WITH stage <- Stage, retries <- tries

ImplementsLedger == Ledger!LedgerSpec

\* No message stays claimed forever: its claim is acked, or a sweep or a fresh
\* container takes it back, even when the agent went silent on it.
ClaimsResolve ==
  \A m \in Msgs : ack[m] = "processing" ~> ack[m] # "processing"

\* Every message that engages the agent ends handled or given up.
Settled ==
  \A m \in Msgs :
    status[m] = "pending" /\ class[m] # "context"
      ~> ack[m] = "completed" \/ status[m] = "failed"

-----------------------------------------------------------------------------
(* What the repository says of the program and the code does not do *)

\* poll-loop.ts, accumulate gate: a warm container does not hand the agent a
\* batch of accumulated context alone; context waits for a message that
\* engages.  The follow-up poll has no such gate.
EngagedOnly ==
  [][\A c \in Slots :
       LET given == box'[c].turn \ box[c].turn
       IN given # {} => \E m \in given : class[m] # "context"]_box

\* poll-loop.ts, processQuery: "if something is truly stuck, the host will kill
\* the container and messages get reset to pending".  A message pushed into
\* the stuck query is already acked completed.
StuckTurnIsReset ==
  [][sweep = "kill" /\ sweep' = "reset" /\ box[active].stuck =>
       \A m \in box[active].turn : ack[m] # "completed"]_<<sweep, box>>

\* host-sweep.ts, step 2: the wake is ordered before the cleanup "so a fresh
\* container gets a chance to clean its own orphan processing_ack rows on
\* startup".  The claims its predecessor left condemn it in the same tick.
FreshContainerSpared ==
  [][sweep = "kill" /\ sweep' = "reset" => box[active].phase # "boot"]_<<sweep, box>>
=============================================================================
