------------------------ MODULE SessionLifecycleProofs ------------------------
(* Proofs about SessionLifecycle, for every value of its constants. *)
EXTENDS SessionLifecycle, TLAPS

LEMMA OffIsBox == Off \in Box /\ Fresh \in Box
  BY DEF Off, Fresh, Box, Phases

LEMMA InitType == Init => TypeOK
<1> SUFFICES ASSUME Init PROVE TypeOK
  OBVIOUS
<1>1. InboundOK
  BY ConstantsOK DEF Init, InboundOK, AllClasses
<1>2. OutboundOK
  <2>1. hb \in NoFile..(Ceiling + 1)
    BY ConstantsOK DEF Init, NoFile
  <2>2. claimAge \in [Msgs -> 0..(ClaimStuck + 1)]
    BY ConstantsOK DEF Init
  <2>3. ack \in [Msgs -> {"none", "processing", "completed"}] /\ quiet \subseteq Msgs
    BY DEF Init
  <2>4. QED
    BY <2>1, <2>2, <2>3 DEF OutboundOK
<1>3. HostOK
  <2>1. crashes \in 0..MaxCrash
    BY ConstantsOK DEF Init
  <2>2. QED
    BY <2>1 DEF Init, HostOK
<1>4. box \in [Slots -> Box]
  BY OffIsBox DEF Init
<1>5. QED
  BY <1>1, <1>2, <1>3, <1>4 DEF TypeOK

\* Writing processing_ack and then touching or leaving the heartbeat file
\* keeps the types of what containers write.
LEMMA SetAcksType ==
  ASSUME OutboundOK, NEW new \in [Msgs -> {"none", "processing", "completed"}],
         SetAcks(new)
  PROVE  /\ ack' \in [Msgs -> {"none", "processing", "completed"}]
         /\ claimAge' \in [Msgs -> 0..(ClaimStuck + 1)]
  BY ConstantsOK DEF OutboundOK, SetAcks

LEMMA LeaveHeartbeatType ==
  ASSUME OutboundOK, NEW new, LeaveHeartbeat(new)
  PROVE  hb' \in NoFile..(Ceiling + 1) /\ quiet' \subseteq Msgs
  BY DEF OutboundOK, LeaveHeartbeat

LEMMA TouchType ==
  ASSUME OutboundOK, TouchHeartbeat
  PROVE  hb' \in NoFile..(Ceiling + 1) /\ quiet' \subseteq Msgs
  BY ConstantsOK DEF OutboundOK, TouchHeartbeat, NoFile

LEMMA AcksType ==
  ASSUME OutboundOK
  PROVE  /\ Unclaimed \in [Msgs -> {"none", "processing", "completed"}]
         /\ \A S : \A mark \in {"processing", "completed"} :
              Marked(S, mark) \in [Msgs -> {"none", "processing", "completed"}]
  BY DEF OutboundOK, Unclaimed, Marked

LEMMA OutboundStep ==
  ASSUME OutboundOK, NEW new \in [Msgs -> {"none", "processing", "completed"}],
         SetAcks(new), TouchHeartbeat \/ LeaveHeartbeat(new)
  PROVE  OutboundOK'
  BY SetAcksType, LeaveHeartbeatType, TouchType DEF OutboundOK

\* What a container action does to its own box keeps the box's type.
LEMMA BoxStep ==
  ASSUME box \in [Slots -> Box], NEW c \in Slots, NEW b \in Box,
         box' = [box EXCEPT ![c] = b]
  PROVE  box' \in [Slots -> Box]
  OBVIOUS

LEMMA ContainerType ==
  ASSUME TypeOK, NEW c \in Slots, NEW b \in Box, box' = [box EXCEPT ![c] = b],
         NEW new \in [Msgs -> {"none", "processing", "completed"}],
         SetAcks(new), TouchHeartbeat \/ LeaveHeartbeat(new),
         UNCHANGED <<inbound, host, crashes>>
  PROVE  TypeOK'
<1>1. OutboundOK'
  BY OutboundStep DEF TypeOK
<1>2. box' \in [Slots -> Box]
  BY BoxStep DEF TypeOK
<1>3. InboundOK'
  BY DEF TypeOK, InboundOK, inbound
<1>4. HostOK'
  BY DEF TypeOK, HostOK, host
<1>5. QED
  BY <1>1, <1>2, <1>3, <1>4 DEF TypeOK

LEMMA HeldType ==
  ASSUME TypeOK, NEW c \in Slots
  PROVE  /\ box[c] \in Box
         /\ \A first \in BOOLEAN : GetPendingMessages(first) \subseteq Msgs
  BY DEF TypeOK, Due, Newest, GetPendingMessages

LEMMA TouchForScriptsCases ==
  ASSUME NEW S, NEW new, TouchForScripts(S, new)
  PROVE  TouchHeartbeat \/ LeaveHeartbeat(new)
  BY DEF TouchForScripts

LEMMA ContainerStepType ==
  ASSUME TypeOK, NEW c \in Slots, ContainerStep(c)
  PROVE  TypeOK'
<1> DEFINE AckType == [Msgs -> {"none", "processing", "completed"}]
<1>0. /\ Unclaimed \in AckType
      /\ \A S : \A mark \in {"processing", "completed"} : Marked(S, mark) \in AckType
  BY AcksType DEF TypeOK
<1>b. box[c] \in Box
  BY HeldType
<1>1. CASE Boot(c)
  <2>1. [box[c] EXCEPT !.phase = "poll"] \in Box
    BY <1>b DEF Box, Phases
  <2>2. QED
    BY <1>0, <1>1, <2>1, ContainerType DEF Boot
<1>2. CASE PollIdle(c)
  <2>1. [box[c] EXCEPT !.first = FALSE] \in Box
    BY <1>b DEF Box
  <2>2. box' \in [Slots -> Box]
    BY <1>2, <2>1, BoxStep DEF PollIdle, TypeOK
  <2>3. QED
    BY <1>2, <2>2 DEF PollIdle, TypeOK, InboundOK, OutboundOK, HostOK, inbound,
                      outbound, files, host
<1>3. CASE PollClaim(c)
  <2> DEFINE batch == box[c].seen
             clears == {m \in batch : class[m] = "clear"}
             b == [box[c] EXCEPT !.seen = {}, !.batch = batch,
                     !.phase = IF clears # {} THEN "command" ELSE "script"]
  <2>1. b \in Box
    BY <1>b DEF Box, Phases
  <2>2. QED
    BY <1>0, <1>3, <2>1, ContainerType, TouchForScriptsCases DEF PollClaim
<1>15. CASE PollRead(c)
  <2>1. [box[c] EXCEPT !.first = FALSE, !.seen = GetPendingMessages(box[c].first)] \in Box
    BY <1>b, HeldType DEF Box
  <2>2. box' \in [Slots -> Box]
    BY <1>15, <2>1, BoxStep DEF PollRead, TypeOK
  <2>3. QED
    BY <1>15, <2>2 DEF PollRead, TypeOK, InboundOK, OutboundOK, HostOK, inbound,
                       outbound, files, host
<1>4. CASE ClearCommands(c)
  <2> DEFINE clears == {m \in box[c].batch : class[m] = "clear"}
             rest == box[c].batch \ clears
             b == [box[c] EXCEPT !.batch = rest,
                     !.phase = IF rest = {} THEN "poll" ELSE "script"]
  <2>1. b \in Box
    BY <1>b DEF Box, Phases
  <2>2. QED
    BY <1>0, <1>4, <2>1, ContainerType DEF ClearCommands
<1>5. ASSUME NEW skipped \in SUBSET Msgs, StartQuery(c, skipped)
      PROVE  TypeOK'
  <2> DEFINE keep == box[c].batch \ skipped
             b == [box[c] EXCEPT !.batch = keep, !.turn = keep,
                     !.phase = IF keep = {} THEN "poll" ELSE "query"]
  <2>1. b \in Box
    BY <1>b DEF Box, Phases
  <2>2. QED
    BY <1>0, <1>5, <2>1, ContainerType, TouchForScriptsCases DEF StartQuery
<1>6. CASE QueryEvent(c)
  BY <1>6, TouchType DEF QueryEvent, TypeOK, InboundOK, OutboundOK, HostOK, inbound,
                         outbound, host
<1>7. CASE AgentStuck(c)
  <2>1. [box[c] EXCEPT !.stuck = TRUE] \in Box
    BY <1>b DEF Box
  <2>2. box' \in [Slots -> Box]
    BY <1>7, <2>1, BoxStep DEF AgentStuck, TypeOK
  <2>3. QED
    BY <1>7, <2>2 DEF AgentStuck, TypeOK, InboundOK, OutboundOK, HostOK, inbound,
                      outbound, files, host
<1>8. ASSUME NEW answered \in SUBSET Msgs, QueryResult(c, answered)
      PROVE  TypeOK'
  <2>1. [box[c] EXCEPT !.turn = box[c].turn \ answered] \in Box
    BY <1>b DEF Box
  <2>2. QED
    BY <1>0, <1>8, <2>1, ContainerType DEF QueryResult
<1>9. ASSUME NEW failed \in BOOLEAN, QueryEnd(c, failed)
      PROVE  TypeOK'
  <2>1. [box[c] EXCEPT !.phase = "poll", !.batch = {}, !.turn = {}, !.follow = {},
           !.ending = FALSE, !.late = box[c].late \cup ({box[c].follow} \ {{}})] \in Box
    BY <1>b DEF Box, Phases
  <2>2. QED
    BY <1>0, <1>9, <2>1, ContainerType DEF QueryEnd
<1>10. CASE FollowUpClaim(c)
  <2>1. [box[c] EXCEPT !.seen = {}, !.follow = box[c].seen] \in Box
    BY <1>b DEF Box
  <2>2. QED
    BY <1>0, <1>10, <2>1, ContainerType, TouchForScriptsCases DEF FollowUpClaim
<1>16. CASE FollowUpRead(c)
  <2> DEFINE command == \E m \in GetPendingMessages(FALSE) : class[m] \in Commands
             b == [box[c] EXCEPT !.ending = command,
                     !.seen = IF command THEN {} ELSE GetPendingMessages(FALSE)]
  <2>1. b \in Box
    BY <1>b, HeldType DEF Box
  <2>2. box' \in [Slots -> Box]
    BY <1>16, <2>1, BoxStep DEF FollowUpRead, TypeOK
  <2>3. QED
    BY <1>16, <2>2 DEF FollowUpRead, TypeOK, InboundOK, OutboundOK, HostOK, inbound,
                       outbound, files, host
<1>11. ASSUME NEW skipped \in SUBSET Msgs, FollowUpPush(c, skipped)
       PROVE  TypeOK'
  <2>1. [box[c] EXCEPT !.follow = {}, !.turn = box[c].turn \cup (box[c].follow \ skipped)] \in Box
    BY <1>b DEF Box
  <2>2. QED
    BY <1>0, <1>11, <2>1, ContainerType, TouchForScriptsCases DEF FollowUpPush
<1>12. ASSUME NEW group \in SUBSET Msgs, NEW skipped \in SUBSET Msgs,
              FollowUpTooLate(c, group, skipped)
       PROVE  TypeOK'
  <2>1. [box[c] EXCEPT !.late = box[c].late \ {group}] \in Box
    BY <1>b DEF Box
  <2>2. QED
    BY <1>0, <1>12, <2>1, ContainerType, TouchForScriptsCases DEF FollowUpTooLate
<1>13. CASE Crash(c)
  <2>1. box' \in [Slots -> Box]
    BY <1>13, OffIsBox, BoxStep DEF Crash, TypeOK
  <2>2. HostOK'
    BY <1>13, ConstantsOK DEF Crash, TypeOK, HostOK
  <2>3. QED
    BY <1>13, <2>1, <2>2 DEF Crash, TypeOK, InboundOK, OutboundOK, inbound, outbound, files
<1>14. QED
  BY <1>1, <1>2, <1>3, <1>4, <1>5, <1>6, <1>7, <1>8, <1>9, <1>10, <1>11, <1>12,
     <1>13, <1>15, <1>16 DEF ContainerStep

LEMMA KillType ==
  ASSUME TypeOK, KillContainer
  PROVE  box' \in [Slots -> Box] /\ ended' \in BOOLEAN
<1>1. box' \in [Slots -> Box]
  BY OffIsBox DEF TypeOK, KillContainer
<1>2. QED
  BY <1>1 DEF KillContainer

LEMMA ResetType ==
  ASSUME TypeOK, SweepReset
  PROVE  TypeOK'
<1> USE DEF SweepReset, ResetAfter
<1>1. OutboundOK'
  BY AcksType, OutboundStep DEF TypeOK
<1>2. tries' \in [Msgs -> 0..MaxTries]
  <2>1. \A m \in Msgs : m \in (Claims \cap Due) \ {n \in Claims \cap Due : tries[n] >= MaxTries}
                           => tries[m] + 1 \in 0..MaxTries
    BY ConstantsOK DEF TypeOK, InboundOK
  <2>2. QED
    BY <2>1 DEF TypeOK, InboundOK
<1>3. wait' \in [Msgs -> Nat]
  <2>1. \A m \in Msgs : Backoff[tries[m]] \in Nat
    BY ConstantsOK DEF TypeOK, InboundOK
  <2>2. QED
    BY <2>1 DEF TypeOK, InboundOK
<1>4. InboundOK'
  BY <1>2, <1>3 DEF TypeOK, InboundOK
<1>5. HostOK' /\ box' \in [Slots -> Box]
  BY DEF TypeOK, HostOK, runner
<1>6. QED
  BY <1>1, <1>4, <1>5 DEF TypeOK

LEMMA HostStepType ==
  ASSUME TypeOK, HostStep
  PROVE  TypeOK'
<1> USE DEF inbound, outbound, files, runner
<1>1. ASSUME NEW m \in Msgs, NEW k \in Classes, Arrive(m, k)
      PROVE  TypeOK'
  <2>1. class' \in [Msgs -> AllClasses]
    BY <1>1, ConstantsOK DEF Arrive, TypeOK, InboundOK
  <2>2. status' \in [Msgs -> {"absent", "pending", "completed", "failed"}]
    BY <1>1 DEF Arrive, TypeOK, InboundOK
  <2>3. wait' \in [Msgs -> Nat]
    BY <1>1 DEF Arrive, TypeOK, InboundOK
  <2>4. waking' \in BOOLEAN
    BY <1>1 DEF Arrive, WakeContainer, TypeOK, HostOK
  <2>5. QED
    BY <1>1, <2>1, <2>2, <2>3, <2>4 DEF Arrive, TypeOK, InboundOK, OutboundOK, HostOK
<1>2. ASSUME NEW c \in Slots, SpawnOk(c)
      PROVE  TypeOK'
  <2>1. box' \in [Slots -> Box]
    BY <1>2, OffIsBox DEF SpawnOk, TypeOK
  <2>2. OutboundOK'
    BY <1>2, ConstantsOK DEF SpawnOk, TypeOK, OutboundOK, NoFile, Claims
  <2>3. QED
    BY <1>2, <2>1, <2>2 DEF SpawnOk, TypeOK, InboundOK, HostOK
<1>3. CASE SpawnFail
  BY <1>3 DEF SpawnFail, TypeOK, InboundOK, OutboundOK, HostOK
<1>4. CASE ContainerClosed
  BY <1>4 DEF ContainerClosed, TypeOK, InboundOK, OutboundOK, HostOK
<1>5. ASSUME NEW m \in Msgs, RestartWrite(m)
      PROVE  TypeOK'
  <2>1. class' \in [Msgs -> AllClasses]
    BY <1>5 DEF RestartWrite, TypeOK, InboundOK, AllClasses
  <2>2. status' \in [Msgs -> {"absent", "pending", "completed", "failed"}]
    BY <1>5 DEF RestartWrite, TypeOK, InboundOK
  <2>3. QED
    BY <1>5, <2>1, <2>2 DEF RestartWrite, TypeOK, InboundOK, OutboundOK, HostOK
<1>6. CASE RestartKill
  BY <1>6, KillType DEF RestartKill, TypeOK, InboundOK, OutboundOK, HostOK
<1>7. CASE SweepStart
  <2>1. status' \in [Msgs -> {"absent", "pending", "completed", "failed"}]
    BY <1>7 DEF SweepStart, TypeOK, InboundOK
  <2>2. sweep' \in {"wait", "sla", "reset"} /\ waking' \in BOOLEAN
    BY <1>7 DEF SweepStart, TypeOK, HostOK
  <2>3. QED
    BY <1>7, <2>1, <2>2 DEF SweepStart, TypeOK, InboundOK, OutboundOK, HostOK
<1>8. CASE SweepSla
  BY <1>8 DEF SweepSla, TypeOK, InboundOK, OutboundOK, HostOK
<1>9. CASE SweepKill
  BY <1>9, KillType DEF SweepKill, TypeOK, InboundOK, OutboundOK, HostOK
<1>10. CASE SweepReset
  BY <1>10, ResetType
<1>11. CASE HostCrash
  <2>1. crashes' \in 0..MaxCrash
    BY <1>11, ConstantsOK DEF HostCrash, TypeOK, HostOK
  <2>2. QED
    BY <1>11, <2>1 DEF HostCrash, TypeOK, InboundOK, OutboundOK, HostOK
<1>12. CASE HostStart
  <2>1. box' \in [Slots -> Box]
    BY <1>12, OffIsBox DEF HostStart, TypeOK
  <2>2. QED
    BY <1>12, <2>1 DEF HostStart, TypeOK, InboundOK, OutboundOK, HostOK
<1>13. QED
  BY <1>1, <1>2, <1>3, <1>4, <1>5, <1>6, <1>7, <1>8, <1>9, <1>10, <1>11, <1>12
     DEF HostStep

LEMMA TickType ==
  ASSUME TypeOK, Tick
  PROVE  TypeOK'
<1>1. wait' \in [Msgs -> Nat]
  BY DEF Tick, TypeOK, InboundOK
<1>2. claimAge' \in [Msgs -> 0..(ClaimStuck + 1)]
  BY ConstantsOK DEF Tick, TypeOK, OutboundOK
<1>3. hb' \in NoFile..(Ceiling + 1)
  BY ConstantsOK DEF Tick, TypeOK, OutboundOK, NoFile
<1>4. QED
  BY <1>1, <1>2, <1>3 DEF Tick, TypeOK, InboundOK, OutboundOK, HostOK, host

LEMMA StutterType ==
  ASSUME TypeOK, UNCHANGED vars
  PROVE  TypeOK'
  BY DEF TypeOK, InboundOK, OutboundOK, HostOK, vars

LEMMA StepType ==
  ASSUME TypeOK, [Next]_vars
  PROVE  TypeOK'
  BY ContainerStepType, HostStepType, TickType, StutterType DEF Next

\* Every reachable state has its types; in particular a message is retried at
\* most MaxTries times by the sweep (resetStuckProcessingRows, MAX_TRIES).
THEOREM TypeCorrect == Spec => []TypeOK
<1>1. TypeOK /\ [Next]_vars => TypeOK'
  BY StepType
<1>2. QED
  BY InitType, <1>1, PTL DEF Spec
-----------------------------------------------------------------------------

\* One container at a time, and the host's memory agrees with it: while the
\* host runs, only the container it tracks can run, a wake in flight excludes
\* a tracked container, and an entry without its container is one whose
\* 'close' event is still queued.  ResetAlone is the sweep's part of it.
Tracked ==
  /\ SingleContainer
  /\ hostUp => \A c \in Live : c = active
  /\ active # None => hostUp
  /\ waking => hostUp /\ active = None
  /\ ended <=> active # None /\ active \notin Live
  /\ sweep # "idle" => hostUp
  /\ restart # "idle" => hostUp /\ active # None /\ sweep \in {"idle", "wait"}
  /\ sweep = "wait" => waking
  /\ sweep \in {"sla", "kill"} => active # None
  /\ ResetAlone

\* The two tables agree: a row the host closed was acked, and nobody has a
\* claim on a row that does not exist or was given up.
RowsOK ==
  \A m \in Msgs :
    /\ status[m] = "completed" => ack[m] = "completed"
    /\ status[m] \in {"absent", "failed"} => ack[m] = "none"

\* What a container holds or has given to its agent is claimed and in one hand,
\* what a poll has read is still pending and claimed by nobody, and there is
\* nothing of either before its loop.
HeldOK ==
  \A c \in Slots :
    /\ box[c].phase \in {"off", "boot"} =>
         Held(c) = {} /\ box[c].late = {} /\ box[c].turn = {} /\ box[c].seen = {}
    /\ \A m \in Held(c) \cup box[c].turn : ack[m] # "none"
    /\ \A m \in box[c].seen : ack[m] = "none" /\ status[m] = "pending"
    /\ OneHand(box[c])

\* What a step of a running container other than its boot or its crash may do:
\* read pending rows that nobody claimed, claim what it has read, and ack what
\* it holds.
RunnerEffect(c) ==
  /\ \A m \in Msgs :
       \/ ack'[m] = ack[m]
       \/ ack[m] = "none" /\ status[m] = "pending" /\ ack'[m] = "processing"
       \/ m \in Held(c) /\ ack'[m] = "completed"
  /\ \A m \in box'[c].seen : ack'[m] = "none" /\ status[m] = "pending"
  /\ \A m \in Held(c)' : m \in Held(c) \/ ack'[m] = "processing"
  /\ OneHand(box'[c])
  /\ box'[c].turn \subseteq box[c].turn \cup Held(c)
  /\ \A d \in Slots \ {c} : box'[d] = box[d]
  /\ box[c].phase \notin {"off", "boot"}
  /\ box'[c].phase \notin {"off", "boot"}

\* The body of every step that acks what the container holds.
LEMMA CompletesHeld ==
  ASSUME TypeOK, HeldOK, NEW c \in Slots, NEW b \in Box, box' = [box EXCEPT ![c] = b],
         NEW S, S \subseteq Held(c), SetAcks(Marked(S, "completed")),
         InHand(b) \subseteq Held(c), OneHand(b), b.turn \subseteq box[c].turn \cup Held(c),
         b.seen = box[c].seen,
         box[c].phase \notin {"off", "boot"}, b.phase \notin {"off", "boot"}
  PROVE  RunnerEffect(c)
<1>1. box'[c] = b /\ \A d \in Slots \ {c} : box'[d] = box[d]
  BY DEF TypeOK
<1>2. \A m \in Msgs : ack'[m] = ack[m] \/ (m \in Held(c) /\ ack'[m] = "completed")
  BY DEF SetAcks, Marked
<1>3. Held(c)' \subseteq Held(c)
  BY <1>1 DEF Held
<1>4. \A m \in box'[c].seen : ack'[m] = "none" /\ status[m] = "pending"
  <2>1. ASSUME NEW m \in box[c].seen
        PROVE  m \in Msgs /\ m \notin S /\ ack[m] = "none" /\ status[m] = "pending"
    BY DEF HeldOK, TypeOK, Box
  <2>2. QED
    BY <1>1, <2>1 DEF SetAcks, Marked
<1>5. QED
  BY <1>1, <1>2, <1>3, <1>4 DEF RunnerEffect

\* The body of the two steps that claim what a poll has read.
LEMMA ClaimsPending ==
  ASSUME TypeOK, HeldOK, NEW c \in Slots, NEW b \in Box, box' = [box EXCEPT ![c] = b],
         NEW S, S = box[c].seen, SetAcks(Marked(S, "processing")), b.seen = {},
         InHand(b) \subseteq Held(c) \cup S, OneHand(b), b.turn = box[c].turn,
         box[c].phase \notin {"off", "boot"}, b.phase \notin {"off", "boot"}
  PROVE  RunnerEffect(c)
<1>1. box'[c] = b /\ \A d \in Slots \ {c} : box'[d] = box[d]
  BY DEF TypeOK
<1>2. \A m \in S : m \in Msgs /\ ack[m] = "none" /\ status[m] = "pending"
  BY DEF HeldOK, TypeOK, Box
<1>3. \A m \in Msgs : ack'[m] = IF m \in S THEN "processing" ELSE ack[m]
  BY DEF SetAcks, Marked
<1>4. \A m \in Msgs :
        \/ ack'[m] = ack[m]
        \/ ack[m] = "none" /\ status[m] = "pending" /\ ack'[m] = "processing"
  BY <1>2, <1>3
<1>5. Held(c)' \subseteq Held(c) \cup S
  BY <1>1 DEF Held
<1>6. \A m \in Held(c)' : m \in Held(c) \/ ack'[m] = "processing"
  BY <1>2, <1>3, <1>5
<1>7. QED
  BY <1>1, <1>4, <1>6 DEF RunnerEffect

\* What a poll has read is not in the container's hands.
LEMMA SeenAreNotHeld ==
  ASSUME HeldOK, NEW c \in Slots
  PROVE  /\ box[c].seen \cap (box[c].batch \cup box[c].follow) = {}
         /\ \A g \in box[c].late : g \cap box[c].seen = {}
  BY DEF HeldOK, Held, InHand

\* The body of the two steps that read the rows a poll is about to claim.
LEMMA ReadsPending ==
  ASSUME TypeOK, HeldOK, NEW c \in Slots, NEW b \in Box, box' = [box EXCEPT ![c] = b],
         NEW first \in BOOLEAN, b.seen \subseteq GetPendingMessages(first), ack' = ack,
         b.batch = box[c].batch, b.follow = box[c].follow, b.late = box[c].late,
         b.turn = box[c].turn, b.phase = box[c].phase,
         box[c].phase \notin {"off", "boot"}
  PROVE  RunnerEffect(c)
<1>1. box'[c] = b /\ \A d \in Slots \ {c} : box'[d] = box[d]
  BY DEF TypeOK
<1>2. \A m \in b.seen : ack[m] = "none" /\ status[m] = "pending"
  BY DEF GetPendingMessages, Newest, Due
<1>3. Held(c)' = Held(c) /\ OneHand(b)
  BY <1>1 DEF HeldOK, Held, InHand, OneHand
<1>4. QED
  BY <1>1, <1>2, <1>3 DEF RunnerEffect

LEMMA RunnerSteps ==
  ASSUME TypeOK, HeldOK, NEW c \in Slots, ContainerStep(c)
  PROVE  Boot(c) \/ Crash(c) \/ RunnerEffect(c)
<1>b. box[c] \in Box
  BY HeldType
<1>0. box[c].phase \in {"off", "boot"} => box[c].late = {}
  BY DEF HeldOK
<1>h. /\ OneHand(box[c]) /\ \A m \in Held(c) : ack[m] # "none"
      /\ \A m \in box[c].seen : ack[m] = "none" /\ status[m] = "pending"
  BY DEF HeldOK
<1>1. CASE PollIdle(c)
  <2>1. box'[c] = [box[c] EXCEPT !.first = FALSE] /\ \A d \in Slots \ {c} : box'[d] = box[d]
    BY <1>1 DEF PollIdle, TypeOK
  <2>2. /\ Held(c)' = Held(c) /\ box'[c].phase = box[c].phase
        /\ OneHand(box'[c]) /\ box'[c].turn = box[c].turn /\ box'[c].seen = box[c].seen
    BY <1>b, <1>h, <2>1 DEF Held, InHand, Box, OneHand
  <2>3. QED
    BY <1>1, <1>h, <2>1, <2>2 DEF PollIdle, RunnerEffect, outbound
<1>2. CASE PollClaim(c)
  <2> DEFINE batch == box[c].seen
             clears == {m \in batch : class[m] = "clear"}
             b == [box[c] EXCEPT !.seen = {}, !.batch = batch,
                     !.phase = IF clears # {} THEN "command" ELSE "script"]
  <2>1. b \in Box
    BY <1>b DEF Box, Phases
  <2>2. InHand(b) \subseteq Held(c) \cup batch
    BY <1>b DEF Held, InHand, Box
  <2>3. b.seen = {} /\ b.phase \notin {"off", "boot"} /\ b.turn = box[c].turn
    BY <1>b DEF Box
  <2>4. b.batch = batch /\ b.follow = box[c].follow /\ b.late = box[c].late
    BY <1>b DEF Box
  <2>5. OneHand(b)
    BY <1>h, <2>4, SeenAreNotHeld DEF OneHand
  <2>6. QED
    BY <1>2, <2>1, <2>2, <2>3, <2>5, ClaimsPending DEF PollClaim
<1>13. CASE PollRead(c)
  <2> DEFINE b == [box[c] EXCEPT !.first = FALSE, !.seen = GetPendingMessages(box[c].first)]
  <2>1. b \in Box
    BY <1>b, HeldType DEF Box
  <2>2. /\ b.seen = GetPendingMessages(box[c].first) /\ b.batch = box[c].batch
        /\ b.follow = box[c].follow /\ b.late = box[c].late
        /\ b.turn = box[c].turn /\ b.phase = box[c].phase /\ box[c].first \in BOOLEAN
    BY <1>b DEF Box
  <2>3. QED
    BY <1>13, <2>1, <2>2, ReadsPending DEF PollRead, outbound
<1>3. CASE ClearCommands(c)
  <2> DEFINE clears == {m \in box[c].batch : class[m] = "clear"}
             rest == box[c].batch \ clears
             b == [box[c] EXCEPT !.batch = rest,
                     !.phase = IF rest = {} THEN "poll" ELSE "script"]
  <2>1. b \in Box
    BY <1>b DEF Box, Phases
  <2>2. clears \subseteq Held(c) /\ InHand(b) \subseteq Held(c)
    BY <1>b DEF Held, InHand, Box
  <2>3. /\ b.phase \notin {"off", "boot"} /\ b.turn = box[c].turn /\ OneHand(b)
        /\ b.seen = box[c].seen
    BY <1>b, <1>h DEF Box, OneHand
  <2>4. QED
    BY <1>3, <2>1, <2>2, <2>3, CompletesHeld DEF ClearCommands
<1>4. ASSUME NEW skipped \in SUBSET Msgs, StartQuery(c, skipped)
      PROVE  RunnerEffect(c)
  <2> DEFINE keep == box[c].batch \ skipped
             b == [box[c] EXCEPT !.batch = keep, !.turn = keep,
                     !.phase = IF keep = {} THEN "poll" ELSE "query"]
  <2>1. b \in Box
    BY <1>b DEF Box, Phases
  <2>2. InHand(b) \subseteq Held(c)
    BY <1>b DEF Held, InHand, Box
  <2>3. skipped \subseteq Held(c)
    BY <1>4 DEF StartQuery, Scripted, Held, InHand
  <2>4. /\ b.phase \notin {"off", "boot"} /\ b.turn \subseteq Held(c) /\ OneHand(b)
        /\ b.seen = box[c].seen
    BY <1>b, <1>h DEF Box, OneHand, Held, InHand
  <2>5. QED
    BY <1>4, <2>1, <2>2, <2>3, <2>4, CompletesHeld DEF StartQuery
<1>5. CASE QueryEvent(c)
  BY <1>5, <1>h DEF QueryEvent, RunnerEffect, outbound, Held
<1>6. CASE AgentStuck(c)
  <2>1. box'[c] = [box[c] EXCEPT !.stuck = TRUE] /\ \A d \in Slots \ {c} : box'[d] = box[d]
    BY <1>6 DEF AgentStuck, TypeOK
  <2>2. /\ Held(c)' = Held(c) /\ box'[c].phase = box[c].phase
        /\ OneHand(box'[c]) /\ box'[c].turn = box[c].turn /\ box'[c].seen = box[c].seen
    BY <1>b, <1>h, <2>1 DEF Held, InHand, Box, OneHand
  <2>3. QED
    BY <1>6, <1>h, <2>1, <2>2 DEF AgentStuck, RunnerEffect, outbound
<1>7. ASSUME NEW answered \in SUBSET Msgs, QueryResult(c, answered)
      PROVE  RunnerEffect(c)
  <2> DEFINE b == [box[c] EXCEPT !.turn = box[c].turn \ answered]
  <2>1. b \in Box /\ b.phase = box[c].phase
    BY <1>b DEF Box
  <2>2. box[c].batch \subseteq Held(c) /\ InHand(b) \subseteq Held(c)
    BY <1>b DEF Held, InHand, Box
  <2>3. OneHand(b) /\ b.turn \subseteq box[c].turn /\ b.seen = box[c].seen
    BY <1>b, <1>h DEF Box, OneHand
  <2>4. QED
    BY <1>7, <2>1, <2>2, <2>3, CompletesHeld DEF QueryResult
<1>8. ASSUME NEW failed \in BOOLEAN, QueryEnd(c, failed)
      PROVE  RunnerEffect(c)
  <2> DEFINE b == [box[c] EXCEPT !.phase = "poll", !.batch = {}, !.turn = {}, !.follow = {},
                     !.ending = FALSE, !.late = box[c].late \cup ({box[c].follow} \ {{}})]
  <2>1. b \in Box /\ b.phase = "poll"
    BY <1>b DEF Box, Phases
  <2>2. /\ b.batch = {} /\ b.follow = {} /\ b.turn = {} /\ b.seen = box[c].seen
        /\ b.late \subseteq box[c].late \cup {box[c].follow}
    BY <1>b DEF Box
  <2>3. box[c].batch \subseteq Held(c) /\ InHand(b) \subseteq Held(c)
    BY <2>2 DEF Held, InHand
  <2>4. OneHand(b)
    <3>1. ASSUME NEW g \in b.late, NEW h \in b.late, g # h PROVE g \cap h = {}
      BY <1>h, <2>2, <3>1 DEF OneHand
    <3>2. QED
      BY <2>2, <3>1 DEF OneHand
  <2>5. QED
    BY <1>8, <2>1, <2>2, <2>3, <2>4, CompletesHeld DEF QueryEnd
<1>9. CASE FollowUpClaim(c)
  <2> DEFINE b == [box[c] EXCEPT !.seen = {}, !.follow = box[c].seen]
  <2>1. b \in Box /\ b.phase = box[c].phase
    BY <1>b DEF Box
  <2>2. InHand(b) \subseteq Held(c) \cup box[c].seen
    BY <1>b DEF Held, InHand, Box
  <2>3. /\ b.batch = box[c].batch /\ b.follow = box[c].seen /\ b.late = box[c].late
        /\ b.turn = box[c].turn /\ b.seen = {}
    BY <1>b DEF Box
  <2>4. OneHand(b)
    BY <1>h, <2>3, SeenAreNotHeld DEF OneHand
  <2>5. QED
    BY <1>9, <2>1, <2>2, <2>3, <2>4, ClaimsPending DEF FollowUpClaim
<1>14. CASE FollowUpRead(c)
  <2> DEFINE command == \E m \in GetPendingMessages(FALSE) : class[m] \in Commands
             b == [box[c] EXCEPT !.ending = command,
                     !.seen = IF command THEN {} ELSE GetPendingMessages(FALSE)]
  <2>1. b \in Box
    BY <1>b, HeldType DEF Box
  <2>2. /\ b.seen \subseteq GetPendingMessages(FALSE) /\ b.batch = box[c].batch
        /\ b.follow = box[c].follow /\ b.late = box[c].late
        /\ b.turn = box[c].turn /\ b.phase = box[c].phase
    BY <1>b DEF Box
  <2>3. QED
    BY <1>14, <2>1, <2>2, ReadsPending DEF FollowUpRead, outbound
<1>10. ASSUME NEW skipped \in SUBSET Msgs, FollowUpPush(c, skipped)
       PROVE  RunnerEffect(c)
  <2> DEFINE b == [box[c] EXCEPT !.follow = {},
                     !.turn = box[c].turn \cup (box[c].follow \ skipped)]
  <2>1. b \in Box /\ b.phase = box[c].phase
    BY <1>b DEF Box
  <2>2. box[c].follow \subseteq Held(c) /\ InHand(b) \subseteq Held(c)
    BY <1>b DEF Held, InHand, Box
  <2>3. OneHand(b) /\ b.turn \subseteq box[c].turn \cup Held(c) /\ b.seen = box[c].seen
    BY <1>b, <1>h, <2>2 DEF Box, OneHand
  <2>4. QED
    BY <1>10, <2>1, <2>2, <2>3, CompletesHeld DEF FollowUpPush
<1>11. ASSUME NEW group \in SUBSET Msgs, NEW skipped \in SUBSET Msgs,
              FollowUpTooLate(c, group, skipped)
       PROVE  RunnerEffect(c)
  <2> DEFINE b == [box[c] EXCEPT !.late = box[c].late \ {group}]
  <2>1. b \in Box /\ b.phase = box[c].phase
    BY <1>b DEF Box
  <2>2. InHand(b) \subseteq Held(c)
    BY <1>b DEF Held, InHand, Box
  <2>3. skipped \subseteq group /\ group \subseteq Held(c)
    BY <1>11 DEF FollowUpTooLate, Scripted, Held, InHand
  <2>4. box[c].phase \notin {"off", "boot"}
    BY <1>0, <1>11 DEF FollowUpTooLate
  <2>5. OneHand(b) /\ b.turn = box[c].turn /\ b.seen = box[c].seen
    BY <1>b, <1>h DEF Box, OneHand
  <2>6. QED
    BY <1>11, <2>1, <2>2, <2>3, <2>4, <2>5, CompletesHeld DEF FollowUpTooLate
<1>12. QED
  BY <1>1, <1>2, <1>3, <1>4, <1>5, <1>6, <1>7, <1>8, <1>9, <1>10, <1>11,
     <1>13, <1>14 DEF ContainerStep
-----------------------------------------------------------------------------
\* One container at a time.

LEMMA RunnerLeavesHost ==
  ASSUME NEW c \in Slots, ContainerStep(c), ~Crash(c)
  PROVE  UNCHANGED <<inbound, host, crashes>>
  BY DEF ContainerStep, Boot, PollIdle, PollRead, PollClaim, ClearCommands, StartQuery,
         QueryEvent, AgentStuck, QueryResult, QueryEnd, FollowUpRead, FollowUpClaim,
         FollowUpPush, FollowUpTooLate

LEMMA RunnerKeepsLive ==
  ASSUME TypeOK, HeldOK, NEW c \in Slots, ContainerStep(c), ~Crash(c)
  PROVE  Live' = Live
<1>1. CASE Boot(c)
  <2>1. box'[c] = [box[c] EXCEPT !.phase = "poll"] /\ \A d \in Slots \ {c} : box'[d] = box[d]
    BY <1>1 DEF Boot, TypeOK
  <2>2. box'[c].phase = "poll" /\ box[c].phase = "boot"
    BY <1>1, <2>1, HeldType DEF Boot, Box
  <2>3. QED
    BY <2>1, <2>2 DEF Live
<1>2. CASE RunnerEffect(c)
  BY <1>2 DEF RunnerEffect, Live
<1>3. QED
  BY <1>1, <1>2, RunnerSteps

\* Killing the tracked container leaves none, once the host tracks the only one.
LEMMA KillLeavesNone ==
  ASSUME ~StopCanFail, TypeOK, Tracked, hostUp, active # None, KillContainer
  PROVE  Live' = {}
<1>1. active \in Slots /\ \A c \in Live : c = active
  BY DEF Tracked, TypeOK, HostOK
<1>2. box' = [box EXCEPT ![active] = Off]
  BY DEF KillContainer
<1>3. box'[active].phase = "off" /\ \A c \in Slots \ {active} : box'[c] = box[c]
  BY <1>1, <1>2 DEF TypeOK, Off
<1>4. QED
  BY <1>1, <1>3 DEF Live

LEMMA TrackedContainer ==
  ASSUME TypeOK, HeldOK, Tracked, NEW c \in Slots, ContainerStep(c)
  PROVE  Tracked'
<1>1. CASE Crash(c)
  <2>1. box' = [box EXCEPT ![c] = Off]
    BY <1>1 DEF Crash
  <2>2. box'[c].phase = "off" /\ \A d \in Slots \ {c} : box'[d] = box[d]
    BY <2>1 DEF TypeOK, Off
  <2>3. Live' = Live \ {c} /\ c \in Live
    BY <1>1, <2>2 DEF Live, Crash
  <2>4. ended' <=> active' # None /\ active' \notin Live'
    <3>1. (ended' <=> ended \/ c = active) /\ active' = active
      BY <1>1 DEF Crash
    <3>2. ended <=> active # None /\ active \notin Live
      BY DEF Tracked
    <3>3. c = active => active # None
      BY ConstantsOK
    <3>4. QED
      BY <2>3, <3>1, <3>2, <3>3
  <2>5. QED
    BY <1>1, <2>3, <2>4 DEF Crash, Tracked, SingleContainer, ResetAlone
<1>2. CASE ~Crash(c)
  <2>1. Live' = Live /\ UNCHANGED host
    BY <1>2, RunnerKeepsLive, RunnerLeavesHost
  <2>2. QED
    BY <2>1 DEF host, Tracked, SingleContainer, ResetAlone
<1>3. QED
  BY <1>1, <1>2

LEMMA TrackedHost ==
  ASSUME ~StopCanFail, TypeOK, Tracked, HostStep
  PROVE  Tracked'
<1> USE DEF Tracked, SingleContainer, ResetAlone, runner, HostFree
<1>n. None \notin Live
  BY ConstantsOK DEF Live
<1>1. ASSUME NEW m \in Msgs, NEW k \in Classes, Arrive(m, k)
      PROVE  Tracked'
  <2>1. Live' = Live
    BY <1>1 DEF Arrive, Live
  <2>2. QED
    BY <1>1, <2>1 DEF Arrive, WakeContainer
<1>2. ASSUME NEW c \in Slots, SpawnOk(c)
      PROVE  Tracked'
  <2>1. Live = {}
    BY <1>2, <1>n DEF SpawnOk
  <2>2. box'[c].phase = "boot" /\ \A d \in Slots \ {c} : box'[d] = box[d]
    BY <1>2 DEF SpawnOk, TypeOK, Fresh, Off
  <2>3. Live' = {c}
    BY <2>1, <2>2 DEF Live
  <2>4. QED
    BY <1>2, <2>3, ConstantsOK DEF SpawnOk
<1>3. CASE SpawnFail
  <2>1. Live' = Live
    BY <1>3 DEF SpawnFail, Live
  <2>2. QED
    BY <1>3, <1>n, <2>1 DEF SpawnFail
<1>4. CASE ContainerClosed
  <2>1. Live' = Live /\ Live = {}
    BY <1>4 DEF ContainerClosed, Live
  <2>2. QED
    BY <1>4, <2>1 DEF ContainerClosed
<1>5. ASSUME NEW m \in Msgs, RestartWrite(m)
      PROVE  Tracked'
  <2>1. Live' = Live
    BY <1>5 DEF RestartWrite, Live
  <2>2. QED
    BY <1>5, <2>1 DEF RestartWrite
<1>6. CASE RestartKill
  <2>1. hostUp /\ active # None /\ sweep \in {"idle", "wait"}
    BY <1>6 DEF RestartKill
  <2>2. Live' = {}
    BY <1>6, <2>1, KillLeavesNone DEF RestartKill
  <2>3. QED
    BY <1>6, <2>1, <2>2 DEF RestartKill, KillContainer
<1>7. CASE SweepStart
  <2>1. Live' = Live
    BY <1>7 DEF SweepStart, Live
  <2>2. hostUp /\ restart = "idle" /\ restart' = "idle" /\ UNCHANGED <<hostUp, active, ended>>
    BY <1>7 DEF SweepStart
  <2>3. CASE active = None
    <3>1. Live = {}
      BY <1>n, <2>2, <2>3
    <3>2. sweep' \in {"wait", "reset"} /\ (sweep' = "wait" => waking')
      BY <1>7, <2>3 DEF SweepStart
    <3>3. QED
      BY <2>1, <2>2, <2>3, <3>1, <3>2
  <2>4. CASE active # None
    <3>1. sweep' = "sla" /\ waking' = waking
      BY <1>7, <2>4 DEF SweepStart, TypeOK, HostOK
    <3>2. QED
      BY <2>1, <2>2, <2>4, <3>1
  <2>5. QED
    BY <2>3, <2>4
<1>8. CASE SweepSla
  <2>1. Live' = Live
    BY <1>8 DEF SweepSla, Live
  <2>2. QED
    BY <1>8, <2>1 DEF SweepSla
<1>9. CASE SweepKill
  <2>1. hostUp /\ active # None /\ restart = "idle"
    BY <1>9 DEF SweepKill, TypeOK, HostOK
  <2>2. Live' = {}
    BY <1>9, <2>1, KillLeavesNone DEF SweepKill
  <2>3. QED
    BY <1>9, <2>1, <2>2 DEF SweepKill, KillContainer
<1>10. CASE SweepReset
  <2>1. Live' = Live
    BY <1>10 DEF SweepReset, ResetAfter, Live
  <2>2. QED
    BY <1>10, <2>1 DEF SweepReset, ResetAfter
<1>11. CASE HostCrash
  <2>1. Live' = Live
    BY <1>11 DEF HostCrash, Live
  <2>2. QED
    BY <1>11, <2>1 DEF HostCrash
<1>12. CASE HostStart
  <2>1. \A c \in Slots : box'[c] = Off
    BY <1>12 DEF HostStart
  <2>2. Live' = {}
    BY <2>1 DEF Live, Off
  <2>3. QED
    BY <1>12, <2>2 DEF HostStart
<1>13. QED
  BY <1>1, <1>2, <1>3, <1>4, <1>5, <1>6, <1>7, <1>8, <1>9, <1>10, <1>11, <1>12
     DEF HostStep

LEMMA TrackedStep ==
  ASSUME ~StopCanFail, TypeOK, HeldOK, Tracked, [Next]_vars
  PROVE  Tracked'
<1>1. CASE Tick \/ UNCHANGED vars
  <2>1. Live' = Live /\ UNCHANGED host
    BY <1>1 DEF Tick, vars, host, Live
  <2>2. QED
    BY <2>1 DEF host, Tracked, SingleContainer, ResetAlone
<1>2. QED
  BY <1>1, TrackedContainer, TrackedHost DEF Next
-----------------------------------------------------------------------------
\* The two tables, and what containers hold.

\* A container that does not run, or has just started, has nothing.
LEMMA EmptyHands ==
  \A b \in {Off, Fresh} :
    InHand(b) = {} /\ b.late = {} /\ b.turn = {} /\ b.seen = {} /\ OneHand(b)
  BY DEF InHand, OneHand, Off, Fresh

LEMMA InitRest == Init => Tracked /\ RowsOK /\ HeldOK
<1> SUFFICES ASSUME Init PROVE Tracked /\ RowsOK /\ HeldOK
  OBVIOUS
<1>1. Live = {} /\ \A c \in Slots : Held(c) = {}
  BY DEF Init, Live, Held, InHand, Off
<1>o. \A c \in Slots : /\ box[c].late = {} /\ box[c].turn = {} /\ box[c].seen = {}
                        /\ OneHand(box[c])
  BY EmptyHands DEF Init
<1>2. Tracked
  BY <1>1 DEF Init, Tracked, SingleContainer, ResetAlone
<1>3. RowsOK
  BY DEF Init, RowsOK
<1>4. HeldOK
  BY <1>1, <1>o DEF HeldOK
<1>5. QED
  BY <1>2, <1>3, <1>4

\* Nothing is held once no container runs.
LEMMA NoneHeld ==
  ASSUME HeldOK, Live = {}
  PROVE  \A c \in Slots : /\ Held(c) = {} /\ box[c].late = {} /\ box[c].turn = {}
                           /\ box[c].seen = {}
  BY DEF HeldOK, Live

LEMMA HeldContainer ==
  ASSUME TypeOK, Tracked, RowsOK, HeldOK, NEW c \in Slots, ContainerStep(c)
  PROVE  RowsOK' /\ HeldOK'
<1>1. CASE Boot(c)
  <2>1. box'[c] = [box[c] EXCEPT !.phase = "poll"] /\ \A d \in Slots \ {c} : box'[d] = box[d]
    BY <1>1 DEF Boot, TypeOK
  <2>2. /\ Held(c)' = Held(c) /\ box'[c].late = box[c].late /\ box'[c].phase = "poll"
        /\ box'[c].turn = box[c].turn /\ box'[c].seen = box[c].seen
        /\ box'[c].batch = box[c].batch /\ box'[c].follow = box[c].follow
    BY <2>1, HeldType DEF Held, InHand, Box
  <2>3. \A d \in Slots \ {c} : /\ Held(d) = {} /\ box[d].phase = "off"
                              /\ box[d].turn = {} /\ box[d].seen = {}
    BY <1>1 DEF Boot, Tracked, SingleContainer, Live, HeldOK
  <2>4. Held(c) = {} /\ box[c].turn = {} /\ box[c].seen = {}
    BY <1>1 DEF Boot, HeldOK
  <2>h. OneHand(box'[c])
    BY <2>2 DEF HeldOK, OneHand
  <2>5. \A d \in Slots : Held(d)' = {}
    BY <2>1, <2>2, <2>3, <2>4 DEF Held
  <2>o. \A d \in Slots \ {c} : /\ box[d].late = {}
                              /\ OneHand(box[d])
    BY <2>3 DEF HeldOK
  <2>6. HeldOK'
    <3> SUFFICES ASSUME NEW d \in Slots
                 PROVE  /\ box'[d].phase \in {"off", "boot"} => box'[d].late = {}
                        /\ box'[d].turn = {} /\ box'[d].seen = {}
                        /\ OneHand(box'[d])
      BY <2>5 DEF HeldOK
    <3>1. CASE d = c
      BY <3>1, <2>2, <2>4, <2>h
    <3>2. CASE d # c
      BY <3>2, <2>1, <2>3, <2>o
    <3>3. QED
      BY <3>1, <3>2
  <2>7. status' = status /\ \A m \in Msgs : ack'[m] = IF ack[m] = "processing" THEN "none" ELSE ack[m]
    BY <1>1 DEF Boot, SetAcks, Unclaimed, inbound
  <2>8. RowsOK'
    BY <2>7 DEF RowsOK
  <2>9. QED
    BY <2>6, <2>8
<1>2. CASE Crash(c)
  <2>1. box'[c] = Off /\ (\A d \in Slots \ {c} : box'[d] = box[d]) /\ ack' = ack /\ status' = status
    BY <1>2 DEF Crash, TypeOK, outbound, inbound
  <2>2. /\ Held(c)' = {} /\ box'[c].late = {} /\ box'[c].turn = {} /\ OneHand(box'[c])
        /\ box'[c].seen = {}
        /\ \A d \in Slots \ {c} : Held(d)' = Held(d)
    BY <2>1, EmptyHands DEF Held
  <2>3. QED
    BY <2>1, <2>2 DEF RowsOK, HeldOK
<1>3. CASE RunnerEffect(c) /\ ~Crash(c)
  <2>1. status' = status
    BY <1>3, RunnerLeavesHost DEF inbound
  <2>2. RowsOK'
    <3> SUFFICES ASSUME NEW m \in Msgs
                 PROVE  /\ status[m] = "completed" => ack'[m] = "completed"
                        /\ status[m] \in {"absent", "failed"} => ack'[m] = "none"
      BY <2>1 DEF RowsOK
    <3>1. m \in Held(c) => ack[m] # "none"
      BY DEF HeldOK
    <3>2. QED
      BY <1>3, <3>1 DEF RunnerEffect, RowsOK
  <2>3. \A d \in Slots \ {c} : Held(d)' = Held(d)
    BY <1>3 DEF RunnerEffect, Held
  <2>4. \A m \in Msgs : ack[m] # "none" => ack'[m] # "none"
    BY <1>3 DEF RunnerEffect
  <2>5. \A d \in Slots : Held(d) \subseteq Msgs /\ box[d].turn \subseteq Msgs
    BY DEF TypeOK, Box, Held, InHand
  <2>6. HeldOK'
    <3>1. ASSUME NEW d \in Slots \ {c}
          PROVE  /\ box'[d] = box[d] /\ Held(d)' = Held(d)
                 /\ \A m \in Held(d) \cup box[d].turn : ack'[m] # "none"
      BY <1>3, <2>3, <2>4, <2>5 DEF RunnerEffect, HeldOK
    <3>s. \A d \in Slots \ {c} : box'[d].seen = {}
      BY <1>3, <3>1 DEF RunnerEffect, Tracked, SingleContainer, Live, HeldOK
    <3>2. \A m \in Held(c) \cup box[c].turn : ack'[m] # "none"
      BY <2>4, <2>5 DEF HeldOK
    <3>3. \A m \in Held(c)' \cup box'[c].turn : ack'[m] # "none"
      BY <1>3, <3>2 DEF RunnerEffect
    <3>4. box'[c].phase \notin {"off", "boot"} /\ OneHand(box'[c])
      BY <1>3 DEF RunnerEffect
    <3>5. \A m \in box'[c].seen : ack'[m] = "none" /\ status'[m] = "pending"
      BY <1>3, <2>1 DEF RunnerEffect
    <3>6. QED
      BY <3>1, <3>s, <3>3, <3>4, <3>5 DEF HeldOK
  <2>7. QED
    BY <2>2, <2>6
<1>4. QED
  BY <1>1, <1>2, <1>3, RunnerSteps

LEMMA HeldHost ==
  ASSUME ~StopCanFail, TypeOK, Tracked, RowsOK, HeldOK, HostStep
  PROVE  RowsOK' /\ HeldOK'
<1> USE DEF inbound, outbound, runner
<1>k. ASSUME UNCHANGED <<box, ack>>,
             \A m \in Msgs : ack[m] = "none" /\ status[m] = "pending" => status'[m] = "pending"
      PROVE  HeldOK'
  <2>1. \A c \in Slots : /\ Held(c)' = Held(c) /\ Held(c) \cup box[c].turn \subseteq Msgs
                          /\ box[c].seen \subseteq Msgs
    BY <1>k DEF TypeOK, Box, Held, InHand
  <2>2. QED
    BY <1>k, <2>1 DEF HeldOK
<1>z. ASSUME \A c \in Slots : box'[c] = box[c] \/ box'[c] \in {Off, Fresh},
             ack' = ack, status' = status
      PROVE  HeldOK'
  <2>1. \A c \in Slots : box'[c] \in {Off, Fresh} =>
          /\ Held(c)' = {} /\ box'[c].late = {} /\ box'[c].turn = {}
          /\ box'[c].seen = {} /\ OneHand(box'[c])
    BY EmptyHands DEF Held
  <2>2. \A c \in Slots : box'[c] = box[c] => Held(c)' = Held(c)
    BY DEF Held
  <2>3. QED
    BY <1>z, <2>1, <2>2 DEF HeldOK
<1>1. ASSUME NEW m \in Msgs, NEW k \in Classes, Arrive(m, k)
      PROVE  RowsOK' /\ HeldOK'
  BY <1>1, <1>k DEF Arrive, RowsOK, TypeOK, InboundOK
<1>2. ASSUME NEW c \in Slots, SpawnOk(c)
      PROVE  RowsOK' /\ HeldOK'
  BY <1>2, <1>z DEF SpawnOk, RowsOK, TypeOK
<1>3. CASE SpawnFail
  BY <1>3, <1>k DEF SpawnFail, RowsOK
<1>4. CASE ContainerClosed
  BY <1>4, <1>k DEF ContainerClosed, RowsOK
<1>5. ASSUME NEW m \in Msgs, RestartWrite(m)
      PROVE  RowsOK' /\ HeldOK'
  BY <1>5, <1>k DEF RestartWrite, RowsOK, TypeOK, InboundOK
<1>6. CASE RestartKill
  BY <1>6, <1>z DEF RestartKill, KillContainer, RowsOK, TypeOK
<1>7. CASE SweepStart
  BY <1>7, <1>k DEF SweepStart, RowsOK
<1>8. CASE SweepSla
  BY <1>8, <1>k DEF SweepSla, RowsOK
<1>9. CASE SweepKill
  BY <1>9, <1>z DEF SweepKill, KillContainer, RowsOK, TypeOK
<1>10. CASE SweepReset
  <2>1. Live = {}
    BY <1>10 DEF SweepReset, ResetAfter, Tracked, ResetAlone
  <2>2. \A c \in Slots : /\ Held(c) = {} /\ Held(c)' = {} /\ box'[c].late = {}
                          /\ box'[c].turn = {} /\ box'[c].seen = {} /\ OneHand(box'[c])
    BY <1>10, <2>1, NoneHeld DEF SweepReset, ResetAfter, Held, HeldOK
  <2>3. HeldOK'
    BY <2>2 DEF HeldOK
  <2>4. \A m \in Msgs : /\ ack'[m] = IF ack[m] = "processing" THEN "none" ELSE ack[m]
                        /\ \/ status'[m] = status[m]
                           \/ ack[m] = "processing" /\ status'[m] = "failed"
    BY <1>10 DEF SweepReset, ResetAfter, SetAcks, Unclaimed, Claims
  <2>5. RowsOK'
    BY <2>4 DEF RowsOK
  <2>6. QED
    BY <2>3, <2>5
<1>11. CASE HostCrash
  BY <1>11, <1>k DEF HostCrash, RowsOK
<1>12. CASE HostStart
  BY <1>12, <1>z DEF HostStart, RowsOK
<1>13. QED
  BY <1>1, <1>2, <1>3, <1>4, <1>5, <1>6, <1>7, <1>8, <1>9, <1>10, <1>11, <1>12
     DEF HostStep

\* The inductive invariant.
IInv == TypeOK /\ Tracked /\ RowsOK /\ HeldOK

LEMMA InductiveInvariant ==
  ASSUME ~StopCanFail, IInv, [Next]_vars
  PROVE  IInv'
<1>1. TypeOK' /\ Tracked'
  BY StepType, TrackedStep DEF IInv
<1>2. CASE Tick \/ UNCHANGED vars
  <2>1. ack' = ack /\ status' = status /\ box' = box
    BY <1>2 DEF Tick, vars
  <2>2. \A c \in Slots : Held(c)' = Held(c)
    BY <2>1 DEF Held
  <2>3. RowsOK' /\ HeldOK'
    BY <2>1, <2>2 DEF IInv, RowsOK, HeldOK
  <2>4. QED
    BY <1>1, <2>3 DEF IInv
<1>3. CASE HostStep
  BY <1>1, <1>3, HeldHost DEF IInv
<1>4. CASE \E c \in Slots : ContainerStep(c)
  BY <1>1, <1>4, HeldContainer DEF IInv
<1>5. QED
  BY <1>2, <1>3, <1>4 DEF Next

LEMMA AlwaysIInv == ASSUME ~StopCanFail PROVE Spec => []IInv
<1>1. Init => IInv
  BY InitType, InitRest DEF IInv
<1>2. IInv /\ [Next]_vars => IInv'
  BY InductiveInvariant
<1>3. QED
  BY <1>1, <1>2, PTL DEF Spec

\* When docker stop works, at most one container ever runs on the session's
\* files (wakeContainer, killContainer, cleanupOrphans).
THEOREM OneContainer == ASSUME ~StopCanFail PROVE Spec => []SingleContainer
<1>1. IInv => SingleContainer
  BY DEF IInv, Tracked
<1>2. QED
  BY <1>1, AlwaysIInv, PTL

\* When docker stop works, the sweep deletes claims from outbound.db only
\* while no container runs (resetStuckProcessingRows).
THEOREM ResetsAlone == ASSUME ~StopCanFail PROVE Spec => []ResetAlone
<1>1. IInv => ResetAlone
  BY DEF IInv, Tracked
<1>2. QED
  BY <1>1, AlwaysIInv, PTL

\* What a running container holds stays marked in processing_ack, so no poll
\* hands it out a second time (runPollLoop, processQuery).
THEOREM HeldClaimed == ASSUME ~StopCanFail PROVE Spec => []HeldStaysClaimed
<1>1. IInv => HeldStaysClaimed
  BY DEF IInv, HeldOK, HeldStaysClaimed, Live
<1>2. QED
  BY <1>1, AlwaysIInv, PTL
-----------------------------------------------------------------------------
\* The ledger.

LEMMA StageIs ==
  ASSUME NEW m \in Msgs
  PROVE  /\ Stage[m] = IF status[m] = "absent" THEN "absent"
                       ELSE IF status[m] = "failed" THEN "dead"
                       ELSE IF ack[m] = "completed" THEN "done"
                       ELSE IF ack[m] = "processing" THEN "working" ELSE "queued"
         /\ Stage'[m] = IF status'[m] = "absent" THEN "absent"
                        ELSE IF status'[m] = "failed" THEN "dead"
                        ELSE IF ack'[m] = "completed" THEN "done"
                        ELSE IF ack'[m] = "processing" THEN "working" ELSE "queued"
  BY DEF Stage

\* A step that leaves the row of m and its ack alone leaves its stage alone.
LEMMA RowUntouched ==
  ASSUME NEW m \in Msgs, status'[m] = status[m], ack'[m] = ack[m], tries'[m] = tries[m]
  PROVE  Ledger!Move(m)
  BY StageIs DEF Ledger!Move, Ledger!Untouched, Ledger!Uncounted

LEMMA RunnerMoves ==
  ASSUME IInv, NEW c \in Slots, ContainerStep(c), NEW m \in Msgs
  PROVE  Ledger!Move(m)
<1> USE DEF Ledger!Move, Ledger!Goes, Ledger!Uncounted
<1>1. CASE Boot(c)
  <2>1. status' = status /\ tries' = tries
    BY <1>1 DEF Boot, inbound
  <2>2. ack'[m] = IF ack[m] = "processing" THEN "none" ELSE ack[m]
    BY <1>1 DEF Boot, SetAcks, Unclaimed
  <2>3. CASE ack[m] = "processing"
    <3>1. Stage[m] = "working" /\ Stage'[m] = "queued"
      BY <2>1, <2>2, <2>3, StageIs DEF IInv, RowsOK, TypeOK, InboundOK
    <3>2. QED
      BY <2>1, <3>1 DEF Ledger!Released
  <2>4. QED
    BY <2>1, <2>2, <2>3, RowUntouched
<1>2. CASE Crash(c)
  BY <1>2, RowUntouched DEF Crash, inbound, outbound
<1>3. CASE RunnerEffect(c) /\ ~Crash(c)
  <2>1. status' = status /\ tries' = tries
    BY <1>3, RunnerLeavesHost DEF inbound
  <2>2. CASE ack'[m] = ack[m]
    BY <2>1, <2>2, RowUntouched
  <2>3. CASE ack[m] = "none" /\ status[m] = "pending" /\ ack'[m] = "processing"
    BY <2>1, <2>3, StageIs DEF Ledger!Taken
  <2>4. CASE m \in Held(c) /\ ack'[m] = "completed" /\ ack'[m] # ack[m]
    <3>1. ack[m] = "processing" /\ status[m] = "pending"
      BY <2>4 DEF IInv, HeldOK, RowsOK, TypeOK, InboundOK, OutboundOK
    <3>2. QED
      BY <2>1, <2>4, <3>1, StageIs DEF Ledger!Finished
  <2>5. QED
    BY <1>3, <2>2, <2>3, <2>4 DEF RunnerEffect
<1>4. QED
  BY <1>1, <1>2, <1>3, RunnerSteps DEF IInv

LEMMA ResetMoves ==
  ASSUME IInv, SweepReset, NEW m \in Msgs
  PROVE  Ledger!Move(m)
<1> USE DEF Ledger!Move, Ledger!Goes, Ledger!Uncounted
<1> DEFINE stale == Claims \cap Due
           givenUp == {n \in stale : tries[n] >= MaxTries}
<1>1. /\ status'[m] = IF m \in givenUp THEN "failed" ELSE status[m]
      /\ tries'[m] = IF m \in stale \ givenUp THEN tries[m] + 1 ELSE tries[m]
      /\ ack'[m] = IF ack[m] = "processing" THEN "none" ELSE ack[m]
  BY DEF SweepReset, ResetAfter, SetAcks, Unclaimed
<1>2. tries[m] \in 0..MaxTries
  BY DEF IInv, TypeOK, InboundOK
<1>3. CASE ack[m] # "processing"
  BY <1>1, <1>3, RowUntouched DEF Claims
<1>4. CASE ack[m] = "processing" /\ m \notin stale
  <2>1. Stage[m] = "working" /\ Stage'[m] = "queued"
    BY <1>1, <1>4, StageIs DEF IInv, RowsOK
  <2>2. QED
    BY <1>1, <1>4, <2>1 DEF Ledger!Released
<1>5. CASE m \in givenUp
  <2>1. Stage[m] = "working" /\ Stage'[m] = "dead"
    BY <1>1, <1>5, StageIs DEF Claims, Due
  <2>2. tries[m] = MaxTries
    BY <1>2, <1>5, ConstantsOK
  <2>3. QED
    BY <1>1, <1>5, <2>1, <2>2 DEF Ledger!GivenUp
<1>6. CASE m \in stale \ givenUp
  <2>1. Stage[m] = "working" /\ Stage'[m] = "queued"
    BY <1>1, <1>6, StageIs DEF Claims, Due
  <2>2. tries[m] < MaxTries
    BY <1>2, <1>6, ConstantsOK
  <2>3. QED
    BY <1>1, <1>6, <2>1, <2>2 DEF Ledger!Retried
<1>7. QED
  BY <1>3, <1>4, <1>5, <1>6 DEF Claims

LEMMA HostMoves ==
  ASSUME IInv, HostStep, NEW m \in Msgs
  PROVE  Ledger!Move(m)
<1> USE DEF inbound, outbound
<1> USE RowUntouched
<1>1. ASSUME NEW n \in Msgs, status[n] = "absent",
             status' = [status EXCEPT ![n] = "pending"],
             UNCHANGED <<tries, ack>>
      PROVE  Ledger!Move(m)
  <2>1. CASE m = n
    <3>1. Stage[m] = "absent" /\ Stage'[m] = "queued"
      BY <1>1, <2>1, StageIs DEF IInv, RowsOK, TypeOK, InboundOK
    <3>2. QED
      BY <1>1, <3>1 DEF Ledger!Move, Ledger!Submitted, Ledger!Goes, Ledger!Uncounted
  <2>2. CASE m # n
    BY <1>1, <2>2 DEF IInv, TypeOK, InboundOK
  <2>3. QED
    BY <2>1, <2>2
<1>2. CASE \E n \in Msgs, k \in Classes : Arrive(n, k)
  BY <1>1, <1>2 DEF Arrive
<1>3. CASE \E n \in Msgs : RestartWrite(n)
  BY <1>1, <1>3 DEF RestartWrite
<1>4. CASE SweepStart
  <2>1. /\ status'[m] = IF ack[m] = "completed" THEN "completed" ELSE status[m]
        /\ ack' = ack /\ tries' = tries
    BY <1>4 DEF SweepStart
  <2>2. Stage'[m] = Stage[m]
    BY <2>1, StageIs DEF IInv, RowsOK
  <2>3. QED
    BY <2>1, <2>2 DEF Ledger!Move, Ledger!Untouched, Ledger!Uncounted
<1>5. CASE SweepReset
  BY <1>5, ResetMoves
<1>6. CASE \/ \E c \in Slots : SpawnOk(c)
           \/ SpawnFail \/ ContainerClosed \/ RestartKill \/ SweepSla \/ SweepKill
           \/ HostCrash \/ HostStart
  BY <1>6 DEF SpawnOk, SpawnFail, ContainerClosed, RestartKill, SweepSla, SweepKill,
              HostCrash, HostStart
<1>7. QED
  BY <1>2, <1>3, <1>4, <1>5, <1>6 DEF HostStep

\* Every step moves every message as the ledger allows.
LEMMA StepMoves ==
  ASSUME IInv, [Next]_vars, NEW m \in Msgs
  PROVE  Ledger!Move(m)
<1>1. CASE Tick \/ UNCHANGED vars
  BY <1>1, RowUntouched DEF Tick, vars
<1>2. QED
  BY <1>1, RunnerMoves, HostMoves DEF Next

\* A message that is given up stays where it is.
LEMMA GivenUpStays ==
  ASSUME IInv, IInv', [Next]_vars, NEW m \in Msgs, status[m] = "failed"
  PROVE  status'[m] = "failed" /\ ack'[m] = ack[m]
<1>1. Ledger!Move(m)
  BY StepMoves
<1>2. Stage[m] = "dead" => Stage'[m] = "dead"
  BY <1>1 DEF Ledger!Move, Ledger!Submitted, Ledger!Taken, Ledger!Finished, Ledger!Released,
              Ledger!Retried, Ledger!GivenUp, Ledger!Untouched, Ledger!Goes
<1>3. Stage[m] = "dead" /\ ack[m] = "none"
  BY StageIs DEF IInv, RowsOK
<1>4. status'[m] = "failed"
  BY <1>2, <1>3, StageIs
<1>5. QED
  BY <1>3, <1>4 DEF IInv, RowsOK

\* A message the host gave up on is never claimed, acked or revived.
THEOREM GivenUpAreFinal == ASSUME ~StopCanFail PROVE Spec => GivenUpIsFinal
<1> DEFINE A == \A m \in Msgs : status[m] = "failed" =>
                  status'[m] = "failed" /\ ack'[m] = ack[m]
<1>1. IInv /\ IInv' /\ [Next]_vars => [A]_<<status, ack>>
  BY GivenUpStays
<1>2. QED
  BY <1>1, AlwaysIInv, PTL DEF Spec, GivenUpIsFinal

\* The two databases, the containers and the sweep implement the ledger: each
\* message is queued, taken and then done, or back in the queue, or dead after
\* exactly MaxTries counted retries.
THEOREM LedgerImplemented == ASSUME ~StopCanFail PROVE Spec => ImplementsLedger
<1>1. Init => Ledger!LedgerInit
  BY DEF Init, Ledger!LedgerInit, Stage
<1>2. IInv /\ IInv' /\ [Next]_vars => [Ledger!LedgerNext]_<<Stage, tries>>
  <2> SUFFICES ASSUME IInv, IInv', [Next]_vars PROVE Ledger!LedgerNext
    OBVIOUS
  <2>1. \A m \in Msgs : Ledger!Move(m)
    BY StepMoves
  <2>2. Stage' \in [Msgs -> Ledger!Stages]
    BY DEF Stage, Ledger!Stages
  <2>3. tries' \in [Msgs -> 0..MaxTries]
    BY DEF IInv, TypeOK, InboundOK
  <2>4. QED
    BY <2>1, <2>2, <2>3 DEF Ledger!LedgerNext
<1>3. QED
  BY <1>1, <1>2, AlwaysIInv, PTL DEF Spec, ImplementsLedger, Ledger!LedgerSpec
-----------------------------------------------------------------------------
(* What becomes of acks and of closed rows *)

\* A mark written over rows that are not completed, or the mark "completed",
\* leaves completed rows as they are.
LEMMA MarkKeepsAcks ==
  ASSUME NEW m \in Msgs, ack[m] = "completed",
         NEW S, NEW mark, mark = "completed" \/ m \notin S
  PROVE  Marked(S, mark)[m] = "completed" /\ Unclaimed[m] = "completed"
  BY DEF Marked, Unclaimed

LEMMA AckStays ==
  ASSUME HeldOK, [Next]_vars, NEW m \in Msgs, ack[m] = "completed"
  PROVE  ack'[m] = "completed"
<1> USE MarkKeepsAcks DEF SetAcks, outbound
<1>1. CASE UNCHANGED vars \/ Tick
  BY <1>1 DEF vars, Tick
<1>2. CASE HostStep
  BY <1>2 DEF HostStep, Arrive, SpawnOk, SpawnFail, ContainerClosed, RestartWrite, RestartKill,
              SweepStart, SweepSla, SweepKill, SweepReset, ResetAfter, HostCrash, HostStart
<1>3. ASSUME NEW c \in Slots, ContainerStep(c) PROVE ack'[m] = "completed"
  <2>1. CASE \/ Boot(c) \/ PollIdle(c) \/ PollRead(c) \/ QueryEvent(c) \/ AgentStuck(c)
             \/ FollowUpRead(c) \/ Crash(c)
    BY <2>1 DEF Boot, PollIdle, PollRead, QueryEvent, AgentStuck, FollowUpRead, Crash
  <2>2. CASE PollClaim(c) \/ FollowUpClaim(c)
    <3>1. m \notin box[c].seen
      BY DEF HeldOK
    <3>2. QED
      BY <2>2, <3>1 DEF PollClaim, FollowUpClaim
  <2>4. CASE ClearCommands(c)
    BY <2>4 DEF ClearCommands
  <2>5. ASSUME NEW S, StartQuery(c, S) \/ FollowUpPush(c, S) PROVE ack'[m] = "completed"
    BY <2>5 DEF StartQuery, FollowUpPush
  <2>6. ASSUME NEW S, QueryResult(c, S) \/ QueryEnd(c, S) PROVE ack'[m] = "completed"
    BY <2>6 DEF QueryResult, QueryEnd
  <2>7. ASSUME NEW group, NEW S, FollowUpTooLate(c, group, S) PROVE ack'[m] = "completed"
    BY <2>7 DEF FollowUpTooLate
  <2>8. QED
    BY <1>3, <2>1, <2>2, <2>4, <2>5, <2>6, <2>7 DEF ContainerStep
<1>4. QED
  BY <1>1, <1>2, <1>3 DEF Next

\* When docker stop works, an ack is never taken back: between a poll's read and
\* its claim nobody else acks (clearStaleProcessingAcks, markProcessing and
\* deleteOrphanProcessingClaims all spare completed rows).  When it fails, an
\* orphan's ack that falls between the two is overwritten.
THEOREM AcksAreFinal == ASSUME ~StopCanFail PROVE Spec => AckIsFinal
<1> DEFINE A == \A m \in Msgs : ack[m] = "completed" => ack'[m] = "completed"
<1>1. IInv /\ [Next]_vars => [A]_ack
  BY AckStays DEF IInv
<1>2. QED
  BY <1>1, AlwaysIInv, PTL DEF Spec, AckIsFinal

\* The sweep alone fails rows, and only those whose tries are used up.
LEMMA FailingSteps ==
  ASSUME TypeOK, FailedWhenExhausted, [Next]_vars, NEW m \in Msgs
  PROVE  status'[m] = "failed" => tries'[m] = MaxTries
<1> USE DEF inbound
<1>1. ASSUME status'[m] = status[m] \/ status'[m] # "failed", tries'[m] = tries[m]
      PROVE  status'[m] = "failed" => tries'[m] = MaxTries
  BY <1>1 DEF FailedWhenExhausted
<1>2. CASE UNCHANGED vars \/ Tick
  BY <1>1, <1>2 DEF vars, Tick
<1>3. CASE \E c \in Slots : ContainerStep(c)
  BY <1>1, <1>3, RunnerLeavesHost DEF Crash
<1>4. ASSUME NEW n \in Msgs, status' = [status EXCEPT ![n] = "pending"], tries' = tries
      PROVE  status'[m] = "failed" => tries'[m] = MaxTries
  <2>1. status'[m] = status[m] \/ status'[m] = "pending"
    BY <1>4 DEF TypeOK, InboundOK
  <2>2. QED
    BY <1>1, <1>4, <2>1
<1>5. CASE SweepStart
  <2>1. tries' = tries /\ (status'[m] = status[m] \/ status'[m] = "completed")
    BY <1>5 DEF SweepStart
  <2>2. QED
    BY <1>1, <2>1
<1>6. CASE SweepReset
  <2> DEFINE stale == Claims \cap Due
             givenUp == {n \in stale : tries[n] >= MaxTries}
  <2>1. /\ status'[m] = IF m \in givenUp THEN "failed" ELSE status[m]
        /\ tries'[m] = IF m \in stale \ givenUp THEN tries[m] + 1 ELSE tries[m]
    BY <1>6 DEF SweepReset, ResetAfter
  <2>2. tries[m] \in 0..MaxTries
    BY DEF TypeOK, InboundOK
  <2>3. CASE m \in givenUp
    BY <2>1, <2>2, <2>3, ConstantsOK
  <2>4. CASE m \in stale \ givenUp
    BY <2>1, <2>4 DEF Due
  <2>5. CASE m \notin stale
    BY <1>1, <2>1, <2>5
  <2>6. QED
    BY <2>3, <2>4, <2>5
<1>7. CASE HostStep /\ ~SweepStart /\ ~SweepReset
  BY <1>1, <1>4, <1>7 DEF HostStep, Arrive, SpawnOk, SpawnFail, ContainerClosed, RestartWrite,
     RestartKill, SweepSla, SweepKill, HostCrash, HostStart
<1>8. QED
  BY <1>2, <1>3, <1>5, <1>6, <1>7 DEF Next

\* A message is given up only after MaxTries counted retries, whether docker stop
\* works or not: orphans and fresh containers write acks, the sweep alone counts
\* tries and fails rows (resetStuckProcessingRows).
THEOREM FailedRowsAreExhausted == Spec => []FailedWhenExhausted
<1>1. Init => FailedWhenExhausted
  BY DEF Init, FailedWhenExhausted
<1>2. TypeOK /\ FailedWhenExhausted /\ [Next]_vars => FailedWhenExhausted'
  BY FailingSteps DEF FailedWhenExhausted
<1>3. QED
  BY <1>1, <1>2, TypeCorrect, PTL DEF Spec

\* When docker stop works, what the host takes for completed was acked and stays
\* acked, and what it gave up on has used up its tries.
THEOREM ClosedRowsHaveAReason == ASSUME ~StopCanFail PROVE Spec => []ClosedForAReason
<1>1. IInv /\ FailedWhenExhausted => ClosedForAReason
  BY DEF IInv, RowsOK, FailedWhenExhausted, ClosedForAReason
<1>2. QED
  BY <1>1, AlwaysIInv, FailedRowsAreExhausted, PTL
=============================================================================
