---------------------------- MODULE DeliveryProofs ----------------------------
(* Proofs about Delivery, for every value of its constants. *)
EXTENDS Delivery, TLAPS

\* Which session a chain is at, and what its queue may hold.
Guarded ==
  /\ SingleDrain
  /\ \A p \in Polls : /\ poll[p].at # None => poll[p].at \in inflight
                      /\ poll[p].at # None <=> poll[p].stage \in {"drain", "sending", "shown"}
                      /\ poll[p].stage \in {"idle", "next"} => poll[p].queue = {}
  /\ \A p \in Polls : \A m \in poll[p].queue :
       owner[m] = poll[p].at /\ fate[m] = "none"

\* What the user has seen of a message that no chain has just shown.
Awaited(m) == \E p \in Polls : poll[p].stage = "shown" /\ Head(p, m)

EchoOK ==
  \A m \in Msgs :
    /\ shown[m] <= 1 + lost[m] + crashes
    /\ fate[m] = "none" /\ ~Awaited(m) => shown[m] <= lost[m] + crashes

\* Messages are written in order, and a drain has tried what it left behind.
OrderOK ==
  /\ \A m \in Msgs : owner[m] # None => \A n \in 1..(m - 1) : owner[n] # None
  /\ \A p \in Polls : \A m \in poll[p].queue : \A n \in Msgs :
       n < m /\ owner[n] = poll[p].at =>
         n \in poll[p].queue \/ fate[n] # "none" \/ attempts[n] > 0

\* What a chain knows of the message whose answer it awaits.
AnswerOK ==
  \A p \in Polls, m \in Msgs :
    poll[p].stage = "shown" /\ Head(p, m) => kind[m] = "sent" /\ shown[m] > 0

\* A message that is not written has no row.
Rowless == \A m \in Msgs : owner[m] = None => fate[m] = "none"

\* The inductive invariant.
IInv == TypeOK /\ Guarded /\ EchoOK /\ OrderOK /\ AnswerOK /\ Rowless

LEMMA InitIInv == Init => IInv
<1> SUFFICES ASSUME Init PROVE IInv
  OBVIOUS
<1>1. TypeOK
  <2>1. Asleep \in Chain
    BY DEF Asleep, Chain, Stages
  <2>2. attempts \in [Msgs -> 0..(MaxAttempts - 1)]
    BY ConstantsOK DEF Init
  <2>3. lost \in [Msgs -> 0..MaxLost] /\ crashes \in 0..MaxCrash
    BY ConstantsOK DEF Init
  <2>4. owner \in [Msgs -> Sessions \cup {None}] /\ kind \in [Msgs -> AllKinds]
    BY DEF Init, AllKinds
  <2>5. QED
    BY <2>1, <2>2, <2>3, <2>4 DEF Init, TypeOK
<1>2. Guarded
  BY DEF Init, Guarded, SingleDrain, Asleep
<1>3. EchoOK
  BY DEF Init, EchoOK
<1>4. OrderOK
  BY DEF Init, OrderOK, Asleep
<1>5. AnswerOK
  BY DEF Init, AnswerOK, Asleep
<1>6. Rowless
  BY DEF Init, Rowless
<1>7. QED
  BY <1>1, <1>2, <1>3, <1>4, <1>5, <1>6 DEF IInv
-----------------------------------------------------------------------------
\* Types.

\* What a chain does to its own record keeps the record's type.
LEMMA ChainType ==
  ASSUME TypeOK, NEW p \in Polls, NEW r \in Chain, poll' = [poll EXCEPT ![p] = r]
  PROVE  poll' \in [Polls -> Chain]
  BY DEF TypeOK

LEMMA ProceedType ==
  ASSUME TypeOK, NEW p \in Polls, NEW m \in Msgs, Proceed(p, m)
  PROVE  poll' \in [Polls -> Chain]
<1>1. [poll[p] EXCEPT !.stage = "drain", !.queue = poll[p].queue \ {m}] \in Chain
  BY DEF TypeOK, Chain, Stages
<1>2. QED
  BY <1>1, ChainType DEF Proceed

LEMMA FailureType ==
  ASSUME TypeOK, NEW m \in Msgs, RecordFailure(m)
  PROVE  /\ fate' \in [Msgs -> {"none", "delivered", "failed"}]
         /\ attempts' \in [Msgs -> 0..(MaxAttempts - 1)]
<1>1. CASE attempts[m] + 1 >= MaxAttempts
  BY <1>1, ConstantsOK DEF TypeOK, RecordFailure
<1>2. CASE ~(attempts[m] + 1 >= MaxAttempts)
  <2>1. attempts[m] + 1 \in 0..(MaxAttempts - 1)
    BY <1>2, ConstantsOK DEF TypeOK
  <2>2. QED
    BY <1>2, <2>1 DEF TypeOK, RecordFailure
<1>3. QED
  BY <1>1, <1>2

LEMMA ChainStepType ==
  ASSUME TypeOK, NEW p \in Polls, ChainStep(p)
  PROVE  TypeOK'
<1> USE DEF outbox, table, platform
<1>p. poll[p] \in Chain
  BY DEF TypeOK
<1>1. CASE PollStart(p)
  <2>1. PICK found \in ToVisit(p) :
          poll' = [poll EXCEPT ![p] = [@ EXCEPT !.stage = "next", !.todo = found]]
    BY <1>1 DEF PollStart
  <2>2. [poll[p] EXCEPT !.stage = "next", !.todo = found] \in Chain
    BY <1>p DEF Chain, Stages, ToVisit
  <2>3. poll' \in [Polls -> Chain]
    BY <2>1, <2>2, ChainType
  <2>4. QED
    BY <1>1, <2>3 DEF PollStart, TypeOK
<1>2. ASSUME NEW s \in Sessions, EnterSession(p, s)
      PROVE  TypeOK'
  <2>1. [poll[p] EXCEPT !.stage = "drain", !.todo = poll[p].todo \ {s}, !.at = s,
                        !.queue = Undelivered(s)] \in Chain
    BY <1>p DEF Chain, Stages, Undelivered
  <2>2. poll' \in [Polls -> Chain]
    BY <1>2, <2>1, ChainType DEF EnterSession
  <2>3. QED
    BY <1>2, <2>2 DEF EnterSession, TypeOK
<1>3. ASSUME NEW s \in Sessions, SkipSession(p, s)
      PROVE  TypeOK'
  <2>1. [poll[p] EXCEPT !.todo = poll[p].todo \ {s}] \in Chain
    BY <1>p DEF Chain
  <2>2. poll' \in [Polls -> Chain]
    BY <1>3, <2>1, ChainType DEF SkipSession
  <2>3. QED
    BY <1>3, <2>2 DEF SkipSession, TypeOK
<1>4. CASE PollEnd(p)
  <2>1. [poll[p] EXCEPT !.stage = "idle"] \in Chain
    BY <1>p DEF Chain, Stages
  <2>2. poll' \in [Polls -> Chain]
    BY <1>4, <2>1, ChainType DEF PollEnd
  <2>3. QED
    BY <1>4, <2>2 DEF PollEnd, TypeOK
<1>5. CASE Refuse(p)
  BY <1>5, ProceedType, FailureType DEF Refuse, TypeOK
<1>6. CASE Send(p)
  <2>1. [poll[p] EXCEPT !.stage = "sending"] \in Chain
    BY <1>p DEF Chain, Stages
  <2>2. poll' \in [Polls -> Chain]
    BY <1>6, <2>1, ChainType DEF Send
  <2>3. QED
    BY <1>6, <2>2 DEF Send, TypeOK
<1>7. CASE Show(p)
  <2>1. [poll[p] EXCEPT !.stage = "shown"] \in Chain
    BY <1>p DEF Chain, Stages
  <2>2. poll' \in [Polls -> Chain]
    BY <1>7, <2>1, ChainType DEF Show
  <2>3. shown' \in [Msgs -> Nat]
    BY <1>7 DEF Show, TypeOK
  <2>4. QED
    BY <1>7, <2>2, <2>3 DEF Show, TypeOK
<1>8. CASE Answer(p)
  <2>1. PICK m \in Msgs :
          /\ fate' = [fate EXCEPT ![m] = IF fate[m] = "none" THEN "delivered" ELSE fate[m]]
          /\ attempts' = [attempts EXCEPT ![m] = 0]
          /\ Proceed(p, m)
    BY <1>8 DEF Answer
  <2>2. attempts' \in [Msgs -> 0..(MaxAttempts - 1)]
    BY <2>1, ConstantsOK DEF TypeOK
  <2>3. QED
    BY <1>8, <2>1, <2>2, ProceedType DEF Answer, TypeOK
<1>9. CASE Reject(p)
  <2>1. PICK m \in Msgs :
          /\ lost' = lost \/ (lost[m] < MaxLost /\ lost' = [lost EXCEPT ![m] = lost[m] + 1])
          /\ RecordFailure(m)
          /\ Proceed(p, m)
    BY <1>9 DEF Reject
  <2>2. lost' \in [Msgs -> 0..MaxLost]
    BY <2>1, ConstantsOK DEF TypeOK
  <2>3. QED
    BY <1>9, <2>1, <2>2, ProceedType, FailureType DEF Reject, TypeOK
<1>10. CASE LeaveSession(p)
  <2>1. [poll[p] EXCEPT !.stage = "next", !.at = None] \in Chain
    BY <1>p DEF Chain, Stages
  <2>2. poll' \in [Polls -> Chain]
    BY <1>10, <2>1, ChainType DEF LeaveSession
  <2>3. QED
    BY <1>10, <2>2 DEF LeaveSession, TypeOK
<1>11. QED
  BY <1>1, <1>2, <1>3, <1>4, <1>5, <1>6, <1>7, <1>8, <1>9, <1>10 DEF ChainStep

LEMMA StepType ==
  ASSUME TypeOK, [Next]_vars
  PROVE  TypeOK'
<1> USE DEF outbox, table, platform
<1>1. ASSUME NEW s \in Sessions, NEW k \in Kinds, WriteMessageOut(s, k)
      PROVE  TypeOK'
  <2>1. k \in AllKinds
    BY ConstantsOK
  <2>2. QED
    BY <1>1, <2>1 DEF WriteMessageOut, TypeOK
<1>2. CASE HostCrash
  <2>1. Asleep \in Chain
    BY DEF Asleep, Chain, Stages
  <2>2. attempts' \in [Msgs -> 0..(MaxAttempts - 1)] /\ crashes' \in 0..MaxCrash
    BY <1>2, ConstantsOK DEF HostCrash, TypeOK
  <2>3. QED
    BY <1>2, <2>1, <2>2 DEF HostCrash, TypeOK
<1>3. CASE HostStart
  BY <1>3 DEF HostStart, TypeOK
<1>4. CASE UNCHANGED vars
  BY <1>4 DEF vars, TypeOK
<1>5. QED
  BY <1>1, <1>2, <1>3, <1>4, ChainStepType DEF Next
-----------------------------------------------------------------------------
\* One chain per session.

\* A chain is at a session exactly while it has a queue to work on, and no
\* message is in the queue of both.
LEMMA QueuesDisjoint ==
  ASSUME TypeOK, Guarded, NEW p \in Polls, NEW q \in Polls, p # q,
         NEW m \in poll[p].queue
  PROVE  m \notin poll[q].queue
<1>1. poll[p].stage \in Stages /\ poll[p].queue # {}
  BY DEF TypeOK, Chain
<1>2. poll[p].at # None
  BY <1>1 DEF Guarded, Stages
<1>3. QED
  BY <1>2 DEF Guarded, SingleDrain

\* The steps that settle or count the message the drain of p is at.
LEMMA ProceedGuarded ==
  ASSUME TypeOK, Guarded, NEW p \in Polls, NEW m \in Msgs, m \in poll[p].queue,
         Proceed(p, m), UNCHANGED <<owner, inflight>>,
         \A n \in Msgs \ {m} : fate'[n] = fate[n]
  PROVE  Guarded'
<1>1. /\ poll'[p] = [poll[p] EXCEPT !.stage = "drain", !.queue = poll[p].queue \ {m}]
      /\ \A q \in Polls \ {p} : poll'[q] = poll[q]
  BY DEF Proceed, TypeOK
<1>2. poll[p] \in Chain
  BY DEF TypeOK
<1>3. /\ poll'[p].stage = "drain" /\ poll'[p].at = poll[p].at
      /\ poll'[p].queue = poll[p].queue \ {m}
  BY <1>1, <1>2 DEF Chain
<1>4. poll[p].at # None
  BY <1>2 DEF Guarded, Chain, Stages
<1>5. \A q \in Polls : poll'[q].at = poll[q].at
  BY <1>1, <1>3
<1>6. SingleDrain'
  BY <1>5 DEF Guarded, SingleDrain
<1>7. \A q \in Polls : \A n \in poll'[q].queue : n \in poll[q].queue /\ n # m /\ n \in Msgs
  BY <1>1, <1>3, QueuesDisjoint DEF TypeOK, Chain
<1>8. \A q \in Polls : \A n \in poll'[q].queue : owner'[n] = poll'[q].at /\ fate'[n] = "none"
  BY <1>5, <1>7 DEF Guarded
<1>9. \A q \in Polls : /\ poll'[q].at # None => poll'[q].at \in inflight'
                       /\ poll'[q].at # None <=> poll'[q].stage \in {"drain", "sending", "shown"}
                       /\ poll'[q].stage \in {"idle", "next"} => poll'[q].queue = {}
  <2> SUFFICES ASSUME NEW q \in Polls
               PROVE  /\ poll'[q].at # None => poll'[q].at \in inflight'
                      /\ poll'[q].at # None <=> poll'[q].stage \in {"drain", "sending", "shown"}
                      /\ poll'[q].stage \in {"idle", "next"} => poll'[q].queue = {}
    OBVIOUS
  <2>1. CASE q = p
    BY <1>3, <1>4, <2>1 DEF Guarded
  <2>2. CASE q # p
    <3>1. poll'[q] = poll[q]
      BY <1>1, <2>2
    <3>2. QED
      BY <3>1 DEF Guarded
  <2>3. QED
    BY <2>1, <2>2
<1>10. QED
  BY <1>6, <1>8, <1>9 DEF Guarded

\* The steps that only move p's stage between drain, sending and shown.
LEMMA StageGuarded ==
  ASSUME TypeOK, Guarded, NEW p \in Polls, NEW st \in {"drain", "sending", "shown"},
         poll[p].stage \in {"drain", "sending", "shown"},
         poll' = [poll EXCEPT ![p] = [@ EXCEPT !.stage = st]],
         UNCHANGED <<owner, fate, inflight>>
  PROVE  Guarded'
<1>1. /\ poll'[p] = [poll[p] EXCEPT !.stage = st]
      /\ \A q \in Polls \ {p} : poll'[q] = poll[q]
      /\ poll[p] \in Chain
  BY DEF TypeOK
<1>2. poll'[p].stage = st /\ poll'[p].at = poll[p].at /\ poll'[p].queue = poll[p].queue
  BY <1>1 DEF Chain
<1>3. QED
  BY <1>1, <1>2 DEF Guarded, SingleDrain

LEMMA ChainStepGuarded ==
  ASSUME TypeOK, Guarded, NEW p \in Polls, ChainStep(p)
  PROVE  Guarded'
<1> USE DEF outbox, table, platform
<1>p. poll[p] \in Chain
  BY DEF TypeOK
<1>1. CASE PollStart(p)
  <2>1. PICK found \in ToVisit(p) :
          poll' = [poll EXCEPT ![p] = [@ EXCEPT !.stage = "next", !.todo = found]]
    BY <1>1 DEF PollStart
  <2>2. /\ poll'[p].stage = "next" /\ poll'[p].at = poll[p].at /\ poll'[p].queue = poll[p].queue
        /\ \A q \in Polls \ {p} : poll'[q] = poll[q]
    BY <1>p, <2>1 DEF TypeOK, Chain
  <2>3. QED
    BY <1>1, <2>2 DEF PollStart, Guarded, SingleDrain
<1>2. ASSUME NEW s \in Sessions, EnterSession(p, s)
      PROVE  Guarded'
  <2>1. /\ poll'[p].stage = "drain" /\ poll'[p].at = s /\ poll'[p].queue = Undelivered(s)
        /\ \A q \in Polls \ {p} : poll'[q] = poll[q]
    BY <1>p, <1>2 DEF EnterSession, TypeOK, Chain
  <2>2. s # None /\ s \notin inflight /\ inflight' = inflight \cup {s}
    BY <1>2, ConstantsOK DEF EnterSession
  <2>3. \A q \in Polls : poll[q].at # s
    BY <2>2 DEF Guarded
  <2>4. SingleDrain'
    BY <2>1, <2>3 DEF Guarded, SingleDrain
  <2>5. UNCHANGED <<owner, fate>>
    BY <1>2 DEF EnterSession
  <2>6. QED
    BY <2>1, <2>2, <2>4, <2>5 DEF Guarded, Undelivered
<1>3. ASSUME NEW s \in Sessions, SkipSession(p, s)
      PROVE  Guarded'
  <2>1. /\ poll'[p].stage = poll[p].stage /\ poll'[p].at = poll[p].at
        /\ poll'[p].queue = poll[p].queue /\ \A q \in Polls \ {p} : poll'[q] = poll[q]
    BY <1>p, <1>3 DEF SkipSession, TypeOK, Chain
  <2>2. QED
    BY <1>3, <2>1 DEF SkipSession, Guarded, SingleDrain
<1>4. CASE PollEnd(p)
  <2>1. /\ poll'[p].stage = "idle" /\ poll'[p].at = poll[p].at
        /\ poll'[p].queue = poll[p].queue /\ \A q \in Polls \ {p} : poll'[q] = poll[q]
    BY <1>p, <1>4 DEF PollEnd, TypeOK, Chain
  <2>2. QED
    BY <1>4, <2>1 DEF PollEnd, Guarded, SingleDrain
<1>5. CASE Refuse(p)
  BY <1>5, ProceedGuarded DEF Refuse, Head, RecordFailure, TypeOK
<1>6. CASE Send(p)
  BY <1>6, StageGuarded DEF Send
<1>7. CASE Show(p)
  BY <1>7, StageGuarded DEF Show
<1>8. CASE Answer(p)
  BY <1>8, ProceedGuarded DEF Answer, Head, TypeOK
<1>9. CASE Reject(p)
  BY <1>9, ProceedGuarded DEF Reject, Head, RecordFailure, TypeOK
<1>10. CASE LeaveSession(p)
  <2>1. /\ poll'[p].stage = "next" /\ poll'[p].at = None /\ poll'[p].queue = {}
        /\ \A q \in Polls \ {p} : poll'[q] = poll[q]
    BY <1>p, <1>10 DEF LeaveSession, TypeOK, Chain
  <2>2. poll[p].at # None /\ inflight' = inflight \ {poll[p].at} /\ UNCHANGED <<owner, fate>>
    BY <1>10 DEF LeaveSession, Guarded
  <2>3. \A q \in Polls \ {p} : poll[q].at # poll[p].at
    BY <2>2 DEF Guarded, SingleDrain
  <2>4. QED
    BY <2>1, <2>2, <2>3 DEF Guarded, SingleDrain
<1>11. QED
  BY <1>1, <1>2, <1>3, <1>4, <1>5, <1>6, <1>7, <1>8, <1>9, <1>10 DEF ChainStep

LEMMA StepGuarded ==
  ASSUME TypeOK, Guarded, [Next]_vars
  PROVE  Guarded'
<1>1. ASSUME NEW s \in Sessions, NEW k \in Kinds, WriteMessageOut(s, k)
      PROVE  Guarded'
  <2>1. PICK m \in Msgs : owner[m] = None /\ owner' = [owner EXCEPT ![m] = s]
    BY <1>1 DEF WriteMessageOut
  <2>2. UNCHANGED <<poll, inflight, fate>>
    BY <1>1 DEF WriteMessageOut, table
  <2>3. \A p \in Polls : \A n \in poll[p].queue : n \in Msgs /\ poll[p].at # None
    BY DEF Guarded, TypeOK, Chain, Stages
  <2>4. \A p \in Polls : \A n \in poll[p].queue : owner'[n] = owner[n]
    BY <2>1, <2>3 DEF Guarded, TypeOK
  <2>5. QED
    BY <2>2, <2>4 DEF Guarded, SingleDrain
<1>2. CASE HostCrash
  BY <1>2 DEF HostCrash, Guarded, SingleDrain, Asleep
<1>3. CASE HostStart
  BY <1>3 DEF HostStart, Guarded, SingleDrain, outbox, table
<1>4. CASE UNCHANGED vars
  BY <1>4 DEF vars, Guarded, SingleDrain
<1>5. QED
  BY <1>1, <1>2, <1>3, <1>4, ChainStepGuarded DEF Next
-----------------------------------------------------------------------------
\* How often the user sees a message.

\* A step that leaves what was shown, the faults and the chains' awaits alone,
\* or settles a message, or counts a fault for it, keeps EchoOK.
LEMMA CountedEcho ==
  ASSUME TypeOK, EchoOK,
         \A m \in Msgs :
           /\ shown'[m] = shown[m]
           /\ lost'[m] \in Nat /\ lost'[m] >= lost[m]
           /\ crashes' \in Nat /\ crashes' >= crashes
           /\ \/ fate'[m] # "none"
              \/ lost'[m] + crashes' > lost[m] + crashes
              \/ fate[m] = "none" /\ (Awaited(m) => Awaited(m)')
  PROVE  EchoOK'
<1> SUFFICES ASSUME NEW m \in Msgs
             PROVE  /\ shown'[m] <= 1 + lost'[m] + crashes'
                    /\ fate'[m] = "none" /\ ~Awaited(m)' => shown'[m] <= lost'[m] + crashes'
  BY DEF EchoOK
<1>1. shown[m] \in Nat /\ lost[m] \in Nat /\ crashes \in Nat
  BY DEF TypeOK
<1>2. shown[m] <= 1 + lost[m] + crashes
  BY DEF EchoOK
<1>3. fate[m] = "none" /\ ~Awaited(m) => shown[m] <= lost[m] + crashes
  BY DEF EchoOK
<1>4. QED
  BY <1>1, <1>2, <1>3

\* Nothing is awaited after a step that ends the await of m.
LEMMA ProceedAwaits ==
  ASSUME TypeOK, Guarded, NEW p \in Polls, NEW m \in Msgs, Head(p, m), Proceed(p, m)
  PROVE  \A n \in Msgs \ {m} : Awaited(n) => Awaited(n)'
<1> SUFFICES ASSUME NEW n \in Msgs \ {m}, NEW q \in Polls, poll[q].stage = "shown", Head(q, n)
             PROVE  Awaited(n)'
  BY DEF Awaited
<1>1. p # q
  <2> SUFFICES ASSUME p = q PROVE FALSE
    OBVIOUS
  <2>1. m <= n /\ n <= m
    BY DEF Head
  <2>2. m \in Int /\ n \in Int
    BY DEF Msgs
  <2>3. QED
    BY <2>1, <2>2
<1>2. poll'[q] = poll[q]
  BY <1>1 DEF Proceed, TypeOK
<1>3. QED
  BY <1>2 DEF Awaited, Head

LEMMA ChainStepEcho ==
  ASSUME TypeOK, Guarded, EchoOK, NEW p \in Polls, ChainStep(p)
  PROVE  EchoOK'
<1> USE DEF outbox, table, platform
<1>t. \A m \in Msgs : lost[m] \in Nat /\ crashes \in Nat
  BY DEF TypeOK
<1>a. ASSUME poll[p].stage # "shown", UNCHANGED <<fate, shown, lost, crashes>>,
             \A q \in Polls \ {p} : poll'[q] = poll[q]
      PROVE  EchoOK'
  <2>1. \A m \in Msgs : Awaited(m) => Awaited(m)'
    BY <1>a DEF Awaited, Head
  <2>2. \A m \in Msgs : fate[m] # "none" \/ fate[m] = "none"
    OBVIOUS
  <2>3. QED
    BY <1>a, <1>t, <2>1, <2>2, CountedEcho
<1>1. CASE \/ PollStart(p) \/ PollEnd(p) \/ Send(p) \/ LeaveSession(p)
           \/ \E s \in Sessions : EnterSession(p, s) \/ SkipSession(p, s)
  <2>1. poll[p].stage # "shown" /\ UNCHANGED <<fate, shown, lost, crashes>>
    BY <1>1 DEF PollStart, PollEnd, Send, LeaveSession, EnterSession, SkipSession
  <2>2. \A q \in Polls \ {p} : poll'[q] = poll[q]
    BY <1>1 DEF PollStart, PollEnd, Send, LeaveSession, EnterSession, SkipSession, TypeOK
  <2>3. QED
    BY <1>a, <2>1, <2>2
<1>2. CASE Refuse(p)
  <2>1. PICK m \in Msgs : /\ poll[p].stage = "drain" /\ Head(p, m)
                          /\ RecordFailure(m) /\ Proceed(p, m)
                          /\ UNCHANGED <<shown, lost, crashes>>
    BY <1>2 DEF Refuse
  <2>2. \A n \in Msgs : fate'[n] = fate[n] \/ fate'[n] # "none"
    BY <2>1 DEF RecordFailure, TypeOK
  <2>3. \A n \in Msgs : Awaited(n) => Awaited(n)'
    <3> SUFFICES ASSUME NEW n \in Msgs, NEW q \in Polls, poll[q].stage = "shown", Head(q, n)
                 PROVE  Awaited(n)'
      BY DEF Awaited
    <3>1. poll'[q] = poll[q]
      BY <2>1 DEF Proceed, TypeOK
    <3>2. QED
      BY <3>1 DEF Awaited, Head
  <2>4. QED
    BY <1>t, <2>1, <2>2, <2>3, CountedEcho
<1>3. CASE Show(p)
  <2>1. PICK m \in Msgs : /\ poll[p].stage = "sending" /\ Head(p, m)
                          /\ shown' = [shown EXCEPT ![m] = shown[m] + 1]
                          /\ poll' = [poll EXCEPT ![p] = [@ EXCEPT !.stage = "shown"]]
                          /\ UNCHANGED <<fate, lost, crashes>>
    BY <1>3 DEF Show
  <2>2. /\ poll'[p].stage = "shown" /\ poll'[p].queue = poll[p].queue
        /\ \A q \in Polls \ {p} : poll'[q] = poll[q]
    BY <2>1 DEF TypeOK, Chain
  <2>3. ~Awaited(m)
    <3> SUFFICES ASSUME NEW q \in Polls, poll[q].stage = "shown", Head(q, m)
                 PROVE  FALSE
      BY DEF Awaited
    <3>1. q # p
      BY <2>1
    <3>2. QED
      BY <2>1, <3>1, QueuesDisjoint DEF Head
  <2>4. fate[m] = "none"
    BY <2>1 DEF Head, Guarded
  <2>5. shown'[m] <= 1 + lost[m] + crashes
    <3>1. shown[m] <= lost[m] + crashes
      BY <2>3, <2>4 DEF EchoOK
    <3>2. QED
      BY <1>t, <2>1, <3>1 DEF TypeOK
  <2>6. Awaited(m)'
    BY <2>1, <2>2 DEF Awaited, Head
  <2>7. \A n \in Msgs \ {m} : shown'[n] = shown[n] /\ (Awaited(n) => Awaited(n)')
    <3>1. \A n \in Msgs \ {m} : shown'[n] = shown[n]
      BY <2>1 DEF TypeOK
    <3>2. \A n \in Msgs \ {m} : Awaited(n) => Awaited(n)'
      BY <2>1, <2>2 DEF Awaited, Head
    <3>3. QED
      BY <3>1, <3>2
  <2>8. QED
    BY <2>1, <2>5, <2>6, <2>7 DEF EchoOK
<1>4. CASE Answer(p)
  <2>1. PICK m \in Msgs :
          /\ Head(p, m)
          /\ fate' = [fate EXCEPT ![m] = IF fate[m] = "none" THEN "delivered" ELSE fate[m]]
          /\ Proceed(p, m)
          /\ UNCHANGED <<shown, lost, crashes>>
    BY <1>4 DEF Answer
  <2>2. fate'[m] # "none" /\ \A n \in Msgs \ {m} : fate'[n] = fate[n]
    BY <2>1 DEF TypeOK
  <2>3. \A n \in Msgs \ {m} : Awaited(n) => Awaited(n)'
    BY <2>1, ProceedAwaits
  <2>4. QED
    BY <1>t, <2>1, <2>2, <2>3, CountedEcho
<1>5. CASE Reject(p)
  <2>1. PICK m \in Msgs :
          /\ Head(p, m)
          /\ \/ poll[p].stage = "sending" /\ lost' = lost
             \/ poll[p].stage = "shown" /\ lost' = [lost EXCEPT ![m] = lost[m] + 1]
          /\ RecordFailure(m)
          /\ Proceed(p, m)
          /\ UNCHANGED <<shown, crashes>>
    BY <1>5 DEF Reject
  <2>2. \A n \in Msgs : fate'[n] = fate[n] \/ fate'[n] # "none"
    BY <2>1 DEF RecordFailure, TypeOK
  <2>3. \A n \in Msgs \ {m} : lost'[n] = lost[n] /\ (Awaited(n) => Awaited(n)')
    <3>1. \A n \in Msgs \ {m} : lost'[n] = lost[n]
      BY <2>1 DEF TypeOK
    <3>2. QED
      BY <2>1, <3>1, ProceedAwaits
  <2>4. CASE poll[p].stage = "shown"
    <3>1. lost'[m] = lost[m] + 1
      BY <2>1, <2>4 DEF TypeOK
    <3>2. QED
      BY <1>t, <2>1, <2>2, <2>3, <3>1, CountedEcho
  <2>5. CASE poll[p].stage = "sending" /\ lost' = lost
    <3>1. ~Awaited(m)
      <4> SUFFICES ASSUME NEW q \in Polls, poll[q].stage = "shown", Head(q, m)
                   PROVE  FALSE
        BY DEF Awaited
      <4>1. q # p
        BY <2>5
      <4>2. QED
        BY <2>1, <4>1, QueuesDisjoint DEF Head
    <3>2. QED
      BY <1>t, <2>1, <2>2, <2>3, <2>5, <3>1, CountedEcho
  <2>6. QED
    BY <2>1, <2>4, <2>5
<1>6. QED
  BY <1>1, <1>2, <1>3, <1>4, <1>5 DEF ChainStep

LEMMA StepEcho ==
  ASSUME TypeOK, Guarded, EchoOK, [Next]_vars
  PROVE  EchoOK'
<1>t. \A m \in Msgs : lost[m] \in Nat /\ shown[m] \in Nat /\ crashes \in Nat
  BY DEF TypeOK
<1>1. CASE UNCHANGED <<fate, shown, lost, crashes, poll>>
  BY <1>1 DEF EchoOK, Awaited, Head
<1>2. CASE \/ \E s \in Sessions, k \in Kinds : WriteMessageOut(s, k)
           \/ HostStart \/ UNCHANGED vars
  BY <1>1, <1>2 DEF WriteMessageOut, HostStart, vars, table, platform
<1>3. CASE HostCrash
  <2>1. /\ crashes' = crashes + 1 /\ UNCHANGED <<fate, shown, lost>>
    BY <1>3 DEF HostCrash, platform
  <2>2. QED
    BY <1>t, <2>1 DEF EchoOK
<1>4. QED
  BY <1>2, <1>3, ChainStepEcho DEF Next
-----------------------------------------------------------------------------
\* The order in which messages are handed over.

\* The drain of p has dealt with m, which was its head.
LEMMA ProceedOrder ==
  ASSUME TypeOK, OrderOK, Guarded, NEW p \in Polls, NEW m \in Msgs, m \in poll[p].queue,
         Proceed(p, m), UNCHANGED owner,
         fate'[m] # "none" \/ attempts'[m] > 0,
         \A n \in Msgs \ {m} : fate'[n] = fate[n] /\ attempts'[n] = attempts[n]
  PROVE  OrderOK'
<1>1. /\ poll'[p].queue = poll[p].queue \ {m} /\ poll'[p].at = poll[p].at
      /\ \A q \in Polls \ {p} : poll'[q] = poll[q]
  BY DEF Proceed, TypeOK, Chain
<1>2. ASSUME NEW q \in Polls, NEW l \in poll'[q].queue, NEW n \in Msgs,
             n < l, owner'[n] = poll'[q].at
      PROVE  n \in poll'[q].queue \/ fate'[n] # "none" \/ attempts'[n] > 0
  <2>1. l \in poll[q].queue /\ owner[n] = poll[q].at
    BY <1>1, <1>2
  <2>2. n \in poll[q].queue \/ fate[n] # "none" \/ attempts[n] > 0
    BY <1>2, <2>1 DEF OrderOK
  <2>3. CASE n = m
    BY <2>3
  <2>4. CASE n # m
    BY <1>1, <2>2, <2>4
  <2>5. QED
    BY <2>3, <2>4
<1>3. \A n \in Msgs : owner'[n] # None => \A k \in 1..(n - 1) : owner'[k] # None
  BY DEF OrderOK
<1>4. QED
  BY <1>2, <1>3 DEF OrderOK

\* What happens to a message's row is never undone.
LEMMA ChainStepOrder ==
  ASSUME TypeOK, Guarded, OrderOK, NEW p \in Polls, ChainStep(p)
  PROVE  OrderOK'
<1> USE DEF outbox, table, platform
<1>a. ASSUME UNCHANGED <<owner, fate, attempts>>,
             \A q \in Polls : \/ poll'[q].queue = {}
                              \/ poll'[q].queue = poll[q].queue /\ poll'[q].at = poll[q].at
      PROVE  OrderOK'
  BY <1>a DEF OrderOK
<1>1. CASE PollStart(p) \/ PollEnd(p) \/ Send(p) \/ Show(p) \/ LeaveSession(p)
           \/ \E s \in Sessions : SkipSession(p, s)
  <2>1. UNCHANGED <<owner, fate, attempts>>
    BY <1>1 DEF PollStart, PollEnd, Send, Show, LeaveSession, SkipSession
  <2>2. \A q \in Polls \ {p} : poll'[q] = poll[q]
    BY <1>1 DEF PollStart, PollEnd, Send, Show, LeaveSession, SkipSession, TypeOK
  <2>3. \/ poll'[p].queue = {}
        \/ poll'[p].queue = poll[p].queue /\ poll'[p].at = poll[p].at
    <3> poll[p] \in Chain
      BY DEF TypeOK
    <3>1. CASE PollStart(p)
      <4>1. PICK found \in ToVisit(p) :
              poll' = [poll EXCEPT ![p] = [@ EXCEPT !.stage = "next", !.todo = found]]
        BY <3>1 DEF PollStart
      <4>2. poll'[p].queue = poll[p].queue /\ poll'[p].at = poll[p].at
        BY <4>1 DEF TypeOK, Chain
      <4>3. QED
        BY <4>2
    <3>2. CASE PollEnd(p)
      BY <3>2 DEF PollEnd, TypeOK, Chain
    <3>3. CASE Send(p)
      BY <3>3 DEF Send, TypeOK, Chain
    <3>4. CASE Show(p)
      BY <3>4 DEF Show, TypeOK, Chain
    <3>5. CASE LeaveSession(p)
      <4>1. poll[p].queue = {}
        BY <3>5 DEF LeaveSession
      <4>2. poll'[p] = [poll[p] EXCEPT !.stage = "next", !.at = None]
        BY <3>5 DEF LeaveSession, TypeOK
      <4>3. poll'[p].queue = {}
        BY <4>1, <4>2 DEF Chain
      <4>4. QED
        BY <4>3
    <3>6. ASSUME NEW s \in Sessions, SkipSession(p, s)
          PROVE  poll'[p].queue = poll[p].queue /\ poll'[p].at = poll[p].at
      BY <3>6 DEF SkipSession, TypeOK, Chain
    <3>7. QED
      BY <1>1, <3>1, <3>2, <3>3, <3>4, <3>5, <3>6
  <2>4. QED
    BY <1>a, <2>1, <2>2, <2>3
<1>2. ASSUME NEW s \in Sessions, EnterSession(p, s)
      PROVE  OrderOK'
  <2>1. /\ poll'[p].at = s /\ poll'[p].queue = Undelivered(s)
        /\ \A q \in Polls \ {p} : poll'[q] = poll[q]
        /\ UNCHANGED <<owner, fate, attempts>>
    BY <1>2 DEF EnterSession, TypeOK, Chain
  <2>2. \A n \in Msgs : owner[n] = s => n \in Undelivered(s) \/ fate[n] # "none"
    BY DEF Undelivered
  <2>3. QED
    BY <2>1, <2>2 DEF OrderOK
<1>3. CASE Refuse(p) \/ Reject(p)
  <2>1. PICK m \in Msgs : Head(p, m) /\ RecordFailure(m) /\ Proceed(p, m) /\ UNCHANGED owner
    BY <1>3 DEF Refuse, Reject
  <2>2. fate[m] = "none"
    BY <2>1 DEF Head, Guarded
  <2>3. /\ fate'[m] # "none" \/ attempts'[m] > 0
        /\ \A n \in Msgs \ {m} : fate'[n] = fate[n] /\ attempts'[n] = attempts[n]
    BY <2>1, <2>2, ConstantsOK DEF RecordFailure, TypeOK
  <2>4. QED
    BY <2>1, <2>3, ProceedOrder DEF Head
<1>4. CASE Answer(p)
  <2>1. PICK m \in Msgs :
          /\ Head(p, m) /\ Proceed(p, m) /\ UNCHANGED owner
          /\ fate' = [fate EXCEPT ![m] = IF fate[m] = "none" THEN "delivered" ELSE fate[m]]
          /\ attempts' = [attempts EXCEPT ![m] = 0]
    BY <1>4 DEF Answer
  <2>2. /\ fate'[m] # "none"
        /\ \A n \in Msgs \ {m} : fate'[n] = fate[n] /\ attempts'[n] = attempts[n]
    BY <2>1 DEF TypeOK
  <2>3. QED
    BY <2>1, <2>2, ProceedOrder DEF Head
<1>5. QED
  BY <1>1, <1>2, <1>3, <1>4 DEF ChainStep

LEMMA StepOrder ==
  ASSUME TypeOK, Guarded, OrderOK, [Next]_vars
  PROVE  OrderOK'
<1>1. ASSUME NEW s \in Sessions, NEW k \in Kinds, WriteMessageOut(s, k)
      PROVE  OrderOK'
  <2>1. PICK m \in Msgs : /\ owner[m] = None /\ \A n \in 1..(m - 1) : owner[n] # None
                          /\ owner' = [owner EXCEPT ![m] = s]
                          /\ UNCHANGED <<fate, attempts, poll>>
    BY <1>1 DEF WriteMessageOut, table
  <2>2. owner'[m] = s /\ s # None /\ \A n \in Msgs \ {m} : owner'[n] = owner[n]
    BY <2>1, ConstantsOK DEF TypeOK
  <2>3. ASSUME NEW n \in Msgs, owner'[n] # None, NEW l \in 1..(n - 1)
        PROVE  owner'[l] # None
    <3>1. l \in Msgs
      BY ConstantsOK DEF Msgs
    <3>2. CASE n = m
      BY <2>1, <2>2, <3>1, <3>2
    <3>3. CASE n # m
      BY <2>2, <2>3, <3>1, <3>3 DEF OrderOK
    <3>4. QED
      BY <3>2, <3>3
  <2>4. ASSUME NEW p \in Polls, NEW l \in poll'[p].queue, NEW n \in Msgs,
               n < l, owner'[n] = poll'[p].at
        PROVE  n \in poll'[p].queue \/ fate'[n] # "none" \/ attempts'[n] > 0
    <3>1. l \in poll[p].queue /\ l \in Msgs /\ poll[p].at # None /\ owner[l] = poll[p].at
      BY <2>1 DEF Guarded, TypeOK, Chain, Stages
    <3>2. n \in 1..(l - 1)
      BY <2>4, <3>1 DEF Msgs
    <3>3. owner[n] # None
      BY <3>1, <3>2 DEF OrderOK
    <3>4. owner'[n] = owner[n]
      BY <2>1, <2>2, <3>3
    <3>5. QED
      BY <2>1, <2>4, <3>1, <3>4 DEF OrderOK
  <2>5. QED
    BY <2>3, <2>4 DEF OrderOK
<1>2. CASE HostCrash
  <2>1. UNCHANGED owner /\ \A p \in Polls : poll'[p].queue = {}
    BY <1>2 DEF HostCrash, outbox, Asleep
  <2>2. QED
    BY <2>1 DEF OrderOK
<1>3. CASE HostStart \/ UNCHANGED vars
  BY <1>3 DEF HostStart, vars, outbox, table, OrderOK
<1>4. QED
  BY <1>1, <1>2, <1>3, ChainStepOrder DEF Next
-----------------------------------------------------------------------------
\* The message whose answer a chain awaits.

\* A chain that is not at "shown" knows nothing, one that stays there keeps its
\* queue, and what was written and shown of a queued message stays.
LEMMA KeptAnswer ==
  ASSUME TypeOK, TypeOK', AnswerOK,
         \A q \in Polls : poll'[q].stage = "shown" => poll'[q] = poll[q],
         \A q \in Polls : \A m \in poll[q].queue : kind'[m] = kind[m] /\ shown'[m] >= shown[m]
  PROVE  AnswerOK'
<1> SUFFICES ASSUME NEW q \in Polls, NEW m \in Msgs, poll'[q].stage = "shown", Head(q, m)'
             PROVE  kind'[m] = "sent" /\ shown'[m] > 0
  BY DEF AnswerOK
<1>1. poll'[q] = poll[q]
  OBVIOUS
<1>2. poll[q].stage = "shown" /\ Head(q, m) /\ m \in poll[q].queue
  BY <1>1 DEF Head
<1>3. kind[m] = "sent" /\ shown[m] > 0
  BY <1>2 DEF AnswerOK
<1>4. kind'[m] = kind[m] /\ shown'[m] >= shown[m]
  BY <1>2
<1>5. shown[m] \in Nat /\ shown'[m] \in Nat
  BY DEF TypeOK
<1>6. QED
  BY <1>3, <1>4, <1>5

LEMMA ChainStepAnswer ==
  ASSUME TypeOK, TypeOK', AnswerOK, NEW p \in Polls, ChainStep(p)
  PROVE  AnswerOK'
<1> USE DEF outbox, table, platform
<1>p. poll[p] \in Chain /\ \A q \in Polls : poll[q].queue \subseteq Msgs
  BY DEF TypeOK, Chain
<1>1. CASE Show(p)
  <2>1. PICK m \in Msgs :
          /\ Head(p, m) /\ kind[m] = "sent"
          /\ shown' = [shown EXCEPT ![m] = shown[m] + 1]
          /\ poll' = [poll EXCEPT ![p] = [@ EXCEPT !.stage = "shown"]]
          /\ kind' = kind
    BY <1>1 DEF Show
  <2>2. /\ poll'[p].queue = poll[p].queue /\ \A q \in Polls \ {p} : poll'[q] = poll[q]
        /\ shown'[m] = shown[m] + 1 /\ \A n \in Msgs \ {m} : shown'[n] = shown[n]
        /\ shown[m] \in Nat
    BY <1>p, <2>1 DEF Chain, TypeOK
  <2> SUFFICES ASSUME NEW q \in Polls, NEW n \in Msgs, poll'[q].stage = "shown", Head(q, n)'
               PROVE  kind'[n] = "sent" /\ shown'[n] > 0
    BY DEF AnswerOK
  <2>3. CASE q = p
    <3>1. n = m
      BY <2>1, <2>2, <2>3 DEF Head, Msgs
    <3>2. QED
      BY <2>1, <2>2, <3>1
  <2>4. CASE q # p
    <3>1. poll[q].stage = "shown" /\ Head(q, n)
      BY <2>2, <2>4 DEF Head
    <3>2. kind[n] = "sent" /\ shown[n] > 0 /\ shown[n] \in Nat
      BY <3>1 DEF AnswerOK, TypeOK
    <3>3. QED
      BY <2>1, <2>2, <3>2
  <2>5. QED
    BY <2>3, <2>4
<1>2. CASE ~Show(p)
  <2>1. UNCHANGED <<kind, shown>>
    BY <1>2 DEF ChainStep, PollStart, EnterSession, SkipSession, PollEnd, Refuse, Send,
       Answer, Reject, LeaveSession
  <2>2. \A q \in Polls \ {p} : poll'[q] = poll[q]
    BY <1>2 DEF ChainStep, PollStart, EnterSession, SkipSession, PollEnd, Refuse, Send,
       Answer, Reject, LeaveSession, Proceed, TypeOK
  <2>3. poll'[p].stage # "shown"
    <3>1. CASE Refuse(p) \/ Answer(p) \/ Reject(p)
      <4>1. PICK m \in Msgs : Proceed(p, m)
        BY <3>1 DEF Refuse, Answer, Reject
      <4>2. QED
        BY <1>p, <4>1 DEF Proceed, TypeOK, Chain
    <3>2. CASE PollStart(p)
      <4>1. PICK found \in ToVisit(p) :
              poll' = [poll EXCEPT ![p] = [@ EXCEPT !.stage = "next", !.todo = found]]
        BY <3>2 DEF PollStart
      <4>2. QED
        BY <1>p, <4>1 DEF TypeOK, Chain
    <3>3. CASE PollEnd(p) \/ Send(p)
      BY <1>p, <3>3 DEF PollEnd, Send, TypeOK, Chain
    <3>4. ASSUME NEW s \in Sessions, EnterSession(p, s)
          PROVE  poll'[p].stage # "shown"
      BY <1>p, <3>4 DEF EnterSession, TypeOK, Chain
    <3>5. ASSUME NEW s \in Sessions, SkipSession(p, s)
          PROVE  poll'[p].stage # "shown"
      BY <1>p, <3>5 DEF SkipSession, TypeOK, Chain
    <3>6. CASE LeaveSession(p)
      <4>1. poll'[p] = [poll[p] EXCEPT !.stage = "next", !.at = None]
        BY <3>6 DEF LeaveSession, TypeOK
      <4>2. QED
        BY <1>p, <4>1 DEF Chain
    <3>7. QED
      BY <1>2, <3>1, <3>2, <3>3, <3>4, <3>5, <3>6 DEF ChainStep
  <2>4. \A q \in Polls : poll'[q].stage = "shown" => poll'[q] = poll[q]
    BY <2>2, <2>3
  <2>5. \A m \in Msgs : shown[m] \in Nat
    BY DEF TypeOK
  <2>6. QED
    BY <1>p, <2>1, <2>4, <2>5, KeptAnswer
<1>3. QED
  BY <1>1, <1>2

LEMMA StepAnswer ==
  ASSUME TypeOK, TypeOK', Guarded, AnswerOK, [Next]_vars
  PROVE  AnswerOK'
<1>p. \A q \in Polls : \A m \in poll[q].queue : m \in Msgs /\ owner[m] # None
  BY DEF TypeOK, Chain, Stages, Guarded
<1>n. \A m \in Msgs : shown[m] \in Nat
  BY DEF TypeOK
<1>1. ASSUME NEW s \in Sessions, NEW k \in Kinds, WriteMessageOut(s, k)
      PROVE  AnswerOK'
  <2>1. PICK m \in Msgs : /\ owner[m] = None /\ kind' = [kind EXCEPT ![m] = k]
                          /\ UNCHANGED <<shown, poll>>
    BY <1>1 DEF WriteMessageOut, platform
  <2>2. \A q \in Polls : \A n \in poll[q].queue : kind'[n] = kind[n]
    BY <1>p, <2>1 DEF TypeOK
  <2>3. QED
    BY <1>p, <1>n, <2>1, <2>2, KeptAnswer
<1>2. CASE HostCrash
  BY <1>2 DEF HostCrash, AnswerOK, Asleep
<1>3. CASE HostStart \/ UNCHANGED vars
  BY <1>3 DEF HostStart, vars, AnswerOK, Head, outbox, platform
<1>4. QED
  BY <1>1, <1>2, <1>3, ChainStepAnswer DEF Next
-----------------------------------------------------------------------------
\* The rows of messages that are not written.

\* A chain settles only what it drains, which its agent wrote.
LEMMA StepRowless ==
  ASSUME TypeOK, Guarded, Rowless, [Next]_vars
  PROVE  Rowless'
<1>1. \A q \in Polls : \A m \in Msgs : Head(q, m) => owner[m] # None
  BY DEF Head, Guarded, TypeOK, Chain, Stages
<1>2. CASE UNCHANGED <<owner, fate>>
  BY <1>2 DEF Rowless
<1>3. ASSUME NEW s \in Sessions, NEW k \in Kinds, WriteMessageOut(s, k)
      PROVE  Rowless'
  <2>1. PICK m \in Msgs : owner' = [owner EXCEPT ![m] = s] /\ fate' = fate
    BY <1>3 DEF WriteMessageOut, table
  <2>2. QED
    BY <2>1, ConstantsOK DEF Rowless, TypeOK
<1>4. ASSUME NEW p \in Polls, Refuse(p) \/ Answer(p) \/ Reject(p)
      PROVE  Rowless'
  <2>1. PICK m \in Msgs : Head(p, m) /\ owner' = owner
                          /\ \A n \in Msgs \ {m} : fate'[n] = fate[n]
    BY <1>4 DEF Refuse, Answer, Reject, RecordFailure, outbox, TypeOK
  <2>2. QED
    BY <1>1, <2>1 DEF Rowless
<1>5. QED
  BY <1>2, <1>3, <1>4 DEF Next, ChainStep, PollStart, EnterSession, SkipSession, PollEnd,
     Send, Show, LeaveSession, HostCrash, HostStart, vars, outbox, table
-----------------------------------------------------------------------------
\* The abstract outbox.

\* The refinement mapping, opened once.
LEMMA Mapped ==
  /\ \A m \in Msgs : /\ Stage[m] = IF owner[m] = None THEN "absent"
                                   ELSE IF fate[m] = "none" THEN "due" ELSE fate[m]
                     /\ Doubts[m] = lost[m] + crashes
  /\ \A m \in Msgs : /\ Stage'[m] = IF owner'[m] = None THEN "absent"
                                    ELSE IF fate'[m] = "none" THEN "due" ELSE fate'[m]
                     /\ Doubts'[m] = lost'[m] + crashes'
  BY DEF Stage, Doubts

\* What the abstract outbox sees of a message stays.
Still(m) ==
  /\ owner'[m] = owner[m] /\ kind'[m] = kind[m] /\ fate'[m] = fate[m]
  /\ attempts'[m] = attempts[m] /\ shown'[m] = shown[m] /\ lost'[m] = lost[m]

LEMMA StillUntouched ==
  ASSUME NEW m \in Msgs, Still(m), crashes' = crashes
  PROVE  Outbox!Move(m)
  BY Mapped DEF Still, Outbox!Move, Outbox!Untouched, Outbox!SameMessage, Outbox!Unseen,
     Outbox!Undoubted

\* One more failure of the message a drain is at.
LEMMA FailureMoves ==
  ASSUME IInv, IInv', NEW m \in Msgs, owner[m] # None, fate[m] = "none",
         kind[m] # "unbridged", RecordFailure(m),
         UNCHANGED <<owner, kind, shown, crashes>>,
         \/ lost'[m] = lost[m]
         \/ shown[m] > 0 /\ lost'[m] = lost[m] + 1
  PROVE  Outbox!Move(m)
<1>1. lost[m] \in Nat /\ crashes \in Nat /\ attempts[m] \in 0..(MaxAttempts - 1)
  BY DEF IInv, TypeOK
<1>2. Outbox!Undoubted(m) \/ (shown[m] > 0 /\ Doubts'[m] = Doubts[m] + 1)
  BY <1>1, Mapped DEF Outbox!Undoubted
<1>3. Stage[m] = "due"
  BY Mapped
<1>4. IF attempts[m] + 1 = MaxAttempts
        THEN Stage'[m] = "failed" /\ attempts'[m] = 0
        ELSE Stage'[m] = "due" /\ attempts'[m] = attempts[m] + 1
  BY <1>1, Mapped, ConstantsOK DEF RecordFailure, IInv, TypeOK
<1>5. Outbox!Failed(m)
  BY <1>2, <1>3, <1>4 DEF Outbox!Failed, Outbox!Unseen
<1>6. QED
  BY <1>5 DEF Outbox!Move

LEMMA ChainStepMoves ==
  ASSUME IInv, IInv', NEW p \in Polls, ChainStep(p), NEW n \in Msgs
  PROVE  Outbox!Move(n)
<1> USE DEF outbox, table, platform
<1>h. \A m \in Msgs : Head(p, m) => owner[m] # None /\ fate[m] = "none"
  BY DEF Head, IInv, Guarded, TypeOK, Chain, Stages
<1>t. TypeOK /\ Guarded /\ EchoOK /\ AnswerOK
  BY DEF IInv
<1>1. CASE Refuse(p)
  <2>1. PICK m \in Msgs : Head(p, m) /\ kind[m] = "barred" /\ RecordFailure(m)
    BY <1>1 DEF Refuse
  <2>2. UNCHANGED <<owner, kind, shown, lost, crashes>>
    BY <1>1 DEF Refuse
  <2>3. CASE n = m
    BY <1>h, <2>1, <2>2, <2>3, FailureMoves
  <2>4. CASE n # m
    <3>1. Still(n)
      BY <1>t, <2>1, <2>2, <2>4 DEF Still, RecordFailure, TypeOK
    <3>2. QED
      BY <2>2, <3>1, StillUntouched
  <2>5. QED
    BY <2>3, <2>4
<1>2. CASE Show(p)
  <2>1. PICK m \in Msgs :
          /\ poll[p].stage = "sending" /\ Head(p, m) /\ kind[m] = "sent"
          /\ shown' = [shown EXCEPT ![m] = shown[m] + 1]
    BY <1>2 DEF Show
  <2>2. UNCHANGED <<owner, kind, fate, attempts, lost, crashes>>
    BY <1>2 DEF Show
  <2>3. ~Awaited(m)
    <3> SUFFICES ASSUME NEW q \in Polls, poll[q].stage = "shown", Head(q, m)
                 PROVE  FALSE
      BY DEF Awaited
    <3>1. q # p
      BY <2>1
    <3>2. QED
      BY <1>t, <2>1, <3>1, QueuesDisjoint DEF Head
  <2>4. shown[m] <= Doubts[m]
    BY <1>h, <1>t, <2>1, <2>3, Mapped DEF EchoOK
  <2>5. CASE n = m
    <3>1. Outbox!Shown(m)
      BY <1>h, <1>t, <2>1, <2>2, <2>4, Mapped DEF Outbox!Shown, Outbox!SameMessage,
         Outbox!Undoubted, TypeOK
    <3>2. QED
      BY <2>5, <3>1 DEF Outbox!Move
  <2>6. CASE n # m
    <3>1. Still(n)
      BY <1>t, <2>1, <2>2, <2>6 DEF Still, TypeOK
    <3>2. QED
      BY <2>2, <3>1, StillUntouched
  <2>7. QED
    BY <2>5, <2>6
<1>3. CASE Answer(p)
  <2>1. PICK m \in Msgs :
          /\ Head(p, m)
          /\ \/ poll[p].stage = "shown"
             \/ poll[p].stage = "sending" /\ kind[m] = "unbridged"
          /\ fate' = [fate EXCEPT ![m] = IF fate[m] = "none" THEN "delivered" ELSE fate[m]]
          /\ attempts' = [attempts EXCEPT ![m] = 0]
    BY <1>3 DEF Answer
  <2>2. UNCHANGED <<owner, kind, shown, lost, crashes>>
    BY <1>3 DEF Answer
  <2>3. CASE n = m
    <3>1. kind[m] = "unbridged" \/ (kind[m] = "sent" /\ shown[m] > 0)
      BY <1>t, <2>1 DEF AnswerOK
    <3>2. fate'[m] = "delivered" /\ attempts'[m] = 0
      BY <1>h, <1>t, <2>1 DEF TypeOK
    <3>3. Outbox!Delivered(m)
      BY <1>h, <2>1, <2>2, <3>1, <3>2, Mapped DEF Outbox!Delivered, Outbox!Unseen, Outbox!Undoubted
    <3>4. QED
      BY <2>3, <3>3 DEF Outbox!Move
  <2>4. CASE n # m
    <3>1. Still(n)
      BY <1>t, <2>1, <2>2, <2>4 DEF Still, TypeOK
    <3>2. QED
      BY <2>2, <3>1, StillUntouched
  <2>5. QED
    BY <2>3, <2>4
<1>4. CASE Reject(p)
  <2>1. PICK m \in Msgs :
          /\ Head(p, m) /\ kind[m] = "sent"
          /\ \/ lost' = lost
             \/ poll[p].stage = "shown" /\ lost' = [lost EXCEPT ![m] = lost[m] + 1]
          /\ RecordFailure(m)
    BY <1>4 DEF Reject
  <2>2. UNCHANGED <<owner, kind, shown, crashes>>
    BY <1>4 DEF Reject
  <2>3. CASE n = m
    <3>1. lost'[m] = lost[m] \/ (shown[m] > 0 /\ lost'[m] = lost[m] + 1)
      BY <1>t, <2>1 DEF AnswerOK, TypeOK
    <3>2. QED
      BY <1>h, <2>1, <2>2, <2>3, <3>1, FailureMoves
  <2>4. CASE n # m
    <3>1. Still(n)
      BY <1>t, <2>1, <2>2, <2>4 DEF Still, RecordFailure, TypeOK
    <3>2. QED
      BY <2>2, <3>1, StillUntouched
  <2>5. QED
    BY <2>3, <2>4
<1>5. CASE ~(Refuse(p) \/ Show(p) \/ Answer(p) \/ Reject(p))
  <2>1. UNCHANGED <<owner, kind, fate, attempts, shown, lost, crashes>>
    BY <1>5 DEF ChainStep, PollStart, EnterSession, SkipSession, PollEnd, Send, LeaveSession
  <2>2. QED
    BY <2>1, StillUntouched DEF Still
<1>6. QED
  BY <1>1, <1>2, <1>3, <1>4, <1>5

\* Every step of the chains, the agents and the host is one of the outbox.
LEMMA StepMoves ==
  ASSUME IInv, IInv', [Next]_vars
  PROVE  Outbox!OutboxNext
<1> USE DEF outbox, table, platform
<1>t. TypeOK /\ Rowless
  BY DEF IInv
<1>1. ASSUME NEW s \in Sessions, NEW k \in Kinds, WriteMessageOut(s, k), NEW n \in Msgs
      PROVE  Outbox!Move(n)
  <2>1. PICK m \in Msgs : /\ owner[m] = None
                          /\ owner' = [owner EXCEPT ![m] = s]
                          /\ kind' = [kind EXCEPT ![m] = k]
    BY <1>1 DEF WriteMessageOut
  <2>2. UNCHANGED <<fate, attempts, shown, lost, crashes>>
    BY <1>1 DEF WriteMessageOut
  <2>3. CASE n = m
    <3>1. Stage[m] = "absent" /\ Stage'[m] = "due"
      BY <1>t, <2>1, <2>2, Mapped, ConstantsOK DEF TypeOK, Rowless
    <3>2. Outbox!Written(m)
      BY <2>2, <3>1, Mapped DEF Outbox!Written, Outbox!Unseen, Outbox!Undoubted
    <3>3. QED
      BY <2>3, <3>2 DEF Outbox!Move
  <2>4. CASE n # m
    <3>1. Still(n)
      BY <1>t, <2>1, <2>2, <2>4 DEF Still, TypeOK
    <3>2. QED
      BY <2>2, <3>1, StillUntouched
  <2>5. QED
    BY <2>3, <2>4
<1>2. ASSUME HostCrash, NEW n \in Msgs
      PROVE  Outbox!Restarted(n)
  <2>1. /\ crashes' = crashes + 1 /\ attempts'[n] = 0
        /\ UNCHANGED <<owner, kind, fate, shown, lost>>
    BY <1>2 DEF HostCrash
  <2>2. Doubts'[n] = Doubts[n] + 1
    <3>1. lost[n] \in Nat /\ crashes \in Nat
      BY <1>t DEF TypeOK
    <3>2. QED
      BY <2>1, <3>1, Mapped
  <2>3. QED
    BY <2>1, <2>2, Mapped DEF Outbox!Restarted, Outbox!SameMessage, Outbox!Unseen
<1>3. ASSUME HostStart \/ UNCHANGED vars, NEW n \in Msgs
      PROVE  Outbox!Move(n)
  BY <1>3, StillUntouched DEF HostStart, vars, Still
<1>4. QED
  BY <1>1, <1>2, <1>3, ChainStepMoves DEF Next, Outbox!OutboxNext
-----------------------------------------------------------------------------
\* The theorems.

LEMMA InductiveInvariant == IInv /\ [Next]_vars => IInv'
  BY StepType, StepGuarded, StepEcho, StepOrder, StepAnswer, StepRowless DEF IInv

LEMMA AlwaysIInv == Spec => []IInv
  BY InitIInv, InductiveInvariant, PTL DEF Spec

\* Every variable of the delivery model keeps its type: attempt counts stay
\* below MAX_DELIVERY_ATTEMPTS, whatever the number of sessions and messages.
THEOREM DeliveryTypeCorrect == Spec => []TypeOK
<1>1. IInv => TypeOK
  BY DEF IInv
<1>2. QED
  BY <1>1, AlwaysIInv, PTL

\* The guard of deliverSessionMessages keeps the two timer chains out of one
\* another's sessions.
THEOREM OneDrain == Spec => []SingleDrain
<1>1. IInv => SingleDrain
  BY DEF IInv, Guarded
<1>2. QED
  BY <1>1, AlwaysIInv, PTL

\* A message is shown at most once more than its answers were lost and the
\* host died.
THEOREM NoEchoes == Spec => []NoEcho
<1>1. IInv => NoEcho
  BY DEF IInv, EchoOK, NoEcho
<1>2. QED
  BY <1>1, AlwaysIInv, PTL

\* What is delivered or given up is never shown again: the queue a drain read
\* before its awaits holds only messages that are still undelivered.
THEOREM SettledHidden == Spec => SettledStaysHidden
<1> DEFINE Hidden == \A m \in Msgs : fate[m] # "none" => shown'[m] = shown[m]
<1>1. IInv /\ [Next]_vars => Hidden
  <2> SUFFICES ASSUME IInv, [Next]_vars, NEW m \in Msgs, fate[m] # "none"
               PROVE  shown'[m] = shown[m]
    OBVIOUS
  <2>1. CASE shown' = shown
    BY <2>1
  <2>2. ASSUME NEW p \in Polls, Show(p)
        PROVE  shown'[m] = shown[m]
    <3>1. PICK n \in Msgs : Head(p, n) /\ shown' = [shown EXCEPT ![n] = shown[n] + 1]
      BY <2>2 DEF Show
    <3>2. fate[n] = "none"
      BY <3>1 DEF Head, IInv, Guarded
    <3>3. QED
      BY <3>1, <3>2 DEF IInv, TypeOK
  <2>3. ASSUME NEW p \in Polls, ChainStep(p)
        PROVE  shown'[m] = shown[m]
    BY <2>1, <2>2, <2>3 DEF ChainStep, PollStart, EnterSession, SkipSession, PollEnd, Refuse,
       Send, Answer, Reject, LeaveSession, platform
  <2>4. QED
    BY <2>1, <2>3 DEF Next, WriteMessageOut, HostCrash, HostStart, vars, platform
<1>2. Hidden => [Hidden]_shown
  OBVIOUS
<1>3. QED
  BY <1>1, <1>2, AlwaysIInv, PTL DEF Spec, SettledStaysHidden

\* A session's messages are handed over in the order they were written, except
\* past one that was already refused or rejected.
THEOREM DeliversInOrder == Spec => InOrder
<1> DEFINE Ordered ==
      \A p \in Polls, m, n \in Msgs :
        /\ poll[p].stage = "drain" /\ poll'[p].stage = "sending"
        /\ Head(p, m) /\ n < m /\ owner[n] = owner[m]
        => fate[n] # "none" \/ attempts[n] > 0
<1>1. IInv => Ordered
  <2> SUFFICES ASSUME IInv, NEW p \in Polls, NEW m \in Msgs, NEW n \in Msgs,
                      Head(p, m), n < m, owner[n] = owner[m]
               PROVE  fate[n] # "none" \/ attempts[n] > 0
    OBVIOUS
  <2>1. m \in poll[p].queue /\ \A l \in poll[p].queue : m <= l
    BY DEF Head
  <2>2. owner[n] = poll[p].at
    BY <2>1 DEF IInv, Guarded
  <2>3. n \notin poll[p].queue
    BY <2>1 DEF Msgs
  <2>4. QED
    BY <2>1, <2>2, <2>3 DEF IInv, OrderOK
<1>2. Ordered => [Ordered]_poll
  OBVIOUS
<1>3. QED
  BY <1>1, <1>2, AlwaysIInv, PTL DEF InOrder

\* The two timer chains over the sessions' databases implement the outbox: each
\* message is due until it is delivered, seen unless nothing bridges its
\* channel, or failed after MaxAttempts failures in one life of the host; it is
\* shown again only while an answer was lost or the host died.
THEOREM OutboxImplemented == Spec => ImplementsOutbox
<1>1. Init => Outbox!OutboxInit
  BY Mapped DEF Init, Outbox!OutboxInit, Stage, Doubts
<1>2. IInv /\ IInv' /\ [Next]_vars
        => [Outbox!OutboxNext]_<<Stage, kind, shown, Doubts, attempts>>
  BY StepMoves
<1>3. QED
  BY <1>1, <1>2, AlwaysIInv, PTL DEF Spec, ImplementsOutbox, Outbox!OutboxSpec

\* What the outbox's steps keep of the messages' routes.
RouteKept ==
  \A m \in Msgs : shown[m] = 0 \/ (owner[m] # None /\ kind[m] = "sent" /\ shown[m] > 0)

LEMMA StepRoute ==
  ASSUME IInv, IInv', RouteKept, RouteDecides, Outbox!OutboxNext
  PROVE  RouteKept' /\ RouteDecides'
<1>t. \A m \in Msgs : /\ shown[m] \in Nat /\ fate[m] \in {"none", "delivered", "failed"}
                      /\ fate'[m] \in {"none", "delivered", "failed"}
                      /\ owner[m] = None => fate[m] = "none"
                      /\ owner'[m] = None => fate'[m] = "none"
  BY DEF IInv, TypeOK, Rowless
<1> SUFFICES ASSUME NEW m \in Msgs
             PROVE  /\ shown'[m] = 0 \/ (owner'[m] # None /\ kind'[m] = "sent" /\ shown'[m] > 0)
                    /\ kind'[m] # "sent" => shown'[m] = 0
                    /\ fate'[m] = "delivered" => kind'[m] = "unbridged" \/ shown'[m] > 0
                    /\ fate'[m] = "failed" => kind'[m] # "unbridged"
  BY DEF RouteKept, RouteDecides
<1>k. /\ shown[m] = 0 \/ (owner[m] # None /\ kind[m] = "sent" /\ shown[m] > 0)
      /\ kind[m] # "sent" => shown[m] = 0
      /\ fate[m] = "delivered" => kind[m] = "unbridged" \/ shown[m] > 0
      /\ fate[m] = "failed" => kind[m] # "unbridged"
  BY DEF RouteKept, RouteDecides
<1> USE DEF Outbox!SameMessage, Outbox!Unseen, Outbox!Undoubted
<1>1. CASE Outbox!Untouched(m) \/ Outbox!Restarted(m)
  BY <1>1, <1>k, <1>t, Mapped DEF Outbox!Untouched, Outbox!Restarted
<1>2. CASE Outbox!Written(m)
  BY <1>2, <1>k, <1>t, Mapped DEF Outbox!Written
<1>3. CASE Outbox!Shown(m)
  BY <1>3, <1>k, <1>t, Mapped DEF Outbox!Shown
<1>4. CASE Outbox!Delivered(m)
  BY <1>4, <1>k, <1>t, Mapped DEF Outbox!Delivered
<1>5. CASE Outbox!Failed(m)
  BY <1>5, <1>k, <1>t, Mapped DEF Outbox!Failed
<1>6. QED
  BY <1>1, <1>2, <1>3, <1>4, <1>5 DEF Outbox!OutboxNext, Outbox!Move

\* A message for an unknown or unauthorised destination never reaches a user,
\* and only one without a bridge counts as delivered although nobody saw it.
THEOREM RoutesDecide == Spec => []RouteDecides
<1>1. Init => RouteKept /\ RouteDecides
  BY DEF Init, RouteKept, RouteDecides
<1>2. IInv /\ IInv' /\ RouteKept /\ RouteDecides /\ [Next]_vars
        => RouteKept' /\ RouteDecides'
  BY StepMoves, StepRoute
<1>3. QED
  BY <1>1, <1>2, AlwaysIInv, PTL DEF Spec
=============================================================================
