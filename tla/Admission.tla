------------------------------ MODULE Admission ------------------------------
(***************************************************************************)
(* How a chat and its senders are admitted.  The router fans a message out   *)
(* to the agents wired to its chat, one awaited delivery after the other.    *)
(* A chat that nobody is wired to, or a sender an agent does not know, ends  *)
(* in a card to an approver: the message is dropped, kept in a row of a      *)
(* pending table, and routed once more when the card is allowed.  Cards are  *)
(* prepared by calls that await the platform, so that anything may happen    *)
(* between the check for a pending row and its insert.                      *)
(*                                                                         *)
(* One group chat whose policy for unknown senders is request_approval, and *)
(* one thread of it.                                                        *)
(***************************************************************************)
EXTENDS Integers, FiniteSets

CONSTANTS
  Messages,   \* what is said in the chat
  Senders,
  Known,      \* senders that are members of every agent group at the start
  Agents,     \* agent groups, in the order in which a fan-out visits them
  Calls,      \* calls of routeInbound that may be in flight at the same time
  MaxCrash    \* crashes of the host that may happen

ASSUME ConstantsOK ==
  /\ Messages \subseteq Nat \ {0}
  /\ Known \subseteq Senders
  /\ Agents \subseteq Nat
  /\ MaxCrash \in Nat

VARIABLES
  from,       \* the sender of each message
  mentions,   \* the messages that mention the bot
  made,       \* agent groups that exist
  wired,      \* messaging_group_agents: an agent's engage_mode, or "no"
  keeps,      \* wired agents whose ignored_message_policy is accumulate
  member,     \* agent_group_members
  denied,     \* messaging_groups.denied_at is set
  arrived,    \* messages that have reached the router
  call,       \* calls of routeInbound
  stored,     \* messages_in of the agents' sessions
  regs,       \* calls of requestChannelApproval that await the platform
  regRow,     \* pending_channel_approvals: the message of its row
  regShown,   \* the row's card is in front of the approver
  asks,       \* calls of requestSenderApproval that await the platform
  askRow,     \* pending_sender_approvals: message and agent of each row
  askShown,   \* senders about whom a card is in front of the approver
  naming,     \* awaitingNameInput: the approver's next message is a name
  promised,   \* messages whose card was allowed, and for which agent
  refused,    \* messages an agent's gate refused before it stored them
  crashes

chat == <<from, mentions>>
wirings == <<made, wired, keeps, member, denied>>
registration == <<regs, regRow, regShown, naming>>
asking == <<asks, askRow, askShown>>
history == <<promised, refused>>
vars == <<from, mentions, made, wired, keeps, member, denied, arrived, call, stored,
          regs, regRow, regShown, asks, askRow, askShown, naming, promised, refused, crashes>>

NoMessage == 0
Idle == [stage |-> "idle", msg |-> NoMessage, todo |-> {}]
Wired == {a \in Agents : wired[a] # "no"}

\* Wirings made by hand are of any mode and policy.
Init ==
  /\ from \in [Messages -> Senders]
  /\ mentions \in SUBSET Messages
  /\ made \in SUBSET Agents
  /\ wired \in [Agents -> {"no", "pattern", "mention", "sticky"}]
  /\ Wired \subseteq made
  /\ keeps \in SUBSET Wired
  /\ member = [a \in Agents |-> IF a \in made THEN Known ELSE {}]
  /\ denied = FALSE
  /\ arrived = {}
  /\ call = [c \in Calls |-> Idle]
  /\ stored = [a \in Agents |-> [m \in Messages |-> "no"]]
  /\ regs = {} /\ regRow = {} /\ regShown = FALSE
  /\ asks = {} /\ askRow = {} /\ askShown = {}
  /\ naming = FALSE
  /\ promised = {} /\ refused = {}
  /\ crashes = 0
-----------------------------------------------------------------------------
(* routeInbound *)

Begin(c, m) ==
  /\ call[c] = Idle
  /\ call' = [call EXCEPT ![c] = [stage |-> "enter", msg |-> m, todo |-> {}]]

Return(c) == call' = [call EXCEPT ![c] = Idle]

Arrive(c, m) ==
  /\ m \notin arrived
  /\ arrived' = arrived \cup {m}
  /\ Begin(c, m)
  /\ UNCHANGED <<chat, wirings, stored, registration, asking, history, crashes>>

\* Mutant: the router does not look at denied_at.
EnterDenied(c) ==
  /\ call[c].stage = "enter"
  /\ Wired = {}
  /\ regs' = IF call[c].msg \in mentions /\ regRow = {}
               THEN regs \cup {call[c].msg} ELSE regs
  /\ Return(c)
  /\ UNCHANGED <<chat, wirings, arrived, stored, regRow, regShown, naming, asking, history,
                 crashes>>

\* Nobody is wired: a mention asks for the chat's registration, unless it was
\* denied or a row is pending.
EnterUnwired(c) ==
  /\ call[c].stage = "enter"
  /\ Wired = {}
  /\ regs' = IF call[c].msg \in mentions /\ ~denied /\ regRow = {}
               THEN regs \cup {call[c].msg} ELSE regs
  /\ Return(c)
  /\ UNCHANGED <<chat, wirings, arrived, stored, regRow, regShown, naming, asking, history,
                 crashes>>

\* The wired agents are read once.
EnterWired(c) ==
  /\ call[c].stage = "enter"
  /\ Wired # {}
  /\ call' = [call EXCEPT ![c] = [stage |-> "visit", msg |-> @.msg, todo |-> Wired]]
  /\ UNCHANGED <<chat, wirings, arrived, stored, registration, asking, history, crashes>>

HasSession(a) == \E m \in Messages : stored[a][m] # "no"

\* evaluateEngage, for patterns that match everything
Engages(a, m) ==
  \/ wired[a] = "pattern"
  \/ wired[a] \in {"mention", "sticky"} /\ m \in mentions
  \/ wired[a] = "sticky" /\ HasSession(a)

Allowed(a, m) == from[m] \in member[a]

Visited(c, a) == call' = [call EXCEPT ![c].todo = @ \ {a}]

\* Mutant: what an agent does not take is kept as context, whatever the reason.
StoreEverything(c, a, m) ==
  /\ Engages(a, m) => Allowed(a, m) \/ a \in keeps
  /\ ~Engages(a, m) => a \in keeps
  /\ IF stored[a][m] = "no"
       THEN /\ stored' = [stored EXCEPT ![a][m] =
                 IF Engages(a, m) /\ Allowed(a, m) THEN "turn" ELSE "context"]
            /\ Visited(c, a)
       ELSE UNCHANGED stored /\ Return(c)
  /\ UNCHANGED <<asks, refused>>

\* deliverToAgent: as a turn, or as context when the agent does not engage.  A
\* row of that id may exist: the insert throws, out of the fan-out.
Store(c, a, m) ==
  /\ IF Engages(a, m) THEN Allowed(a, m) ELSE a \in keeps
  /\ IF stored[a][m] = "no"
       THEN /\ stored' = [stored EXCEPT ![a][m] = IF Engages(a, m) THEN "turn" ELSE "context"]
            /\ Visited(c, a)
       ELSE UNCHANGED stored /\ Return(c)
  /\ UNCHANGED <<asks, refused>>

\* The gate refuses and asks about the sender, unless a row is pending.
Refuse(c, a, m) ==
  /\ Engages(a, m) /\ ~Allowed(a, m)
  /\ asks' = IF \E r \in askRow : from[r[1]] = from[m] THEN asks ELSE asks \cup {<<m, a>>}
  /\ refused' = IF stored[a][m] = "no" THEN refused \cup {<<m, a>>} ELSE refused
  /\ Visited(c, a)
  /\ UNCHANGED stored

Drop(c, a, m) ==
  /\ ~Engages(a, m) /\ a \notin keeps
  /\ Visited(c, a)
  /\ UNCHANGED <<stored, asks, refused>>

\* One agent of the fan-out; the wake of its container is awaited before the next.
Visit(c) ==
  /\ call[c].stage = "visit"
  /\ \E a \in call[c].todo :
       /\ \A b \in call[c].todo : a <= b
       /\ \/ Store(c, a, call[c].msg)
          \/ Refuse(c, a, call[c].msg)
          \/ Drop(c, a, call[c].msg)
  /\ UNCHANGED <<chat, wirings, arrived, registration, askRow, askShown, promised, crashes>>

Leave(c) ==
  /\ call[c].stage = "visit"
  /\ call[c].todo = {}
  /\ Return(c)
  /\ UNCHANGED <<chat, wirings, arrived, stored, registration, asking, history, crashes>>
-----------------------------------------------------------------------------
(* Cards *)

\* Mutant: the rows of the pending table have no unique key.
InsertAnyway(m) ==
  /\ m \in regs
  /\ regs' = regs \ {m}
  /\ regRow' = regRow \cup {m}
  /\ UNCHANGED <<regShown, chat, wirings, arrived, call, stored, naming, asking, history, crashes>>

\* requestChannelApproval, after its awaits: no approver can be reached, a row
\* exists by now and the insert throws, or the row is inserted.
AskForChat(m) ==
  /\ m \in regs
  /\ regs' = regs \ {m}
  /\ \/ UNCHANGED regRow
     \/ regRow = {} /\ regRow' = {m}
  /\ UNCHANGED <<chat, wirings, arrived, call, stored, regShown, naming, asking, history,
                 crashes>>

\* requestSenderApproval, likewise; its rows are unique by sender.
AskAboutSender(m, a) ==
  /\ <<m, a>> \in asks
  /\ asks' = asks \ {<<m, a>>}
  /\ \/ UNCHANGED askRow
     \/ /\ \A r \in askRow : from[r[1]] # from[m]
        /\ askRow' = askRow \cup {<<m, a>>}
  /\ UNCHANGED <<chat, wirings, arrived, call, stored, registration, askShown, history,
                 crashes>>

\* A failed delivery is logged and the row stays: its card is never shown, as
\* none is before a delivery adapter is set.
ShowChatCard ==
  /\ regRow # {} /\ ~regShown
  /\ regShown' = TRUE
  /\ UNCHANGED <<chat, wirings, arrived, call, stored, regs, regRow, naming, asking, history,
                 crashes>>

ShowSenderCard(m, a) ==
  /\ <<m, a>> \in askRow /\ from[m] \notin askShown
  /\ askShown' = askShown \cup {from[m]}
  /\ UNCHANGED <<chat, wirings, arrived, call, stored, registration, asks, askRow, history,
                 crashes>>
-----------------------------------------------------------------------------
(* Answers of an approver *)

\* addMember, because a card about the message m and the agent a was allowed.
Grant(m, a) ==
  /\ member' = [member EXCEPT ![a] = @ \cup {from[m]}]
  /\ promised' = promised \cup {<<m, a>>}

\* Wire the chat to `a`, make the sender a member, and route the message again.
\* The mode depends on whether the stored message has a thread.
Wire(c, a, m) ==
  /\ \E mode \in {"sticky", "pattern"} : wired' = [wired EXCEPT ![a] = mode]
  /\ keeps' = keeps \cup {a}
  /\ Grant(m, a)
  /\ regRow' = {} /\ regShown' = FALSE
  /\ Begin(c, m)
  /\ UNCHANGED <<chat, denied, arrived, stored, regs, asking, refused, crashes>>

\* connect:<id>.  For an agent wired by now the insert throws and nothing changes.
Connect(c, a) ==
  /\ regShown
  /\ a \in made /\ wired[a] = "no"
  /\ UNCHANGED <<made, naming>>
  /\ \E m \in regRow : Wire(c, a, m)

\* "Connect new agent": the approver is asked for a name, unless that fails.
AskForName ==
  /\ regShown
  /\ naming' \in BOOLEAN
  /\ UNCHANGED <<chat, wirings, arrived, call, stored, regs, regRow, regShown, asking, history,
                 crashes>>

\* The approver's next message to the bot, taken by the interceptor.
NameAgent(c, a) ==
  /\ naming
  /\ naming' = FALSE
  /\ a \notin made
  /\ made' = made \cup {a}
  /\ \E m \in regRow : Wire(c, a, m)

\* It is empty, or its row is gone: it is taken nevertheless.
SwallowName ==
  /\ naming
  /\ naming' = FALSE
  /\ UNCHANGED <<chat, wirings, arrived, call, stored, regs, regRow, regShown, asking, history,
                 crashes>>

RejectChat ==
  /\ regShown
  /\ denied' = TRUE
  /\ regRow' = {} /\ regShown' = FALSE
  /\ UNCHANGED <<chat, made, wired, keeps, member, arrived, call, stored, regs, naming, asking,
                 history, crashes>>

\* Mutant: the sender becomes a member, but the message is not routed again.
AllowSilently(c, m, a) ==
  /\ <<m, a>> \in askRow /\ from[m] \in askShown
  /\ Grant(m, a)
  /\ askRow' = askRow \ {<<m, a>>}
  /\ askShown' = askShown \ {from[m]}
  /\ call[c] = Idle
  /\ UNCHANGED <<chat, made, wired, keeps, denied, arrived, call, stored, registration, asks,
                 refused, crashes>>

\* The row is deleted before the message is routed again.
AllowSender(c, m, a) ==
  /\ <<m, a>> \in askRow /\ from[m] \in askShown
  /\ Grant(m, a)
  /\ askRow' = askRow \ {<<m, a>>}
  /\ askShown' = askShown \ {from[m]}
  /\ Begin(c, m)
  /\ UNCHANGED <<chat, made, wired, keeps, denied, arrived, stored, registration, asks, refused,
                 crashes>>

\* Denials are not remembered.
DenySender(m, a) ==
  /\ <<m, a>> \in askRow /\ from[m] \in askShown
  /\ askRow' = askRow \ {<<m, a>>}
  /\ askShown' = askShown \ {from[m]}
  /\ UNCHANGED <<chat, wirings, arrived, call, stored, registration, asks, history, crashes>>

-----------------------------------------------------------------------------
(* Crashes *)

\* The host dies and restarts: its calls are gone and the rows stay.  A card
\* that was on its way may still be shown.
HostDies ==
  /\ crashes < MaxCrash
  /\ crashes' = crashes + 1
  /\ call' = [c \in Calls |-> Idle]
  /\ regs' = {} /\ asks' = {} /\ naming' = FALSE
  /\ UNCHANGED <<chat, denied, arrived, stored, regRow, regShown, askRow, askShown, refused>>

HostCrash ==
  /\ HostDies
  /\ UNCHANGED <<made, wired, keeps, member, promised>>

\* It dies after addMember, and the row that was answered stays.
DieAllowing(m, a) ==
  /\ <<m, a>> \in askRow /\ from[m] \in askShown
  /\ Grant(m, a)
  /\ HostDies
  /\ UNCHANGED <<made, wired, keeps>>

\* It dies after the new agent group, the wiring or the member was written.
DieWiring(m, a) ==
  /\ m \in regRow
  /\ \/ regShown /\ a \in made /\ wired[a] = "no" /\ UNCHANGED made
     \/ naming /\ a \notin made /\ made' = made \cup {a}
  /\ \/ UNCHANGED <<wired, keeps, member, promised>>
     \/ /\ \E mode \in {"sticky", "pattern"} : wired' = [wired EXCEPT ![a] = mode]
        /\ keeps' = keeps \cup {a}
        /\ Grant(m, a) \/ UNCHANGED <<member, promised>>
  /\ HostDies

Next ==
  \/ \E c \in Calls, m \in Messages : Arrive(c, m)
  \/ \E c \in Calls : EnterUnwired(c)
  \/ \E c \in Calls : EnterWired(c)
  \/ \E c \in Calls : Visit(c)
  \/ \E c \in Calls : Leave(c)
  \/ \E m \in Messages : AskForChat(m)
  \/ \E m \in Messages, a \in Agents : AskAboutSender(m, a)
  \/ ShowChatCard
  \/ \E m \in Messages, a \in Agents : ShowSenderCard(m, a)
  \/ \E c \in Calls, a \in Agents : Connect(c, a)
  \/ AskForName
  \/ \E c \in Calls, a \in Agents : NameAgent(c, a)
  \/ SwallowName
  \/ RejectChat
  \/ \E c \in Calls, m \in Messages, a \in Agents : AllowSender(c, m, a)
  \/ \E m \in Messages, a \in Agents : DenySender(m, a)
  \/ HostCrash
  \/ \E m \in Messages, a \in Agents : DieAllowing(m, a)
  \/ \E m \in Messages, a \in Agents : DieWiring(m, a)

Spec == Init /\ [][Next]_vars
-----------------------------------------------------------------------------
(* Properties *)

\* Every variable has its type; rows and cards belong together.
TypeOK ==
  /\ from \in [Messages -> Senders]
  /\ mentions \subseteq Messages
  /\ wired \in [Agents -> {"no", "pattern", "mention", "sticky"}]
  /\ made \subseteq Agents
  /\ Wired \subseteq made /\ keeps \subseteq Wired
  /\ member \in [Agents -> SUBSET Senders]
  /\ denied \in BOOLEAN
  /\ arrived \subseteq Messages
  /\ call \in [Calls -> [stage : {"idle", "enter", "visit"}, msg : Messages \cup {NoMessage},
                         todo : SUBSET Agents]]
  /\ \A c \in Calls : call[c] # Idle => call[c].msg \in arrived /\ call[c].todo \subseteq Wired
  /\ stored \in [Agents -> [Messages -> {"no", "context", "turn"}]]
  /\ regs \subseteq arrived
  /\ regRow \subseteq arrived
  /\ \A m, n \in regRow : m = n
  /\ regShown \in BOOLEAN
  /\ regShown => regRow # {}
  /\ asks \subseteq arrived \X Agents
  /\ askRow \subseteq arrived \X Agents
  /\ \A q, r \in askRow : from[q[1]] = from[r[1]] => q = r
  /\ askShown \subseteq {from[r[1]] : r \in askRow}
  /\ naming \in BOOLEAN
  /\ promised \subseteq Messages \X Agents
  /\ refused \subseteq Messages \X Agents
  /\ crashes \in 0..MaxCrash

\* An agent takes a turn on a stranger's message only if an approver allowed a
\* card about that very sender and that very agent.
TurnsWereAllowed ==
  \A a \in Agents, m \in Messages :
    stored[a][m] = "turn" /\ from[m] \notin Known =>
      \E p \in promised : p[2] = a /\ from[p[1]] = from[m]

\* What a gate refused leaves no trace in the agent's session until its sender
\* is a member, however often the message is routed again.
RefusedLeavesNoTrace ==
  \A a \in Agents, m \in Messages :
    <<m, a>> \in refused /\ from[m] \notin member[a] => stored[a][m] = "no"

\* All the races of cards, replays and fan-outs leave is the gate's promise: an
\* approver's answer admits one sender to one agent, only members' messages
\* become turns, and what was turned away is not stored before its sender is in.
Gate == INSTANCE Gatekeeper WITH sender <- from, allowed <- promised
ImplementsGate == Gate!GateSpec

\* No card about the chat is on its way or can be answered.
Quiet == regs = {} /\ regRow = {}

\* Once a chat is denied and nothing that was asked before is left, nobody is
\* asked about it again, whatever is said in it.
DeniedStaysQuiet == [][denied /\ Quiet => Quiet']_vars

\* An agent visited before a has the message already.
Ahead(a, m) == \E b \in Agents : b < a /\ stored[b][m] # "no"

\* A message whose card was allowed and that is no longer being routed has
\* reached its agent, unless the host died or an agent that comes first in the
\* fan-out had it already.
ReplayArrives ==
  \A p \in promised :
    (\A c \in Calls : call[c].msg # p[1]) =>
      stored[p[2]][p[1]] # "no" \/ Ahead(p[2], p[1]) \/ crashes > 0
\* What an agent in mode sticky stores, a mention came first, unless its wiring
\* accumulates what it ignores.
MentionComesFirst ==
  \A a \in Agents \ keeps, m \in Messages :
    wired[a] = "sticky" /\ stored[a][m] # "no" =>
      \E n \in mentions : stored[a][n] = "turn"

-----------------------------------------------------------------------------
(* What the repository says of the program and the code does not do *)

\* modules/permissions/index.ts: "The second routing attempt clears the gate
\* because the user is now a member."  The insert for an agent ahead of it in
\* the fan-out throws: its row exists from the first attempt.
ApprovedIsHeard ==
  \A p \in promised :
    (\A c \in Calls : call[c].msg # p[1]) /\ crashes = 0 => stored[p[2]][p[1]] # "no"

\* modules/permissions/channel-approval.ts, on what a card wires: "mention-sticky
\* for groups"; router.ts on that mode: "once a thread has engaged us once,
\* follow-ups arrive with no mention and should still fire".
EngagedAfterMention ==
  \A a \in Agents, m \in Messages :
    wired[a] = "sticky" /\ stored[a][m] = "turn" =>
      \E n \in mentions : stored[a][n] = "turn"
=============================================================================
