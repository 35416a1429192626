------------------------------ MODULE Gatekeeper ------------------------------
(***************************************************************************)
(* What admission promises, with no wirings, calls, cards, rows or crashes:  *)
(* an agent's members come from the approver's hand alone, one sender and    *)
(* one agent at a time; only what a member says becomes a turn; and what the *)
(* gate has turned away is not kept either, not as context, while its sender *)
(* is not a member.  Whatever is stored stays as it is.                      *)
(***************************************************************************)
CONSTANTS Messages, Senders, Known, Agents

VARIABLES
  sender,   \* the sender of each message
  member,   \* the members of each agent
  allowed,  \* the approver's hand: messages and agents of the allowed cards
  refused,  \* messages and agents of what the gate turned away unstored
  stored    \* what each agent has of each message: no, context or turn

GateInit ==
  /\ sender \in [Messages -> Senders]
  /\ member \in [Agents -> {{}, Known}]
  /\ allowed = {} /\ refused = {}
  /\ stored = [a \in Agents |-> [m \in Messages |-> "no"]]

Admit(a, m) ==
  /\ allowed' = allowed \cup {<<m, a>>}
  /\ member' = [member EXCEPT ![a] = @ \cup {sender[m]}]
  /\ UNCHANGED <<sender, refused, stored>>

TakeTurn(a, m) ==
  /\ stored[a][m] = "no"
  /\ sender[m] \in member[a]
  /\ stored' = [stored EXCEPT ![a][m] = "turn"]
  /\ UNCHANGED <<sender, member, allowed, refused>>

KeepContext(a, m) ==
  /\ stored[a][m] = "no"
  /\ <<m, a>> \in refused => sender[m] \in member[a]
  /\ stored' = [stored EXCEPT ![a][m] = "context"]
  /\ UNCHANGED <<sender, member, allowed, refused>>

TurnAway(a, m) ==
  /\ stored[a][m] = "no"
  /\ sender[m] \notin member[a]
  /\ refused' = refused \cup {<<m, a>>}
  /\ UNCHANGED <<sender, member, allowed, stored>>

GateNext ==
  \E a \in Agents, m \in Messages :
    Admit(a, m) \/ TakeTurn(a, m) \/ KeepContext(a, m) \/ TurnAway(a, m)

GateSpec == GateInit /\ [][GateNext]_<<sender, member, allowed, refused, stored>>
=============================================================================
