--------------------------- MODULE AdmissionProofs ---------------------------
(* Proofs of the safety properties of Admission, for every value of its       *)
(* constants.                                                                 *)
EXTENDS Admission, TLAPS

\* Who became a member of an agent was allowed by a card about that agent.
MembersWereAllowed ==
  \A a \in Agents : \A s \in member[a] \ Known :
    \E p \in promised : p[2] = a /\ from[p[1]] = s

\* Cards about a sender are only asked for messages the agent engages on.
AskedWereEngaged ==
  \A r \in asks \cup askRow \cup refused : Engages(r[2], r[1])

\* An agent whose card was allowed takes the card's message when it is visited.
Accepts(a, m) ==
  /\ wired[a] # "no"
  /\ from[m] \in member[a]
  /\ Engages(a, m) \/ a \in keeps

PromisesAccept == \A p \in promised : Accepts(p[2], p[1])

\* A call of the router has the message m and has yet to visit a.
Heading(c, m, a) ==
  /\ call[c].msg = m
  /\ \/ call[c].stage = "enter"
     \/ call[c].stage = "visit" /\ a \in call[c].todo

Reached(a, m) == stored[a][m] # "no" \/ Ahead(a, m) \/ crashes > 0

PromisesAreKept ==
  \A p \in promised : Reached(p[2], p[1]) \/ \E c \in Calls : Heading(c, p[1], p[2])

\* Nothing is stored for an agent before the chat is wired to it.
StoredIsWired == \A a \in Agents, m \in Messages : stored[a][m] # "no" => wired[a] # "no"

\* The inductive invariant.
IInv ==
  /\ TypeOK
  /\ TurnsWereAllowed
  /\ RefusedLeavesNoTrace
  /\ MembersWereAllowed
  /\ AskedWereEngaged
  /\ PromisesAccept
  /\ PromisesAreKept
  /\ StoredIsWired
  /\ MentionComesFirst

LEMMA InitIInv == Init => IInv
<1> SUFFICES ASSUME Init PROVE IInv
  OBVIOUS
<1>1. TypeOK
  <2>1. /\ call \in [Calls -> [stage : {"idle", "enter", "visit"},
                               msg : Messages \cup {NoMessage}, todo : SUBSET Agents]]
        /\ \A c \in Calls : call[c] = Idle
    BY DEF Init, Idle
  <2>2. /\ member \in [Agents -> SUBSET Senders] /\ crashes \in 0..MaxCrash
        /\ made \subseteq Agents
    BY ConstantsOK DEF Init
  <2>3. askShown \subseteq {from[r[1]] : r \in askRow}
    BY DEF Init
  <2>4. QED
    BY <2>1, <2>2, <2>3 DEF Init, TypeOK
<1>2. TurnsWereAllowed /\ RefusedLeavesNoTrace
  BY DEF Init, TurnsWereAllowed, RefusedLeavesNoTrace
<1>3. MembersWereAllowed /\ AskedWereEngaged /\ PromisesAccept /\ PromisesAreKept
  BY DEF Init, MembersWereAllowed, AskedWereEngaged, PromisesAccept, PromisesAreKept
<1>4. StoredIsWired /\ MentionComesFirst
  BY DEF Init, StoredIsWired, MentionComesFirst
<1>5. QED
  BY <1>1, <1>2, <1>3, <1>4 DEF IInv
-----------------------------------------------------------------------------
(* Types *)

LEMMA BeginTypes ==
  ASSUME TypeOK, NEW c \in Calls, NEW m \in arrived', Begin(c, m),
         arrived \subseteq arrived', arrived' \subseteq Messages,
         Wired \subseteq Wired'
  PROVE  /\ call' \in [Calls -> [stage : {"idle", "enter", "visit"},
                                 msg : Messages \cup {NoMessage}, todo : SUBSET Agents]]
         /\ \A d \in Calls : call'[d] # Idle =>
              call'[d].msg \in arrived' /\ call'[d].todo \subseteq Wired'
BY DEF TypeOK, Begin, Idle

LEMMA ReturnTypes ==
  ASSUME TypeOK, NEW c \in Calls, Return(c), arrived' = arrived, wired' = wired
  PROVE  /\ call' \in [Calls -> [stage : {"idle", "enter", "visit"},
                                 msg : Messages \cup {NoMessage}, todo : SUBSET Agents]]
         /\ \A d \in Calls : call'[d] # Idle =>
              call'[d].msg \in arrived' /\ call'[d].todo \subseteq Wired'
BY DEF TypeOK, Return, Idle, Wired

LEMMA VisitedTypes ==
  ASSUME TypeOK, NEW c \in Calls, NEW a, Visited(c, a), call[c] # Idle,
         arrived' = arrived, wired' = wired
  PROVE  /\ call' \in [Calls -> [stage : {"idle", "enter", "visit"},
                                 msg : Messages \cup {NoMessage}, todo : SUBSET Agents]]
         /\ \A d \in Calls : call'[d] # Idle =>
              call'[d].msg \in arrived' /\ call'[d].todo \subseteq Wired'
BY DEF TypeOK, Visited, Wired

LEMMA StoredTypes ==
  ASSUME NEW f \in [Agents -> [Messages -> {"no", "context", "turn"}]],
         NEW a \in Agents, NEW m \in Messages, NEW kind \in {"context", "turn"}
  PROVE  [f EXCEPT ![a][m] = kind] \in [Agents -> [Messages -> {"no", "context", "turn"}]]
<1>1. [f[a] EXCEPT ![m] = kind] \in [Messages -> {"no", "context", "turn"}]
  OBVIOUS
<1>2. QED
  BY <1>1

LEMMA WireTypes ==
  ASSUME TypeOK, NEW c \in Calls, NEW a \in Agents, NEW m \in regRow, Wire(c, a, m),
         wired[a] = "no", made' = made \cup {a} \/ (made' = made /\ a \in made),
         naming' \in BOOLEAN
  PROVE  TypeOK'
<1>1. PICK mode \in {"sticky", "pattern"} : wired' = [wired EXCEPT ![a] = mode]
  BY DEF Wire
<1>2. Wired' = Wired \cup {a}
  BY <1>1 DEF TypeOK, Wired
<1>3. arrived' = arrived /\ m \in arrived' /\ m \in Messages
  BY DEF Wire, TypeOK
<1>4. /\ call' \in [Calls -> [stage : {"idle", "enter", "visit"},
                              msg : Messages \cup {NoMessage}, todo : SUBSET Agents]]
      /\ \A d \in Calls : call'[d] # Idle =>
           call'[d].msg \in arrived' /\ call'[d].todo \subseteq Wired'
  <2>1. Begin(c, m)
    BY DEF Wire
  <2>2. QED
    BY <1>2, <1>3, <2>1, BeginTypes DEF TypeOK
<1>5. /\ wired' \in [Agents -> {"no", "pattern", "mention", "sticky"}]
      /\ made' \subseteq Agents /\ Wired' \subseteq made' /\ keeps' \subseteq Wired'
  BY <1>1, <1>2 DEF TypeOK, Wire
<1>6. /\ member' \in [Agents -> SUBSET Senders]
      /\ promised' \subseteq Messages \X Agents
  BY <1>3 DEF TypeOK, Wire, Grant
<1>7. /\ regs' \subseteq arrived' /\ regRow' = {} /\ regShown' = FALSE
      /\ denied' \in BOOLEAN /\ crashes' \in 0..MaxCrash
      /\ refused' \subseteq Messages \X Agents
      /\ stored' \in [Agents -> [Messages -> {"no", "context", "turn"}]]
  BY <1>3 DEF TypeOK, Wire
<1>8. UNCHANGED <<from, mentions, asks, askRow, askShown>>
  BY DEF Wire, chat, asking
<1>9. regShown' \in BOOLEAN /\ (regShown' => regRow' # {})
  BY <1>7
<1>10. QED
  BY <1>3, <1>4, <1>5, <1>6, <1>7, <1>8, <1>9 DEF TypeOK

LEMMA NextTypes == TypeOK /\ [Next]_vars => TypeOK'
<1> SUFFICES ASSUME TypeOK, [Next]_vars PROVE TypeOK'
  OBVIOUS
<1> USE DEF chat, wirings, registration, asking, history
<1>1. CASE UNCHANGED vars
  BY <1>1 DEF vars, TypeOK, Wired
<1>2. ASSUME NEW c \in Calls, NEW m \in Messages, Arrive(c, m) PROVE TypeOK'
  <2>1. /\ m \in arrived' /\ arrived \subseteq arrived' /\ arrived' \subseteq Messages
        /\ Begin(c, m) /\ Wired' = Wired
    BY <1>2 DEF Arrive, TypeOK, Wired
  <2>2. QED
    BY <1>2, <2>1, BeginTypes DEF Arrive, TypeOK
<1>3. ASSUME NEW c \in Calls, EnterUnwired(c) PROVE TypeOK'
  <2>1. Return(c) /\ Wired' = Wired
    BY <1>3 DEF EnterUnwired, Wired
  <2>2. call[c].msg \in arrived
    BY <1>3 DEF EnterUnwired, TypeOK, Idle
  <2>3. QED
    BY <1>3, <2>1, <2>2, ReturnTypes DEF EnterUnwired, TypeOK
<1>4. ASSUME NEW c \in Calls, EnterWired(c) PROVE TypeOK'
  <2>1. Wired' = Wired /\ Wired \subseteq Agents
    BY <1>4 DEF EnterWired, Wired
  <2>2. call[c] # Idle
    BY <1>4 DEF EnterWired, Idle
  <2>3. /\ call' \in [Calls -> [stage : {"idle", "enter", "visit"},
                                msg : Messages \cup {NoMessage}, todo : SUBSET Agents]]
        /\ \A d \in Calls : call'[d] # Idle =>
             call'[d].msg \in arrived' /\ call'[d].todo \subseteq Wired'
    <3>1. call' = [call EXCEPT ![c] = [stage |-> "visit", msg |-> call[c].msg,
                                          todo |-> Wired]]
      BY <1>4 DEF EnterWired
    <3>2. call[c].msg \in arrived /\ arrived' = arrived
      BY <1>4, <2>2 DEF EnterWired, TypeOK
    <3>3. QED
      BY <2>1, <2>2, <3>1, <3>2 DEF TypeOK
  <2>4. QED
    BY <1>4, <2>1, <2>3 DEF EnterWired, TypeOK
<1>5. ASSUME NEW c \in Calls, Visit(c) PROVE TypeOK'
  <2>1. call[c] # Idle /\ call[c].msg \in arrived /\ call[c].msg \in Messages /\ arrived' = arrived
    BY <1>5 DEF Visit, Idle, TypeOK
  <2>2. PICK a \in call[c].todo :
          Store(c, a, call[c].msg) \/ Refuse(c, a, call[c].msg) \/ Drop(c, a, call[c].msg)
    BY <1>5 DEF Visit
  <2>3. a \in Agents
    BY <2>2 DEF TypeOK
  <2>4. Wired' = Wired
    BY <1>5 DEF Visit, Wired
  <2>5. /\ call' \in [Calls -> [stage : {"idle", "enter", "visit"},
                                msg : Messages \cup {NoMessage}, todo : SUBSET Agents]]
        /\ \A d \in Calls : call'[d] # Idle =>
             call'[d].msg \in arrived' /\ call'[d].todo \subseteq Wired'
    <3>1. Visited(c, a) \/ Return(c)
      BY <2>2 DEF Store, Refuse, Drop
    <3>2. arrived' = arrived /\ wired' = wired
      BY <1>5 DEF Visit
    <3>3. QED
      BY <2>1, <3>1, <3>2, VisitedTypes, ReturnTypes
  <2>6. /\ stored' \in [Agents -> [Messages -> {"no", "context", "turn"}]]
        /\ asks' \subseteq arrived' \X Agents
        /\ refused' \subseteq Messages \X Agents
    <3> DEFINE m == call[c].msg
    <3>1. <<m, a>> \in Messages \X Agents /\ <<m, a>> \in arrived' \X Agents
      BY <2>1, <2>3
    <3>2. CASE Store(c, a, m)
      <4>1. UNCHANGED <<asks, refused>>
        BY <3>2 DEF Store
      <4>2. stored' = stored \/ \E kind \in {"context", "turn"} :
                                  stored' = [stored EXCEPT ![a][m] = kind]
        BY <3>2 DEF Store
      <4>3. stored' \in [Agents -> [Messages -> {"no", "context", "turn"}]]
        <5>1. stored \in [Agents -> [Messages -> {"no", "context", "turn"}]] /\ m \in Messages
          BY <2>1 DEF TypeOK
        <5>2. ASSUME NEW kind \in {"context", "turn"},
                     stored' = [stored EXCEPT ![a][m] = kind]
              PROVE  stored' \in [Agents -> [Messages -> {"no", "context", "turn"}]]
          BY <5>1, <5>2, <2>3, StoredTypes
        <5>3. QED
          BY <4>2, <5>1, <5>2
      <4>4. QED
        BY <2>1, <4>1, <4>3 DEF TypeOK
    <3>3. CASE Refuse(c, a, m)
      BY <2>1, <3>1, <3>3 DEF Refuse, TypeOK
    <3>4. CASE Drop(c, a, m)
      BY <2>1, <3>4 DEF Drop, TypeOK
    <3>5. QED
      BY <2>2, <3>2, <3>3, <3>4
  <2>7. QED
    BY <1>5, <2>4, <2>5, <2>6 DEF Visit, TypeOK
<1>6. ASSUME NEW c \in Calls, Leave(c) PROVE TypeOK'
  <2>1. Return(c) /\ Wired' = Wired
    BY <1>6 DEF Leave, Wired
  <2>2. QED
    BY <1>6, <2>1, ReturnTypes DEF Leave, TypeOK
<1>7. ASSUME NEW m \in Messages, AskForChat(m) PROVE TypeOK'
  <2>1. Wired' = Wired
    BY <1>7 DEF AskForChat, Wired
  <2>2. QED
    BY <1>7, <2>1 DEF AskForChat, TypeOK
<1>8. ASSUME NEW m \in Messages, NEW a \in Agents, AskAboutSender(m, a) PROVE TypeOK'
  <2>1. Wired' = Wired /\ askRow \subseteq askRow'
    BY <1>8 DEF AskAboutSender, Wired
  <2>2. askRow' \subseteq arrived' \X Agents
    BY <1>8 DEF AskAboutSender, TypeOK
  <2>3. ASSUME NEW q \in askRow', NEW r \in askRow', from'[q[1]] = from'[r[1]] PROVE q = r
    BY <1>8, <2>3 DEF AskAboutSender, TypeOK
  <2>4. QED
    BY <1>8, <2>1, <2>2, <2>3 DEF AskAboutSender, TypeOK
<1>9. CASE ShowChatCard
  BY <1>9 DEF ShowChatCard, TypeOK, Wired
<1>10. ASSUME NEW m \in Messages, NEW a \in Agents, ShowSenderCard(m, a) PROVE TypeOK'
  <2>1. Wired' = Wired
    BY <1>10 DEF ShowSenderCard, Wired
  <2>2. from[m] \in {from[r[1]] : r \in askRow}
    BY <1>10 DEF ShowSenderCard
  <2>3. QED
    BY <1>10, <2>1, <2>2 DEF ShowSenderCard, TypeOK
<1>11. ASSUME NEW c \in Calls, NEW a \in Agents, Connect(c, a) PROVE TypeOK'
  <2>1. PICK m \in regRow : Wire(c, a, m)
    BY <1>11 DEF Connect
  <2>2. QED
    BY <1>11, <2>1, WireTypes DEF Connect, TypeOK
<1>12. CASE AskForName
  BY <1>12 DEF AskForName, TypeOK, Wired
<1>13. ASSUME NEW c \in Calls, NEW a \in Agents, NameAgent(c, a) PROVE TypeOK'
  <2>1. PICK m \in regRow : Wire(c, a, m)
    BY <1>13 DEF NameAgent
  <2>2. wired[a] = "no"
    BY <1>13 DEF NameAgent, TypeOK, Wired
  <2>3. QED
    BY <1>13, <2>1, <2>2, WireTypes DEF NameAgent
<1>14. CASE SwallowName
  <2>1. Wired' = Wired
    BY <1>14 DEF SwallowName, Wired
  <2>2. naming' \in BOOLEAN
    BY <1>14 DEF SwallowName
  <2>3. UNCHANGED <<from, mentions, made, wired, keeps, member, denied, arrived, call, stored,
                    regs, regRow, regShown, asks, askRow, askShown, promised, refused, crashes>>
    BY <1>14 DEF SwallowName
  <2>4. QED
    BY <2>1, <2>2, <2>3 DEF TypeOK
<1>15. CASE RejectChat
  <2>1. Wired' = Wired
    BY <1>15 DEF RejectChat, Wired
  <2>2. /\ denied' \in BOOLEAN /\ regShown' \in BOOLEAN
        /\ regShown' => regRow' # {}
    BY <1>15 DEF RejectChat
  <2>3. /\ regRow' = {}
        /\ UNCHANGED <<from, mentions, made, wired, keeps, member, arrived, call, stored, regs,
                       naming, asks, askRow, askShown, promised, refused, crashes>>
    BY <1>15 DEF RejectChat
  <2>4. QED
    BY <2>1, <2>2, <2>3 DEF TypeOK
<1>16. ASSUME NEW c \in Calls, NEW m \in Messages, NEW a \in Agents, AllowSender(c, m, a)
       PROVE  TypeOK'
  <2>1. Wired' = Wired /\ arrived' = arrived
    BY <1>16 DEF AllowSender, Wired
  <2>2. m \in arrived
    BY <1>16 DEF AllowSender, TypeOK
  <2>3. Begin(c, m)
    BY <1>16 DEF AllowSender
  <2>4. /\ call' \in [Calls -> [stage : {"idle", "enter", "visit"},
                                msg : Messages \cup {NoMessage}, todo : SUBSET Agents]]
        /\ \A d \in Calls : call'[d] # Idle =>
             call'[d].msg \in arrived' /\ call'[d].todo \subseteq Wired'
    BY <2>1, <2>2, <2>3, BeginTypes DEF TypeOK
  <2>5. askShown' \subseteq {from[r[1]] : r \in askRow'}
    <3>1. ASSUME NEW s \in askShown' PROVE \E r \in askRow' : from[r[1]] = s
      <4>1. s \in askShown /\ s # from[m]
        BY <1>16 DEF AllowSender
      <4>2. PICK r \in askRow : from[r[1]] = s
        BY <4>1 DEF TypeOK
      <4>3. QED
        BY <1>16, <4>1, <4>2 DEF AllowSender
    <3>2. QED
      BY <3>1
  <2>6. /\ member' \in [Agents -> SUBSET Senders]
        /\ askRow' \subseteq askRow
        /\ promised' \subseteq Messages \X Agents
    BY <1>16 DEF AllowSender, Grant, TypeOK
  <2>7. from' = from
    BY <1>16 DEF AllowSender
  <2>8. QED
    BY <1>16, <2>1, <2>4, <2>5, <2>6, <2>7 DEF AllowSender, TypeOK
<1>17. ASSUME NEW m \in Messages, NEW a \in Agents, DenySender(m, a) PROVE TypeOK'
  <2>1. Wired' = Wired
    BY <1>17 DEF DenySender, Wired
  <2>2. askShown' \subseteq {from[r[1]] : r \in askRow'}
    BY <1>17 DEF DenySender, TypeOK
  <2>3. QED
    BY <1>17, <2>1, <2>2 DEF DenySender, TypeOK
<1>18. ASSUME HostDies,
              /\ made' \subseteq Agents /\ Wired' \subseteq made' /\ keeps' \subseteq Wired'
              /\ wired' \in [Agents -> {"no", "pattern", "mention", "sticky"}]
              /\ member' \in [Agents -> SUBSET Senders]
              /\ promised' \subseteq Messages \X Agents
       PROVE  TypeOK'
  <2>1. crashes' \in 0..MaxCrash
    BY <1>18, ConstantsOK DEF HostDies, TypeOK
  <2>2. /\ call' \in [Calls -> [stage : {"idle", "enter", "visit"},
                                msg : Messages \cup {NoMessage}, todo : SUBSET Agents]]
        /\ \A d \in Calls : call'[d] = Idle
    BY <1>18 DEF HostDies, Idle
  <2>3. naming' \in BOOLEAN /\ regs' \subseteq arrived' /\ asks' \subseteq arrived' \X Agents
    BY <1>18 DEF HostDies
  <2>4. UNCHANGED <<from, mentions, denied, arrived, stored, regRow, regShown, askRow, askShown,
                    refused>>
    BY <1>18 DEF HostDies
  <2>5. QED
    BY <1>18, <2>1, <2>2, <2>3, <2>4 DEF TypeOK
<1>19. CASE HostCrash
  <2>1. Wired' = Wired
    BY <1>19 DEF HostCrash, Wired
  <2>2. QED
    BY <1>18, <1>19, <2>1 DEF HostCrash, TypeOK
<1>20. ASSUME NEW m \in Messages, NEW a \in Agents, DieAllowing(m, a) PROVE TypeOK'
  <2>1. Wired' = Wired
    BY <1>20 DEF DieAllowing, Wired
  <2>2. member' \in [Agents -> SUBSET Senders] /\ promised' \subseteq Messages \X Agents
    BY <1>20 DEF DieAllowing, Grant, TypeOK
  <2>3. QED
    BY <1>18, <1>20, <2>1, <2>2 DEF DieAllowing, TypeOK
<1>21. ASSUME NEW m \in Messages, NEW a \in Agents, DieWiring(m, a) PROVE TypeOK'
  <2>1. a \in made' /\ made \subseteq made' /\ made' \subseteq Agents
    BY <1>21 DEF DieWiring, TypeOK
  <2>2. member' \in [Agents -> SUBSET Senders] /\ promised' \subseteq Messages \X Agents
    <3>1. UNCHANGED <<member, promised>> \/ Grant(m, a)
      BY <1>21 DEF DieWiring
    <3>2. QED
      BY <3>1 DEF Grant, TypeOK
  <2>3. CASE UNCHANGED <<wired, keeps>>
    <3>1. Wired' = Wired
      BY <2>3 DEF Wired
    <3>2. HostDies
      BY <1>21 DEF DieWiring
    <3>3. QED
      BY <1>18, <2>1, <2>2, <2>3, <3>1, <3>2 DEF TypeOK
  <2>4. ASSUME NEW mode \in {"sticky", "pattern"}, wired' = [wired EXCEPT ![a] = mode],
               keeps' = keeps \cup {a}
        PROVE  TypeOK'
    <3>1. Wired' = Wired \cup {a}
      BY <2>4 DEF TypeOK, Wired
    <3>2. HostDies
      BY <1>21 DEF DieWiring
    <3>3. QED
      BY <1>18, <2>1, <2>2, <2>4, <3>1, <3>2 DEF TypeOK
  <2>5. QED
    BY <1>21, <2>3, <2>4 DEF DieWiring
<1>22. QED
  BY <1>1, <1>2, <1>3, <1>4, <1>5, <1>6, <1>7, <1>8, <1>9, <1>10, <1>11, <1>12, <1>13, <1>14,
     <1>15, <1>16, <1>17, <1>19, <1>20, <1>21 DEF Next
-----------------------------------------------------------------------------
(* What only grows: wirings, members, stored rows and allowed cards *)

Grows ==
  /\ UNCHANGED <<from, mentions>>
  /\ \A a \in Agents : wired[a] # "no" => wired'[a] = wired[a]
  /\ keeps \subseteq keeps'
  /\ \A a \in Agents : member[a] \subseteq member'[a]
  /\ \A a \in Agents, m \in Messages : stored[a][m] # "no" => stored'[a][m] = stored[a][m]
  /\ promised \subseteq promised'
  /\ crashes > 0 => crashes' > 0

\* A step of the fan-out takes one message to one agent.
Takes(c, a) ==
  /\ a \in call[c].todo /\ a \in Agents
  /\ call[c].stage = "visit" /\ call[c].msg \in Messages
  /\ \A b \in call[c].todo : a <= b
  /\ \/ Store(c, a, call[c].msg)
     \/ Refuse(c, a, call[c].msg)
     \/ Drop(c, a, call[c].msg)
  /\ UNCHANGED <<from, mentions, made, wired, keeps, member, askRow, promised, crashes>>

LEMMA VisitTakes ==
  ASSUME TypeOK, NEW c \in Calls, Visit(c)
  PROVE  \E a : Takes(c, a)
<1>1. call[c].todo \subseteq Agents /\ call[c].msg \in Messages
  BY DEF Visit, TypeOK, Idle
<1>2. QED
  BY <1>1 DEF Visit, Takes, chat, wirings, asking, history

LEMMA StoreWrites ==
  ASSUME TypeOK, NEW a \in Agents, NEW m \in Messages, NEW c, Store(c, a, m),
         NEW b \in Agents, NEW n \in Messages
  PROVE  /\ stored[b][n] # "no" => stored'[b][n] = stored[b][n]
         /\ stored'[b][n] # stored[b][n] =>
              /\ b = a /\ n = m
              /\ stored'[a][m] = IF Engages(a, m) THEN "turn" ELSE "context"
         /\ stored'[a][m] # "no"
<1>1. CASE stored[a][m] = "no"
  <2>1. stored' = [stored EXCEPT ![a][m] = IF Engages(a, m) THEN "turn" ELSE "context"]
    BY <1>1 DEF Store
  <2> DEFINE kind == IF Engages(a, m) THEN "turn" ELSE "context"
  <2>2. kind # "no" /\ stored' = [stored EXCEPT ![a][m] = kind]
    BY <2>1
  <2>3. stored'[a][m] = kind
    BY <2>2 DEF TypeOK
  <2>4. b # a \/ n # m => stored'[b][n] = stored[b][n]
    BY <2>2 DEF TypeOK
  <2>5. QED
    BY <1>1, <2>2, <2>3, <2>4
<1>2. CASE stored[a][m] # "no"
  BY <1>2 DEF Store
<1>3. QED
  BY <1>1, <1>2

LEMMA NextGrows == TypeOK /\ [Next]_vars => Grows
<1> SUFFICES ASSUME TypeOK, [Next]_vars PROVE Grows
  OBVIOUS
<1> USE DEF chat, wirings, registration, asking, history
<1>1. CASE UNCHANGED vars
  BY <1>1 DEF vars, Grows
<1>2. ASSUME NEW c \in Calls, NEW m \in Messages, Arrive(c, m) PROVE Grows
  BY <1>2 DEF Arrive, Grows
<1>3. ASSUME NEW c \in Calls, EnterUnwired(c) PROVE Grows
  BY <1>3 DEF EnterUnwired, Grows
<1>4. ASSUME NEW c \in Calls, EnterWired(c) PROVE Grows
  BY <1>4 DEF EnterWired, Grows
<1>5. ASSUME NEW c \in Calls, Visit(c) PROVE Grows
  <2>1. PICK a : Takes(c, a)
    BY <1>5, VisitTakes
  <2>2. ASSUME NEW b \in Agents, NEW n \in Messages, stored[b][n] # "no"
        PROVE  stored'[b][n] = stored[b][n]
    <3>1. CASE Store(c, a, call[c].msg)
      BY <2>1, <2>2, <3>1, StoreWrites DEF Takes
    <3>2. CASE Refuse(c, a, call[c].msg) \/ Drop(c, a, call[c].msg)
      BY <3>2 DEF Refuse, Drop
    <3>3. QED
      BY <2>1, <3>1, <3>2 DEF Takes
  <2>3. QED
    BY <2>1, <2>2 DEF Takes, Grows
<1>6. ASSUME NEW c \in Calls, Leave(c) PROVE Grows
  BY <1>6 DEF Leave, Grows
<1>7. ASSUME NEW m \in Messages, AskForChat(m) PROVE Grows
  BY <1>7 DEF AskForChat, Grows
<1>8. ASSUME NEW m \in Messages, NEW a \in Agents, AskAboutSender(m, a) PROVE Grows
  BY <1>8 DEF AskAboutSender, Grows
<1>9. CASE ShowChatCard
  BY <1>9 DEF ShowChatCard, Grows
<1>10. ASSUME NEW m \in Messages, NEW a \in Agents, ShowSenderCard(m, a) PROVE Grows
  BY <1>10 DEF ShowSenderCard, Grows
<1>11. ASSUME NEW c, NEW a \in Agents, NEW m, Wire(c, a, m), wired[a] = "no" PROVE Grows
  <2>1. PICK mode : wired' = [wired EXCEPT ![a] = mode]
    BY <1>11 DEF Wire
  <2>2. \A b \in Agents : wired[b] # "no" => wired'[b] = wired[b]
    BY <1>11, <2>1 DEF TypeOK
  <2>3. \A b \in Agents : member[b] \subseteq member'[b]
    BY <1>11 DEF Wire, Grant, TypeOK
  <2>4. QED
    BY <1>11, <2>2, <2>3 DEF Wire, Grant, Grows
<1>12. ASSUME NEW c \in Calls, NEW a \in Agents, Connect(c, a) PROVE Grows
  BY <1>11, <1>12 DEF Connect
<1>13. CASE AskForName
  BY <1>13 DEF AskForName, Grows
<1>14. ASSUME NEW c \in Calls, NEW a \in Agents, NameAgent(c, a) PROVE Grows
  <2>1. wired[a] = "no"
    BY <1>14 DEF NameAgent, TypeOK, Wired
  <2>2. QED
    BY <1>11, <1>14, <2>1 DEF NameAgent
<1>15. CASE SwallowName
  BY <1>15 DEF SwallowName, Grows
<1>16. CASE RejectChat
  BY <1>16 DEF RejectChat, Grows
<1>17. ASSUME NEW c \in Calls, NEW m \in Messages, NEW a \in Agents, AllowSender(c, m, a)
       PROVE  Grows
  <2>1. \A b \in Agents : member[b] \subseteq member'[b]
    BY <1>17 DEF AllowSender, Grant, TypeOK
  <2>2. QED
    BY <1>17, <2>1 DEF AllowSender, Grant, Grows
<1>18. ASSUME NEW m \in Messages, NEW a \in Agents, DenySender(m, a) PROVE Grows
  BY <1>18 DEF DenySender, Grows
<1>19. CASE HostCrash
  BY <1>19, ConstantsOK DEF HostCrash, HostDies, Grows, TypeOK
<1>20. ASSUME NEW m \in Messages, NEW a \in Agents, DieAllowing(m, a) PROVE Grows
  <2>1. \A b \in Agents : member[b] \subseteq member'[b]
    BY <1>20 DEF DieAllowing, Grant, TypeOK
  <2>2. QED
    BY <1>20, <2>1, ConstantsOK DEF DieAllowing, Grant, HostDies, Grows, TypeOK
<1>21. ASSUME NEW m \in Messages, NEW a \in Agents, DieWiring(m, a) PROVE Grows
  <2>1. wired[a] = "no"
    BY <1>21 DEF DieWiring, TypeOK, Wired
  <2>2. UNCHANGED <<member, promised>> \/ Grant(m, a)
    BY <1>21 DEF DieWiring
  <2>3. (\A b \in Agents : member[b] \subseteq member'[b]) /\ promised \subseteq promised'
    BY <2>2 DEF Grant, TypeOK
  <2>4. (\A b \in Agents : wired[b] # "no" => wired'[b] = wired[b]) /\ keeps \subseteq keeps'
    BY <1>21, <2>1 DEF DieWiring, TypeOK
  <2>5. crashes > 0 => crashes' > 0
    BY <1>21, ConstantsOK DEF DieWiring, HostDies, TypeOK
  <2>6. QED
    BY <1>21, <2>3, <2>4, <2>5 DEF DieWiring, HostDies, Grows
<1>22. QED
  BY <1>1, <1>2, <1>3, <1>4, <1>5, <1>6, <1>7, <1>8, <1>9, <1>10, <1>12, <1>13, <1>14, <1>15,
     <1>16, <1>17, <1>18, <1>19, <1>20, <1>21 DEF Next

LEMMA EngagesStays ==
  ASSUME TypeOK, Grows, NEW a \in Agents, NEW m \in Messages, Engages(a, m)
  PROVE  Engages(a, m)'
<1>1. wired[a] # "no" /\ wired'[a] = wired[a] /\ mentions' = mentions
  BY DEF Engages, Grows
<1>2. HasSession(a) => HasSession(a)'
  <2>1. ASSUME NEW n \in Messages, stored[a][n] # "no" PROVE stored'[a][n] # "no"
    BY <2>1 DEF Grows
  <2>2. QED
    BY <2>1 DEF HasSession
<1>3. QED
  BY <1>1, <1>2 DEF Engages
-----------------------------------------------------------------------------
(* The three kinds of steps *)

\* A call that heads for a wired agent still does, unless the host dies.
KeepsHeading ==
  \A c \in Calls, m \in Messages, a \in Agents :
    Heading(c, m, a) /\ wired[a] # "no" => Heading(c, m, a)' \/ crashes' > 0

\* A step that neither stores nor admits.
Calm ==
  /\ UNCHANGED <<stored, promised, member, refused>>
  /\ (asks \cup askRow)' \subseteq asks \cup askRow
  /\ KeepsHeading

\* A card about the message m is allowed for the agent a, and the message is
\* routed again unless the host dies.
Admits(a, m) ==
  /\ UNCHANGED <<stored, refused>>
  /\ (asks \cup askRow)' \subseteq asks \cup askRow
  /\ Grant(m, a)
  /\ (\E c \in Calls : Begin(c, m)) \/ crashes' > 0
  /\ wired'[a] # "no"
  /\ a \in keeps' \/ Engages(a, m)

LEMMA IdleHeadsNowhere ==
  ASSUME NEW c, NEW m \in Messages, NEW a, call[c] = Idle
  PROVE  ~Heading(c, m, a)
BY DEF Heading, Idle

LEMMA SameCallsKeepHeading == call' = call => KeepsHeading
BY DEF KeepsHeading, Heading

LEMMA BeginKeepsHeading ==
  ASSUME TypeOK, NEW c \in Calls, NEW m, Begin(c, m)
  PROVE  KeepsHeading
<1>1. ASSUME NEW d \in Calls, NEW n \in Messages, NEW a \in Agents, Heading(d, n, a)
      PROVE  Heading(d, n, a)'
  <2>1. d # c
    BY <1>1, IdleHeadsNowhere DEF Begin
  <2>2. call'[d] = call[d]
    BY <2>1 DEF Begin, TypeOK
  <2>3. QED
    BY <1>1, <2>2 DEF Heading
<1>2. QED
  BY <1>1 DEF KeepsHeading

LEMMA ReturnKeepsHeading ==
  ASSUME TypeOK, NEW c \in Calls, Return(c),
         \A m \in Messages, a \in Agents : Heading(c, m, a) => wired[a] = "no"
  PROVE  KeepsHeading
<1>1. ASSUME NEW d \in Calls, NEW n \in Messages, NEW a \in Agents, Heading(d, n, a),
             wired[a] # "no"
      PROVE  Heading(d, n, a)'
  <2>1. d # c
    BY <1>1
  <2>2. call'[d] = call[d]
    BY <2>1 DEF Return, TypeOK
  <2>3. QED
    BY <1>1, <2>2 DEF Heading
<1>2. QED
  BY <1>1 DEF KeepsHeading

LEMMA NextKinds ==
  TypeOK /\ AskedWereEngaged /\ [Next]_vars =>
    \/ Calm
    \/ \E c \in Calls : \E a : Takes(c, a)
    \/ \E a \in Agents, m \in Messages : Admits(a, m)
<1> SUFFICES ASSUME TypeOK, AskedWereEngaged, [Next]_vars, ~\E c \in Calls : \E a : Takes(c, a),
                    ~\E a \in Agents, m \in Messages : Admits(a, m)
             PROVE  Calm
  OBVIOUS
<1> USE DEF chat, wirings, registration, asking, history
<1>1. CASE UNCHANGED vars
  BY <1>1, SameCallsKeepHeading DEF vars, Calm
<1>2. ASSUME NEW c \in Calls, NEW m \in Messages, Arrive(c, m) PROVE Calm
  BY <1>2, BeginKeepsHeading DEF Arrive, Calm
<1>3. ASSUME NEW c \in Calls, EnterUnwired(c) PROVE Calm
  <2>1. KeepsHeading
    BY <1>3, ReturnKeepsHeading DEF EnterUnwired, Wired
  <2>2. QED
    BY <1>3, <2>1 DEF EnterUnwired, Calm
<1>4. ASSUME NEW c \in Calls, EnterWired(c) PROVE Calm
  <2>1. ASSUME NEW d \in Calls, NEW n \in Messages, NEW a \in Agents, Heading(d, n, a),
               wired[a] # "no"
        PROVE  Heading(d, n, a)'
    <3>1. d # c => call'[d] = call[d]
      BY <1>4 DEF EnterWired, TypeOK
    <3>2. call'[c] = [stage |-> "visit", msg |-> call[c].msg, todo |-> Wired]
      BY <1>4 DEF EnterWired, TypeOK
    <3>3. QED
      BY <2>1, <3>1, <3>2 DEF Heading, Wired
  <2>2. QED
    BY <1>4, <2>1 DEF EnterWired, Calm, KeepsHeading
<1>5. ASSUME NEW c \in Calls, Visit(c) PROVE Calm
  BY <1>5, VisitTakes
<1>6. ASSUME NEW c \in Calls, Leave(c) PROVE Calm
  <2>1. KeepsHeading
    BY <1>6, ReturnKeepsHeading DEF Leave, Heading
  <2>2. QED
    BY <1>6, <2>1 DEF Leave, Calm
<1>7. ASSUME NEW m \in Messages, AskForChat(m) PROVE Calm
  BY <1>7, SameCallsKeepHeading DEF AskForChat, Calm
<1>8. ASSUME NEW m \in Messages, NEW a \in Agents, AskAboutSender(m, a) PROVE Calm
  BY <1>8, SameCallsKeepHeading DEF AskAboutSender, Calm
<1>9. CASE ShowChatCard
  BY <1>9, SameCallsKeepHeading DEF ShowChatCard, Calm
<1>10. ASSUME NEW m \in Messages, NEW a \in Agents, ShowSenderCard(m, a) PROVE Calm
  BY <1>10, SameCallsKeepHeading DEF ShowSenderCard, Calm
<1>11. ASSUME NEW c \in Calls, NEW a \in Agents, NEW m \in regRow, Wire(c, a, m)
       PROVE  Admits(a, m) /\ m \in Messages
  <2>1. PICK mode \in {"sticky", "pattern"} : wired' = [wired EXCEPT ![a] = mode]
    BY <1>11 DEF Wire
  <2>2. wired'[a] # "no"
    BY <2>1 DEF TypeOK
  <2>3. QED
    BY <1>11, <2>2 DEF Wire, Admits, TypeOK
<1>12. ASSUME NEW c \in Calls, NEW a \in Agents, Connect(c, a) PROVE Calm
  BY <1>11, <1>12 DEF Connect
<1>13. CASE AskForName
  BY <1>13, SameCallsKeepHeading DEF AskForName, Calm
<1>14. ASSUME NEW c \in Calls, NEW a \in Agents, NameAgent(c, a) PROVE Calm
  BY <1>11, <1>14 DEF NameAgent
<1>15. CASE SwallowName
  BY <1>15, SameCallsKeepHeading DEF SwallowName, Calm
<1>16. CASE RejectChat
  BY <1>16, SameCallsKeepHeading DEF RejectChat, Calm
<1>17. ASSUME NEW c \in Calls, NEW m \in Messages, NEW a \in Agents, AllowSender(c, m, a)
       PROVE  Calm
  <2>1. Engages(a, m) /\ wired' = wired
    BY <1>17 DEF AllowSender, AskedWereEngaged
  <2>2. Admits(a, m)
    BY <1>17, <2>1 DEF AllowSender, Admits, Engages
  <2>3. QED
    BY <2>2
<1>18. ASSUME NEW m \in Messages, NEW a \in Agents, DenySender(m, a) PROVE Calm
  BY <1>18, SameCallsKeepHeading DEF DenySender, Calm
<1>19. CASE HostCrash
  <2>1. crashes' > 0
    BY <1>19, ConstantsOK DEF HostCrash, HostDies, TypeOK
  <2>2. QED
    BY <1>19, <2>1 DEF HostCrash, HostDies, Calm, KeepsHeading
<1>20. ASSUME NEW m \in Messages, NEW a \in Agents, DieAllowing(m, a) PROVE Calm
  <2>1. Engages(a, m) /\ wired' = wired
    BY <1>20 DEF DieAllowing, AskedWereEngaged
  <2>2. crashes' > 0
    BY <1>20, ConstantsOK DEF DieAllowing, HostDies, TypeOK
  <2>3. Admits(a, m)
    BY <1>20, <2>1, <2>2 DEF DieAllowing, HostDies, Admits, Engages
  <2>4. QED
    BY <2>3
<1>21. ASSUME NEW m \in Messages, NEW a \in Agents, DieWiring(m, a) PROVE Calm
  <2>1. crashes' > 0 /\ UNCHANGED <<stored, refused, askRow>> /\ asks' = {}
    BY <1>21, ConstantsOK DEF DieWiring, HostDies, TypeOK
  <2>2. CASE UNCHANGED <<member, promised>>
    BY <2>1, <2>2 DEF Calm, KeepsHeading
  <2>3. CASE ~UNCHANGED <<member, promised>>
    <3>1. /\ \E mode \in {"sticky", "pattern"} : wired' = [wired EXCEPT ![a] = mode]
          /\ keeps' = keeps \cup {a}
          /\ Grant(m, a)
      BY <1>21, <2>3 DEF DieWiring
    <3>2. wired'[a] # "no"
      BY <3>1 DEF TypeOK
    <3>3. Admits(a, m)
      BY <2>1, <3>1, <3>2 DEF Admits
    <3>4. QED
      BY <3>3
  <2>4. QED
    BY <2>2, <2>3
<1>22. QED
  BY <1>1, <1>2, <1>3, <1>4, <1>5, <1>6, <1>7, <1>8, <1>9, <1>10, <1>12, <1>13, <1>14, <1>15,
     <1>16, <1>17, <1>18, <1>19, <1>20, <1>21 DEF Next
-----------------------------------------------------------------------------
(* The conjuncts of the inductive invariant *)

LEMMA NextMembers ==
  ASSUME IInv, [Next]_vars
  PROVE  MembersWereAllowed'
<1>1. Grows
  BY NextGrows DEF IInv
<1>2. ASSUME NEW a \in Agents, NEW s \in member'[a], s \notin Known, s \in member[a]
      PROVE  \E p \in promised' : p[2] = a /\ from'[p[1]] = s
  BY <1>1, <1>2 DEF IInv, MembersWereAllowed, Grows
<1>3. ASSUME NEW a \in Agents, NEW s \in member'[a], s \notin member[a]
      PROVE  \E p \in promised' : p[2] = a /\ from'[p[1]] = s
  <2>1. PICK b \in Agents, m \in Messages : Admits(b, m)
    BY <1>3, NextKinds DEF IInv, Calm, Takes
  <2>2. a = b /\ s = from[m]
    BY <1>3, <2>1 DEF Admits, Grant, IInv, TypeOK
  <2>3. <<m, a>> \in promised' /\ from' = from
    BY <1>1, <2>1, <2>2 DEF Admits, Grant, Grows
  <2>4. QED
    BY <2>2, <2>3
<1>4. QED
  BY <1>2, <1>3 DEF MembersWereAllowed

LEMMA NextTurns ==
  ASSUME IInv, [Next]_vars
  PROVE  TurnsWereAllowed'
<1>1. Grows
  BY NextGrows DEF IInv
<1> SUFFICES ASSUME NEW a \in Agents, NEW m \in Messages, stored'[a][m] = "turn",
                    from'[m] \notin Known
             PROVE  \E p \in promised' : p[2] = a /\ from'[p[1]] = from'[m]
  BY DEF TurnsWereAllowed
<1>2. CASE stored[a][m] = "turn"
  BY <1>1, <1>2 DEF IInv, TurnsWereAllowed, Grows
<1>3. CASE stored[a][m] # "turn"
  <2>1. PICK c, b : c \in Calls /\ Takes(c, b)
    BY <1>3, NextKinds DEF IInv, Calm, Admits
  <2>2. Store(c, b, call[c].msg)
    BY <1>3, <2>1 DEF Takes, Refuse, Drop
  <2>3. a = b /\ m = call[c].msg /\ Engages(a, m)
    BY <1>3, <2>1, <2>2, StoreWrites DEF Takes, IInv
  <2>4. from[m] \in member[a]
    BY <2>2, <2>3 DEF Store, Allowed
  <2>5. QED
    BY <1>1, <2>4 DEF IInv, MembersWereAllowed, Grows
<1>4. QED
  BY <1>2, <1>3

LEMMA NextAsked ==
  ASSUME IInv, [Next]_vars
  PROVE  AskedWereEngaged'
<1>1. Grows
  BY NextGrows DEF IInv
<1> SUFFICES ASSUME NEW r \in (asks \cup askRow \cup refused)'
             PROVE  Engages(r[2], r[1])'
  BY DEF AskedWereEngaged
<1>2. Engages(r[2], r[1]) /\ r[2] \in Agents /\ r[1] \in Messages
  <2>1. CASE r \in asks \cup askRow \cup refused
    BY <2>1 DEF IInv, AskedWereEngaged, TypeOK
  <2>2. CASE r \notin asks \cup askRow \cup refused
    <3>1. PICK c, a : c \in Calls /\ Takes(c, a)
      BY <2>2, NextKinds DEF IInv, Calm, Admits
    <3>2. Refuse(c, a, call[c].msg)
      BY <2>2, <3>1 DEF Takes, Store, Drop
    <3>3. r = <<call[c].msg, a>>
      BY <2>2, <3>1, <3>2 DEF Takes, Refuse
    <3>4. QED
      BY <3>1, <3>2, <3>3 DEF Refuse, Takes
  <2>3. QED
    BY <2>1, <2>2
<1>3. QED
  BY <1>1, <1>2, EngagesStays DEF IInv

LEMMA NextNoTrace ==
  ASSUME IInv, [Next]_vars
  PROVE  RefusedLeavesNoTrace'
<1>1. Grows
  BY NextGrows DEF IInv
<1> SUFFICES ASSUME NEW a \in Agents, NEW m \in Messages, <<m, a>> \in refused',
                    from'[m] \notin member'[a]
             PROVE  stored'[a][m] = "no"
  BY DEF RefusedLeavesNoTrace
<1>2. from[m] \notin member[a]
  BY <1>1 DEF Grows
<1>3. CASE <<m, a>> \in refused
  <2>1. stored[a][m] = "no" /\ Engages(a, m)
    BY <1>2, <1>3 DEF IInv, RefusedLeavesNoTrace, AskedWereEngaged
  <2>2. ASSUME stored'[a][m] # stored[a][m] PROVE FALSE
    <3>1. PICK c, b : c \in Calls /\ Takes(c, b)
      BY <2>2, NextKinds DEF IInv, Calm, Admits
    <3>2. Store(c, b, call[c].msg)
      BY <2>2, <3>1 DEF Takes, Refuse, Drop
    <3>3. a = b /\ m = call[c].msg
      BY <2>2, <3>1, <3>2, StoreWrites DEF Takes, IInv
    <3>4. QED
      BY <1>2, <2>1, <3>2, <3>3 DEF Store, Allowed
  <2>3. QED
    BY <2>1, <2>2
<1>4. CASE <<m, a>> \notin refused
  <2>1. PICK c, b : c \in Calls /\ Takes(c, b)
    BY <1>4, NextKinds DEF IInv, Calm, Admits
  <2>2. Refuse(c, b, call[c].msg)
    BY <1>4, <2>1 DEF Takes, Store, Drop
  <2>3. a = b /\ m = call[c].msg /\ stored[b][call[c].msg] = "no"
    BY <1>4, <2>2 DEF Refuse
  <2>4. QED
    BY <2>2, <2>3 DEF Refuse
<1>5. QED
  BY <1>3, <1>4

LEMMA NextAccept ==
  ASSUME IInv, [Next]_vars
  PROVE  PromisesAccept'
<1>1. Grows
  BY NextGrows DEF IInv
<1>2. ASSUME NEW a \in Agents, NEW m \in Messages, Accepts(a, m) PROVE Accepts(a, m)'
  <2>1. wired'[a] # "no" /\ from'[m] \in member'[a]
    BY <1>1, <1>2 DEF Accepts, Grows
  <2>2. Engages(a, m)' \/ a \in keeps'
    BY <1>1, <1>2, EngagesStays DEF Accepts, Grows, IInv
  <2>3. QED
    BY <2>1, <2>2 DEF Accepts
<1>3. ASSUME NEW p \in promised', p \notin promised PROVE Accepts(p[2], p[1])'
  <2>1. PICK a \in Agents, m \in Messages : Admits(a, m)
    BY <1>3, NextKinds DEF IInv, Calm, Takes
  <2>2. p[1] = m /\ p[2] = a
    BY <1>3, <2>1 DEF Admits, Grant
  <2>3. from'[m] \in member'[a] /\ wired'[a] # "no"
    BY <1>1, <2>1 DEF Admits, Grant, Grows, IInv, TypeOK
  <2>4. Engages(a, m)' \/ a \in keeps'
    BY <1>1, <2>1, EngagesStays DEF Admits, IInv
  <2>5. QED
    BY <2>2, <2>3, <2>4 DEF Accepts
<1>4. ASSUME NEW p \in promised PROVE Accepts(p[2], p[1])'
  BY <1>2 DEF IInv, PromisesAccept, TypeOK
<1>5. QED
  BY <1>3, <1>4 DEF PromisesAccept

LEMMA ReachedStays ==
  ASSUME Grows, NEW a \in Agents, NEW m \in Messages, Reached(a, m)
  PROVE  Reached(a, m)'
BY DEF Grows, Reached, Ahead

\* Whoever the fan-out visits, the agent a is reached or still ahead.
LEMMA TakesReaches ==
  ASSUME TypeOK, NEW c \in Calls, NEW b, Takes(c, b),
         NEW d \in Calls, NEW m \in Messages, NEW a \in Agents,
         Heading(d, m, a), Accepts(a, m)
  PROVE  Reached(a, m)' \/ Heading(d, m, a)'
<1>1. CASE d # c
  <2>1. call'[d] = call[d]
    BY <1>1 DEF Takes, Store, Refuse, Drop, Visited, Return, TypeOK
  <2>2. QED
    BY <2>1 DEF Heading
<1>2. CASE d = c
  <2>1. m = call[c].msg /\ a \in call[c].todo /\ b <= a
    BY <1>2 DEF Heading, Takes
  <2>2. CASE b = a
    <3>1. Store(c, a, m)
      BY <2>1, <2>2 DEF Takes, Accepts, Refuse, Drop, Allowed
    <3>2. QED
      BY <3>1, StoreWrites DEF Reached
  <2>3. CASE b # a
    <3>1. CASE Visited(c, b)
      <4>1. call'[c] = [call[c] EXCEPT !.todo = @ \ {b}]
        BY <3>1 DEF Visited, TypeOK
      <4>2. call'[c].msg = m /\ call'[c].stage = call[c].stage /\ a \in call'[c].todo
        BY <2>1, <2>3, <4>1 DEF TypeOK
      <4>3. QED
        BY <1>2, <4>2 DEF Heading
    <3>2. CASE ~Visited(c, b)
      <4>1. Store(c, b, m)
        BY <2>1, <3>2 DEF Takes, Refuse, Drop
      <4>2. stored'[b][m] # "no" /\ b \in Agents
        BY <4>1, StoreWrites DEF Takes
      <4>3. b < a
        BY <2>1, <2>3, <4>2, ConstantsOK
      <4>4. QED
        BY <4>2, <4>3 DEF Reached, Ahead
    <3>3. QED
      BY <3>1, <3>2
  <2>4. QED
    BY <2>2, <2>3
<1>3. QED
  BY <1>1, <1>2

LEMMA NextKept ==
  ASSUME IInv, [Next]_vars
  PROVE  PromisesAreKept'
<1>1. Grows
  BY NextGrows DEF IInv
<1> SUFFICES ASSUME NEW p \in promised'
             PROVE  Reached(p[2], p[1])' \/ \E c \in Calls : Heading(c, p[1], p[2])'
  BY DEF PromisesAreKept
<1>2. CASE p \notin promised
  <2>1. PICK a \in Agents, m \in Messages : Admits(a, m)
    BY <1>2, NextKinds DEF IInv, Calm, Takes
  <2>2. p[1] = m /\ p[2] = a
    BY <1>2, <2>1 DEF Admits, Grant
  <2>3. ASSUME NEW c \in Calls, Begin(c, m) PROVE Heading(c, m, a)'
    BY <2>3 DEF Begin, Heading, IInv, TypeOK
  <2>4. crashes' > 0 => Reached(a, m)'
    BY DEF Reached
  <2>5. QED
    BY <2>1, <2>2, <2>3, <2>4 DEF Admits
<1>3. CASE p \in promised
  <2>1. p[1] \in Messages /\ p[2] \in Agents /\ Accepts(p[2], p[1])
    BY <1>3 DEF IInv, PromisesAccept, TypeOK
  <2>2. CASE Reached(p[2], p[1])
    BY <1>1, <2>1, <2>2, ReachedStays
  <2>3. ASSUME NEW d \in Calls, Heading(d, p[1], p[2])
        PROVE  Reached(p[2], p[1])' \/ Heading(d, p[1], p[2])'
    <3>1. CASE KeepsHeading
      BY <2>1, <2>3, <3>1 DEF KeepsHeading, Accepts, Reached
    <3>2. CASE \E c \in Calls : \E a : Takes(c, a)
      BY <2>1, <2>3, <3>2, TakesReaches DEF IInv
    <3>3. CASE \E a \in Agents, m \in Messages : Admits(a, m)
      <4>1. CASE crashes' > 0
        BY <4>1 DEF Reached
      <4>2. ASSUME NEW c \in Calls, NEW m, Begin(c, m) PROVE KeepsHeading
        BY <4>2, BeginKeepsHeading DEF IInv
      <4>3. QED
        BY <3>1, <3>3, <4>1, <4>2 DEF Admits
    <3>4. QED
      BY <3>1, <3>2, <3>3, NextKinds DEF IInv, Calm
  <2>4. QED
    BY <1>3, <2>2, <2>3 DEF IInv, PromisesAreKept
<1>4. QED
  BY <1>2, <1>3

LEMMA NextMention ==
  ASSUME IInv, [Next]_vars
  PROVE  StoredIsWired' /\ MentionComesFirst'
<1>1. Grows
  BY NextGrows DEF IInv
<1>2. CASE UNCHANGED stored
  <2>1. StoredIsWired'
    BY <1>1, <1>2 DEF IInv, StoredIsWired, Grows
  <2>2. ASSUME NEW a \in Agents, a \notin keeps', NEW m \in Messages,
               wired'[a] = "sticky", stored'[a][m] # "no"
        PROVE  \E n \in mentions' : stored'[a][n] = "turn"
    <3>1. a \notin keeps /\ wired[a] = "sticky" /\ stored[a][m] # "no"
      BY <1>1, <1>2, <2>2 DEF IInv, StoredIsWired, Grows
    <3>2. QED
      BY <1>1, <1>2, <3>1 DEF IInv, MentionComesFirst, Grows
  <2>3. QED
    BY <2>1, <2>2 DEF MentionComesFirst
<1>3. ASSUME NEW c \in Calls, NEW b, Takes(c, b), Store(c, b, call[c].msg)
      PROVE  StoredIsWired' /\ MentionComesFirst'
  <2> DEFINE m == call[c].msg
  <2>1. /\ b \in Agents /\ m \in Messages /\ wired[b] # "no"
        /\ UNCHANGED <<wired, keeps, mentions>>
    BY <1>3 DEF Takes, IInv, TypeOK, Idle, Wired
  <2>2. \A d \in Agents, n \in Messages : stored'[d][n] # stored[d][n] => d = b /\ n = m
    BY <1>3, <2>1, StoreWrites DEF IInv
  <2>3. StoredIsWired'
    BY <2>1, <2>2 DEF IInv, StoredIsWired
  <2>4. ASSUME NEW a \in Agents, NEW k \in Messages, stored[a][k] # "no",
               a \notin keeps, wired[a] = "sticky"
        PROVE  \E n \in mentions : stored'[a][n] = "turn"
    <3>1. PICK n \in mentions : stored[a][n] = "turn"
      BY <2>4 DEF IInv, MentionComesFirst
    <3>2. stored'[a][n] = "turn"
      BY <1>1, <3>1 DEF Grows, IInv, TypeOK
    <3>3. QED
      BY <3>2
  <2>5. ASSUME b \notin keeps, wired[b] = "sticky", stored[b][m] = "no"
        PROVE  \E n \in mentions : stored'[b][n] = "turn"
    <3>1. Engages(b, m)
      BY <1>3, <2>5 DEF Store
    <3>2. CASE m \in mentions
      <4>1. stored'[b][m] = "turn"
        BY <1>3, <2>1, <2>5, <3>1, StoreWrites DEF IInv
      <4>2. QED
        BY <3>2, <4>1
    <3>3. CASE HasSession(b)
      BY <2>1, <2>4, <2>5, <3>3 DEF HasSession
    <3>4. QED
      BY <2>5, <3>1, <3>2, <3>3 DEF Engages
  <2>6. ASSUME NEW a \in Agents, a \notin keeps', NEW k \in Messages,
               wired'[a] = "sticky", stored'[a][k] # "no"
        PROVE  \E n \in mentions' : stored'[a][n] = "turn"
    BY <2>1, <2>2, <2>4, <2>5, <2>6
  <2>7. QED
    BY <2>3, <2>6 DEF MentionComesFirst
<1>4. ASSUME NEW c \in Calls, NEW b, Takes(c, b) PROVE StoredIsWired' /\ MentionComesFirst'
  <2>1. Store(c, b, call[c].msg) \/ UNCHANGED stored
    BY <1>4 DEF Takes, Refuse, Drop
  <2>2. QED
    BY <1>2, <1>3, <1>4, <2>1
<1>5. QED
  BY <1>2, <1>4, NextKinds DEF IInv, Calm, Admits

LEMMA NextIInv == IInv /\ [Next]_vars => IInv'
<1> SUFFICES ASSUME IInv, [Next]_vars PROVE IInv'
  OBVIOUS
<1>1. TypeOK'
  BY NextTypes DEF IInv
<1>2. QED
  BY <1>1, NextMembers, NextTurns, NextAsked, NextNoTrace, NextAccept, NextKept, NextMention
     DEF IInv

LEMMA Invariance == Spec => []IInv
<1>1. Init => IInv
  BY InitIInv
<1>2. IInv /\ [Next]_vars => IInv'
  BY NextIInv
<1>3. QED
  BY <1>1, <1>2, PTL DEF Spec
-----------------------------------------------------------------------------
(* Theorems *)

\* The variables keep their types, rows of the pending tables are unique, and a
\* call of the router only visits wired agents.
THEOREM TypesHold == Spec => []TypeOK
<1>1. IInv => TypeOK
  BY DEF IInv
<1>2. QED
  BY <1>1, Invariance, PTL

\* Whatever is asked, answered and routed again at the same time, an agent takes
\* a stranger's message as a turn only after a card about the two was allowed.
THEOREM StrangersWereAllowed == Spec => []TurnsWereAllowed
<1>1. IInv => TurnsWereAllowed
  BY DEF IInv
<1>2. QED
  BY <1>1, Invariance, PTL

\* A message that an agent's gate refused is not stored for that agent, not even
\* as context of a later routing, before its sender is a member.
THEOREM NoTraceOfRefused == Spec => []RefusedLeavesNoTrace
<1>1. IInv => RefusedLeavesNoTrace
  BY DEF IInv
<1>2. QED
  BY <1>1, Invariance, PTL

\* The detailed specification implements the gatekeeper's promise: a call that
\* is calm is a stutter, a visit takes, keeps, turns away or leaves alone, and an
\* allowed card admits.
THEOREM GateImplemented == Spec => ImplementsGate
<1> DEFINE gvars == <<from, member, promised, refused, stored>>
<1>1. Init => Gate!GateInit
  <2>1. Init => member \in [Agents -> {{}, Known}]
    BY DEF Init
  <2>2. QED
    BY <2>1 DEF Init, Gate!GateInit
<1>2. ASSUME IInv, [Next]_vars PROVE Gate!GateNext \/ UNCHANGED gvars
  <2>1. from' = from
    BY <1>2, NextGrows DEF IInv, Grows
  <2>2. CASE Calm
    BY <2>1, <2>2 DEF Calm
  <2>3. ASSUME NEW a \in Agents, NEW m \in Messages, Admits(a, m)
        PROVE  Gate!GateNext
    BY <2>1, <2>3 DEF Admits, Grant, Gate!GateNext, Gate!Admit
  <2>4. ASSUME NEW c \in Calls, NEW a, Takes(c, a)
        PROVE  Gate!GateNext \/ UNCHANGED gvars
    <3> DEFINE m == call[c].msg
    <3>1. /\ a \in Agents /\ m \in Messages
          /\ UNCHANGED <<member, promised>>
      BY <2>4 DEF Takes
    <3>2. CASE Store(c, a, m) /\ stored[a][m] = "no" /\ Engages(a, m)
      <4>1. Gate!TakeTurn(a, m)
        BY <2>1, <3>1, <3>2 DEF Store, Allowed, Gate!TakeTurn
      <4>2. QED
        BY <3>1, <4>1 DEF Gate!GateNext
    <3>3. CASE Store(c, a, m) /\ stored[a][m] = "no" /\ ~Engages(a, m)
      <4>1. <<m, a>> \notin refused
        BY <1>2, <3>3 DEF IInv, AskedWereEngaged
      <4>2. Gate!KeepContext(a, m)
        BY <2>1, <3>1, <3>3, <4>1 DEF Store, Gate!KeepContext
      <4>3. QED
        BY <3>1, <4>2 DEF Gate!GateNext
    <3>4. CASE Store(c, a, m) /\ stored[a][m] # "no"
      BY <2>1, <3>1, <3>4 DEF Store
    <3>5. CASE Refuse(c, a, m) /\ stored[a][m] = "no"
      <4>1. Gate!TurnAway(a, m)
        BY <2>1, <3>1, <3>5 DEF Refuse, Allowed, Gate!TurnAway
      <4>2. QED
        BY <3>1, <4>1 DEF Gate!GateNext
    <3>6. CASE Refuse(c, a, m) /\ stored[a][m] # "no"
      BY <2>1, <3>1, <3>6 DEF Refuse
    <3>7. CASE Drop(c, a, m)
      BY <2>1, <3>1, <3>7 DEF Drop
    <3>8. QED
      BY <2>4, <3>2, <3>3, <3>4, <3>5, <3>6, <3>7 DEF Takes
  <2>5. QED
    BY <1>2, <2>2, <2>3, <2>4, NextKinds DEF IInv
<1>3. IInv /\ [Next]_vars => [Gate!GateNext]_gvars
  BY <1>2
<1>4. QED
  BY <1>1, <1>3, Invariance, PTL DEF Spec, ImplementsGate, Gate!GateSpec

\* An agent that engages by subscription was mentioned before, unless its wiring
\* accumulates: context is the only other thing that makes a session.
THEOREM SubscribersWereMentioned == Spec => []MentionComesFirst
<1>1. IInv => MentionComesFirst
  BY DEF IInv
<1>2. QED
  BY <1>1, Invariance, PTL

\* Without a crash of the host, a message whose card was allowed is with its
\* agent when its routing is over, or with one that comes before it.
THEOREM AllowedArrives == Spec => []ReplayArrives
<1>1. IInv => ReplayArrives
  BY DEF IInv, PromisesAreKept, ReplayArrives, Reached, Heading
<1>2. QED
  BY <1>1, Invariance, PTL

\* A denied chat asks nobody again.
THEOREM DenialIsFinal == Spec => DeniedStaysQuiet
<1>1. ASSUME TypeOK, [Next]_vars, denied, Quiet PROVE Quiet'
  <2> USE DEF chat, wirings, registration, asking, history, Quiet
  <2>1. CASE UNCHANGED vars
    BY <1>1, <2>1 DEF vars
  <2>2. QED
    BY <1>1, <2>1 DEF Next, Arrive, EnterUnwired, EnterWired, Visit, Leave, AskForChat,
          AskAboutSender, ShowChatCard, ShowSenderCard, Connect, Wire, AskForName, NameAgent,
          SwallowName, RejectChat, AllowSender, DenySender, HostCrash, HostDies, DieAllowing,
          DieWiring
<1>2. TypeOK /\ [Next]_vars => [denied /\ Quiet => Quiet']_vars
  BY <1>1
<1>3. QED
  BY <1>2, TypesHold, PTL DEF Spec, DeniedStaysQuiet
==============================================================================
