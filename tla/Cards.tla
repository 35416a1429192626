-------------------------------- MODULE Cards --------------------------------
(***************************************************************************)
(* Cards with buttons: the questions an agent asks its user, the requests of *)
(* an agent to change its own container, and the credentials for which the  *)
(* OneCLI gateway waits.  All three share the cards of the chat platforms   *)
(* and the dispatch of a click; each keeps its own pending rows, and each   *)
(* sends its card and removes its row at a different moment.                *)
(***************************************************************************)
EXTENDS Integers, FiniteSets

CONSTANTS
  Questions,    \* calls of ask_user_question
  Requests,     \* install_packages requests of an agent
  Credentials,  \* requests the gateway holds open
  MaxTries,     \* MAX_DELIVERY_ATTEMPTS
  MaxCards,     \* bound: questions and requests made in a run
  MaxJobs,      \* bound: handlers of one approval that run at the same time
  MaxCrash      \* bound: crashes of the host

ASSUME ConstantsOK ==
  /\ Questions \cap Credentials = {}
  /\ (Questions \cup Credentials) \cap (Requests \X (0..MaxCrash)) = {}
  /\ MaxTries \in Nat \ {0}
  /\ MaxCards \in Nat
  /\ MaxJobs \in Nat \ {0}
  /\ MaxCrash \in Nat

VARIABLES
  card,      \* each card on the platform: "none", "buttons" or "edited"
  clicks,    \* clicks whose card is being edited: card and value
  pressed,   \* the options pressed on the card of a question or a credential
  question,  \* the tool call: "no", "asking", "returned", "timedout" or "gone"
  outbox,    \* its row of messages_out
  tries,     \* deliveryAttempts
  qrow,      \* pending_questions
  answer,    \* the first question_response of messages_in
  request,   \* the row of messages_out that asks: "no", "queued", "asking" or "handled"
  approval,  \* pending_approvals of self-modification: "none", "pending" or "deleted"
  sending,   \* approvals whose card is being sent
  jobs,      \* approval handlers that run
  told,      \* requests of whose outcome the agent was told
  gate,      \* what the gateway was told about a credential
  crow,      \* pending_approvals of credentials
  waiting,   \* the map of pending promises
  expiring,  \* expired credentials whose card is being edited
  stale,     \* rows that the sweep at startup has read
  crashes

platform == <<card, clicks, pressed>>
asking == <<question, outbox, tries, qrow, answer>>
selfmod == <<request, approval, sending, jobs, told>>
gateway == <<gate, crow, waiting, expiring, stale>>
vars == <<card, clicks, pressed, question, outbox, tries, qrow, answer, request, approval,
          sending, jobs, told, gate, crow, waiting, expiring, stale, crashes>>

\* Every execution of a request by a host makes an approval with a new id.
Approvals == Requests \X (0..MaxCrash)
Cards == Questions \cup Credentials \cup Approvals
Options == {"approve", "reject"}
Index == "index"   \* the number of a button that could not be resolved

Init ==
  /\ card = [x \in Cards |-> "none"]
  /\ clicks = {}
  /\ pressed = [x \in Questions \cup Credentials |-> {}]
  /\ question = [q \in Questions |-> "no"]
  /\ outbox = [q \in Questions |-> "none"]
  /\ tries = [q \in Questions |-> 0]
  /\ qrow = {}
  /\ answer = [q \in Questions |-> "none"]
  /\ request = [r \in Requests |-> "no"]
  /\ approval = [i \in Approvals |-> "none"]
  /\ sending = {}
  /\ jobs = [i \in Approvals |-> 0]
  /\ told = {}
  /\ gate = [g \in Credentials |-> "no"]
  /\ crow = {} /\ waiting = {} /\ expiring = {} /\ stale = {}
  /\ crashes = 0
\* The three kinds of cards meet only in the dispatch of a click, by their ids:
\* a run needs few of them at a time.
More ==
  Cardinality({q \in Questions : question[q] # "no"})
    + Cardinality({r \in Requests : request[r] # "no"})
    + Cardinality({g \in Credentials : gate[g] # "no"}) < MaxCards
-----------------------------------------------------------------------------
(* ask_user_question and the delivery of its card *)

Ask(q) ==
  /\ question[q] = "no" /\ More
  /\ question' = [question EXCEPT ![q] = "asking"]
  /\ outbox' = [outbox EXCEPT ![q] = "due"]
  /\ UNCHANGED <<platform, tries, qrow, answer, selfmod, gateway, crashes>>

\* Mutant: the card is sent without a row.
DeliverRowless(q) ==
  /\ outbox[q] = "due"
  /\ outbox' = [outbox EXCEPT ![q] = "sending"]
  /\ UNCHANGED <<platform, question, tries, qrow, answer, selfmod, gateway, crashes>>

\* deliverMessage: the row is inserted or ignored, and the card is sent.
Deliver(q) ==
  /\ outbox[q] = "due"
  /\ outbox' = [outbox EXCEPT ![q] = "sending"]
  /\ qrow' = qrow \cup {q}
  /\ UNCHANGED <<platform, question, tries, answer, selfmod, gateway, crashes>>

Appears(x) == card' = [card EXCEPT ![x] = "buttons"]

Shown(x) == card[x] = "buttons"

\* The platform shows a card before the call that sends it returns.
PostQuestion(q) ==
  /\ outbox[q] = "sending"
  /\ Appears(q)
  /\ UNCHANGED <<clicks, pressed, asking, selfmod, gateway, crashes>>

\* The call returns, also when the channel has no adapter and nothing is shown.
QuestionSent(q) ==
  /\ outbox[q] = "sending"
  /\ outbox' = [outbox EXCEPT ![q] = "sent"]
  /\ tries' = [tries EXCEPT ![q] = 0]
  /\ UNCHANGED <<platform, question, qrow, answer, selfmod, gateway, crashes>>

\* Mutant: it is given up one attempt too late.
QuestionFailedLater(q) ==
  /\ outbox[q] = "sending"
  /\ LET last == tries[q] >= MaxTries IN
       /\ outbox' = [outbox EXCEPT ![q] = IF last THEN "failed" ELSE "due"]
       /\ tries' = [tries EXCEPT ![q] = IF last THEN 0 ELSE @ + 1]
  /\ UNCHANGED <<platform, question, qrow, answer, selfmod, gateway, crashes>>

\* It fails, with the card there or not, and is tried again or given up.
QuestionFailed(q) ==
  /\ outbox[q] = "sending"
  /\ LET last == tries[q] + 1 >= MaxTries IN
       /\ outbox' = [outbox EXCEPT ![q] = IF last THEN "failed" ELSE "due"]
       /\ tries' = [tries EXCEPT ![q] = IF last THEN 0 ELSE @ + 1]
  /\ UNCHANGED <<platform, question, qrow, answer, selfmod, gateway, crashes>>

\* The tool call finds a response, gives up, or dies with its container.
Poll(q) ==
  /\ question[q] = "asking"
  /\ answer[q] # "none"
  /\ question' = [question EXCEPT ![q] = "returned"]
  /\ UNCHANGED <<platform, outbox, tries, qrow, answer, selfmod, gateway, crashes>>

StopAsking(q) ==
  /\ question[q] = "asking"
  /\ \E how \in {"timedout", "gone"} : question' = [question EXCEPT ![q] = how]
  /\ UNCHANGED <<platform, outbox, tries, qrow, answer, selfmod, gateway, crashes>>
-----------------------------------------------------------------------------
(* install_packages and requestApproval *)

Install(r) ==
  /\ request[r] = "no" /\ More
  /\ request' = [request EXCEPT ![r] = "queued"]
  /\ UNCHANGED <<platform, asking, approval, sending, jobs, told, gateway, crashes>>

\* The delivery poll takes the system action; approvers are looked up.
Execute(r) ==
  /\ request[r] = "queued"
  /\ request' = [request EXCEPT ![r] = "asking"]
  /\ UNCHANGED <<platform, asking, approval, sending, jobs, told, gateway, crashes>>

\* No approver can be reached.
NobodyToAsk(r) ==
  /\ request[r] = "asking"
  /\ approval[<<r, crashes>>] = "none"
  /\ told' = told \cup {r}
  /\ request' = [request EXCEPT ![r] = "handled"]
  /\ UNCHANGED <<platform, asking, approval, sending, jobs, gateway, crashes>>

AskApproval(r) ==
  /\ request[r] = "asking"
  /\ approval[<<r, crashes>>] = "none"
  /\ approval' = [approval EXCEPT ![<<r, crashes>>] = "pending"]
  /\ sending' = sending \cup {<<r, crashes>>}
  /\ UNCHANGED <<platform, asking, request, jobs, told, gateway, crashes>>

PostApproval(i) ==
  /\ i \in sending
  /\ Appears(i)
  /\ UNCHANGED <<clicks, pressed, asking, selfmod, gateway, crashes>>

\* The call that sends the card returns, or fails: the agent is told, and the
\* row stays.
ApprovalSent(i) ==
  /\ i \in sending
  /\ sending' = sending \ {i}
  /\ request' = [request EXCEPT ![i[1]] = "handled"]
  /\ told' \in {told, told \cup {i[1]}}
  /\ UNCHANGED <<platform, asking, approval, jobs, gateway, crashes>>

\* Mutant: the row is deleted before the handler is awaited.
ApproveDeleting(i) ==
  /\ approval[i] = "pending"
  /\ jobs' = [jobs EXCEPT ![i] = @ + 1]
  /\ approval' = [approval EXCEPT ![i] = "deleted"]
  /\ UNCHANGED <<request, sending, told>>

\* Approved: the handler changes the configuration and awaits the new image.
Approve(i) ==
  /\ approval[i] = "pending"
  /\ jobs[i] < MaxJobs
  /\ jobs' = [jobs EXCEPT ![i] = @ + 1]
  /\ UNCHANGED <<request, approval, sending, told>>

Reject(i) ==
  /\ approval[i] = "pending"
  /\ told' = told \cup {i[1]}
  /\ approval' = [approval EXCEPT ![i] = "deleted"]
  /\ UNCHANGED <<request, sending, jobs>>

\* The image is built or not: either way the agent is told, then the row goes.
Applied(i) ==
  /\ jobs[i] > 0
  /\ jobs' = [jobs EXCEPT ![i] = @ - 1]
  /\ told' = told \cup {i[1]}
  /\ approval' = [approval EXCEPT ![i] = "deleted"]
  /\ UNCHANGED <<platform, asking, request, sending, gateway, crashes>>
-----------------------------------------------------------------------------
(* The credential requests of the gateway *)

\* handleRequest: approvers are looked up and the card is sent, if there are any.
GatewayAsks(g) ==
  /\ gate[g] = "no" /\ More
  /\ \E how \in {"sending", "deny"} : gate' = [gate EXCEPT ![g] = how]
  /\ UNCHANGED <<platform, asking, selfmod, crow, waiting, expiring, stale, crashes>>

PostCredential(g) ==
  /\ gate[g] = "sending"
  /\ Appears(g)
  /\ UNCHANGED <<clicks, pressed, asking, selfmod, gateway, crashes>>

\* The call returns: the row is inserted and the promise is pending.
CredentialSent(g) ==
  /\ gate[g] = "sending"
  /\ gate' = [gate EXCEPT ![g] = "open"]
  /\ crow' = crow \cup {g}
  /\ waiting' = waiting \cup {g}
  /\ UNCHANGED <<platform, asking, selfmod, expiring, stale, crashes>>

CredentialFailed(g) ==
  /\ gate[g] = "sending"
  /\ gate' = [gate EXCEPT ![g] = "deny"]
  /\ UNCHANGED <<platform, asking, selfmod, crow, waiting, expiring, stale, crashes>>

\* The expiry timer; expireApproval finds the row and edits the card.
TimerFires(g) ==
  /\ g \in waiting
  /\ waiting' = waiting \ {g}
  /\ gate' = [gate EXCEPT ![g] = "deny"]
  /\ expiring' = expiring \cup (crow \cap {g})
  /\ UNCHANGED <<platform, asking, selfmod, crow, stale, crashes>>

\* An edit takes the buttons of a card away, unless it fails.
Edited(x) == card' \in {card, [card EXCEPT ![x] = "edited"]}

Expired(g) ==
  /\ g \in expiring
  /\ expiring' = expiring \ {g}
  /\ crow' = crow \ {g}
  /\ Edited(g)
  /\ UNCHANGED <<clicks, pressed, asking, selfmod, gate, waiting, stale, crashes>>

\* Mutant: the sweep leaves the row.
SweepCardOnly(g) ==
  /\ g \in stale
  /\ stale' = stale \ {g}
  /\ Edited(g)
  /\ UNCHANGED <<clicks, pressed, asking, selfmod, gate, crow, waiting, expiring, crashes>>

\* The sweep at startup: it edits the card of a row and deletes it.
Sweep(g) ==
  /\ g \in stale
  /\ stale' = stale \ {g}
  /\ crow' = crow \ {g}
  /\ Edited(g)
  /\ UNCHANGED <<clicks, pressed, asking, selfmod, gate, waiting, expiring, crashes>>

\* Mutant: whatever is not "reject" approves.
ResolveUnlessRejected(g, v) ==
  /\ g \in waiting
  /\ waiting' = waiting \ {g}
  /\ crow' = crow \ {g}
  /\ gate' = [gate EXCEPT ![g] = IF v = "reject" THEN "rejected" ELSE "approve"]
  /\ UNCHANGED <<expiring, stale>>

\* resolveOneCLIApproval: whatever is not "approve" denies.
Resolve(g, v) ==
  /\ g \in waiting
  /\ waiting' = waiting \ {g}
  /\ crow' = crow \ {g}
  /\ gate' = [gate EXCEPT ![g] = IF v = "approve" THEN "approve" ELSE "rejected"]
  /\ UNCHANGED <<expiring, stale>>

\* A row without a promise is dropped.
DropRow(g) ==
  /\ g \notin waiting /\ g \in crow
  /\ crow' = crow \ {g}
  /\ UNCHANGED <<gate, waiting, expiring, stale>>
-----------------------------------------------------------------------------
(* Clicks *)

\* Mutant: the rows of questions are not looked up.
HasApprovalRow(x) == x \in crow \/ (x \in Approvals /\ approval[x] = "pending")

HasRow(x) == x \in qrow \/ x \in crow \/ (x \in Approvals /\ approval[x] = "pending")

\* The bridge resolves the number of a button by the options of the card's row
\* and edits the card.
Press(x, option) ==
  /\ Shown(x)
  /\ pressed' = [y \in DOMAIN pressed |-> IF y = x THEN pressed[y] \cup {option} ELSE pressed[y]]
  /\ clicks' = clicks \cup {<<x, IF HasRow(x) THEN option ELSE Index>>}
  /\ UNCHANGED <<card, asking, selfmod, gateway, crashes>>

\* The response goes to the session and the row is deleted; a second response
\* is never looked at.
Respond(q, v) ==
  /\ q \in qrow
  /\ answer' = [answer EXCEPT ![q] = IF @ = "none" THEN v ELSE @]
  /\ qrow' = qrow \ {q}
  /\ UNCHANGED <<question, outbox, tries>>

\* dispatchResponse: the first handler that knows the card claims the click.
Dispatch(x, v) ==
  /\ <<x, v>> \in clicks
  /\ clicks' = clicks \ {<<x, v>>}
  /\ Edited(x)
  /\ \/ Resolve(x, v) /\ UNCHANGED <<asking, selfmod>>
     \/ DropRow(x) /\ UNCHANGED <<asking, selfmod>>
     \/ /\ x \in Approvals
        /\ IF v = "approve" THEN Approve(x) ELSE Reject(x)
        /\ UNCHANGED <<asking, gateway>>
     \/ Respond(x, v) /\ UNCHANGED <<selfmod, gateway>>
     \/ ~HasRow(x) /\ x \notin waiting /\ UNCHANGED <<asking, selfmod, gateway>>
  /\ UNCHANGED <<pressed, crashes>>
-----------------------------------------------------------------------------
\* The edits that were under way when the host died were made or not.
EditsEnd ==
  \E E \in SUBSET ({k[1] : k \in clicks} \cup expiring \cup stale) :
    card' = [x \in Cards |-> IF x \in E THEN "edited" ELSE card[x]]

\* Mutant: the host comes up without the sweep.
HostCrashUnswept ==
  /\ crashes < MaxCrash
  /\ crashes' = crashes + 1
  /\ clicks' = {}
  /\ outbox' = [q \in Questions |-> IF outbox[q] = "sending" THEN "due" ELSE outbox[q]]
  /\ tries' = [q \in Questions |-> 0]
  /\ request' = [r \in Requests |-> IF request[r] = "asking" THEN "queued" ELSE request[r]]
  /\ sending' = {}
  /\ jobs' = [i \in Approvals |-> 0]
  /\ gate' = [g \in Credentials |-> IF gate[g] \in {"sending", "open"} THEN "lost" ELSE gate[g]]
  /\ waiting' = {} /\ expiring' = {}
  /\ stale' = {}
  /\ EditsEnd
  /\ UNCHANGED <<pressed, question, qrow, answer, approval, told, crow>>

\* The host dies and restarts.  What it was sending is sent again, or decided by
\* the gateway; a click whose card was being edited is lost, and the card may
\* have lost its buttons; the sweep reads the rows that are left.
HostCrash ==
  /\ crashes < MaxCrash
  /\ crashes' = crashes + 1
  /\ clicks' = {}
  /\ outbox' = [q \in Questions |-> IF outbox[q] = "sending" THEN "due" ELSE outbox[q]]
  /\ tries' = [q \in Questions |-> 0]
  /\ request' = [r \in Requests |-> IF request[r] = "asking" THEN "queued" ELSE request[r]]
  /\ sending' = {}
  /\ jobs' = [i \in Approvals |-> 0]
  /\ gate' = [g \in Credentials |-> IF gate[g] \in {"sending", "open"} THEN "lost" ELSE gate[g]]
  /\ waiting' = {} /\ expiring' = {}
  /\ stale' = crow
  /\ EditsEnd
  /\ UNCHANGED <<pressed, question, qrow, answer, approval, told, crow>>

Next ==
  \/ \E q \in Questions :
       \/ Ask(q) \/ Deliver(q) \/ PostQuestion(q) \/ QuestionSent(q) \/ QuestionFailed(q)
       \/ Poll(q) \/ StopAsking(q)
  \/ \E r \in Requests : Install(r) \/ Execute(r) \/ NobodyToAsk(r) \/ AskApproval(r)
  \/ \E i \in Approvals : PostApproval(i) \/ ApprovalSent(i) \/ Applied(i)
  \/ \E g \in Credentials :
       \/ GatewayAsks(g) \/ PostCredential(g) \/ CredentialSent(g) \/ CredentialFailed(g)
       \/ TimerFires(g) \/ Expired(g) \/ Sweep(g)
  \/ \E x \in Cards, option \in Options : Press(x, option)
  \/ \E x \in Cards, v \in Options \cup {Index} : Dispatch(x, v)
  \/ HostCrash

Spec == Init /\ [][Next]_vars

\* Fairness: timers fire, and the calls that send or edit a card settle.
FairSpec ==
  /\ Spec
  /\ \A g \in Credentials :
       /\ WF_vars(CredentialSent(g) \/ CredentialFailed(g))
       /\ WF_vars(TimerFires(g))
       /\ WF_vars(Expired(g))
       /\ WF_vars(Sweep(g))
-----------------------------------------------------------------------------
(* Properties *)

TypeOK ==
  /\ card \in [Cards -> {"none", "buttons", "edited"}]
  /\ clicks \subseteq Cards \X (Options \cup {Index})
  /\ pressed \in [Questions \cup Credentials -> SUBSET Options]
  /\ question \in [Questions -> {"no", "asking", "returned", "timedout", "gone"}]
  /\ outbox \in [Questions -> {"none", "due", "sending", "sent", "failed"}]
  /\ tries \in [Questions -> 0..(MaxTries - 1)]
  /\ qrow \subseteq Questions
  /\ answer \in [Questions -> Options \cup {Index, "none"}]
  /\ request \in [Requests -> {"no", "queued", "asking", "handled"}]
  /\ approval \in [Approvals -> {"none", "pending", "deleted"}]
  /\ sending \subseteq Approvals
  /\ jobs \in [Approvals -> 0..MaxJobs]
  /\ told \subseteq Requests
  /\ gate \in [Credentials -> {"no", "sending", "open", "approve", "rejected", "deny", "lost"}]
  /\ crow \subseteq Credentials
  /\ waiting = {g \in Credentials : gate[g] = "open"}
  /\ expiring \subseteq Credentials
  /\ stale \subseteq Credentials
  /\ crashes \in 0..MaxCrash

\* A click on the buttons of a question or of an approval always finds a row,
\* until there is an answer or an outcome: also when the send of the card failed
\* after the platform had shown it, or is repeated after a crash.
ClickIsHeard ==
  /\ \A q \in Questions : Shown(q) => q \in qrow \/ answer[q] # "none"
  /\ \A i \in Approvals : Shown(i) => approval[i] = "pending" \/ i[1] \in told

\* What the tool call returns to the agent is an option its user pressed, and
\* not the number of a button.
AnswersWereGiven ==
  \A q \in Questions : question[q] = "returned" => answer[q] \in pressed[q]

\* The gateway releases a credential only after somebody pressed "Approve" on its
\* own card, and nobody's silence is a rejection: also when a click comes before
\* the row and is dispatched as the number of its button.
GrantsWereGiven ==
  \A g \in Credentials :
    /\ gate[g] = "approve" => "approve" \in pressed[g]
    /\ gate[g] = "rejected" => pressed[g] # {}

\* A request that the host has handled is not forgotten, whatever is clicked and
\* wherever the host dies: the agent was told of it, or its row is still there.
NothingForgotten ==
  \A r \in Requests : request[r] = "handled" =>
    \/ r \in told
    \/ \E k \in 0..MaxCrash : approval[<<r, k>>] = "pending" \/ jobs[<<r, k>>] > 0

Decided == {"approve", "rejected", "deny"}

\* The gateway is told one thing: a click and the timer do not both decide.
DecidedOnce ==
  [][\A g \in Credentials : gate[g] \in Decided => gate'[g] = gate[g]]_vars

\* Somebody is left who will delete the row of a credential: its promise, the
\* expiry that edits its card, or the sweep of a later host.
NoOrphanRow == crow \subseteq waiting \cup expiring \cup stale

\* The gateway gets an answer, unless the host dies, and the row goes.
CredentialsSettle ==
  \A g \in Credentials :
    /\ gate[g] = "sending" ~> gate[g] \in Decided \cup {"lost"}
    /\ g \in crow ~> g \notin crow
-----------------------------------------------------------------------------
(* What the repository says of the program and the code does not do *)

\* chat-sdk-bridge.ts: "The onAction handlers resolve the index back to the real
\* value via getAskQuestionRender(questionId)."  A credential's row comes after
\* its card: an early "Approve" is dispatched as the button's number, and denies.
RejectedWasPressed ==
  \A g \in Credentials : gate[g] = "rejected" => "reject" \in pressed[g]
=============================================================================
