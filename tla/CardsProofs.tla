---------------------------- MODULE CardsProofs ----------------------------
(* Proofs of the safety properties of Cards, for every value of its constants. *)
EXTENDS Cards, TLAPS

CardsTyped ==
  /\ card \in [Cards -> {"none", "buttons", "edited"}]
  /\ clicks \subseteq Cards \X (Options \cup {Index})
  /\ pressed \in [Questions \cup Credentials -> SUBSET Options]

QuestionsTyped ==
  /\ question \in [Questions -> {"no", "asking", "returned", "timedout", "gone"}]
  /\ outbox \in [Questions -> {"none", "due", "sending", "sent", "failed"}]
  /\ tries \in [Questions -> 0..(MaxTries - 1)]
  /\ qrow \subseteq Questions
  /\ answer \in [Questions -> Options \cup {Index, "none"}]

RequestsTyped ==
  /\ request \in [Requests -> {"no", "queued", "asking", "handled"}]
  /\ approval \in [Approvals -> {"none", "pending", "deleted"}]
  /\ sending \subseteq Approvals
  /\ jobs \in [Approvals -> 0..MaxJobs]
  /\ told \subseteq Requests
  /\ crashes \in 0..MaxCrash

GatewayTyped ==
  /\ gate \in [Credentials -> {"no", "sending", "open", "approve", "rejected", "deny", "lost"}]
  /\ crow \subseteq Credentials
  /\ waiting = {g \in Credentials : gate[g] = "open"}
  /\ expiring \subseteq Credentials
  /\ stale \subseteq Credentials

LEMMA TypeParts == TypeOK <=> CardsTyped /\ QuestionsTyped /\ RequestsTyped /\ GatewayTyped
BY DEF TypeOK, CardsTyped, QuestionsTyped, RequestsTyped, GatewayTyped
-----------------------------------------------------------------------------
(* Who may change what: a step of one kind of cards leaves the rows of the    *)
(* others alone, and on the platform it adds nothing to their cards.          *)

AskingStep(q) ==
  \/ Ask(q) \/ Deliver(q) \/ PostQuestion(q) \/ QuestionSent(q) \/ QuestionFailed(q)
  \/ Poll(q) \/ StopAsking(q)

RequestStep(r) == Install(r) \/ Execute(r) \/ NobodyToAsk(r) \/ AskApproval(r)

ApprovalStep(i) == PostApproval(i) \/ ApprovalSent(i) \/ Applied(i)

GatewayStep(g) ==
  \/ GatewayAsks(g) \/ PostCredential(g) \/ CredentialSent(g) \/ CredentialFailed(g)
  \/ TimerFires(g) \/ Expired(g) \/ Sweep(g)

\* What is left of a step for the cards of a set.
Quiet(S) ==
  /\ \A x \in S : Shown(x)' => Shown(x)
  /\ \A k \in clicks' : k[1] \in S => k \in clicks
  /\ \A x \in S \cap DOMAIN pressed : pressed[x] \subseteq pressed'[x]

LEMMA Kinds ==
  /\ Questions \cap Credentials = {} /\ Questions \cap Approvals = {}
  /\ Credentials \cap Approvals = {}
  /\ Cards = Questions \cup Credentials \cup Approvals
BY ConstantsOK DEF Approvals, Cards

LEMMA EditedIsCalm ==
  ASSUME CardsTyped, NEW x \in Cards, Edited(x)
  PROVE  /\ card' \in [Cards -> {"none", "buttons", "edited"}]
         /\ \A y \in Cards : Shown(y)' => Shown(y)
BY DEF CardsTyped, Edited, Shown

LEMMA AppearsIsCalm ==
  ASSUME CardsTyped, NEW x \in Cards, Appears(x)
  PROVE  /\ card' \in [Cards -> {"none", "buttons", "edited"}]
         /\ \A y \in Cards : y # x /\ Shown(y)' => Shown(y)
BY DEF CardsTyped, Appears, Shown

LEMMA AskingIsCalm ==
  ASSUME CardsTyped, NEW q \in Questions, AskingStep(q)
  PROVE  /\ CardsTyped' /\ UNCHANGED <<selfmod, gateway, crashes, clicks, pressed>>
         /\ Quiet(Credentials \cup Approvals)
<1>1. UNCHANGED <<selfmod, gateway, crashes, clicks, pressed>>
  BY DEF AskingStep, Ask, Deliver, PostQuestion, QuestionSent, QuestionFailed, Poll, StopAsking,
         platform
<1>2. card' = card \/ Appears(q)
  BY DEF AskingStep, Ask, Deliver, PostQuestion, QuestionSent, QuestionFailed, Poll, StopAsking,
         platform
<1>3. /\ card' \in [Cards -> {"none", "buttons", "edited"}]
      /\ \A y \in Cards : y # q /\ Shown(y)' => Shown(y)
  BY <1>2, AppearsIsCalm, Kinds DEF CardsTyped, Shown
<1>4. QED
  BY <1>1, <1>3, Kinds DEF CardsTyped, Quiet

LEMMA RequestIsCalm ==
  ASSUME CardsTyped, NEW r \in Requests, RequestStep(r)
  PROVE  CardsTyped' /\ UNCHANGED <<asking, gateway, crashes, platform>>
BY DEF RequestStep, Install, Execute, NobodyToAsk, AskApproval, platform, CardsTyped

LEMMA ApprovalIsCalm ==
  ASSUME CardsTyped, NEW i \in Approvals, ApprovalStep(i)
  PROVE  /\ CardsTyped' /\ UNCHANGED <<asking, gateway, crashes, clicks, pressed>>
         /\ Quiet(Questions \cup Credentials)
<1>1. UNCHANGED <<asking, gateway, crashes, clicks, pressed>>
  BY DEF ApprovalStep, PostApproval, ApprovalSent, Applied, platform
<1>2. card' = card \/ Appears(i)
  BY DEF ApprovalStep, PostApproval, ApprovalSent, Applied, platform
<1>3. /\ card' \in [Cards -> {"none", "buttons", "edited"}]
      /\ \A y \in Cards : y # i /\ Shown(y)' => Shown(y)
  BY <1>2, AppearsIsCalm, Kinds DEF CardsTyped, Shown
<1>4. QED
  BY <1>1, <1>3, Kinds DEF CardsTyped, Quiet

LEMMA GatewayIsCalm ==
  ASSUME CardsTyped, NEW g \in Credentials, GatewayStep(g)
  PROVE  /\ CardsTyped' /\ UNCHANGED <<asking, selfmod, crashes, clicks, pressed>>
         /\ Quiet(Questions \cup Approvals)
<1>1. UNCHANGED <<asking, selfmod, crashes, clicks, pressed>>
  BY DEF GatewayStep, GatewayAsks, PostCredential, CredentialSent, CredentialFailed, TimerFires,
         Expired, Sweep, platform
<1>2. card' = card \/ Appears(g) \/ Edited(g)
  BY DEF GatewayStep, GatewayAsks, PostCredential, CredentialSent, CredentialFailed, TimerFires,
         Expired, Sweep, platform
<1>3. /\ card' \in [Cards -> {"none", "buttons", "edited"}]
      /\ \A y \in Cards : y # g /\ Shown(y)' => Shown(y)
  BY <1>2, AppearsIsCalm, EditedIsCalm, Kinds DEF CardsTyped, Shown
<1>4. QED
  BY <1>1, <1>3, Kinds DEF CardsTyped, Quiet

LEMMA PressIsCalm ==
  ASSUME CardsTyped, NEW x \in Cards, NEW option \in Options, Press(x, option)
  PROVE  /\ CardsTyped' /\ UNCHANGED <<card, asking, selfmod, gateway, crashes>>
         /\ \A y \in DOMAIN pressed : pressed[y] \subseteq pressed'[y]
         /\ \A k \in clicks' : k \in clicks \/ (k[1] = x /\ Shown(x))
         /\ \A k \in clicks' \ clicks :
              \/ k[2] = Index /\ ~HasRow(x)
              \/ k[2] \in Options /\ (x \in DOMAIN pressed => k[2] \in pressed'[x])
         /\ x \in DOMAIN pressed => pressed'[x] # {}
<1>1. UNCHANGED <<card, asking, selfmod, gateway, crashes>>
  BY DEF Press
<1>2. /\ pressed' \in [Questions \cup Credentials -> SUBSET Options]
      /\ \A y \in DOMAIN pressed : pressed[y] \subseteq pressed'[y]
      /\ x \in DOMAIN pressed => option \in pressed'[x]
  BY DEF Press, CardsTyped
<1>3. /\ clicks' \subseteq Cards \X (Options \cup {Index})
      /\ \A k \in clicks' : k \in clicks \/ (k[1] = x /\ Shown(x))
  BY DEF Press, CardsTyped
<1>4. \A k \in clicks' \ clicks :
        \/ k[2] = Index /\ ~HasRow(x)
        \/ k[2] \in Options /\ (x \in DOMAIN pressed => k[2] \in pressed'[x])
  BY <1>2 DEF Press
<1>5. QED
  BY <1>1, <1>2, <1>3, <1>4 DEF CardsTyped

LEMMA DispatchIsCalm ==
  ASSUME CardsTyped, NEW x \in Cards, NEW v, Dispatch(x, v)
  PROVE  /\ CardsTyped' /\ UNCHANGED <<pressed, crashes>>
         /\ <<x, v>> \in clicks /\ clicks' \subseteq clicks
         /\ \A y \in Cards : Shown(y)' => Shown(y)
         /\ Quiet(Cards)
<1>1. UNCHANGED <<pressed, crashes>> /\ <<x, v>> \in clicks /\ clicks' \subseteq clicks /\ Edited(x)
  BY DEF Dispatch
<1>2. /\ card' \in [Cards -> {"none", "buttons", "edited"}]
      /\ \A y \in Cards : Shown(y)' => Shown(y)
  BY <1>1, EditedIsCalm
<1>3. QED
  BY <1>1, <1>2 DEF CardsTyped, Quiet

LEMMA CrashIsCalm ==
  ASSUME CardsTyped, HostCrash
  PROVE  /\ CardsTyped' /\ clicks' = {} /\ pressed' = pressed
         /\ \A y \in Cards : Shown(y)' => Shown(y)
<1>1. PICK E : card' = [x \in Cards |-> IF x \in E THEN "edited" ELSE card[x]]
  BY DEF HostCrash, EditsEnd
<1>2. clicks' = {} /\ pressed' = pressed
  BY DEF HostCrash
<1>3. QED
  BY <1>1, <1>2 DEF CardsTyped, Shown

\* A click is claimed by the rows of its own kind of card, or by none.
LEMMA DispatchKinds ==
  ASSUME CardsTyped, QuestionsTyped, GatewayTyped, NEW x \in Cards, NEW v, Dispatch(x, v)
  PROVE  \/ x \in Credentials /\ (Resolve(x, v) \/ DropRow(x)) /\ UNCHANGED <<asking, selfmod>>
         \/ /\ x \in Approvals
            /\ Approve(x) \/ Reject(x)
            /\ UNCHANGED <<asking, gateway>>
         \/ x \in Questions /\ Respond(x, v) /\ UNCHANGED <<selfmod, gateway>>
         \/ UNCHANGED <<asking, selfmod, gateway>>
<1>1. CASE Resolve(x, v) /\ UNCHANGED <<asking, selfmod>>
  BY <1>1 DEF Resolve, GatewayTyped
<1>2. CASE DropRow(x) /\ UNCHANGED <<asking, selfmod>>
  BY <1>2 DEF DropRow, GatewayTyped
<1>3. CASE /\ x \in Approvals
           /\ IF v = "approve" THEN Approve(x) ELSE Reject(x)
           /\ UNCHANGED <<asking, gateway>>
  BY <1>3
<1>4. CASE Respond(x, v) /\ UNCHANGED <<selfmod, gateway>>
  BY <1>4 DEF Respond, QuestionsTyped
<1>5. CASE UNCHANGED <<asking, selfmod, gateway>>
  BY <1>5
<1>6. QED
  BY <1>1, <1>2, <1>3, <1>4, <1>5 DEF Dispatch
-----------------------------------------------------------------------------
(* Questions *)

Heard(q) == q \in qrow \/ answer[q] # "none"

QuestionsHeard ==
  \A q \in Questions : Shown(q) \/ outbox[q] = "sending" => Heard(q)

\* A click that names no option comes after the answer.
ClicksWerePressed ==
  \A q \in Questions, v \in Options \cup {Index} : <<q, v>> \in clicks =>
    v \in pressed[q] \/ (v = Index /\ answer[q] # "none")

AnswersWerePressed ==
  \A q \in Questions :
    /\ answer[q] = "none" \/ answer[q] \in pressed[q]
    /\ question[q] = "returned" => answer[q] # "none"

QuestionsInv ==
  /\ CardsTyped /\ QuestionsTyped
  /\ QuestionsHeard /\ ClicksWerePressed /\ AnswersWerePressed

LEMMA AskingKeeps ==
  ASSUME QuestionsInv, NEW q \in Questions, AskingStep(q)
  PROVE  QuestionsInv'
<1>1. CardsTyped' /\ UNCHANGED <<clicks, pressed>>
  BY AskingIsCalm DEF QuestionsInv
<1>2. \A y \in Questions : y \in qrow => y \in qrow'
  BY DEF AskingStep, Ask, Deliver, PostQuestion, QuestionSent, QuestionFailed, Poll, StopAsking,
         asking
<1>3. answer' = answer
  BY DEF AskingStep, Ask, Deliver, PostQuestion, QuestionSent, QuestionFailed, Poll, StopAsking,
         asking
<1>4. QuestionsTyped'
  BY ConstantsOK DEF AskingStep, Ask, Deliver, PostQuestion, QuestionSent, QuestionFailed, Poll,
     StopAsking, asking, QuestionsInv, QuestionsTyped
<1>5. QuestionsHeard'
  <2>1. CASE PostQuestion(q)
    <3>1. Heard(q) /\ outbox' = outbox
      BY <2>1 DEF PostQuestion, QuestionsInv, QuestionsHeard, asking
    <3>2. \A y \in Questions : y # q /\ Shown(y)' => Shown(y)
      BY <2>1, AppearsIsCalm, Kinds DEF PostQuestion, QuestionsInv
    <3>3. QED
      BY <1>2, <1>3, <3>1, <3>2 DEF QuestionsInv, QuestionsHeard, Heard
  <2>2. CASE Deliver(q)
    <3>1. q \in qrow' /\ card' = card /\ \A y \in Questions \ {q} : outbox'[y] = outbox[y]
      BY <2>2 DEF Deliver, platform, QuestionsInv, QuestionsTyped
    <3>2. QED
      BY <1>2, <1>3, <3>1 DEF QuestionsInv, QuestionsHeard, Heard, Shown
  <2>3. CASE Ask(q) \/ QuestionSent(q) \/ QuestionFailed(q) \/ Poll(q) \/ StopAsking(q)
    <3>1. card' = card
      BY <2>3 DEF Ask, QuestionSent, QuestionFailed, Poll, StopAsking, platform
    <3>2. \A y \in Questions : outbox'[y] = "sending" => outbox[y] = "sending"
      BY <2>3 DEF Ask, QuestionSent, QuestionFailed, Poll, StopAsking, asking, QuestionsInv,
                  QuestionsTyped
    <3>3. QED
      BY <1>2, <1>3, <3>1, <3>2 DEF QuestionsInv, QuestionsHeard, Heard, Shown
  <2>4. QED
    BY <2>1, <2>2, <2>3 DEF AskingStep
<1>6. \A y \in Questions : question'[y] = "returned" => question[y] = "returned" \/ answer[y] # "none"
  BY DEF AskingStep, Ask, Deliver, PostQuestion, QuestionSent, QuestionFailed, Poll, StopAsking,
         asking, QuestionsInv, QuestionsTyped
<1>7. ClicksWerePressed' /\ AnswersWerePressed'
  BY <1>1, <1>3, <1>6 DEF QuestionsInv, ClicksWerePressed, AnswersWerePressed
<1>8. QED
  BY <1>1, <1>4, <1>5, <1>7 DEF QuestionsInv

LEMMA QuestionsRest ==
  ASSUME QuestionsInv, UNCHANGED asking, CardsTyped', Quiet(Questions)
  PROVE  QuestionsInv'
<1>1. QuestionsTyped' /\ QuestionsHeard'
  BY DEF QuestionsInv, QuestionsTyped, QuestionsHeard, Heard, Quiet, asking
<1>2. \A q \in Questions : pressed[q] \subseteq pressed'[q]
  BY DEF Quiet, QuestionsInv, CardsTyped
<1>3. \A q \in Questions, v \in Options \cup {Index} : <<q, v>> \in clicks' => <<q, v>> \in clicks
  BY DEF Quiet
<1>4. ClicksWerePressed' /\ AnswersWerePressed'
  BY <1>2, <1>3 DEF QuestionsInv, ClicksWerePressed, AnswersWerePressed, asking
<1>5. QED
  BY <1>1, <1>4 DEF QuestionsInv

LEMMA QuestionsPress ==
  ASSUME QuestionsInv, NEW x \in Cards, NEW option \in Options, Press(x, option)
  PROVE  QuestionsInv'
<1>1. CardsTyped' /\ UNCHANGED <<card, asking>>
  BY PressIsCalm DEF QuestionsInv
<1>2. QuestionsTyped' /\ QuestionsHeard'
  BY <1>1 DEF QuestionsInv, QuestionsTyped, QuestionsHeard, Heard, Shown, asking
<1>3. \A q \in Questions : pressed[q] \subseteq pressed'[q]
  BY PressIsCalm DEF QuestionsInv, CardsTyped
<1>4. ASSUME NEW q \in Questions, NEW v \in Options \cup {Index}, <<q, v>> \in clicks'
      PROVE  v \in pressed'[q] \/ (v = Index /\ answer'[q] # "none")
  <2>1. CASE <<q, v>> \in clicks
    BY <1>1, <1>3, <2>1 DEF QuestionsInv, ClicksWerePressed, asking
  <2>2. CASE <<q, v>> \notin clicks
    <3>1. q = x /\ Shown(x) /\ ((v = Index /\ ~HasRow(x)) \/ v \in pressed'[x])
      BY <1>4, <2>2, PressIsCalm DEF QuestionsInv, CardsTyped
    <3>2. ~HasRow(x) => answer[x] # "none"
      BY <3>1 DEF HasRow, QuestionsInv, QuestionsHeard, Heard
    <3>3. QED
      BY <1>1, <3>1, <3>2 DEF asking
  <2>3. QED
    BY <2>1, <2>2
<1>5. AnswersWerePressed'
  BY <1>1, <1>3 DEF QuestionsInv, AnswersWerePressed, asking
<1>6. QED
  BY <1>1, <1>2, <1>4, <1>5 DEF QuestionsInv, ClicksWerePressed

LEMMA QuestionsRespond ==
  ASSUME QuestionsInv, NEW x \in Questions, NEW v, Dispatch(x, v), Respond(x, v)
  PROVE  QuestionsInv'
<1>1. /\ CardsTyped' /\ pressed' = pressed /\ <<x, v>> \in clicks /\ clicks' \subseteq clicks
      /\ \A y \in Questions : Shown(y)' => Shown(y)
  BY DispatchIsCalm, Kinds DEF QuestionsInv
<1>2. v \in Options \cup {Index}
  BY <1>1 DEF QuestionsInv, CardsTyped
<1>3. /\ \A y \in Questions \ {x} : answer'[y] = answer[y]
      /\ answer'[x] = IF answer[x] = "none" THEN v ELSE answer[x]
  BY DEF Respond, QuestionsInv, QuestionsTyped
<1>4. v \in pressed[x] \/ answer[x] # "none"
  BY <1>1, <1>2 DEF QuestionsInv, ClicksWerePressed
<1>5. v # "none"
  BY <1>2 DEF Options, Index
<1>6. QuestionsTyped'
  BY <1>2 DEF Respond, QuestionsInv, QuestionsTyped
<1>7. QuestionsHeard'
  BY <1>1, <1>3, <1>5 DEF Respond, QuestionsInv, QuestionsHeard, Heard
<1>8. ClicksWerePressed'
  BY <1>1, <1>3, <1>5 DEF QuestionsInv, ClicksWerePressed
<1>9. AnswersWerePressed'
  BY <1>1, <1>3, <1>4, <1>5 DEF Respond, QuestionsInv, AnswersWerePressed
<1>10. QED
  BY <1>1, <1>6, <1>7, <1>8, <1>9 DEF QuestionsInv

LEMMA QuestionsCrash ==
  ASSUME QuestionsInv, HostCrash
  PROVE  QuestionsInv'
<1>1. clicks' = {} /\ UNCHANGED <<pressed, question, qrow, answer>>
  BY DEF HostCrash
<1>2. CardsTyped' /\ \A q \in Questions : Shown(q)' => Shown(q)
  BY CrashIsCalm, Kinds DEF QuestionsInv
<1>3. QuestionsTyped'
  BY <1>1, ConstantsOK DEF HostCrash, QuestionsInv, QuestionsTyped
<1>4. \A q \in Questions : outbox'[q] # "sending"
  BY DEF HostCrash
<1>5. QuestionsHeard' /\ ClicksWerePressed' /\ AnswersWerePressed'
  BY <1>1, <1>2, <1>4 DEF QuestionsInv, QuestionsHeard, Heard, ClicksWerePressed,
                          AnswersWerePressed
<1>6. QED
  BY <1>2, <1>3, <1>5 DEF QuestionsInv
-----------------------------------------------------------------------------
(* Requests for approval *)

\* An approval whose card can be clicked, is being sent or is being handled has
\* its row, or its agent knows.
Kept(i) == approval[i] = "pending" \/ i[1] \in told

ApprovalsKept ==
  \A i \in Approvals : Shown(i) \/ i \in sending \/ jobs[i] > 0 => Kept(i)

HandledIsKept ==
  \A r \in Requests : request[r] = "handled" =>
    r \in told \/ \E k \in 0..MaxCrash : approval[<<r, k>>] = "pending"

RequestsInv == RequestsTyped /\ ApprovalsKept /\ HandledIsKept

\* The rows that go leave an agent that was told.
LEMMA KeptStays ==
  ASSUME RequestsInv, RequestsTyped', told \subseteq told',
         \A i \in Approvals : approval[i] = "pending" => approval'[i] = "pending" \/ i[1] \in told',
         \A i \in Approvals : Shown(i)' \/ i \in sending' \/ jobs'[i] > 0 =>
           Shown(i) \/ i \in sending \/ jobs[i] > 0 \/ approval'[i] = "pending",
         \A r \in Requests : request'[r] = "handled" =>
           request[r] = "handled" \/ r \in told' \/ \E i \in sending : i[1] = r
  PROVE  RequestsInv'
<1>1. ApprovalsKept'
  BY DEF RequestsInv, ApprovalsKept, Kept
<1>2. ASSUME NEW r \in Requests, request'[r] = "handled", r \notin told'
      PROVE  \E k \in 0..MaxCrash : approval'[<<r, k>>] = "pending"
  <2>1. CASE request[r] = "handled"
    <3>1. PICK k \in 0..MaxCrash : approval[<<r, k>>] = "pending"
      BY <1>2, <2>1 DEF RequestsInv, HandledIsKept
    <3>2. <<r, k>> \in Approvals /\ <<r, k>>[1] = r
      BY DEF Approvals
    <3>3. QED
      BY <1>2, <3>1, <3>2
  <2>2. CASE \E i \in sending : i[1] = r
    <3>1. PICK i \in sending : i[1] = r
      BY <2>2
    <3>2. i \in Approvals /\ i = <<r, i[2]>> /\ i[2] \in 0..MaxCrash
      BY <3>1 DEF RequestsInv, RequestsTyped, Approvals
    <3>3. approval[i] = "pending"
      BY <1>2, <3>1, <3>2 DEF RequestsInv, ApprovalsKept, Kept
    <3>4. QED
      BY <1>2, <3>1, <3>2, <3>3
  <2>3. QED
    BY <1>2, <2>1, <2>2
<1>3. HandledIsKept'
  BY <1>2 DEF HandledIsKept
<1>4. QED
  BY <1>1, <1>3 DEF RequestsInv

LEMMA RequestKeeps ==
  ASSUME CardsTyped, RequestsInv, NEW r \in Requests, RequestStep(r)
  PROVE  RequestsInv'
<1>1. card' = card /\ crashes' = crashes /\ <<r, crashes>> \in Approvals
  BY RequestIsCalm DEF platform, RequestsInv, RequestsTyped, Approvals
<1>2. RequestsTyped'
  BY <1>1 DEF RequestStep, Install, Execute, NobodyToAsk, AskApproval, RequestsInv, RequestsTyped
<1>3. /\ told \subseteq told' /\ jobs' = jobs
      /\ \A i \in Approvals : approval[i] = "pending" => approval'[i] = "pending"
  BY <1>1 DEF RequestStep, Install, Execute, NobodyToAsk, AskApproval, RequestsInv, RequestsTyped
<1>4. \A i \in sending' : i \in sending \/ approval'[i] = "pending"
  BY <1>1 DEF RequestStep, Install, Execute, NobodyToAsk, AskApproval, RequestsInv, RequestsTyped
<1>5. \A s \in Requests : request'[s] = "handled" => request[s] = "handled" \/ s \in told'
  BY DEF RequestStep, Install, Execute, NobodyToAsk, AskApproval, RequestsInv, RequestsTyped
<1>6. QED
  BY <1>1, <1>2, <1>3, <1>4, <1>5, KeptStays DEF Shown

LEMMA ApprovalKeeps ==
  ASSUME CardsTyped, RequestsInv, NEW i \in Approvals, ApprovalStep(i)
  PROVE  RequestsInv'
<1>1. crashes' = crashes /\ i[1] \in Requests
  BY ApprovalIsCalm DEF Approvals
<1>2. RequestsTyped'
  BY <1>1, ConstantsOK DEF ApprovalStep, PostApproval, ApprovalSent, Applied, selfmod, RequestsInv,
                           RequestsTyped
<1>3. /\ told \subseteq told' /\ sending' \subseteq sending
      /\ \A j \in Approvals : approval[j] = "pending" => approval'[j] = "pending" \/ j[1] \in told'
      /\ \A j \in Approvals : jobs'[j] > 0 => jobs[j] > 0
  BY DEF ApprovalStep, PostApproval, ApprovalSent, Applied, selfmod, RequestsInv, RequestsTyped
<1>4. \A j \in Approvals : Shown(j)' => Shown(j) \/ j \in sending
  <2>1. CASE PostApproval(i)
    BY <2>1, AppearsIsCalm, Kinds DEF PostApproval
  <2>2. CASE ApprovalSent(i) \/ Applied(i)
    BY <2>2 DEF ApprovalSent, Applied, platform, Shown
  <2>3. QED
    BY <2>1, <2>2 DEF ApprovalStep
<1>5. \A s \in Requests : request'[s] = "handled" =>
        request[s] = "handled" \/ \E j \in sending : j[1] = s
  BY DEF ApprovalStep, PostApproval, ApprovalSent, Applied, selfmod, RequestsInv, RequestsTyped
<1>6. QED
  BY <1>2, <1>3, <1>4, <1>5, KeptStays

LEMMA RequestsDecide ==
  ASSUME CardsTyped, RequestsInv, NEW x \in Approvals, Approve(x) \/ Reject(x), crashes' = crashes,
         \A i \in Approvals : Shown(i)' => Shown(i)
  PROVE  RequestsInv'
<1>1. x[1] \in Requests
  BY DEF Approvals
<1>2. RequestsTyped'
  BY <1>1, ConstantsOK DEF Approve, Reject, RequestsInv, RequestsTyped
<1>3. /\ told \subseteq told' /\ sending' = sending /\ request' = request
      /\ \A i \in Approvals : approval[i] = "pending" => approval'[i] = "pending" \/ i[1] \in told'
  BY DEF Approve, Reject, RequestsInv, RequestsTyped
<1>4. \A i \in Approvals : jobs'[i] > 0 => jobs[i] > 0 \/ approval'[i] = "pending"
  BY DEF Approve, Reject, RequestsInv, RequestsTyped
<1>5. QED
  BY <1>2, <1>3, <1>4, KeptStays

LEMMA RequestsRest ==
  ASSUME RequestsInv, UNCHANGED <<selfmod, crashes>>, \A i \in Approvals : Shown(i)' => Shown(i)
  PROVE  RequestsInv'
<1>1. RequestsTyped'
  BY DEF RequestsInv, RequestsTyped, selfmod
<1>2. QED
  BY <1>1, KeptStays DEF selfmod

LEMMA RequestsCrash ==
  ASSUME RequestsInv, HostCrash, \A i \in Approvals : Shown(i)' => Shown(i)
  PROVE  RequestsInv'
<1>1. RequestsTyped'
  BY ConstantsOK DEF HostCrash, RequestsInv, RequestsTyped
<1>2. /\ told' = told /\ approval' = approval /\ sending' = {}
      /\ \A i \in Approvals : jobs'[i] = 0
      /\ \A r \in Requests : request'[r] = "handled" => request[r] = "handled"
  BY DEF HostCrash
<1>3. QED
  BY <1>1, <1>2, KeptStays
-----------------------------------------------------------------------------
(* Credentials *)

GatewayInv == GatewayTyped /\ NoOrphanRow

GatewayOnce == \A g \in Credentials : gate[g] \in Decided => gate'[g] = gate[g]

LEMMA GatewayKeeps ==
  ASSUME GatewayInv, NEW g \in Credentials, GatewayStep(g)
  PROVE  GatewayInv' /\ GatewayOnce
<1>1. GatewayTyped'
  <2>1. gate' \in [Credentials -> {"no", "sending", "open", "approve", "rejected", "deny", "lost"}]
    BY DEF GatewayStep, GatewayAsks, PostCredential, CredentialSent, CredentialFailed, TimerFires,
           Expired, Sweep, gateway, GatewayInv, GatewayTyped
  <2>2. waiting' = {h \in Credentials : gate'[h] = "open"}
    BY DEF GatewayStep, GatewayAsks, PostCredential, CredentialSent, CredentialFailed, TimerFires,
           Expired, Sweep, gateway, GatewayInv, GatewayTyped
  <2>3. crow' \subseteq Credentials /\ expiring' \subseteq Credentials /\ stale' \subseteq Credentials
    BY DEF GatewayStep, GatewayAsks, PostCredential, CredentialSent, CredentialFailed, TimerFires,
           Expired, Sweep, gateway, GatewayInv, GatewayTyped
  <2>4. QED
    BY <2>1, <2>2, <2>3 DEF GatewayTyped
<1>2. NoOrphanRow'
  BY DEF GatewayStep, GatewayAsks, PostCredential, CredentialSent, CredentialFailed, TimerFires,
         Expired, Sweep, gateway, GatewayInv, NoOrphanRow
<1>3. GatewayOnce
  BY DEF GatewayStep, GatewayAsks, PostCredential, CredentialSent, CredentialFailed, TimerFires,
         Expired, Sweep, gateway, GatewayInv, GatewayTyped, GatewayOnce, Decided
<1>4. QED
  BY <1>1, <1>2, <1>3 DEF GatewayInv

LEMMA GatewayDecides ==
  ASSUME GatewayInv, NEW x \in Credentials, NEW v, Resolve(x, v) \/ DropRow(x)
  PROVE  GatewayInv' /\ GatewayOnce
<1>1. GatewayTyped'
  BY DEF Resolve, DropRow, GatewayInv, GatewayTyped
<1>2. NoOrphanRow'
  BY DEF Resolve, DropRow, GatewayInv, NoOrphanRow
<1>3. GatewayOnce
  BY DEF Resolve, DropRow, GatewayInv, GatewayTyped, GatewayOnce, Decided
<1>4. QED
  BY <1>1, <1>2, <1>3 DEF GatewayInv

LEMMA GatewayRests ==
  ASSUME GatewayInv, UNCHANGED gateway
  PROVE  GatewayInv' /\ GatewayOnce
BY DEF gateway, GatewayInv, GatewayTyped, NoOrphanRow, GatewayOnce

LEMMA GatewayCrash ==
  ASSUME GatewayInv, HostCrash
  PROVE  GatewayInv' /\ GatewayOnce
BY DEF HostCrash, GatewayInv, GatewayTyped, NoOrphanRow, GatewayOnce, Decided
-----------------------------------------------------------------------------
(* The clicks on the cards of credentials *)

\* A click carries an option that was pressed, or the number of a pressed button.
GrantsInv ==
  /\ CardsTyped /\ GrantsWereGiven
  /\ \A g \in Credentials, v \in Options \cup {Index} : <<g, v>> \in clicks =>
       pressed[g] # {} /\ (v \in Options => v \in pressed[g])

\* A step that decides nothing, on cards it adds nothing to.
LEMMA GrantsRest ==
  ASSUME GrantsInv, CardsTyped', Quiet(Credentials),
         \A g \in Credentials : gate'[g] \in {"approve", "rejected"} => gate'[g] = gate[g]
  PROVE  GrantsInv'
<1>1. \A g \in Credentials : pressed[g] \subseteq pressed'[g]
  BY DEF Quiet, GrantsInv, CardsTyped
<1>2. \A g \in Credentials, v \in Options \cup {Index} : <<g, v>> \in clicks' => <<g, v>> \in clicks
  BY DEF Quiet
<1>3. QED
  BY <1>1, <1>2 DEF GrantsInv, GrantsWereGiven

LEMMA GrantsPress ==
  ASSUME GrantsInv, NEW x \in Cards, NEW option \in Options, Press(x, option)
  PROVE  GrantsInv'
<1>1. CardsTyped' /\ gate' = gate
  BY PressIsCalm DEF GrantsInv, gateway
<1>2. \A g \in Credentials : g \in DOMAIN pressed /\ pressed[g] \subseteq pressed'[g]
  BY PressIsCalm DEF GrantsInv, CardsTyped
<1>3. ASSUME NEW g \in Credentials, NEW v \in Options \cup {Index}, <<g, v>> \in clicks'
      PROVE  pressed'[g] # {} /\ (v \in Options => v \in pressed'[g])
  <2>1. CASE <<g, v>> \in clicks
    BY <1>2, <2>1 DEF GrantsInv
  <2>2. CASE <<g, v>> \notin clicks
    <3>1. g = x /\ (v = Index \/ v \in pressed'[x]) /\ pressed'[x] # {}
      BY <1>2, <1>3, <2>2, PressIsCalm DEF GrantsInv
    <3>2. Index \notin Options
      BY DEF Index, Options
    <3>3. QED
      BY <3>1, <3>2
  <2>3. QED
    BY <2>1, <2>2
<1>4. GrantsWereGiven'
  BY <1>1, <1>2 DEF GrantsInv, GrantsWereGiven
<1>5. QED
  BY <1>1, <1>3, <1>4 DEF GrantsInv

LEMMA GrantsDecide ==
  ASSUME GrantsInv, GatewayTyped, NEW x \in Credentials, NEW v, Dispatch(x, v),
         Resolve(x, v) \/ DropRow(x)
  PROVE  GrantsInv'
<1>1. CardsTyped' /\ Quiet(Credentials) /\ <<x, v>> \in clicks
  BY DispatchIsCalm, Kinds DEF GrantsInv, Quiet
<1>2. CASE DropRow(x)
  BY <1>1, <1>2, GrantsRest DEF DropRow
<1>3. CASE Resolve(x, v)
  <2>1. v \in Options \cup {Index}
    BY <1>1 DEF GrantsInv, CardsTyped
  <2>2. pressed[x] # {} /\ (v = "approve" => "approve" \in pressed[x]) /\ pressed' = pressed
    BY <1>1, <2>1 DEF GrantsInv, Options, Dispatch
  <2>3. /\ gate'[x] = IF v = "approve" THEN "approve" ELSE "rejected"
        /\ \A g \in Credentials \ {x} : gate'[g] = gate[g]
    BY <1>3 DEF Resolve, GatewayTyped
  <2>4. GrantsWereGiven'
    BY <2>2, <2>3 DEF GrantsInv, GrantsWereGiven
  <2>5. \A g \in Credentials, w \in Options \cup {Index} : <<g, w>> \in clicks' => <<g, w>> \in clicks
    BY <1>1 DEF Quiet
  <2>6. QED
    BY <1>1, <2>2, <2>4, <2>5 DEF GrantsInv
<1>4. QED
  BY <1>2, <1>3

\* The gateway itself, its timers and its sweeps only deny.
LEMMA GatewayGrantsNothing ==
  ASSUME GatewayTyped, NEW h \in Credentials, GatewayStep(h)
  PROVE  \A g \in Credentials : gate'[g] \in {"approve", "rejected"} => gate'[g] = gate[g]
BY DEF GatewayStep, GatewayAsks, PostCredential, CredentialSent, CredentialFailed, TimerFires,
       Expired, Sweep, gateway, GatewayTyped

LEMMA GrantsCrash ==
  ASSUME GrantsInv, HostCrash
  PROVE  GrantsInv'
<1>1. /\ CardsTyped' /\ clicks' = {} /\ pressed' = pressed
      /\ \A y \in Credentials : Shown(y)' => Shown(y)
  BY CrashIsCalm, Kinds DEF GrantsInv
<1>2. \A g \in Credentials : gate'[g] \in {"approve", "rejected"} => gate'[g] = gate[g]
  BY DEF HostCrash
<1>3. QED
  BY <1>1, <1>2, GrantsRest DEF Quiet
-----------------------------------------------------------------------------
(* The invariant, and the theorems *)

IInv == QuestionsInv /\ RequestsInv /\ GatewayInv /\ GrantsInv

LEMMA InitIInv == Init => IInv
<1> SUFFICES ASSUME Init PROVE IInv
  OBVIOUS
<1>1. CardsTyped /\ QuestionsTyped
  BY ConstantsOK DEF Init, CardsTyped, QuestionsTyped
<1>2. QuestionsHeard /\ ClicksWerePressed /\ AnswersWerePressed
  BY Kinds DEF Init, QuestionsHeard, ClicksWerePressed, AnswersWerePressed, Shown
<1>3. RequestsTyped
  BY ConstantsOK DEF Init, RequestsTyped
<1>4. ApprovalsKept /\ HandledIsKept
  BY Kinds DEF Init, ApprovalsKept, HandledIsKept, Shown
<1>5. GatewayInv
  BY DEF Init, GatewayInv, GatewayTyped, NoOrphanRow
<1>6. GrantsInv
  BY <1>1 DEF Init, GrantsInv, GrantsWereGiven
<1>7. QED
  BY <1>1, <1>2, <1>3, <1>4, <1>5, <1>6 DEF IInv, QuestionsInv, RequestsInv

LEMMA NextIInv ==
  ASSUME IInv, [Next]_vars
  PROVE  IInv' /\ GatewayOnce
<1>1. ASSUME NEW q \in Questions, AskingStep(q) PROVE IInv' /\ GatewayOnce
  <2>1. UNCHANGED <<selfmod, gateway, crashes>> /\ Quiet(Approvals) /\ Quiet(Credentials)
        /\ CardsTyped' /\ gate' = gate
    BY <1>1, AskingIsCalm DEF IInv, QuestionsInv, Quiet, gateway
  <2>2. QED
    BY <1>1, <2>1, AskingKeeps, RequestsRest, GatewayRests, GrantsRest DEF IInv, Quiet
<1>2. ASSUME NEW r \in Requests, RequestStep(r) PROVE IInv' /\ GatewayOnce
  <2>1. CardsTyped' /\ UNCHANGED <<asking, gateway, platform>>
    BY <1>2, RequestIsCalm DEF IInv, QuestionsInv
  <2>2. Quiet(Questions) /\ Quiet(Credentials) /\ gate' = gate
    BY <2>1 DEF Quiet, platform, Shown, gateway
  <2>3. QED
    BY <1>2, <2>1, <2>2, RequestKeeps, QuestionsRest, GatewayRests, GrantsRest
       DEF IInv, QuestionsInv
<1>3. ASSUME NEW i \in Approvals, ApprovalStep(i) PROVE IInv' /\ GatewayOnce
  <2>1. CardsTyped' /\ UNCHANGED <<asking, gateway>> /\ Quiet(Questions) /\ Quiet(Credentials)
        /\ gate' = gate
    BY <1>3, ApprovalIsCalm DEF IInv, QuestionsInv, Quiet, gateway
  <2>2. QED
    BY <1>3, <2>1, ApprovalKeeps, QuestionsRest, GatewayRests, GrantsRest DEF IInv, QuestionsInv
<1>4. ASSUME NEW g \in Credentials, GatewayStep(g) PROVE IInv' /\ GatewayOnce
  <2>1. CardsTyped' /\ UNCHANGED <<asking, selfmod, crashes>> /\ Quiet(Questions) /\ Quiet(Approvals)
    BY <1>4, GatewayIsCalm DEF IInv, QuestionsInv, Quiet
  <2>2. GrantsInv'
    <3>1. \A h \in Credentials : gate'[h] \in {"approve", "rejected"} => gate'[h] = gate[h]
      BY <1>4, GatewayGrantsNothing DEF IInv, GatewayInv
    <3>2. UNCHANGED <<clicks, pressed>>
      BY <1>4, GatewayIsCalm DEF IInv, QuestionsInv
    <3>3. QED
      BY <2>1, <3>1, <3>2 DEF IInv, GrantsInv, GrantsWereGiven
  <2>3. QED
    BY <1>4, <2>1, <2>2, GatewayKeeps, QuestionsRest, RequestsRest DEF IInv, Quiet
<1>5. ASSUME NEW x \in Cards, NEW option \in Options, Press(x, option) PROVE IInv' /\ GatewayOnce
  <2>1. UNCHANGED <<card, selfmod, gateway, crashes>>
    BY <1>5, PressIsCalm DEF IInv, QuestionsInv
  <2>2. QED
    BY <1>5, <2>1, QuestionsPress, RequestsRest, GatewayRests, GrantsPress DEF IInv, Shown
<1>6. ASSUME NEW x \in Cards, NEW v, Dispatch(x, v) PROVE IInv' /\ GatewayOnce
  <2>1. /\ CardsTyped' /\ crashes' = crashes /\ Quiet(Questions)
        /\ \A i \in Approvals : Shown(i)' => Shown(i)
        /\ Quiet(Credentials)
    BY <1>6, DispatchIsCalm, Kinds DEF IInv, QuestionsInv, Quiet
  <2>g. ASSUME UNCHANGED gateway PROVE GrantsInv'
    BY <2>1, <2>g, GrantsRest DEF IInv, gateway
  <2>2. CASE x \in Credentials /\ (Resolve(x, v) \/ DropRow(x)) /\ UNCHANGED <<asking, selfmod>>
    BY <1>6, <2>1, <2>2, GatewayDecides, GrantsDecide, QuestionsRest, RequestsRest
       DEF IInv, GatewayInv
  <2>3. CASE x \in Approvals /\ (Approve(x) \/ Reject(x)) /\ UNCHANGED <<asking, gateway>>
    BY <2>1, <2>3, <2>g, RequestsDecide, QuestionsRest, GatewayRests DEF IInv, QuestionsInv
  <2>4. CASE x \in Questions /\ Respond(x, v) /\ UNCHANGED <<selfmod, gateway>>
    BY <1>6, <2>1, <2>4, <2>g, QuestionsRespond, RequestsRest, GatewayRests DEF IInv
  <2>5. CASE UNCHANGED <<asking, selfmod, gateway>>
    BY <2>1, <2>5, <2>g, QuestionsRest, RequestsRest, GatewayRests DEF IInv
  <2>6. QED
    BY <1>6, <2>2, <2>3, <2>4, <2>5, DispatchKinds DEF IInv, QuestionsInv, GatewayInv
<1>7. CASE HostCrash
  <2>1. \A i \in Approvals : Shown(i)' => Shown(i)
    BY <1>7, CrashIsCalm, Kinds DEF IInv, QuestionsInv
  <2>2. QED
    BY <1>7, <2>1, QuestionsCrash, RequestsCrash, GatewayCrash, GrantsCrash DEF IInv
<1>8. CASE UNCHANGED vars
  <2>1. UNCHANGED <<asking, selfmod, gateway, platform, crashes>>
    BY <1>8 DEF vars, asking, selfmod, gateway, platform
  <2>2. /\ CardsTyped' /\ Quiet(Questions) /\ Quiet(Credentials) /\ gate' = gate
        /\ \A i \in Approvals : Shown(i)' => Shown(i)
    BY <2>1 DEF platform, Quiet, Shown, CardsTyped, IInv, QuestionsInv, gateway
  <2>3. GrantsInv'
    BY <2>2, GrantsRest DEF IInv
  <2>4. QuestionsInv'
    BY <2>1, <2>2, QuestionsRest DEF IInv
  <2>5. RequestsInv'
    BY <2>1, <2>2, RequestsRest DEF IInv
  <2>6. QED
    BY <2>1, <2>2, <2>3, <2>4, <2>5, GatewayRests DEF IInv
<1>9. QED
  BY <1>1, <1>2, <1>3, <1>4, <1>5, <1>6, <1>7, <1>8 DEF Next, AskingStep, RequestStep,
     ApprovalStep, GatewayStep

LEMMA SpecIInv == Spec => []IInv
BY InitIInv, NextIInv, PTL DEF Spec

\* Every variable of the cards has its type, also after crashes.
THEOREM TypesHold == Spec => []TypeOK
<1>1. IInv => TypeOK
  BY TypeParts DEF IInv, QuestionsInv, RequestsInv, GatewayInv
<1>2. QED
  BY <1>1, SpecIInv, PTL

\* A click on a question or an approval finds its row (createPendingQuestion and
\* createPendingApproval run before the card is sent).
THEOREM NoClickIsUnheard == Spec => []ClickIsHeard
<1>1. IInv => ClickIsHeard
  BY DEF IInv, QuestionsInv, QuestionsHeard, Heard, RequestsInv, ApprovalsKept, Kept, ClickIsHeard
<1>2. QED
  BY <1>1, SpecIInv, PTL

\* ask_user_question returns an option its user pressed.
THEOREM AnswersAreTheUsers == Spec => []AnswersWereGiven
<1>1. IInv => AnswersWereGiven
  BY DEF IInv, QuestionsInv, AnswersWerePressed, AnswersWereGiven
<1>2. QED
  BY <1>1, SpecIInv, PTL

\* No credential is released without a click on "Approve", and none is rejected
\* without a click; the silence of the approvers only expires.
THEOREM GrantsAreTheApprovers == Spec => []GrantsWereGiven
<1>1. IInv => GrantsWereGiven
  BY DEF IInv, GrantsInv
<1>2. QED
  BY <1>1, SpecIInv, PTL

\* A request for approval that the host handled keeps its row until its agent is
\* told of the outcome.
THEOREM RequestsAreKept == Spec => []NothingForgotten
<1>1. IInv => NothingForgotten
  BY DEF IInv, RequestsInv, HandledIsKept, NothingForgotten
<1>2. QED
  BY <1>1, SpecIInv, PTL

\* The row of a credential always has a promise, an expiry or a sweep that will
\* delete it.
THEOREM RowsHaveAnOwner == Spec => []NoOrphanRow
<1>1. IInv => NoOrphanRow
  BY DEF IInv, GatewayInv
<1>2. QED
  BY <1>1, SpecIInv, PTL

\* The approver's click and the timer never both decide about a credential.
THEOREM GatewayDecidesOnce == Spec => DecidedOnce
<1>1. IInv /\ [Next]_vars => [\A g \in Credentials : gate[g] \in Decided => gate'[g] = gate[g]]_vars
  BY NextIInv DEF GatewayOnce
<1>2. QED
  BY <1>1, SpecIInv, PTL DEF Spec, DecidedOnce
==============================================================================
