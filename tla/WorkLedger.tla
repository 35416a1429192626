------------------------------ MODULE WorkLedger ------------------------------
(***************************************************************************)
(* What a queue of requests promises, with no windows, locks, processes or   *)
(* timers: a request is queued, worked on and, once an outcome is on record, *)
(* taken out of the queue for good; the user is told only after that, and    *)
(* only an outcome that is on record.  Work that is broken off puts it back. *)
(* A careful queue does not begin what succeeded before.                     *)
(***************************************************************************)
CONSTANTS Items, Refused

VARIABLES
  careful,   \* records are looked at before work begins
  state,     \* where each request is: absent, queued, worked or gone
  outcomes,  \* the outcomes on record
  told       \* what the user reads of it

LedgerInit ==
  /\ state \in [Items -> {"absent", "queued"}]
  /\ outcomes = [i \in Items |-> {}]

Goes(i, from, to) == state[i] = from /\ state'[i] = to
Unrecorded(i) == outcomes'[i] = outcomes[i]
Untold(i) == told'[i] = told[i]

Announced(i) ==
  /\ Goes(i, "absent", "absent") /\ Unrecorded(i)
  /\ told[i] = "none" /\ told'[i] = "queued"

Submitted(i) == Goes(i, "absent", "queued") /\ Unrecorded(i) /\ Untold(i)

Begun(i) ==
  /\ i \notin Refused
  /\ careful => "done" \notin outcomes[i]
  /\ Goes(i, "queued", "worked") /\ Unrecorded(i) /\ Untold(i)

BrokenOff(i) == Goes(i, "worked", "queued") /\ Unrecorded(i) /\ Untold(i)

Recorded(i) ==
  /\ Goes(i, "worked", "worked") /\ Untold(i)
  /\ \E o \in {"done", "failed"} : outcomes'[i] = outcomes[i] \cup {o}

\* Also by a look at the records, after the work was broken off or beside it.
Cleared(i) ==
  /\ outcomes[i] # {}
  /\ Goes(i, "worked", "gone") \/ (careful /\ Goes(i, "queued", "gone"))
  /\ Unrecorded(i) /\ Untold(i)

Told(i) ==
  /\ Goes(i, "gone", "gone") /\ Unrecorded(i)
  /\ told[i] = "queued" /\ told'[i] \in outcomes[i]

Untouched(i) == state'[i] = state[i] /\ Unrecorded(i) /\ Untold(i)

Move(i) ==
  \/ Announced(i) \/ Submitted(i) \/ Begun(i) \/ BrokenOff(i)
  \/ Recorded(i) \/ Cleared(i) \/ Told(i) \/ Untouched(i)

LedgerNext == careful' = careful /\ \A i \in Items : Move(i)

LedgerSpec == LedgerInit /\ [][LedgerNext]_<<careful, state, outcomes, told>>
=============================================================================
