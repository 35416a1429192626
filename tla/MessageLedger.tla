----------------------------- MODULE MessageLedger -----------------------------
(***************************************************************************)
(* What the session machinery promises about each message, with no          *)
(* databases, containers or sweeps: a message is queued, some worker has it, *)
(* and it ends done or, after its last permitted retry also failed, dead.   *)
(* Neither end is ever left, and nothing is worked on twice at a time.       *)
(* One step may move several messages (a batch, a sweep).                    *)
(***************************************************************************)
EXTENDS Naturals

CONSTANTS Msgs, MaxTries

VARIABLES
  stage,    \* where each message is
  retries   \* retries counted against it

Stages == {"absent", "queued", "working", "done", "dead"}

LedgerInit ==
  /\ stage = [m \in Msgs |-> "absent"]
  /\ retries = [m \in Msgs |-> 0]

Goes(m, from, to) == stage[m] = from /\ stage'[m] = to
Uncounted(m) == retries'[m] = retries[m]

Submitted(m) == Goes(m, "absent", "queued") /\ Uncounted(m)
Taken(m) == Goes(m, "queued", "working") /\ Uncounted(m)
Finished(m) == Goes(m, "working", "done") /\ Uncounted(m)

\* Its worker is gone; a new worker may take it without a retry counted.
Released(m) == Goes(m, "working", "queued") /\ Uncounted(m)

Retried(m) ==
  /\ Goes(m, "working", "queued")
  /\ retries[m] < MaxTries
  /\ retries'[m] = retries[m] + 1

GivenUp(m) ==
  /\ Goes(m, "working", "dead")
  /\ retries[m] = MaxTries
  /\ Uncounted(m)

Untouched(m) == stage'[m] = stage[m] /\ Uncounted(m)

Move(m) ==
  \/ Submitted(m) \/ Taken(m) \/ Finished(m)
  \/ Released(m) \/ Retried(m) \/ GivenUp(m)
  \/ Untouched(m)

LedgerNext ==
  /\ stage' \in [Msgs -> Stages]
  /\ retries' \in [Msgs -> 0..MaxTries]
  /\ \A m \in Msgs : Move(m)

LedgerSpec == LedgerInit /\ [][LedgerNext]_<<stage, retries>>
=============================================================================
