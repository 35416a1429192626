------------------------------ MODULE Scheduling ------------------------------
(***************************************************************************)
(* One series of a scheduled task.  Its occurrences are rows of messages_in  *)
(* that share a series_id.  An agent asks for changes by writing system      *)
(* messages, which the host applies in order when it delivers them; a        *)
(* container runs what is due and acks it; and the host's sweep syncs the    *)
(* acks, takes back claims of dead containers, and inserts the next          *)
(* occurrence of every completed row that still has a recurrence.  The sweep *)
(* awaits between these steps, so that requests are applied in the middle of *)
(* it, and the host may die between two statements.                          *)
(***************************************************************************)
EXTENDS Integers, FiniteSets, Sequences

CONSTANTS
  Rows,      \* identities of rows; one that nothing reads any more is used again
  MaxAsks,   \* requests that may wait in messages_out
  MaxCrash   \* crashes of the host that may happen

ASSUME ConstantsOK ==
  /\ IsFiniteSet(Rows)
  /\ MaxAsks \in Nat \ {0}
  /\ MaxCrash \in Nat

\* What an agent may ask of the series.
\*   schedule, scheduleOnce   schedule_task with and without a recurrence
\*   cancel, pause, resume    cancel_task, pause_task, resume_task
\*   once, recur, delay       update_task of recurrence or of processAfter
Changes == {"cancel", "pause", "resume", "once", "recur", "delay"}
Requests == Changes \cup {"schedule", "scheduleOnce"}

VARIABLES
  row,      \* messages_in.status of each occurrence; "absent" without a row
  recurs,   \* messages_in.recurrence is not NULL
  later,    \* rows whose process_after lies in the future
  ack,      \* processing_ack.status; "none" when there is no row
  seen,     \* rows a poll of the container has read and not yet claimed
  asks,     \* the requests written and not yet recorded as delivered
  asked,    \* what the series was last told to do; "none" before it exists
  sweep,    \* where sweepSession is
  todo,     \* the completed recurring rows that handleRecurrence has read
  hostUp,   \* the host process runs
  crashes   \* crashes so far

series == <<row, recurs, later>>
host == <<sweep, todo, hostUp>>
vars == <<row, recurs, later, ack, seen, asks, asked, sweep, todo, hostUp, crashes>>

\* status IN ('pending', 'paused')
Live == {o \in Rows : row[o] \in {"pending", "paused"}}

Pending == {o \in Rows : row[o] = "pending"}
Paused == {o \in Rows : row[o] = "paused"}

\* getCompletedRecurring
CompletedRecurring == {o \in Rows : row[o] = "completed" /\ recurs[o]}

\* The rows that keep the series going.
Alive == Live \cup CompletedRecurring

\* No statement reads or writes such a row again.
Spent == {o \in Rows \ (Alive \cup seen) : ack[o] # "processing"}

Init ==
  /\ row = [o \in Rows |-> "absent"]
  /\ recurs = [o \in Rows |-> FALSE]
  /\ later = {}
  /\ ack = [o \in Rows |-> "none"]
  /\ seen = {}
  /\ asks \in {<<"schedule">>, <<"scheduleOnce">>}
  /\ asked = "none"
  /\ sweep = "idle"
  /\ todo = {}
  /\ hostUp = TRUE
  /\ crashes = 0
-----------------------------------------------------------------------------
(* The agents and the container *)

\* A tool call of an agent, which may be the one a task runs in.
Ask(r) ==
  /\ Len(asks) < MaxAsks
  /\ asks' = Append(asks, r)
  /\ UNCHANGED <<series, ack, seen, asked, host, crashes>>

\* process_after passes.
Elapse(o) ==
  /\ o \in later
  /\ later' = later \ {o}
  /\ UNCHANGED <<row, recurs, ack, seen, asks, asked, host, crashes>>

\* getPendingMessages: a poll reads due occurrences that nobody has acked (not
\* all of them when LIMIT cuts the result), and the claim is another statement.
Read ==
  /\ seen = {}
  /\ seen' \in (SUBSET {o \in Pending \ later : ack[o] = "none"}) \ {{}}
  /\ UNCHANGED <<series, ack, asks, asked, host, crashes>>

\* markProcessing, whatever the host did to the rows meanwhile.
Take ==
  /\ seen # {}
  /\ ack' = [o \in Rows |-> IF o \in seen THEN "processing" ELSE ack[o]]
  /\ seen' = {}
  /\ UNCHANGED <<series, asks, asked, host, crashes>>

\* The container is done with an occurrence, whatever became of the row.
Finish(o) ==
  /\ seen = {}
  /\ ack[o] = "processing"
  /\ ack' = [ack EXCEPT ![o] = "completed"]
  /\ UNCHANGED <<series, seen, asks, asked, host, crashes>>

\* No claim is left behind, and nothing read is going to be claimed.
ClaimsGone ==
  /\ ack' = [o \in Rows |-> IF ack[o] = "processing" THEN "none" ELSE ack[o]]
  /\ seen' = {}

\* The container died, and a fresh one clears the claims at boot.
ClearStaleClaims ==
  /\ ClaimsGone
  /\ UNCHANGED <<series, asks, asked, host, crashes>>
-----------------------------------------------------------------------------
(* The host applies requests *)

Status(S, s) == [o \in Rows |-> IF o \in S THEN s ELSE row[o]]
Recurrence(S, b) == [o \in Rows |-> IF o \in S THEN b ELSE recurs[o]]

\* The row o becomes a new occurrence with the given recurrence.
InsertRow(o, recurrence) ==
  /\ row' = [row EXCEPT ![o] = "pending"]
  /\ recurs' = [recurs EXCEPT ![o] = recurrence]
  /\ ack' = [ack EXCEPT ![o] = "none"]

\* insertTask.  A second insert of the same id throws, and the request is
\* given up by the delivery without an effect.
InsertTask(recurrence) ==
  IF asked = "none"
    THEN /\ \E o \in Spent : InsertRow(o, recurrence) /\ later' \in {later, later \cup {o}}
         /\ asked' = "run"
    ELSE UNCHANGED <<series, ack, asked>>

CancelTask ==
  /\ row' = Status(Live, "completed")
  /\ recurs' = Recurrence(Live, FALSE)
  /\ asked' = "cancelled"
  /\ UNCHANGED <<later, ack>>

PauseTask ==
  /\ row' = Status(Pending, "paused")
  /\ asked' = IF asked = "cancelled" THEN asked ELSE "paused"
  /\ UNCHANGED <<recurs, later, ack>>

ResumeTask ==
  /\ row' = Status(Paused, "pending")
  /\ asked' = IF asked = "cancelled" THEN asked ELSE "run"
  /\ UNCHANGED <<recurs, later, ack>>

\* Mutant: a new time schedules the rows anew, paused ones too.
UpdateReschedules(r) ==
  /\ recurs' = IF r = "delay" THEN recurs ELSE Recurrence(Live, r = "recur")
  /\ later' = IF r = "delay" THEN later \cup Live ELSE later
  /\ row' = IF r = "delay" THEN Status(Live, "pending") ELSE row
  /\ UNCHANGED <<ack, asked>>

\* Mutant: update_task finds the rows of the series whatever their status.
UpdateAnyRow(r) ==
  /\ recurs' = IF r = "delay" THEN recurs
               ELSE Recurrence({o \in Rows : row[o] # "absent"}, r = "recur")
  /\ later' = IF r = "delay" THEN later \cup Live ELSE later
  /\ UNCHANGED <<row, ack, asked>>

\* update_task: the fields given are set on every live row.
UpdateTask(r) ==
  /\ recurs' = IF r = "delay" THEN recurs ELSE Recurrence(Live, r = "recur")
  /\ later' = IF r = "delay" THEN later \cup Live ELSE later
  /\ UNCHANGED <<row, ack, asked>>

\* handleSystemAction of the first request not recorded as delivered.
Handle(r) ==
  \/ r = "schedule" /\ InsertTask(TRUE)
  \/ r = "scheduleOnce" /\ InsertTask(FALSE)
  \/ r = "cancel" /\ CancelTask
  \/ r = "pause" /\ PauseTask
  \/ r = "resume" /\ ResumeTask
  \/ r \in {"once", "recur", "delay"} /\ UpdateTask(r)

\* The host's memory is gone.
HostDies ==
  /\ crashes < MaxCrash
  /\ crashes' = crashes + 1
  /\ hostUp' = FALSE
  /\ sweep' = "idle"
  /\ todo' = {}

\* The request is applied and recorded, or the host dies in between.
Deliver ==
  /\ hostUp
  /\ asks # <<>>
  /\ Handle(Head(asks))
  /\ UNCHANGED seen
  /\ \/ asks' = Tail(asks) /\ UNCHANGED <<host, crashes>>
     \/ UNCHANGED asks /\ HostDies
-----------------------------------------------------------------------------
(* The host's sweep *)

\* Mutant: the status of every claim is copied, not only of the finished ones.
SyncEveryAck ==
  /\ hostUp
  /\ sweep = "idle"
  /\ row' = [o \in Rows |-> IF ack[o] # "none" /\ o \in Live THEN ack[o] ELSE row[o]]
  /\ sweep' = "synced"
  /\ UNCHANGED <<recurs, later, ack, seen, asks, asked, todo, hostUp, crashes>>

\* Step 1, syncProcessingAcks: whatever its status, an acked row is completed.
SyncProcessingAcks ==
  /\ hostUp
  /\ sweep = "idle"
  /\ row' = [o \in Rows |-> IF ack[o] = "completed" THEN "completed" ELSE row[o]]
  /\ sweep' = "synced"
  /\ UNCHANGED <<recurs, later, ack, seen, asks, asked, todo, hostUp, crashes>>

\* Claims of a dead container: those in `stale` are retried later or failed.
ResetClaims(stale) ==
  \E givenUp \in SUBSET stale :
    /\ row' = Status(givenUp, "failed")
    /\ later' = later \cup (stale \ givenUp)
    /\ ClaimsGone

\* Mutant: resetStuckProcessingRows takes a claimed row of any live status.
ResetAnyStatus ==
  /\ sweep = "synced"
  /\ sweep' = "recur"
  /\ \/ ResetClaims({o \in Live \ later : ack[o] = "processing"})
     \/ UNCHANGED <<row, later, ack, seen>>
  /\ UNCHANGED <<recurs, asks, asked, todo, hostUp, crashes>>

\* Mutant: the sweep is over when the container is alive and not stuck.
ReturnWhenAlive ==
  /\ sweep = "synced"
  /\ \/ sweep' = "recur" /\ ResetClaims({o \in Pending \ later : ack[o] = "processing"})
     \/ sweep' = "idle" /\ UNCHANGED <<row, later, ack, seen>>
  /\ UNCHANGED <<recurs, asks, asked, todo, hostUp, crashes>>

\* Steps 2 to 4, after an awaited wake: the container is dead or killed and
\* its claims are reset, or it runs on.
CheckContainer ==
  /\ sweep = "synced"
  /\ sweep' = "recur"
  /\ \/ ResetClaims({o \in Pending \ later : ack[o] = "processing"})
     \/ UNCHANGED <<row, later, ack, seen>>
  /\ UNCHANGED <<recurs, asks, asked, todo, hostUp, crashes>>

\* Step 5, handleRecurrence, after an awaited import: the rows are read.
ReadRecurring ==
  /\ sweep = "recur"
  /\ sweep' = "fan"
  /\ todo' = CompletedRecurring
  /\ UNCHANGED <<series, ack, seen, asks, asked, hostUp, crashes>>

\* Mutant: the recurrence of the old row is never cleared.
InsertOnly(o) ==
  \E n \in Spent :
    /\ sweep = "fan"
    /\ o \in todo
    /\ InsertRow(n, TRUE)
    /\ later' = later \cup {n}
    /\ todo' = todo \ {o}
    /\ UNCHANGED <<seen, asks, asked, sweep, hostUp, crashes>>

\* Mutant: clearRecurrence before insertRecurrence.
ClearThenInsert(o) ==
  \E n \in Spent :
    /\ sweep = "fan"
    /\ o \in todo
    /\ \/ /\ row' = [row EXCEPT ![n] = "pending"]
          /\ recurs' = [recurs EXCEPT ![n] = TRUE, ![o] = FALSE]
          /\ ack' = [ack EXCEPT ![n] = "none"]
          /\ later' = later \cup {n}
          /\ todo' = todo \ {o}
          /\ UNCHANGED <<sweep, hostUp, crashes>>
       \/ /\ recurs' = [recurs EXCEPT ![o] = FALSE]
          /\ UNCHANGED <<row, ack, later>>
          /\ HostDies
    /\ UNCHANGED <<seen, asks, asked>>

\* insertRecurrence, then clearRecurrence, or the host dies in between.  The
\* row that was read is not looked at again.
FollowUp(o) ==
  \E n \in Spent :
    /\ sweep = "fan"
    /\ o \in todo
    /\ row' = [row EXCEPT ![n] = "pending"]
    /\ ack' = [ack EXCEPT ![n] = "none"]
    /\ later' = later \cup {n}
    /\ \/ /\ recurs' = [recurs EXCEPT ![n] = TRUE, ![o] = FALSE]
          /\ todo' = todo \ {o}
          /\ UNCHANGED <<sweep, hostUp, crashes>>
       \/ /\ recurs' = [recurs EXCEPT ![n] = TRUE]
          /\ HostDies
    /\ UNCHANGED <<seen, asks, asked>>

SweepEnd ==
  /\ sweep = "fan"
  /\ todo = {}
  /\ sweep' = "idle"
  /\ UNCHANGED <<series, ack, seen, asks, asked, todo, hostUp, crashes>>
-----------------------------------------------------------------------------
HostCrash ==
  /\ hostUp
  /\ HostDies
  /\ UNCHANGED <<series, ack, seen, asks, asked>>

HostStart ==
  /\ ~hostUp
  /\ hostUp' = TRUE
  /\ UNCHANGED <<series, ack, seen, asks, asked, sweep, todo, crashes>>

Next ==
  \/ \E r \in Changes : Ask(r)
  \/ \E o \in Rows : Elapse(o)
  \/ Read
  \/ Take
  \/ \E o \in Rows : Finish(o)
  \/ ClearStaleClaims
  \/ Deliver
  \/ SyncProcessingAcks
  \/ CheckContainer
  \/ ReadRecurring
  \/ \E o \in Rows : FollowUp(o)
  \/ SweepEnd
  \/ HostCrash
  \/ HostStart

Spec == Init /\ [][Next]_vars

\* Fairness.  The sweep's timer fires and its awaits return (one of its steps
\* is possible whenever the host runs), and the host is started again after a
\* crash.  Nothing is assumed of agents, containers or the delivery of requests.
FairSpec ==
  /\ Spec
  /\ WF_vars(\/ SyncProcessingAcks
             \/ CheckContainer
             \/ ReadRecurring
             \/ \E o \in Rows : FollowUp(o)
             \/ SweepEnd)
  /\ WF_vars(HostStart)
-----------------------------------------------------------------------------
(* Properties *)

\* Every variable has its type.
TypeOK ==
  /\ row \in [Rows -> {"absent", "pending", "paused", "completed", "failed"}]
  /\ recurs \in [Rows -> BOOLEAN]
  /\ later \subseteq Rows
  /\ ack \in [Rows -> {"none", "processing", "completed"}]
  /\ seen \subseteq Rows
  /\ asks \in Seq(Requests) /\ Len(asks) <= MaxAsks
  /\ asked \in {"none", "run", "paused", "cancelled"}
  /\ sweep \in {"idle", "synced", "recur", "fan"}
  /\ todo \subseteq Rows
  /\ hostUp \in BOOLEAN
  /\ crashes \in 0..MaxCrash

\* A series never forks: it has one live occurrence, and at most one more for
\* every crash of the host (which may fall between the insert of the next
\* occurrence and the statement that stops the old one from recurring).
NoFork == Cardinality(Live) <= 1 + crashes

Applied(r) == asks # <<>> /\ Head(asks) = r

Over == asked # "none" /\ Alive = {}

\* A cancel ends a series of which no completed occurrence has yet to be
\* followed, and a series that is over stays over: the ack of the occurrence in
\* flight, a claim that is reset, an update, a resume or a crash brings none
\* back.  A cancel that meets such an occurrence is lost; see the last property.
CancelEnds ==
  [][Over \/ (Deliver /\ Applied("cancel") /\ CompletedRecurring = {}) => Over']_vars

\* A series goes on until it is cancelled, its last occurrence was a one-shot,
\* or its occurrence failed for good; no crash in the sweep drops it.
GoesOn ==
  [][~Over /\ Over' =>
       \/ asked' = "cancelled" /\ Applied("cancel")
       \/ \E o \in Live : row'[o] = "completed" /\ ~recurs[o]
       \/ \E o \in Pending : row'[o] = "failed"]_vars

\* A paused occurrence whose run has not completed is only released by a
\* request: the death of the container that had claimed it does not undo it.
PauseHolds ==
  [][\A o \in Paused : row'[o] # "paused" =>
       \/ ack[o] = "completed"
       \/ row'[o] = "pending" /\ Applied("resume")
       \/ row'[o] = "completed" /\ Applied("cancel")]_vars

\* A pause that found nothing in flight: no occurrence is read, claimed or acked,
\* and no completed one has yet to be followed.
Resting ==
  /\ asked = "paused"
  /\ Pending = {} /\ CompletedRecurring = {} /\ seen = {}
  /\ \A o \in Paused : ack[o] = "none"

\* Such a pause lasts: no ack, sweep, update or crash sets an occurrence going
\* again before a resume, and none is lost before a cancel.
RestLasts ==
  [][Resting => \/ Resting' /\ Live' = Live
                \/ asked' = "run" /\ Applied("resume")
                \/ asked' = "cancelled" /\ Applied("cancel")]_vars

\* No row stays completed and recurring: it is followed by its next occurrence,
\* whatever is asked meanwhile and also when the host died over it.
Followed == \A o \in Rows : []<>(o \notin CompletedRecurring)

-----------------------------------------------------------------------------
(* What the repository says of the program and the code does not do *)

\* scheduling.ts, pause_task: "It will not run until resumed."  The ack of the
\* occurrence in flight overwrites "paused", and the next one is inserted
\* pending; a request applied after the ack is synced finds no row at all.
RunsOnlyWhenAsked == [][asked = "paused" => seen' \subseteq seen]_vars

\* db.test.ts, of the recurrence chain: it "used to survive cancellation".  It
\* still does when the cancel is applied while the last occurrence is completed
\* and not yet followed: no row matches, and the next one is inserted.
CancelledRunsNoMore == [][asked = "cancelled" => seen' \subseteq seen]_vars
=============================================================================
