----------------------------- MODULE JobRunner -----------------------------
(***************************************************************************)
(* jobs/runner.py, jobs/context.py and jobs/service.py: background jobs in *)
(* the table tiqora_job, run by any number of worker processes.            *)
(*                                                                         *)
(* A runner is one process.  Its loop (lpc) reaps stale jobs and claims    *)
(* queued ones, lane by lane; every claimed job is a task of its own (tpc) *)
(* that runs next to the loop.  Every UPDATE is a transaction of its own,  *)
(* so what a runner read may be old when it writes; that it wrote nothing  *)
(* it no longer had a right to is what the WHERE clauses are for.          *)
(*                                                                         *)
(* Time is abstract: a running row is "stale" once 180 s passed since its  *)
(* last heartbeat, a queued row "waits" while its due_at is ahead.  A live *)
(* task may go stale too (a blocked event loop, an unreachable database).  *)
(***************************************************************************)
EXTENDS Naturals, Sequences, FiniteSets

CONSTANTS Runner,        \* worker processes; a restarted one keeps its worker_id
          Job,           \* job ids, numbers: rows are read ORDER BY id
          None,          \* NULL
          Lanes,         \* the lanes in the order they are filled, the default lane first
          LaneOf,        \* job -> lane of its handler
          Slots,         \* lane -> max_concurrency (default lane) or LANE_SLOTS
          Requeues,      \* job -> handler.requeue_if_interrupted
          MaxAttempts,   \* job -> handler.max_attempts
          Guarded,       \* jobs whose handler guards an irreversible step with ctx.checkpoint
          Cancels,       \* bound: jobs whose creator asks for a cancel (once)
          MaxFaults      \* bound: crashes, stops, failed queries, live tasks without a heartbeat

ASSUME JobAssumption ==
    /\ Job \subseteq Nat /\ IsFiniteSet(Job)
    /\ IsFiniteSet(Runner) /\ None \notin Runner
    /\ Lanes \in Seq(STRING) /\ Len(Lanes) > 0
    /\ LaneOf \in [Job -> {Lanes[i] : i \in DOMAIN Lanes}]
    /\ Slots \in [{Lanes[i] : i \in DOMAIN Lanes} -> Nat \ {0}]
    /\ Requeues \in [Job -> BOOLEAN]
    /\ MaxAttempts \in [Job -> Nat \ {0}]
    /\ Guarded \subseteq Job /\ Cancels \subseteq Job
    /\ MaxFaults \in Nat

VARIABLES row,       \* job -> its row in tiqora_job
          tpc,       \* runner -> job -> step of the task, "none" when there is no task
          att,       \* runner -> job -> the claim (attempt) the task was started for
          seen,      \* runner -> job -> checkpoint set, as _settle_timeout read it
          lpc,       \* runner -> step of its loop, "down" when the process is not there
          todo,      \* runner -> interrupted rows it read and has still to settle
          lane,      \* runner -> index of the lane it fills
          free,      \* runner -> free slots of that lane, as counted
          cand,      \* runner -> jobs selected for a claim; at shutdown: tasks waited for
          stop,      \* runner -> the stop event is set
          faults,    \* faults so far
          req,       \* job -> where the creator's cancel request is
          fired,     \* job -> how often its irreversible step was done
          hooks      \* job -> how often on_interrupted recorded its failure

tasks == <<tpc, att, seen>>
loop == <<lpc, todo, lane, free, cand, stop>>
ghosts == <<fired, hooks>>
vars == <<row, tasks, loop, faults, req, ghosts>>

Terminal == {"succeeded", "failed", "cancelled"}
Status == {"absent", "queued", "running"} \cup Terminal
DefaultLane == Lanes[1]

\* A handler before its checkpoint, past it, and past the step the checkpoint guards.
Handling == {"run", "past", "acted"}
TaskStep == {"none", "timeout", "settle", "giveup", "hook", "retry"} \cup Handling \cup Terminal
LoopStep == {"down", "idle", "settle", "giveup", "hook", "count", "select", "claim", "grace", "collect"}

AbsentRow == [status |-> "absent", worker |-> None, attempts |-> 0, checkpoint |-> FALSE,
              stale |-> FALSE, cancel |-> FALSE, waits |-> FALSE]

Init ==
    /\ row = [j \in Job |-> AbsentRow]
    /\ tpc = [r \in Runner |-> [j \in Job |-> "none"]]
    /\ att = [r \in Runner |-> [j \in Job |-> 0]]
    /\ seen = [r \in Runner |-> [j \in Job |-> FALSE]]
    /\ lpc = [r \in Runner |-> "idle"]
    /\ todo = [r \in Runner |-> {}]
    /\ lane = [r \in Runner |-> 1]
    /\ free = [r \in Runner |-> 0]
    /\ cand = [r \in Runner |-> {}]
    /\ stop = [r \in Runner |-> FALSE]
    /\ faults = 0
    /\ req = [j \in Job |-> "none"]
    /\ fired = [j \in Job |-> 0]
    /\ hooks = [j \in Job |-> 0]

-----------------------------------------------------------------------------
(* The rows. *)

Active(r) == {j \in Job : tpc[r][j] # "none"}

\* Mutant: conditional on the job still running, whoever runs it.
MutOwnClaim(r, j) == row[j].status = "running"
\* _own_claim: the row still is the claim the task was started for.
OwnClaim(r, j) ==
    /\ row[j].status = "running"
    /\ row[j].worker = r
    /\ row[j].attempts = att[r][j]

\* Mutant: attempts is not counted.
MutClaimed(x, r) ==
    [x EXCEPT !.status = "running", !.worker = r, !.checkpoint = FALSE, !.stale = FALSE, !.waits = FALSE]

\* UPDATE of _claim.
Claimed(x, r) ==
    [x EXCEPT !.status = "running", !.worker = r, !.attempts = @ + 1, !.checkpoint = FALSE,
              !.stale = FALSE, !.waits = FALSE]

\* Mutant: always back to the queue.
MutRequeued(x, waits) ==
    [x EXCEPT !.status = "queued", !.worker = None, !.stale = FALSE, !.waits = waits]

\* _requeue_values: back to the queue, or cancelled when that was asked for.
Requeued(x, waits) ==
    [x EXCEPT !.status = IF x.cancel THEN "cancelled" ELSE "queued", !.worker = None,
              !.stale = FALSE, !.waits = waits]

Retried(x, delayed) == [Requeued(x, delayed) EXCEPT !.checkpoint = FALSE]
Queued(x, later) == [x EXCEPT !.status = "queued", !.waits = later]
Ended(x, how) == [x EXCEPT !.status = how]
Cancelling(x) == [x EXCEPT !.cancel = TRUE]
Beat(x) == [x EXCEPT !.stale = FALSE]
Marked(x) == [x EXCEPT !.stale = FALSE, !.checkpoint = TRUE]
Silent(x) == [x EXCEPT !.stale = TRUE]
Due(x) == [x EXCEPT !.waits = FALSE]

\* The lowest id of a set, as ORDER BY id delivers it.
First(S) == CHOOSE j \in S : \A k \in S : j <= k

\* What _interrupted_rows reads of a job.
Snapshot(j) == [job |-> j, attempts |-> row[j].attempts, checkpoint |-> row[j].checkpoint]
NextSnapshot(r) == CHOOSE s \in todo[r] : \A t \in todo[r] : s.job <= t.job

\* _settle_interrupted: would the row, as it was read, be requeued?
Requeueable(s) ==
    Requeues[s.job] /\ ~ s.checkpoint /\ s.attempts < MaxAttempts[s.job]

\* Mutant: the status is not asked for again.
MutStillThere(s) == row[s.job].attempts = s.attempts
\* The WHERE clause its two UPDATEs share; each caller adds a condition of its own.
StillThere(s) ==
    /\ row[s.job].status = "running"
    /\ row[s.job].attempts = s.attempts

-----------------------------------------------------------------------------
(* The people: a job is queued, its creator may ask to cancel it. *)

Enqueue(j) ==
    /\ row[j].status = "absent"
    /\ \E later \in BOOLEAN : row' = [row EXCEPT ![j] = Queued(@, later)]
    /\ UNCHANGED <<tasks, loop, faults, req, ghosts>>

\* request_cancel reads the job: an ended one is refused at once.
CancelRead(j) ==
    /\ j \in Cancels
    /\ req[j] = "none"
    /\ row[j].status \in {"queued", "running"}
    /\ req' = [req EXCEPT ![j] = row[j].status]
    /\ UNCHANGED <<row, tasks, loop, faults, ghosts>>

\* Mutant: UPDATE without the status condition.
MutCancelQueued(j) ==
    /\ req[j] = "queued"
    /\ row' = [row EXCEPT ![j] = Ended(@, "cancelled")]
    /\ req' = [req EXCEPT ![j] = "accepted"]
    /\ UNCHANGED <<tasks, loop, faults, ghosts>>

\* It was queued when read: UPDATE ... WHERE status = 'queued'.
CancelQueued(j) ==
    /\ req[j] = "queued"
    /\ IF row[j].status = "queued"
       THEN /\ row' = [row EXCEPT ![j] = Ended(@, "cancelled")]
            /\ req' = [req EXCEPT ![j] = "accepted"]
       ELSE /\ req' = [req EXCEPT ![j] = "running"]
            /\ UNCHANGED row
    /\ UNCHANGED <<tasks, loop, faults, ghosts>>

\* Running, or claimed meanwhile: UPDATE ... WHERE status = 'running'.
CancelRunning(j) ==
    /\ req[j] = "running"
    /\ IF row[j].status = "running"
       THEN /\ row' = [row EXCEPT ![j] = Cancelling(@)]
            /\ req' = [req EXCEPT ![j] = "accepted"]
       ELSE /\ req' = [req EXCEPT ![j] = "refused"]
            /\ UNCHANGED row
    /\ UNCHANGED <<tasks, loop, faults, ghosts>>

-----------------------------------------------------------------------------
(* Time. *)

\* A running row whose task is gone gets no more heartbeats.
Orphaned(j) == \A r \in Runner : row[j].worker = r => tpc[r][j] = "none"

GoStale(j) ==
    /\ row[j].status = "running"
    /\ ~ row[j].stale
    /\ row' = [row EXCEPT ![j] = Silent(@)]
    /\ IF Orphaned(j) THEN UNCHANGED faults ELSE faults < MaxFaults /\ faults' = faults + 1
    /\ UNCHANGED <<tasks, loop, req, ghosts>>

ComesDue(j) ==
    /\ row[j].waits
    /\ row' = [row EXCEPT ![j] = Due(@)]
    /\ UNCHANGED <<tasks, loop, faults, req, ghosts>>

-----------------------------------------------------------------------------
(* The loop: reap. *)

LoopTo(r, step) == lpc' = [lpc EXCEPT ![r] = step]

\* _reap: the running rows without a recent heartbeat.
ReapSelect(r) ==
    /\ lpc[r] = "idle"
    /\ ~ stop[r]
    /\ todo' = [todo EXCEPT ![r] = {Snapshot(j) : j \in {i \in Job : row[i].status = "running" /\ row[i].stale}}]
    /\ LoopTo(r, "settle")
    /\ UNCHANGED <<row, tasks, lane, free, cand, stop, faults, req, ghosts>>

\* The reaper asks whether the row is stale, shutdown whether it is this worker's.
LoopHolds(r, j) == IF stop[r] THEN row[j].worker = r ELSE row[j].stale

\* First UPDATE of _settle_interrupted: requeue, if allowed and no checkpoint came.
LoopRequeue(r) ==
    /\ lpc[r] = "settle"
    /\ todo[r] # {}
    /\ LET s == NextSnapshot(r)
       IN  IF /\ Requeueable(s) /\ StillThere(s) /\ LoopHolds(r, s.job)
              /\ ~ row[s.job].checkpoint
           THEN /\ row' = [row EXCEPT ![s.job] = Requeued(@, FALSE)]
                /\ todo' = [todo EXCEPT ![r] = @ \ {s}]
                /\ UNCHANGED lpc
           ELSE LoopTo(r, "giveup") /\ UNCHANGED <<row, todo>>
    /\ UNCHANGED <<tasks, lane, free, cand, stop, faults, req, ghosts>>

\* Second UPDATE: fail it; when the row was settled elsewhere, nothing is recorded.
LoopGiveUp(r) ==
    /\ lpc[r] = "giveup"
    /\ LET s == NextSnapshot(r)
       IN  IF StillThere(s) /\ LoopHolds(r, s.job)
           THEN /\ row' = [row EXCEPT ![s.job] = Ended(@, "failed")]
                /\ LoopTo(r, "hook")
                /\ UNCHANGED todo
           ELSE /\ todo' = [todo EXCEPT ![r] = @ \ {s}]
                /\ LoopTo(r, "settle")
                /\ UNCHANGED row
    /\ UNCHANGED <<tasks, lane, free, cand, stop, faults, req, ghosts>>

\* _call_on_interrupted.
LoopHook(r) ==
    /\ lpc[r] = "hook"
    /\ LET s == NextSnapshot(r)
       IN  /\ hooks' = [hooks EXCEPT ![s.job] = @ + 1]
           /\ todo' = [todo EXCEPT ![r] = @ \ {s}]
    /\ LoopTo(r, "settle")
    /\ UNCHANGED <<row, tasks, lane, free, cand, stop, faults, req, fired>>

\* Everything settled: fill the lanes, or end the process.
Settled(r) ==
    /\ lpc[r] = "settle"
    /\ todo[r] = {}
    /\ LoopTo(r, IF stop[r] THEN "down" ELSE "count")
    /\ lane' = [lane EXCEPT ![r] = 1]
    /\ UNCHANGED <<row, tasks, todo, free, cand, stop, faults, req, ghosts>>

-----------------------------------------------------------------------------
(* The loop: claim. *)

LaneName(r) == Lanes[lane[r]]

\* Mutant: every lane counts its own tasks.
MutOccupied(r, l) == Cardinality({j \in Active(r) : LaneOf[j] = l})
\* The default lane counts its own tasks, the others all running rows.
Occupied(r, l) ==
    IF l = DefaultLane
    THEN Cardinality({j \in Active(r) : LaneOf[j] = l})
    ELSE Cardinality({j \in Job : LaneOf[j] = l /\ row[j].status = "running"})

\* Mutant: one lane too many.
MutLeaveLane(r) ==
    IF lane[r] <= Len(Lanes)
    THEN LoopTo(r, "count") /\ lane' = [lane EXCEPT ![r] = @ + 1]
    ELSE LoopTo(r, "idle") /\ lane' = [lane EXCEPT ![r] = 1]

\* The next lane, or the end of run_once.
LeaveLane(r) ==
    IF lane[r] < Len(Lanes)
    THEN LoopTo(r, "count") /\ lane' = [lane EXCEPT ![r] = @ + 1]
    ELSE LoopTo(r, "idle") /\ lane' = [lane EXCEPT ![r] = 1]

CountLane(r) ==
    /\ lpc[r] = "count"
    /\ LET used == Occupied(r, LaneName(r))
       IN  IF used < Slots[LaneName(r)]
           THEN /\ free' = [free EXCEPT ![r] = Slots[LaneName(r)] - used]
                /\ LoopTo(r, "select")
                /\ UNCHANGED lane
           ELSE LeaveLane(r) /\ UNCHANGED free
    /\ UNCHANGED <<row, tasks, todo, cand, stop, faults, req, ghosts>>

Claimable(l) ==
    {j \in Job : LaneOf[j] = l /\ row[j].status = "queued" /\ ~ row[j].cancel /\ ~ row[j].waits}

\* _start_lane: SELECT ... ORDER BY id LIMIT free.
SelectLane(r) ==
    /\ lpc[r] = "select"
    /\ LET S == Claimable(LaneName(r))
       IN  cand' = [cand EXCEPT ![r] = {j \in S : Cardinality({i \in S : i < j}) < free[r]}]
    /\ free' = [free EXCEPT ![r] = 0]
    /\ LoopTo(r, "claim")
    /\ UNCHANGED <<row, tasks, todo, lane, stop, faults, req, ghosts>>

\* A job whose older claim still runs here is left alone; _claim takes a row that
\* still is queued, and a task is started for it.
ClaimNext(r) ==
    /\ lpc[r] = "claim"
    /\ cand[r] # {}
    /\ LET j == First(cand[r])
       IN  /\ cand' = [cand EXCEPT ![r] = @ \ {j}]
           /\ IF j \notin Active(r) /\ row[j].status = "queued" /\ ~ row[j].cancel
              THEN /\ row' = [row EXCEPT ![j] = Claimed(@, r)]
                   /\ tpc' = [tpc EXCEPT ![r][j] = "run"]
                   /\ att' = [att EXCEPT ![r][j] = row[j].attempts + 1]
              ELSE UNCHANGED <<row, tpc, att>>
    /\ UNCHANGED <<seen, lpc, todo, lane, free, stop, faults, req, ghosts>>

LaneFilled(r) ==
    /\ lpc[r] = "claim"
    /\ cand[r] = {}
    /\ LeaveLane(r)
    /\ UNCHANGED <<row, tasks, todo, free, cand, stop, faults, req, ghosts>>

-----------------------------------------------------------------------------
(* A task. *)

TaskTo(r, j, step) == tpc' = [tpc EXCEPT ![r][j] = step]
EndTask(r, j) ==
    /\ tpc' = [tpc EXCEPT ![r][j] = "none"]
    /\ att' = [att EXCEPT ![r][j] = 0]
    /\ seen' = [seen EXCEPT ![r][j] = FALSE]

\* _heartbeat, every 30 s while the task lives: by worker, not by attempt.
Heartbeat(r, j) ==
    /\ tpc[r][j] # "none"
    /\ row[j].status = "running" /\ row[j].worker = r
    /\ row' = [row EXCEPT ![j] = Beat(@)]
    /\ UNCHANGED <<tasks, loop, faults, req, ghosts>>

\* ctx.progress: a heartbeat by id alone, then check_cancelled.
Progress(r, j) ==
    /\ tpc[r][j] \in Handling
    /\ row' = [row EXCEPT ![j] = Beat(@)]
    /\ TaskTo(r, j, IF row[j].cancel THEN "cancelled" ELSE tpc[r][j])
    /\ UNCHANGED <<att, seen, loop, faults, req, ghosts>>

\* Mutant: the mark is written without the claim conditions.
MutCheckpoint(r, j) ==
    /\ tpc[r][j] = "run" /\ j \in Guarded
    /\ row' = [row EXCEPT ![j] = Marked(@)]
    /\ TaskTo(r, j, "past")
    /\ UNCHANGED <<att, seen, loop, faults, req, ghosts>>

\* ctx.checkpoint: JobCancelled when the claim is lost.
Checkpoint(r, j) ==
    /\ tpc[r][j] = "run" /\ j \in Guarded
    /\ IF OwnClaim(r, j)
       THEN /\ row' = [row EXCEPT ![j] = Marked(@)]
            /\ TaskTo(r, j, "past")
       ELSE TaskTo(r, j, "cancelled") /\ UNCHANGED row
    /\ UNCHANGED <<att, seen, loop, faults, req, ghosts>>

\* The step the checkpoint guards succeeds (SMTP accepts the mail).
Act(r, j) ==
    /\ tpc[r][j] = "past"
    /\ TaskTo(r, j, "acted")
    /\ fired' = [fired EXCEPT ![j] = @ + 1]
    /\ UNCHANGED <<row, att, seen, loop, faults, req, hooks>>

\* Mutant: the last attempt may be retried.
MutOutcomes(step, last) ==
    {"succeeded", "failed"} \cup (IF step = "acted" THEN {} ELSE {"retry"})

\* How a handler may end; JobRetry only while the guarded step was not done, and on
\* the last attempt it is a failure.
Outcomes(step, last) ==
    {"succeeded", "failed"} \cup (IF step = "acted" \/ last THEN {} ELSE {"retry"})

HandlerEnds(r, j) ==
    /\ tpc[r][j] \in Handling
    /\ \E outcome \in Outcomes(tpc[r][j], att[r][j] >= MaxAttempts[j]) : TaskTo(r, j, outcome)
    /\ UNCHANGED <<row, att, seen, loop, faults, req, ghosts>>

\* wait_for cuts the handler off.
HandlerTimeout(r, j) ==
    /\ tpc[r][j] \in Handling
    /\ TaskTo(r, j, "timeout")
    /\ UNCHANGED <<row, att, seen, loop, faults, req, ghosts>>

\* _finalize, conditional on the claim.
Finalize(r, j) ==
    /\ tpc[r][j] \in Terminal
    /\ row' = IF OwnClaim(r, j) THEN [row EXCEPT ![j] = Ended(@, tpc[r][j])] ELSE row
    /\ EndTask(r, j)
    /\ UNCHANGED <<loop, faults, req, ghosts>>

\* _requeue_for_retry, conditional on the claim; the delay may be 0.
RequeueForRetry(r, j) ==
    /\ tpc[r][j] = "retry"
    /\ \E delayed \in BOOLEAN :
          row' = IF OwnClaim(r, j)
                 THEN [row EXCEPT ![j] = Retried(@, delayed)]
                 ELSE row
    /\ EndTask(r, j)
    /\ UNCHANGED <<loop, faults, req, ghosts>>

\* _settle_timeout reads the checkpoint of its own claim (None when it is lost) ...
TimeoutRead(r, j) ==
    /\ tpc[r][j] = "timeout"
    /\ seen' = [seen EXCEPT ![r][j] = OwnClaim(r, j) /\ row[j].checkpoint]
    /\ TaskTo(r, j, "settle")
    /\ UNCHANGED <<row, att, loop, faults, req, ghosts>>

TaskSnapshot(r, j) == [job |-> j, attempts |-> att[r][j], checkpoint |-> seen[r][j]]

\* ... and settles the row like an interrupted one: requeue ...
TaskRequeue(r, j) ==
    /\ tpc[r][j] = "settle"
    /\ IF /\ Requeueable(TaskSnapshot(r, j)) /\ OwnClaim(r, j)
          /\ ~ row[j].checkpoint
       THEN row' = [row EXCEPT ![j] = Requeued(@, FALSE)] /\ EndTask(r, j)
       ELSE TaskTo(r, j, "giveup") /\ UNCHANGED <<row, att, seen>>
    /\ UNCHANGED <<loop, faults, req, ghosts>>

\* ... or fail ...
TaskGiveUp(r, j) ==
    /\ tpc[r][j] = "giveup"
    /\ IF OwnClaim(r, j)
       THEN /\ row' = [row EXCEPT ![j] = Ended(@, "failed")]
            /\ TaskTo(r, j, "hook")
            /\ UNCHANGED <<att, seen>>
       ELSE EndTask(r, j) /\ UNCHANGED row
    /\ UNCHANGED <<loop, faults, req, ghosts>>

\* ... and record it.
TaskHook(r, j) ==
    /\ tpc[r][j] = "hook"
    /\ hooks' = [hooks EXCEPT ![j] = @ + 1]
    /\ EndTask(r, j)
    /\ UNCHANGED <<row, loop, faults, req, fired>>

\* The database refuses the last write: the task ends, the reaper settles the row.
WriteFails(r, j) ==
    /\ tpc[r][j] \in Terminal \cup {"retry", "timeout", "settle", "giveup"}
    /\ faults < MaxFaults
    /\ faults' = faults + 1
    /\ EndTask(r, j)
    /\ UNCHANGED <<row, loop, req, ghosts>>

-----------------------------------------------------------------------------
(* Stop, crash, restart. *)

NoTasks(r) ==
    /\ tpc' = [tpc EXCEPT ![r] = [j \in Job |-> "none"]]
    /\ att' = [att EXCEPT ![r] = [j \in Job |-> 0]]
    /\ seen' = [seen EXCEPT ![r] = [j \in Job |-> FALSE]]

\* The stop event is noticed between two rounds; shutdown waits for the tasks there are.
Shutdown(r) ==
    /\ lpc[r] = "idle"
    /\ faults < MaxFaults
    /\ faults' = faults + 1
    /\ stop' = [stop EXCEPT ![r] = TRUE]
    /\ cand' = [cand EXCEPT ![r] = Active(r)]
    /\ LoopTo(r, IF Active(r) = {} THEN "down" ELSE "grace")
    /\ UNCHANGED <<row, tasks, todo, lane, free, req, ghosts>>

\* The grace period is over: what is left is cancelled and gathered.
EndGrace(r) ==
    /\ lpc[r] = "grace"
    /\ NoTasks(r)
    /\ LoopTo(r, "collect")
    /\ UNCHANGED <<row, todo, lane, free, cand, stop, faults, req, ghosts>>

\* The rows this worker leaves running are settled like interrupted ones.
CollectOwn(r) ==
    /\ lpc[r] = "collect"
    /\ todo' = [todo EXCEPT ![r] =
                  {Snapshot(j) : j \in {i \in cand[r] : row[i].status = "running" /\ row[i].worker = r}}]
    /\ cand' = [cand EXCEPT ![r] = {}]
    /\ LoopTo(r, "settle")
    /\ UNCHANGED <<row, tasks, lane, free, stop, faults, req, ghosts>>

\* The database refuses a query of the loop: run_forever goes on with a new round,
\* shutdown leaves its rows to the reaper.  (_call_on_interrupted fails on its own.)
LoopFails(r) ==
    /\ lpc[r] \in {"settle", "giveup", "count", "select", "claim", "collect"}
    /\ faults < MaxFaults
    /\ faults' = faults + 1
    /\ LoopTo(r, IF stop[r] THEN "down" ELSE "idle")
    /\ todo' = [todo EXCEPT ![r] = {}]
    /\ lane' = [lane EXCEPT ![r] = 1]
    /\ free' = [free EXCEPT ![r] = 0]
    /\ cand' = [cand EXCEPT ![r] = {}]
    /\ UNCHANGED <<row, tasks, stop, req, ghosts>>

Crash(r) ==
    /\ lpc[r] # "down"
    /\ faults < MaxFaults
    /\ faults' = faults + 1
    /\ NoTasks(r)
    /\ LoopTo(r, "down")
    /\ todo' = [todo EXCEPT ![r] = {}]
    /\ lane' = [lane EXCEPT ![r] = 1]
    /\ free' = [free EXCEPT ![r] = 0]
    /\ cand' = [cand EXCEPT ![r] = {}]
    /\ UNCHANGED <<row, stop, req, ghosts>>

Restart(r) ==
    /\ lpc[r] = "down"
    /\ LoopTo(r, "idle")
    /\ stop' = [stop EXCEPT ![r] = FALSE]
    /\ UNCHANGED <<row, tasks, todo, lane, free, cand, faults, req, ghosts>>

-----------------------------------------------------------------------------
Person(j) == Enqueue(j) \/ CancelRead(j) \/ CancelQueued(j) \/ CancelRunning(j)

LoopMove(r) ==
    \/ ReapSelect(r) \/ LoopRequeue(r) \/ LoopGiveUp(r) \/ LoopHook(r) \/ Settled(r)
    \/ CountLane(r) \/ SelectLane(r) \/ ClaimNext(r) \/ LaneFilled(r)
    \/ EndGrace(r) \/ CollectOwn(r)

\* The moves of a task that end it, whatever its handler does.
TaskMove(r, j) ==
    \/ HandlerTimeout(r, j) \/ Finalize(r, j) \/ RequeueForRetry(r, j) \/ TimeoutRead(r, j)
    \/ TaskRequeue(r, j) \/ TaskGiveUp(r, j) \/ TaskHook(r, j)

HandlerMove(r, j) ==
    Heartbeat(r, j) \/ Progress(r, j) \/ Checkpoint(r, j) \/ Act(r, j) \/ HandlerEnds(r, j)

Next ==
    \/ \E j \in Job : Person(j) \/ GoStale(j) \/ ComesDue(j)
    \/ \E r \in Runner : LoopMove(r) \/ Shutdown(r) \/ LoopFails(r) \/ Crash(r) \/ Restart(r)
    \/ \E r \in Runner, j \in Job : TaskMove(r, j) \/ HandlerMove(r, j) \/ WriteFails(r, j)

Spec == Init /\ [][Next]_vars

\* Loops and tasks run on, a runner that is down is started again, time passes.
FairSpec ==
    /\ Spec
    /\ \A r \in Runner : WF_vars(LoopMove(r)) /\ WF_vars(Restart(r))
    /\ \A r \in Runner, j \in Job : WF_vars(TaskMove(r, j))
    /\ \A j \in Job : WF_vars(ComesDue(j)) /\ WF_vars(Orphaned(j) /\ GoStale(j))

-----------------------------------------------------------------------------
RowType ==
    [status : Status, worker : Runner \cup {None}, attempts : Nat, checkpoint : BOOLEAN,
     stale : BOOLEAN, cancel : BOOLEAN, waits : BOOLEAN]
SnapshotType == [job : Job, attempts : Nat, checkpoint : BOOLEAN]

TypeOK ==
    /\ row \in [Job -> RowType]
    /\ tpc \in [Runner -> [Job -> TaskStep]]
    /\ att \in [Runner -> [Job -> Nat]]
    /\ seen \in [Runner -> [Job -> BOOLEAN]]
    /\ lpc \in [Runner -> LoopStep]
    /\ todo \in [Runner -> SUBSET SnapshotType]
    /\ lane \in [Runner -> DOMAIN Lanes]
    /\ free \in [Runner -> Nat]
    /\ cand \in [Runner -> SUBSET Job]
    /\ stop \in [Runner -> BOOLEAN]
    /\ faults \in Nat
    /\ req \in [Job -> {"none", "queued", "running", "accepted", "refused"}]
    /\ fired \in [Job -> Nat]
    /\ hooks \in [Job -> Nat]

(* The point of the checkpoint: the irreversible step of a job (a mail handed *)
(* to the server) is done at most once, whatever claims of the job are        *)
(* reaped, requeued, timed out or still run somewhere as zombies.             *)
ActsOnce == \A j \in Job : fired[j] <= 1

(* Attempts are bounded: neither retries nor interruptions start a job more   *)
(* often than its handler allows.                                             *)
AttemptsBounded == \A j \in Job : row[j].attempts <= MaxAttempts[j]

(* A row that is queued can be claimed: one whose cancel was requested never  *)
(* goes back into the queue, where no runner would touch it again.            *)
QueuedIsClaimable == \A j \in Job : row[j].status = "queued" => ~ row[j].cancel

(* A job ends cancelled only because that was asked for: the JobCancelled a   *)
(* handler gets when its claim is lost never reaches the row.                 *)
CancelledOnRequest ==
    \A j \in Job : row[j].status = "cancelled" => req[j] = "accepted"

(* "settled elsewhere already: never recorded twice" (_settle_interrupted):   *)
(* a failure is recorded by one of the reaper, the shutdown and the timeout,  *)
(* and only for a job that did fail.                                          *)
RecordedOnce ==
    \A j \in Job : hooks[j] <= 1 /\ (hooks[j] = 1 => row[j].status = "failed")

(* "a late finish of an older claim never overwrites a newer one" (module     *)
(* docstring).                                                                *)
LateFinishHarmless ==
    [][\A r \in Runner, j \in Job :
          (tpc[r][j] # "none" /\ tpc'[r][j] = "none" /\ ~ OwnClaim(r, j)) => row'[j] = row[j]]_vars

(* An ended job stays as it ended (_finalize, _settle_interrupted, cancel).   *)
EndIsFinal ==
    [][\A j \in Job : row[j].status \in Terminal => row'[j].status = row[j].status]_vars

(* Two live tasks never hold one claim.                                       *)
OneTaskPerClaim ==
    \A r, q \in Runner, j \in Job :
        (r # q /\ tpc[r][j] # "none" /\ tpc[q][j] # "none") => att[r][j] # att[q][j]

(* Workers that count a lane in the same instant all find its slots free and  *)
(* overlap, but once each: whatever other workers claim between its count and *)
(* its claims, and after a crash that left its rows running, no worker ever   *)
(* runs more rows of a shared lane than the lane has slots.                   *)
InLane(l) == {j \in Job : LaneOf[j] = l /\ row[j].status = "running"}
RowsOf(l, r) == {j \in InLane(l) : row[j].worker = r}
LaneOverlapBounded ==
    \A i \in DOMAIN Lanes : Lanes[i] # DefaultLane =>
        /\ \A r \in Runner : Cardinality(RowsOf(Lanes[i], r)) <= Slots[Lanes[i]]
        /\ Cardinality(InLane(Lanes[i])) <= Slots[Lanes[i]] * Cardinality(Runner)

(* Every job ends: no crash, stop, lost write, zombie or rival worker leaves  *)
(* it running or queued for good.                                             *)
JobsEnd == \A j \in Job : (row[j].status = "queued") ~> (row[j].status \in Terminal)

(* What a creator sees of a job. *)
Lifecycle == INSTANCE JobLifecycle WITH Job <- Job, MaxAttempts <- MaxAttempts, job <-
    [j \in Job |-> [status |-> row[j].status, starts |-> row[j].attempts,
                    cancel |-> IF req[j] = "accepted" THEN "accepted" ELSE "none",
                    acts |-> fired[j], told |-> hooks[j]]]

(* Whatever the workers do, a job behaves as its creator was promised: the    *)
(* runner, its reaper, shutdown, retries and zombies, and request_cancel      *)
(* between their transactions, implement JobLifecycle.                        *)
LifecycleKept == Lifecycle!Spec
=============================================================================
