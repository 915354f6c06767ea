---------------------------- MODULE JobLifecycle ----------------------------
(***************************************************************************)
(* What a background job promises its creator, whatever the workers do: it *)
(* is started a limited number of times, an accepted cancel is not         *)
(* forgotten, its irreversible step is done at most once and never brings  *)
(* the job back into the queue, and its end is its end.                    *)
(***************************************************************************)
EXTENDS Naturals

CONSTANTS Job,
          MaxAttempts   \* job -> starts its handler allows

VARIABLE job   \* job -> its status, starts, accepted cancel, irreversible steps and recorded failures

Ended == {"succeeded", "failed", "cancelled"}
State ==
    [status : {"absent", "queued", "running"} \cup Ended, starts : Nat, cancel : {"none", "accepted"},
     acts : Nat, told : Nat]

Init ==
    job = [j \in Job |-> [status |-> "absent", starts |-> 0, cancel |-> "none", acts |-> 0, told |-> 0]]

-----------------------------------------------------------------------------
(* The moves of one job, from x to y. *)

Becomes(x, status) == [x EXCEPT !.status = status]
Started(x) == [x EXCEPT !.starts = @ + 1]
Heard(x) == [x EXCEPT !.cancel = "accepted"]

Order(x, y) == x.status = "absent" /\ y = Becomes(x, "queued")

\* A job whose cancel was accepted is not started any more.
Start(x, y, most) ==
    /\ x.status = "queued" /\ x.cancel = "none" /\ x.starts < most
    /\ y = Becomes(Started(x), "running")

\* Once, by a job that runs or was given up under the hands of a worker that still lives; never
\* after the job succeeded, was cancelled or went back into the queue.
Act(x, y) ==
    /\ x.status \in {"running", "failed"} /\ x.acts = 0
    /\ y = [x EXCEPT !.acts = 1]

\* Interrupted, timed out or retried: only if the step was not done and the job may be started again.
Return(x, y, most) ==
    /\ x.status = "running" /\ x.acts = 0 /\ x.cancel = "none" /\ x.starts < most
    /\ y = Becomes(x, "queued")

Finish(x, y) ==
    /\ x.status = "running"
    /\ \E how \in Ended : (how = "cancelled" => x.cancel = "accepted") /\ y = Becomes(x, how)

CancelQueued(x, y) ==
    /\ x.status = "queued"
    /\ y = Becomes(Heard(x), "cancelled")

\* A running job is asked to stop; it may still end otherwise.
CancelRunning(x, y) == x.status = "running" /\ y = Heard(x)

\* The handler records a failure for the user (on_interrupted).
Tell(x, y) == x.status = "failed" /\ x.told = 0 /\ y = [x EXCEPT !.told = 1]

Move(x, y, most) ==
    \/ Order(x, y) \/ Start(x, y, most) \/ Act(x, y) \/ Return(x, y, most) \/ Finish(x, y)
    \/ CancelQueued(x, y) \/ CancelRunning(x, y) \/ Tell(x, y)

\* Jobs are independent: each moves or stays.
Next ==
    /\ job' \in [Job -> State]
    /\ \A j \in Job : job'[j] = job[j] \/ Move(job[j], job'[j], MaxAttempts[j])

Spec == Init /\ [][Next]_job
=============================================================================
