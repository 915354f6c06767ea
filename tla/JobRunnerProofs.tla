-------------------------- MODULE JobRunnerProofs --------------------------
(***************************************************************************)
(* Proofs about JobRunner, for every set of runners and jobs, every lane   *)
(* layout, every attempt limit and every number of faults.                 *)
(***************************************************************************)
EXTENDS JobRunner, FiniteSetTheorems, TLAPS

-----------------------------------------------------------------------------
(* Type correctness. *)

\* What the database calls of jobs/runner.py count is a number.
LEMMA OccupiedIsNat ==
    ASSUME NEW r \in Runner, NEW l
    PROVE  Occupied(r, l) \in Nat
<1>1. ASSUME NEW S \in SUBSET Job PROVE Cardinality(S) \in Nat
  BY <1>1, JobAssumption, FS_Subset, FS_CardinalityType
<1>2. /\ {j \in Active(r) : LaneOf[j] = l} \in SUBSET Job
      /\ {j \in Job : LaneOf[j] = l /\ row[j].status = "running"} \in SUBSET Job
  BY DEF Active
<1> QED
  BY <1>1, <1>2 DEF Occupied

\* The initial state of a freshly started worker is well-typed.
LEMMA TypeInit == Init => TypeOK
BY JobAssumption DEF Init, TypeOK, AbsentRow, RowType, Status, Terminal, TaskStep, LoopStep, Handling, SnapshotType

-----------------------------------------------------------------------------
(* What the writes make of a row. *)

\* A claim counts an attempt and forgets the checkpoint of the attempt before.
LEMMA ClaimedRow ==
    ASSUME NEW x \in RowType, NEW r \in Runner
    PROVE  /\ Claimed(x, r) \in RowType
           /\ Claimed(x, r).status = "running" /\ Claimed(x, r).worker = r
           /\ Claimed(x, r).attempts = x.attempts + 1 /\ ~ Claimed(x, r).checkpoint
           /\ Claimed(x, r).cancel = x.cancel
<1>1. x.attempts \in Nat /\ x.attempts + 1 \in Nat
  BY DEF RowType
<1>2. Claimed(x, r) \in RowType
  BY <1>1 DEF Claimed, RowType, Status
<1>3. /\ Claimed(x, r).status = "running" /\ Claimed(x, r).worker = r
      /\ Claimed(x, r).attempts = x.attempts + 1
  BY DEF Claimed, RowType
<1>4. Claimed(x, r).checkpoint = FALSE /\ Claimed(x, r).cancel = x.cancel
  BY DEF Claimed, RowType
<1> QED
  BY <1>2, <1>3, <1>4

\* A requeue ends the job cancelled when that was asked for.
LEMMA RequeuedRow ==
    ASSUME NEW x \in RowType, NEW b \in BOOLEAN
    PROVE  /\ Requeued(x, b) \in RowType
           /\ Requeued(x, b).status = (IF x.cancel THEN "cancelled" ELSE "queued")
           /\ Requeued(x, b).attempts = x.attempts /\ Requeued(x, b).cancel = x.cancel
           /\ Requeued(x, b).checkpoint = x.checkpoint
BY DEF Requeued, RowType, Status, Terminal

\* The same for a claim that is handed back at once.
LEMMA HandedBackRow ==
    ASSUME NEW x \in RowType
    PROVE  /\ Requeued(x, FALSE) \in RowType
           /\ Requeued(x, FALSE).status = (IF x.cancel THEN "cancelled" ELSE "queued")
           /\ Requeued(x, FALSE).attempts = x.attempts /\ Requeued(x, FALSE).cancel = x.cancel
BY DEF Requeued, RowType, Status, Terminal

\* The same for a retry, which clears the checkpoint as well.
LEMMA RetriedRow ==
    ASSUME NEW x \in RowType, NEW b \in BOOLEAN
    PROVE  /\ Retried(x, b) \in RowType
           /\ Retried(x, b).status = (IF x.cancel THEN "cancelled" ELSE "queued")
           /\ Retried(x, b).attempts = x.attempts /\ Retried(x, b).cancel = x.cancel
<1>1. ASSUME NEW y \in RowType
      PROVE  /\ [y EXCEPT !.checkpoint = FALSE] \in RowType
             /\ [y EXCEPT !.checkpoint = FALSE].status = y.status
             /\ [y EXCEPT !.checkpoint = FALSE].attempts = y.attempts
             /\ [y EXCEPT !.checkpoint = FALSE].cancel = y.cancel
  BY DEF RowType
<1>2. PICK y \in RowType : y = Requeued(x, b)
  BY RequeuedRow
<1>3. Retried(x, b) = [y EXCEPT !.checkpoint = FALSE]
  BY <1>2 DEF Retried
<1> QED
  BY <1>1, <1>2, <1>3, RequeuedRow

\* Ordered: queued, with nothing else changed.
LEMMA QueuedRow ==
    ASSUME NEW x \in RowType, NEW b \in BOOLEAN
    PROVE  /\ Queued(x, b) \in RowType
           /\ Queued(x, b).status = "queued"
           /\ Queued(x, b).attempts = x.attempts /\ Queued(x, b).cancel = x.cancel
BY DEF Queued, RowType, Status

\* The other writes change the status, or nothing an ended or running row is asked for.
LEMMA OtherRows ==
    ASSUME NEW x \in RowType
    PROVE  /\ \A how \in Terminal : /\ Ended(x, how) \in RowType
                                   /\ Ended(x, how).status = how
                                   /\ Ended(x, how).attempts = x.attempts /\ Ended(x, how).cancel = x.cancel
           /\ Cancelling(x) \in RowType /\ Cancelling(x).cancel
           /\ Marked(x) \in RowType /\ Marked(x).checkpoint /\ Marked(x).cancel = x.cancel
           /\ \A y \in {Beat(x), Silent(x), Due(x)} :
                 y \in RowType /\ y.checkpoint = x.checkpoint /\ y.cancel = x.cancel
           /\ Cancelling(x).checkpoint = x.checkpoint
           /\ \A y \in {Cancelling(x), Beat(x), Marked(x), Silent(x), Due(x)} :
                 /\ y.status = x.status /\ y.worker = x.worker /\ y.attempts = x.attempts
BY DEF Ended, Cancelling, Beat, Marked, Silent, Due, RowType, Status, Terminal

-----------------------------------------------------------------------------
(* Every step keeps the types. *)

\* Writing one entry of a table of tasks.
LEMMA WriteTask ==
    ASSUME NEW S, NEW f \in [Runner -> [Job -> S]], NEW r \in Runner, NEW k, NEW x,
           k \in Job => x \in S
    PROVE  [f EXCEPT ![r][k] = x] \in [Runner -> [Job -> S]]
<1>1. [f[r] EXCEPT ![k] = x] \in [Job -> S]
  <2>1. f[r] \in [Job -> S]
    OBVIOUS
  <2> QED
    BY <2>1
<1> QED
  BY <1>1

\* People (jobs/service.py) and time.
LEMMA TypePeople ==
    ASSUME TypeOK, NEW j \in Job, Person(j) \/ GoStale(j) \/ ComesDue(j)
    PROVE  TypeOK'
<1>1. row[j] \in RowType
  BY DEF TypeOK
<1>2. row' \in [Job -> RowType]
  <2>1. CASE Enqueue(j)
    <3>1. PICK x \in RowType : row' = [row EXCEPT ![j] = x]
      BY <1>1, <2>1, QueuedRow DEF Enqueue
    <3> QED
      BY <3>1 DEF TypeOK
  <2>2. CASE CancelRead(j)
    BY <2>2 DEF CancelRead, TypeOK
  <2>3. CASE CancelQueued(j)
    <3>1. Ended(row[j], "cancelled") \in RowType
      BY <1>1, OtherRows DEF Terminal
    <3> QED
      BY <2>3, <3>1 DEF CancelQueued, TypeOK
  <2>4. CASE CancelRunning(j)
    <3>1. Cancelling(row[j]) \in RowType
      BY <1>1, OtherRows
    <3> QED
      BY <2>4, <3>1 DEF CancelRunning, TypeOK
  <2>5. CASE GoStale(j)
    BY <1>1, <2>5, OtherRows DEF GoStale, TypeOK
  <2>6. CASE ComesDue(j)
    BY <1>1, <2>6, OtherRows DEF ComesDue, TypeOK
  <2> QED
    BY <2>1, <2>2, <2>3, <2>4, <2>5, <2>6 DEF Person
<1>3. req' \in [Job -> {"none", "queued", "running", "accepted", "refused"}] /\ faults' \in Nat
  BY DEF TypeOK, Person, Enqueue, CancelRead, CancelQueued, CancelRunning, GoStale, ComesDue
<1>4. UNCHANGED <<tasks, loop, ghosts>>
  BY DEF Person, Enqueue, CancelRead, CancelQueued, CancelRunning, GoStale, ComesDue
<1> QED
  BY <1>2, <1>3, <1>4 DEF TypeOK, tasks, loop, ghosts

\* The loop of a runner, with its end, failure and restart (jobs/runner.py).
LEMMA TypeLoop ==
    ASSUME TypeOK, NEW r \in Runner,
           LoopMove(r) \/ Shutdown(r) \/ LoopFails(r) \/ Crash(r) \/ Restart(r)
    PROVE  TypeOK'
<1> DEFINE s == NextSnapshot(r)
<1>1. row' \in [Job -> RowType]
  <2>1. CASE LoopRequeue(r)
    <3> HIDE DEF s
    <3>1. row' = row \/ row' = [row EXCEPT ![s.job] = Requeued(row[s.job], FALSE)]
      BY <2>1 DEF LoopRequeue, s
    <3>2. s.job \in Job => Requeued(row[s.job], FALSE) \in RowType
      BY HandedBackRow DEF TypeOK
    <3>3. row \in [Job -> RowType]
      BY DEF TypeOK
    <3> QED
      BY <3>1, <3>2, <3>3
  <2>2. CASE LoopGiveUp(r)
    <3> HIDE DEF s
    <3>1. row' = row \/ row' = [row EXCEPT ![s.job] = Ended(row[s.job], "failed")]
      BY <2>2 DEF LoopGiveUp, s
    <3>2. s.job \in Job => Ended(row[s.job], "failed") \in RowType
      BY OtherRows DEF TypeOK, Terminal
    <3>3. row \in [Job -> RowType]
      BY DEF TypeOK
    <3> QED
      BY <3>1, <3>2, <3>3
  <2>3. CASE ClaimNext(r)
    <3> DEFINE j == First(cand[r])
    <3> HIDE DEF j
    <3>1. row' = row \/ row' = [row EXCEPT ![j] = Claimed(row[j], r)]
      BY <2>3 DEF ClaimNext, j
    <3>2. j \in Job => Claimed(row[j], r) \in RowType
      BY ClaimedRow DEF TypeOK
    <3>3. row \in [Job -> RowType]
      BY DEF TypeOK
    <3> QED
      BY <3>1, <3>2, <3>3
  <2>4. CASE ~ (LoopRequeue(r) \/ LoopGiveUp(r) \/ ClaimNext(r))
    <3>1. row' = row
      BY <2>4 DEF LoopMove, ReapSelect, LoopHook, Settled, CountLane, SelectLane, LaneFilled,
                  EndGrace, CollectOwn, Shutdown, LoopFails, Crash, Restart, NoTasks
    <3> QED
      BY <3>1 DEF TypeOK
  <2> QED
    BY <2>1, <2>2, <2>3, <2>4
<1>2. tpc' \in [Runner -> [Job -> TaskStep]] /\ att' \in [Runner -> [Job -> Nat]]
  <2>1. CASE ClaimNext(r)
    <3> DEFINE j == First(cand[r])
    <3> HIDE DEF j
    <3>1. \/ UNCHANGED <<tpc, att>>
          \/ /\ tpc' = [tpc EXCEPT ![r][j] = "run"]
             /\ att' = [att EXCEPT ![r][j] = row[j].attempts + 1]
      BY <2>1 DEF ClaimNext, j
    <3>2. "run" \in TaskStep /\ (j \in Job => row[j].attempts + 1 \in Nat)
      BY DEF TaskStep, Handling, TypeOK, RowType
    <3>3. tpc \in [Runner -> [Job -> TaskStep]] /\ att \in [Runner -> [Job -> Nat]]
      BY DEF TypeOK
    <3>4. /\ [tpc EXCEPT ![r][j] = "run"] \in [Runner -> [Job -> TaskStep]]
          /\ [att EXCEPT ![r][j] = row[j].attempts + 1] \in [Runner -> [Job -> Nat]]
      BY <3>2, <3>3, WriteTask
    <3> QED
      BY <3>1, <3>3, <3>4
  <2>2. CASE NoTasks(r)
    BY <2>2 DEF NoTasks, TypeOK, TaskStep
  <2>3. CASE ~ ClaimNext(r) /\ ~ NoTasks(r)
    <3>1. UNCHANGED <<tpc, att>>
      BY <2>3 DEF LoopMove, ReapSelect, LoopRequeue, LoopGiveUp, LoopHook, Settled, CountLane,
                  SelectLane, LaneFilled, EndGrace, CollectOwn, Shutdown, LoopFails, Crash, Restart, tasks
    <3> QED
      BY <3>1 DEF TypeOK
  <2> QED
    BY <2>1, <2>2, <2>3
<1>3. seen' \in [Runner -> [Job -> BOOLEAN]]
  <2>1. UNCHANGED seen \/ seen' = [seen EXCEPT ![r] = [j \in Job |-> FALSE]]
    BY DEF LoopMove, ReapSelect, LoopRequeue, LoopGiveUp, LoopHook, Settled, CountLane, SelectLane,
         LaneFilled, ClaimNext, EndGrace, CollectOwn, Shutdown, LoopFails, Crash, Restart, NoTasks, tasks
  <2>2. [j \in Job |-> FALSE] \in [Job -> BOOLEAN] /\ seen \in [Runner -> [Job -> BOOLEAN]]
    BY DEF TypeOK
  <2> QED
    BY <2>1, <2>2
<1>4. lpc' \in [Runner -> LoopStep] /\ stop' \in [Runner -> BOOLEAN]
  <2>1. UNCHANGED lpc \/ \E step \in LoopStep : lpc' = [lpc EXCEPT ![r] = step]
    BY DEF LoopMove, ReapSelect, LoopRequeue, LoopGiveUp, LoopHook, Settled, CountLane, SelectLane,
         LaneFilled, ClaimNext, EndGrace, CollectOwn, Shutdown, LoopFails, Crash, Restart, LeaveLane, LoopTo, LoopStep
  <2>2. UNCHANGED stop \/ \E b \in BOOLEAN : stop' = [stop EXCEPT ![r] = b]
    BY DEF LoopMove, ReapSelect, LoopRequeue, LoopGiveUp, LoopHook, Settled, CountLane, SelectLane,
         LaneFilled, ClaimNext, EndGrace, CollectOwn, Shutdown, LoopFails, Crash, Restart
  <2>3. lpc \in [Runner -> LoopStep] /\ stop \in [Runner -> BOOLEAN]
    BY DEF TypeOK
  <2>4. lpc' \in [Runner -> LoopStep]
    BY <2>1, <2>3
  <2>5. stop' \in [Runner -> BOOLEAN]
    BY <2>2, <2>3
  <2> QED
    BY <2>4, <2>5
<1>5. todo' \in [Runner -> SUBSET SnapshotType]
  <2>1. \A j \in Job : Snapshot(j) \in SnapshotType
    BY DEF Snapshot, SnapshotType, TypeOK, RowType
  <2>0. todo \in [Runner -> SUBSET SnapshotType] /\ cand[r] \in SUBSET Job
    BY DEF TypeOK
  <2>2. CASE ReapSelect(r)
    <3>1. {Snapshot(j) : j \in {i \in Job : row[i].status = "running" /\ row[i].stale}} \in SUBSET SnapshotType
      BY <2>1
    <3> QED
      BY <2>0, <2>2, <3>1 DEF ReapSelect
  <2>3. CASE CollectOwn(r)
    <3>1. {Snapshot(j) : j \in {i \in cand[r] : row[i].status = "running" /\ row[i].worker = r}}
             \in SUBSET SnapshotType
      BY <2>0, <2>1
    <3> QED
      BY <2>0, <2>3, <3>1 DEF CollectOwn
  <2>4. CASE ~ ReapSelect(r) /\ ~ CollectOwn(r)
    <3>1. UNCHANGED todo \/ \E S \in SUBSET todo[r] : todo' = [todo EXCEPT ![r] = S]
      BY <2>4 DEF LoopMove, LoopRequeue, LoopGiveUp, LoopHook, Settled, CountLane, SelectLane,
         LaneFilled, ClaimNext, EndGrace, Shutdown, LoopFails, Crash, Restart
    <3> QED
      BY <3>1 DEF TypeOK
  <2> QED
    BY <2>2, <2>3, <2>4
<1>6. lane' \in [Runner -> DOMAIN Lanes] /\ free' \in [Runner -> Nat]
  <2>1. 1 \in DOMAIN Lanes /\ Len(Lanes) \in Nat /\ DOMAIN Lanes = 1 .. Len(Lanes)
    BY JobAssumption
  <2>2. LeaveLane(r) => lane' \in [Runner -> DOMAIN Lanes]
    <3>1. lane[r] \in 1 .. Len(Lanes)
      BY <2>1 DEF TypeOK
    <3>2. lane[r] < Len(Lanes) => lane[r] + 1 \in DOMAIN Lanes
      BY <2>1, <3>1
    <3>3. LeaveLane(r) => lane' = [lane EXCEPT ![r] = 1]
                          \/ (lane[r] < Len(Lanes) /\ lane' = [lane EXCEPT ![r] = lane[r] + 1])
      BY DEF LeaveLane
    <3> QED
      BY <2>1, <3>2, <3>3 DEF TypeOK
  <2>3. CASE CountLane(r)
    <3> DEFINE used == Occupied(r, LaneName(r))
    <3>1. used \in Nat /\ Slots[LaneName(r)] \in Nat
      BY OccupiedIsNat, JobAssumption DEF LaneName, TypeOK
    <3> HIDE DEF used
    <3>2. free' = free \/ (used < Slots[LaneName(r)] /\ free' = [free EXCEPT ![r] = Slots[LaneName(r)] - used])
      BY <2>3 DEF CountLane, used
    <3>3. used < Slots[LaneName(r)] => Slots[LaneName(r)] - used \in Nat
      BY <3>1
    <3>4. free' \in [Runner -> Nat]
      BY <3>2, <3>3 DEF TypeOK
    <3>5. lane' = lane \/ LeaveLane(r)
      BY <2>3 DEF CountLane
    <3> QED
      BY <2>2, <3>4, <3>5 DEF TypeOK
  <2>4. CASE ~ CountLane(r)
    <3>1. UNCHANGED free \/ free' = [free EXCEPT ![r] = 0]
      BY <2>4 DEF LoopMove, ReapSelect, LoopRequeue, LoopGiveUp, LoopHook, Settled, SelectLane,
         LaneFilled, ClaimNext, EndGrace, CollectOwn, Shutdown, LoopFails, Crash, Restart
    <3>2. lane' = lane \/ lane' = [lane EXCEPT ![r] = 1] \/ LeaveLane(r)
      BY <2>4 DEF LoopMove, ReapSelect, LoopRequeue, LoopGiveUp, LoopHook, Settled, SelectLane,
         LaneFilled, ClaimNext, EndGrace, CollectOwn, Shutdown, LoopFails, Crash, Restart
    <3>3. lane' \in [Runner -> DOMAIN Lanes]
      BY <2>1, <2>2, <3>2 DEF TypeOK
    <3>4. free \in [Runner -> Nat] /\ 0 \in Nat
      BY DEF TypeOK
    <3> QED
      BY <3>1, <3>3, <3>4
  <2> QED
    BY <2>3, <2>4
<1>7. cand' \in [Runner -> SUBSET Job]
  <2>1. UNCHANGED cand \/ \E S \in SUBSET (cand[r] \cup Job) : cand' = [cand EXCEPT ![r] = S]
    <3>1. CASE SelectLane(r)
      BY <3>1 DEF SelectLane, Claimable
    <3>2. CASE Shutdown(r)
      BY <3>2 DEF Shutdown, Active
    <3>3. CASE ~ SelectLane(r) /\ ~ Shutdown(r)
      BY <3>3 DEF LoopMove, ReapSelect, LoopRequeue, LoopGiveUp, LoopHook, Settled, CountLane,
         LaneFilled, ClaimNext, EndGrace, CollectOwn, LoopFails, Crash, Restart
    <3> QED
      BY <3>1, <3>2, <3>3
  <2> QED
    BY <2>1 DEF TypeOK
<1>8. faults' \in Nat /\ req' = req /\ fired' = fired
  <2>1. UNCHANGED faults \/ faults' = faults + 1
    BY DEF LoopMove, ReapSelect, LoopRequeue, LoopGiveUp, LoopHook, Settled, CountLane, SelectLane,
         LaneFilled, ClaimNext, EndGrace, CollectOwn, Shutdown, LoopFails, Crash, Restart
  <2>2. UNCHANGED <<req, fired>>
    BY DEF LoopMove, ReapSelect, LoopRequeue, LoopGiveUp, LoopHook, Settled, CountLane, SelectLane,
         LaneFilled, ClaimNext, EndGrace, CollectOwn, Shutdown, LoopFails, Crash, Restart, ghosts
  <2> QED
    BY <2>1, <2>2 DEF TypeOK
<1>9. hooks' \in [Job -> Nat]
  <2> HIDE DEF s
  <2>1. UNCHANGED hooks \/ hooks' = [hooks EXCEPT ![s.job] = hooks[s.job] + 1]
    BY DEF s, LoopMove, ReapSelect, LoopRequeue, LoopGiveUp, LoopHook, Settled, CountLane, SelectLane,
         LaneFilled, ClaimNext, EndGrace, CollectOwn, Shutdown, LoopFails, Crash, Restart, ghosts
  <2>2. s.job \in Job => hooks[s.job] + 1 \in Nat
    BY DEF TypeOK
  <2> QED
    BY <2>1, <2>2 DEF TypeOK
<1> QED
  <2>1. UNCHANGED <<req, fired>>
    BY <1>8
  <2> QED
    BY <1>1, <1>2, <1>3, <1>4, <1>5, <1>6, <1>7, <1>8, <1>9, <2>1 DEF TypeOK

\* A task.
LEMMA TypeTask ==
    ASSUME TypeOK, NEW r \in Runner, NEW j \in Job,
           TaskMove(r, j) \/ HandlerMove(r, j) \/ WriteFails(r, j)
    PROVE  TypeOK'
<1>1. row' \in [Job -> RowType]
  <2>1. \E x \in RowType : row' = row \/ row' = [row EXCEPT ![j] = x]
    <3>0. row[j] \in RowType /\ tpc[r][j] \in TaskStep
      BY DEF TypeOK
    <3>1. CASE RequeueForRetry(r, j)
      BY <3>0, <3>1, RetriedRow DEF RequeueForRetry
    <3>2. CASE TaskRequeue(r, j)
      BY <3>0, <3>2, RequeuedRow DEF TaskRequeue
    <3>3. CASE Finalize(r, j) \/ TaskGiveUp(r, j)
      <4>1. \A how \in Terminal : Ended(row[j], how) \in RowType
        BY <3>0, OtherRows
      <4>2. "failed" \in Terminal
        BY DEF Terminal
      <4> QED
        BY <3>3, <3>0, <4>1, <4>2 DEF Finalize, TaskGiveUp
    <3>4. CASE ~ (RequeueForRetry(r, j) \/ TaskRequeue(r, j) \/ Finalize(r, j) \/ TaskGiveUp(r, j))
      <4>1. Beat(row[j]) \in RowType /\ Marked(row[j]) \in RowType
        BY <3>0, OtherRows
      <4> QED
        BY <3>4, <3>0, <4>1 DEF TaskMove, HandlerTimeout, TimeoutRead, TaskHook, HandlerMove, Heartbeat,
           Progress, Checkpoint, Act, HandlerEnds, WriteFails
    <3> QED
      BY <3>1, <3>2, <3>3, <3>4
  <2> QED
    BY <2>1 DEF TypeOK
<1>2. tpc' \in [Runner -> [Job -> TaskStep]]
  <2>1. PICK step \in TaskStep : UNCHANGED tpc \/ tpc' = [tpc EXCEPT ![r][j] = step]
    <3>1. CASE HandlerEnds(r, j)
      BY <3>1 DEF HandlerEnds, Outcomes, TaskTo, TaskStep, Terminal
    <3>2. CASE ~ HandlerEnds(r, j)
      <4>1. tpc[r][j] \in TaskStep
        BY DEF TypeOK
      <4> QED
        BY <3>2, <4>1 DEF TaskMove, HandlerTimeout, Finalize, RequeueForRetry, TimeoutRead,
           TaskRequeue, TaskGiveUp, TaskHook, HandlerMove, Heartbeat, Progress, Checkpoint, Act,
           WriteFails, EndTask, TaskTo, TaskStep, Handling, Terminal, tasks
    <3> QED
      BY <3>1, <3>2
  <2>2. tpc \in [Runner -> [Job -> TaskStep]]
    BY DEF TypeOK
  <2>3. [tpc EXCEPT ![r][j] = step] \in [Runner -> [Job -> TaskStep]]
    BY <2>2, WriteTask
  <2> QED
    BY <2>1, <2>2, <2>3
<1>3. att' \in [Runner -> [Job -> Nat]]
  <2>1. UNCHANGED att \/ att' = [att EXCEPT ![r][j] = 0]
    BY DEF TaskMove, HandlerTimeout, Finalize, RequeueForRetry, TimeoutRead, TaskRequeue, TaskGiveUp, TaskHook,
         HandlerMove, Heartbeat, Progress, Checkpoint, Act, HandlerEnds, WriteFails, EndTask, TaskTo, tasks
  <2>2. att \in [Runner -> [Job -> Nat]]
    BY DEF TypeOK
  <2>3. [att EXCEPT ![r][j] = 0] \in [Runner -> [Job -> Nat]]
    BY <2>2, WriteTask
  <2> QED
    BY <2>1, <2>2, <2>3
<1>4. seen' \in [Runner -> [Job -> BOOLEAN]]
  <2>1. PICK b \in BOOLEAN : UNCHANGED seen \/ seen' = [seen EXCEPT ![r][j] = b]
    <3>1. CASE TimeoutRead(r, j)
      <4>1. (OwnClaim(r, j) /\ row[j].checkpoint) \in BOOLEAN
        OBVIOUS
      <4> QED
        BY <3>1, <4>1 DEF TimeoutRead
    <3>2. CASE ~ TimeoutRead(r, j)
      <4>1. UNCHANGED seen \/ seen' = [seen EXCEPT ![r][j] = FALSE]
        BY <3>2 DEF TaskMove, HandlerTimeout, Finalize, RequeueForRetry, TaskRequeue, TaskGiveUp, TaskHook,
           HandlerMove, Heartbeat, Progress, Checkpoint, Act, HandlerEnds, WriteFails, EndTask, tasks
      <4> QED
        BY <4>1
    <3> QED
      BY <3>1, <3>2
  <2>2. seen \in [Runner -> [Job -> BOOLEAN]]
    BY DEF TypeOK
  <2>3. [seen EXCEPT ![r][j] = b] \in [Runner -> [Job -> BOOLEAN]]
    BY <2>2, WriteTask
  <2> QED
    BY <2>1, <2>2, <2>3
<1>5. faults' \in Nat
  <2>1. UNCHANGED faults \/ faults' = faults + 1
    BY DEF TaskMove, HandlerTimeout, Finalize, RequeueForRetry, TimeoutRead, TaskRequeue, TaskGiveUp, TaskHook,
         HandlerMove, Heartbeat, Progress, Checkpoint, Act, HandlerEnds, WriteFails, EndTask, TaskTo
  <2> QED
    BY <2>1 DEF TypeOK
<1>6. fired' \in [Job -> Nat] /\ hooks' \in [Job -> Nat]
  <2>1. UNCHANGED fired \/ fired' = [fired EXCEPT ![j] = fired[j] + 1]
    BY DEF TaskMove, HandlerTimeout, Finalize, RequeueForRetry, TimeoutRead, TaskRequeue, TaskGiveUp, TaskHook,
         HandlerMove, Heartbeat, Progress, Checkpoint, Act, HandlerEnds, WriteFails, EndTask, TaskTo, ghosts
  <2>2. UNCHANGED hooks \/ hooks' = [hooks EXCEPT ![j] = hooks[j] + 1]
    BY DEF TaskMove, HandlerTimeout, Finalize, RequeueForRetry, TimeoutRead, TaskRequeue, TaskGiveUp, TaskHook,
         HandlerMove, Heartbeat, Progress, Checkpoint, Act, HandlerEnds, WriteFails, EndTask, TaskTo, ghosts
  <2>3. fired[j] + 1 \in Nat /\ hooks[j] + 1 \in Nat
    BY DEF TypeOK
  <2>4. fired \in [Job -> Nat] /\ hooks \in [Job -> Nat]
    BY DEF TypeOK
  <2>5. fired' \in [Job -> Nat]
    BY <2>1, <2>3, <2>4
  <2> QED
    BY <2>2, <2>3, <2>4, <2>5
<1>7. UNCHANGED <<loop, req>>
  BY DEF TaskMove, HandlerTimeout, Finalize, RequeueForRetry, TimeoutRead, TaskRequeue, TaskGiveUp, TaskHook,
         HandlerMove, Heartbeat, Progress, Checkpoint, Act, HandlerEnds, WriteFails, EndTask, TaskTo
<1> QED
  BY <1>1, <1>2, <1>3, <1>4, <1>5, <1>6, <1>7 DEF TypeOK, loop

\* No step leaves the types.
LEMMA TypeKept == TypeOK /\ [Next]_vars => TypeOK'
<1> SUFFICES ASSUME TypeOK, [Next]_vars PROVE TypeOK'
  OBVIOUS
<1>1. CASE \E j \in Job : Person(j) \/ GoStale(j) \/ ComesDue(j)
  BY <1>1, TypePeople
<1>2. CASE \E r \in Runner : LoopMove(r) \/ Shutdown(r) \/ LoopFails(r) \/ Crash(r) \/ Restart(r)
  BY <1>2, TypeLoop
<1>3. CASE \E r \in Runner, j \in Job : TaskMove(r, j) \/ HandlerMove(r, j) \/ WriteFails(r, j)
  BY <1>3, TypeTask
<1>4. CASE UNCHANGED vars
  BY <1>4 DEF TypeOK, vars, tasks, loop, ghosts
<1> QED
  BY <1>1, <1>2, <1>3, <1>4 DEF Next

\* Every column, step and counter of the runners keeps its type.
THEOREM TypeCorrect == Spec => []TypeOK
BY TypeInit, TypeKept, PTL DEF Spec

-----------------------------------------------------------------------------
(* What a step does to one job.  Every step of the system is, seen from the *)
(* job, one of the moves below; the invariants are proved from the moves.   *)

SameClaim(j) ==
    /\ row'[j].status = row[j].status /\ row'[j].worker = row[j].worker
    /\ row'[j].attempts = row[j].attempts /\ row'[j].checkpoint = row[j].checkpoint
    /\ row'[j].cancel = row[j].cancel
SameCount(j) == row'[j].attempts = row[j].attempts /\ row'[j].cancel = row[j].cancel
SameTask(r, j) == tpc'[r][j] = tpc[r][j] /\ att'[r][j] = att[r][j]
SameTasks(j) == \A r \in Runner : SameTask(r, j)
OtherTasks(r, j) == \A q \in Runner \ {r} : SameTask(q, j)
TaskGone(r, j) == OtherTasks(r, j) /\ tpc'[r][j] = "none" /\ att'[r][j] = 0
TaskGoes(r, j, step) == OtherTasks(r, j) /\ tpc'[r][j] = step /\ att'[r][j] = att[r][j]

\* The loop of r failed j and has still to record it.
Pending(r, j) == lpc[r] = "hook" /\ NextSnapshot(r).job = j
NoNewPending(j) == \A r \in Runner : Pending(r, j)' => Pending(r, j)

BackInQueue(j) ==
    row'[j].status = (IF row[j].cancel THEN "cancelled" ELSE "queued") /\ SameCount(j)

ByPeople(j) ==
    /\ SameTasks(j) /\ NoNewPending(j) /\ fired'[j] = fired[j] /\ hooks'[j] = hooks[j]
    /\ \/ /\ row[j].status = "absent" /\ row'[j].status = "queued"
          /\ SameCount(j) /\ req'[j] = req[j]
       \/ /\ row[j].status = "queued" /\ row'[j].status = "cancelled"
          /\ SameCount(j) /\ req'[j] = "accepted"
       \/ /\ row[j].status = "running" /\ row'[j].status = "running"
          /\ row'[j].worker = row[j].worker /\ row'[j].attempts = row[j].attempts
          /\ row'[j].checkpoint = row[j].checkpoint /\ row'[j].cancel /\ req'[j] = "accepted"
       \/ SameClaim(j) /\ (req'[j] = req[j] \/ "accepted" \notin {req[j], req'[j]})

ByLoop(r, j) ==
    /\ fired'[j] = fired[j] /\ req'[j] = req[j]
    /\ \/ /\ SameTasks(j) /\ NoNewPending(j) /\ hooks'[j] = hooks[j]
          /\ row[j].status = "running" /\ row[j].checkpoint = FALSE
          /\ row[j].attempts < MaxAttempts[j] /\ BackInQueue(j)
       \/ /\ SameTasks(j) /\ hooks'[j] = hooks[j]
          /\ \A q \in Runner \ {r} : Pending(q, j)' => Pending(q, j)
          /\ row[j].status = "running" /\ row'[j].status = "failed" /\ SameCount(j)
       \/ /\ SameTasks(j) /\ SameClaim(j) /\ NoNewPending(j)
          /\ Pending(r, j) /\ ~ Pending(r, j)' /\ hooks'[j] = hooks[j] + 1
       \/ /\ NoNewPending(j) /\ hooks'[j] = hooks[j]
          /\ row[j].status = "queued" /\ tpc[r][j] = "none"
          /\ row'[j].status = "running" /\ row'[j].worker = r
          /\ row'[j].attempts = row[j].attempts + 1 /\ row'[j].checkpoint = FALSE
          /\ row'[j].cancel = row[j].cancel
          /\ OtherTasks(r, j) /\ tpc'[r][j] = "run" /\ att'[r][j] = row[j].attempts + 1
       \/ NoNewPending(j) /\ hooks'[j] = hooks[j] /\ row'[j] = row[j] /\ TaskGone(r, j)

ByTask(r, j) ==
    /\ NoNewPending(j) /\ req'[j] = req[j]
    /\ \/ /\ OwnClaim(r, j) /\ fired'[j] = fired[j] /\ hooks'[j] = hooks[j] /\ TaskGone(r, j)
          /\ \/ tpc[r][j] \in Terminal /\ row'[j].status = tpc[r][j] /\ SameCount(j)
             \/ tpc[r][j] = "retry" /\ BackInQueue(j)
             \/ /\ tpc[r][j] = "settle" /\ row[j].checkpoint = FALSE
                /\ row[j].attempts < MaxAttempts[j] /\ BackInQueue(j)
       \/ /\ tpc[r][j] = "giveup" /\ OwnClaim(r, j) /\ fired'[j] = fired[j] /\ hooks'[j] = hooks[j]
          /\ row'[j].status = "failed" /\ SameCount(j) /\ TaskGoes(r, j, "hook")
       \/ /\ row'[j] = row[j] /\ fired'[j] = fired[j] /\ TaskGone(r, j) 
          /\ \/ tpc[r][j] # "hook" /\ hooks'[j] = hooks[j]
             \/ tpc[r][j] = "hook" /\ hooks'[j] = hooks[j] + 1
       \/ /\ tpc[r][j] = "run" /\ OwnClaim(r, j) /\ fired'[j] = fired[j] /\ hooks'[j] = hooks[j]
          /\ row'[j].status = "running" /\ row'[j].worker = row[j].worker /\ SameCount(j)
          /\ row'[j].checkpoint = TRUE /\ TaskGoes(r, j, "past")
       \/ /\ tpc[r][j] = "past" /\ fired'[j] = fired[j] + 1 /\ hooks'[j] = hooks[j]
          /\ SameClaim(j) /\ TaskGoes(r, j, "acted")
       \/ /\ fired'[j] = fired[j] /\ hooks'[j] = hooks[j] /\ SameClaim(j)
          /\ \/ tpc[r][j] \in Handling /\ TaskGoes(r, j, "cancelled") /\ (OwnClaim(r, j) => row[j].cancel)
             \/ /\ tpc[r][j] \in {"run", "past"} /\ att[r][j] < MaxAttempts[j]
                /\ TaskGoes(r, j, "retry")
             \/ /\ tpc[r][j] \in Handling \cup {"timeout", "settle"}
                /\ \E step \in {"succeeded", "failed", "timeout", "settle", "giveup"} : TaskGoes(r, j, step)

Idle(j) ==
    /\ SameClaim(j) /\ SameTasks(j) /\ NoNewPending(j)
    /\ fired'[j] = fired[j] /\ hooks'[j] = hooks[j] /\ req'[j] = req[j]

JobMove(j) == ByPeople(j) \/ Idle(j) \/ \E r \in Runner : ByLoop(r, j) \/ ByTask(r, j)

\* People and time.
LEMMA PeopleMove ==
    ASSUME TypeOK, NEW i \in Job, Person(i) \/ GoStale(i) \/ ComesDue(i), NEW j \in Job
    PROVE  JobMove(j)
<1>1. SameTasks(j) /\ NoNewPending(j) /\ fired'[j] = fired[j] /\ hooks'[j] = hooks[j]
  BY DEF Person, Enqueue, CancelRead, CancelQueued, CancelRunning, GoStale, ComesDue,
         SameTasks, SameTask, NoNewPending, Pending, NextSnapshot, tasks, loop, ghosts
<1>2. row[j] \in RowType /\ row \in [Job -> RowType] /\ req \in [Job -> {"none", "queued", "running", "accepted", "refused"}]
  BY DEF TypeOK
<1>3. CASE i # j
  <2>1. row'[j] = row[j] /\ req'[j] = req[j]
    BY <1>2, <1>3 DEF Person, Enqueue, CancelRead, CancelQueued, CancelRunning, GoStale, ComesDue
  <2> QED
    BY <1>1, <2>1 DEF JobMove, Idle, SameClaim
<1>4. CASE i = j
  <2>1. CASE Enqueue(j)
    <3>1. PICK b \in BOOLEAN : row' = [row EXCEPT ![j] = Queued(row[j], b)]
      BY <2>1 DEF Enqueue
    <3>2. row[j].status = "absent" /\ row'[j] = Queued(row[j], b) /\ req' = req
      BY <1>2, <2>1, <3>1 DEF Enqueue
    <3>3. /\ Queued(row[j], b).status = "queued" /\ Queued(row[j], b).attempts = row[j].attempts
          /\ Queued(row[j], b).cancel = row[j].cancel
      BY <1>2, QueuedRow
    <3>4. /\ row[j].status = "absent" /\ row'[j].status = "queued"
          /\ SameCount(j) /\ req'[j] = req[j]
      BY <3>2, <3>3 DEF SameCount
    <3> QED
      BY <1>1, <3>4 DEF JobMove, ByPeople
  <2>2. CASE CancelRead(j)
    BY <1>1, <2>2 DEF CancelRead, JobMove, ByPeople, SameClaim
  <2>3. CASE CancelQueued(j)
    <3>1. \/ row[j].status = "queued" /\ row'[j] = Ended(row[j], "cancelled") /\ req'[j] = "accepted"
          \/ row' = row /\ "accepted" \notin {req[j], req'[j]}
      BY <1>2, <2>3 DEF CancelQueued
    <3>2. /\ Ended(row[j], "cancelled").status = "cancelled"
          /\ Ended(row[j], "cancelled").attempts = row[j].attempts
          /\ Ended(row[j], "cancelled").cancel = row[j].cancel
      BY <1>2, OtherRows DEF Terminal
    <3>3. CASE row' = row /\ "accepted" \notin {req[j], req'[j]}
      BY <1>1, <3>3 DEF JobMove, ByPeople, SameClaim
    <3>4. CASE row[j].status = "queued" /\ row'[j] = Ended(row[j], "cancelled") /\ req'[j] = "accepted"
      <4>1. row'[j].status = "cancelled" /\ SameCount(j)
        BY <3>2, <3>4 DEF SameCount
      <4> QED
        BY <1>1, <3>4, <4>1 DEF JobMove, ByPeople
    <3> QED
      BY <3>1, <3>3, <3>4
  <2>4. CASE CancelRunning(j)
    <3>1. \/ row[j].status = "running" /\ row'[j] = Cancelling(row[j]) /\ req'[j] = "accepted"
          \/ row' = row /\ "accepted" \notin {req[j], req'[j]}
      BY <1>2, <2>4 DEF CancelRunning
    <3>2. CASE row' = row /\ "accepted" \notin {req[j], req'[j]}
      BY <1>1, <3>2 DEF JobMove, ByPeople, SameClaim
    <3>3. CASE row[j].status = "running" /\ row'[j] = Cancelling(row[j]) /\ req'[j] = "accepted"
      <4>1. /\ row'[j].status = "running" /\ row'[j].worker = row[j].worker
            /\ row'[j].attempts = row[j].attempts /\ row'[j].checkpoint = row[j].checkpoint
            /\ row'[j].cancel
        BY <1>2, <3>3, OtherRows
      <4> QED
        BY <1>1, <3>3, <4>1 DEF JobMove, ByPeople
    <3> QED
      BY <3>1, <3>2, <3>3
  <2>5. CASE GoStale(j) \/ ComesDue(j)
    <3>1. row'[j] \in {Beat(row[j]), Silent(row[j]), Due(row[j])} /\ req'[j] = req[j]
      BY <1>2, <2>5 DEF GoStale, ComesDue
    <3>2. SameClaim(j)
      BY <1>2, <3>1, OtherRows DEF SameClaim
    <3> QED
      BY <1>1, <3>1, <3>2 DEF JobMove, Idle
  <2> QED
    BY <1>4, <2>1, <2>2, <2>3, <2>4, <2>5 DEF Person
<1> QED
  BY <1>3, <1>4

\* The loop of a runner, seen from a job.
LEMMA LoopMoves ==
    ASSUME TypeOK, NEW r \in Runner, NEW j \in Job,
           LoopMove(r) \/ Shutdown(r) \/ LoopFails(r) \/ Crash(r) \/ Restart(r)
    PROVE  Idle(j) \/ ByLoop(r, j)
<1> DEFINE s == NextSnapshot(r)
<1> HIDE DEF s
<1>1. fired'[j] = fired[j] /\ req'[j] = req[j]
  BY DEF LoopMove, ReapSelect, LoopRequeue, LoopGiveUp, LoopHook, Settled, CountLane, SelectLane,
         LaneFilled, ClaimNext, EndGrace, CollectOwn, Shutdown, LoopFails, Crash, Restart, ghosts
<1>2. row[j] \in RowType /\ row \in [Job -> RowType] /\ hooks \in [Job -> Nat]
  BY DEF TypeOK
<1>3. /\ tpc \in [Runner -> [Job -> TaskStep]] /\ att \in [Runner -> [Job -> Nat]]
      /\ lpc \in [Runner -> LoopStep] /\ todo \in [Runner -> SUBSET SnapshotType]
  BY DEF TypeOK
<1>4. ASSUME \/ UNCHANGED <<lpc, todo>>
             \/ \E step : step # "hook" /\ lpc' = [lpc EXCEPT ![r] = step]
                           /\ \A q \in Runner \ {r} : todo'[q] = todo[q]
      PROVE  NoNewPending(j)
  BY <1>4, <1>3 DEF NoNewPending, Pending, NextSnapshot
<1>5. CASE LoopRequeue(r)
  <2>1. /\ UNCHANGED tasks /\ hooks' = hooks
        /\ \/ UNCHANGED lpc
           \/ lpc' = [lpc EXCEPT ![r] = "giveup"]
        /\ \A q \in Runner \ {r} : todo'[q] = todo[q]
        /\ lpc[r] = "settle"
    BY <1>3, <1>5 DEF LoopRequeue, ghosts, LoopTo
  <2>2. NoNewPending(j)
    BY <1>3, <2>1 DEF NoNewPending, Pending, NextSnapshot
  <2>3. \/ row' = row
        \/ /\ row[s.job].status = "running" /\ ~ row[s.job].checkpoint
           /\ row[s.job].attempts = s.attempts /\ s.attempts < MaxAttempts[s.job]
           /\ row' = [row EXCEPT ![s.job] = Requeued(row[s.job], FALSE)]
    BY <1>5 DEF LoopRequeue, s, Requeueable, StillThere
  <2>4. CASE s.job = j /\ row' # row
    <3>1. row'[j] = Requeued(row[j], FALSE)
      BY <1>2, <2>3, <2>4
    <3>2. BackInQueue(j)
      <4>1. row[j] \in RowType
        BY <1>2
      <4>2. /\ row'[j].status = (IF row[j].cancel THEN "cancelled" ELSE "queued")
            /\ row'[j].attempts = row[j].attempts /\ row'[j].cancel = row[j].cancel
        BY <3>1, <4>1, HandedBackRow
      <4> QED
        BY <4>2 DEF BackInQueue, SameCount
    <3>3. row[j].checkpoint \in BOOLEAN
      BY <1>2 DEF RowType
    <3> QED
      BY <1>1, <2>1, <2>2, <2>3, <2>4, <3>2, <3>3 DEF ByLoop, SameTasks, SameTask, tasks
  <2>5. CASE s.job # j \/ row' = row
    <3>1. row'[j] = row[j]
      BY <1>2, <2>3, <2>5
    <3> QED
      BY <1>1, <2>1, <2>2, <3>1 DEF Idle, SameClaim, SameTasks, SameTask, tasks
  <2> QED
    BY <2>4, <2>5
<1>6. CASE LoopGiveUp(r)
  <2>1. /\ UNCHANGED tasks /\ hooks' = hooks /\ lpc[r] = "giveup"
        /\ \A q \in Runner \ {r} : todo'[q] = todo[q] /\ lpc'[q] = lpc[q]
        /\ \/ /\ row[s.job].status = "running"
              /\ row' = [row EXCEPT ![s.job] = Ended(row[s.job], "failed")]
              /\ UNCHANGED todo
           \/ row' = row /\ lpc'[r] = "settle"
    BY <1>3, <1>6 DEF LoopGiveUp, ghosts, LoopTo, s, StillThere
  <2>2. \A q \in Runner \ {r} : Pending(q, j)' => Pending(q, j)
    BY <2>1 DEF Pending, NextSnapshot
  <2>3. CASE s.job = j /\ row' # row
    <3>1. row'[j] = Ended(row[j], "failed") /\ row[j].status = "running"
      BY <1>2, <2>1, <2>3
    <3>2. row'[j].status = "failed" /\ SameCount(j)
      BY <1>2, <3>1, OtherRows DEF SameCount, Terminal
    <3> QED
      BY <1>1, <2>1, <2>2, <3>1, <3>2 DEF ByLoop, SameTasks, SameTask, tasks
  <2>4. CASE s.job # j \/ row' = row
    <3>1. row'[j] = row[j]
      BY <1>2, <2>1, <2>4
    <3>2. ~ Pending(r, j)'
      <4>1. CASE row' = row /\ lpc'[r] = "settle"
        BY <4>1 DEF Pending
      <4>2. CASE s.job # j /\ UNCHANGED todo
        BY <4>2 DEF Pending, NextSnapshot, s
      <4>3. CASE row' = row /\ UNCHANGED todo /\ s.job = j /\ row[j].status = "running"
        <5>1. row'[j] = Ended(row[j], "failed") \/ lpc'[r] = "settle"
          BY <1>2, <2>1, <4>3
        <5>2. row'[j].status = "failed" \/ lpc'[r] = "settle"
          BY <1>2, <5>1, OtherRows DEF Terminal
        <5> QED
          BY <4>3, <5>2 DEF Pending
      <4> QED
        BY <2>1, <2>4, <4>1, <4>2, <4>3
    <3> QED
      BY <1>1, <2>1, <2>2, <3>1, <3>2 DEF Idle, SameClaim, SameTasks, SameTask, tasks, NoNewPending
  <2> QED
    BY <2>3, <2>4
<1>7. CASE LoopHook(r)
  <2>1. /\ UNCHANGED tasks /\ UNCHANGED row /\ lpc[r] = "hook" /\ lpc'[r] = "settle"
        /\ \A q \in Runner \ {r} : todo'[q] = todo[q] /\ lpc'[q] = lpc[q]
        /\ hooks' = [hooks EXCEPT ![s.job] = hooks[s.job] + 1]
    BY <1>3, <1>7 DEF LoopHook, LoopTo, s
  <2>2. NoNewPending(j) /\ ~ Pending(r, j)'
    BY <2>1 DEF NoNewPending, Pending, NextSnapshot
  <2>3. CASE s.job = j
    <3>1. Pending(r, j)
      BY <2>1, <2>3 DEF Pending, s
    <3>2. hooks'[j] = hooks[j] + 1
      BY <1>2, <2>1, <2>3
    <3> QED
      BY <1>1, <2>1, <2>2, <3>1, <3>2 DEF ByLoop, SameClaim, SameTasks, SameTask, tasks
  <2>4. CASE s.job # j
    <3>1. hooks'[j] = hooks[j]
      BY <1>2, <2>1, <2>4
    <3> QED
      BY <1>1, <2>1, <2>2, <3>1 DEF Idle, SameClaim, SameTasks, SameTask, tasks
  <2> QED
    BY <2>3, <2>4
<1>8. CASE ClaimNext(r)
  <2> DEFINE i == First(cand[r])
  <2> HIDE DEF i
  <2>1. hooks' = hooks /\ UNCHANGED <<lpc, todo>>
    BY <1>8 DEF ClaimNext, ghosts
  <2>2. NoNewPending(j)
    BY <2>1 DEF NoNewPending, Pending, NextSnapshot
  <2>3. \/ UNCHANGED <<row, tpc, att>>
        \/ /\ i \notin Active(r) /\ row[i].status = "queued"
           /\ row' = [row EXCEPT ![i] = Claimed(row[i], r)]
           /\ tpc' = [tpc EXCEPT ![r][i] = "run"]
           /\ att' = [att EXCEPT ![r][i] = row[i].attempts + 1]
    BY <1>8 DEF ClaimNext, i
  <2>4. CASE i = j /\ ~ UNCHANGED <<row, tpc, att>>
    <3>1. /\ tpc[r][j] = "none" /\ row[j].status = "queued"
          /\ row'[j] = Claimed(row[j], r)
          /\ tpc'[r][j] = "run" /\ att'[r][j] = row[j].attempts + 1 /\ OtherTasks(r, j)
      BY <1>2, <1>3, <2>3, <2>4 DEF Active, OtherTasks, SameTask
    <3>2. /\ row'[j].status = "running" /\ row'[j].worker = r
          /\ row'[j].attempts = row[j].attempts + 1 /\ row'[j].checkpoint = FALSE
          /\ row'[j].cancel = row[j].cancel
      <4>1. Claimed(row[j], r).checkpoint \in BOOLEAN
        BY <1>2, ClaimedRow DEF RowType
      <4> QED
        BY <1>2, <3>1, <4>1, ClaimedRow
    <3> QED
      BY <1>1, <2>1, <2>2, <3>1, <3>2 DEF ByLoop
  <2>5. CASE i # j \/ UNCHANGED <<row, tpc, att>>
    <3>1. row'[j] = row[j] /\ SameTasks(j)
      BY <1>2, <1>3, <2>3, <2>5 DEF SameTasks, SameTask
    <3> QED
      BY <1>1, <2>1, <2>2, <3>1 DEF Idle, SameClaim
  <2> QED
    BY <2>4, <2>5
<1>9. CASE EndGrace(r) \/ Crash(r)
  <2>1. /\ UNCHANGED row /\ hooks' = hooks
        /\ \E step : step # "hook" /\ lpc' = [lpc EXCEPT ![r] = step]
        /\ \A q \in Runner \ {r} : todo'[q] = todo[q]
    BY <1>3, <1>9 DEF EndGrace, Crash, LoopTo, ghosts
  <2>2. NoNewPending(j)
    BY <1>4, <2>1
  <2>3. TaskGone(r, j)
    BY <1>3, <1>9 DEF EndGrace, Crash, NoTasks, TaskGone, OtherTasks, SameTask
  <2> QED
    BY <1>1, <2>1, <2>2, <2>3 DEF ByLoop
<1>10. CASE ~ (LoopRequeue(r) \/ LoopGiveUp(r) \/ LoopHook(r) \/ ClaimNext(r) \/ EndGrace(r) \/ Crash(r))
  <2>1. UNCHANGED row /\ UNCHANGED tasks /\ UNCHANGED hooks
    BY <1>10 DEF LoopMove, ReapSelect, Settled, CountLane, SelectLane, LaneFilled, CollectOwn, Shutdown,
           LoopFails, Restart, ghosts
  <2>2. /\ UNCHANGED lpc \/ \E step : step # "hook" /\ lpc' = [lpc EXCEPT ![r] = step]
        /\ \A q \in Runner \ {r} : todo'[q] = todo[q]
        /\ UNCHANGED lpc => UNCHANGED todo
    BY <1>3, <1>10 DEF LoopMove, ReapSelect, Settled, CountLane, SelectLane, LaneFilled, CollectOwn, Shutdown,
           LoopFails, Restart, LeaveLane, LoopTo
  <2>3. NoNewPending(j)
    BY <1>4, <2>2
  <2> QED
    BY <1>1, <2>1, <2>3 DEF Idle, SameClaim, SameTasks, SameTask, tasks
<1> QED
  BY <1>5, <1>6, <1>7, <1>8, <1>9, <1>10

\* A task of another job leaves this one alone.
LEMMA OtherJob ==
    ASSUME TypeOK, NEW r \in Runner, NEW i \in Job,
           TaskMove(r, i) \/ HandlerMove(r, i) \/ WriteFails(r, i), NEW j \in Job, i # j
    PROVE  Idle(j)
<1>1. UNCHANGED <<loop, req>>
  BY DEF TaskMove, HandlerTimeout, Finalize, RequeueForRetry, TimeoutRead, TaskRequeue, TaskGiveUp, TaskHook,
         HandlerMove, Heartbeat, Progress, Checkpoint, Act, HandlerEnds, WriteFails
<1>2. \E x : row' = row \/ row' = [row EXCEPT ![i] = x]
  BY DEF TaskMove, HandlerTimeout, Finalize, RequeueForRetry, TimeoutRead, TaskRequeue, TaskGiveUp, TaskHook,
         HandlerMove, Heartbeat, Progress, Checkpoint, Act, HandlerEnds, WriteFails, EndTask, TaskTo
<1>3. \E x : UNCHANGED tpc \/ tpc' = [tpc EXCEPT ![r][i] = x]
  BY DEF TaskMove, HandlerTimeout, Finalize, RequeueForRetry, TimeoutRead, TaskRequeue, TaskGiveUp, TaskHook,
         HandlerMove, Heartbeat, Progress, Checkpoint, Act, HandlerEnds, WriteFails, EndTask, TaskTo, tasks
<1>4. UNCHANGED att \/ att' = [att EXCEPT ![r][i] = 0]
  BY DEF TaskMove, HandlerTimeout, Finalize, RequeueForRetry, TimeoutRead, TaskRequeue, TaskGiveUp, TaskHook,
         HandlerMove, Heartbeat, Progress, Checkpoint, Act, HandlerEnds, WriteFails, EndTask, TaskTo, tasks
<1>5. UNCHANGED fired \/ fired' = [fired EXCEPT ![i] = fired[i] + 1]
  BY DEF TaskMove, HandlerTimeout, Finalize, RequeueForRetry, TimeoutRead, TaskRequeue, TaskGiveUp, TaskHook,
         HandlerMove, Heartbeat, Progress, Checkpoint, Act, HandlerEnds, WriteFails, ghosts
<1>6. UNCHANGED hooks \/ hooks' = [hooks EXCEPT ![i] = hooks[i] + 1]
  BY DEF TaskMove, HandlerTimeout, Finalize, RequeueForRetry, TimeoutRead, TaskRequeue, TaskGiveUp, TaskHook,
         HandlerMove, Heartbeat, Progress, Checkpoint, Act, HandlerEnds, WriteFails, ghosts
<1>7. row'[j] = row[j] /\ fired'[j] = fired[j] /\ hooks'[j] = hooks[j]
  BY <1>2, <1>5, <1>6 DEF TypeOK
<1>8. SameTasks(j)
  <2>1. tpc \in [Runner -> [Job -> TaskStep]] /\ att \in [Runner -> [Job -> Nat]]
    BY DEF TypeOK
  <2>2. \A q \in Runner : tpc'[q][j] = tpc[q][j]
    BY <1>3, <2>1
  <2>3. \A q \in Runner : att'[q][j] = att[q][j]
    BY <1>4, <2>1
  <2> QED
    BY <2>2, <2>3 DEF SameTasks, SameTask
<1>9. NoNewPending(j)
  BY <1>1 DEF NoNewPending, Pending, NextSnapshot, loop
<1> QED
  BY <1>1, <1>7, <1>8, <1>9 DEF Idle, SameClaim

\* A task, seen from its job.
LEMMA TaskMoves ==
    ASSUME TypeOK, NEW r \in Runner, NEW j \in Job,
           TaskMove(r, j) \/ HandlerMove(r, j) \/ WriteFails(r, j)
    PROVE  Idle(j) \/ ByTask(r, j)
<1>1. row[j] \in RowType /\ row \in [Job -> RowType] /\ row[j].checkpoint \in BOOLEAN
  BY DEF TypeOK, RowType
<1>2. /\ tpc \in [Runner -> [Job -> TaskStep]] /\ att \in [Runner -> [Job -> Nat]]
      /\ fired \in [Job -> Nat] /\ hooks \in [Job -> Nat]
      /\ att[r][j] \in Nat /\ MaxAttempts[j] \in Nat
  BY JobAssumption DEF TypeOK
<1>3. req'[j] = req[j] /\ NoNewPending(j)
  <2>1. UNCHANGED <<loop, req>>
    BY DEF TaskMove, HandlerTimeout, Finalize, RequeueForRetry, TimeoutRead, TaskRequeue, TaskGiveUp, TaskHook,
         HandlerMove, Heartbeat, Progress, Checkpoint, Act, HandlerEnds, WriteFails
  <2> QED
    BY <2>1 DEF NoNewPending, Pending, NextSnapshot, loop
<1>4. EndTask(r, j) => TaskGone(r, j)
  BY <1>2 DEF EndTask, TaskGone, OtherTasks, SameTask
<1>5. ASSUME NEW step, TaskTo(r, j, step), UNCHANGED att PROVE TaskGoes(r, j, step)
  BY <1>2, <1>5 DEF TaskTo, TaskGoes, OtherTasks, SameTask
<1>6. CASE Heartbeat(r, j)
  <2>1. row'[j] = Beat(row[j]) /\ UNCHANGED <<tasks, ghosts>>
    BY <1>1, <1>6 DEF Heartbeat
  <2> QED
    BY <1>1, <1>3, <2>1, OtherRows DEF Idle, SameClaim, SameTasks, SameTask, tasks, ghosts
<1>7. CASE Progress(r, j)
  <2>1. row'[j] = Beat(row[j]) /\ UNCHANGED <<att, ghosts>> /\ tpc[r][j] \in Handling
    BY <1>1, <1>7 DEF Progress
  <2>2. SameClaim(j)
    BY <1>1, <2>1, OtherRows DEF SameClaim
  <2>3. CASE row[j].cancel
    <3>1. TaskGoes(r, j, "cancelled")
      BY <1>5, <1>7, <2>1, <2>3 DEF Progress
    <3> QED
      BY <1>3, <2>1, <2>2, <2>3, <3>1 DEF ByTask, ghosts
  <2>4. CASE ~ row[j].cancel
    <3>1. TaskTo(r, j, tpc[r][j])
      BY <1>7, <2>4 DEF Progress
    <3>2. SameTasks(j)
      BY <1>2, <2>1, <3>1 DEF TaskTo, SameTasks, SameTask
    <3> QED
      BY <1>3, <2>1, <2>2, <3>2 DEF Idle, ghosts
  <2> QED
    BY <2>3, <2>4
<1>8. CASE Checkpoint(r, j)
  <2>1. UNCHANGED <<att, ghosts>> /\ tpc[r][j] = "run"
    BY <1>8 DEF Checkpoint
  <2>2. CASE OwnClaim(r, j)
    <3>1. row'[j] = Marked(row[j]) /\ TaskGoes(r, j, "past")
      BY <1>1, <1>5, <1>8, <2>1, <2>2 DEF Checkpoint
    <3>2. /\ row'[j].status = "running" /\ row'[j].worker = row[j].worker
          /\ SameCount(j) /\ row'[j].checkpoint = TRUE
      <4>1. Marked(row[j]).checkpoint \in BOOLEAN
        BY <1>1, OtherRows DEF RowType
      <4> QED
        BY <1>1, <2>2, <3>1, <4>1, OtherRows DEF SameCount, OwnClaim
    <3> QED
      BY <1>3, <2>1, <2>2, <3>1, <3>2 DEF ByTask, ghosts
  <2>3. CASE ~ OwnClaim(r, j)
    <3>1. row' = row /\ TaskGoes(r, j, "cancelled")
      BY <1>5, <1>8, <2>1, <2>3 DEF Checkpoint
    <3> QED
      BY <1>3, <2>1, <2>3, <3>1 DEF ByTask, ghosts, SameClaim, Handling
  <2> QED
    BY <2>2, <2>3
<1>9. CASE Act(r, j)
  <2>1. TaskGoes(r, j, "acted") /\ row' = row /\ tpc[r][j] = "past"
    BY <1>5, <1>9 DEF Act
  <2>2. fired'[j] = fired[j] + 1 /\ hooks'[j] = hooks[j]
    BY <1>2, <1>9 DEF Act
  <2> QED
    BY <1>3, <2>1, <2>2 DEF ByTask, SameClaim
<1>10. CASE HandlerEnds(r, j)
  <2>1. PICK step \in Outcomes(tpc[r][j], att[r][j] >= MaxAttempts[j]) : TaskGoes(r, j, step)
    BY <1>5, <1>10 DEF HandlerEnds
  <2>2. row' = row /\ UNCHANGED ghosts /\ tpc[r][j] \in Handling
    BY <1>10 DEF HandlerEnds
  <2>3. step \in {"succeeded", "failed"}
        \/ (step = "retry" /\ tpc[r][j] # "acted" /\ ~ (att[r][j] >= MaxAttempts[j]))
    BY <2>1 DEF Outcomes
  <2>4. CASE step \in {"succeeded", "failed"}
    BY <1>3, <2>1, <2>2, <2>4 DEF ByTask, SameClaim, ghosts
  <2>5. CASE step = "retry" /\ tpc[r][j] # "acted" /\ ~ (att[r][j] >= MaxAttempts[j])
    <3>1. att[r][j] < MaxAttempts[j] /\ tpc[r][j] \in {"run", "past"}
      BY <1>2, <2>2, <2>5 DEF Handling
    <3> QED
      BY <1>3, <2>1, <2>2, <2>5, <3>1 DEF ByTask, SameClaim, ghosts
  <2> QED
    BY <2>3, <2>4, <2>5
<1>11. CASE HandlerTimeout(r, j) \/ TimeoutRead(r, j)
  <2>1. row' = row /\ UNCHANGED <<att, ghosts>>
    BY <1>11 DEF HandlerTimeout, TimeoutRead
  <2>2. \E step \in {"timeout", "settle"} : TaskGoes(r, j, step)
    BY <1>5, <1>11, <2>1 DEF HandlerTimeout, TimeoutRead
  <2>3. tpc[r][j] \in Handling \cup {"timeout", "settle"}
    BY <1>11 DEF HandlerTimeout, TimeoutRead
  <2> QED
    BY <1>3, <2>1, <2>2, <2>3 DEF ByTask, SameClaim, ghosts
<1>12. CASE Finalize(r, j)
  <2>1. TaskGone(r, j) /\ UNCHANGED ghosts /\ tpc[r][j] \in Terminal
    BY <1>4, <1>12 DEF Finalize
  <2>2. CASE OwnClaim(r, j)
    <3>1. row'[j] = Ended(row[j], tpc[r][j])
      BY <1>1, <1>12, <2>2 DEF Finalize
    <3> QED
      BY <1>1, <1>3, <2>1, <2>2, <3>1, OtherRows DEF ByTask, SameCount, ghosts
  <2>3. CASE ~ OwnClaim(r, j)
    <3>1. row' = row /\ tpc[r][j] # "hook"
      BY <1>12, <2>1, <2>3 DEF Finalize, Terminal
    <3> QED
      BY <1>3, <2>1, <3>1 DEF ByTask, ghosts
  <2> QED
    BY <2>2, <2>3
<1>13. CASE RequeueForRetry(r, j)
  <2>1. TaskGone(r, j) /\ UNCHANGED ghosts /\ tpc[r][j] = "retry"
    BY <1>4, <1>13 DEF RequeueForRetry
  <2>2. CASE OwnClaim(r, j)
    <3>1. PICK b \in BOOLEAN : row' = [row EXCEPT ![j] = Retried(row[j], b)]
      BY <1>13, <2>2 DEF RequeueForRetry
    <3>2. row'[j] = Retried(row[j], b)
      BY <1>1, <3>1
    <3>3. BackInQueue(j)
      <4>1. row[j] \in RowType
        BY <1>1
      <4>2. /\ row'[j].status = (IF row[j].cancel THEN "cancelled" ELSE "queued")
            /\ row'[j].attempts = row[j].attempts /\ row'[j].cancel = row[j].cancel
        BY <3>1, <3>2, <4>1, RetriedRow
      <4> QED
        BY <4>2 DEF BackInQueue, SameCount
    <3> QED
      BY <1>3, <2>1, <2>2, <3>3 DEF ByTask, ghosts
  <2>3. CASE ~ OwnClaim(r, j)
    <3>1. row' = row
      BY <1>13, <2>3 DEF RequeueForRetry
    <3> QED
      BY <1>3, <2>1, <3>1 DEF ByTask, ghosts
  <2> QED
    BY <2>2, <2>3
<1>14. CASE TaskRequeue(r, j)
  <2>1. UNCHANGED ghosts /\ tpc[r][j] = "settle"
    BY <1>14 DEF TaskRequeue
  <2>2. CASE Requeueable(TaskSnapshot(r, j)) /\ OwnClaim(r, j) /\ ~ row[j].checkpoint
    <3>1. row'[j] = Requeued(row[j], FALSE) /\ TaskGone(r, j)
      BY <1>1, <1>4, <1>14, <2>2 DEF TaskRequeue
    <3>2. BackInQueue(j)
      <4>1. row[j] \in RowType
        BY <1>1
      <4>2. row'[j] = Requeued(row[j], FALSE)
        BY <3>1
      <4>3. /\ row'[j].status = (IF row[j].cancel THEN "cancelled" ELSE "queued")
            /\ row'[j].attempts = row[j].attempts /\ row'[j].cancel = row[j].cancel
        BY <4>1, <4>2, HandedBackRow
      <4> QED
        BY <4>3 DEF BackInQueue, SameCount
    <3>3. row[j].attempts < MaxAttempts[j]
      BY <2>2 DEF Requeueable, TaskSnapshot, OwnClaim
    <3> QED
      BY <1>1, <1>3, <2>1, <2>2, <3>1, <3>2, <3>3 DEF ByTask, ghosts
  <2>3. CASE ~ (Requeueable(TaskSnapshot(r, j)) /\ OwnClaim(r, j) /\ ~ row[j].checkpoint)
    <3>1. row' = row /\ TaskGoes(r, j, "giveup")
      BY <1>5, <1>14, <2>3 DEF TaskRequeue
    <3> QED
      BY <1>3, <2>1, <3>1 DEF ByTask, SameClaim, ghosts
  <2> QED
    BY <2>2, <2>3
<1>15. CASE TaskGiveUp(r, j)
  <2>1. UNCHANGED ghosts /\ tpc[r][j] = "giveup"
    BY <1>15 DEF TaskGiveUp
  <2>2. CASE OwnClaim(r, j)
    <3>1. row'[j] = Ended(row[j], "failed") /\ TaskGoes(r, j, "hook")
      BY <1>1, <1>5, <1>15, <2>2 DEF TaskGiveUp
    <3>2. row'[j].status = "failed" /\ SameCount(j)
      BY <1>1, <3>1, OtherRows DEF SameCount, Terminal
    <3> QED
      BY <1>3, <2>1, <2>2, <3>1, <3>2 DEF ByTask, ghosts
  <2>3. CASE ~ OwnClaim(r, j)
    <3>1. row' = row /\ TaskGone(r, j)
      BY <1>4, <1>15, <2>3 DEF TaskGiveUp
    <3> QED
      BY <1>3, <2>1, <3>1 DEF ByTask, ghosts
  <2> QED
    BY <2>2, <2>3
<1>16. CASE TaskHook(r, j)
  <2>1. row' = row /\ fired' = fired /\ TaskGone(r, j) /\ tpc[r][j] = "hook"
    BY <1>4, <1>16 DEF TaskHook
  <2>2. hooks'[j] = hooks[j] + 1
    BY <1>2, <1>16 DEF TaskHook
  <2> QED
    BY <1>3, <2>1, <2>2 DEF ByTask
<1>17. CASE WriteFails(r, j)
  <2>1. row' = row /\ UNCHANGED ghosts /\ TaskGone(r, j) /\ tpc[r][j] # "hook"
    BY <1>4, <1>17 DEF WriteFails, Terminal
  <2> QED
    BY <1>3, <2>1 DEF ByTask, ghosts
<1> QED
  BY <1>6, <1>7, <1>8, <1>9, <1>10, <1>11, <1>12, <1>13, <1>14, <1>15, <1>16, <1>17
     DEF TaskMove, HandlerMove

\* Every step of the system is a move of every job.
LEMMA EveryStep ==
    ASSUME TypeOK, [Next]_vars, NEW j \in Job
    PROVE  JobMove(j)
<1>1. CASE \E i \in Job : Person(i) \/ GoStale(i) \/ ComesDue(i)
  BY <1>1, PeopleMove
<1>2. CASE \E r \in Runner : LoopMove(r) \/ Shutdown(r) \/ LoopFails(r) \/ Crash(r) \/ Restart(r)
  BY <1>2, LoopMoves DEF JobMove
<1>3. CASE \E r \in Runner, i \in Job : TaskMove(r, i) \/ HandlerMove(r, i) \/ WriteFails(r, i)
  BY <1>3, TaskMoves, OtherJob DEF JobMove
<1>4. CASE UNCHANGED vars
  <2>1. Idle(j)
    BY <1>4 DEF Idle, SameClaim, SameTasks, SameTask, NoNewPending, Pending, NextSnapshot,
                vars, tasks, loop, ghosts
  <2> QED
    BY <2>1 DEF JobMove
<1> QED
  BY <1>1, <1>2, <1>3, <1>4 DEF Next

-----------------------------------------------------------------------------
(* The inductive invariants. *)

\* A task never belongs to a claim the row has not seen, and no two tasks to one claim.
ClaimInv ==
    \A r \in Runner, j \in Job :
        /\ att[r][j] <= row[j].attempts
        /\ tpc[r][j] = "none" => att[r][j] = 0
        /\ tpc[r][j] # "none" => att[r][j] >= 1
        /\ \A q \in Runner \ {r} : att[r][j] = att[q][j] => att[r][j] = 0

\* A job that may be claimed (again) has an attempt left.
AttemptInv ==
    \A j \in Job :
        /\ row[j].attempts <= MaxAttempts[j]
        /\ row[j].status \in {"absent", "queued"} => row[j].attempts < MaxAttempts[j]
        /\ \A r \in Runner : tpc[r][j] = "retry" => att[r][j] < MaxAttempts[j]

\* A task past the checkpoint owns a marked row (or one given up meanwhile), there is one such
\* task, and once the step was done no task that still owns the row can do or repeat it.
PastOwns(r, j) ==
    tpc[r][j] \in {"past", "acted"} =>
        row[j].status = "failed" \/ (OwnClaim(r, j) /\ row[j].checkpoint)
ActInv ==
    \A j \in Job :
        /\ \A r \in Runner : PastOwns(r, j)
        /\ \A r, q \in Runner : tpc[r][j] \in {"past", "acted"} /\ tpc[q][j] \in {"past", "acted"} => r = q
        /\ fired[j] <= 1
        /\ fired[j] >= 1 =>
              /\ row[j].status \in Terminal \/ (row[j].status = "running" /\ row[j].checkpoint)
              /\ \A r \in Runner : /\ tpc[r][j] # "past"
                                   /\ OwnClaim(r, j) => tpc[r][j] \notin {"run", "retry"}

\* A cancel reaches the row, and a handler the row belongs to, only when it was accepted.
CancelInv ==
    \A j \in Job :
        /\ row[j].cancel => req[j] = "accepted" /\ row[j].status \notin {"absent", "queued"}
        /\ row[j].status = "cancelled" => req[j] = "accepted"
        /\ \A r \in Runner : tpc[r][j] = "cancelled" /\ OwnClaim(r, j) => row[j].cancel

\* Whoever failed a row and has yet to record it is alone with that.
RecordInv ==
    \A j \in Job :
        /\ hooks[j] <= 1
        /\ hooks[j] = 1 => row[j].status = "failed"
        /\ \A r \in Runner :
              /\ Pending(r, j) \/ tpc[r][j] = "hook" => row[j].status = "failed" /\ hooks[j] = 0
              /\ ~ (Pending(r, j) /\ tpc[r][j] = "hook")
              /\ \A q \in Runner \ {r} :
                    /\ Pending(r, j) => ~ Pending(q, j) /\ tpc[q][j] # "hook"
                    /\ tpc[r][j] = "hook" => tpc[q][j] # "hook"

IInv == TypeOK /\ ClaimInv /\ AttemptInv /\ ActInv /\ CancelInv /\ RecordInv

\* What the types say of a job and its tasks.
LEMMA JobTypes ==
    ASSUME TypeOK, NEW j \in Job
    PROVE  /\ row[j].attempts \in Nat /\ fired[j] \in Nat /\ hooks[j] \in Nat
           /\ MaxAttempts[j] \in Nat \ {0}
           /\ row[j].checkpoint \in BOOLEAN /\ row[j].cancel \in BOOLEAN
           /\ \A r \in Runner : att[r][j] \in Nat
BY JobAssumption DEF TypeOK, RowType

\* A worker starts without jobs.
LEMMA InitInv == Init => IInv
<1> SUFFICES ASSUME Init PROVE IInv
  OBVIOUS
<1>1. TypeOK
  BY TypeInit
<1>2. \A j \in Job : row[j] = AbsentRow /\ req[j] = "none" /\ fired[j] = 0 /\ hooks[j] = 0
  BY DEF Init
<1>3. \A r \in Runner, j \in Job : tpc[r][j] = "none" /\ att[r][j] = 0
  BY DEF Init
<1>4. \A r \in Runner, j \in Job : ~ Pending(r, j)
  BY DEF Init, Pending
<1>5. \A j \in Job : MaxAttempts[j] \in Nat /\ 0 < MaxAttempts[j]
  BY JobAssumption
<1>6. ClaimInv
  BY <1>2, <1>3 DEF ClaimInv, AbsentRow
<1>7. AttemptInv
  BY <1>2, <1>3, <1>5 DEF AttemptInv, AbsentRow
<1>8. ActInv
  BY <1>2, <1>3 DEF ActInv, PastOwns
<1>9. CancelInv
  BY <1>2, <1>3 DEF CancelInv, AbsentRow
<1>10. RecordInv
  BY <1>2, <1>3, <1>4 DEF RecordInv
<1> QED
  BY <1>1, <1>6, <1>7, <1>8, <1>9, <1>10 DEF IInv

\* _claim counts attempts up: the new claim is newer than every task.
LEMMA ClaimStep ==
    ASSUME TypeOK, ClaimInv, NEW j \in Job, JobMove(j)
    PROVE  \A r \in Runner :
             /\ att'[r][j] <= row'[j].attempts
             /\ tpc'[r][j] = "none" => att'[r][j] = 0
             /\ tpc'[r][j] # "none" => att'[r][j] >= 1
             /\ \A q \in Runner \ {r} : att'[r][j] = att'[q][j] => att'[r][j] = 0
<1>1. /\ row[j].attempts \in Nat
      /\ \A r \in Runner : att[r][j] \in Nat
  BY JobTypes
<1>2. \A r \in Runner :
        /\ att[r][j] <= row[j].attempts
        /\ tpc[r][j] = "none" => att[r][j] = 0
        /\ tpc[r][j] # "none" => att[r][j] >= 1
        /\ \A q \in Runner \ {r} : att[r][j] = att[q][j] => att[r][j] = 0
  BY DEF ClaimInv
<1>3. CASE ByPeople(j) \/ Idle(j)
  BY <1>1, <1>2, <1>3 DEF ByPeople, Idle, SameTasks, SameTask, SameClaim, SameCount
<1>4. ASSUME NEW q \in Runner, ByLoop(q, j) \/ ByTask(q, j), NEW r \in Runner
      PROVE  /\ att'[r][j] <= row'[j].attempts
             /\ tpc'[r][j] = "none" => att'[r][j] = 0
             /\ tpc'[r][j] # "none" => att'[r][j] >= 1
             /\ \A p \in Runner \ {r} : att'[r][j] = att'[p][j] => att'[r][j] = 0
  <2>1. \/ row'[j].attempts = row[j].attempts /\ SameTasks(j)
        \/ row'[j].attempts = row[j].attempts /\ TaskGone(q, j)
        \/ /\ row'[j].attempts = row[j].attempts /\ tpc[q][j] # "none"
           /\ \E step : step # "none" /\ TaskGoes(q, j, step)
        \/ /\ row'[j].attempts = row[j].attempts + 1 /\ OtherTasks(q, j)
           /\ tpc'[q][j] = "run" /\ att'[q][j] = row[j].attempts + 1
    BY <1>4 DEF ByLoop, ByTask, SameClaim, SameCount, BackInQueue, Handling
  <2> QED
    BY <1>1, <1>2, <2>1 DEF SameTasks, TaskGone, TaskGoes, OtherTasks, SameTask
<1> QED
  BY <1>3, <1>4 DEF JobMove

\* A requeue asks for an attempt left, a retry too.
LEMMA AttemptStep ==
    ASSUME TypeOK, AttemptInv, NEW j \in Job, JobMove(j)
    PROVE  /\ row'[j].attempts <= MaxAttempts[j]
           /\ row'[j].status \in {"absent", "queued"} => row'[j].attempts < MaxAttempts[j]
           /\ \A r \in Runner : tpc'[r][j] = "retry" => att'[r][j] < MaxAttempts[j]
<1>1. row[j].attempts \in Nat /\ MaxAttempts[j] \in Nat /\ row[j].cancel \in BOOLEAN
  BY JobTypes
<1>2. /\ row[j].attempts <= MaxAttempts[j]
      /\ row[j].status \in {"absent", "queued"} => row[j].attempts < MaxAttempts[j]
      /\ \A r \in Runner : tpc[r][j] = "retry" => att[r][j] < MaxAttempts[j]
  BY DEF AttemptInv
<1>3. CASE ByPeople(j) \/ Idle(j)
  BY <1>1, <1>2, <1>3 DEF ByPeople, Idle, SameTasks, SameTask, SameClaim, SameCount
<1>4. ASSUME NEW q \in Runner, ByLoop(q, j)
      PROVE  /\ row'[j].attempts <= MaxAttempts[j]
             /\ row'[j].status \in {"absent", "queued"} => row'[j].attempts < MaxAttempts[j]
             /\ \A r \in Runner : tpc'[r][j] = "retry" => att'[r][j] < MaxAttempts[j]
  BY <1>1, <1>2, <1>4 DEF ByLoop, SameTasks, SameTask, SameClaim, SameCount, BackInQueue, TaskGone, OtherTasks
<1>5. ASSUME NEW q \in Runner, ByTask(q, j)
      PROVE  /\ row'[j].attempts <= MaxAttempts[j]
             /\ row'[j].status \in {"absent", "queued"} => row'[j].attempts < MaxAttempts[j]
             /\ \A r \in Runner : tpc'[r][j] = "retry" => att'[r][j] < MaxAttempts[j]
  <2>1. row'[j].attempts = row[j].attempts
    BY <1>5 DEF ByTask, SameClaim, SameCount, BackInQueue
  <2>2. row'[j].status \in {"absent", "queued"} => row[j].attempts < MaxAttempts[j]
    BY <1>2, <1>5 DEF ByTask, SameClaim, BackInQueue, OwnClaim, Terminal
  <2>3. ASSUME NEW r \in Runner, tpc'[r][j] = "retry" PROVE att'[r][j] < MaxAttempts[j]
    BY <1>2, <1>5, <2>3 DEF ByTask, TaskGone, TaskGoes, OtherTasks, SameTask
  <2> QED
    BY <1>2, <2>1, <2>2, <2>3
<1> QED
  BY <1>3, <1>4, <1>5 DEF JobMove

\* A task that is past the checkpoint keeps the row, or the row ended.
LEMMA PastStep ==
    ASSUME TypeOK, ActInv, NEW j \in Job, JobMove(j), NEW r \in Runner
    PROVE  PastOwns(r, j)'
<1>1. tpc[r][j] \in {"past", "acted"} =>
        row[j].status = "failed" \/ (OwnClaim(r, j) /\ row[j].checkpoint)
  BY DEF ActInv, PastOwns
<1>2. row[j].checkpoint \in BOOLEAN /\ row[j].cancel \in BOOLEAN
  BY JobTypes
<1> SUFFICES ASSUME tpc'[r][j] \in {"past", "acted"}
             PROVE  row'[j].status = "failed"
                    \/ (row'[j].status = "running" /\ row'[j].worker = r
                         /\ row'[j].attempts = att'[r][j] /\ row'[j].checkpoint)
  BY DEF PastOwns, OwnClaim
<1>3. CASE ByPeople(j) \/ Idle(j)
  BY <1>1, <1>2, <1>3 DEF ByPeople, Idle, SameTasks, SameTask, SameClaim, OwnClaim, Terminal
<1>4. ASSUME NEW q \in Runner, ByLoop(q, j)
      PROVE  row'[j].status = "failed"
             \/ (row'[j].status = "running" /\ row'[j].worker = r
                  /\ row'[j].attempts = att'[r][j] /\ row'[j].checkpoint)
  BY <1>1, <1>2, <1>4 DEF ByLoop, SameTasks, SameTask, SameClaim, TaskGone, OtherTasks, OwnClaim, Terminal
<1>5. ASSUME NEW q \in Runner, ByTask(q, j)
      PROVE  row'[j].status = "failed"
             \/ (row'[j].status = "running" /\ row'[j].worker = r
                  /\ row'[j].attempts = att'[r][j] /\ row'[j].checkpoint)
  <2>1. CASE q = r
    BY <1>1, <1>2, <1>5, <2>1 DEF ByTask, SameClaim, SameCount, TaskGone, TaskGoes, OwnClaim, Terminal
  <2>2. CASE q # r
    <3>1. SameTask(r, j)
      BY <1>5, <2>2 DEF ByTask, TaskGone, TaskGoes, OtherTasks
    <3>2. tpc[r][j] \in {"past", "acted"} /\ att'[r][j] = att[r][j]
      BY <3>1 DEF SameTask
    <3>3. CASE row[j].status = "failed"
      BY <1>5, <3>3 DEF ByTask, SameClaim, OwnClaim, Terminal
    <3>4. CASE OwnClaim(r, j) /\ row[j].checkpoint
      <4>1. ~ OwnClaim(q, j)
        BY <2>2, <3>4 DEF OwnClaim
      <4>2. SameClaim(j)
        BY <1>5, <4>1 DEF ByTask, SameClaim
      <4> QED
        BY <3>2, <3>4, <4>2 DEF SameClaim, OwnClaim
    <3> QED
      BY <1>1, <3>2, <3>3, <3>4
  <2> QED
    BY <2>1, <2>2
<1> QED
  BY <1>3, <1>4, <1>5 DEF JobMove

\* No second task passes the checkpoint while one is past it.
LEMMA AloneStep ==
    ASSUME TypeOK, ActInv, NEW j \in Job, JobMove(j), NEW r \in Runner, NEW q \in Runner,
           tpc'[r][j] \in {"past", "acted"}, tpc'[q][j] \in {"past", "acted"}
    PROVE  r = q
<1>1. \A p \in Runner : tpc[p][j] \in {"past", "acted"} =>
        row[j].status \in Terminal \/ OwnClaim(p, j)
  BY DEF ActInv, PastOwns, Terminal
<1>2. \A p, o \in Runner : tpc[p][j] \in {"past", "acted"} /\ tpc[o][j] \in {"past", "acted"} => p = o
  BY DEF ActInv
<1>3. CASE ByPeople(j) \/ Idle(j)
  BY <1>2, <1>3 DEF ByPeople, Idle, SameTasks, SameTask
<1>4. ASSUME NEW p \in Runner, ByLoop(p, j) PROVE r = q
  <2>1. \A o \in Runner : tpc'[o][j] \in {"past", "acted"} => tpc[o][j] \in {"past", "acted"}
    BY <1>4 DEF ByLoop, SameTasks, SameTask, TaskGone, OtherTasks
  <2> QED
    BY <1>2, <2>1
<1>5. ASSUME NEW p \in Runner, ByTask(p, j) PROVE r = q
  <2>1. \A o \in Runner \ {p} : tpc'[o][j] = tpc[o][j]
    BY <1>5 DEF ByTask, TaskGone, TaskGoes, OtherTasks, SameTask
  <2>2. \/ tpc'[p][j] \in {"past", "acted"} => tpc[p][j] \in {"past", "acted"}
        \/ tpc[p][j] = "run" /\ OwnClaim(p, j)
    BY <1>5 DEF ByTask, TaskGone, TaskGoes
  <2>3. CASE tpc'[p][j] \in {"past", "acted"} => tpc[p][j] \in {"past", "acted"}
    BY <1>2, <2>1, <2>3
  <2>4. CASE OwnClaim(p, j)
    <3>1. \A o \in Runner \ {p} : tpc[o][j] \notin {"past", "acted"}
      BY <1>1, <2>4 DEF OwnClaim, Terminal
    <3> QED
      BY <2>1, <3>1
  <2> QED
    BY <2>2, <2>3, <2>4
<1> QED
  BY <1>3, <1>4, <1>5 DEF JobMove

\* Once the step was done, the row is marked or ended, and nobody can do it again.
FiredOnce(j) ==
    /\ fired[j] <= 1
    /\ fired[j] >= 1 =>
          /\ row[j].status \in Terminal \/ (row[j].status = "running" /\ row[j].checkpoint)
          /\ \A r \in Runner : /\ tpc[r][j] # "past"
                               /\ OwnClaim(r, j) => tpc[r][j] \notin {"run", "retry"}
LEMMA FiredStep ==
    ASSUME TypeOK, ActInv, NEW j \in Job, JobMove(j)
    PROVE  FiredOnce(j)'
<1>1. /\ fired[j] \in Nat /\ row[j].checkpoint \in BOOLEAN /\ row[j].cancel \in BOOLEAN
  BY JobTypes
<1>2. FiredOnce(j)
  BY DEF ActInv, FiredOnce
<1>3. \A p \in Runner : tpc[p][j] \in {"past", "acted"} =>
        row[j].status \in Terminal \/ (OwnClaim(p, j) /\ row[j].checkpoint)
  BY DEF ActInv, PastOwns, Terminal
<1>4. \A p, o \in Runner : tpc[p][j] \in {"past", "acted"} /\ tpc[o][j] \in {"past", "acted"} => p = o
  BY DEF ActInv
<1>5. CASE ByPeople(j) \/ Idle(j)
  <2>1. fired'[j] = fired[j] /\ \A r \in Runner : tpc'[r][j] = tpc[r][j] /\ att'[r][j] = att[r][j]
    BY <1>5 DEF ByPeople, Idle, SameTasks, SameTask
  <2>2. row[j].status \in Terminal \/ (row[j].status = "running" /\ row[j].checkpoint) =>
          /\ row'[j].status \in Terminal \/ (row'[j].status = "running" /\ row'[j].checkpoint)
          /\ \/ row'[j].status \in Terminal
             \/ row'[j].status = row[j].status /\ row'[j].worker = row[j].worker /\ row'[j].attempts = row[j].attempts
    BY <1>1, <1>5 DEF ByPeople, Idle, SameClaim, Terminal
  <2> QED
    BY <1>2, <2>1, <2>2 DEF FiredOnce, OwnClaim, Terminal
<1>6. ASSUME NEW q \in Runner, ByLoop(q, j) PROVE FiredOnce(j)'
  <2>1. fired'[j] = fired[j]
    BY <1>6 DEF ByLoop
  <2>2. CASE fired[j] >= 1
    <3>1. row[j].status \in Terminal \/ (row[j].status = "running" /\ row[j].checkpoint)
      BY <1>2, <2>2 DEF FiredOnce
    <3>2. \/ row'[j].status = "failed" /\ SameTasks(j)
          \/ SameClaim(j) /\ (SameTasks(j) \/ TaskGone(q, j))
      BY <1>1, <1>6, <3>1 DEF ByLoop, SameClaim, Terminal
    <3> QED
      BY <1>1, <1>2, <2>1, <2>2, <3>1, <3>2
         DEF FiredOnce, SameTasks, SameTask, SameClaim, TaskGone, OtherTasks, OwnClaim, Terminal
  <2>3. CASE ~ (fired[j] >= 1)
    BY <1>1, <2>1, <2>3 DEF FiredOnce
  <2> QED
    BY <2>2, <2>3
<1>7. ASSUME NEW q \in Runner, ByTask(q, j) PROVE FiredOnce(j)'
  <2>1. CASE fired[j] >= 1
    <3>1. /\ fired[j] <= 1
          /\ row[j].status \in Terminal \/ (row[j].status = "running" /\ row[j].checkpoint)
          /\ \A r \in Runner : /\ tpc[r][j] # "past"
                               /\ OwnClaim(r, j) => tpc[r][j] \notin {"run", "retry"}
      BY <1>2, <2>1 DEF FiredOnce
    <3>2. /\ fired'[j] = fired[j]
          /\ \/ row'[j].status \in Terminal \/ SameClaim(j)
          /\ tpc'[q][j] \notin {"run", "past"}
          /\ tpc'[q][j] = "retry" => SameClaim(j) /\ att'[q][j] = att[q][j] /\ tpc[q][j] = "run"
          /\ OtherTasks(q, j)
      <4>1. ~ (tpc[q][j] = "run" /\ OwnClaim(q, j)) /\ tpc[q][j] # "past"
        BY <3>1
      <4>2. ~ (tpc[q][j] = "retry" /\ OwnClaim(q, j))
        BY <3>1
      <4>3. OwnClaim(q, j) => row[j].checkpoint # FALSE
        BY <1>1, <3>1 DEF OwnClaim, Terminal
      <4> QED
        BY <1>7, <4>1, <4>2, <4>3 DEF ByTask, SameClaim, TaskGone, TaskGoes, Terminal
    <3>3. \A r \in Runner : tpc'[r][j] # "past"
      BY <3>1, <3>2 DEF OtherTasks, SameTask
    <3>4. ASSUME NEW r \in Runner, OwnClaim(r, j)' PROVE tpc'[r][j] \notin {"run", "retry"}
      <4>1. SameClaim(j)
        BY <3>2, <3>4 DEF OwnClaim, Terminal
      <4>2. CASE r = q
        BY <3>1, <3>2, <3>4, <4>1, <4>2 DEF OwnClaim, SameClaim
      <4>3. CASE r # q
        BY <3>1, <3>2, <3>4, <4>1, <4>3 DEF OwnClaim, SameClaim, OtherTasks, SameTask
      <4> QED
        BY <4>2, <4>3
    <3>5. row'[j].status \in Terminal \/ (row'[j].status = "running" /\ row'[j].checkpoint)
      BY <3>1, <3>2 DEF SameClaim
    <3>6. fired'[j] <= 1
      BY <3>1, <3>2
    <3> QED
      BY <3>3, <3>4, <3>5, <3>6 DEF FiredOnce
  <2>2. CASE ~ (fired[j] >= 1) /\ fired'[j] = fired[j]
    BY <1>1, <2>2 DEF FiredOnce
  <2>3. CASE ~ (fired[j] >= 1) /\ fired'[j] # fired[j]
    <3>1. tpc[q][j] = "past" /\ fired'[j] = fired[j] + 1 /\ SameClaim(j) /\ TaskGoes(q, j, "acted")
      BY <1>7, <2>3 DEF ByTask
    <3>2. row[j].status \in Terminal \/ (OwnClaim(q, j) /\ row[j].checkpoint)
      BY <1>3, <3>1
    <3>3. \A r \in Runner : tpc'[r][j] # "past"
      BY <1>4, <3>1 DEF TaskGoes, OtherTasks, SameTask
    <3>4. \A r \in Runner : OwnClaim(r, j)' => r = q
      BY <3>1, <3>2 DEF OwnClaim, SameClaim, Terminal
    <3>5. fired'[j] = 1
      BY <1>1, <2>3, <3>1
    <3> QED
      BY <3>1, <3>2, <3>3, <3>4, <3>5 DEF FiredOnce, SameClaim, TaskGoes, OwnClaim
  <2> QED
    BY <2>1, <2>2, <2>3
<1> QED
  BY <1>5, <1>6, <1>7 DEF JobMove

\* A cancel comes from the creator, and a task that lost its claim cannot pass it on.
LEMMA CancelStep ==
    ASSUME TypeOK, CancelInv, NEW j \in Job, JobMove(j)
    PROVE  /\ row'[j].cancel => req'[j] = "accepted" /\ row'[j].status \notin {"absent", "queued"}
           /\ row'[j].status = "cancelled" => req'[j] = "accepted"
           /\ \A r \in Runner : tpc'[r][j] = "cancelled" /\ OwnClaim(r, j)' => row'[j].cancel
<1>1. row[j].cancel \in BOOLEAN
  BY JobTypes
<1>2. /\ row[j].cancel => req[j] = "accepted" /\ row[j].status \notin {"absent", "queued"}
      /\ row[j].status = "cancelled" => req[j] = "accepted"
      /\ \A r \in Runner : tpc[r][j] = "cancelled" /\ OwnClaim(r, j) => row[j].cancel
  BY DEF CancelInv
<1> DEFINE Goal == /\ row'[j].cancel => req'[j] = "accepted" /\ row'[j].status \notin {"absent", "queued"}
                   /\ row'[j].status = "cancelled" => req'[j] = "accepted"
                   /\ \A r \in Runner : tpc'[r][j] = "cancelled" /\ OwnClaim(r, j)' => row'[j].cancel
<1>3. CASE Idle(j)
  BY <1>2, <1>3 DEF Idle, SameTasks, SameTask, SameClaim, OwnClaim
<1>4. CASE ByPeople(j)
  <2>1. \A r \in Runner : tpc'[r][j] = tpc[r][j] /\ att'[r][j] = att[r][j]
    BY <1>4 DEF ByPeople, SameTasks, SameTask
  <2>2. CASE SameClaim(j) /\ (req'[j] = req[j] \/ "accepted" \notin {req[j], req'[j]})
    BY <1>2, <2>1, <2>2 DEF SameClaim, OwnClaim
  <2>3. CASE row[j].status \in {"absent", "queued"} /\ SameCount(j) /\ row'[j].status \in {"queued", "cancelled"}
    <3>1. row'[j].cancel = FALSE
      BY <1>1, <1>2, <2>3 DEF SameCount
    <3>2. row'[j].status = "cancelled" => req'[j] = "accepted"
      BY <1>4, <2>3 DEF ByPeople, SameClaim
    <3> QED
      BY <2>3, <3>1, <3>2 DEF OwnClaim
  <2>4. CASE /\ row[j].status = "running" /\ row'[j].status = "running"
             /\ row'[j].worker = row[j].worker /\ row'[j].attempts = row[j].attempts
             /\ row'[j].cancel /\ req'[j] = "accepted"
    BY <2>4
  <2> QED
    BY <1>4, <2>2, <2>3, <2>4 DEF ByPeople
<1>5. ASSUME NEW q \in Runner, ByLoop(q, j) PROVE Goal
  <2>1. \/ BackInQueue(j) /\ SameTasks(j)
        \/ row'[j].status = "failed" /\ SameCount(j) /\ SameTasks(j)
        \/ SameClaim(j) /\ (SameTasks(j) \/ TaskGone(q, j))
        \/ /\ row[j].status = "queued" /\ row'[j].status = "running" /\ row'[j].worker = q
           /\ row'[j].cancel = row[j].cancel /\ tpc'[q][j] = "run"
    <3>1. row'[j] = row[j] => SameClaim(j)
      BY DEF SameClaim
    <3> QED
      BY <1>5, <3>1 DEF ByLoop
  <2>2. req'[j] = req[j]
    BY <1>5 DEF ByLoop
  <2> QED
    BY <1>1, <1>2, <2>1, <2>2
       DEF BackInQueue, SameCount, SameClaim, SameTasks, SameTask, TaskGone, OtherTasks, OwnClaim
<1>6. ASSUME NEW q \in Runner, ByTask(q, j) PROVE Goal
  <2>1. req'[j] = req[j] /\ OtherTasks(q, j) /\ row'[j].cancel = row[j].cancel
    BY <1>6 DEF ByTask, TaskGone, TaskGoes, SameClaim, SameCount, BackInQueue
  <2>2. CASE row'[j].status # row[j].status
    <3>1. OwnClaim(q, j) /\ (BackInQueue(j) \/ row'[j].status = "failed" \/ row'[j].status = tpc[q][j])
          /\ row'[j].status \in Terminal \cup {"queued"}
      BY <1>6, <2>2 DEF ByTask, SameClaim, BackInQueue, OwnClaim, Terminal
    <3>2. row'[j].status = "cancelled" => row[j].cancel
      BY <1>2, <3>1 DEF BackInQueue
    <3>3. row'[j].status = "queued" => ~ row[j].cancel
      BY <3>1, <1>6, <2>2 DEF BackInQueue, ByTask, SameClaim, Terminal
    <3> QED
      BY <1>1, <1>2, <2>1, <3>1, <3>2, <3>3 DEF OwnClaim, Terminal
  <2>3. CASE row'[j].status = row[j].status
    <3>1. CASE SameClaim(j) \/ (row'[j].worker = row[j].worker /\ SameCount(j) /\ tpc'[q][j] # "cancelled" /\ row[j].status = "running")
      <4>1. tpc'[q][j] = "cancelled" => (OwnClaim(q, j) => row[j].cancel) /\ att'[q][j] = att[q][j]
        BY <1>2, <1>6 DEF ByTask, TaskGone, TaskGoes
      <4> QED
        BY <1>1, <1>2, <2>1, <2>3, <3>1, <4>1 DEF SameClaim, SameCount, OwnClaim, OtherTasks, SameTask
    <3>2. SameClaim(j) \/ (row'[j].worker = row[j].worker /\ SameCount(j) /\ tpc'[q][j] # "cancelled" /\ row[j].status = "running")
      BY <1>6, <2>3 DEF ByTask, SameClaim, BackInQueue, OwnClaim, TaskGone, TaskGoes, Terminal
    <3> QED
      BY <3>1, <3>2
  <2> QED
    BY <2>2, <2>3
<1> QED
  BY <1>3, <1>4, <1>5, <1>6 DEF JobMove

\* Only who failed the row records that, and a row is failed once.
Recorder(r, j) == Pending(r, j) \/ tpc[r][j] = "hook"
LEMMA RecordStep ==
    ASSUME TypeOK, RecordInv, NEW j \in Job, JobMove(j)
    PROVE  /\ hooks'[j] <= 1
           /\ hooks'[j] = 1 => row'[j].status = "failed"
           /\ \A r \in Runner :
                 /\ Recorder(r, j)' => row'[j].status = "failed" /\ hooks'[j] = 0
                 /\ ~ (Pending(r, j)' /\ tpc'[r][j] = "hook")
                 /\ \A q \in Runner \ {r} : ~ (Recorder(r, j)' /\ Recorder(q, j)')
<1> DEFINE Goal == /\ hooks'[j] <= 1
                   /\ hooks'[j] = 1 => row'[j].status = "failed"
                   /\ \A r \in Runner :
                         /\ Recorder(r, j)' => row'[j].status = "failed" /\ hooks'[j] = 0
                         /\ ~ (Pending(r, j)' /\ tpc'[r][j] = "hook")
                         /\ \A q \in Runner \ {r} : ~ (Recorder(r, j)' /\ Recorder(q, j)')
<1>1. hooks[j] \in Nat
  BY JobTypes
<1>2. /\ hooks[j] <= 1
      /\ hooks[j] = 1 => row[j].status = "failed"
      /\ \A r \in Runner :
            /\ Recorder(r, j) => row[j].status = "failed" /\ hooks[j] = 0
            /\ ~ (Pending(r, j) /\ tpc[r][j] = "hook")
            /\ \A q \in Runner \ {r} : ~ (Recorder(r, j) /\ Recorder(q, j))
  BY DEF RecordInv, Recorder
<1>3. ASSUME hooks'[j] = hooks[j],
             row[j].status = "failed" => row'[j].status = "failed",
             \A r \in Runner : Pending(r, j)' => Pending(r, j),
             \A r \in Runner : tpc'[r][j] = "hook" => tpc[r][j] = "hook"
      PROVE  Goal
  <2>1. \A r \in Runner : Recorder(r, j)' => Recorder(r, j)
    BY <1>3 DEF Recorder
  <2> QED
    BY <1>1, <1>2, <1>3, <2>1
<1>4. ASSUME NEW q \in Runner,
             row[j].status = "running", row'[j].status = "failed", hooks'[j] = hooks[j],
             \A r \in Runner \ {q} : ~ Recorder(r, j)',
             ~ (Pending(q, j)' /\ tpc'[q][j] = "hook")
      PROVE  Goal
  <2>1. hooks'[j] = 0
    BY <1>1, <1>2, <1>4
  <2> QED
    BY <1>4, <2>1 DEF Recorder
<1>5. ASSUME NEW q \in Runner, Recorder(q, j), ~ Recorder(q, j)', row'[j].status = row[j].status,
             hooks'[j] = hooks[j] + 1,
             \A r \in Runner \ {q} : Recorder(r, j)' => Recorder(r, j)
      PROVE  Goal
  <2>1. hooks'[j] = 1 /\ row'[j].status = "failed"
    BY <1>1, <1>2, <1>5
  <2>2. \A r \in Runner : ~ Recorder(r, j)'
    BY <1>2, <1>5
  <2> QED
    BY <2>1, <2>2 DEF Recorder
<1>6. CASE ByPeople(j) \/ Idle(j)
  BY <1>3, <1>6 DEF ByPeople, Idle, SameTasks, SameTask, SameClaim, NoNewPending
<1>7. ASSUME NEW q \in Runner, ByLoop(q, j) PROVE Goal
  <2>1. CASE /\ SameTasks(j) /\ hooks'[j] = hooks[j]
             /\ \A r \in Runner \ {q} : Pending(r, j)' => Pending(r, j)
             /\ row[j].status = "running" /\ row'[j].status = "failed"
    <3>1. \A r \in Runner : ~ Recorder(r, j)
      BY <1>2, <2>1
    <3>2. \A r \in Runner : tpc'[r][j] # "hook" /\ (r # q => ~ Recorder(r, j)')
      BY <2>1, <3>1 DEF Recorder, SameTasks, SameTask
    <3> QED
      BY <1>4, <2>1, <3>2
  <2>2. CASE /\ SameTasks(j) /\ SameClaim(j) /\ NoNewPending(j)
             /\ Pending(q, j) /\ ~ Pending(q, j)' /\ hooks'[j] = hooks[j] + 1
    <3>1. Recorder(q, j) /\ ~ Recorder(q, j)'
      BY <1>2, <2>2 DEF Recorder, SameTasks, SameTask
    <3>2. \A r \in Runner \ {q} : Recorder(r, j)' => Recorder(r, j)
      BY <2>2 DEF Recorder, NoNewPending, SameTasks, SameTask
    <3> QED
      BY <1>5, <2>2, <3>1, <3>2 DEF SameClaim
  <2>3. CASE /\ NoNewPending(j) /\ hooks'[j] = hooks[j] /\ (row[j].status = "failed" => row'[j].status = "failed")
             /\ \A r \in Runner : tpc'[r][j] = "hook" => tpc[r][j] = "hook"
    BY <1>3, <2>3 DEF NoNewPending
  <2>4. CASE /\ NoNewPending(j) /\ hooks'[j] = hooks[j] /\ SameTasks(j)
             /\ row[j].status = "running"
    BY <2>3, <2>4 DEF SameTasks, SameTask
  <2>5. CASE /\ NoNewPending(j) /\ hooks'[j] = hooks[j]
             /\ row[j].status = "queued" /\ OtherTasks(q, j) /\ tpc'[q][j] = "run"
    BY <2>3, <2>5 DEF OtherTasks, SameTask
  <2>6. CASE NoNewPending(j) /\ hooks'[j] = hooks[j] /\ row'[j] = row[j] /\ TaskGone(q, j)
    BY <2>3, <2>6 DEF OtherTasks, SameTask, TaskGone
  <2> QED
    BY <1>7, <2>1, <2>2, <2>4, <2>5, <2>6 DEF ByLoop
<1>8. ASSUME NEW q \in Runner, ByTask(q, j) PROVE Goal
  <2>1. NoNewPending(j) /\ OtherTasks(q, j)
    BY <1>8 DEF ByTask, TaskGone, TaskGoes
  <2>2. CASE /\ row[j].status = "running" /\ row'[j].status = "failed" /\ hooks'[j] = hooks[j]
             /\ tpc'[q][j] = "hook"
    <3>1. \A r \in Runner : ~ Recorder(r, j)
      BY <1>2, <2>2
    <3>2. \A r \in Runner : ~ Pending(r, j)' /\ (r # q => ~ Recorder(r, j)')
      BY <2>1, <3>1 DEF Recorder, NoNewPending, OtherTasks, SameTask
    <3> QED
      BY <1>4, <2>2, <3>2
  <2>3. CASE /\ tpc[q][j] = "hook" /\ tpc'[q][j] = "none" /\ row'[j] = row[j] /\ hooks'[j] = hooks[j] + 1
    <3>1. Recorder(q, j) /\ ~ Recorder(q, j)'
      BY <1>2, <2>1, <2>3 DEF Recorder, NoNewPending
    <3>2. \A r \in Runner \ {q} : Recorder(r, j)' => Recorder(r, j)
      BY <2>1 DEF Recorder, NoNewPending, OtherTasks, SameTask
    <3> QED
      BY <1>5, <2>3, <3>1, <3>2
  <2>4. CASE /\ hooks'[j] = hooks[j] /\ tpc'[q][j] # "hook"
             /\ row[j].status = "failed" => row'[j].status = "failed"
    BY <1>3, <2>1, <2>4 DEF NoNewPending, OtherTasks, SameTask
  <2>5. \/ /\ row[j].status = "running" /\ row'[j].status = "failed" /\ hooks'[j] = hooks[j]
           /\ tpc'[q][j] = "hook"
        \/ /\ tpc[q][j] = "hook" /\ tpc'[q][j] = "none" /\ row'[j] = row[j] /\ hooks'[j] = hooks[j] + 1
        \/ /\ hooks'[j] = hooks[j] /\ tpc'[q][j] # "hook"
           /\ row[j].status = "failed" => row'[j].status = "failed"
    BY <1>8 DEF ByTask, TaskGone, TaskGoes, OwnClaim, SameClaim, Terminal
  <2> QED
    BY <2>2, <2>3, <2>4, <2>5
<1> QED
  BY <1>6, <1>7, <1>8 DEF JobMove

-----------------------------------------------------------------------------
(* The theorems. *)

\* Every step of every runner, person and clock keeps the inductive invariant.
LEMMA StepInv == IInv /\ [Next]_vars => IInv'
<1> SUFFICES ASSUME IInv, [Next]_vars PROVE IInv'
  OBVIOUS
<1>1. TypeOK /\ ClaimInv /\ AttemptInv /\ ActInv /\ CancelInv /\ RecordInv
  BY DEF IInv
<1>2. TypeOK'
  BY <1>1, TypeKept
<1>3. ASSUME NEW j \in Job PROVE JobMove(j)
  BY <1>1, <1>3, EveryStep
<1>4. ClaimInv'
  BY <1>1, <1>3, ClaimStep DEF ClaimInv
<1>5. AttemptInv'
  BY <1>1, <1>3, AttemptStep DEF AttemptInv
<1>6. ActInv'
  <2>1. ASSUME NEW j \in Job PROVE FiredOnce(j)'
    BY <1>1, <1>3, FiredStep
  <2>2. ASSUME NEW j \in Job, NEW r \in Runner PROVE PastOwns(r, j)'
    BY <1>1, <1>3, PastStep
  <2>3. ASSUME NEW j \in Job, NEW r \in Runner, NEW q \in Runner,
               tpc'[r][j] \in {"past", "acted"}, tpc'[q][j] \in {"past", "acted"}
        PROVE  r = q
    BY <1>1, <1>3, <2>3, AloneStep
  <2> QED
    BY <2>1, <2>2, <2>3 DEF ActInv, FiredOnce
<1>7. CancelInv'
  BY <1>1, <1>3, CancelStep DEF CancelInv
<1>8. RecordInv'
  BY <1>1, <1>3, RecordStep DEF RecordInv, Recorder
<1> QED
  BY <1>2, <1>4, <1>5, <1>6, <1>7, <1>8 DEF IInv

\* The invariant every other theorem is read off.
THEOREM Inductive == Spec => []IInv
BY InitInv, StepInv, PTL DEF Spec

\* The step ctx.checkpoint guards is done at most once per job.
THEOREM ActsAtMostOnce == Spec => []ActsOnce
<1>1. IInv => ActsOnce
  BY DEF IInv, ActInv, ActsOnce
<1> QED
  BY Inductive, <1>1, PTL

\* Retries and interruptions never start a job more often than its handler allows.
THEOREM AttemptsAreBounded == Spec => []AttemptsBounded
<1>1. IInv => AttemptsBounded
  BY DEF IInv, AttemptInv, AttemptsBounded
<1> QED
  BY Inductive, <1>1, PTL

\* No job is left in the queue with a cancel request no runner would ever claim.
THEOREM QueuedCanBeClaimed == Spec => []QueuedIsClaimable
<1>1. IInv => QueuedIsClaimable
  BY DEF IInv, CancelInv, QueuedIsClaimable
<1> QED
  BY Inductive, <1>1, PTL

\* A job ends cancelled only when its creator's request was accepted.
THEOREM CancelledWasRequested == Spec => []CancelledOnRequest
<1>1. IInv => CancelledOnRequest
  BY DEF IInv, CancelInv, CancelledOnRequest
<1> QED
  BY Inductive, <1>1, PTL

\* An interruption is recorded at most once, and only for a job that failed.
THEOREM RecordedAtMostOnce == Spec => []RecordedOnce
<1>1. IInv => RecordedOnce
  BY DEF IInv, RecordInv, RecordedOnce
<1> QED
  BY Inductive, <1>1, PTL

\* Two workers never hold the same claim.
THEOREM ClaimsAreExclusive == Spec => []OneTaskPerClaim
<1>1. IInv => OneTaskPerClaim
  <2> SUFFICES ASSUME IInv, NEW r \in Runner, NEW q \in Runner, NEW j \in Job,
                      r # q, tpc[r][j] # "none", tpc[q][j] # "none", att[r][j] = att[q][j]
               PROVE  FALSE
    BY DEF OneTaskPerClaim
  <2>1. att[r][j] = 0 /\ att[r][j] >= 1
    BY DEF IInv, ClaimInv
  <2> QED
    BY <2>1
<1> QED
  BY Inductive, <1>1, PTL

\* An ended job stays as it ended.
THEOREM EndStands == Spec => EndIsFinal
<1>1. TypeOK /\ [Next]_vars => [\A j \in Job : row[j].status \in Terminal => row'[j].status = row[j].status]_vars
  <2> SUFFICES ASSUME TypeOK, [Next]_vars, NEW j \in Job, row[j].status \in Terminal
               PROVE  row'[j].status = row[j].status
    OBVIOUS
  <2>1. JobMove(j)
    BY EveryStep
  <2> QED
    BY <2>1 DEF JobMove, ByPeople, Idle, ByLoop, ByTask, SameClaim, OwnClaim, Terminal
<1> QED
  BY TypeCorrect, <1>1, PTL DEF Spec, EndIsFinal

\* A task that lost its claim ends without touching the row.
THEOREM LateFinishIsHarmless == Spec => LateFinishHarmless
<1>1. TypeOK /\ [Next]_vars =>
        [\A r \in Runner, j \in Job :
            (tpc[r][j] # "none" /\ tpc'[r][j] = "none" /\ ~ OwnClaim(r, j)) => row'[j] = row[j]]_vars
  <2> SUFFICES ASSUME TypeOK, [Next]_vars, NEW r \in Runner, NEW j \in Job,
                      tpc[r][j] # "none", tpc'[r][j] = "none", ~ OwnClaim(r, j)
               PROVE  row'[j] = row[j]
    OBVIOUS
  <2>1. JobMove(j)
    BY EveryStep
  <2> QED
    BY <2>1 DEF JobMove, ByPeople, Idle, ByLoop, ByTask, SameTasks, SameTask, OtherTasks, TaskGone,
                TaskGoes, Terminal
<1> QED
  BY TypeCorrect, <1>1, PTL DEF Spec, LateFinishHarmless

-----------------------------------------------------------------------------
(* The lanes that all runners share.                                        *)
(*                                                                          *)
(* What a runner has counted as free it may still start, however many       *)
(* others have counted the same slots.  So the running rows of a lane are   *)
(* counted together with what every runner has promised itself, once for    *)
(* the lane and once for the rows each runner has claimed.                  *)

\* The slots a runner takes for free: counted, or chosen for a job.
Promised(r, l) ==
    IF LaneName(r) # l THEN 0
    ELSE IF lpc[r] = "select" THEN free[r]
    ELSE IF lpc[r] = "claim" THEN Cardinality(cand[r])
    ELSE 0
Promises(l) == [r \in Runner |-> Promised(r, l)]

\* One pair for every promised slot.
Pairs(p, s) == {x \in Runner \X (1..s) : x[2] <= p[x[1]]}

SharedLanes == {Lanes[i] : i \in DOMAIN Lanes} \ {DefaultLane}

LaneCount(l) ==
    /\ \A r \in Runner : Promised(r, l) <= Slots[l]
    /\ Cardinality(InLane(l)) + Cardinality(Pairs(Promises(l), Slots[l])) <= Slots[l] * Cardinality(Runner)

OwnCount(l) == \A r \in Runner : Cardinality(RowsOf(l, r)) + Promised(r, l) <= Slots[l]

LaneInv ==
    /\ \A r \in Runner : lpc[r] = "claim" => \A j \in cand[r] : LaneOf[j] = LaneName(r)
    /\ \A l \in SharedLanes : LaneCount(l) /\ OwnCount(l)

\* Counting the pairs.
LEMMA PairsFinite ==
    ASSUME NEW p, NEW s \in Nat
    PROVE  /\ IsFiniteSet(Pairs(p, s)) /\ Cardinality(Pairs(p, s)) \in Nat
           /\ IsFiniteSet(Runner) /\ Cardinality(Runner) \in Nat
<1>1. IsFiniteSet(Runner) /\ Cardinality(Runner) \in Nat
  BY JobAssumption, FS_CardinalityType
<1>2. IsFiniteSet(1..s)
  BY FS_Interval
<1>3. IsFiniteSet(Runner \X (1..s))
  BY <1>1, <1>2, FS_Product
<1>4. Pairs(p, s) \in SUBSET (Runner \X (1..s))
  BY DEF Pairs
<1>5. IsFiniteSet(Pairs(p, s))
  BY <1>3, <1>4, FS_Subset
<1> QED
  BY <1>1, <1>5, FS_CardinalityType

LEMMA FewerPairs ==
    ASSUME NEW p \in [Runner -> Nat], NEW q \in [Runner -> Nat], NEW s \in Nat, \A r \in Runner : q[r] <= p[r]
    PROVE  Cardinality(Pairs(q, s)) <= Cardinality(Pairs(p, s))
<1>1. Pairs(q, s) \in SUBSET Pairs(p, s)
  <2>1. ASSUME NEW x \in Pairs(q, s) PROVE x \in Pairs(p, s)
    <3>1. x \in Runner \X (1..s) /\ x[2] <= q[x[1]]
      BY DEF Pairs
    <3>2. x[1] \in Runner /\ x[2] \in Nat
      BY <3>1
    <3>3. x[2] <= p[x[1]]
      BY <3>1, <3>2
    <3> QED
      BY <3>1, <3>3 DEF Pairs
  <2> QED
    BY <2>1
<1> QED
  BY <1>1, PairsFinite, FS_Subset

LEMMA OnePairLess ==
    ASSUME NEW p \in [Runner -> Nat], NEW q \in [Runner -> Nat], NEW s \in Nat, NEW r \in Runner,
           p[r] <= s, p[r] # 0, q[r] < p[r], \A c \in Runner \ {r} : q[c] <= p[c]
    PROVE  Cardinality(Pairs(q, s)) + 1 <= Cardinality(Pairs(p, s))
<1> DEFINE x == <<r, p[r]>>
<1>1. x \in Pairs(p, s)
  BY DEF Pairs
<1>2. Pairs(q, s) \in SUBSET (Pairs(p, s) \ {x})
  <2>1. ASSUME NEW y \in Pairs(q, s) PROVE y \in Pairs(p, s) /\ y # x
    <3>1. y \in Runner \X (1..s) /\ y[2] <= q[y[1]]
      BY DEF Pairs
    <3>2. y[1] \in Runner /\ y[2] \in Nat /\ q[y[1]] \in Nat /\ p[y[1]] \in Nat /\ p[r] \in Nat /\ q[r] \in Nat
      BY <3>1
    <3>3. y[2] <= p[y[1]] /\ y # x
      BY <3>1, <3>2
    <3> QED
      BY <3>1, <3>3 DEF Pairs
  <2> QED
    BY <2>1
<1>3. IsFiniteSet(Pairs(p, s)) /\ Cardinality(Pairs(p, s)) \in Nat /\ Cardinality(Pairs(q, s)) \in Nat
  BY PairsFinite
<1> HIDE DEF x
<1>4. /\ IsFiniteSet(Pairs(p, s) \ {x})
      /\ Cardinality(Pairs(p, s) \ {x}) = Cardinality(Pairs(p, s)) - 1
  BY <1>1, <1>3, FS_RemoveElement
<1>5. Cardinality(Pairs(q, s)) <= Cardinality(Pairs(p, s) \ {x})
  BY <1>2, <1>4, FS_Subset
<1> QED
  BY <1>3, <1>4, <1>5

LEMMA OneRound ==
    ASSUME NEW p \in [Runner -> Nat], NEW s \in Nat, NEW r \in Runner, p[r] <= s
    PROVE  Cardinality(Pairs(p, s)) + s <= p[r] + s * Cardinality(Runner)
<1> DEFINE own == {r} \X (1..p[r])
           others == (Runner \ {r}) \X (1..s)
           n == Cardinality(Runner \ {r})
<1>1. IsFiniteSet(Runner) /\ Cardinality(Runner) \in Nat /\ Cardinality(Pairs(p, s)) \in Nat
  BY PairsFinite
<1>2. IsFiniteSet(Runner \ {r}) /\ n = Cardinality(Runner) - 1
  BY <1>1, FS_RemoveElement
<1>3. n \in Nat
  BY <1>2, FS_CardinalityType
<1>4. IsFiniteSet(1..s) /\ Cardinality(1..s) = s /\ IsFiniteSet(1..p[r]) /\ Cardinality(1..p[r]) = p[r]
  <2>1. ASSUME NEW k \in Nat PROVE IsFiniteSet(1..k) /\ Cardinality(1..k) = k
    <3>1. 1 \in Int /\ k \in Int
      OBVIOUS
    <3>2. IsFiniteSet(1..k) /\ Cardinality(1..k) = IF 1 > k THEN 0 ELSE k - 1 + 1
      BY <3>1, FS_Interval
    <3> QED
      BY <3>2
  <2> QED
    BY <2>1
<1>5. IsFiniteSet(others) /\ Cardinality(others) = n * s
  BY <1>2, <1>4, FS_Product
<1>6. IsFiniteSet(own) /\ Cardinality(own) = 1 * p[r]
  <2>1. IsFiniteSet({r}) /\ Cardinality({r}) = 1
    BY FS_Singleton
  <2>2. ASSUME NEW T, IsFiniteSet(T)
        PROVE  IsFiniteSet({r} \X T) /\ Cardinality({r} \X T) = 1 * Cardinality(T)
    BY <2>1, <2>2, FS_Product
  <2>3. IsFiniteSet(1..p[r]) /\ Cardinality(1..p[r]) = p[r]
    BY <1>4
  <2> QED
    BY <2>2, <2>3
<1>7. Pairs(p, s) \in SUBSET (own \cup others)
  BY DEF Pairs
<1> HIDE DEF own, others, n
<1>8. IsFiniteSet(own \cup others) /\ Cardinality(own \cap others) \in Nat
      /\ Cardinality(own \cup others) = Cardinality(own) + Cardinality(others) - Cardinality(own \cap others)
  <2>1. IsFiniteSet(own \cap others)
    BY <1>5, FS_Intersection
  <2> QED
    BY <1>5, <1>6, <2>1, FS_Union, FS_CardinalityType
<1>9. Cardinality(Pairs(p, s)) <= Cardinality(own \cup others)
  BY <1>7, <1>8, FS_Subset
<1>10. n * s + s = s * Cardinality(Runner)
  <2>1. Cardinality(Runner) = n + 1
    BY <1>1, <1>2
  <2>2. \A a, b \in Nat : a * b + b = b * (a + 1)
    OBVIOUS
  <2> QED
    BY <1>3, <2>1, <2>2
<1>11. 1 * p[r] = p[r] /\ p[r] \in Nat /\ n * s \in Nat /\ s * Cardinality(Runner) \in Nat
  <2>1. \A a, b \in Nat : a * b \in Nat
    OBVIOUS
  <2> QED
    BY <1>1, <1>3, <2>1
<1>12. Cardinality(own \cup others) <= p[r] + n * s
  BY <1>5, <1>6, <1>8, <1>11
<1>13. Cardinality(own \cup others) \in Nat
  BY <1>8, FS_CardinalityType
<1> QED
  BY <1>1, <1>9, <1>10, <1>11, <1>12, <1>13

\* A set of jobs has a lowest id.
LEMMA FirstIs ==
    ASSUME NEW S \in SUBSET Job, S # {}
    PROVE  First(S) \in S
<1> DEFINE Upto(x) == {y \in Job : y <= x}
           F == {Upto(x) : x \in S}
<1>1. F \subseteq FiniteSubsetsOf(Job)
  BY JobAssumption, FS_Subset DEF FiniteSubsetsOf
<1>2. IsWellFoundedOn(StrictSubsetOrdering(Job), FiniteSubsetsOf(Job))
  BY FS_StrictSubsetOrderingWellFounded
<1>3. PICK a \in F : \A c \in F : ~ (<<c, a>> \in StrictSubsetOrdering(Job))
  <2>1. F # {}
    OBVIOUS
  <2> QED
    BY <1>1, <1>2, <2>1, WFMin
<1>4. PICK x \in S : a = Upto(x)
  BY <1>3
<1>5. ASSUME NEW y \in S PROVE x <= y
  <2>0. Job \subseteq Nat /\ x \in Job /\ y \in Job
    BY JobAssumption
  <2>1. SUFFICES ASSUME y < x PROVE FALSE
    BY <2>0
  <2>2. Upto(y) \in F /\ Upto(y) \subseteq Upto(x) /\ Upto(y) # Upto(x)
    <3>1. \A z \in Job : z <= y => z <= x
      BY <2>0, <2>1
    <3>2. x <= x /\ ~ (x <= y)
      BY <2>0, <2>1
    <3> QED
      BY <2>0, <3>1, <3>2
  <2>3. <<Upto(y), a>> \in StrictSubsetOrdering(Job)
    <3>1. Upto(y) \in SUBSET Job /\ a \in SUBSET Job
      BY <1>4
    <3>2. Upto(y) \subseteq a /\ Upto(y) # a
      BY <1>4, <2>2
    <3> QED
      BY <3>1, <3>2 DEF StrictSubsetOrdering
  <2> QED
    BY <2>2, <2>3, <1>3
<1>6. \E j \in S : \A k \in S : j <= k
  BY <1>5
<1> QED
  BY <1>6 DEF First

\* LIMIT n returns n rows at most.
LEMMA LimitHolds ==
    ASSUME NEW S \in SUBSET Job, NEW n \in Nat
    PROVE  Cardinality({j \in S : Cardinality({i \in S : i < j}) < n}) <= n
<1> DEFINE Below(j) == {i \in S : i < j}
           T == {j \in S : Cardinality(Below(j)) < n}
           f == [j \in T |-> Cardinality(Below(j))]
<1>1. ASSUME NEW U \in SUBSET S PROVE IsFiniteSet(U) /\ Cardinality(U) \in Nat
  BY <1>1, JobAssumption, FS_Subset, FS_CardinalityType
<1>2. \A j \in S : Below(j) \in SUBSET S
  OBVIOUS
<1>3. ASSUME NEW i \in S, NEW j \in S, i < j
      PROVE  Cardinality(Below(i)) # Cardinality(Below(j))
  <2>0. S \subseteq Nat
    BY JobAssumption
  <2>1. i \in Below(j) /\ Below(i) \in SUBSET (Below(j) \ {i})
    <3>1. ASSUME NEW k \in S, k < i PROVE k < j /\ k # i
      <4>1. k \in Nat /\ i \in Nat /\ j \in Nat
        BY <2>0
      <4> QED
        BY <1>3, <3>1, <4>1
    <3> QED
      BY <1>3, <3>1
  <2>2. IsFiniteSet(Below(j)) /\ Cardinality(Below(j)) \in Nat /\ Cardinality(Below(i)) \in Nat
    BY <1>1, <1>2
  <2> HIDE DEF Below
  <2>3. IsFiniteSet(Below(j) \ {i}) /\ Cardinality(Below(j) \ {i}) = Cardinality(Below(j)) - 1
    BY <2>1, <2>2, FS_RemoveElement
  <2>4. Cardinality(Below(i)) <= Cardinality(Below(j) \ {i})
    BY <2>1, <2>3, FS_Subset
  <2> QED
    BY <2>2, <2>3, <2>4
<1>4. f \in [T -> 0..(n - 1)]
  <2>1. ASSUME NEW j \in T PROVE Cardinality(Below(j)) \in 0..(n - 1)
    <3>1. Cardinality(Below(j)) \in Nat /\ Cardinality(Below(j)) < n
      BY <1>1, <1>2
    <3> QED
      BY <3>1
  <2> QED
    BY <2>1
<1>5. ASSUME NEW i \in T, NEW j \in T, f[i] = f[j] PROVE i = j
  <2>1. i \in S /\ j \in S /\ i \in Nat /\ j \in Nat /\ Cardinality(Below(i)) = Cardinality(Below(j))
    BY <1>5, JobAssumption
  <2>2. ~ (i < j) /\ ~ (j < i)
    BY <1>3, <2>1
  <2> QED
    BY <2>1, <2>2
<1>6. IsFiniteSet(0..(n - 1)) /\ Cardinality(0..(n - 1)) = n
  <2>1. 0 \in Int /\ n - 1 \in Int
    OBVIOUS
  <2>2. IsFiniteSet(0..(n - 1)) /\ Cardinality(0..(n - 1)) = IF 0 > n - 1 THEN 0 ELSE n - 1 - 0 + 1
    BY <2>1, FS_Interval
  <2> QED
    BY <2>2
<1> HIDE DEF f, T
<1>7. f \in Injection(T, 0..(n - 1))
  BY <1>4, <1>5 DEF Injection, IsInjective
<1>8. Cardinality(T) <= n
  BY <1>6, <1>7, FS_Injection
<1> QED
  BY <1>8 DEF T

\* Types of what is counted.
LEMMA LaneTypes ==
    ASSUME TypeOK
    PROVE  /\ \A S \in SUBSET Job : IsFiniteSet(S) /\ Cardinality(S) \in Nat
           /\ \A l \in SharedLanes : Slots[l] \in Nat \ {0}
           /\ \A r \in Runner : free[r] \in Nat /\ cand[r] \in SUBSET Job
           /\ \A l : /\ InLane(l) \in SUBSET Job /\ Promises(l) \in [Runner -> Nat]
                     /\ \A r \in Runner : Promises(l)[r] = Promised(r, l)
<1>1. ASSUME NEW S \in SUBSET Job PROVE IsFiniteSet(S) /\ Cardinality(S) \in Nat
  BY <1>1, JobAssumption, FS_Subset, FS_CardinalityType
<1>2. \A l \in SharedLanes : Slots[l] \in Nat \ {0}
  BY JobAssumption DEF SharedLanes
<1>3. \A r \in Runner : free[r] \in Nat /\ cand[r] \in SUBSET Job
  BY DEF TypeOK
<1>4. ASSUME NEW l, NEW r \in Runner PROVE Promised(r, l) \in Nat
  BY <1>1, <1>3 DEF Promised
<1>5. ASSUME NEW l PROVE InLane(l) \in SUBSET Job
  BY DEF InLane
<1> QED
  BY <1>1, <1>2, <1>3, <1>4, <1>5 DEF Promises

\* And after a step.
LEMMA LaneTypesNext ==
    ASSUME TypeOK'
    PROVE  \A l : /\ InLane(l)' \in SUBSET Job /\ IsFiniteSet(InLane(l)') /\ Cardinality(InLane(l)') \in Nat
                  /\ Promises(l)' \in [Runner -> Nat]
                  /\ \A r \in Runner : Promises(l)'[r] = Promised(r, l)'
<1>1. ASSUME NEW S \in SUBSET Job PROVE IsFiniteSet(S) /\ Cardinality(S) \in Nat
  BY <1>1, JobAssumption, FS_Subset, FS_CardinalityType
<1>3. \A r \in Runner : free'[r] \in Nat /\ cand'[r] \in SUBSET Job
  BY DEF TypeOK
<1>4. ASSUME NEW l, NEW r \in Runner PROVE Promised(r, l)' \in Nat
  BY <1>1, <1>3 DEF Promised
<1>5. ASSUME NEW l PROVE InLane(l)' \in SUBSET Job
  BY DEF InLane
<1> QED
  BY <1>1, <1>4, <1>5 DEF Promises

\* Only a claim makes a row run.
LEMMA OnlyClaims ==
    ASSUME TypeOK, [Next]_vars, NEW j \in Job, row'[j].status = "running", row[j].status # "running"
    PROVE  \E r \in Runner : ClaimNext(r)
<1>1. CASE UNCHANGED vars
  BY <1>1 DEF vars
<1>2. ASSUME NEW i \in Job, Person(i) \/ GoStale(i) \/ ComesDue(i) PROVE FALSE
  <2>1. JobMove(j)
    BY <1>2, PeopleMove
  <2>2. tpc' = tpc
    BY <1>2 DEF Person, Enqueue, CancelRead, CancelQueued, CancelRunning, GoStale, ComesDue, tasks
  <2>3. ~ ByPeople(j) /\ ~ Idle(j)
    BY DEF ByPeople, Idle, SameClaim
  <2>4. ASSUME NEW r \in Runner PROVE ~ ByLoop(r, j) /\ ~ ByTask(r, j)
    BY <2>2 DEF ByLoop, ByTask, BackInQueue, SameClaim, OwnClaim, Terminal
  <2> QED
    BY <2>1, <2>3, <2>4 DEF JobMove
<1>3. ASSUME NEW r \in Runner, LoopMove(r) \/ Shutdown(r) \/ LoopFails(r) \/ Crash(r) \/ Restart(r),
             ~ ClaimNext(r)
      PROVE  FALSE
  <2>1. Idle(j) \/ ByLoop(r, j)
    BY <1>3, LoopMoves
  <2>2. tpc' = tpc \/ tpc' = [tpc EXCEPT ![r] = [i \in Job |-> "none"]]
    BY <1>3 DEF LoopMove, ReapSelect, LoopRequeue, LoopGiveUp, LoopHook, Settled, CountLane, SelectLane,
                LaneFilled, EndGrace, CollectOwn, Shutdown, LoopFails, Crash, Restart, NoTasks, tasks
  <2>3. tpc[r][j] = "none" => tpc'[r][j] # "run"
    BY <2>2 DEF TypeOK
  <2> QED
    BY <2>1, <2>3 DEF Idle, ByLoop, BackInQueue, SameClaim
<1>4. ASSUME NEW r \in Runner, NEW i \in Job, TaskMove(r, i) \/ HandlerMove(r, i) \/ WriteFails(r, i)
      PROVE  FALSE
  <2>1. Idle(j) \/ ByTask(r, j)
    BY <1>4, TaskMoves, OtherJob
  <2> QED
    BY <2>1 DEF Idle, ByTask, BackInQueue, SameClaim, OwnClaim, Terminal
<1> QED
  BY <1>1, <1>2, <1>3, <1>4 DEF Next

\* A row that stays running stays with its worker.
LEMMA KeepsWorker ==
    ASSUME TypeOK, [Next]_vars, NEW j \in Job, row[j].status = "running", row'[j].status = "running"
    PROVE  row'[j].worker = row[j].worker
<1>1. JobMove(j)
  BY EveryStep
<1> QED
  BY <1>1 DEF JobMove, ByPeople, Idle, ByLoop, ByTask, BackInQueue, SameClaim, Terminal

LEMMA RowsTypes ==
    ASSUME NEW l, NEW r \in Runner
    PROVE  /\ RowsOf(l, r) \in SUBSET InLane(l) /\ RowsOf(l, r) \in SUBSET Job
           /\ IsFiniteSet(RowsOf(l, r)) /\ Cardinality(RowsOf(l, r)) \in Nat
           /\ IsFiniteSet(RowsOf(l, r)') /\ Cardinality(RowsOf(l, r)') \in Nat
<1>1. ASSUME NEW S \in SUBSET Job PROVE IsFiniteSet(S) /\ Cardinality(S) \in Nat
  BY <1>1, JobAssumption, FS_Subset, FS_CardinalityType
<1>2. RowsOf(l, r) \in SUBSET InLane(l) /\ RowsOf(l, r) \in SUBSET Job /\ RowsOf(l, r)' \in SUBSET Job
  BY DEF RowsOf, InLane
<1> QED
  BY <1>1, <1>2

LEMMA PromiseTypes ==
    ASSUME TypeOK, TypeOK', NEW l \in SharedLanes, NEW r \in Runner
    PROVE  Promised(r, l)' \in Nat /\ Promised(r, l) \in Nat /\ Slots[l] \in Nat
<1>1. Slots[l] \in Nat /\ Promises(l) \in [Runner -> Nat] /\ Promises(l)[r] = Promised(r, l)
  BY LaneTypes
<1>2. Promises(l)' \in [Runner -> Nat] /\ Promises(l)'[r] = Promised(r, l)'
  BY LaneTypesNext
<1>3. Promised(r, l) \in Nat
  BY <1>1
<1>4. Promised(r, l)' \in Nat
  BY <1>2
<1> QED
  BY <1>1, <1>3, <1>4

\* The same for the rows of each runner.
LEMMA OwnKept ==
    ASSUME TypeOK, TypeOK', NEW l \in SharedLanes, OwnCount(l),
           \A r \in Runner : RowsOf(l, r)' \subseteq RowsOf(l, r),
           \A r \in Runner : Promised(r, l)' <= Promised(r, l)
    PROVE  OwnCount(l)'
<1>1. ASSUME NEW r \in Runner PROVE Cardinality(RowsOf(l, r)') + Promised(r, l)' <= Slots[l]
  <2>1. Cardinality(RowsOf(l, r)') <= Cardinality(RowsOf(l, r))
    BY RowsTypes, FS_Subset
  <2>2. Cardinality(RowsOf(l, r)') \in Nat /\ Cardinality(RowsOf(l, r)) \in Nat
    BY RowsTypes
  <2>3. Promised(r, l)' \in Nat /\ Promised(r, l) \in Nat /\ Slots[l] \in Nat
    BY PromiseTypes
  <2>4. Promised(r, l)' <= Promised(r, l) /\ Cardinality(RowsOf(l, r)) + Promised(r, l) <= Slots[l]
    BY DEF OwnCount
  <2> QED
    BY <2>1, <2>2, <2>3, <2>4
<1> QED
  BY <1>1 DEF OwnCount

LEMMA OwnCounted ==
    ASSUME TypeOK, TypeOK', NEW l \in SharedLanes, OwnCount(l), NEW r \in Runner,
           \A q \in Runner : RowsOf(l, q)' = RowsOf(l, q),
           Promised(r, l)' + Cardinality(InLane(l)) = Slots[l],
           \A q \in Runner \ {r} : Promised(q, l)' <= Promised(q, l)
    PROVE  OwnCount(l)'
<1>1. ASSUME NEW q \in Runner PROVE Cardinality(RowsOf(l, q)') + Promised(q, l)' <= Slots[l]
  <2>1. Cardinality(RowsOf(l, q)) \in Nat /\ RowsOf(l, q)' = RowsOf(l, q)
    BY RowsTypes
  <2>2. Promised(q, l)' \in Nat /\ Promised(q, l) \in Nat /\ Slots[l] \in Nat
    BY PromiseTypes
  <2>3. CASE q = r
    <3>1. IsFiniteSet(InLane(l)) /\ Cardinality(InLane(l)) \in Nat
      <4>1. InLane(l) \in SUBSET Job
        BY DEF InLane
      <4> QED
        BY <4>1, JobAssumption, FS_Subset, FS_CardinalityType
    <3>2. Cardinality(RowsOf(l, q)) <= Cardinality(InLane(l))
      BY <3>1, RowsTypes, FS_Subset
    <3>3. Promised(q, l)' + Cardinality(InLane(l)) = Slots[l]
      BY <2>3
    <3> QED
      BY <2>1, <2>2, <3>1, <3>2, <3>3
  <2>4. CASE q # r
    <3>1. Promised(q, l)' <= Promised(q, l) /\ Cardinality(RowsOf(l, q)) + Promised(q, l) <= Slots[l]
      BY <2>4 DEF OwnCount
    <3> QED
      BY <2>1, <2>2, <3>1
  <2> QED
    BY <2>3, <2>4
<1> QED
  BY <1>1 DEF OwnCount

LEMMA OwnClaimed ==
    ASSUME TypeOK, TypeOK', NEW l \in SharedLanes, OwnCount(l), NEW r \in Runner, NEW j \in Job,
           RowsOf(l, r)' \subseteq RowsOf(l, r) \cup {j}, Promised(r, l)' < Promised(r, l),
           \A q \in Runner \ {r} : /\ RowsOf(l, q)' \subseteq RowsOf(l, q)
                                   /\ Promised(q, l)' <= Promised(q, l)
    PROVE  OwnCount(l)'
<1>1. ASSUME NEW q \in Runner PROVE Cardinality(RowsOf(l, q)') + Promised(q, l)' <= Slots[l]
  <2>1. /\ IsFiniteSet(RowsOf(l, q)) /\ Cardinality(RowsOf(l, q)) \in Nat
        /\ Cardinality(RowsOf(l, q)') \in Nat
    BY RowsTypes
  <2>2. Promised(q, l)' \in Nat /\ Promised(q, l) \in Nat /\ Slots[l] \in Nat
    BY PromiseTypes
  <2>3. Cardinality(RowsOf(l, q)) + Promised(q, l) <= Slots[l]
    BY DEF OwnCount
  <2>4. CASE q = r
    <3>1. /\ IsFiniteSet(RowsOf(l, q) \cup {j})
          /\ Cardinality(RowsOf(l, q) \cup {j}) =
                IF j \in RowsOf(l, q) THEN Cardinality(RowsOf(l, q)) ELSE Cardinality(RowsOf(l, q)) + 1
      BY <2>1, FS_AddElement
    <3>2. Cardinality(RowsOf(l, q)') <= Cardinality(RowsOf(l, q) \cup {j})
      BY <2>4, <3>1, FS_Subset
    <3>3. Promised(q, l)' < Promised(q, l)
      BY <2>4
    <3> QED
      BY <2>1, <2>2, <2>3, <3>1, <3>2, <3>3
  <2>5. CASE q # r
    <3>1. Cardinality(RowsOf(l, q)') <= Cardinality(RowsOf(l, q))
      BY <2>1, <2>5, FS_Subset
    <3>2. Promised(q, l)' <= Promised(q, l)
      BY <2>5
    <3> QED
      BY <2>1, <2>2, <2>3, <3>1, <3>2
  <2> QED
    BY <2>4, <2>5
<1> QED
  BY <1>1 DEF OwnCount

\* No more rows run and nobody promised itself more.
LEMMA LaneKept ==
    ASSUME TypeOK, TypeOK', NEW l \in SharedLanes, LaneCount(l), InLane(l)' \subseteq InLane(l),
           \A r \in Runner : Promised(r, l)' <= Promised(r, l)
    PROVE  LaneCount(l)'
<1> DEFINE s == Slots[l]
           p == Promises(l)
           q == Promises(l)'
<1>1. /\ s \in Nat /\ p \in [Runner -> Nat] /\ \A r \in Runner : p[r] = Promised(r, l)
      /\ InLane(l) \in SUBSET Job /\ Cardinality(InLane(l)) \in Nat /\ IsFiniteSet(InLane(l))
  BY LaneTypes
<1>2. q \in [Runner -> Nat] /\ \A r \in Runner : q[r] = Promised(r, l)' /\ q[r] \in Nat
  BY LaneTypesNext
<1>3. Cardinality(InLane(l)') <= Cardinality(InLane(l)) /\ Cardinality(InLane(l)') \in Nat
  BY <1>1, FS_Subset, FS_CardinalityType
<1>4. \A r \in Runner : Promised(r, l)' <= s
  <2>1. ASSUME NEW r \in Runner PROVE Promised(r, l)' <= s
    <3>1. Promised(r, l) \in Nat /\ Promised(r, l)' \in Nat /\ Promised(r, l) <= s
      BY <1>1, <1>2 DEF LaneCount
    <3> QED
      BY <1>1, <3>1
  <2> QED
    BY <2>1
<1> HIDE DEF p, q, s
<1>5. Cardinality(Pairs(q, s)) <= Cardinality(Pairs(p, s))
  BY <1>1, <1>2, FewerPairs
<1>6. Cardinality(Pairs(q, s)) \in Nat /\ Cardinality(Pairs(p, s)) \in Nat /\ Cardinality(Runner) \in Nat
  BY <1>1, PairsFinite
<1>7. s * Cardinality(Runner) \in Nat
  <2>1. \A a, b \in Nat : a * b \in Nat
    OBVIOUS
  <2> QED
    BY <1>1, <1>6, <2>1
<1>8. Cardinality(InLane(l)) + Cardinality(Pairs(p, s)) <= s * Cardinality(Runner)
  BY DEF LaneCount, p, s
<1>9. Cardinality(InLane(l)') + Cardinality(Pairs(q, s)) <= s * Cardinality(Runner)
  BY <1>1, <1>3, <1>5, <1>6, <1>7, <1>8
<1> QED
  BY <1>4, <1>9 DEF LaneCount, q, s

\* One runner counts: its promises and the rows that run fill the lane, the others have promised
\* themselves one lane each.
LEMMA LaneCounted ==
    ASSUME TypeOK, TypeOK', NEW l \in SharedLanes, LaneCount(l), InLane(l)' = InLane(l), NEW r \in Runner,
           Promised(r, l)' + Cardinality(InLane(l)) = Slots[l],
           \A q \in Runner \ {r} : Promised(q, l)' <= Promised(q, l)
    PROVE  LaneCount(l)'
<1> DEFINE s == Slots[l]
           p == Promises(l)'
           used == Cardinality(InLane(l))
<1>1. s \in Nat /\ used \in Nat /\ \A q \in Runner : Promised(q, l) \in Nat
  BY LaneTypes
<1>2. p \in [Runner -> Nat] /\ \A q \in Runner : p[q] = Promised(q, l)' /\ p[q] \in Nat
  BY LaneTypesNext
<1>3. p[r] + used = s
  BY <1>2
<1> HIDE DEF p, used
<1>4. p[r] <= s
  BY <1>1, <1>2, <1>3
<1>5. \A q \in Runner : Promised(q, l)' <= s
  <2>1. ASSUME NEW q \in Runner, q # r PROVE Promised(q, l)' <= s
    <3>1. Promised(q, l)' \in Nat /\ Promised(q, l)' <= Promised(q, l) /\ Promised(q, l) <= s
      BY <1>2, <2>1 DEF LaneCount
    <3> QED
      BY <1>1, <3>1
  <2> QED
    BY <1>2, <1>4, <2>1
<1> HIDE DEF s
<1>6. Cardinality(Pairs(p, s)) + s <= p[r] + s * Cardinality(Runner)
  BY <1>1, <1>2, <1>4, OneRound
<1>7. Cardinality(Pairs(p, s)) \in Nat /\ Cardinality(Runner) \in Nat
  BY <1>1, PairsFinite
<1>8. s * Cardinality(Runner) \in Nat
  <2>1. \A a, b \in Nat : a * b \in Nat
    OBVIOUS
  <2> QED
    BY <1>1, <1>7, <2>1
<1>9. used + Cardinality(Pairs(p, s)) <= s * Cardinality(Runner)
  BY <1>1, <1>2, <1>3, <1>6, <1>7, <1>8
<1> QED
  BY <1>5, <1>9 DEF LaneCount, p, s, used

\* One runner claims a job: a promise becomes a running row.
LEMMA LaneClaimed ==
    ASSUME TypeOK, TypeOK', NEW l \in SharedLanes, LaneCount(l), NEW r \in Runner, NEW j \in Job,
           InLane(l)' \subseteq InLane(l) \cup {j},
           Promised(r, l)' < Promised(r, l),
           \A q \in Runner \ {r} : Promised(q, l)' <= Promised(q, l)
    PROVE  LaneCount(l)'
<1> DEFINE s == Slots[l]
           p == Promises(l)
           q == Promises(l)'
<1>1. /\ s \in Nat /\ p \in [Runner -> Nat] /\ \A c \in Runner : p[c] = Promised(c, l) /\ p[c] \in Nat
      /\ Cardinality(InLane(l)) \in Nat /\ IsFiniteSet(InLane(l))
  BY LaneTypes
<1>2. /\ q \in [Runner -> Nat] /\ \A c \in Runner : q[c] = Promised(c, l)' /\ q[c] \in Nat
      /\ Cardinality(InLane(l)') \in Nat
  BY LaneTypesNext
<1> HIDE DEF p, q
<1>3. q[r] < p[r] /\ \A c \in Runner \ {r} : q[c] <= p[c]
  BY <1>1, <1>2
<1>4. \A c \in Runner : p[c] <= s
  BY <1>1 DEF LaneCount
<1>5. \A c \in Runner : Promised(c, l)' <= s
  <2>1. ASSUME NEW c \in Runner PROVE q[c] <= s
    <3>1. p[c] \in Nat /\ q[c] \in Nat /\ p[c] <= s /\ (q[c] <= p[c] \/ q[c] < p[c])
      BY <1>1, <1>2, <1>3, <1>4
    <3> QED
      BY <1>1, <3>1
  <2> QED
    BY <1>2, <2>1
<1> HIDE DEF s
<1>6. p[r] # 0
  BY <1>1, <1>2, <1>3
<1>7. Cardinality(Pairs(q, s)) + 1 <= Cardinality(Pairs(p, s))
  BY <1>1, <1>2, <1>3, <1>4, <1>6, OnePairLess
<1>8. Cardinality(InLane(l)') <= Cardinality(InLane(l)) + 1
  <2>1. /\ IsFiniteSet(InLane(l) \cup {j})
        /\ Cardinality(InLane(l) \cup {j}) =
              IF j \in InLane(l) THEN Cardinality(InLane(l)) ELSE Cardinality(InLane(l)) + 1
    BY <1>1, FS_AddElement
  <2>2. Cardinality(InLane(l)') <= Cardinality(InLane(l) \cup {j})
    BY <2>1, FS_Subset
  <2> QED
    BY <1>1, <1>2, <2>1, <2>2
<1>9. Cardinality(Pairs(q, s)) \in Nat /\ Cardinality(Pairs(p, s)) \in Nat /\ Cardinality(Runner) \in Nat
  BY <1>1, PairsFinite
<1>10. s * Cardinality(Runner) \in Nat
  <2>1. \A a, b \in Nat : a * b \in Nat
    OBVIOUS
  <2> QED
    BY <1>1, <1>9, <2>1
<1>11. Cardinality(InLane(l)) + Cardinality(Pairs(p, s)) <= s * Cardinality(Runner)
  BY DEF LaneCount, p, s
<1>12. Cardinality(InLane(l)') + Cardinality(Pairs(q, s)) <= s * Cardinality(Runner)
  BY <1>1, <1>2, <1>7, <1>8, <1>9, <1>10, <1>11
<1> QED
  BY <1>5, <1>12 DEF LaneCount, q, s

\* A loop step leaves the promises of the other runners alone.
LEMMA OtherPromises ==
    ASSUME TypeOK, NEW r \in Runner,
           LoopMove(r) \/ Shutdown(r) \/ LoopFails(r) \/ Crash(r) \/ Restart(r), NEW q \in Runner, q # r
    PROVE  /\ \A l : Promised(q, l)' = Promised(q, l)
           /\ lpc'[q] = lpc[q] /\ cand'[q] = cand[q] /\ LaneName(q)' = LaneName(q)
<1>0. /\ lpc \in [Runner -> LoopStep] /\ lane \in [Runner -> DOMAIN Lanes]
      /\ free \in [Runner -> Nat] /\ cand \in [Runner -> SUBSET Job]
  BY DEF TypeOK
<1>1. \/ lpc' = lpc \/ \E x : lpc' = [lpc EXCEPT ![r] = x]
  BY DEF LoopMove, ReapSelect, LoopRequeue, LoopGiveUp, LoopHook, Settled, CountLane, SelectLane, ClaimNext,
         LaneFilled, LeaveLane, LoopTo, EndGrace, CollectOwn, Shutdown, LoopFails, Crash, Restart
<1>2. \/ lane' = lane \/ \E x : lane' = [lane EXCEPT ![r] = x]
  BY DEF LoopMove, ReapSelect, LoopRequeue, LoopGiveUp, LoopHook, Settled, CountLane, SelectLane, ClaimNext,
         LaneFilled, LeaveLane, EndGrace, CollectOwn, Shutdown, LoopFails, Crash, Restart
<1>3. \/ free' = free \/ \E x : free' = [free EXCEPT ![r] = x]
  BY DEF LoopMove, ReapSelect, LoopRequeue, LoopGiveUp, LoopHook, Settled, CountLane, SelectLane, ClaimNext,
         LaneFilled, EndGrace, CollectOwn, Shutdown, LoopFails, Crash, Restart
<1>4. \/ cand' = cand \/ \E x : cand' = [cand EXCEPT ![r] = x]
  BY DEF LoopMove, ReapSelect, LoopRequeue, LoopGiveUp, LoopHook, Settled, CountLane, SelectLane, ClaimNext,
         LaneFilled, EndGrace, CollectOwn, Shutdown, LoopFails, Crash, Restart
<1>5. lpc'[q] = lpc[q]
  BY <1>0, <1>1
<1>6. lane'[q] = lane[q]
  BY <1>0, <1>2
<1>7. free'[q] = free[q]
  BY <1>0, <1>3
<1>8. cand'[q] = cand[q]
  BY <1>0, <1>4
<1> QED
  BY <1>5, <1>6, <1>7, <1>8 DEF Promised, LaneName

\* Only counting, choosing and claiming leave the runner in a lane.
LEMMA OutOfLane ==
    ASSUME TypeOK, NEW r \in Runner,
           LoopMove(r) \/ Shutdown(r) \/ LoopFails(r) \/ Crash(r) \/ Restart(r),
           ~ CountLane(r), ~ SelectLane(r), ~ ClaimNext(r)
    PROVE  lpc'[r] \notin {"select", "claim"}
<1>0. lpc \in [Runner -> LoopStep]
  BY DEF TypeOK
<1>1. CASE LoopRequeue(r)
  <2>1. lpc[r] = "settle" /\ (lpc' = lpc \/ lpc' = [lpc EXCEPT ![r] = "giveup"])
    BY <1>1 DEF LoopRequeue, LoopTo
  <2> QED
    BY <1>0, <2>1
<1>2. CASE LoopGiveUp(r)
  <2>1. \E x \in {"hook", "settle"} : lpc' = [lpc EXCEPT ![r] = x]
    BY <1>2 DEF LoopGiveUp, LoopTo
  <2> QED
    BY <1>0, <2>1
<1>3. CASE LaneFilled(r)
  <2>1. \E x \in {"count", "idle"} : lpc' = [lpc EXCEPT ![r] = x]
    BY <1>3 DEF LaneFilled, LeaveLane, LoopTo
  <2> QED
    BY <1>0, <2>1
<1>4. CASE ~ LoopRequeue(r) /\ ~ LoopGiveUp(r) /\ ~ LaneFilled(r)
  <2>1. \E x \in {"settle", "down", "count", "collect", "grace", "idle"} : lpc' = [lpc EXCEPT ![r] = x]
    BY <1>4 DEF LoopMove, ReapSelect, LoopHook, Settled, LoopTo, EndGrace, CollectOwn, Shutdown, LoopFails, Crash, Restart
  <2> QED
    BY <1>0, <2>1
<1> QED
  BY <1>1, <1>2, <1>3, <1>4

\* A claim takes the lowest of the chosen jobs.
LEMMA ClaimTakesFirst ==
    ASSUME TypeOK, NEW r \in Runner, ClaimNext(r)
    PROVE  /\ First(cand[r]) \in cand[r] /\ cand[r] \in SUBSET Job
           /\ cand'[r] = cand[r] \ {First(cand[r])}
           /\ lpc[r] = "claim" /\ lpc' = lpc /\ lane' = lane /\ free' = free
<1>1. cand \in [Runner -> SUBSET Job]
  BY DEF TypeOK
<1>2. cand[r] \in SUBSET Job /\ cand[r] # {}
  BY <1>1 DEF ClaimNext
<1>3. First(cand[r]) \in cand[r]
  BY <1>2, FirstIs
<1>4. cand'[r] = cand[r] \ {First(cand[r])}
  BY <1>1 DEF ClaimNext
<1> QED
  BY <1>2, <1>3, <1>4 DEF ClaimNext

LEMMA NoNewRun ==
    ASSUME TypeOK, [Next]_vars, \A r \in Runner : ~ ClaimNext(r), NEW l
    PROVE  /\ InLane(l)' \subseteq InLane(l)
           /\ \A r \in Runner : RowsOf(l, r)' \subseteq RowsOf(l, r)
<1>1. ASSUME NEW j \in Job, row'[j].status = "running" PROVE row[j].status = "running"
  BY <1>1, OnlyClaims
<1>2. InLane(l)' \subseteq InLane(l)
  BY <1>1 DEF InLane
<1>3. ASSUME NEW r \in Runner PROVE RowsOf(l, r)' \subseteq RowsOf(l, r)
  BY <1>1, KeepsWorker DEF RowsOf, InLane
<1> QED
  BY <1>2, <1>3

\* Whoever else moves: a runner that did not move counts as it did.
LEMMA StepOutOfLane ==
    ASSUME TypeOK, TypeOK', LaneInv, [Next]_vars, \A r \in Runner : ~ ClaimNext(r),
           \A r \in Runner : \/ lpc'[r] \notin {"select", "claim"}
                             \/ /\ \A l : Promised(r, l)' = Promised(r, l)
                                /\ lpc'[r] = lpc[r] /\ cand'[r] = cand[r] /\ LaneName(r)' = LaneName(r)
    PROVE  LaneInv'
<1>1. ASSUME NEW r \in Runner, lpc'[r] = "claim", NEW j \in cand'[r]
      PROVE  LaneOf[j] = LaneName(r)'
  BY <1>1 DEF LaneInv
<1>2. ASSUME NEW l \in SharedLanes PROVE LaneCount(l)' /\ OwnCount(l)'
  <2>1. InLane(l)' \subseteq InLane(l) /\ \A r \in Runner : RowsOf(l, r)' \subseteq RowsOf(l, r)
    BY NoNewRun
  <2>2. ASSUME NEW r \in Runner PROVE Promised(r, l)' <= Promised(r, l)
    <3>1. Promised(r, l) \in Nat
      BY LaneTypes
    <3>2. CASE lpc'[r] \notin {"select", "claim"}
      <4>1. Promised(r, l)' = 0
        BY <3>2 DEF Promised
      <4> QED
        BY <3>1, <4>1
    <3>3. CASE Promised(r, l)' = Promised(r, l)
      BY <3>1, <3>3
    <3> QED
      BY <3>2, <3>3
  <2>3. LaneCount(l) /\ OwnCount(l)
    BY DEF LaneInv
  <2>4. LaneCount(l)'
    BY <1>2, <2>1, <2>2, <2>3, LaneKept
  <2>5. OwnCount(l)'
    BY <1>2, <2>1, <2>2, <2>3, OwnKept
  <2> QED
    BY <2>4, <2>5
<1> QED
  BY <1>1, <1>2 DEF LaneInv

LEMMA StepCount ==
    ASSUME TypeOK, TypeOK', LaneInv, NEW r \in Runner, CountLane(r)
    PROVE  LaneInv'
<1>0. /\ lpc \in [Runner -> LoopStep] /\ lane \in [Runner -> DOMAIN Lanes] /\ free \in [Runner -> Nat]
  BY DEF TypeOK
<1>1. \A q \in Runner \ {r} : /\ \A l : Promised(q, l)' = Promised(q, l)
                              /\ lpc'[q] = lpc[q] /\ cand'[q] = cand[q] /\ LaneName(q)' = LaneName(q)
  BY OtherPromises DEF LoopMove
<1>2. lpc'[r] # "claim"
  BY <1>0 DEF CountLane, LeaveLane, LoopTo
<1>3. ASSUME NEW q \in Runner, lpc'[q] = "claim", NEW j \in cand'[q]
      PROVE  LaneOf[j] = LaneName(q)'
  BY <1>1, <1>2, <1>3 DEF LaneInv
<1>4. ASSUME NEW l \in SharedLanes PROVE LaneCount(l)' /\ OwnCount(l)'
  <2>1. /\ LaneCount(l) /\ OwnCount(l) /\ InLane(l)' = InLane(l)
        /\ \A q \in Runner : RowsOf(l, q)' = RowsOf(l, q)
    BY <1>4 DEF LaneInv, InLane, RowsOf, CountLane
  <2>2. \A q \in Runner \ {r} : Promised(q, l)' <= Promised(q, l)
    <3>1. \A q \in Runner : Promised(q, l) \in Nat
      BY LaneTypes
    <3> QED
      BY <1>1, <3>1
  <2>3. Slots[l] \in Nat /\ Cardinality(InLane(l)) \in Nat /\ l # DefaultLane
    BY LaneTypes DEF SharedLanes
  <2>4. CASE LaneName(r)' = l /\ lpc'[r] = "select"
    <3>1. /\ Occupied(r, LaneName(r)) < Slots[LaneName(r)]
          /\ free' = [free EXCEPT ![r] = Slots[LaneName(r)] - Occupied(r, LaneName(r))]
          /\ lane' = lane
      BY <1>0, <2>4 DEF CountLane, LeaveLane, LoopTo
    <3>2. LaneName(r) = l
      BY <2>4, <3>1 DEF LaneName
    <3>3. Occupied(r, l) = Cardinality(InLane(l))
      BY <2>3 DEF Occupied, InLane
    <3>4. Promised(r, l)' = free'[r]
      BY <2>4 DEF Promised
    <3>5. free'[r] = Slots[l] - Cardinality(InLane(l))
      BY <1>0, <3>1, <3>2, <3>3
    <3>6. Promised(r, l)' + Cardinality(InLane(l)) = Slots[l]
      BY <2>3, <3>4, <3>5
    <3>7. LaneCount(l)'
      BY <1>4, <2>1, <2>2, <3>6, LaneCounted
    <3>8. OwnCount(l)'
      BY <1>4, <2>1, <2>2, <3>6, OwnCounted
    <3> QED
      BY <3>7, <3>8
  <2>5. CASE ~ (LaneName(r)' = l /\ lpc'[r] = "select")
    <3>1. Promised(r, l)' = 0 /\ Promised(r, l) \in Nat
      BY <1>2, <2>5, LaneTypes DEF Promised
    <3>2. \A q \in Runner : Promised(q, l)' <= Promised(q, l)
      BY <2>2, <3>1
    <3>3. LaneCount(l)'
      BY <1>4, <2>1, <3>2, LaneKept
    <3>4. OwnCount(l)'
      BY <1>4, <2>1, <3>2, OwnKept
    <3> QED
      BY <3>3, <3>4
  <2> QED
    BY <2>4, <2>5
<1> QED
  BY <1>3, <1>4 DEF LaneInv

LEMMA StepSelect ==
    ASSUME TypeOK, TypeOK', LaneInv, NEW r \in Runner, SelectLane(r)
    PROVE  LaneInv'
<1>0. /\ lpc \in [Runner -> LoopStep] /\ cand \in [Runner -> SUBSET Job] /\ free[r] \in Nat
  BY DEF TypeOK
<1>1. \A q \in Runner \ {r} : /\ \A l : Promised(q, l)' = Promised(q, l)
                              /\ lpc'[q] = lpc[q] /\ cand'[q] = cand[q] /\ LaneName(q)' = LaneName(q)
  BY OtherPromises DEF LoopMove
<1>2. /\ lpc[r] = "select" /\ lpc'[r] = "claim" /\ LaneName(r)' = LaneName(r)
      /\ LET S == Claimable(LaneName(r))
         IN  cand'[r] = {j \in S : Cardinality({i \in S : i < j}) < free[r]}
  BY <1>0 DEF SelectLane, LoopTo, LaneName
<1>3. Cardinality(cand'[r]) <= free[r] /\ Cardinality(cand'[r]) \in Nat /\ cand'[r] \subseteq Claimable(LaneName(r))
  <2>1. Claimable(LaneName(r)) \in SUBSET Job
    BY DEF Claimable
  <2>2. cand'[r] \in SUBSET Job /\ cand'[r] \subseteq Claimable(LaneName(r))
    BY <1>2, <2>1
  <2>3. Cardinality(cand'[r]) <= free[r]
    BY <1>0, <1>2, <2>1, LimitHolds
  <2> QED
    BY <2>2, <2>3, LaneTypes
<1>4. ASSUME NEW q \in Runner, lpc'[q] = "claim", NEW j \in cand'[q]
      PROVE  LaneOf[j] = LaneName(q)'
  BY <1>1, <1>2, <1>3, <1>4 DEF LaneInv, Claimable
<1>5. ASSUME NEW l \in SharedLanes PROVE LaneCount(l)' /\ OwnCount(l)'
  <2>1. /\ LaneCount(l) /\ OwnCount(l) /\ InLane(l)' \subseteq InLane(l)
        /\ \A q \in Runner : RowsOf(l, q)' \subseteq RowsOf(l, q)
    BY <1>5 DEF LaneInv, InLane, RowsOf, SelectLane
  <2>2. ASSUME NEW q \in Runner PROVE Promised(q, l)' <= Promised(q, l)
    <3>1. Promised(q, l) \in Nat
      BY LaneTypes
    <3>2. CASE q # r
      BY <1>1, <3>1, <3>2
    <3>3. CASE q = r /\ LaneName(r) # l
      BY <1>2, <3>1, <3>3 DEF Promised
    <3>4. CASE q = r /\ LaneName(r) = l
      BY <1>0, <1>2, <1>3, <3>4 DEF Promised
    <3> QED
      BY <3>2, <3>3, <3>4
  <2>3. LaneCount(l)'
    BY <1>5, <2>1, <2>2, LaneKept
  <2>4. OwnCount(l)'
    BY <1>5, <2>1, <2>2, OwnKept
  <2> QED
    BY <2>3, <2>4
<1> QED
  BY <1>4, <1>5 DEF LaneInv

LEMMA StepClaim ==
    ASSUME TypeOK, TypeOK', LaneInv, NEW r \in Runner, ClaimNext(r)
    PROVE  LaneInv'
<1> DEFINE j == First(cand[r])
<1>1. \A q \in Runner \ {r} : /\ \A l : Promised(q, l)' = Promised(q, l)
                              /\ lpc'[q] = lpc[q] /\ cand'[q] = cand[q] /\ LaneName(q)' = LaneName(q)
  BY OtherPromises DEF LoopMove
<1>2. /\ j \in cand[r] /\ j \in Job /\ cand[r] \in SUBSET Job
      /\ cand'[r] = cand[r] \ {j}
      /\ lpc[r] = "claim" /\ lpc'[r] = "claim" /\ LaneName(r)' = LaneName(r)
  BY ClaimTakesFirst DEF LaneName
<1>3. LaneOf[j] = LaneName(r)
  BY <1>2 DEF LaneInv
<1>4. /\ \A i \in Job \ {j} : row'[i] = row[i]
      /\ row'[j] = row[j] \/ row'[j].worker = r
  <2>1. row \in [Job -> RowType] /\ row[j] \in RowType
    BY <1>2 DEF TypeOK
  <2>2. Claimed(row[j], r).worker = r
    BY <2>1, ClaimedRow
  <2>3. row' = row \/ row' = [row EXCEPT ![j] = Claimed(row[j], r)]
    BY DEF ClaimNext
  <2> HIDE DEF j
  <2>4. CASE row' = row
    BY <2>4
  <2>5. CASE row' = [row EXCEPT ![j] = Claimed(row[j], r)]
    BY <1>2, <2>1, <2>2, <2>5
  <2> QED
    BY <2>3, <2>4, <2>5
<1> HIDE DEF j
<1>5. ASSUME NEW q \in Runner, lpc'[q] = "claim", NEW i \in cand'[q]
      PROVE  LaneOf[i] = LaneName(q)'
  BY <1>1, <1>2, <1>5 DEF LaneInv
<1>6. IsFiniteSet(cand[r]) /\ Cardinality(cand[r]) \in Nat
  BY <1>2, LaneTypes
<1>7. Cardinality(cand'[r]) = Cardinality(cand[r]) - 1
  <2>1. j \in cand[r] /\ IsFiniteSet(cand[r]) /\ cand'[r] = cand[r] \ {j}
    BY <1>2, <1>6
  <2>2. Cardinality(cand[r] \ {j}) = Cardinality(cand[r]) - 1
    BY <2>1, FS_RemoveElement
  <2> QED
    BY <2>1, <2>2
<1>8. ASSUME NEW l \in SharedLanes PROVE LaneCount(l)' /\ OwnCount(l)'
  <2>0. LaneCount(l) /\ OwnCount(l) /\ \A q \in Runner : Promised(q, l) \in Nat
    <3>1. LaneCount(l) /\ OwnCount(l)
      BY DEF LaneInv
    <3>2. \A q \in Runner : Promised(q, l) \in Nat
      BY LaneTypes
    <3> QED
      BY <3>1, <3>2
  <2>4. \A q \in Runner \ {r} : RowsOf(l, q)' \subseteq RowsOf(l, q)
    BY <1>2, <1>4 DEF RowsOf, InLane
  <2>1. \A q \in Runner \ {r} : Promised(q, l)' <= Promised(q, l)
    BY <1>1, <2>0
  <2>2. CASE LaneName(r) = l
    <3>1. Promised(r, l)' < Promised(r, l)
      BY <1>2, <1>6, <1>7, <2>2 DEF Promised
    <3>2. InLane(l)' \subseteq InLane(l) \cup {j}
      BY <1>4 DEF InLane
    <3>3. RowsOf(l, r)' \subseteq RowsOf(l, r) \cup {j}
      BY <1>4 DEF RowsOf, InLane
    <3>4. LaneCount(l)'
      BY <1>2, <1>8, <2>0, <2>1, <3>1, <3>2, LaneClaimed
    <3>5. OwnCount(l)'
      BY <1>2, <1>8, <2>0, <2>1, <2>4, <3>1, <3>3, OwnClaimed
    <3> QED
      BY <3>4, <3>5
  <2>3. CASE LaneName(r) # l
    <3>1. Promised(r, l)' = 0
      BY <1>2, <2>3 DEF Promised
    <3>2. \A q \in Runner : Promised(q, l)' <= Promised(q, l)
      BY <2>0, <2>1, <3>1
    <3>3. InLane(l)' \subseteq InLane(l)
      BY <1>3, <1>4, <2>3 DEF InLane
    <3>4. \A q \in Runner : RowsOf(l, q)' \subseteq RowsOf(l, q)
      BY <1>3, <1>4, <2>3 DEF RowsOf, InLane
    <3>5. LaneCount(l)'
      BY <1>8, <2>0, <3>2, <3>3, LaneKept
    <3>6. OwnCount(l)'
      BY <1>8, <2>0, <3>2, <3>4, OwnKept
    <3> QED
      BY <3>5, <3>6
  <2> QED
    BY <2>2, <2>3
<1> QED
  BY <1>5, <1>8 DEF LaneInv

LEMMA LaneStep ==
    ASSUME TypeOK, LaneInv, [Next]_vars
    PROVE  LaneInv'
<1>0. TypeOK'
  BY TypeKept
<1>1. CASE UNCHANGED <<lpc, lane, free, cand>>
  <2>1. ASSUME NEW r \in Runner PROVE ~ ClaimNext(r)
    BY <1>1, ClaimTakesFirst
  <2>2. ASSUME NEW r \in Runner
        PROVE  /\ \A l : Promised(r, l)' = Promised(r, l)
               /\ lpc'[r] = lpc[r] /\ cand'[r] = cand[r] /\ LaneName(r)' = LaneName(r)
    BY <1>1 DEF Promised, LaneName
  <2> QED
    BY <1>0, <2>1, <2>2, StepOutOfLane
<1>2. ASSUME NEW r \in Runner, LoopMove(r) \/ Shutdown(r) \/ LoopFails(r) \/ Crash(r) \/ Restart(r)
      PROVE  LaneInv'
  <2>1. CASE CountLane(r)
    BY <1>0, <2>1, StepCount
  <2>2. CASE SelectLane(r)
    BY <1>0, <2>2, StepSelect
  <2>3. CASE ClaimNext(r)
    BY <1>0, <2>3, StepClaim
  <2>4. CASE ~ CountLane(r) /\ ~ SelectLane(r) /\ ~ ClaimNext(r)
    <3>1. lpc'[r] \notin {"select", "claim"}
      BY <1>2, <2>4, OutOfLane
    <3>2. ASSUME NEW q \in Runner, q # r
          PROVE  /\ \A l : Promised(q, l)' = Promised(q, l)
                 /\ lpc'[q] = lpc[q] /\ cand'[q] = cand[q] /\ LaneName(q)' = LaneName(q)
      BY <1>2, <3>2, OtherPromises
    <3>3. ASSUME NEW q \in Runner PROVE ~ ClaimNext(q)
      BY <2>4, <3>2, ClaimTakesFirst
    <3> QED
      BY <1>0, <3>1, <3>2, <3>3, StepOutOfLane
  <2> QED
    BY <2>1, <2>2, <2>3, <2>4
<1>3. CASE UNCHANGED vars
  BY <1>1, <1>3 DEF vars, loop
<1>4. CASE \E j \in Job : Person(j) \/ GoStale(j) \/ ComesDue(j)
  <2>1. UNCHANGED loop
    BY <1>4 DEF Person, Enqueue, CancelRead, CancelQueued, CancelRunning, GoStale, ComesDue
  <2> QED
    BY <1>1, <2>1 DEF loop
<1>5. CASE \E r \in Runner, j \in Job : TaskMove(r, j) \/ HandlerMove(r, j) \/ WriteFails(r, j)
  <2>0. PICK r \in Runner, j \in Job : TaskMove(r, j) \/ HandlerMove(r, j) \/ WriteFails(r, j)
    BY <1>5
  <2>1. UNCHANGED loop
    <3>1. CASE TaskMove(r, j)
      BY <3>1 DEF TaskMove, HandlerTimeout, Finalize, RequeueForRetry, TimeoutRead, TaskRequeue, TaskGiveUp, TaskHook
    <3>2. CASE HandlerMove(r, j)
      BY <3>2 DEF HandlerMove, Heartbeat, Progress, Checkpoint, Act, HandlerEnds
    <3>3. CASE WriteFails(r, j)
      BY <3>3 DEF WriteFails
    <3> QED
      BY <2>0, <3>1, <3>2, <3>3
  <2> QED
    BY <1>1, <2>1 DEF loop
<1> QED
  BY <1>2, <1>3, <1>4, <1>5 DEF Next

LEMMA LaneInit ==
    ASSUME Init
    PROVE  LaneInv
<1>1. TypeOK
  BY TypeInit
<1>2. \A r \in Runner : lpc[r] = "idle"
  BY DEF Init
<1>3. ASSUME NEW l \in SharedLanes PROVE LaneCount(l) /\ OwnCount(l)
  <2>1. InLane(l) = {} /\ \A r \in Runner : RowsOf(l, r) = {}
    BY DEF InLane, RowsOf, Init, AbsentRow
  <2>2. \A r \in Runner : Promised(r, l) = 0
    BY <1>2 DEF Promised
  <2>3. Slots[l] \in Nat
    BY <1>1, <1>3, LaneTypes
  <2>4. Pairs(Promises(l), Slots[l]) = {}
    <3>1. ASSUME NEW x \in Pairs(Promises(l), Slots[l]) PROVE FALSE
      <4>1. x \in Runner \X (1..Slots[l]) /\ x[2] <= Promises(l)[x[1]]
        BY DEF Pairs
      <4>2. x[1] \in Runner /\ x[2] \in 1..Slots[l]
        BY <4>1
      <4>3. Promises(l)[x[1]] = 0
        BY <2>2, <4>2 DEF Promises
      <4> QED
        BY <2>3, <4>1, <4>2, <4>3
    <3> QED
      BY <3>1
  <2>5. IsFiniteSet({}) /\ Cardinality({}) = 0
    BY FS_EmptySet
  <2>6. Slots[l] * Cardinality(Runner) \in Nat
    <3>1. \A a, b \in Nat : a * b \in Nat
      OBVIOUS
    <3> QED
      BY <2>3, <3>1, PairsFinite
  <2>7. LaneCount(l)
    BY <2>1, <2>2, <2>3, <2>4, <2>5, <2>6 DEF LaneCount
  <2>8. OwnCount(l)
    BY <2>1, <2>2, <2>3, <2>5 DEF OwnCount
  <2> QED
    BY <2>7, <2>8
<1> QED
  BY <1>2, <1>3 DEF LaneInv

LEMMA LaneBounds ==
    ASSUME TypeOK, LaneInv
    PROVE  LaneOverlapBounded
<1>1. ASSUME NEW l \in SharedLanes
      PROVE  /\ \A r \in Runner : Cardinality(RowsOf(l, r)) <= Slots[l]
             /\ Cardinality(InLane(l)) <= Slots[l] * Cardinality(Runner)
  <2>0. ASSUME NEW r \in Runner PROVE Cardinality(RowsOf(l, r)) <= Slots[l]
    <3>1. Slots[l] \in Nat /\ Promised(r, l) \in Nat /\ Cardinality(RowsOf(l, r)) \in Nat
      BY LaneTypes, RowsTypes
    <3>2. Cardinality(RowsOf(l, r)) + Promised(r, l) <= Slots[l]
      BY DEF LaneInv, OwnCount
    <3> QED
      BY <3>1, <3>2
  <2>1. Slots[l] \in Nat /\ Cardinality(InLane(l)) \in Nat
    BY LaneTypes
  <2>2. Cardinality(Pairs(Promises(l), Slots[l])) \in Nat /\ Cardinality(Runner) \in Nat
    BY <2>1, PairsFinite
  <2>3. Slots[l] * Cardinality(Runner) \in Nat
    <3>1. \A a, b \in Nat : a * b \in Nat
      OBVIOUS
    <3> QED
      BY <2>1, <2>2, <3>1
  <2>4. Cardinality(InLane(l)) + Cardinality(Pairs(Promises(l), Slots[l])) <= Slots[l] * Cardinality(Runner)
    BY DEF LaneInv, LaneCount
  <2> QED
    BY <2>0, <2>1, <2>2, <2>3, <2>4
<1> QED
  BY <1>1 DEF LaneOverlapBounded, SharedLanes

\* LaneOverlapBounded for any number of workers, lanes and slots: each worker counts the running rows
\* of a lane, chooses as many queued ones as it found slots free and claims them one by one
\* (run_once, _start_lane and _claim in jobs/runner.py), while the others do the same between any two of
\* its steps, crash, restart and lose queries.
THEOREM LanesOverlapOnce == Spec => []LaneOverlapBounded
<1>1. Init => TypeOK /\ LaneInv
  BY TypeInit, LaneInit
<1>2. TypeOK /\ LaneInv /\ [Next]_vars => (TypeOK /\ LaneInv)'
  BY TypeKept, LaneStep
<1>3. TypeOK /\ LaneInv => LaneOverlapBounded
  BY LaneBounds
<1> QED
  BY <1>1, <1>2, <1>3, PTL DEF Spec

-----------------------------------------------------------------------------
(* The lifecycle of a job, as its creator sees it.                          *)
(*                                                                          *)
(* What a job looks like is a matter of its row, its request and two        *)
(* counters alone, so that each move of the job (JobMove) is one move of    *)
(* the lifecycle, or none.  That an accepted cancel is seen by whoever      *)
(* hands the row back is the one fact the invariants above do not say.      *)

\* The request that was accepted is on the row, or ended the job.
HeardInv == \A j \in Job : req[j] = "accepted" => row[j].cancel \/ row[j].status = "cancelled"

\* How the creator sees a job.
View(j) ==
    [status |-> row[j].status, starts |-> row[j].attempts,
     cancel |-> IF req[j] = "accepted" THEN "accepted" ELSE "none",
     acts |-> fired[j], told |-> hooks[j]]

\* An accepted request stays on the row.
LEMMA HeardStep ==
    ASSUME TypeOK, HeardInv, NEW j \in Job, JobMove(j), req'[j] = "accepted"
    PROVE  row'[j].cancel \/ row'[j].status = "cancelled"
<1>1. row[j].cancel \in BOOLEAN
  BY JobTypes
<1>2. req[j] = "accepted" => row[j].cancel \/ row[j].status = "cancelled"
  BY DEF HeardInv
<1>3. CASE ByPeople(j) \/ Idle(j)
  BY <1>1, <1>2, <1>3 DEF ByPeople, Idle, SameClaim, SameCount
<1>4. ASSUME NEW r \in Runner, ByLoop(r, j)
      PROVE  row'[j].cancel \/ row'[j].status = "cancelled"
  <2>1. req'[j] = req[j] /\ row'[j].cancel = row[j].cancel
    BY <1>4 DEF ByLoop, SameClaim, SameCount, BackInQueue
  <2>2. row[j].status = "cancelled" => row'[j].status = "cancelled"
    BY <1>4 DEF ByLoop, SameClaim
  <2> QED
    BY <1>2, <2>1, <2>2
<1>5. ASSUME NEW r \in Runner, ByTask(r, j)
      PROVE  row'[j].cancel \/ row'[j].status = "cancelled"
  <2>1. req'[j] = req[j] /\ row'[j].cancel = row[j].cancel
    BY <1>5 DEF ByTask, SameClaim, SameCount, BackInQueue
  <2>2. row[j].status = "cancelled" => row'[j].status = "cancelled"
    BY <1>5 DEF ByTask, SameClaim, OwnClaim
  <2> QED
    BY <1>2, <2>1, <2>2
<1> QED
  BY <1>3, <1>4, <1>5 DEF JobMove

\* No request is heard before there is one, and none is forgotten.
THEOREM CancelIsHeard == Spec => []HeardInv
<1>1. Init => HeardInv
  BY DEF Init, HeardInv
<1>2. TypeOK /\ HeardInv /\ [Next]_vars => HeardInv'
  <2> SUFFICES ASSUME TypeOK, HeardInv, [Next]_vars, NEW j \in Job, req'[j] = "accepted"
               PROVE  row'[j].cancel \/ row'[j].status = "cancelled"
    BY DEF HeardInv
  <2> QED
    BY EveryStep, HeardStep
<1> QED
  BY TypeCorrect, <1>1, <1>2, PTL DEF Spec

\* What the invariants say of a job that can still move.
LEMMA JobFacts ==
    ASSUME IInv, HeardInv, NEW j \in Job
    PROVE  /\ row[j].attempts \in Nat /\ fired[j] \in Nat /\ hooks[j] \in Nat
           /\ row[j].checkpoint \in BOOLEAN /\ row[j].cancel \in BOOLEAN
           /\ row[j].status = "queued" => row[j].attempts < MaxAttempts[j] /\ req[j] # "accepted"
           /\ row[j].cancel => req[j] = "accepted"
           /\ row[j].status = "running" /\ req[j] = "accepted" => row[j].cancel
           /\ fired[j] <= 1
           /\ fired[j] >= 1 /\ row[j].status = "running" => row[j].checkpoint
<1>1. TypeOK /\ AttemptInv /\ ActInv /\ CancelInv
  BY DEF IInv
<1>2. /\ row[j].attempts \in Nat /\ fired[j] \in Nat /\ hooks[j] \in Nat
      /\ row[j].checkpoint \in BOOLEAN /\ row[j].cancel \in BOOLEAN
  BY <1>1, JobTypes
<1>3. row[j].status = "queued" => row[j].attempts < MaxAttempts[j]
  BY <1>1 DEF AttemptInv
<1>4. row[j].cancel => req[j] = "accepted" /\ row[j].status # "queued"
  BY <1>1 DEF CancelInv
<1>5. req[j] = "accepted" => row[j].cancel \/ row[j].status = "cancelled"
  BY DEF HeardInv
<1>6. /\ fired[j] <= 1
      /\ fired[j] >= 1 => row[j].status \in Terminal \/ (row[j].status = "running" /\ row[j].checkpoint)
  BY <1>1 DEF ActInv
<1> QED
  BY <1>2, <1>3, <1>4, <1>5, <1>6 DEF Terminal

\* What moves a row moves the job.
LEMMA ViewSame ==
    ASSUME NEW j \in Job, SameClaim(j), fired'[j] = fired[j], hooks'[j] = hooks[j],
           req'[j] = req[j] \/ "accepted" \notin {req[j], req'[j]}
    PROVE  View(j)' = View(j)
BY DEF View, SameClaim

\* Handed back: into the queue, or cancelled.
LEMMA ViewReturns ==
    ASSUME IInv, HeardInv, NEW j \in Job, row[j].status = "running", BackInQueue(j),
           fired'[j] = fired[j], hooks'[j] = hooks[j], req'[j] = req[j],
           fired[j] = 0, row[j].attempts < MaxAttempts[j]
    PROVE  Lifecycle!Move(View(j), View(j)', MaxAttempts[j])
<1>1. row[j].cancel \in BOOLEAN /\ (row[j].cancel <=> req[j] = "accepted")
  BY JobFacts
<1>2. CASE row[j].cancel
  <2>1. View(j)' = [View(j) EXCEPT !.status = "cancelled"]
    BY <1>2 DEF View, BackInQueue, SameCount
  <2>2. View(j).status = "running" /\ View(j).cancel = "accepted"
    BY <1>1, <1>2 DEF View
  <2>3. Lifecycle!Finish(View(j), View(j)')
    BY <2>1, <2>2 DEF Lifecycle!Finish, Lifecycle!Becomes, Lifecycle!Ended
  <2> QED
    BY <2>3 DEF Lifecycle!Move
<1>3. CASE ~ row[j].cancel
  <2>1. View(j)' = [View(j) EXCEPT !.status = "queued"]
    BY <1>3 DEF View, BackInQueue, SameCount
  <2>2. /\ View(j).status = "running" /\ View(j).cancel = "none"
        /\ View(j).acts = 0 /\ View(j).starts < MaxAttempts[j]
    BY <1>1, <1>3 DEF View
  <2>3. Lifecycle!Return(View(j), View(j)', MaxAttempts[j])
    BY <2>1, <2>2 DEF Lifecycle!Return, Lifecycle!Becomes
  <2> QED
    BY <2>3 DEF Lifecycle!Move
<1> QED
  BY <1>2, <1>3

\* Ended by its task, or given up.
LEMMA ViewEnds ==
    ASSUME IInv, HeardInv, NEW j \in Job, row[j].status = "running", SameCount(j),
           fired'[j] = fired[j], hooks'[j] = hooks[j], req'[j] = req[j],
           row'[j].status \in Terminal, row'[j].status = "cancelled" => row[j].cancel
    PROVE  Lifecycle!Move(View(j), View(j)', MaxAttempts[j])
<1>1. row[j].cancel => req[j] = "accepted"
  BY JobFacts
<1>2. View(j)' = [View(j) EXCEPT !.status = row'[j].status]
  BY DEF View, SameCount
<1>3. View(j).status = "running" /\ (row'[j].status = "cancelled" => View(j).cancel = "accepted")
  BY <1>1 DEF View
<1>4. Lifecycle!Finish(View(j), View(j)')
  BY <1>2, <1>3 DEF Lifecycle!Finish, Lifecycle!Becomes, Lifecycle!Ended, Terminal
<1> QED
  BY <1>4 DEF Lifecycle!Move

\* A failure is recorded.
LEMMA ViewTold ==
    ASSUME NEW j \in Job, SameClaim(j), row[j].status = "failed", hooks[j] = 0, hooks'[j] = hooks[j] + 1,
           fired'[j] = fired[j], req'[j] = req[j]
    PROVE  Lifecycle!Move(View(j), View(j)', MaxAttempts[j])
<1>1. View(j)' = [View(j) EXCEPT !.told = 1]
  BY DEF View, SameClaim
<1>2. View(j).status = "failed" /\ View(j).told = 0
  BY DEF View
<1>3. Lifecycle!Tell(View(j), View(j)')
  BY <1>1, <1>2 DEF Lifecycle!Tell
<1> QED
  BY <1>3 DEF Lifecycle!Move

\* People order and cancel.
LEMMA PeopleView ==
    ASSUME IInv, HeardInv, NEW j \in Job, ByPeople(j)
    PROVE  View(j)' = View(j) \/ Lifecycle!Move(View(j), View(j)', MaxAttempts[j])
<1>1. fired'[j] = fired[j] /\ hooks'[j] = hooks[j]
  BY DEF ByPeople
<1>2. CASE row[j].status = "absent" /\ row'[j].status = "queued" /\ SameCount(j) /\ req'[j] = req[j]
  <2>1. Lifecycle!Order(View(j), View(j)')
    BY <1>1, <1>2 DEF Lifecycle!Order, Lifecycle!Becomes, View, SameCount
  <2> QED
    BY <2>1 DEF Lifecycle!Move
<1>3. CASE row[j].status = "queued" /\ row'[j].status = "cancelled" /\ SameCount(j) /\ req'[j] = "accepted"
  <2> DEFINE x == [status |-> "queued", starts |-> row[j].attempts, cancel |-> "none",
                   acts |-> fired[j], told |-> hooks[j]]
             y == [status |-> "cancelled", starts |-> row[j].attempts, cancel |-> "accepted",
                   acts |-> fired[j], told |-> hooks[j]]
  <2>1. View(j) = x
    BY <1>3, JobFacts DEF View
  <2>2. View(j)' = y
    BY <1>1, <1>3 DEF View, SameCount
  <2>3. Lifecycle!CancelQueued(x, y)
    <3>1. Lifecycle!Heard(x) = [status |-> "queued", starts |-> row[j].attempts, cancel |-> "accepted",
                                acts |-> fired[j], told |-> hooks[j]]
      BY DEF Lifecycle!Heard
    <3>2. y = Lifecycle!Becomes(Lifecycle!Heard(x), "cancelled")
      BY <3>1 DEF Lifecycle!Becomes
    <3> QED
      BY <3>2 DEF Lifecycle!CancelQueued
  <2>4. Lifecycle!Move(x, y, MaxAttempts[j])
    BY <2>3 DEF Lifecycle!Move
  <2> HIDE DEF x, y
  <2> QED
    BY <2>1, <2>2, <2>4
<1>4. CASE /\ row[j].status = "running" /\ row'[j].status = "running"
           /\ row'[j].attempts = row[j].attempts /\ req'[j] = "accepted"
  <2>1. Lifecycle!CancelRunning(View(j), View(j)')
    BY <1>1, <1>4 DEF Lifecycle!CancelRunning, Lifecycle!Heard, View
  <2> QED
    BY <2>1 DEF Lifecycle!Move
<1>5. CASE SameClaim(j) /\ (req'[j] = req[j] \/ "accepted" \notin {req[j], req'[j]})
  BY <1>1, <1>5, ViewSame
<1> QED
  BY <1>2, <1>3, <1>4, <1>5 DEF ByPeople

\* A loop starts, hands back, gives up and records.
LEMMA LoopView ==
    ASSUME IInv, HeardInv, NEW j \in Job, NEW r \in Runner, ByLoop(r, j)
    PROVE  View(j)' = View(j) \/ Lifecycle!Move(View(j), View(j)', MaxAttempts[j])
<1>1. fired'[j] = fired[j] /\ req'[j] = req[j]
  BY DEF ByLoop
<1>2. CASE /\ hooks'[j] = hooks[j] /\ row[j].status = "running" /\ row[j].checkpoint = FALSE
           /\ row[j].attempts < MaxAttempts[j] /\ BackInQueue(j)
  <2>1. fired[j] = 0
    BY <1>2, JobFacts
  <2> QED
    BY <1>1, <1>2, <2>1, ViewReturns
<1>3. CASE hooks'[j] = hooks[j] /\ row[j].status = "running" /\ row'[j].status = "failed" /\ SameCount(j)
  BY <1>1, <1>3, ViewEnds DEF Terminal
<1>4. CASE SameClaim(j) /\ Pending(r, j) /\ hooks'[j] = hooks[j] + 1
  <2>1. row[j].status = "failed" /\ hooks[j] = 0
    BY <1>4 DEF IInv, RecordInv
  <2> QED
    BY <1>1, <1>4, <2>1, ViewTold
<1>5. CASE /\ hooks'[j] = hooks[j] /\ row[j].status = "queued" /\ row'[j].status = "running"
           /\ row'[j].attempts = row[j].attempts + 1
  <2>1. row[j].attempts \in Nat /\ row[j].attempts < MaxAttempts[j] /\ req[j] # "accepted"
    BY <1>5, JobFacts
  <2> DEFINE x == [status |-> "queued", starts |-> row[j].attempts, cancel |-> "none",
                   acts |-> fired[j], told |-> hooks[j]]
             y == [status |-> "running", starts |-> row[j].attempts + 1, cancel |-> "none",
                   acts |-> fired[j], told |-> hooks[j]]
  <2>2. View(j) = x
    BY <1>5, <2>1 DEF View
  <2>3. View(j)' = y
    BY <1>1, <1>5, <2>1 DEF View
  <2>4. Lifecycle!Start(x, y, MaxAttempts[j])
    <3>1. Lifecycle!Started(x) = [status |-> "queued", starts |-> row[j].attempts + 1, cancel |-> "none",
                                  acts |-> fired[j], told |-> hooks[j]]
      BY DEF Lifecycle!Started
    <3>2. y = Lifecycle!Becomes(Lifecycle!Started(x), "running")
      BY <3>1 DEF Lifecycle!Becomes
    <3> QED
      BY <2>1, <3>2 DEF Lifecycle!Start
  <2>5. Lifecycle!Move(x, y, MaxAttempts[j])
    BY <2>4 DEF Lifecycle!Move
  <2> HIDE DEF x, y
  <2> QED
    BY <2>2, <2>3, <2>5
<1>6. CASE hooks'[j] = hooks[j] /\ row'[j] = row[j]
  BY <1>1, <1>6, ViewSame DEF SameClaim
<1> QED
  BY <1>2, <1>3, <1>4, <1>5, <1>6 DEF ByLoop

\* A task acts, ends the job, hands it back or records its failure.
LEMMA TaskView ==
    ASSUME IInv, HeardInv, NEW j \in Job, NEW r \in Runner, ByTask(r, j)
    PROVE  View(j)' = View(j) \/ Lifecycle!Move(View(j), View(j)', MaxAttempts[j])
<1>1. req'[j] = req[j]
  BY DEF ByTask
<1>2. CASE OwnClaim(r, j) /\ fired'[j] = fired[j] /\ hooks'[j] = hooks[j]
           /\ tpc[r][j] \in Terminal /\ row'[j].status = tpc[r][j] /\ SameCount(j)
  <2>1. tpc[r][j] = "cancelled" => row[j].cancel
    BY <1>2 DEF IInv, CancelInv
  <2>2. row[j].status = "running"
    BY <1>2 DEF OwnClaim
  <2> QED
    BY <1>1, <1>2, <2>1, <2>2, ViewEnds
<1>3. CASE OwnClaim(r, j) /\ fired'[j] = fired[j] /\ hooks'[j] = hooks[j]
           /\ tpc[r][j] = "retry" /\ BackInQueue(j)
  <2>1. row[j].status = "running" /\ att[r][j] = row[j].attempts
    BY <1>3 DEF OwnClaim
  <2>2. ~ (fired[j] >= 1) /\ att[r][j] < MaxAttempts[j]
    BY <1>3 DEF IInv, ActInv, AttemptInv
  <2>3. fired[j] = 0
    BY <2>2, JobFacts
  <2> QED
    BY <1>1, <1>3, <2>1, <2>2, <2>3, ViewReturns
<1>4. CASE OwnClaim(r, j) /\ fired'[j] = fired[j] /\ hooks'[j] = hooks[j]
           /\ row[j].checkpoint = FALSE /\ row[j].attempts < MaxAttempts[j] /\ BackInQueue(j)
  <2>1. row[j].status = "running"
    BY <1>4 DEF OwnClaim
  <2>2. fired[j] = 0
    BY <1>4, <2>1, JobFacts
  <2> QED
    BY <1>1, <1>4, <2>1, <2>2, ViewReturns
<1>5. CASE OwnClaim(r, j) /\ fired'[j] = fired[j] /\ hooks'[j] = hooks[j]
           /\ row'[j].status = "failed" /\ SameCount(j)
  <2>1. row[j].status = "running"
    BY <1>5 DEF OwnClaim
  <2> QED
    BY <1>1, <1>5, <2>1, ViewEnds DEF Terminal
<1>6. CASE row'[j] = row[j] /\ fired'[j] = fired[j] /\ tpc[r][j] = "hook" /\ hooks'[j] = hooks[j] + 1
  <2>1. row[j].status = "failed" /\ hooks[j] = 0
    BY <1>6 DEF IInv, RecordInv
  <2> QED
    BY <1>1, <1>6, <2>1, ViewTold DEF SameClaim
<1>7. CASE SameClaim(j) /\ fired'[j] = fired[j] /\ hooks'[j] = hooks[j]
  BY <1>1, <1>7, ViewSame
<1>8. CASE OwnClaim(r, j) /\ fired'[j] = fired[j] /\ hooks'[j] = hooks[j]
           /\ row'[j].status = "running" /\ SameCount(j)
  <2>1. View(j)' = View(j)
    BY <1>1, <1>8 DEF View, OwnClaim, SameCount
  <2> QED
    BY <2>1
<1>9. CASE tpc[r][j] = "past" /\ fired'[j] = fired[j] + 1 /\ hooks'[j] = hooks[j] /\ SameClaim(j)
  <2>1. row[j].status \in {"running", "failed"}
    BY <1>9 DEF IInv, ActInv, PastOwns, OwnClaim
  <2>2. ~ (fired[j] >= 1)
    BY <1>9 DEF IInv, ActInv
  <2>3. fired[j] = 0
    BY <2>2, JobFacts
  <2>4. View(j)' = [View(j) EXCEPT !.acts = 1]
    BY <1>1, <1>9, <2>3 DEF View, SameClaim
  <2>5. View(j).status \in {"running", "failed"} /\ View(j).acts = 0
    BY <2>1, <2>3 DEF View
  <2>6. Lifecycle!Act(View(j), View(j)')
    BY <2>4, <2>5 DEF Lifecycle!Act
  <2> QED
    BY <2>6 DEF Lifecycle!Move
<1> QED
  <2>1. row'[j] = row[j] => SameClaim(j)
    BY DEF SameClaim
  <2> QED
    BY <1>2, <1>3, <1>4, <1>5, <1>6, <1>7, <1>8, <1>9, <2>1 DEF ByTask

\* Whatever is reaped, retried, timed out or done by a zombie, the creator sees the
\* lifecycle that was promised.
THEOREM LifecycleImplemented == Spec => LifecycleKept
<1> DEFINE Views == [j \in Job |-> [status |-> row[j].status, starts |-> row[j].attempts,
                                    cancel |-> IF req[j] = "accepted" THEN "accepted" ELSE "none",
                                    acts |-> fired[j], told |-> hooks[j]]]
<1>1. Init => Lifecycle!Init
  BY DEF Init, Lifecycle!Init, AbsentRow
<1>2. IInv /\ HeardInv /\ IInv' /\ [Next]_vars => [Lifecycle!Next]_Views
  <2> SUFFICES ASSUME IInv, HeardInv, IInv', [Next]_vars
               PROVE  Lifecycle!Next
    OBVIOUS
  <2>1. ASSUME NEW j \in Job
        PROVE  View(j)' = View(j) \/ Lifecycle!Move(View(j), View(j)', MaxAttempts[j])
    <3>1. JobMove(j)
      BY EveryStep DEF IInv
    <3>2. CASE Idle(j)
      BY <3>2, ViewSame DEF Idle
    <3> QED
      BY <3>1, <3>2, PeopleView, LoopView, TaskView DEF JobMove
  <2>2. \A j \in Job : Views[j] = View(j) /\ Views'[j] = View(j)'
    BY DEF View
  <2>3. Views' \in [Job -> Lifecycle!State]
    <3>1. TypeOK'
      BY DEF IInv
    <3> QED
      BY <3>1 DEF TypeOK, RowType, Status, Terminal, Lifecycle!State, Lifecycle!Ended
  <2>4. \A j \in Job : Views'[j] = Views[j] \/ Lifecycle!Move(Views[j], Views'[j], MaxAttempts[j])
    BY <2>1, <2>2
  <2> QED
    BY <2>3, <2>4 DEF Lifecycle!Next
<1> QED
  BY Inductive, CancelIsHeard, <1>1, <1>2, PTL DEF Spec, LifecycleKept, Lifecycle!Spec
=============================================================================
