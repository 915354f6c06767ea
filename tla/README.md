# Tiqora in TLA+

Tiqora is a helpdesk that works on the database of a Znuny/OTRS installation,
often next to a running Znuny. This directory holds TLA+ models of the parts of
its backend (`src/backend/src/tiqora/`, below written `tiqora/`) whose
correctness depends on the order in which processes, transactions and failures
interleave, the TLC runs that check them on small instances, and proofs of their
central properties for every instance.

Contents: 1 the system, 2 the modules, 3 the runs, 4 fairness, 5 the proofs,
6 what is not modelled, 7 the plan.

## 1. The system

| process | what runs in it |
|---|---|
| `tiqora-api` | FastAPI: every request is one or a few database transactions |
| `tiqora-worker` (any number) | asyncio loops: job runner, outbox drain, Znuny poller, mail fetch, escalation, unlock timeout, pending check, approvals sweep, notifications |
| `tiqora-ai-worker` | triage, automatic replies, summaries, the web chat bot |
| `tiqora-mcp` | tools for AI clients, through the same services |
| Znuny | writes the same tables with its own code, at any time |

They share the database (MariaDB/MySQL or PostgreSQL), Redis (sessions,
pub/sub) and the search index, and nothing else: no process can call another.
Whatever they agree on, they agree on through rows. So the hard behaviour is in
the statements: what was read before something else committed, which `WHERE`
protects a write, which row lock covers which decision, and what a process that
dies leaves behind.

### Components, their state, and what makes them correct

`PROJECT.json` lists every component with its sources. Those with state of their
own that concurrent actors change:

| component | state | operations | hard behaviour | correct when |
|---|---|---|---|---|
| ticket number counter (`znuny/ticket_number.py`) | rows of `ticket_number_counter`, `ticket.tn` | insert a row, settle, fill unset rows, read back, check the number, insert the ticket | no lock at all; callers die with rows unset; midnight | counters of a series are unique and fixed; numbers are; every attempt ends |
| job runner (`jobs/`) | rows of `tiqora_job`, the tasks of each worker | enqueue, claim per lane, heartbeat, checkpoint, finish, retry, time out, reap, cancel, shut down | live jobs taken for dead, late writes of old claims, cancel against claim | an irreversible step is done once, attempts are bounded, an ended job stays ended, every job ends |
| mail jobs (`jobs/handlers/gi_mail.py`) | the job row, mail log, article | checkpoint, SMTP, retry, record | SMTP answers get lost; the mail is out and storing it fails | an accepted mail is not sent again, every mail is recorded |
| approvals (`approvals/`) | request, steps, approver rows, votes, links | request, vote, substitute, e-mail link, forward, refresh, cancel, deadline sweep | one person in several roles; stale selections; deadlines against votes | one person one vote, nobody waits for nobody, stages in order, what is decided stands, deadlines decide |
| vote transactions (`approvals/retry.py`, `service.decide`, `tokens.redeem_link`) | row lock, transaction views | lock, check, write, commit, retry after a deadlock | a view older than the lock; a deadlock victim runs again; lost answers | racing votes equal votes one after the other, answers are true |
| search sync (`worker/outbox_drain.py`, `poller.py`) | outbox, watermarks, search index | drain, poll, reindex, webhooks | watermark set before indexing; no claim between workers | every change reaches the index |
| ticket lock and timers (`domain/ticket_write_service.py`, `worker/unlock_timeout.py`, `pending_check.py`) | lock, owner, state and timers of a ticket | lock, take over, unlock, pend, close, answer; timers | plain read, then write; candidates selected before they are locked | an acquisition robs nobody, a timer acts only on what is still due and forgets nothing that has somewhere to go |
| report data (`reporting/incremental.py`, `backfill.py`, `dirty.py`, `facts_store.py`, `gdpr/erasure.py`) | facts, watermark, gaps, marks, the backfill's cursor and token | tick, backfill, erase, take over, rebuild | history ids that commit out of order; failing rebuilds; a reaped run that still lives; an erasure during a rebuild | no history row is missed; nothing of an erased person comes back; facts catch up |
| inbound mail (`channels/email/`) | mailbox, tickets, loop protection counters | fetch, store, delete | crash between store and delete | a mail is not lost and not stored twice |
| web chat (`webchat/`) | session, its event sequence, ticket | message, offer, accept, hand over, end, sweep | visitor, agents, bot and sweeper at once | one agent holds a chat; events in order; no deadlock |
| AI workers (`ai/`) | pause, grant, escalation flags | auto reply, triage, hand over | flags change while an answer is being written | no reply after a stop, none beyond the grant |
| SCIM role sync (`identity/scim/role_sync.py`) | pending rows with a generation | enqueue, tick, push back | an enqueue while a tick works | no change is lost |

The rest (permissions, dashboards, CMDB, process engine, crypto, plugins,
frontend ...) is listed there as `not_modelled` with the reason.

### How they interact

* Approvals queue jobs (`approval_hook`, `approval_mail`) in the transaction of
  the decision; the job runner executes them. Ticket writes queue mail jobs.
* The approvals sweep, the job runner's reaper and the ticket timers follow one
  pattern: select candidates without a lock, then settle each in a transaction of
  its own that asks again whether it still applies.
* Ticket writes add outbox rows; the drain turns them into index updates,
  webhooks and messages to browsers. The poller does the same for Znuny's writes.
* `create_ticket` draws its number first, outside its transaction.
* The report data follows `ticket_history`, which every ticket write (Znuny's too)
  extends; a GDPR erasure deletes facts in its own transaction and marks the ticket
  for the next tick.

The hazards this leads to are listed in `PROJECT.json` ("hazards"), each at its
line, with the properties that watch it or the module planned for it.

## 2. The modules

| module | what it is | of the code |
|---|---|---|
| `TicketNumber` | counter table and callers, one action per transaction | `znuny/ticket_number.py`, `create_ticket` |
| `JobLifecycle` | abstract: what a job promises its creator | the promise, no code |
| `JobRunner` | rows, runner loops and tasks, one action per UPDATE; implements `JobLifecycle` | `jobs/runner.py`, `context.py`, `service.py` |
| `ApprovalRules` | the rules as operators, no state | `approvals/rules.py` |
| `StepVoting` | one step whose voters come, go and vote; a reference definition of the rules | `rules.py`, the callers that change voters |
| `Approval` | a whole request, one action per transaction; uses `ApprovalRules` | `approvals/service.py`, `_engine.py`, `sweep.py`, `tokens.py` |
| `OneVote` | abstract: what voting on a step promises its callers | the promise, no code |
| `VoteLock` | one vote as the statements it is made of; implements `OneVote` | `service.decide`, `tokens.redeem_link`, `retry.py`, the endpoints |
| `ReportFacts` | history, worker tick, backfill runs and erasures, one action per transaction | `reporting/`, `gdpr/erasure.py` |
| `TicketLock` | one ticket, its agents' calls and the timers' ticks | `domain/ticket_write_service.py`, `worker/unlock_timeout.py`, `pending_check.py` |
| `MC...` | constants for TLC | |
| `...Proofs` | theorems of the module they extend; `OpenStepProofs` continues `ApprovalProofs` | |

`MutX` operators stand next to the `X` they vary; each is a plausible mistake in
`X`, used in place of `X` to see that a property notices it.

### TicketNumber

`ticket_number_counter_add` takes no lock. It inserts a row, waits 50 ms, selects
the unset rows up to its own id and fills each with the counter before it plus an
offset, in an `UPDATE ... WHERE counter = 0`. Each of these statements commits by
itself, so each is an action: `InsertRow`, `CommitRow`, `Settle`, `SelectUnset`,
`ReadPrevious`, `UpdateRow`, `ReadBack`; then `NumberFree`/`NumberTaken` (the
check of `ticket_create_number`), `LoopProtection`, and `CreateTicket` (the insert
that meets the unique index). `Crash` may end a caller anywhere; an uncommitted
row vanishes, a committed one stays with counter 0. A number is the pair of day
and counter: what the formatters print is one-to-one in these. `daily` says which
kind of generator is configured, chosen at the start. `Midnight` moves the clock,
which a call reads at three moments.

`SettleHolds` says that the 50 ms are enough: no row with a smaller id is still
uncommitted when the pause is over. The code relies on it, nothing enforces it.

### JobRunner

The row (`row`) has the columns decisions depend on. A worker is a loop (`lpc`:
reap, then per lane count, select, claim) and one task per claimed job (`tpc`).
What a loop or task remembers from an earlier read (`todo`, `free`, `cand`,
`seen`, `att`) is state, since the row may change before it is used. Every UPDATE
is one action with its WHERE clause as the condition; a task that lost its claim
is a zombie that goes on until one of its writes finds no row.

Time is two flags: `stale` (no heartbeat for 180 s) and `waits` (`due_at` ahead).
`GoStale` may hit a *live* task (a blocked event loop, an unreachable database);
that, crashes, stops and failing queries are the faults counted by `MaxFaults`.
`Guarded` jobs have an irreversible step behind `ctx.checkpoint` (sending a mail);
`Act` is that step succeeding. `ActsOnce` is thus about the runner: a mail the
server took but whose confirmation was lost is a retry here as in the code, and a
subject of the planned mail-job module.

`JobLifecycle` is a job as its creator sees it: ordered, started a limited number of
times and not after an accepted cancel, acting at most once, back in the queue only
while it has not acted and may be started again, ended once, its failure recorded
once. The refinement mapping reads the status, the attempts, whether the cancel was
accepted and the two counters; claims, workers, heartbeats, checkpoints, lanes and
reads are hidden. What the lifecycle leaves open is what the code does not promise: a
job given up for dead may still act once (a zombie past its checkpoint), and a running
job whose cancel was accepted may end otherwise.

### ApprovalRules, StepVoting

`EvaluateStep` is `evaluate_step`: decisive voters, then the rule (any, all,
majority, quorum), then whether it can still be reached. `StepVoting` runs it over
every way voters of a step may join, leave, be escalated to and vote, and compares
it with a definition that does not compute anything: a step is settled exactly when
every way the remaining people could vote has the same result.

### Approval

Every operation locks the request row and re-reads what it changes, so an
operation is one action; `VoteLock` is about why that is justified. The sweeper's
selection (`SelectOverdue`) is made without the lock and is an action and a
variable of its own (`cand`). Each action is the whole operation: a vote that
decides a step closes it, drops its rows and links, opens the next stage, decides
steps that get no approvers, and finalises the request, by the same helpers
(`CloseSteps`, `Advance`, `Finalize`, `Reevaluate`) the code shares. Who an
approver entry resolves to is an input: any subset of the people it can name.

### OneVote, VoteLock

`VoteLock` opens up one vote: the plain read that opens a transaction's view, the
rollback that ends it, `SELECT ... FOR UPDATE`, the checks, the write, the commit,
the answer. On MariaDB plain reads see the view, on PostgreSQL the latest commit;
`db` chooses. A deadlock victim is rolled back and tried again (a link from its
lookup on); other errors, before or after the commit, end the call; a crash ends
it without an answer. Which ballots decide the step is the constant `Deciding`.

`OneVote` says what callers may rely on: every vote takes effect at one moment and
only if its person may vote then, and a caller is told "voted", "refused" or
"busy" only if that is true. The refinement mapping is the identity on `invited`,
`asked`, `took`, `open` and `answer`: locks, views and attempts are hidden.

### ReportFacts

A ticket's facts are rebuilt as a whole from what one transaction sees, so a fact
is the set of history rows it was computed from (`rows`) and the number of erasures
it reflects (`content`); which numbers come out of them is not modelled. Writers
take history ids in order and commit them in any (`Insert`, `EndInsert`). A rebuild
is two actions, the read and the write (`StartRebuild`, `CommitRebuild`), between
which writers, erasures and, outside the process lock, other builders may act; it
may fail (`FailRebuild`), for one ticket or for the whole part. The tick
(`run_report_facts_tick`) is `LoadState`, then per batch `ReadHistory`, rebuilds,
`MarkFailed`, `SaveProgress`, then `TakeDirty`, rebuilds, `ClearDirty`; what it
remembers in between (`tick`) is lost in a `Crash`. A backfill run is `Begin`, then
per chunk `ReadChunk`, rebuilds, `SaveCursor`, then `Finish`; `Restart` is the
administrator's button, which takes the token from a run that may still live.
`Age` lets gaps get old, `BackoffPasses` lets a failing ticket be tried again.

`Outside` are runs that do not share the worker's process lock: `tiqora report
backfill`, which operators start beside the worker and which outlives the worker's crash.

Three history variables name what the code gives up on purpose or by accident:
`givenUp` (ids the watermark will not come back to: still open when the first
watermark was set behind them, or dropped from the gap list as too old or too many),
`overtaken` (tickets whose newer mark went with an older one, the subject of
`report_dirty`) and `rewound` (tickets whose facts were once replaced by older ones
because two builders without a common lock read and wrote across each other;
`Rewinds`). The properties make an exception for these tickets and ids and for no
others, and `WorkerNeverRewinds` shows that `rewound` stays empty while all builders
run in the worker process: the exception is the price of the CLI beside it.

### TicketLock

An agent's call is a transaction: plain reads that decide what it will write, then
UPDATEs. From the first UPDATE on the row is held, so that UPDATE, everything after
it and the commit are one action; before it, what the call has read (`saw`, `view`)
may be old. On MariaDB plain reads see the transaction's view; on PostgreSQL each
sees the latest commit (`ReadAgain`). `lock_ticket`, `assign_owner`, `change_state`
and `unlock_ticket` are steps (`LockStep`, `OwnerStep`, `StateStep`, `UnlockStep`)
and the composite calls (acquire, take over, close) sequences of them; each step
that finds nothing to write goes on (`GoOn`), as the code's silent no-ops do. Calls
that end at their first read are no steps at all. `ArticleStep` is the end of
`add_article`: it stores the time it looked at the clock, which on MariaDB is under
the ticket's row lock (the article's foreign key) and on PostgreSQL may be earlier.

A timer's tick selects (`SelectUnlock`, `SelectPending`) and settles later with the
time of its selection (`SettleUnlock`, `SettlePending`) under `FOR UPDATE`.

`after` is the entry of `Ticket::StateAfterPending` for the pending state the ticket
may get: the type of its target, or `"none"` when there is no entry or its target is
missing or invalid. A due "pending auto" without a target is passed over by every
tick (`Skip`) and stays due for ever; `TimersAct` says so in its premise.

`acquire_lock` reads without a lock and then writes, and its docstring says more than
that can keep. Traces of the model show where it is false, all on plain interleavings:

* Whoever already owned the ticket when the call read it is told "acquired" though
  another agent has taken it meanwhile: `assign_owner` finds nothing to write.
* Two agents who find the ticket unlocked are both told "acquired"; the second owns it.
* On PostgreSQL "taken_over" is said to leave the lock as it is, but an unlock tick
  between the read of `acquire_lock` and the one of `assign_owner` is read by the
  latter and written back: the caller owns an unlocked ticket. On MariaDB the
  transaction's view hides the tick and the lock is written back as locked.

`AcquireIsSafe` states what is left, without excluding any interleaving: whoever did
not own the ticket becomes its owner or finds that it was given to him meanwhile, on
MariaDB holds the lock as well (`BecomesOwner`), and a call without takeover takes a
locked ticket only from somebody who locked it after the call began (`RobsNobody`).
None of the three is a run: what they violate is what `AcquireIsSafe` leaves out, and
its comment names them.

`early` is the one history variable that excludes something: an article can store a
timeout older than the lock, and `assign_owner` writes back the lock it has read, so a
lock a timer has just taken comes back with the timeout that had run out; the next
tick takes it again.

## 3. The runs

| run | instance | checks |
|---|---|---|
| `ticket_numbers` | 2 callers, 4 rows, 2 tries, imported tickets in the way, either kind of generator, one midnight, fair | TypeOK, CountersIncrease, OwnRowFilled, NumbersUnique, CountersFixed, AttemptsEnd |
| `tn_midnight_numbers` | 2 callers, 2 rows, expects a violation | DailyNumbersUnique |
| `jobs_one` | 2 runners, 1 job, 2 attempts, 3 faults, a cancel | TypeOK, ActsOnce, AttemptsBounded, QueuedIsClaimable, CancelledOnRequest, RecordedOnce, OneTaskPerClaim, LifecycleKept |
| `jobs_live` | 2 runners, 2 jobs of a one-slot lane, one with 2 attempts, 1 fault, fair | JobsEnd, LaneOverlapBounded |
| `step_voting` | up to 4 voters, every rule and quorum up to 4 | TypeOK, SettledExactly, DecisiveDecides, OpenWaitsForSomeone |
| `approval` | 3 people, 2 sweepers, one abort, fair; 1 step under every rule, or 2 parallel steps and a second stage | TypeOK, OnePersonOneVote, PendingMayVote, OpenIsUndecided, LinksFollowRows, ClosedAddsUp, StagesInOrder, DecisionsStand, DeadlinesDecide |
| `approval_majority` | 3 people, one majority step with two approvers, expects a violation | MajorityOfPeople |
| `vote_lock` | 3 calls of 2 people, 2 attempts, both databases, fair | TypeOK, VotesAreAtomic, CallsEnd |
| `report_facts` | 3 history rows of 2 tickets, batches of 2, one gap, the job and a CLI run outside the worker's lock, 2 events (erasure, failure, restart, crash), fair | TypeOK, NothingMissed, StaleIsMarked, FactsCatchUp |
| `report_fresh` | 3 rows of 2 tickets, none at the start, expects a violation | LaterTicketsFollowed |
| `report_dirty` | 2 tickets, 3 erasures, expects a violation | NewerMarkKept |
| `ticket_lock` | 2 agents with 2 calls, 1 unlock loop, 2 pending loops, 1 fault, 2 times, both databases, with and without a state after pending, fair | TypeOK, AcquireIsSafe, TimersAreCareful, TimersAct |

Deadlock checking is off where the system may rest (all calls made, all jobs
ended, the request closed); in `vote_lock` it is on, and `Finished` is the only
state without a step.

### Why the bounds are enough

* *TicketNumber.* A row is filled by two callers at most at a time in any
  interesting race: one fills, the other overtakes or dies. Four rows let a
  caller draw twice because the first number is taken, and give up because both are. `MaxDay = 1`: a date
  condition compares with one midnight.
* *JobRunner.* Two runners give a zombie, the claim that replaced it, and a reaper;
  two attempts the last and one that is not; three faults the sequence stall,
  requeue, crash. Jobs interact through lanes only: two jobs of a one-slot lane and two
  runners let both count the free slot and both claim, let one crash with its row
  running and come back, and let one reap and requeue what the other still runs.
  `jobs_live` leaves cancels to `jobs_one`, whose `QueuedIsClaimable` keeps a
  cancelled row out of the queue. With two jobs the lane cannot exceed its bound as
  a whole; what the run tests is the bound of each worker, from which that of the
  lane follows, and `LanesOverlapOnce` proves both.
* *Approval.* Three people are an approver, a substitute and an outsider who is
  escalated to; two steps of one stage and one of the next are the least that has
  a sibling to cancel and a stage to wait. Two sweepers give stale selections.
* *VoteLock.* Ann votes for herself and for Ben, Ben for himself: same voter twice,
  same row twice, and a third vote, with two that decide. Two attempts are the last
  and one that is not.
* *ReportFacts.* Three rows of two tickets: one that is visible late, one behind it
  that moves the watermark, and one of the other ticket. Two runs are the backfill
  job and a CLI run beside it, each of which may take the other's token. One gap may
  be remembered and never more than one is open, so that the branch that drops gaps
  over `MaxGaps` is not reached in the run; the proof (`NoRowMissed`) covers it. Two events are a failure and the crash after it, an erasure
  and the failure of its rebuild, or a takeover and the erasure beside it.
* *TicketLock.* Two agents are an agent and a rival, who may call while the other's
  call stands; two pending loops two workers
  that have selected the same ticket. Two calls: one that sets what a timer waits
  for and one that races it. Two times, with both intervals 1, are before and due.
* Bounds on counters (`MaxRows`, `MaxDay`, `MaxFaults`, `MaxAborts`, `MaxEvents`,
  `MaxTime`, `MaxCalls`, `LoopLimit`, `Attempts`, `Cancels`) are constants. All proofs hold for any value of them.

### What the violations show

* `tn_midnight_numbers`: with a daily counter, a call that inserts its row before
  midnight and computes its date condition after it reads back counter 0, and two
  such calls get one number. The second ticket fails at the unique index; no number
  is stored twice.
* `approval_majority`: a person who votes with somebody else's row first loses
  their own, the majority is counted over the rows left, and one of two approvers
  decides alone; the documentation promises a majority of people.
* `report_fresh`: `last_history_id` 0 means both "not set" and "no history yet". On
  a fresh installation the backfill ends at once and the tick after the first
  tickets starts its watermark behind them, so neither builds them until they get
  new history.
* `report_dirty`: `clear_dirty` removes marks up to the newest stamp of all tickets
  taken. A ticket marked again between its own stamp and that one loses its newer
  mark, which the docstring promises to keep; its deleted facts are not rebuilt, or
  the ones of a rebuild that read before the erasure stay.

## 4. Fairness

Only of what the code keeps doing by itself, and weak but for one action
(`StartRebuild`).

* A call that was made runs on until it ends or its process dies (`Step` in
  TicketNumber, `Proceed` in VoteLock). In VoteLock the lock is free infinitely
  often while calls wait, and calls are finitely many, so weak fairness is enough:
  it says that InnoDB and PostgreSQL grant a free lock to somebody.
* `run_forever` loops, tasks run into their timeout, a worker that is down is
  restarted (the deployment restarts containers), time passes. Not fair: that a
  handler ends by itself, heartbeats, enqueues, cancels, any fault.
* The tick of the report data goes on (`TickStep`), back-offs end, erasures end, and a
  rebuild that has read is written (`CommitRebuild`) unless it fails; failures are
  bounded by `MaxEvents`. Getting the process lock (`StartRebuild`) is strongly
  fair: it is an asyncio lock, which wakes waiters in order, and others take it in
  between. A backfill job goes on (`RunStep`); a CLI run, once started, too (`Rebuild`,
  `RunOn`); not fair: that history is written, that anybody restarts a backfill or
  starts the CLI.
* The timers' loops select and settle (`SelectUnlock`, `SettleUnlock`,
  `SelectPending`, `SettlePending`). Agents are not fair at all: a call may stand
  for ever. Skipping a reminder is always allowed, so a reminder is not promised;
  nor is anything of a "pending auto" ticket without a state to go to.
* Deadlines pass, and a sweeper that selected candidates handles them; not fair:
  that anybody votes, nor that a sweep is aborted.

## 5. The proofs

All by TLAPS, for every value of the constants under the named assumptions.

**TicketNumberProofs.** `TypeCorrect`; `CountersNeverChange` holds as it stands,
by `WHERE counter = 0`. `CountersUnique` assumes `SettleHolds` and rests on
`CounterInv`: the set rows of a series are a prefix of it (`PrefixInv`); after the
pause a caller sees every row up to its own (`SettledInv`); what it has passed is
set, and what it computed but not yet wrote lies above all of that (`WalkInv`). It
is needed because `CountersIncrease` says nothing of unset rows and of values that
are computed and not yet written.
`OwnRowIsFilled` and `NumbersAreUnique` also assume a counter that never restarts:
with a daily one they are false (`tn_midnight_numbers`). `NumbersAreUnique`
derives from counters being unique and offsets only ever added.

**JobRunnerProofs.** The 30 actions reduce to four kinds of move of one job
(`Idle`, `ByPeople`, `ByLoop`, `ByTask`; `EveryStep`), and the invariants are
proved over those. `IInv` joins: claims are exclusive and never ahead of the row
(`ClaimInv`); a job that may be claimed has an attempt left (`AttemptInv`); a task
past its checkpoint owns a marked row or one that was given up, and once the step was
done nobody can get there again (`ActInv`); `cancel` is set only on request
(`CancelInv`); whoever failed a row and has yet to record it is alone
(`RecordInv`). `ActsOnce` alone is not inductive: it needs to know that a marked
row is never requeued and that a task that lost its claim fails at the checkpoint.
`LifecycleImplemented`: a job's view depends on its row, request and counters only, so
each move of `JobMove` maps to one move of `JobLifecycle` or none (`PeopleView`,
`LoopView`, `TaskView`); beyond `IInv` it needs that an accepted cancel is on the row of
a job that still runs (`CancelIsHeard`), or a requeue could bring a cancelled job back.
`LanesOverlapOnce` counts with the running rows of a lane what every runner has
promised itself: slots counted as free, then jobs selected for a claim. `LaneInv`: a
runner selects from the lane it fills only; the rows that run in its name and its
promises are at most the lane's slots (`OwnCount`); all running rows and all promises
are at most slots times runners (`LaneCount`). A claim turns a promise into a row, and
a row that stays running stays with its worker (`KeepsWorker`). A count replaces the
runner's old promise by the slots it sees free, so that rows and its own promise are
the slots of one runner, and the others have promised at most theirs. The sum over
runners is the cardinality of a set of pairs (`Pairs`).

**ApprovalProofs.** `Consistent` joins the invariants with three strengthenings:
a pending request has no rejected step, a step that waits has neither rows nor
votes, a row that voted keeps its vote. The shared helpers are proved once, over
*intermediate* rows and steps: what `CloseSteps` and `Advance` do is a `Moved`
relation that keeps the invariant (`CloseStepsKeeps`, `MovedKeeps`), whichever
operation called them. `OnePersonOneVote` holds because voters are read from the
votes and not from the rows, `PendingMayVote` because every place that adds a row
leaves out those who voted.

**OpenStepProofs.** `OpenStepsAwaitVotes` (`OpenIsUndecided`): a step is open only
while the rules give no outcome for its rows and votes. Every operation that changes
rows or votes of an open step evaluates it afterwards (`Reevaluate`); the proof shows
that what it leaves open is `Undecided`, and that a step nobody touched keeps its
outcome. It uses where the rows of an operation come from (`Origins`) and that a quorum
is at least 1, as `approvals/contract.py` demands.

**StepVotingProofs.** `DecisiveVoteDecides`, `OpenStepAsksSomebody` and
`OutcomeIsTheVerdict` (`SettledExactly`) for any set of people and any quorum. `VInv`
joins the types, that a voter counts in the rule or decides alone, and that a decisive
vote ends the step, so none is followed by another. What is left is a statement about
one list of voters: `EvaluateStep` is settled exactly if every continuation agrees.
Where it is settled, the counts of any continuation lie between those of now and those
of everybody deciding; where it is not, the two continuations in which all who are left
approve, or all reject, differ.

**VoteLockProofs.** `Atomic`: `VoteLock` implements `OneVote`. The invariant is
"who holds the lock sees every committed vote" (`ViewCurrent`), which needs that a
call that waits for the lock has no view (the rollback before it), that rows are
what votes made of them (`RowsFollowVotes`), and that a written vote is still
acceptable when it commits (`WrittenIsRight`). `NextKeeps` proves invariant and
step simulation together, action by action.

**ReportFactsProofs.** `NoStaleFacts` (`StaleIsMarked`) holds with and without a CLI
beside the worker. `StaleIsMarked` alone is not inductive: a rebuild that read before an
erasure writes old facts after it. `IInv` adds that what a builder has read is current,
or its ticket is marked, overtaken or rewound, or the facts are newer, so that writing
it rewinds the ticket (`ReadsOK`), that stamps grow, so a mark the tick took and finds
unchanged was not renewed (`StampsOK`), and that the tick clears only what it has
rebuilt (`TickOK`). `OneRebuildAtATime` (of the builders in the worker process, whoever
is between its read and its write holds the lock) follows from `LockOK`.
`WorkerNeverRewinds` (`Outside = {}` gives `rewound = {}`) adds to it that what a
builder holds is never older than the facts (`FreshOK`).
`NoRowMissed` (`NothingMissed`: every committed row is in the facts, still on its way
there, given up, overtaken or rewound) assumes `Before # {}` only: with no history at
the start the property is false (`report_fresh`). `HInv` adds to `IInv` what follows a
row from its commit to its facts: facts and open rebuilds come from committed rows
(`RowsOK`), rows of open transactions are ahead of the watermark or remembered as gaps
(`IdsOK`), the tick goes on from the saved place (`PlaceOK`) and brings what it has read
into the facts before it saves or clears (`TickCovers`), of the runs that live one owns
the backfill (`TokensOK`), and what a run has still to build lies between its cursor and
its target (`TodoOK`, `RunCovers`). Ids below the newest row of the start are committed
or rolled back; `Init` says so, because the first tick does not look for them.

**TicketLockProofs.** `AcquireStaysSafe` rests on `ReadsHold`, over any number of
agents and ticks: on MariaDB a call's reads are one view; an acquiring call goes
straight to the owner only if another owned the ticket, on MariaDB with the lock it has
seen; and a lock that stands though the call found none was taken after it began.
`TimersStayCareful` rests on `TimeoutHolds` (the stored timeout is not before the lock)
and `SelectedBefore` (a tick acts with a time that has passed).

Assumptions, each an `ASSUME` TLC evaluates: types of the constants; jobs are
numbers (rows are ordered by id); "regular" and "escalation" are no people; no step
is decided by no ballots (`{} \notin Deciding`: a step that needs no vote is settled
when it is activated and never open to one).

Model-checked only: liveness (`AttemptsEnd`, `JobsEnd`, `DeadlinesDecide`, `CallsEnd`,
`FactsCatchUp`, `TimersAct`), which needs fairness and ENABLED. Every other property of
a passing run is a theorem. `LateFinishIsHarmless`, `EndStands`, `CancelIsHeard`,
`OneRebuildAtATime` and `WorkerNeverRewinds` are proved and not run.

## 6. What is not modelled

* Ticket numbers: the Random generator and generators of plugins; the digits; tickets
  that Znuny or an import inserts between a caller's check and its insert (the ones in
  the way stand from the start).
* Job runner: purging of ended jobs and their files, progress numbers, results,
  dedupe keys and quotas.
* Approvals: reminders, mail and audit texts, reasons; customers as approvers;
  timers paused while a module is frozen; expiry, limits and purge of links; two
  pending requests for one subject on PostgreSQL (`docs/approvals.md`, "Gleichzeitige
  Anfragen"). `VoteLock` leaves out other operations racing a vote (they take the
  same lock first) and the rules.
* Report data: the orphan sweep and deleted tickets, version upgrades, daily
  snapshots, the back-off of the backfill job, `since`, gaps an auto_increment step
  explains, the limit on marks taken at once, the report cache.
* Ticket lock: permissions, `RequiredLock` switched off, `tmp_lock`, follow-ups of
  customers, reminders beyond the last 24, the pending time a process sets. One entry of
  `Ticket::StateAfterPending` stands for all pending states and does not change.
  `ArticleStep` is the end of `add_article` only.
* Everything listed as `not_modelled` in `PROJECT.json`, and Znuny's own code:
  it appears as what it leaves in the tables.

## 7. Plan

Order: what several processes share and what cannot be repaired comes first.

1. *Done:* TicketNumber, JobRunner with JobLifecycle, Approval with StepVoting, VoteLock
   with OneVote, ReportFacts, TicketLock; the proofs of their safety properties.
2. **MailJob** over the claims of JobRunner: SMTP as an actor that may take a mail
   and lose its answer, mail log, storing that fails; property: an accepted mail is
   sent again only when its confirmation was lost; every mail ends recorded.
   With it **HookJob** (`approvals/hooks.py`): `on_decided` and `hook_done` in one
   transaction, the note after it, five attempts.
3. **SearchSync**: Znuny's transactions, watermarks, outbox, two drains, a crash;
   property: a ticket that changed is indexed after its last change. Its watermark
   has no gap list, unlike the one of ReportFacts.
4. **ChatSession**, **AiHandoff**, **RoleSync**: their properties are in the table
   of section 1.
5. An abstract specification worth stating next to `OneVote` and `JobLifecycle`:
   *NumberDispenser* (numbers given one after the other, never twice; `TicketNumber`
   implements it under `SettleHolds`), with its proof.
6. Proofs of the modules of 2 to 4. Liveness stays with TLC.
