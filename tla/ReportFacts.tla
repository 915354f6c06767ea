---------------------------- MODULE ReportFacts ----------------------------
(***************************************************************************)
(* The report data of tiqora/reporting: one row of facts per ticket,       *)
(* derived from ticket_history, which Znuny and Tiqora write at any time.  *)
(* The worker tick follows the history by id (a watermark and the ids      *)
(* below it that were not visible yet) and rebuilds tickets marked dirty   *)
(* by erasures; backfill runs build what is older than the first           *)
(* watermark.  All of them rebuild a ticket as a whole, from what one      *)
(* transaction sees.                                                       *)
(*                                                                         *)
(* Contents are counted, not modelled: a ticket's facts are the history    *)
(* rows they were computed from and the number of erasures they reflect.   *)
(***************************************************************************)
EXTENDS Naturals, FiniteSets

CONSTANTS
    MaxId,        \* bound: history ids the writers may take
    MaxTicket,    \* tickets are 1..MaxTicket, ordered by id as in the code
    TicketOf,     \* the ticket a history row belongs to
    Before,       \* rows committed before the report data is first built (ids are taken in
                  \* order: the ones below them that are missing were rolled back)
    Runs,         \* backfill runs: the job, a job reaped while it lived, the CLI
    Outside,      \* the runs outside the worker process (CLI): no shared lock
    Batch,        \* HISTORY_BATCH
    MaxBatches,   \* MAX_BATCHES_PER_TICK
    MaxGaps,      \* MAX_GAPS
    Chunk,        \* FACT_CHUNK_SIZE
    MaxEvents     \* bound: erasures, failing rebuilds, crashes, takeovers and restarts together

Ids     == 1..MaxId
Tickets == 1..MaxTicket
Tick    == "tick"
None    == "none"
Builders == Runs \cup {Tick}

ASSUME ReportAssumption ==
    /\ MaxId \in Nat /\ MaxTicket \in Nat
    /\ TicketOf \in [Ids -> Tickets] /\ Before \subseteq Ids
    /\ Tick \notin Runs /\ None \notin Builders /\ Outside \subseteq Runs
    /\ Batch \in Nat \ {0} /\ MaxBatches \in Nat \ {0}
    /\ MaxGaps \in Nat /\ Chunk \in Nat \ {0}
    /\ MaxEvents \in Nat

VARIABLES
    hist,      \* a history row: not taken, in an open transaction, committed, rolled back
    content,   \* erasures of a ticket that committed
    erasing,   \* stamp of the mark an open erasure of the ticket has written, 0 for none
    clock,     \* the last stamp given (queued_at)
    facts,     \* the report data
    dirty,     \* tiqora_report_dirty_ticket: queued_at of the mark, 0 for none
    wm, gaps,  \* tiqora_report_state: last_history_id, gap_ids
    expired,   \* gaps first seen more than GAP_TTL_SECONDS ago
    bf,        \* tiqora_report_state: the backfill columns
    pc,        \* what a builder does next
    tick,      \* what the tick remembers
    todo,      \* the tickets a builder was told to rebuild
    left,      \* those of them it has not come to yet
    run,       \* what a backfill run remembers
    part,      \* tickets of a builder's open rebuild transaction
    view,      \* what that transaction has read
    lock,      \* who holds the fact_write_lock of the worker process
    events,    \* how many of the bounded events have happened
    givenUp,   \* history: ids dropped before they were read
    overtaken, \* history: tickets whose newer mark went with an older one
    rewound    \* history: tickets whose facts a rebuild replaced by older ones

writers == <<hist, content, erasing, clock>>
table   == <<facts, dirty, wm, gaps, bf>>
memory  == <<pc, tick, todo, left, run, part, view, lock>>
bounds  == <<expired, events>>
ghosts  == <<givenUp, overtaken, rewound>>
vars    == <<writers, table, memory, bounds, ghosts>>

NoFact == [rows |-> {}, content |-> 0]
NoMark == [t \in Tickets |-> 0]
IdleTick == [stage |-> "history", wm |-> 0, gaps |-> {}, batch |-> 0, more |-> FALSE,
             single |-> FALSE, failed |-> {}, backing |-> {}, seen |-> NoMark]
NoRun == [cursor |-> 0, target |-> 0, token |-> 0]

Largest(S) == IF S = {} THEN 0 ELSE CHOOSE x \in S : \A y \in S : y <= x
Smallest(S) == CHOOSE x \in S : \A y \in S : x <= y
FirstOf(S, n) == {x \in S : Cardinality({y \in S : y <= x}) <= n}

Committed == {h \in Ids : hist[h] = "committed"}
Open      == {h \in Ids : hist[h] = "open"}
Existing  == {TicketOf[h] : h \in Committed}
Marked    == {t \in Tickets : dirty[t] # 0}
\* What a rebuild that reads now computes for a ticket.
Current(t) == [rows |-> {h \in Committed : TicketOf[h] = t}, content |-> content[t]]

Event == events < MaxEvents /\ events' = events + 1

Init ==
    /\ hist = [h \in Ids |-> IF h \in Before THEN "committed"
                             ELSE IF \E g \in Before : h < g THEN "rolled back" ELSE "free"]
    /\ content = NoMark /\ erasing = NoMark /\ clock = 0
    /\ facts = [t \in Tickets |-> NoFact] /\ dirty = NoMark
    /\ wm = 0 /\ gaps = {} /\ expired = {}
    /\ bf = [status |-> "pending", start |-> 0, cursor |-> 0, target |-> 0, token |-> 0]
    /\ pc = [b \in Builders |-> "idle"]
    /\ tick = IdleTick
    /\ todo = [b \in Builders |-> {}] /\ left = [b \in Builders |-> {}]
    /\ run = [b \in Runs |-> NoRun]
    /\ part = [b \in Builders |-> {}]
    /\ view = [b \in Builders |-> [t \in Tickets |-> NoFact]]
    /\ lock = None
    /\ events = 0
    /\ givenUp = {} /\ overtaken = {} /\ rewound = {}

----------------------------------------------------------------------------
(* Writers: Znuny's and Tiqora's transactions, and erasures. *)

\* Ids are handed out in order; the rows become visible when their transactions commit.
Insert(h) ==
    /\ hist[h] = "free"
    /\ \A g \in Ids : g < h => hist[g] # "free"
    /\ hist' = [hist EXCEPT ![h] = "open"]
    /\ UNCHANGED <<content, erasing, clock, table, memory, bounds, ghosts>>

EndInsert(h, result) ==
    /\ hist[h] = "open"
    /\ hist' = [hist EXCEPT ![h] = result]
    /\ UNCHANGED <<content, erasing, clock, table, memory, bounds, ghosts>>

\* _refresh_report_facts: drop the facts, write the mark; part of the erasure's transaction.
Erase(t) ==
    /\ erasing[t] = 0 /\ t \in Existing
    /\ Event
    /\ clock' = clock + 1
    /\ erasing' = [erasing EXCEPT ![t] = clock + 1]
    /\ UNCHANGED <<hist, content, table, memory, expired, ghosts>>

CommitErasure(t) ==
    /\ erasing[t] # 0
    /\ content' = [content EXCEPT ![t] = @ + 1]
    /\ facts' = [facts EXCEPT ![t] = NoFact]
    /\ dirty' = [dirty EXCEPT ![t] = erasing[t]]
    /\ erasing' = [erasing EXCEPT ![t] = 0]
    /\ UNCHANGED <<hist, clock, wm, gaps, bf, memory, bounds, ghosts>>

\* More than GAP_TTL_SECONDS pass.
Age ==
    /\ expired' = gaps
    /\ expired' # expired
    /\ UNCHANGED <<writers, table, memory, events, ghosts>>

----------------------------------------------------------------------------
(* rebuild_and_commit: read and write some tickets in one transaction. *)

\* A chunk of the tickets, or one ticket after the batch has failed.
NextPart(b) ==
    IF b = Tick /\ tick.single THEN FirstOf(left[b], 1) ELSE FirstOf(left[b], Chunk)

StartRebuild(b) ==
    /\ pc[b] = "rebuild" /\ left[b] # {}
    /\ b \in Outside \/ lock = None
    /\ lock' = IF b \in Outside THEN lock ELSE b
    /\ part' = [part EXCEPT ![b] = NextPart(b)]
    /\ view' = [view EXCEPT ![b] =
                   [t \in Tickets |-> IF t \in NextPart(b) THEN Current(t) ELSE NoFact]]
    /\ pc' = [pc EXCEPT ![b] = "write"]
    /\ UNCHANGED <<writers, table, tick, todo, left, run, bounds, ghosts>>

\* Mutant: the lock is not given back.
MutEndTransaction(b) ==
    /\ part' = [part EXCEPT ![b] = {}]
    /\ view' = [view EXCEPT ![b] = [t \in Tickets |-> NoFact]]
    /\ lock' = lock

\* Forget the transaction and release the lock.
EndTransaction(b) ==
    /\ part' = [part EXCEPT ![b] = {}]
    /\ view' = [view EXCEPT ![b] = [t \in Tickets |-> NoFact]]
    /\ lock' = IF lock = b THEN None ELSE lock

\* Two builders without a common lock: the one has read before the other wrote what it replaces.
Rewinds(b, t) ==
    view[b][t].content < facts[t].content \/ ~(facts[t].rows \subseteq view[b][t].rows)

\* Its DELETE waits for an erasure that has deleted the same rows.
CommitRebuild(b) ==
    /\ pc[b] = "write"
    /\ \A t \in part[b] : erasing[t] = 0
    /\ facts' = [t \in Tickets |-> IF t \in part[b] THEN view[b][t] ELSE facts[t]]
    /\ left' = [left EXCEPT ![b] = @ \ part[b]]
    /\ tick' = IF b = Tick THEN [tick EXCEPT !.backing = @ \ part[b]] ELSE tick
    /\ EndTransaction(b)
    /\ pc' = [pc EXCEPT ![b] = "rebuild"]
    /\ rewound' = rewound \cup {t \in part[b] : Rewinds(b, t)}
    /\ UNCHANGED <<writers, dirty, wm, gaps, bf, todo, run, bounds, givenUp, overtaken>>

\* A rebuild raises (its third attempt too).  The tick goes on with one ticket at a time and
\* notes the tickets that fail alone; a backfill run ends.
FailRebuild(b) ==
    /\ pc[b] = "write"
    /\ Event
    /\ EndTransaction(b)
    /\ \/ /\ b = Tick /\ ~tick.single
          /\ tick' = [tick EXCEPT !.single = TRUE]
          /\ left' = [left EXCEPT ![b] = todo[b]]
          /\ pc' = [pc EXCEPT ![b] = "rebuild"]
          /\ UNCHANGED <<todo, run>>
       \/ /\ b = Tick /\ tick.single
          /\ tick' = [tick EXCEPT !.failed = @ \cup part[b], !.backing = @ \cup part[b]]
          /\ left' = [left EXCEPT ![b] = @ \ part[b]]
          /\ pc' = [pc EXCEPT ![b] = "rebuild"]
          /\ UNCHANGED <<todo, run>>
       \/ /\ b \in Runs
          /\ todo' = [todo EXCEPT ![b] = {}]
          /\ left' = [left EXCEPT ![b] = {}]
          /\ run' = [run EXCEPT ![b] = NoRun]
          /\ pc' = [pc EXCEPT ![b] = "idle"]
          /\ UNCHANGED tick
    /\ UNCHANGED <<writers, table, expired, ghosts>>

----------------------------------------------------------------------------
(* The worker tick (_run_tick). *)

\* The first tick, or the first backfill, starts at the highest visible id.
FirstWatermark ==
    /\ wm' = IF wm = 0 THEN Largest(Committed) ELSE wm
    /\ givenUp' = IF wm = 0 THEN givenUp \cup {h \in Open : h <= wm'} ELSE givenUp

LoadState ==
    /\ pc[Tick] = "idle"
    /\ FirstWatermark
    /\ tick' = [IdleTick EXCEPT !.wm = wm', !.gaps = gaps, !.backing = tick.backing]
    /\ pc' = [pc EXCEPT ![Tick] = "read"]
    /\ UNCHANGED <<writers, facts, dirty, gaps, bf, todo, left, run, part, view, lock, bounds, overtaken, rewound>>

\* One pass of _follow_history up to the rebuild: the gaps that became visible (first pass only)
\* and the next rows; new gaps are remembered, old ones and those over the limit dropped.
ReadHistory ==
    /\ pc[Tick] = "read"
    /\ LET late == IF tick.batch = 0 THEN tick.gaps \cap Committed ELSE {}
           rows == FirstOf({h \in Committed : h > tick.wm}, Batch)
           last == IF rows = {} THEN tick.wm ELSE Largest(rows)
           missing == {h \in Ids : tick.wm < h /\ h <= last} \ rows
           young == ((tick.gaps \ late) \cup missing) \ expired
       IN \E kept \in SUBSET young :
            /\ IF Cardinality(young) <= MaxGaps THEN kept = young ELSE Cardinality(kept) = MaxGaps
            /\ givenUp' = givenUp \cup ((((tick.gaps \ late) \cup missing) \ kept)
                                            \cap (Open \cup Committed))
            /\ tick' = [tick EXCEPT !.wm = last, !.gaps = kept, !.batch = @ + 1,
                                    !.more = Cardinality(rows) = Batch,
                                    !.single = FALSE, !.failed = {}]
            /\ todo' = [todo EXCEPT ![Tick] = {TicketOf[h] : h \in late \cup rows}]
            /\ left' = [left EXCEPT ![Tick] = {TicketOf[h] : h \in late \cup rows}]
    /\ pc' = [pc EXCEPT ![Tick] = "rebuild"]
    /\ UNCHANGED <<writers, table, run, part, view, lock, bounds, overtaken, rewound>>

\* Mutant: the failed tickets are not marked.
MutMark(marks, S) == marks

\* mark_tickets_dirty, which replaces an older mark; it waits for an erasure's mark.
Mark(marks, S) == [t \in Tickets |-> IF t \in S THEN clock + 1 ELSE marks[t]]

HistoryRebuilt == pc[Tick] = "rebuild" /\ left[Tick] = {} /\ tick.stage = "history"

MarkFailed ==
    /\ HistoryRebuilt /\ tick.failed # {}
    /\ \A t \in tick.failed : erasing[t] = 0
    /\ dirty' = Mark(dirty, tick.failed)
    /\ clock' = clock + 1
    /\ pc' = [pc EXCEPT ![Tick] = "save"]
    /\ UNCHANGED <<hist, content, erasing, facts, wm, gaps, bf, tick, todo, left, run, part, view, lock,
                   bounds, ghosts>>

SaveProgress ==
    /\ pc[Tick] = "save" \/ (HistoryRebuilt /\ tick.failed = {})
    /\ wm' = IF wm < tick.wm THEN tick.wm ELSE wm
    /\ gaps' = tick.gaps
    /\ expired' = expired \cap gaps'
    /\ todo' = [todo EXCEPT ![Tick] = {}]
    /\ pc' = [pc EXCEPT ![Tick] = IF tick.more /\ tick.batch < MaxBatches THEN "read" ELSE "take"]
    /\ UNCHANGED <<writers, facts, dirty, bf, tick, left, run, part, view, lock, events, ghosts>>

\* take_dirty_ticket_ids (fewer than DIRTY_BATCH marks), without those that are backing off.
TakeDirty ==
    /\ pc[Tick] = "take"
    /\ LET due == Marked \ tick.backing
       IN \/ /\ due = {}
             /\ tick' = [IdleTick EXCEPT !.backing = tick.backing]
             /\ pc' = [pc EXCEPT ![Tick] = "idle"]
             /\ UNCHANGED <<todo, left>>
          \/ /\ due # {}
             /\ tick' = [IdleTick EXCEPT !.stage = "dirty", !.backing = tick.backing, !.seen = dirty]
             /\ todo' = [todo EXCEPT ![Tick] = due]
             /\ left' = [left EXCEPT ![Tick] = due]
             /\ pc' = [pc EXCEPT ![Tick] = "rebuild"]
    /\ UNCHANGED <<writers, table, run, part, view, lock, bounds, ghosts>>

TakenAt == Largest({tick.seen[t] : t \in Tickets})

\* Mutant: newer marks go as well.
MutClearable(t) == t \in todo[Tick] \ tick.failed

\* clear_dirty: marks up to the newest one taken go, whichever ticket that one was for.
Clearable(t) == t \in todo[Tick] \ tick.failed /\ dirty[t] <= TakenAt

ClearDirty ==
    /\ pc[Tick] = "rebuild" /\ left[Tick] = {} /\ tick.stage = "dirty"
    /\ \A t \in todo[Tick] : erasing[t] = 0
    /\ dirty' = Mark([t \in Tickets |-> IF Clearable(t) THEN 0 ELSE dirty[t]], tick.failed)
    /\ clock' = IF tick.failed = {} THEN clock ELSE clock + 1
    /\ overtaken' = overtaken \cup {t \in todo[Tick] \ tick.failed :
                                       tick.seen[t] < dirty[t] /\ dirty[t] <= TakenAt}
    /\ tick' = [IdleTick EXCEPT !.backing = tick.backing]
    /\ todo' = [todo EXCEPT ![Tick] = {}]
    /\ pc' = [pc EXCEPT ![Tick] = "idle"]
    /\ UNCHANGED <<hist, content, erasing, facts, wm, gaps, bf, left, run, part, view, lock, bounds, givenUp, rewound>>

\* The back-off of the failing tickets runs out.
BackoffPasses ==
    /\ tick.backing # {}
    /\ tick' = [tick EXCEPT !.backing = {}]
    /\ UNCHANGED <<writers, table, pc, todo, left, run, part, view, lock, bounds, ghosts>>

----------------------------------------------------------------------------
(* A backfill run (run_backfill): the job the tick queues, or the CLI. *)

\* Mutant: one too far before the first ticket.
MutBeforeFirst == IF Existing = {} THEN Largest(Existing) ELSE Smallest(Existing) - 2

\* The cursor of a new run: nothing done yet.
BeforeFirst == IF Existing = {} THEN Largest(Existing) ELSE Smallest(Existing) - 1

\* _begin.  A new run starts before the first ticket and ends at the highest one; a run found
\* "running" is continued under a new token.  A second run beside a living one (a job reaped
\* too early, the CLI) counts as a fault.
Begin(b) ==
    /\ pc[b] = "idle" /\ bf.status # "done"
    /\ \/ (\A c \in Runs : pc[c] = "idle") /\ UNCHANGED events
       \/ (\E c \in Runs : pc[c] # "idle") /\ Event
    /\ FirstWatermark
    /\ bf' = IF bf.status = "running"
                THEN [bf EXCEPT !.token = @ + 1]
                ELSE [status |-> "running", start |-> BeforeFirst, cursor |-> BeforeFirst,
                      target |-> Largest(Existing), token |-> bf.token + 1]
    /\ run' = [run EXCEPT ![b] = [cursor |-> bf'.cursor, target |-> bf'.target, token |-> bf'.token]]
    /\ pc' = [pc EXCEPT ![b] = "chunk"]
    /\ UNCHANGED <<writers, facts, dirty, gaps, tick, todo, left, part, view, lock, expired, overtaken, rewound>>

\* An admin asks for a rebuild while no job is active, or the CLI gets --restart.
Restart ==
    /\ \A b \in Runs \ Outside : pc[b] = "idle"
    /\ Event
    /\ bf' = [bf EXCEPT !.status = "pending"]
    /\ UNCHANGED <<writers, facts, dirty, wm, gaps, memory, expired, ghosts>>

ReadChunk(b) ==
    /\ pc[b] = "chunk"
    /\ LET ids == FirstOf({t \in Existing : run[b].cursor < t /\ t <= run[b].target}, Chunk)
       IN /\ todo' = [todo EXCEPT ![b] = ids]
          /\ left' = [left EXCEPT ![b] = ids]
          /\ pc' = [pc EXCEPT ![b] = IF ids = {} THEN "finish" ELSE "rebuild"]
    /\ UNCHANGED <<writers, table, tick, run, part, view, lock, bounds, ghosts>>

StopRun(b) ==
    /\ pc' = [pc EXCEPT ![b] = "idle"]
    /\ run' = [run EXCEPT ![b] = NoRun]

Owns(b) == bf.token = run[b].token /\ bf.status = "running"

\* _save_cursor: a run that was replaced writes nothing and stops.
SaveCursor(b) ==
    /\ b \in Runs /\ pc[b] = "rebuild" /\ left[b] = {}
    /\ IF Owns(b)
         THEN LET cursor == Largest(todo[b])
              IN /\ bf' = [bf EXCEPT !.cursor = IF @ < cursor THEN cursor ELSE @]
                 /\ run' = [run EXCEPT ![b].cursor = cursor]
                 /\ pc' = [pc EXCEPT ![b] = "chunk"]
         ELSE StopRun(b) /\ UNCHANGED bf
    /\ todo' = [todo EXCEPT ![b] = {}]
    /\ UNCHANGED <<writers, facts, dirty, wm, gaps, tick, left, part, view, lock, bounds, ghosts>>

Finish(b) ==
    /\ pc[b] = "finish"
    /\ bf' = IF Owns(b) THEN [bf EXCEPT !.status = "done", !.cursor = run[b].target] ELSE bf
    /\ StopRun(b)
    /\ UNCHANGED <<writers, facts, dirty, wm, gaps, tick, todo, left, part, view, lock, bounds, ghosts>>

\* The worker process dies, with the tick and its runs.
Crash ==
    /\ Event
    /\ LET Dead == Builders \ Outside
       IN /\ pc' = [b \in Builders |-> IF b \in Dead THEN "idle" ELSE pc[b]]
          /\ todo' = [b \in Builders |-> IF b \in Dead THEN {} ELSE todo[b]]
          /\ left' = [b \in Builders |-> IF b \in Dead THEN {} ELSE left[b]]
          /\ part' = [b \in Builders |-> IF b \in Dead THEN {} ELSE part[b]]
          /\ view' = [b \in Builders |-> IF b \in Dead THEN [t \in Tickets |-> NoFact] ELSE view[b]]
          /\ run' = [b \in Runs |-> IF b \in Dead THEN NoRun ELSE run[b]]
    /\ tick' = IdleTick
    /\ lock' = None
    /\ UNCHANGED <<writers, table, expired, ghosts>>

----------------------------------------------------------------------------
Rebuild(b) == StartRebuild(b) \/ CommitRebuild(b)
TickStep == LoadState \/ ReadHistory \/ MarkFailed \/ SaveProgress \/ TakeDirty \/ ClearDirty
RunOn(b) == ReadChunk(b) \/ SaveCursor(b) \/ Finish(b)
RunStep(b) == Begin(b) \/ RunOn(b)

Writer ==
    \/ \E h \in Ids : Insert(h) \/ EndInsert(h, "committed") \/ EndInsert(h, "rolled back")
    \/ \E t \in Tickets : Erase(t) \/ CommitErasure(t)

Next ==
    \/ Writer
    \/ Age
    \/ TickStep
    \/ BackoffPasses
    \/ \E b \in Builders : Rebuild(b) \/ FailRebuild(b)
    \/ \E b \in Runs : RunStep(b)
    \/ Restart
    \/ Crash

Spec == Init /\ [][Next]_vars

\* The loops of the worker go on, a back-off ends, erasures end, the lock is handed out in turn.
\* Nobody need start the CLI; once started, it goes on.
FairSpec ==
    /\ Spec
    /\ WF_vars(TickStep) /\ WF_vars(BackoffPasses)
    /\ WF_vars(\E t \in Tickets : CommitErasure(t))
    /\ \A b \in Builders \ Outside : SF_vars(StartRebuild(b)) /\ WF_vars(CommitRebuild(b))
    /\ \A b \in Runs \ Outside : WF_vars(RunStep(b))
    /\ \A b \in Outside : WF_vars(Rebuild(b) \/ RunOn(b))

----------------------------------------------------------------------------
(* Properties. *)

FactType == [rows : SUBSET Ids, content : Nat]
BackfillType == [status : {"pending", "running", "done"}, start : Nat, cursor : Nat, target : Nat,
                 token : Nat]
TickType == [stage : {"history", "dirty"}, wm : Nat, gaps : SUBSET Ids, batch : Nat, more : BOOLEAN,
             single : BOOLEAN, failed : SUBSET Tickets, backing : SUBSET Tickets,
             seen : [Tickets -> Nat]]
RunType == [cursor : Nat, target : Nat, token : Nat]
Status == {"free", "open", "committed", "rolled back"}
Place  == {"idle", "read", "rebuild", "write", "save", "take", "chunk", "finish"}

TypeOK ==
    /\ hist \in [Ids -> Status]
    /\ content \in [Tickets -> Nat] /\ erasing \in [Tickets -> Nat] /\ clock \in Nat
    /\ facts \in [Tickets -> FactType]
    /\ dirty \in [Tickets -> Nat]
    /\ wm \in Nat /\ gaps \subseteq Ids /\ expired \subseteq Ids
    /\ bf \in BackfillType
    /\ pc \in [Builders -> Place]
    /\ tick \in TickType
    /\ todo \in [Builders -> SUBSET Tickets] /\ left \in [Builders -> SUBSET Tickets]
    /\ run \in [Runs -> RunType]
    /\ part \in [Builders -> SUBSET Tickets]
    /\ view \in [Builders -> [Tickets -> FactType]]
    /\ lock \in Builders \cup {None}
    /\ events \in Nat
    /\ givenUp \subseteq Ids /\ overtaken \subseteq Tickets /\ rewound \subseteq Tickets

\* A committed row is in the facts of its ticket, or something that will bring it there still
\* exists: it is ahead of the watermark, a remembered gap, its ticket is marked, or a backfill
\* has not come to the ticket yet.
Accounted(h) ==
    LET t == TicketOf[h]
    IN \/ h \in facts[t].rows
       \/ wm < h
       \/ h \in gaps \cup givenUp
       \/ dirty[t] # 0 \/ t \in overtaken \cup rewound
       \/ bf.status = "pending"
       \/ bf.status = "running" /\ bf.cursor < t /\ t <= bf.target

\* No history row is missed by the watermark, the gap list, the failing tickets, the backfill
\* cursor and the takeovers together (_follow_history, _save_progress, _save_cursor), except the
\* ids that were given up.
NothingMissed == \A h \in Committed : Accounted(h)

\* Facts from before an erasure never stand without a mark that will replace them
\* (_refresh_report_facts, clear_dirty): the erased person does not stay in the reports.
StaleIsMarked ==
    \A t \in Tickets :
        facts[t].rows # {} /\ facts[t].content < content[t] => dirty[t] # 0 \/ t \in overtaken \cup rewound

\* The facts catch up with the history once it rests, through failing rebuilds, crashes and runs
\* taken over (run_report_facts_tick, run_backfill).
FactsCatchUp ==
    <>[](\A t \in Existing : \/ facts[t] = Current(t)
                             \/ t \in overtaken \cup rewound
                             \/ \E h \in givenUp \cap Committed : TicketOf[h] = t)

\* What the docstring of clear_dirty says: a ticket marked again while its rebuild ran keeps its
\* newer mark.
NewerMarkKept == [][\A t \in Tickets : dirty[t] # 0 /\ dirty'[t] = 0 => dirty[t] = tick.seen[t]]_vars

\* What the docstring of run_backfill says: tickets created after a backfill belong to the tick.
LaterTicketsFollowed ==
    bf.status = "done" => \A h \in Committed : TicketOf[h] > bf.target => Accounted(h)
=============================================================================
