---------------------------- MODULE TicketNumber ----------------------------
(***************************************************************************)
(* znuny/ticket_number.py: ticket numbers drawn from the table             *)
(* ticket_number_counter by callers that share nothing but that table.     *)
(*                                                                         *)
(* Every step of ticket_number_counter_add is a short transaction of its   *)
(* own, so every step is an action.  A row gets its id when the INSERT     *)
(* runs and becomes visible ("live") when that transaction commits; in     *)
(* between it is "open" and no SELECT sees it.  A caller may die anywhere; *)
(* its row, if committed, stays in the table with counter 0.               *)
(*                                                                         *)
(* A number is the pair <<day, counter>>: AutoIncrement prints only the    *)
(* counter (day 0), Date and DateChecksum print the day as well.           *)
(***************************************************************************)
EXTENDS Naturals, FiniteSets

CONSTANTS Caller,         \* concurrent calls of ticket_create_number
          SettleHolds,    \* 50 ms are enough for rows with smaller ids to commit
          Imported,       \* numbers of tickets that came from elsewhere
          LoopLimit,      \* _LOOP_PROTECTION_LIMIT
          MaxRows,        \* bound: rows ever inserted into the counter table
          MaxDay          \* bound: midnights that pass

ASSUME CounterAssumption ==
    /\ SettleHolds \in BOOLEAN
    /\ LoopLimit \in Nat \ {0} /\ MaxRows \in Nat /\ MaxDay \in Nat
    /\ Imported \subseteq (Nat \X Nat)

VARIABLES daily,       \* the configured generator restarts its counter every day
          state,       \* row id -> "absent", "open" (uncommitted) or "live"
          counter,     \* row id -> column counter, 0 while unset
          created,     \* row id -> day of column create_time
          lastId,      \* the table's AUTO_INCREMENT
          today,       \* the wall clock, in days
          tickets,     \* column ticket.tn (unique) of the committed tickets
          pc,          \* caller -> next step
          offset,      \* caller -> 1 + loop_counter
          stamp,       \* caller -> create_time it is about to insert
          own,         \* caller -> id of its row, 0 before the INSERT
          midnight,    \* caller -> the day its date condition asks for
          unset,       \* caller -> ids it still has to fill
          offsetDone,  \* caller -> set_offset_done
          new,         \* caller -> new_counter of the row it fills
          number       \* caller -> the number it built

table == <<state, counter, created, lastId>>
call == <<offset, stamp, own, midnight, unset, offsetDone, new, number>>
vars == <<daily, table, today, tickets, pc, call>>

RowId == 1 .. MaxRows
InCall == {"insert", "commit", "settle", "select", "fill", "update", "check", "named"}

Init ==
    /\ daily \in BOOLEAN
    /\ state = [i \in RowId |-> "absent"]
    /\ counter = [i \in RowId |-> 0]
    /\ created = [i \in RowId |-> 0]
    /\ lastId = 0
    /\ today = 0
    /\ tickets = Imported
    /\ pc = [c \in Caller |-> "idle"]
    /\ offset = [c \in Caller |-> 1]
    /\ stamp = [c \in Caller |-> 0]
    /\ own = [c \in Caller |-> 0]
    /\ midnight = [c \in Caller |-> 0]
    /\ unset = [c \in Caller |-> {}]
    /\ offsetDone = [c \in Caller |-> FALSE]
    /\ new = [c \in Caller |-> 0]
    /\ number = [c \in Caller |-> <<0, 0>>]

-----------------------------------------------------------------------------
Goto(c, step) == pc' = [pc EXCEPT ![c] = step]

\* Rows a SELECT of caller c can see: committed, and of its day if date based.
InSeries(i, day) == daily => created[i] >= day
Visible(c) == {i \in RowId : state[i] = "live" /\ InSeries(i, midnight[c])}

Smallest(S) == CHOOSE i \in S : \A j \in S : i <= j
Largest(S) == CHOOSE i \in S : \A j \in S : i >= j

\* SELECT counter ... WHERE id < i ORDER BY id DESC LIMIT 1; no row counts as 0.
PreviousCounter(c, i) ==
    LET before == {j \in Visible(c) : j < i}
    IN  IF before = {} THEN 0 ELSE counter[Largest(before)]

NumberOf(day, count) == <<IF daily THEN day ELSE 0, count>>

-----------------------------------------------------------------------------
(* A call of ticket_create_number: first try, or the try after a collision. *)
StartTry(c, n) ==
    /\ offset' = [offset EXCEPT ![c] = n]
    /\ stamp' = [stamp EXCEPT ![c] = today]
    /\ offsetDone' = [offsetDone EXCEPT ![c] = FALSE]
    /\ own' = [own EXCEPT ![c] = 0]
    /\ Goto(c, "insert")
    /\ UNCHANGED <<daily, table, today, tickets, midnight, unset, new, number>>

TicketCreateNumber(c) == pc[c] = "idle" /\ StartTry(c, 1)

\* Mutant: the caller takes the newest committed id for its own.
MutInsertRow(c) ==
    /\ pc[c] = "insert"
    /\ lastId < MaxRows
    /\ lastId' = lastId + 1
    /\ state' = [state EXCEPT ![lastId + 1] = "open"]
    /\ own' = [own EXCEPT ![c] = lastId]
    /\ Goto(c, "commit")
    /\ UNCHANGED <<daily, counter, created, today, tickets,
                   offset, stamp, midnight, unset, offsetDone, new, number>>

\* Step 1: INSERT ... VALUES (0, uid, now); the id is taken, the row not visible.
InsertRow(c) ==
    /\ pc[c] = "insert"
    /\ lastId < MaxRows
    /\ lastId' = lastId + 1
    /\ state' = [state EXCEPT ![lastId + 1] = "open"]
    /\ created' = [created EXCEPT ![lastId + 1] = stamp[c]]
    /\ own' = [own EXCEPT ![c] = lastId + 1]
    /\ Goto(c, "commit")
    /\ UNCHANGED <<daily, counter, today, tickets, offset, stamp, midnight, unset, offsetDone, new, number>>

CommitRow(c) ==
    /\ pc[c] = "commit"
    /\ state' = [state EXCEPT ![own[c]] = "live"]
    /\ Goto(c, "settle")
    /\ UNCHANGED <<daily, counter, created, lastId, today, tickets, call>>

\* Steps 2 and 3: the 50 ms pass; the date condition is computed after them.
Settle(c) ==
    /\ pc[c] = "settle"
    /\ SettleHolds => \A i \in RowId : i < own[c] => state[i] # "open"
    /\ midnight' = [midnight EXCEPT ![c] = today]
    /\ Goto(c, "select")
    /\ UNCHANGED <<daily, table, today, tickets, offset, stamp, own, unset, offsetDone, new, number>>

\* Mutant: id < own_id.
MutSelectUnset(c) ==
    /\ pc[c] = "select"
    /\ unset' = [unset EXCEPT ![c] = {i \in Visible(c) : i < own[c] /\ counter[i] = 0}]
    /\ Goto(c, "fill")
    /\ UNCHANGED <<daily, table, today, tickets, offset, stamp, own, midnight, offsetDone, new, number>>

\* Step 4: the unset rows up to the caller's own.
SelectUnset(c) ==
    /\ pc[c] = "select"
    /\ unset' = [unset EXCEPT ![c] = {i \in Visible(c) : i <= own[c] /\ counter[i] = 0}]
    /\ Goto(c, "fill")
    /\ UNCHANGED <<daily, table, today, tickets, offset, stamp, own, midnight, offsetDone, new, number>>

\* Mutant: rows after the first are not counted on.
MutNextCounter(c, previous) == previous + (IF offsetDone[c] THEN 0 ELSE offset[c])
\* Step 5, first half: the offset counts once, then the rows are consecutive.
NextCounter(c, previous) == previous + (IF offsetDone[c] THEN 1 ELSE offset[c])

ReadPrevious(c) ==
    /\ pc[c] = "fill"
    /\ unset[c] # {}
    /\ new' = [new EXCEPT ![c] = NextCounter(c, PreviousCounter(c, Smallest(unset[c])))]
    /\ offsetDone' = [offsetDone EXCEPT ![c] = TRUE]
    /\ Goto(c, "update")
    /\ UNCHANGED <<daily, table, today, tickets, offset, stamp, own, midnight, unset, number>>

\* Mutant: UPDATE ... WHERE id = :uid.
MutUpdateRow(c) ==
    /\ pc[c] = "update"
    /\ LET i == Smallest(unset[c])
       IN  counter' = [counter EXCEPT ![i] = new[c]] /\ unset' = [unset EXCEPT ![c] = @ \ {i}]
    /\ Goto(c, "fill")
    /\ UNCHANGED <<daily, state, created, lastId, today, tickets,
                   offset, stamp, own, midnight, offsetDone, new, number>>

\* Mutant: the list of unset rows is asked again and never gets shorter.
MutUpdateRowAgain(c) ==
    /\ pc[c] = "update"
    /\ LET i == Smallest(unset[c])
       IN  counter' = IF counter[i] = 0 THEN [counter EXCEPT ![i] = new[c]] ELSE counter
    /\ Goto(c, "fill")
    /\ UNCHANGED <<daily, state, created, lastId, today, tickets,
                   offset, stamp, own, midnight, unset, offsetDone, new, number>>

\* Step 5, second half: UPDATE ... WHERE id = :uid AND counter = 0.
UpdateRow(c) ==
    /\ pc[c] = "update"
    /\ LET i == Smallest(unset[c])
       IN  /\ counter' = IF counter[i] = 0 THEN [counter EXCEPT ![i] = new[c]] ELSE counter
           /\ unset' = [unset EXCEPT ![c] = @ \ {i}]
    /\ Goto(c, "fill")
    /\ UNCHANGED <<daily, state, created, lastId, today, tickets,
                   offset, stamp, own, midnight, offsetDone, new, number>>

\* Step 6 and the formatter, which asks the clock again.
ReadBack(c) ==
    /\ pc[c] = "fill"
    /\ unset[c] = {}
    /\ number' = [number EXCEPT ![c] = NumberOf(today, counter[own[c]])]
    /\ Goto(c, "check")
    /\ UNCHANGED <<daily, table, today, tickets, offset, stamp, own, midnight, unset, offsetDone, new>>

\* Mutant: the number is used unchecked.
MutNumberFree(c) == pc[c] = "check" /\ Goto(c, "named") /\ UNCHANGED <<daily, table, today, tickets, call>>
\* SELECT id FROM ticket WHERE tn = :tn, in a session of its own.
NumberFree(c) ==
    /\ pc[c] = "check"
    /\ number[c] \notin tickets
    /\ Goto(c, "named")
    /\ UNCHANGED <<daily, table, today, tickets, call>>

NumberTaken(c) ==
    /\ pc[c] = "check"
    /\ number[c] \in tickets
    /\ offset[c] < LoopLimit
    /\ StartTry(c, offset[c] + 1)

LoopProtection(c) ==
    /\ pc[c] = "check"
    /\ number[c] \in tickets
    /\ offset[c] >= LoopLimit
    /\ Goto(c, "failed")
    /\ UNCHANGED <<daily, table, today, tickets, call>>

\* create_ticket inserts the ticket; ticket.tn has a unique index.
CreateTicket(c) ==
    /\ pc[c] = "named"
    /\ IF number[c] \in tickets
       THEN Goto(c, "duplicate") /\ UNCHANGED tickets
       ELSE Goto(c, "idle") /\ tickets' = tickets \cup {number[c]}
    /\ UNCHANGED <<daily, table, today, call>>

-----------------------------------------------------------------------------
\* The process dies; an INSERT not yet committed is rolled back, its id is lost.
Crash(c) ==
    /\ pc[c] \in InCall
    /\ state' = IF pc[c] = "commit" THEN [state EXCEPT ![own[c]] = "absent"] ELSE state
    /\ Goto(c, "dead")
    /\ UNCHANGED <<daily, counter, created, lastId, today, tickets, call>>

Midnight ==
    /\ today < MaxDay
    /\ today' = today + 1
    /\ UNCHANGED <<daily, table, tickets, pc, call>>

Step(c) ==
    \/ InsertRow(c) \/ CommitRow(c) \/ Settle(c) \/ SelectUnset(c) \/ ReadPrevious(c)
    \/ UpdateRow(c) \/ ReadBack(c) \/ NumberFree(c) \/ NumberTaken(c) \/ LoopProtection(c)
    \/ CreateTicket(c)

Next ==
    \/ \E c \in Caller : TicketCreateNumber(c) \/ Step(c) \/ Crash(c)
    \/ Midnight

Spec == Init /\ [][Next]_vars
\* A call that was made runs on until it ends or its process dies.
FairSpec == Spec /\ \A c \in Caller : WF_vars(Step(c))

-----------------------------------------------------------------------------
HasRow(c) == pc[c] \in InCall \ {"insert"}

TypeOK ==
    /\ daily \in BOOLEAN
    /\ state \in [RowId -> {"absent", "open", "live"}]
    /\ counter \in [RowId -> Nat]
    /\ created \in [RowId -> Nat]
    /\ lastId \in 0 .. MaxRows
    /\ today \in 0 .. MaxDay
    /\ tickets \subseteq (Nat \X Nat)
    /\ pc \in [Caller -> InCall \cup {"idle", "failed", "duplicate", "dead"}]
    /\ offset \in [Caller -> Nat \ {0}]
    /\ stamp \in [Caller -> Nat]
    /\ own \in [Caller -> 0 .. MaxRows] /\ \A c \in Caller : HasRow(c) => own[c] \in RowId
    /\ midnight \in [Caller -> Nat]
    /\ unset \in [Caller -> SUBSET RowId]
    /\ offsetDone \in [Caller -> BOOLEAN]
    /\ new \in [Caller -> Nat]
    /\ number \in [Caller -> Nat \X Nat]

SameSeries(i, j) == daily => created[i] = created[j]

(* Counters of one series grow with the row id, whatever callers race or die *)
(* on the way: no two rows of a series ever share a counter.                 *)
CountersIncrease ==
    \A i, j \in RowId :
        (i < j /\ SameSeries(i, j) /\ counter[i] > 0 /\ counter[j] > 0) => counter[i] < counter[j]

(* A counter handed out is never changed again: a caller that comes late with *)
(* a value computed from old reads does not overwrite it.                     *)
CountersFixed ==
    [][\A i \in RowId : counter[i] > 0 => counter'[i] = counter[i]]_vars

(* ticket_number_counter_add returns "its computed counter value": when a     *)
(* caller has walked its rows, its own row is filled, if the counter never    *)
(* restarts.                                                                  *)
OwnRowFilled ==
    ~daily => \A c \in Caller : (pc[c] = "fill" /\ unset[c] = {}) => counter[own[c]] > 0

(* ticket_create_number returns a unique number: no other call holds it and   *)
(* it still is free when create_ticket uses it, although the check and the    *)
(* insert are separate transactions.  (For a counter that never restarts.)    *)
DifferentNumbers ==
    \A c \in Caller : pc[c] = "named" =>
        /\ number[c] \notin tickets
        /\ \A d \in Caller \ {c} : pc[d] = "named" => number[d] # number[c]
NumbersUnique == ~daily => DifferentNumbers

(* The same, promised for the generators with a daily counter too. *)
DailyNumbersUnique == daily => DifferentNumbers

(* Lock-free: an attempt ends although other callers died with their rows     *)
(* open or unset.  (It ends at "insert" when the number was taken.)           *)
AttemptsEnd ==
    \A c \in Caller : (pc[c] = "commit") ~> (pc[c] \notin InCall \ {"insert"})
-----------------------------------------------------------------------------
(* Why counters increase.  Each part is about what one caller may rely on    *)
(* while the others go on.                                                   *)
Walking(c) == pc[c] \in {"fill", "update"}

\* The clock has reached every day written down; ids are handed out in order.
TableInv ==
    /\ \A i \in RowId : i > lastId => state[i] = "absent"
    /\ \A i \in RowId : counter[i] > 0 => state[i] = "live"
    /\ \A i \in RowId : created[i] <= today
    /\ \A c \in Caller : stamp[c] <= today

\* Two callers never own the same row.
OwnInv ==
    /\ \A c \in Caller : HasRow(c) => own[c] \in 1 .. lastId
    /\ \A c \in Caller : pc[c] = "commit" => state[own[c]] = "open"
    /\ \A c \in Caller : pc[c] \in {"settle", "select", "fill", "update"} => state[own[c]] = "live"
    /\ \A c, d \in Caller : (HasRow(c) /\ HasRow(d) /\ c # d) => own[c] # own[d]

\* The set rows of a series are a prefix of it.
PrefixInv ==
    \A i, j \in RowId :
        (i < j /\ SameSeries(i, j) /\ state[i] # "absent" /\ counter[i] = 0) => counter[j] = 0

\* After the settle window a caller has seen every row up to its own.
SettledInv ==
    \A c \in Caller : pc[c] \in {"select", "fill", "update"} =>
        /\ \A i \in RowId : i < own[c] => state[i] # "open"
        /\ \A i \in RowId : i <= own[c] => created[i] <= midnight[c]

\* What a caller has passed is set, and new is above all of it.
WalkInv ==
    \A c \in Caller : Walking(c) =>
        /\ unset[c] \subseteq {i \in Visible(c) : i <= own[c]}
        /\ \A i \in Visible(c) : (i <= own[c] /\ i \notin unset[c]) => counter[i] > 0
        /\ pc[c] = "update" =>
              /\ unset[c] # {}
              /\ new[c] > 0
              /\ \A i \in Visible(c) : i < Smallest(unset[c]) => counter[i] < new[c]

CounterInv == TableInv /\ OwnInv /\ PrefixInv /\ SettledInv /\ WalkInv /\ CountersIncrease

\* A caller past the read-back holds the counter of its own row; once the number
\* was found free, no ticket takes it away.  (For a counter that never restarts.)
NumberInv ==
    ~daily => \A c \in Caller :
        /\ pc[c] \in {"check", "named"} =>
              number[c] = <<0, counter[own[c]]>> /\ counter[own[c]] > 0
        /\ pc[c] = "named" => number[c] \notin tickets
=============================================================================
