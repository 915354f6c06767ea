----------------------------- MODULE TicketLock -----------------------------
(***************************************************************************)
(* One ticket under several agents (domain/ticket_write_service.py) and    *)
(* the timers of any number of workers (worker/unlock_timeout.py,          *)
(* worker/pending_check.py; Znuny's daemon runs the same two).             *)
(*                                                                         *)
(* An agent's call is a transaction: plain reads, which decide what it     *)
(* will write, then UPDATEs.  From its first UPDATE on it holds the row    *)
(* and reads it as it is, so that UPDATE, what follows it and the commit   *)
(* are one action.  Before it, plain reads see the transaction's view on   *)
(* MariaDB; on PostgreSQL each sees what is committed when it runs.        *)
(* Timers select without a lock and then settle under SELECT ... FOR       *)
(* UPDATE, as their first statement, so what they read is current.         *)
(*                                                                         *)
(* Left out: permissions, RequiredLock switched off, tmp_lock, the customer*)
(* of a follow-up (whose article resets the timeout like an agent's).      *)
(***************************************************************************)
EXTENDS Naturals

CONSTANTS
    Agent, Root,    \* Root owns new tickets and never acts
    UnlockLoop, PendingLoop,    \* the workers' loops of each timer
    Databases,      \* subset of {"mariadb", "postgresql"}
    AfterPending,   \* what Ticket::StateAfterPending may say: a state type, or "none" when the
                    \* state has no entry or its target is missing or invalid
    UnlockAfter,    \* queue.unlock_timeout, in working time (0 would switch the timer off)
    Interval,       \* daemon.pending_check.reminder_interval_seconds
    MaxTime,        \* bound on the clock
    MaxCalls,       \* bound on calls
    MaxFaults       \* bound on aborted calls and interrupted ticks

ASSUME TicketLockAssumption ==
    /\ Root \notin Agent
    /\ AfterPending \subseteq {"open", "closed", "none"}
    /\ UnlockAfter \in Nat \ {0} /\ Interval \in Nat \ {0}
    /\ MaxTime \in Nat \ {0} /\ MaxCalls \in Nat /\ MaxFaults \in Nat

VARIABLES
    db, after,  \* how this installation is set up: its database, its entry of AfterPending
    now,
    ticket,     \* the committed row
    sent,       \* deadline -> when its last reminder was sent (tiqora_event_outbox), 0 for never
    pc,         \* the statement an agent's call comes to next
    call,       \* what it was asked for
    began,      \* when it started
    saw,        \* the row its decisions were made on
    view,       \* the row its last plain read has seen
    unlocking,  \* time of an unlock-timeout tick that has selected the ticket, 0 for none
    checking,   \* the same of a pending-check tick
    calls, faults,
    lockedAt,   \* history: when the ticket was last locked
    early       \* history: a late call has left a timeout from before that

row     == <<ticket, sent>>
agents  == <<pc, call, began, saw, view, calls>>
timers  == <<unlocking, checking>>
history == <<lockedAt, early>>
vars    == <<db, after, now, row, agents, timers, faults, history>>

Times   == 0..MaxTime
Pending == {"reminder", "auto"}
Types   == Pending \cup {"open", "closed"}
Tickets == [type : Types, until : Times, lock : BOOLEAN, owner : Agent \cup {Root}, timeout : Times]

\* Calls: acquire-lock, with takeover or not; PATCH of lock, owner and state; an article.
Kinds == {"acquire", "takeover", "lock", "unlock", "article", "owner", "state"}
Plain == [kind |-> "none", to |-> Root, type |-> "open", until |-> 0]
Calls ==
    {c \in [kind : Kinds, to : Agent \cup {Root}, type : Types, until : Times] :
        /\ c.kind = "owner" <=> c.to # Root
        /\ c.kind # "state" => c.type = "open"
        /\ c.kind = "state" /\ c.type \in Pending <=> c.until # 0}

\* What the session of an agent who is calling nothing has read.
Unread == [type |-> "open", until |-> 0, lock |-> FALSE, owner |-> Root, timeout |-> 0]

Acquires(c) == c.kind \in {"acquire", "takeover"}
Closes(c)   == c.kind = "state" /\ c.type = "closed"

Init ==
    /\ db \in Databases /\ after \in AfterPending /\ now = 1
    /\ \E lock \in BOOLEAN, o \in Agent \cup {Root} :
          ticket = [type |-> "open", until |-> 0, lock |-> lock, owner |-> o, timeout |-> 1]
    /\ sent = [d \in Times |-> 0]
    /\ pc = [a \in Agent |-> "idle"] /\ call = [a \in Agent |-> Plain]
    /\ began = [a \in Agent |-> 0]
    /\ saw = [a \in Agent |-> Unread] /\ view = [a \in Agent |-> Unread]
    /\ unlocking = [w \in UnlockLoop |-> 0] /\ checking = [w \in PendingLoop |-> 0]
    /\ calls = 0 /\ faults = 0
    /\ lockedAt = 1 /\ early = FALSE

PassTime ==
    /\ now < MaxTime /\ now' = now + 1
    /\ UNCHANGED <<db, after, row, agents, timers, faults, history>>

----------------------------------------------------------------------------
(* What the core functions make of a row. *)

\* Mutant: the unlock timeout is not restarted.
MutLocked(t) == [t EXCEPT !.lock = TRUE]

\* Mutant: the end of the timeout is stored instead of its start.
MutLockedUntil(t) == [t EXCEPT !.lock = TRUE, !.timeout = now + UnlockAfter]

\* lock_ticket, which restarts the unlock timeout.
Locked(t) == [t EXCEPT !.lock = TRUE, !.timeout = now]
Unlocked(t) == [t EXCEPT !.lock = FALSE]

\* Mutant: the UPDATE leaves the lock alone.
MutOwned(t, seen, owner) ==
    IF seen.owner = owner THEN t ELSE [t EXCEPT !.owner = owner]

\* assign_owner, which writes back the lock it has read.
Owned(t, seen, owner) ==
    IF seen.owner = owner THEN t ELSE [t EXCEPT !.owner = owner, !.lock = seen.lock]

\* change_state: only a pending state has a pending time.
InState(t, type, until) ==
    [t EXCEPT !.type = type, !.until = IF type \in Pending THEN until ELSE 0]

----------------------------------------------------------------------------
(* Agents. *)

Finish(a) ==
    /\ pc' = [pc EXCEPT ![a] = "idle"] /\ call' = [call EXCEPT ![a] = Plain]
    /\ began' = [began EXCEPT ![a] = 0]
    /\ saw' = [saw EXCEPT ![a] = Unread] /\ view' = [view EXCEPT ![a] = Unread]

\* The first thing a call does after it has read the ticket; acquire_lock decides here: who holds
\* the lock keeps it, who finds it with another asks again for a takeover.
First(a, c) ==
    IF ~(Acquires(c) \/ Closes(c)) THEN c.kind
    ELSE IF ~ticket.lock THEN "lock"
    ELSE IF Closes(c) THEN "state"
    ELSE IF ticket.owner = a \/ c.kind = "acquire" THEN "end" ELSE "owner"

Start(a, c) ==
    /\ pc[a] = "idle" /\ calls < MaxCalls
    /\ calls' = calls + 1
    /\ First(a, c) # "end" /\ pc' = [pc EXCEPT ![a] = First(a, c)]
    /\ call' = [call EXCEPT ![a] = c] /\ began' = [began EXCEPT ![a] = now]
    /\ saw' = [saw EXCEPT ![a] = ticket] /\ view' = [view EXCEPT ![a] = ticket]
    /\ UNCHANGED <<db, after, now, row, timers, faults, history>>

\* PostgreSQL: every further plain read sees what is committed by then.
ReadAgain(a) ==
    /\ db = "postgresql" /\ pc[a] # "idle" /\ view[a] # ticket
    /\ view' = [view EXCEPT ![a] = ticket]
    /\ UNCHANGED <<db, after, now, row, pc, call, began, saw, calls, timers, faults, history>>

\* A function that found nothing to write returns; the call goes on, or ends.
GoOn(a, next) ==
    /\ \/ next = "end" /\ Finish(a)
       \/ next # "end" /\ pc' = [pc EXCEPT ![a] = next]
                       /\ UNCHANGED <<call, began, saw, view>>
    /\ UNCHANGED <<db, after, now, row, calls, timers, faults, history>>

AfterOwner(a) == IF Closes(call[a]) THEN "state" ELSE "end"
AfterLock(a)  == IF saw[a].owner # a THEN "owner" ELSE AfterOwner(a)

\* The rest of a call that closes: change_state, unlock_ticket.
Rest(a, t) == IF Closes(call[a]) THEN Unlocked(InState(t, "closed", 0)) ELSE t

\* The first UPDATE that writes, what follows it and the commit.
Write(a, t) ==
    /\ ticket' = t
    /\ Finish(a)
    /\ UNCHANGED <<db, after, now, sent, calls, timers, faults>>

LockStep(a) ==
    /\ pc[a] = "lock"
    /\ \/ view[a].lock /\ GoOn(a, AfterLock(a))
       \/ /\ ~view[a].lock
          /\ LET locked == Locked(ticket)
             IN Write(a, Rest(a, IF saw[a].owner # a THEN Owned(locked, locked, a) ELSE locked))
          /\ lockedAt' = now /\ early' = FALSE

OwnerStep(a) ==
    LET owner == IF call[a].kind = "owner" THEN call[a].to ELSE a
    IN /\ pc[a] = "owner"
       /\ \/ view[a].owner = owner /\ GoOn(a, AfterOwner(a))
          \/ /\ view[a].owner # owner
             /\ Write(a, Rest(a, Owned(ticket, view[a], owner)))
             /\ IF ticket'.lock /\ ~ticket.lock THEN lockedAt' = now /\ early' = TRUE
                                               ELSE UNCHANGED <<lockedAt, early>>

StateStep(a) ==
    /\ pc[a] = "state"
    /\ Write(a, Rest(a, InState(ticket, call[a].type, call[a].until)))
    /\ UNCHANGED <<lockedAt, early>>

UnlockStep(a) ==
    /\ pc[a] = "unlock"
    /\ \/ ~view[a].lock /\ GoOn(a, "end")
       \/ view[a].lock /\ Write(a, Unlocked(ticket)) /\ UNCHANGED <<lockedAt, early>>

\* When add_article may have looked at the clock: after its INSERT, whose foreign key holds the
\* ticket on MariaDB, though plain reads still see the old row.  PostgreSQL lets others write.
IncomingTimes(a) == IF db = "mariadb" THEN {now} ELSE began[a]..now

\* add_article, whose last write resets the timeout.
ArticleStep(a) == \E incoming \in IncomingTimes(a) :
    /\ pc[a] = "article"
    /\ \/ view[a].timeout = incoming /\ GoOn(a, "end")
       \/ /\ view[a].timeout # incoming
          /\ Write(a, [ticket EXCEPT !.timeout = incoming])
          /\ early' = (incoming < lockedAt)
          /\ UNCHANGED lockedAt

\* The transaction fails, or its process dies.
Abort(a) ==
    /\ pc[a] # "idle"
    /\ faults < MaxFaults /\ faults' = faults + 1
    /\ Finish(a)
    /\ UNCHANGED <<db, after, now, row, calls, timers, history>>

Act(a) == ReadAgain(a) \/ LockStep(a) \/ OwnerStep(a) \/ StateStep(a) \/ UnlockStep(a) \/ ArticleStep(a)

----------------------------------------------------------------------------
(* Timers. *)

MayExpire == ticket.type = "open" /\ ticket.lock

SelectUnlock(w) ==
    /\ unlocking[w] = 0 /\ MayExpire
    /\ unlocking' = [unlocking EXCEPT ![w] = now]
    /\ UNCHANGED <<db, after, now, row, agents, checking, faults, history>>

\* run_unlock_timeout_tick asks again under the row lock, with the time of its selection.
SettleUnlock(w) ==
    /\ unlocking[w] # 0
    /\ ticket' = IF MayExpire /\ ticket.timeout + UnlockAfter <= unlocking[w]
                    THEN Unlocked(ticket) ELSE ticket
    /\ unlocking' = [unlocking EXCEPT ![w] = 0]
    /\ UNCHANGED <<db, after, now, sent, agents, checking, faults, history>>

SelectPending(w) ==
    /\ checking[w] = 0
    /\ ticket.type \in Pending /\ 0 < ticket.until /\ ticket.until <= now
    /\ checking' = [checking EXCEPT ![w] = now]
    /\ UNCHANGED <<db, after, now, row, agents, unlocking, faults, history>>

\* Mutant: the comparison is turned around.
MutStillDue(w) == ticket.until # 0 /\ checking[w] <= ticket.until

StillDue(w) == ticket.until # 0 /\ ticket.until <= checking[w]

\* A due "pending auto" moves on; what it closes it also unlocks.
Transition(w) ==
    /\ StillDue(w) /\ ticket.type = "auto"
    /\ after # "none"
    /\ ticket' = IF after = "closed" THEN Unlocked(InState(ticket, "closed", 0))
                                     ELSE InState(ticket, after, 0)
    /\ UNCHANGED sent

\* A reminder, unless one was sent less than the interval ago.
ReminderDue(w) ==
    LET last == sent[ticket.until] IN last = 0 \/ last + Interval <= checking[w]

Remind(w) ==
    /\ StillDue(w) /\ ticket.type = "reminder" /\ ReminderDue(w)
    /\ sent' = [sent EXCEPT ![ticket.until] = checking[w]]
    /\ UNCHANGED ticket

\* Not due any more, a reminder that is not due again or falls outside the calendar's working
\* hours, or a "pending auto" that has nowhere to go.
Skip(w) ==
    /\ StillDue(w) /\ ticket.type = "auto" => after = "none"
    /\ UNCHANGED <<ticket, sent>>

SettlePending(w) ==
    /\ checking[w] # 0
    /\ Transition(w) \/ Remind(w) \/ Skip(w)
    /\ checking' = [checking EXCEPT ![w] = 0]
    /\ UNCHANGED <<db, after, now, agents, unlocking, faults, history>>

\* An error, or the worker dies; the next tick selects again.
Interrupted == faults < MaxFaults /\ faults' = faults + 1 /\ UNCHANGED <<db, after, now, row, agents, history>>

InterruptUnlock(w) ==
    /\ unlocking[w] # 0 /\ unlocking' = [unlocking EXCEPT ![w] = 0]
    /\ Interrupted /\ UNCHANGED checking

InterruptPending(w) ==
    /\ checking[w] # 0 /\ checking' = [checking EXCEPT ![w] = 0]
    /\ Interrupted /\ UNCHANGED unlocking

----------------------------------------------------------------------------
Next ==
    \/ PassTime
    \/ \E a \in Agent : (\E c \in Calls : Start(a, c)) \/ Act(a) \/ Abort(a)
    \/ \E w \in UnlockLoop : SelectUnlock(w) \/ SettleUnlock(w) \/ InterruptUnlock(w)
    \/ \E w \in PendingLoop : SelectPending(w) \/ SettlePending(w) \/ InterruptPending(w)

Spec == Init /\ [][Next]_vars

\* The worker's loops go on.
FairSpec ==
    /\ Spec
    /\ \A w \in UnlockLoop : WF_vars(SelectUnlock(w)) /\ WF_vars(SettleUnlock(w))
    /\ \A w \in PendingLoop : WF_vars(SelectPending(w)) /\ WF_vars(SettlePending(w))

----------------------------------------------------------------------------
(* Properties. *)

TypeOK ==
    /\ db \in Databases /\ after \in AfterPending /\ now \in Times
    /\ ticket \in Tickets /\ sent \in [Times -> Times]
    /\ pc \in [Agent -> {"idle", "lock", "owner", "state", "unlock", "article"}]
    /\ call \in [Agent -> Calls \cup {Plain}]
    /\ began \in [Agent -> Times]
    /\ saw \in [Agent -> Tickets] /\ view \in [Agent -> Tickets]
    /\ unlocking \in [UnlockLoop -> Times] /\ checking \in [PendingLoop -> Times]
    /\ calls \in Nat /\ faults \in Nat
    /\ lockedAt \in Times /\ early \in BOOLEAN

\* A call to acquire the lock comes to its end.
Acquired(a) == Acquires(call[a]) /\ (LockStep(a) \/ OwnerStep(a)) /\ pc'[a] = "idle"

\* Who is told "acquired" or "taken_over" without having owned the ticket before has become its
\* owner, or has found it given to him meanwhile; on MariaDB he then owns it and holds the lock.
BecomesOwner(a) ==
    saw[a].owner # a =>
        /\ ticket'.owner = a \/ view[a].owner = a
        /\ db = "mariadb" => ticket'.owner = a /\ ticket'.lock

\* Who asks without takeover takes the ticket from nobody who held the lock before the call.
RobsNobody(a) ==
    call[a].kind = "acquire" /\ ticket.lock /\ ticket.owner # ticket'.owner => began[a] <= lockedAt

\* What remains true of the answers of acquire_lock, whose reads take no lock, whatever other
\* agents and timers do between its reads and its writes.  The rest of its docstring is false:
\* the caller who already owned the ticket is told "acquired" though another agent has taken it
\* meanwhile, and on PostgreSQL "taken_over" though a timer has unlocked it.
AcquireIsSafe == [][\A a \in Agent : Acquired(a) => BecomesOwner(a) /\ RobsNobody(a)]_vars

\* A timer takes a lock only when it has stood for the whole timeout, though the ticket was
\* selected before.  Only a late call can make it shorter: an article that looked at the clock
\* before the lock and is stored after it, or an owner change that writes back the lock a timer
\* has just taken.
TakesIdleLocks ==
    \A w \in UnlockLoop :
        SettleUnlock(w) /\ ticket' # ticket /\ ~early => lockedAt + UnlockAfter <= now

\* Two ticks that have selected the same ticket do not both remind.
SpacesReminders ==
    \A d \in Times : sent'[d] # sent[d] => sent[d] = 0 \/ sent[d] + Interval <= sent'[d]

\* Timers that act on old selections neither take a fresh lock nor remind twice
\* (run_unlock_timeout_tick, run_pending_check_tick).
TimersAreCareful == [][TakesIdleLocks /\ SpacesReminders]_vars

AutoDue  == ticket.type = "auto" /\ ticket.until # 0 /\ ticket.until <= now
LockIdle == MayExpire /\ ticket.timeout + UnlockAfter <= now

\* A due ticket that has somewhere to go is not forgotten: it moves on, or an agent gives it
\* another time; and an idle lock goes. (the timers' ticks, which skip a ticket that has changed
\* since they selected it; without a target a ticket stays due for ever)
TimersAct == (AutoDue /\ after # "none" ~> ~AutoDue) /\ (LockIdle ~> ~LockIdle)
=============================================================================
