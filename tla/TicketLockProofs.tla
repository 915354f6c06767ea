-------------------------- MODULE TicketLockProofs --------------------------
(***************************************************************************)
(* What can be relied on of the answers about the lock, and that timers    *)
(* are careful, for any agents, timer loops, databases, times and numbers  *)
(* of calls.                                                               *)
(*                                                                         *)
(* The invariant says what a call may rely on while others write: on       *)
(* MariaDB it reads what it has read, it comes to the owner only where it  *)
(* has to, and a lock it has not seen was set after it began.  And it      *)
(* says that the timeout of a ticket runs from its last lock on, unless a  *)
(* late call has written it.                                               *)
(***************************************************************************)
EXTENDS TicketLock, TLAPS

\* A call that acquires comes to the owner only if another owned the ticket, and on MariaDB only
\* for a lock it has seen.
OnItsWay(a) ==
    \/ pc[a] = "lock" /\ ~saw[a].lock
    \/ pc[a] = "owner" /\ saw[a].owner # a /\ (db = "mariadb" => saw[a].lock)

Relies(a) ==
    pc[a] # "idle" => /\ db = "mariadb" => view[a] = saw[a]
                      /\ Acquires(call[a]) => OnItsWay(a)
                      /\ call[a].kind = "acquire" => ~saw[a].lock
                      /\ ticket.lock /\ ~saw[a].lock => began[a] <= lockedAt

ReadsHold == \A a \in Agent : Relies(a) /\ began[a] <= now

TimeoutHolds == ~early => lockedAt <= ticket.timeout

SelectedBefore == \A w \in UnlockLoop : unlocking[w] <= now

IInv == TypeOK /\ ReadsHold /\ TimeoutHolds /\ SelectedBefore

----------------------------------------------------------------------------
(* Rows and calls. *)

LEMMA RowsStayRows ==
    ASSUME now \in Times, NEW t \in Tickets
    PROVE  /\ Locked(t) \in Tickets /\ Unlocked(t) \in Tickets
           /\ \A s \in Tickets, o \in Agent : Owned(t, s, o) \in Tickets
           /\ \A type \in Types, until \in Times : InState(t, type, until) \in Tickets
           /\ \A i \in Times : [t EXCEPT !.timeout = i] \in Tickets
           /\ \A a \in Agent : Rest(a, t) \in Tickets
<1>1. 0 \in Times /\ "closed" \in Types
  BY TicketLockAssumption DEF Times, Types
<1>2. Locked(t) \in Tickets /\ Unlocked(t) \in Tickets
  BY DEF Locked, Unlocked, Tickets
<1>3. \A s \in Tickets, o \in Agent : Owned(t, s, o) \in Tickets
  BY DEF Owned, Tickets
<1>4. \A type \in Types, until \in Times : InState(t, type, until) \in Tickets
  BY <1>1 DEF InState, Tickets
<1>5. \A i \in Times : [t EXCEPT !.timeout = i] \in Tickets
  BY DEF Tickets
<1>6. \A a \in Agent : Rest(a, t) \in Tickets
  <2>1. InState(t, "closed", 0) \in Tickets
    BY <1>1, <1>4
  <2> QED
    BY <2>1 DEF Rest, Unlocked, Tickets
<1> QED
  BY <1>2, <1>3, <1>4, <1>5, <1>6

LEMMA CallFields ==
    ASSUME NEW c \in Calls \cup {Plain}
    PROVE  /\ c.kind \in Kinds \cup {"none"} /\ c.to \in Agent \cup {Root}
           /\ c.type \in Types /\ c.until \in Times
           /\ c.kind = "owner" => c.to \in Agent
<1>1. 0 \in Times /\ "open" \in Types
  BY TicketLockAssumption DEF Times, Types
<1>2. CASE c = Plain
  BY <1>1, <1>2 DEF Plain
<1>3. CASE c \in Calls
  BY <1>3 DEF Calls
<1> QED
  BY <1>2, <1>3

\* The row at the end of a write: who owns it, whether it is locked, and since when.
LEMMA RowFacts ==
    ASSUME now \in Times, NEW t \in Tickets
    PROVE  /\ Locked(t).lock /\ Locked(t).owner = t.owner /\ Locked(t).timeout = now
           /\ ~Unlocked(t).lock /\ Unlocked(t).owner = t.owner /\ Unlocked(t).timeout = t.timeout
           /\ \A s \in Tickets, o \in Agent :
                 /\ Owned(t, s, o).timeout = t.timeout
                 /\ s.owner # o => Owned(t, s, o).owner = o /\ Owned(t, s, o).lock = s.lock
           /\ \A type \in Types, until \in Times :
                 /\ InState(t, type, until).timeout = t.timeout
                 /\ InState(t, type, until).owner = t.owner
                 /\ InState(t, type, until).lock = t.lock
           /\ \A i \in Times : /\ [t EXCEPT !.timeout = i].timeout = i
                               /\ [t EXCEPT !.timeout = i].owner = t.owner
                               /\ [t EXCEPT !.timeout = i].lock = t.lock
           /\ \A a \in Agent : /\ Rest(a, t).timeout = t.timeout
                               /\ Rest(a, t).lock => t.lock
                               /\ ~Closes(call[a]) => Rest(a, t) = t
<1>1. /\ Locked(t).lock /\ Locked(t).owner = t.owner /\ Locked(t).timeout = now
      /\ ~Unlocked(t).lock /\ Unlocked(t).owner = t.owner /\ Unlocked(t).timeout = t.timeout
  BY DEF Locked, Unlocked, Tickets
<1>2. ASSUME NEW s \in Tickets, NEW o \in Agent
      PROVE  /\ Owned(t, s, o).timeout = t.timeout
             /\ s.owner # o => Owned(t, s, o).owner = o /\ Owned(t, s, o).lock = s.lock
  BY DEF Owned, Tickets
<1>3. ASSUME NEW type, NEW until
      PROVE  /\ InState(t, type, until).timeout = t.timeout
             /\ InState(t, type, until).owner = t.owner
             /\ InState(t, type, until).lock = t.lock
  BY DEF InState, Tickets
<1>4. \A i \in Times : /\ [t EXCEPT !.timeout = i].timeout = i
                      /\ [t EXCEPT !.timeout = i].owner = t.owner
                      /\ [t EXCEPT !.timeout = i].lock = t.lock
  BY DEF Tickets
<1>5. ASSUME NEW a \in Agent
      PROVE  /\ Rest(a, t).timeout = t.timeout /\ (Rest(a, t).lock => t.lock)
             /\ ~Closes(call[a]) => Rest(a, t) = t
  BY DEF Rest, InState, Unlocked, Tickets
<1> QED
  BY <1>1, <1>2, <1>3, <1>4, <1>5

LEMMA InitKeeps == Init => IInv
<1> SUFFICES ASSUME Init PROVE IInv
  OBVIOUS
<1>1. 0 \in Times /\ 1 \in Times /\ now = 1 /\ 0 <= 1
  BY TicketLockAssumption DEF Init, Times
<1>2. ticket \in Tickets /\ Unread \in Tickets /\ ticket.timeout = 1
  BY <1>1 DEF Init, Tickets, Types, Unread
<1>3. TypeOK
  BY <1>1, <1>2 DEF Init, TypeOK
<1> QED
  BY <1>1, <1>2, <1>3 DEF Init, IInv, ReadsHold, Relies, TimeoutHolds, SelectedBefore

----------------------------------------------------------------------------
(* Agents. *)

\* Whatever is locked now was locked before, or is locked at this moment.
Since == lockedAt' = now \/ (lockedAt' = lockedAt /\ (ticket'.lock => ticket.lock))

\* A call that ends forgets what it has read; the others rely on what they did.
LEMMA FinishKeeps ==
    ASSUME IInv, NEW a \in Agent, Finish(a), ticket' \in Tickets, TimeoutHolds', Since,
           UNCHANGED <<db, after, now, sent, timers, calls>>,
           faults' \in Nat, lockedAt' \in Times, early' \in BOOLEAN
    PROVE  IInv'
<1> USE DEF Finish
<1>1. Plain \in Calls \cup {Plain} /\ Unread \in Tickets /\ 0 \in Times /\ now \in Nat
  BY TicketLockAssumption DEF Unread, Tickets, Types, Times, IInv, TypeOK
<1>2. TypeOK'
  BY <1>1 DEF IInv, TypeOK, timers
<1>3. ReadsHold'
  <2> SUFFICES ASSUME NEW b \in Agent PROVE Relies(b)' /\ (began[b] <= now)'
    BY DEF ReadsHold
  <2>1. CASE b = a
    <3>1. pc'[b] = "idle" /\ began'[b] = 0
      BY <2>1 DEF IInv, TypeOK
    <3>2. 0 <= now' 
      BY <1>1
    <3> QED
      BY <3>1, <3>2 DEF Relies
  <2>2. CASE b # a
    <3>1. /\ pc'[b] = pc[b] /\ saw'[b] = saw[b] /\ view'[b] = view[b] /\ call'[b] = call[b]
          /\ began'[b] = began[b] /\ db' = db /\ now' = now
      BY <2>2 DEF IInv, TypeOK
    <3>2. Relies(b) /\ began[b] <= now
      BY DEF IInv, ReadsHold
    <3>3. pc[b] # "idle" /\ ticket'.lock /\ ~saw[b].lock => began[b] <= lockedAt'
      BY <3>2 DEF Relies, Since
    <3> QED
      BY <3>1, <3>2, <3>3 DEF Relies, OnItsWay, Acquires
  <2> QED
    BY <2>1, <2>2
<1>4. SelectedBefore'
  BY DEF IInv, SelectedBefore, timers
<1> QED
  BY <1>2, <1>3, <1>4 DEF IInv

LEMMA WriteKeeps ==
    ASSUME IInv, NEW a \in Agent, NEW t \in Tickets, Write(a, t), TimeoutHolds', Since,
           lockedAt' \in Times, early' \in BOOLEAN
    PROVE  IInv'
<1>1. /\ faults' \in Nat /\ ticket' \in Tickets /\ Finish(a)
      /\ UNCHANGED <<db, after, now, sent, timers, calls>>
  BY DEF Write, IInv, TypeOK
<1> QED
  BY <1>1, FinishKeeps

LEMMA GoOnKeeps ==
    ASSUME IInv, NEW a \in Agent, NEW next \in {"end", "owner", "state"}, GoOn(a, next),
           pc[a] # "idle",
           Acquires(call[a]) /\ next # "end" =>
              next = "owner" /\ saw[a].owner # a /\ db # "mariadb"
    PROVE  IInv'
<1>1. TimeoutHolds'
  BY DEF GoOn, row, history, IInv, TimeoutHolds
<1>2. CASE next = "end"
  <2>1. /\ Finish(a) /\ ticket' = ticket
        /\ UNCHANGED <<db, after, now, sent, timers, calls, faults, lockedAt, early>>
    BY <1>2 DEF GoOn, row, history
  <2> QED
    BY <2>1, <1>1, FinishKeeps DEF IInv, TypeOK, Since
<1>3. CASE next # "end"
  <2>1. /\ pc' = [pc EXCEPT ![a] = next]
        /\ UNCHANGED <<call, began, saw, view, db, after, now, row, calls, timers, faults>>
        /\ UNCHANGED <<lockedAt, early>>
    BY <1>3 DEF GoOn, history
  <2>2. TypeOK'
    BY <2>1, <1>3 DEF IInv, TypeOK, row, timers
  <2>3. ReadsHold'
    <3> SUFFICES ASSUME NEW b \in Agent PROVE Relies(b)' /\ (began[b] <= now)'
      BY DEF ReadsHold
    <3>1. Relies(b) /\ began[b] <= now /\ ticket' = ticket
      BY <2>1 DEF IInv, ReadsHold, row
    <3>2. CASE b = a
      <4>1. pc'[a] = next
        BY <2>1 DEF IInv, TypeOK
      <4> QED
        BY <3>1, <3>2, <4>1, <2>1, <1>3 DEF Relies, OnItsWay, Acquires
    <3>3. CASE b # a
      <4>1. pc'[b] = pc[b]
        BY <2>1, <3>3 DEF IInv, TypeOK
      <4> QED
        BY <3>1, <4>1, <2>1 DEF Relies, OnItsWay, Acquires
    <3> QED
      BY <3>2, <3>3
  <2> QED
    BY <2>1, <2>2, <2>3, <1>1 DEF IInv, SelectedBefore, timers
<1> QED
  BY <1>2, <1>3

LEMMA StartKeeps ==
    ASSUME IInv, NEW a \in Agent, NEW c \in Calls, Start(a, c) PROVE IInv'
<1>1. /\ pc' = [pc EXCEPT ![a] = First(a, c)] /\ call' = [call EXCEPT ![a] = c]
      /\ began' = [began EXCEPT ![a] = now] /\ calls' = calls + 1
      /\ saw' = [saw EXCEPT ![a] = ticket] /\ view' = [view EXCEPT ![a] = ticket]
      /\ UNCHANGED <<db, after, now, ticket, sent, unlocking, checking, faults, lockedAt, early>>
      /\ First(a, c) # "end"
  BY DEF Start, row, timers, history
<1>2. First(a, c) \in {"lock", "owner", "state", "unlock", "article"}
  BY <1>1, CallFields DEF First, Acquires, Closes, Kinds, Calls
<1>3. TypeOK'
  BY <1>1, <1>2 DEF IInv, TypeOK
<1>4. ReadsHold'
  <2> SUFFICES ASSUME NEW b \in Agent PROVE Relies(b)' /\ (began[b] <= now)'
    BY DEF ReadsHold
  <2>1. CASE b = a
    <3>1. /\ pc'[a] = First(a, c) /\ call'[a] = c /\ saw'[a] = ticket /\ view'[a] = ticket
          /\ began'[a] = now
      BY <1>1 DEF IInv, TypeOK
    <3>2. ticket.lock \in BOOLEAN /\ now <= now
      BY DEF IInv, TypeOK, Tickets, Times
    <3>3. Acquires(c) => OnItsWay(a)'
      BY <3>1, <3>2, <1>1 DEF First, Acquires, Closes, OnItsWay
    <3>4. c.kind = "acquire" => ~ticket.lock
      BY <1>1 DEF First, Acquires, Closes
    <3> QED
      BY <3>1, <3>2, <3>3, <3>4, <2>1, <1>1 DEF Relies, Acquires
  <2>2. CASE b # a
    <3>1. /\ pc'[b] = pc[b] /\ saw'[b] = saw[b] /\ view'[b] = view[b] /\ call'[b] = call[b]
          /\ began'[b] = began[b]
      BY <1>1, <2>2 DEF IInv, TypeOK
    <3> QED
      BY <3>1, <1>1 DEF IInv, ReadsHold, Relies, OnItsWay, Acquires
  <2> QED
    BY <2>1, <2>2
<1> QED
  BY <1>1, <1>3, <1>4 DEF IInv, TimeoutHolds, SelectedBefore

LEMMA ReadAgainKeeps == ASSUME IInv, NEW a \in Agent, ReadAgain(a) PROVE IInv'
<1>1. /\ view' = [view EXCEPT ![a] = ticket] /\ pc[a] # "idle" /\ db # "mariadb"
      /\ UNCHANGED <<db, after, now, ticket, sent, pc, call, began, saw, calls, unlocking, checking>>
      /\ UNCHANGED <<faults, lockedAt, early>>
  BY DEF ReadAgain, row, timers, history
<1>2. TypeOK'
  BY <1>1 DEF IInv, TypeOK
<1>3. ReadsHold'
  <2> SUFFICES ASSUME NEW b \in Agent PROVE Relies(b)' /\ (began[b] <= now)'
    BY DEF ReadsHold
  <2>1. view'[b] = IF b = a THEN ticket ELSE view[b]
    BY <1>1 DEF IInv, TypeOK
  <2> QED
    BY <2>1, <1>1 DEF IInv, ReadsHold, Relies, OnItsWay, Acquires
<1> QED
  BY <1>1, <1>2, <1>3 DEF IInv, TimeoutHolds, SelectedBefore

LEMMA LockStepKeeps == ASSUME IInv, NEW a \in Agent, LockStep(a) PROVE IInv'
<1>0. /\ pc[a] = "lock" /\ ticket \in Tickets /\ now \in Times /\ a \in Agent /\ saw[a] \in Tickets
      /\ early \in BOOLEAN
  BY DEF LockStep, IInv, TypeOK
<1>1. CASE view[a].lock /\ GoOn(a, AfterLock(a))
  <2>1. AfterLock(a) \in {"end", "owner", "state"}
    BY DEF AfterLock, AfterOwner
  <2>2. Acquires(call[a]) => AfterLock(a) = "end" \/ (AfterLock(a) = "owner" /\ saw[a].owner # a)
    BY DEF AfterLock, AfterOwner, Acquires, Closes
  <2>3. Acquires(call[a]) => db # "mariadb"
    BY <1>0, <1>1 DEF IInv, ReadsHold, Relies, OnItsWay
  <2> QED
    BY <2>1, <2>2, <2>3, <1>0, <1>1, GoOnKeeps
<1>2. CASE ~view[a].lock
  <2> DEFINE owned == IF saw[a].owner # a THEN Owned(Locked(ticket), Locked(ticket), a)
                                          ELSE Locked(ticket)
  <2>1. Write(a, Rest(a, owned)) /\ lockedAt' = now /\ early' = FALSE
    BY <1>2 DEF LockStep
  <2>2. Locked(ticket) \in Tickets
    BY <1>0, RowsStayRows
  <2>3. owned \in Tickets /\ owned.timeout = now
    <3>1. Locked(ticket).timeout = now
      BY <1>0, RowFacts
    <3>2. Owned(Locked(ticket), Locked(ticket), a) \in Tickets
      BY <1>0, <2>2, RowsStayRows
    <3>3. Owned(Locked(ticket), Locked(ticket), a).timeout = Locked(ticket).timeout
      BY <1>0, <2>2, RowFacts
    <3> QED
      BY <2>2, <3>1, <3>2, <3>3
  <2> HIDE DEF owned
  <2>4. Rest(a, owned) \in Tickets /\ Rest(a, owned).timeout = now
    BY <1>0, <2>3, RowsStayRows, RowFacts
  <2>5. TimeoutHolds'
    BY <1>0, <2>1, <2>4 DEF TimeoutHolds, Write, Times
  <2> QED
    BY <1>0, <2>1, <2>4, <2>5, WriteKeeps DEF Since
<1> QED
  BY <1>1, <1>2 DEF LockStep

LEMMA OwnerStepKeeps == ASSUME IInv, NEW a \in Agent, OwnerStep(a) PROVE IInv'
<1> DEFINE owner == IF call[a].kind = "owner" THEN call[a].to ELSE a
<1>0. /\ pc[a] = "owner" /\ ticket \in Tickets /\ now \in Times /\ view[a] \in Tickets
      /\ call[a] \in Calls \cup {Plain} /\ early \in BOOLEAN /\ lockedAt \in Times
  BY DEF OwnerStep, IInv, TypeOK
<1>1. owner \in Agent
  BY <1>0, CallFields
<1>2. CASE view[a].owner = owner /\ GoOn(a, AfterOwner(a))
  <2>1. AfterOwner(a) \in {"end", "owner", "state"} /\ (Acquires(call[a]) => AfterOwner(a) = "end")
    BY DEF AfterOwner, Acquires, Closes
  <2> QED
    BY <2>1, <1>0, <1>2, GoOnKeeps
<1>3. CASE /\ Write(a, Rest(a, Owned(ticket, view[a], owner)))
           /\ IF ticket'.lock /\ ~ticket.lock THEN lockedAt' = now /\ early' = TRUE
                                             ELSE UNCHANGED <<lockedAt, early>>
  <2>1. /\ Owned(ticket, view[a], owner) \in Tickets
        /\ Owned(ticket, view[a], owner).timeout = ticket.timeout
    <3>1. Owned(ticket, view[a], owner) \in Tickets
      BY <1>0, <1>1, RowsStayRows
    <3>2. Owned(ticket, view[a], owner).timeout = ticket.timeout
      BY <1>0, <1>1, RowFacts
    <3> QED
      BY <3>1, <3>2
  <2>2. /\ Rest(a, Owned(ticket, view[a], owner)) \in Tickets
        /\ Rest(a, Owned(ticket, view[a], owner)).timeout = ticket.timeout
    BY <1>0, <2>1, RowsStayRows, RowFacts
  <2>3. ticket'.timeout = ticket.timeout
    BY <1>3, <2>2 DEF Write
  <2>4. TimeoutHolds'
    BY <1>3, <2>3 DEF IInv, TimeoutHolds
  <2>5. lockedAt' \in Times /\ early' \in BOOLEAN
    BY <1>0, <1>3
  <2>6. Since
    BY <1>3 DEF Since
  <2> QED
    BY <1>3, <2>2, <2>4, <2>5, <2>6, WriteKeeps
<1> QED
  BY <1>2, <1>3 DEF OwnerStep

LEMMA StateStepKeeps == ASSUME IInv, NEW a \in Agent, StateStep(a) PROVE IInv'
<1> DEFINE changed == InState(ticket, call[a].type, call[a].until)
<1>1. /\ ticket \in Tickets /\ now \in Times /\ call[a].type \in Types /\ call[a].until \in Times
      /\ lockedAt \in Times /\ early \in BOOLEAN
  BY CallFields DEF IInv, TypeOK
<1>2. Write(a, Rest(a, changed)) /\ UNCHANGED <<lockedAt, early>>
  BY DEF StateStep
<1>3. changed \in Tickets
  BY <1>1, RowsStayRows
<1>4. changed.timeout = ticket.timeout
  BY <1>1, RowFacts
<1> HIDE DEF changed
<1>5. Rest(a, changed) \in Tickets
  BY <1>1, <1>3, RowsStayRows
<1>6. Rest(a, changed).timeout = ticket.timeout
  BY <1>1, <1>3, <1>4, RowFacts
<1>7. TimeoutHolds'
  BY <1>2, <1>6 DEF IInv, TimeoutHolds, Write
<1>8. changed.lock = ticket.lock
  BY <1>1, RowFacts DEF changed
<1>9. Rest(a, changed).lock => changed.lock
  BY <1>1, <1>3, RowFacts
<1>10. Since
  BY <1>2, <1>8, <1>9 DEF Since, Write
<1> QED
  BY <1>1, <1>2, <1>5, <1>7, <1>10, WriteKeeps

LEMMA UnlockStepKeeps == ASSUME IInv, NEW a \in Agent, UnlockStep(a) PROVE IInv'
<1>1. ticket \in Tickets /\ now \in Times /\ lockedAt \in Times /\ early \in BOOLEAN
  BY DEF IInv, TypeOK
<1>2. CASE GoOn(a, "end")
  BY <1>2, GoOnKeeps DEF UnlockStep
<1>3. CASE Write(a, Unlocked(ticket)) /\ UNCHANGED <<lockedAt, early>>
  <2>1. Unlocked(ticket) \in Tickets
    BY <1>1, RowsStayRows
  <2>2. Unlocked(ticket).timeout = ticket.timeout
    BY <1>1, RowFacts
  <2>3. TimeoutHolds'
    BY <1>3, <2>2 DEF IInv, TimeoutHolds, Write
  <2>4. ~Unlocked(ticket).lock
    BY <1>1, RowFacts
  <2>5. Since
    BY <1>3, <2>4 DEF Since, Write
  <2> QED
    BY <1>1, <1>3, <2>1, <2>3, <2>5, WriteKeeps
<1> QED
  BY <1>2, <1>3 DEF UnlockStep

LEMMA ArticleStepKeeps == ASSUME IInv, NEW a \in Agent, ArticleStep(a) PROVE IInv'
<1>1. /\ ticket \in Tickets /\ now \in Times /\ began[a] \in Times /\ lockedAt \in Times
  BY DEF IInv, TypeOK
<1>2. PICK incoming \in IncomingTimes(a) :
         /\ pc[a] = "article"
         /\ \/ view[a].timeout = incoming /\ GoOn(a, "end")
            \/ /\ view[a].timeout # incoming
               /\ Write(a, [ticket EXCEPT !.timeout = incoming])
               /\ early' = (incoming < lockedAt)
               /\ UNCHANGED lockedAt
  BY DEF ArticleStep
<1>3. incoming \in Times
  BY <1>1, TicketLockAssumption DEF IncomingTimes, Times
<1>4. CASE GoOn(a, "end")
  BY <1>2, <1>4, GoOnKeeps
<1>5. CASE /\ Write(a, [ticket EXCEPT !.timeout = incoming])
           /\ early' = (incoming < lockedAt) /\ UNCHANGED lockedAt
  <2>1. [ticket EXCEPT !.timeout = incoming] \in Tickets
    BY <1>1, <1>3, RowsStayRows
  <2>2. [ticket EXCEPT !.timeout = incoming].timeout = incoming
    BY <1>1, <1>3, RowFacts
  <2>3. ticket'.timeout = incoming
    BY <1>5, <2>2 DEF Write
  <2>5. ~(incoming < lockedAt) => lockedAt <= incoming
    BY <1>1, <1>3 DEF Times
  <2>6. TimeoutHolds'
    BY <1>5, <2>3, <2>5, Zenon DEF TimeoutHolds
  <2>4. lockedAt' \in Times /\ early' \in BOOLEAN
    BY <1>1, <1>5
  <2>7. [ticket EXCEPT !.timeout = incoming].lock = ticket.lock
    BY <1>1, <1>3, RowFacts
  <2>8. Since
    BY <1>5, <2>7 DEF Since, Write
  <2> QED
    BY <1>5, <2>1, <2>6, <2>4, <2>8, WriteKeeps
<1> QED
  BY <1>2, <1>4, <1>5

LEMMA AbortKeeps == ASSUME IInv, NEW a \in Agent, Abort(a) PROVE IInv'
<1>1. /\ Finish(a) /\ ticket' = ticket /\ faults' = faults + 1
      /\ UNCHANGED <<db, after, now, sent, timers, calls>> /\ UNCHANGED <<lockedAt, early>>
  BY DEF Abort, row, history
<1>2. TimeoutHolds'
  BY <1>1 DEF IInv, TimeoutHolds
<1> QED
  BY <1>1, <1>2, FinishKeeps DEF IInv, TypeOK, Since

----------------------------------------------------------------------------
(* Timers. *)

\* What a timer does to the ticket: it never locks, gives nobody the ticket, and leaves the
\* timeout.
LEMMA TimerKeeps ==
    ASSUME IInv, ticket' \in Tickets, sent' \in [Times -> Times],
           ticket'.owner = ticket.owner, ticket'.lock => ticket.lock,
           ticket'.timeout = ticket.timeout,
           unlocking' \in [UnlockLoop -> Times], checking' \in [PendingLoop -> Times],
           faults' \in Nat, now' \in Times, now <= now',
           \A w \in UnlockLoop : unlocking'[w] <= now',
           UNCHANGED <<db, after, agents, history>>
    PROVE  IInv'
<1> USE DEF agents, history
<1>1. TypeOK'
  BY DEF IInv, TypeOK
<1>2. ReadsHold'
  <2> SUFFICES ASSUME NEW b \in Agent PROVE Relies(b)' /\ (began[b] <= now)'
    BY DEF ReadsHold
  <2>1. began[b] \in Nat /\ now \in Nat /\ now' \in Nat
    BY DEF IInv, TypeOK, Times
  <2>2. Relies(b) /\ began[b] <= now
    BY DEF IInv, ReadsHold
  <2>3. began[b] <= now'
    BY <2>1, <2>2
  <2>4. Relies(b)'
    BY <2>2 DEF Relies, OnItsWay, Acquires
  <2> QED
    BY <2>3, <2>4
<1>3. TimeoutHolds' /\ SelectedBefore'
  BY DEF IInv, TimeoutHolds, SelectedBefore
<1> QED
  BY <1>1, <1>2, <1>3 DEF IInv

LEMMA PassTimeKeeps == ASSUME IInv, PassTime PROVE IInv'
<1>1. /\ now' = now + 1 /\ now \in Times /\ now < MaxTime
      /\ UNCHANGED <<db, after, row, agents, timers, faults, history>>
  BY DEF PassTime, IInv, TypeOK
<1>2. now' \in Times /\ now <= now'
  BY <1>1, TicketLockAssumption DEF Times
<1>3. \A w \in UnlockLoop : unlocking'[w] <= now'
  BY <1>1 DEF IInv, TypeOK, SelectedBefore, timers, Times
<1> QED
  BY <1>1, <1>2, <1>3, TimerKeeps DEF IInv, TypeOK, row, timers

LEMMA UnlockTimerKeeps ==
    ASSUME IInv, NEW w \in UnlockLoop, SelectUnlock(w) \/ SettleUnlock(w) \/ InterruptUnlock(w)
    PROVE  IInv'
<1>1. /\ now \in Times /\ 0 \in Times /\ ticket \in Tickets /\ now <= now /\ 0 <= now
      /\ unlocking \in [UnlockLoop -> Times]
  BY TicketLockAssumption DEF IInv, TypeOK, Times
<1>2. /\ unlocking' = [unlocking EXCEPT ![w] = 0] \/ unlocking' = [unlocking EXCEPT ![w] = now]
      /\ UNCHANGED <<db, after, now, sent, agents, checking, history>> /\ faults' \in Nat
      /\ ticket' \in {ticket, Unlocked(ticket)}
  BY DEF SelectUnlock, SettleUnlock, InterruptUnlock, Interrupted, IInv, TypeOK, row
<1>3. /\ unlocking' \in [UnlockLoop -> Times]
      /\ \A v \in UnlockLoop : unlocking'[v] <= now'
  BY <1>1, <1>2 DEF IInv, SelectedBefore
<1>4. /\ Unlocked(ticket) \in Tickets /\ ~Unlocked(ticket).lock
      /\ Unlocked(ticket).owner = ticket.owner /\ Unlocked(ticket).timeout = ticket.timeout
  BY <1>1, RowsStayRows, RowFacts
<1> QED
  BY <1>1, <1>2, <1>3, <1>4, TimerKeeps DEF IInv, TypeOK

LEMMA PendingTimerKeeps ==
    ASSUME IInv, NEW w \in PendingLoop,
           SelectPending(w) \/ SettlePending(w) \/ InterruptPending(w)
    PROVE  IInv'
<1>1. /\ now \in Times /\ 0 \in Times /\ ticket \in Tickets
      /\ checking \in [PendingLoop -> Times] /\ sent \in [Times -> Times]
      /\ now <= now /\ (after # "none" => after \in Types) /\ "closed" \in Types
  BY TicketLockAssumption DEF IInv, TypeOK, Times, Types
<1>2. /\ checking' \in [PendingLoop -> Times] /\ faults' \in Nat
      /\ UNCHANGED <<db, after, now, agents, unlocking, history>>
  BY <1>1 DEF SelectPending, SettlePending, InterruptPending, Interrupted, IInv, TypeOK, row
<1>3. \A v \in UnlockLoop : unlocking'[v] <= now'
  BY <1>2 DEF IInv, SelectedBefore
<1> DEFINE next(type) == InState(ticket, type, 0)
<1>4. ASSUME NEW type \in Types
      PROVE  /\ next(type) \in Tickets /\ next(type).owner = ticket.owner
             /\ next(type).lock = ticket.lock /\ next(type).timeout = ticket.timeout
  <2>1. next(type) \in Tickets
    BY <1>1, RowsStayRows
  <2> QED
    BY <1>1, <2>1, RowFacts
<1>5. /\ Unlocked(next("closed")) \in Tickets /\ ~Unlocked(next("closed")).lock
      /\ Unlocked(next("closed")).owner = next("closed").owner
      /\ Unlocked(next("closed")).timeout = next("closed").timeout
  <2>1. next("closed") \in Tickets
    BY <1>1, <1>4
  <2> HIDE DEF next
  <2> QED
    BY <1>1, <2>1, RowsStayRows, RowFacts
<1>6. \/ ticket' \in {ticket, Unlocked(next("closed"))}
      \/ after # "none" /\ ticket' = next(after)
  BY DEF SelectPending, SettlePending, InterruptPending, Interrupted, Transition, Remind, Skip, row
<1>7. sent' \in [Times -> Times]
  BY <1>1 DEF SelectPending, SettlePending, InterruptPending, Interrupted, Transition, Remind, Skip,
              row, IInv, TypeOK
<1>8. /\ ticket' \in Tickets /\ ticket'.owner = ticket.owner
      /\ ticket'.lock => ticket.lock
      /\ ticket'.timeout = ticket.timeout
  <2> HIDE DEF next
  <2> QED
    BY <1>1, <1>4, <1>5, <1>6
<1> QED
  BY <1>1, <1>2, <1>3, <1>7, <1>8, TimerKeeps DEF IInv, TypeOK

LEMMA StutterKeeps == ASSUME IInv, UNCHANGED vars PROVE IInv'
BY DEF vars, row, agents, timers, history, IInv, TypeOK, ReadsHold, Relies, OnItsWay, Acquires,
       TimeoutHolds, SelectedBefore

LEMMA NextKeeps == IInv /\ [Next]_vars => IInv'
<1> SUFFICES ASSUME IInv, [Next]_vars PROVE IInv'
  OBVIOUS
<1>1. CASE PassTime
  BY <1>1, PassTimeKeeps
<1>2. ASSUME NEW a \in Agent, NEW c \in Calls, Start(a, c) PROVE IInv'
  BY <1>2, StartKeeps
<1>3. ASSUME NEW a \in Agent, Act(a) PROVE IInv'
  BY <1>3, ReadAgainKeeps, LockStepKeeps, OwnerStepKeeps, StateStepKeeps, UnlockStepKeeps,
     ArticleStepKeeps DEF Act
<1>4. ASSUME NEW a \in Agent, Abort(a) PROVE IInv'
  BY <1>4, AbortKeeps
<1>5. ASSUME NEW w \in UnlockLoop, SelectUnlock(w) \/ SettleUnlock(w) \/ InterruptUnlock(w)
      PROVE  IInv'
  BY <1>5, UnlockTimerKeeps
<1>6. ASSUME NEW w \in PendingLoop, SelectPending(w) \/ SettlePending(w) \/ InterruptPending(w)
      PROVE  IInv'
  BY <1>6, PendingTimerKeeps
<1>7. CASE UNCHANGED vars
  BY <1>7, StutterKeeps
<1> QED
  BY <1>1, <1>2, <1>3, <1>4, <1>5, <1>6, <1>7 DEF Next

\* Every variable keeps its type. (the ticket row and what calls and ticks carry of it)
THEOREM TypeCorrect == Spec => []TypeOK
<1>1. IInv => TypeOK
  BY DEF IInv
<1> QED
  BY <1>1, InitKeeps, NextKeeps, PTL DEF Spec

\* An acquisition that ends has made its caller the owner, or found him to be it.
LEMMA AcquirerOwns == ASSUME IInv, NEW a \in Agent, Acquired(a) PROVE BecomesOwner(a)
<1> SUFFICES ASSUME saw[a].owner # a
             PROVE  /\ ticket'.owner = a \/ view[a].owner = a
                    /\ db = "mariadb" => ticket'.owner = a /\ ticket'.lock
  BY DEF BecomesOwner
<1>1. /\ ticket \in Tickets /\ now \in Times /\ view[a] \in Tickets /\ saw[a] \in Tickets
      /\ Acquires(call[a]) /\ ~Closes(call[a]) /\ call[a].kind # "owner" /\ pc'[a] = "idle"
  BY DEF Acquired, Acquires, Closes, IInv, TypeOK
<1>2. pc[a] # "idle" => Relies(a) /\ OnItsWay(a)
  BY <1>1 DEF IInv, ReadsHold, Relies
<1>3. CASE LockStep(a)
  <2>1. ~view[a].lock
    <3> SUFFICES ASSUME view[a].lock PROVE FALSE
      OBVIOUS
    <3>1. GoOn(a, "owner")
      BY <1>3 DEF LockStep, AfterLock
    <3> QED
      BY <3>1, <1>1 DEF GoOn, IInv, TypeOK
  <2>2. ticket' = Rest(a, Owned(Locked(ticket), Locked(ticket), a))
    BY <1>3, <2>1 DEF LockStep, Write
  <2>3. Locked(ticket) \in Tickets /\ Locked(ticket).lock
    BY <1>1, RowsStayRows, RowFacts
  <2> DEFINE owned == Owned(Locked(ticket), Locked(ticket), a)
  <2>4. owned \in Tickets
    BY <1>1, <2>3, RowsStayRows
  <2>5. owned.owner = a /\ owned.lock
    <3>1. CASE Locked(ticket).owner = a
      BY <2>3, <3>1 DEF Owned
    <3>2. CASE Locked(ticket).owner # a
      BY <1>1, <2>3, <3>2, RowFacts
    <3> QED
      BY <3>1, <3>2
  <2> HIDE DEF owned
  <2>6. Rest(a, owned) = owned
    BY <1>1, <2>4, RowFacts
  <2> QED
    BY <2>2, <2>5, <2>6 DEF owned
<1>4. CASE OwnerStep(a)
  <2>1. pc[a] = "owner" /\ (db = "mariadb" => view[a] = saw[a] /\ saw[a].lock)
    BY <1>2, <1>4 DEF OwnerStep, Relies, OnItsWay
  <2>2. CASE view[a].owner = a
    BY <2>1, <2>2
  <2>3. CASE view[a].owner # a
    <3>1. ticket' = Rest(a, Owned(ticket, view[a], a))
      BY <1>1, <1>4, <2>3 DEF OwnerStep, Write
    <3>2. Owned(ticket, view[a], a) \in Tickets
      BY <1>1, RowsStayRows
    <3>3. Owned(ticket, view[a], a).owner = a /\ Owned(ticket, view[a], a).lock = view[a].lock
      BY <1>1, <2>3, RowFacts
    <3>4. Rest(a, Owned(ticket, view[a], a)) = Owned(ticket, view[a], a)
      BY <1>1, <3>2, RowFacts
    <3> QED
      BY <2>1, <3>1, <3>3, <3>4
  <2> QED
    BY <2>2, <2>3
<1> QED
  BY <1>3, <1>4 DEF Acquired

\* A lock that a call without takeover takes away was set after it began.
LEMMA AcquirerRobsNobody == ASSUME IInv, NEW a \in Agent, Acquired(a) PROVE RobsNobody(a)
<1>1. pc[a] # "idle"
  BY DEF Acquired, LockStep, OwnerStep
<1> QED
  BY <1>1 DEF RobsNobody, IInv, ReadsHold, Relies

\* Whatever agents and timers do between its reads and its writes, an acquisition makes its
\* caller the owner and robs nobody who was there before it.
THEOREM AcquireStaysSafe == Spec => AcquireIsSafe
<1>1. IInv /\ [Next]_vars
      => [\A a \in Agent : Acquired(a) => BecomesOwner(a) /\ RobsNobody(a)]_vars
  BY AcquirerOwns, AcquirerRobsNobody
<1> QED
  BY <1>1, InitKeeps, NextKeeps, PTL DEF Spec, AcquireIsSafe

\* A timer whose selection is old takes no fresh lock.
LEMMA LocksStandLong == ASSUME IInv PROVE TakesIdleLocks
<1> SUFFICES ASSUME NEW w \in UnlockLoop, SettleUnlock(w), ticket' # ticket, ~early
             PROVE  lockedAt + UnlockAfter <= now
  BY DEF TakesIdleLocks
<1>1. /\ ticket.timeout \in Nat /\ lockedAt \in Nat /\ now \in Nat /\ unlocking[w] \in Nat
      /\ UnlockAfter \in Nat
  BY TicketLockAssumption DEF IInv, TypeOK, Tickets, Times
<1>2. ticket.timeout + UnlockAfter <= unlocking[w] /\ unlocking[w] <= now
  BY DEF SettleUnlock, IInv, SelectedBefore
<1>3. lockedAt <= ticket.timeout
  BY DEF IInv, TimeoutHolds
<1> QED
  BY <1>1, <1>2, <1>3

\* Only Remind writes the outbox, under the row lock, and it asks for the last reminder there.
LEMMA RemindersAreSpaced == ASSUME IInv, [Next]_vars PROVE SpacesReminders
<1> SUFFICES ASSUME NEW d \in Times, sent'[d] # sent[d]
             PROVE  sent[d] = 0 \/ sent[d] + Interval <= sent'[d]
  BY DEF SpacesReminders
<1>1. PICK w \in PendingLoop : SettlePending(w)
  BY DEF Next, vars, row, agents, timers, history, PassTime, Start, Act, ReadAgain, LockStep,
         OwnerStep, StateStep, UnlockStep, ArticleStep, Abort, GoOn, Write, SelectUnlock,
         SettleUnlock, InterruptUnlock, SelectPending, InterruptPending, Interrupted
<1>2. Remind(w)
  BY <1>1 DEF SettlePending, Transition, Skip
<1>3. sent' = [sent EXCEPT ![ticket.until] = checking[w]] /\ ReminderDue(w)
  BY <1>2 DEF Remind
<1>4. d = ticket.until /\ sent'[d] = checking[w]
  BY <1>3 DEF IInv, TypeOK
<1> QED
  BY <1>3, <1>4 DEF ReminderDue

\* Timers that act on old selections neither take a fresh lock nor remind twice.
THEOREM TimersStayCareful == Spec => TimersAreCareful
<1>1. IInv /\ [Next]_vars => [TakesIdleLocks /\ SpacesReminders]_vars
  BY LocksStandLong, RemindersAreSpaced
<1> QED
  BY <1>1, InitKeeps, NextKeeps, PTL DEF Spec, TimersAreCareful
=============================================================================
