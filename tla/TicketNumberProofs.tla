------------------------- MODULE TicketNumberProofs -------------------------
(***************************************************************************)
(* Theorems about TicketNumber, for any number of callers, rows and days.  *)
(***************************************************************************)
EXTENDS TicketNumber, WellFoundedInduction, TLAPS

-----------------------------------------------------------------------------
(* Least and greatest elements. *)

\* A set of naturals has an element below all others.
LEMMA LeastOfRelation ==
    ASSUME NEW R, IsWellFoundedOn(R, Nat), \A x, y \in Nat : y < x => <<y, x>> \in R,
           NEW S, S \subseteq Nat, S # {}
    PROVE  \E x \in S : \A y \in S : x <= y
<1>1. PICK x \in S : \A y \in S : ~ (<<y, x>> \in R)
    BY WFMin
<1>2. ASSUME NEW y \in S PROVE x <= y
    <2>1. x \in Nat /\ y \in Nat  OBVIOUS
    <2>2. ~ (y < x)  BY <1>1, <2>1
    <2> QED  BY <2>1, <2>2
<1> QED  BY <1>2

\* Smallest picks the row a caller fills next.
LEMMA SmallestIn ==
    ASSUME NEW S, S \subseteq Nat, S # {}
    PROVE  /\ Smallest(S) \in S
           /\ \A j \in S : Smallest(S) <= j
<1>1. \A x, y \in Nat : y < x => <<y, x>> \in OpToRel(<, Nat)
    BY DEF OpToRel
<1>2. \E x \in S : \A y \in S : x <= y
    BY <1>1, NatLessThanWellFounded, LeastOfRelation
<1> QED  BY <1>2 DEF Smallest

\* Largest picks the row whose counter ORDER BY id DESC LIMIT 1 returns.
LEMMA LargestIn ==
    ASSUME NEW n \in Nat, NEW S, S \subseteq 1 .. n, S # {}
    PROVE  /\ Largest(S) \in S
           /\ \A j \in S : Largest(S) >= j
<1> DEFINE T == {n - i : i \in S}
<1>1. T \subseteq Nat /\ T # {}
    <2>1. \A i \in S : n - i \in Nat  OBVIOUS
    <2> QED  BY <2>1
<1>2. PICK k \in T : \A j \in T : k <= j
    BY <1>1, SmallestIn
<1>3. PICK i \in S : k = n - i
    OBVIOUS
<1>4. ASSUME NEW j \in S PROVE i >= j
    BY <1>2, <1>3
<1> QED  BY <1>4 DEF Largest

-----------------------------------------------------------------------------
(* Types. *)

\* The counter a caller reads is a number.
LEMMA PreviousCounterType ==
    ASSUME TypeOK, NEW c \in Caller, NEW i \in RowId
    PROVE  PreviousCounter(c, i) \in Nat
<1> DEFINE before == {j \in Visible(c) : j < i}
<1>1. before \subseteq 1 .. MaxRows
    BY DEF Visible, RowId
<1>2. CASE before = {}
    BY <1>2 DEF PreviousCounter
<1>3. CASE before # {}
    <2>1. Largest(before) \in RowId
        BY <1>1, <1>3, LargestIn, CounterAssumption DEF RowId
    <2> QED  BY <1>3, <2>1 DEF PreviousCounter, TypeOK
<1> QED  BY <1>2, <1>3

\* Every variable keeps its type, in every behaviour.
THEOREM TypeCorrect == Spec => []TypeOK
<1>1. Init => TypeOK
    BY CounterAssumption DEF Init, TypeOK, RowId, InCall, HasRow
<1>2. TypeOK /\ [Next]_vars => TypeOK'
    <2> SUFFICES ASSUME TypeOK, [Next]_vars PROVE TypeOK'
        OBVIOUS
    <2> USE CounterAssumption DEF TypeOK, InCall, HasRow, Goto, table, call
    <2>1. ASSUME NEW c \in Caller, TicketCreateNumber(c) PROVE TypeOK'
        BY <2>1 DEF TicketCreateNumber, StartTry
    <2>2. ASSUME NEW c \in Caller, InsertRow(c) PROVE TypeOK'
        <3>1. lastId + 1 \in RowId /\ RowId \subseteq 0 .. MaxRows
            BY <2>2 DEF InsertRow, RowId
        <3> QED  BY <2>2, <3>1 DEF InsertRow
    <2>3. ASSUME NEW c \in Caller, CommitRow(c) PROVE TypeOK'
        BY <2>3 DEF CommitRow
    <2>4. ASSUME NEW c \in Caller, Settle(c) PROVE TypeOK'
        BY <2>4 DEF Settle
    <2>5. ASSUME NEW c \in Caller, SelectUnset(c) PROVE TypeOK'
        BY <2>5 DEF SelectUnset, Visible
    <2>6. ASSUME NEW c \in Caller, ReadPrevious(c) PROVE TypeOK'
        <3>1. Smallest(unset[c]) \in RowId
            <4>1. unset[c] \subseteq RowId /\ RowId \subseteq Nat /\ unset[c] # {}
                BY <2>6 DEF ReadPrevious, RowId
            <4> QED  BY <4>1, SmallestIn
        <3>2. PreviousCounter(c, Smallest(unset[c])) \in Nat
            BY <3>1, PreviousCounterType
        <3>3. NextCounter(c, PreviousCounter(c, Smallest(unset[c]))) \in Nat
            BY <3>2 DEF NextCounter
        <3> QED  BY <2>6, <3>3 DEF ReadPrevious
    <2>7. ASSUME NEW c \in Caller, UpdateRow(c) PROVE TypeOK'
        BY <2>7 DEF UpdateRow
    <2>8. ASSUME NEW c \in Caller, ReadBack(c) PROVE TypeOK'
        <3>1. counter[own[c]] \in Nat
            BY <2>8 DEF ReadBack
        <3> QED  BY <2>8, <3>1 DEF ReadBack, NumberOf
    <2>9. ASSUME NEW c \in Caller, NumberFree(c) PROVE TypeOK'
        BY <2>9 DEF NumberFree
    <2>10. ASSUME NEW c \in Caller, NumberTaken(c) PROVE TypeOK'
        BY <2>10 DEF NumberTaken, StartTry
    <2>11. ASSUME NEW c \in Caller, LoopProtection(c) PROVE TypeOK'
        BY <2>11 DEF LoopProtection
    <2>12. ASSUME NEW c \in Caller, CreateTicket(c) PROVE TypeOK'
        <3>1. CASE number[c] \in tickets
            BY <2>12, <3>1 DEF CreateTicket
        <3>2. CASE number[c] \notin tickets
            <4>1. tickets' \subseteq Nat \X Nat
                BY <2>12, <3>2 DEF CreateTicket
            <4> QED  BY <2>12, <3>2, <4>1 DEF CreateTicket
        <3> QED  BY <3>1, <3>2
    <2>13. ASSUME NEW c \in Caller, Crash(c) PROVE TypeOK'
        BY <2>13 DEF Crash
    <2>14. CASE Midnight
        BY <2>14 DEF Midnight
    <2>15. CASE UNCHANGED vars
        BY <2>15 DEF vars
    <2> QED
        BY <2>1, <2>2, <2>3, <2>4, <2>5, <2>6, <2>7, <2>8, <2>9, <2>10, <2>11, <2>12, <2>13,
           <2>14, <2>15 DEF Next, Step
<1> QED  BY <1>1, <1>2, PTL DEF Spec
-----------------------------------------------------------------------------
(* Counters increase. *)

\* Strictly above every visible row it passed: what ReadPrevious computes.
LEMMA NewIsAbove ==
    ASSUME TypeOK, CounterInv, NEW c \in Caller, pc[c] = "fill", unset[c] # {}
    PROVE  LET next == NextCounter(c, PreviousCounter(c, Smallest(unset[c])))
           IN  /\ next \in Nat \ {0}
               /\ \A i \in Visible(c) : i < Smallest(unset[c]) => counter[i] < next
<1> DEFINE low == Smallest(unset[c])
           before == {j \in Visible(c) : j < low}
           previous == PreviousCounter(c, low)
           next == NextCounter(c, previous)
<1> USE CounterAssumption
<1>1. /\ unset[c] \subseteq RowId /\ RowId \subseteq Nat
      /\ own[c] \in RowId
    BY DEF TypeOK, RowId, HasRow, InCall
<1>2. low \in unset[c] /\ \A j \in unset[c] : low <= j
    BY <1>1, SmallestIn
<1>3. low \in RowId /\ low <= own[c]
    BY <1>1, <1>2 DEF CounterInv, WalkInv, Walking
<1>4. previous \in Nat
    BY <1>3, PreviousCounterType
<1>5. next \in Nat \ {0} /\ next > previous
    BY <1>4 DEF NextCounter, TypeOK
<1>6. ASSUME NEW i \in before PROVE counter[i] <= previous
    <2>1. before \subseteq 1 .. MaxRows /\ before # {}
        BY <1>6 DEF Visible, RowId
    <2>2. Largest(before) \in before /\ Largest(before) >= i
        BY <2>1, <1>6, LargestIn
    <2>3. previous = counter[Largest(before)]
        BY <2>1 DEF PreviousCounter
    <2>4. ASSUME NEW j \in before PROVE j \in RowId /\ j <= own[c] /\ j \notin unset[c]
        <3>1. j \in RowId /\ j < low
            BY DEF Visible
        <3>2. j \in Nat /\ low \in Nat /\ own[c] \in Nat
            BY <1>1, <1>3, <3>1
        <3> QED  BY <1>2, <1>3, <3>1, <3>2
    <2>5. \A j \in before : counter[j] > 0
        BY <2>4 DEF CounterInv, WalkInv, Walking
    <2>6. SameSeries(i, Largest(before))
        <3>1. \A j \in before : daily => created[j] = midnight[c]
            <4>1. \A j \in before : daily => created[j] >= midnight[c]
                BY DEF Visible, InSeries
            <4>2. \A j \in before : created[j] <= midnight[c]
                BY <2>4 DEF CounterInv, SettledInv
            <4>3. midnight[c] \in Nat /\ \A j \in before : created[j] \in Nat
                BY <2>4 DEF TypeOK
            <4> QED  BY <4>1, <4>2, <4>3
        <3> QED  BY <2>2, <3>1, <1>6 DEF SameSeries
    <2>7. CASE i = Largest(before)
        BY <2>3, <2>7, <1>4
    <2>8. CASE i < Largest(before)
        <3>1. counter[i] < counter[Largest(before)]
            BY <2>2, <2>4, <2>5, <2>6, <2>8 DEF CounterInv, CountersIncrease
        <3> QED  BY <2>2, <2>3, <2>4, <3>1 DEF TypeOK
    <2> QED  BY <2>2, <2>4, <2>7, <2>8 DEF RowId
<1>7. ASSUME NEW i \in Visible(c), i < low PROVE counter[i] < next
    <2>1. i \in RowId /\ counter[i] \in Nat
        BY DEF Visible, TypeOK
    <2>2. counter[i] <= previous
        BY <1>6, <1>7
    <2> QED  BY <1>4, <1>5, <2>1, <2>2
<1> QED  BY <1>5, <1>7

\* The steps that leave the counter table alone.
LEMMA CallerSteps ==
    ASSUME SettleHolds, TypeOK, TypeOK', CounterInv, NEW c \in Caller,
           \/ TicketCreateNumber(c) \/ Settle(c) \/ SelectUnset(c) \/ ReadPrevious(c)
           \/ ReadBack(c) \/ NumberFree(c) \/ NumberTaken(c) \/ LoopProtection(c)
           \/ CreateTicket(c)
    PROVE  CounterInv'
<1> USE CounterAssumption DEF Goto, table, call, InCall, HasRow, StartTry
<1>0. UNCHANGED <<daily, table, today>>
    BY DEF TicketCreateNumber, Settle, SelectUnset, ReadPrevious, ReadBack, NumberFree,
           NumberTaken, LoopProtection, CreateTicket
<1>1. PrefixInv' /\ CountersIncrease'
    BY <1>0 DEF CounterInv, PrefixInv, CountersIncrease, SameSeries
<1>2. TableInv'
    <2>1. \A d \in Caller : stamp'[d] \in {stamp[d], today}
        BY DEF TicketCreateNumber, Settle, SelectUnset, ReadPrevious, ReadBack, NumberFree,
               NumberTaken, LoopProtection, CreateTicket, TypeOK
    <2>2. today \in Nat
        BY DEF TypeOK
    <2> QED  BY <1>0, <2>1, <2>2 DEF CounterInv, TableInv
<1>3. OwnInv'
    <2>1. \A d \in Caller : HasRow(d)' => HasRow(d) /\ own'[d] = own[d]
        BY DEF TicketCreateNumber, Settle, SelectUnset, ReadPrevious, ReadBack, NumberFree,
               NumberTaken, LoopProtection, CreateTicket, TypeOK
    <2>2. \A d \in Caller : pc'[d] = "commit" => pc[d] = "commit"
        BY DEF TicketCreateNumber, Settle, SelectUnset, ReadPrevious, ReadBack, NumberFree,
               NumberTaken, LoopProtection, CreateTicket, TypeOK
    <2>3. \A d \in Caller : pc'[d] \in {"settle", "select", "fill", "update"}
                                => pc[d] \in {"settle", "select", "fill", "update"}
        BY DEF TicketCreateNumber, Settle, SelectUnset, ReadPrevious, ReadBack, NumberFree,
               NumberTaken, LoopProtection, CreateTicket, TypeOK
    <2> QED  BY <1>0, <2>1, <2>2, <2>3 DEF CounterInv, OwnInv
<1>4. SettledInv'
    <2> SUFFICES ASSUME NEW d \in Caller, pc'[d] \in {"select", "fill", "update"}
                 PROVE  /\ \A i \in RowId : i < own'[d] => state'[i] # "open"
                        /\ \A i \in RowId : i <= own'[d] => created'[i] <= midnight'[d]
        BY DEF SettledInv
    <2>1. CASE d = c /\ Settle(c)
        BY <2>1, <1>0 DEF Settle, TypeOK, CounterInv, TableInv
    <2>2. CASE ~ (d = c /\ Settle(c))
        <3>1. pc[d] \in {"select", "fill", "update"} /\ own'[d] = own[d] /\ midnight'[d] = midnight[d]
            BY <2>2 DEF TicketCreateNumber, Settle, SelectUnset, ReadPrevious, ReadBack,
                   NumberFree, NumberTaken, LoopProtection, CreateTicket, TypeOK
        <3> QED  BY <1>0, <3>1 DEF CounterInv, SettledInv
    <2> QED  BY <2>1, <2>2
<1>5. WalkInv'
    <2> SUFFICES ASSUME NEW d \in Caller, Walking(d)'
                 PROVE  /\ unset'[d] \subseteq {i \in Visible(d)' : i <= own'[d]}
                        /\ \A i \in Visible(d)' : (i <= own'[d] /\ i \notin unset'[d]) => counter'[i] > 0
                        /\ pc'[d] = "update" =>
                             /\ unset'[d] # {}
                             /\ new'[d] > 0
                             /\ \A i \in Visible(d)' : i < Smallest(unset'[d]) => counter'[i] < new'[d]
        BY DEF WalkInv
    <2>1. midnight'[d] = midnight[d] /\ own'[d] = own[d]
        BY DEF Walking, TicketCreateNumber, Settle, SelectUnset, ReadPrevious, ReadBack,
               NumberFree, NumberTaken, LoopProtection, CreateTicket, TypeOK
    <2>2. Visible(d)' = Visible(d)
        BY <1>0, <2>1 DEF Visible, InSeries
    <2>3. CASE d = c /\ SelectUnset(c)
        <3>1. pc'[d] = "fill" /\ unset'[d] = {i \in Visible(d) : i <= own[d] /\ counter[i] = 0}
            BY <2>3 DEF SelectUnset, TypeOK
        <3>2. \A i \in Visible(d) : counter[i] \in Nat
            BY DEF Visible, TypeOK
        <3> QED  BY <1>0, <2>1, <2>2, <3>1, <3>2
    <2>4. CASE d = c /\ ReadPrevious(c)
        <3>1. /\ pc[d] = "fill" /\ unset[d] # {} /\ unset'[d] = unset[d]
              /\ new'[d] = NextCounter(d, PreviousCounter(d, Smallest(unset[d])))
            BY <2>4 DEF ReadPrevious, TypeOK
        <3>2. /\ new'[d] \in Nat \ {0}
              /\ \A i \in Visible(d) : i < Smallest(unset[d]) => counter[i] < new'[d]
            BY <3>1, NewIsAbove
        <3> QED  BY <1>0, <2>1, <2>2, <3>1, <3>2 DEF CounterInv, WalkInv, Walking
    <2>5. CASE ~ (d = c /\ (SelectUnset(c) \/ ReadPrevious(c)))
        <3>1. /\ pc'[d] = pc[d] /\ unset'[d] = unset[d] /\ new'[d] = new[d]
            BY <2>5 DEF Walking, TicketCreateNumber, Settle, SelectUnset, ReadPrevious,
                   ReadBack, NumberFree, NumberTaken, LoopProtection, CreateTicket, TypeOK
        <3> QED  BY <1>0, <2>1, <2>2, <3>1 DEF CounterInv, WalkInv, Walking
    <2> QED  BY <2>3, <2>4, <2>5
<1> QED  BY <1>1, <1>2, <1>3, <1>4, <1>5 DEF CounterInv

\* A new row has the largest id: it is behind every caller that settled.
LEMMA InsertStep ==
    ASSUME TypeOK, TypeOK', CounterInv, NEW c \in Caller, InsertRow(c)
    PROVE  CounterInv'
<1> USE CounterAssumption DEF Goto, InCall, HasRow
<1> DEFINE n == lastId + 1
<1>0. /\ n \in RowId /\ lastId \in Nat /\ lastId' = n /\ RowId \subseteq Nat
      /\ state' = [state EXCEPT ![n] = "open"] /\ created' = [created EXCEPT ![n] = stamp[c]]
      /\ own' = [own EXCEPT ![c] = n] /\ pc[c] = "insert" /\ pc' = [pc EXCEPT ![c] = "commit"]
      /\ UNCHANGED <<daily, counter, today, stamp, midnight, unset, new>>
    BY DEF InsertRow, RowId, TypeOK
<1>1. state[n] = "absent" /\ counter[n] = 0 /\ \A i \in RowId : i > n => counter[i] = 0
    <2>1. \A i \in RowId : i >= n => i > lastId /\ counter[i] \in Nat
        BY <1>0 DEF TypeOK
    <2> QED  BY <1>0, <2>1 DEF CounterInv, TableInv
<1>2. TableInv'
    BY <1>0, <1>1 DEF CounterInv, TableInv, TypeOK
<1>3. OwnInv'
    BY <1>0 DEF CounterInv, OwnInv, TypeOK
<1>4. PrefixInv'
    <2> SUFFICES ASSUME NEW i \in RowId, NEW j \in RowId, i < j, SameSeries(i, j)',
                        state'[i] # "absent", counter'[i] = 0
                 PROVE  counter'[j] = 0
        BY DEF PrefixInv
    <2>1. CASE i = n \/ j = n
        BY <1>0, <1>1, <2>1
    <2>2. CASE i # n /\ j # n
        <3>1. SameSeries(i, j) /\ state[i] # "absent"
            BY <1>0, <2>2 DEF SameSeries, TypeOK
        <3> QED  BY <1>0, <3>1 DEF CounterInv, PrefixInv
    <2> QED  BY <2>1, <2>2
<1>5. CountersIncrease'
    <2> SUFFICES ASSUME NEW i \in RowId, NEW j \in RowId, i < j, SameSeries(i, j)',
                        counter'[i] > 0, counter'[j] > 0
                 PROVE  counter'[i] < counter'[j]
        BY DEF CountersIncrease
    <2>1. i # n /\ j # n
        BY <1>0, <1>1
    <2>2. SameSeries(i, j)
        BY <1>0, <2>1 DEF SameSeries, TypeOK
    <2> QED  BY <1>0, <2>2 DEF CounterInv, CountersIncrease
<1>6. SettledInv'
    <2> SUFFICES ASSUME NEW d \in Caller, pc'[d] \in {"select", "fill", "update"}
                 PROVE  /\ \A i \in RowId : i < own'[d] => state'[i] # "open"
                        /\ \A i \in RowId : i <= own'[d] => created'[i] <= midnight'[d]
        BY DEF SettledInv
    <2>1. d # c /\ own[d] <= lastId /\ own[d] \in Nat
        BY <1>0 DEF CounterInv, OwnInv, TypeOK
    <2>2. \A i \in RowId : i <= own[d] => i # n
        BY <1>0, <2>1
    <2> QED  BY <1>0, <2>1, <2>2 DEF CounterInv, SettledInv, TypeOK
<1>7. WalkInv'
    <2>1. \A d \in Caller : Visible(d)' = Visible(d)
        BY <1>0, <1>1 DEF Visible, InSeries, TypeOK
    <2>2. \A d \in Caller : Walking(d)' => Walking(d) /\ own'[d] = own[d] /\ pc'[d] = pc[d]
        BY <1>0 DEF Walking, TypeOK
    <2> QED  BY <1>0, <2>1, <2>2 DEF CounterInv, WalkInv
<1> QED  BY <1>2, <1>3, <1>4, <1>5, <1>6, <1>7 DEF CounterInv

\* A commit shows a row to nobody who has already settled past it.
LEMMA CommitStep ==
    ASSUME SettleHolds, TypeOK, TypeOK', CounterInv, NEW c \in Caller, CommitRow(c)
    PROVE  CounterInv'
<1> USE CounterAssumption DEF Goto, InCall, HasRow, call
<1>0. /\ own[c] \in RowId /\ state[own[c]] = "open" /\ state' = [state EXCEPT ![own[c]] = "live"]
      /\ pc[c] = "commit" /\ pc' = [pc EXCEPT ![c] = "settle"] /\ RowId \subseteq Nat
      /\ UNCHANGED <<daily, counter, created, lastId, today, call>>
    BY DEF CommitRow, CounterInv, OwnInv, TypeOK, RowId
<1>1. TableInv'
    BY <1>0 DEF CounterInv, TableInv, TypeOK
<1>2. OwnInv'
    BY <1>0 DEF CounterInv, OwnInv, TypeOK
<1>3. PrefixInv' /\ CountersIncrease'
    BY <1>0 DEF CounterInv, PrefixInv, CountersIncrease, SameSeries, TypeOK
<1>4. SettledInv'
    BY <1>0 DEF CounterInv, SettledInv, TypeOK
<1>5. WalkInv'
    <2> SUFFICES ASSUME NEW d \in Caller, Walking(d)'
                 PROVE  /\ unset'[d] \subseteq {i \in Visible(d)' : i <= own'[d]}
                        /\ \A i \in Visible(d)' : (i <= own'[d] /\ i \notin unset'[d]) => counter'[i] > 0
                        /\ pc'[d] = "update" =>
                             /\ unset'[d] # {}
                             /\ new'[d] > 0
                             /\ \A i \in Visible(d)' : i < Smallest(unset'[d]) => counter'[i] < new'[d]
        BY DEF WalkInv
    <2>1. d # c /\ Walking(d) /\ pc'[d] = pc[d]
        BY <1>0 DEF Walking, TypeOK
    <2>2. own[d] < own[c]
        <3>1. ~ (own[c] < own[d])
            BY <1>0, <2>1 DEF CounterInv, SettledInv, Walking
        <3>2. own[c] # own[d] /\ own[d] \in Nat /\ own[c] \in Nat
            BY <1>0, <2>1 DEF CounterInv, OwnInv, Walking, TypeOK
        <3> QED  BY <3>1, <3>2
    <2>3. Visible(d)' \ {own[c]} = Visible(d) \ {own[c]} /\ own[c] \notin Visible(d)
        BY <1>0 DEF Visible, InSeries, TypeOK
    <2>4. Visible(d) \subseteq RowId /\ own[d] \in Nat /\ own[c] \in Nat
        BY <1>0 DEF Visible, TypeOK
    <2>5. unset[d] # {} => Smallest(unset[d]) \in Nat /\ Smallest(unset[d]) <= own[d]
        <3>1. unset[d] \subseteq Nat /\ \A i \in unset[d] : i <= own[d]
            BY <1>0, <2>1, <2>4 DEF CounterInv, WalkInv
        <3> QED  BY <3>1, SmallestIn
    <2>6. \A i \in Visible(d)' : i <= own[d] => i \in Visible(d)
        BY <1>0, <2>2, <2>3, <2>4
    <2>7. unset[d] \subseteq {i \in Visible(d)' : i <= own[d]}
        BY <2>1, <2>3 DEF CounterInv, WalkInv
    <2>8. \A i \in Visible(d)' : (i <= own[d] /\ i \notin unset[d]) => counter[i] > 0
        BY <2>1, <2>6 DEF CounterInv, WalkInv
    <2>9. ASSUME pc[d] = "update"
          PROVE  /\ unset[d] # {} /\ new[d] > 0
                 /\ \A i \in Visible(d)' : i < Smallest(unset[d]) => counter[i] < new[d]
        <3>1. unset[d] # {} /\ new[d] > 0
            BY <2>1, <2>9 DEF CounterInv, WalkInv
        <3>2. ASSUME NEW i \in Visible(d)', i < Smallest(unset[d]) PROVE i \in Visible(d)
            <4>1. i \in Nat
                BY DEF Visible, RowId
            <4> QED  BY <2>4, <2>5, <2>6, <3>1, <3>2, <4>1
        <3> QED  BY <2>1, <2>9, <3>1, <3>2 DEF CounterInv, WalkInv
    <2> QED  BY <1>0, <2>1, <2>7, <2>8, <2>9
<1> QED  BY <1>1, <1>2, <1>3, <1>4, <1>5 DEF CounterInv

\* An unset row is set to a value above the rows of its series before it; the
\* rows after it are unset.
LEMMA UpdateStep ==
    ASSUME SettleHolds, TypeOK, TypeOK', CounterInv, NEW c \in Caller, UpdateRow(c)
    PROVE  CounterInv'
<1> USE CounterAssumption DEF Goto, InCall, HasRow
<1> DEFINE low == Smallest(unset[c])
<1>0. /\ pc[c] = "update" /\ pc' = [pc EXCEPT ![c] = "fill"] /\ RowId \subseteq Nat
      /\ unset' = [unset EXCEPT ![c] = @ \ {low}]
      /\ counter' = IF counter[low] = 0 THEN [counter EXCEPT ![low] = new[c]] ELSE counter
      /\ UNCHANGED <<daily, state, created, lastId, today, stamp, own, midnight, new>>
    BY DEF UpdateRow, RowId
<1>1. /\ unset[c] \subseteq {i \in Visible(c) : i <= own[c]} /\ unset[c] # {} /\ new[c] > 0
      /\ \A i \in Visible(c) : i < low => counter[i] < new[c]
      /\ \A i \in Visible(c) : (i <= own[c] /\ i \notin unset[c]) => counter[i] > 0
    BY <1>0 DEF CounterInv, WalkInv, Walking
<1>2. low \in unset[c] /\ \A i \in unset[c] : low <= i
    <2>1. unset[c] \subseteq Nat
        BY <1>0 DEF TypeOK
    <2> QED  BY <1>1, <2>1, SmallestIn
<1>3. low \in RowId /\ low \in Visible(c) /\ low <= own[c] /\ state[low] = "live"
    BY <1>1, <1>2 DEF Visible
<1>4. /\ \A i \in RowId : counter[i] > 0 => counter'[i] = counter[i]
      /\ \A i \in RowId : i # low => counter'[i] = counter[i]
      /\ counter'[low] > 0
      /\ counter[low] = 0 => counter'[low] = new[c]
    <2>1. low \in RowId /\ counter[low] \in Nat /\ counter \in [RowId -> Nat]
        BY <1>3 DEF TypeOK
    <2>2. CASE counter[low] = 0
        BY <1>0, <1>1, <2>1, <2>2
    <2>3. CASE counter[low] # 0
        BY <1>0, <2>1, <2>3
    <2> QED  BY <2>2, <2>3
\* Rows of the same series before low that are still there have been passed.
<1>5. ASSUME NEW i \in RowId, i < low, SameSeries(i, low), state[i] # "absent"
      PROVE  i \in Visible(c) /\ counter[i] > 0
    <2>1. i < own[c] /\ i <= own[c] /\ i \notin unset[c]
        <3>1. i \in Nat /\ low \in Nat /\ own[c] \in Nat
            BY <1>0, <1>3 DEF TypeOK
        <3> QED  BY <1>2, <1>3, <1>5, <3>1
    <2>2. state[i] = "live"
        BY <1>0, <1>5, <2>1 DEF CounterInv, SettledInv, TypeOK
    <2>3. i \in Visible(c)
        BY <1>3, <1>5, <2>2 DEF Visible, InSeries, SameSeries
    <2> QED  BY <1>1, <2>1, <2>3
<1>6. TableInv'
    BY <1>0, <1>3, <1>4 DEF CounterInv, TableInv
<1>7. OwnInv'
    BY <1>0 DEF CounterInv, OwnInv, TypeOK
<1>8. SettledInv'
    BY <1>0 DEF CounterInv, SettledInv, TypeOK
<1>9. PrefixInv'
    <2> SUFFICES ASSUME NEW i \in RowId, NEW j \in RowId, i < j, SameSeries(i, j)',
                        state'[i] # "absent", counter'[i] = 0
                 PROVE  counter'[j] = 0
        BY DEF PrefixInv
    <2>1. SameSeries(i, j) /\ state[i] # "absent"
        BY <1>0 DEF SameSeries
    <2>2. i # low /\ counter[i] = 0
        BY <1>4
    <2>3. j # low
        BY <1>5, <2>1, <2>2
    <2>4. counter[j] = 0
        BY <2>1, <2>2 DEF CounterInv, PrefixInv
    <2> QED  BY <1>4, <2>3, <2>4
<1>10. CountersIncrease'
    <2> SUFFICES ASSUME NEW i \in RowId, NEW j \in RowId, i < j, SameSeries(i, j)',
                        counter'[i] > 0, counter'[j] > 0
                 PROVE  counter'[i] < counter'[j]
        BY DEF CountersIncrease
    <2>0. SameSeries(i, j)
        BY <1>0 DEF SameSeries
    <2>1. CASE counter[low] # 0 \/ (i # low /\ j # low)
        <3>1. counter'[i] = counter[i] /\ counter'[j] = counter[j]
            BY <1>0, <1>4, <2>1
        <3> QED  BY <2>0, <3>1 DEF CounterInv, CountersIncrease
    <2>2. CASE counter[low] = 0 /\ j = low
        <3>1. counter'[i] = counter[i] /\ i # low
            BY <1>4, <2>2, <1>0
        <3>2. state[i] # "absent"
            BY <3>1 DEF CounterInv, TableInv
        <3>3. i \in Visible(c)
            BY <1>5, <2>0, <2>2, <3>2
        <3> QED  BY <1>1, <1>4, <2>2, <3>1, <3>3
    <2>3. CASE counter[low] = 0 /\ i = low
        <3>1. counter[j] = 0
            BY <1>3, <2>0, <2>3 DEF CounterInv, PrefixInv
        <3>2. j # low
            BY <2>3, <1>0
        <3> QED  BY <1>4, <3>1, <3>2
    <2> QED  BY <2>1, <2>2, <2>3
<1>11. WalkInv'
    <2> SUFFICES ASSUME NEW d \in Caller, Walking(d)'
                 PROVE  /\ unset'[d] \subseteq {i \in Visible(d)' : i <= own'[d]}
                        /\ \A i \in Visible(d)' : (i <= own'[d] /\ i \notin unset'[d]) => counter'[i] > 0
                        /\ pc'[d] = "update" =>
                             /\ unset'[d] # {}
                             /\ new'[d] > 0
                             /\ \A i \in Visible(d)' : i < Smallest(unset'[d]) => counter'[i] < new'[d]
        BY DEF WalkInv
    <2>1. Visible(d)' = Visible(d) /\ Visible(d) \subseteq RowId /\ own'[d] = own[d] /\ new'[d] = new[d]
        BY <1>0 DEF Visible, InSeries
    <2>2. CASE d = c
        BY <1>0, <1>1, <1>4, <2>1, <2>2 DEF TypeOK
    <2>3. CASE d # c
        <3>1. Walking(d) /\ pc'[d] = pc[d] /\ unset'[d] = unset[d]
            BY <1>0, <2>3 DEF Walking, TypeOK
        <3>2. /\ unset[d] \subseteq {i \in Visible(d) : i <= own[d]}
              /\ \A i \in Visible(d) : (i <= own[d] /\ i \notin unset[d]) => counter[i] > 0
            BY <3>1 DEF CounterInv, WalkInv
        <3>3. ASSUME pc[d] = "update"
              PROVE  /\ unset[d] # {} /\ new[d] > 0
                     /\ \A i \in Visible(d) : i < Smallest(unset[d]) => counter'[i] < new[d]
            <4>1. /\ unset[d] # {} /\ new[d] > 0
                  /\ \A i \in Visible(d) : i < Smallest(unset[d]) => counter[i] < new[d]
                BY <3>1, <3>3 DEF CounterInv, WalkInv
            <4>2. unset[d] \subseteq Nat
                BY <1>0 DEF TypeOK
            <4>3. Smallest(unset[d]) \in unset[d] /\ \A i \in unset[d] : Smallest(unset[d]) <= i
                BY <4>1, <4>2, SmallestIn
            <4>4. ASSUME NEW i \in Visible(d), i < Smallest(unset[d]) PROVE counter'[i] = counter[i]
                <5>1. i \in Nat /\ own[d] \in Nat /\ Smallest(unset[d]) \in Nat
                    <6>1. i \in Nat  BY <1>0, <2>1
                    <6>2. own[d] \in Nat  BY DEF TypeOK
                    <6>3. Smallest(unset[d]) \in Nat  BY <4>2, <4>3
                    <6> QED  BY <6>1, <6>2, <6>3
                <5>2. i <= own[d] /\ i \notin unset[d]
                    BY <3>2, <4>3, <4>4, <5>1
                <5> QED  BY <1>4, <2>1, <3>2, <5>2
            <4> QED  BY <4>1, <4>4
        <3> QED  BY <1>4, <2>1, <3>1, <3>2, <3>3
    <2> QED  BY <2>2, <2>3
<1> QED  BY <1>6, <1>7, <1>8, <1>9, <1>10, <1>11 DEF CounterInv

\* A dead caller takes at most an uncommitted row with it.
LEMMA CrashStep ==
    ASSUME TypeOK, TypeOK', CounterInv, NEW c \in Caller, Crash(c)
    PROVE  CounterInv'
<1> USE CounterAssumption DEF Goto, InCall, HasRow, call
<1>0. /\ pc' = [pc EXCEPT ![c] = "dead"]
      /\ UNCHANGED <<daily, counter, created, lastId, today, call>>
    BY DEF Crash
<1>1. \A i \in RowId : \/ state'[i] = state[i]
                       \/ pc[c] = "commit" /\ i = own[c] /\ state[i] = "open" /\ state'[i] = "absent"
    BY DEF Crash, CounterInv, OwnInv, TypeOK
<1>2. \A d \in Caller : Visible(d)' = Visible(d)
    BY <1>0, <1>1 DEF Visible, InSeries
<1>3. TableInv'
    BY <1>0, <1>1 DEF CounterInv, TableInv
<1>4. OwnInv'
    <2>1. \A d \in Caller : d # c /\ HasRow(d) =>
              (own[d] \in RowId /\ (pc[c] = "commit" => own[d] # own[c]))
        BY DEF CounterInv, OwnInv, TypeOK
    <2>2. \A d \in Caller : d # c /\ HasRow(d) => state'[own[d]] = state[own[d]]
        BY <1>1, <2>1
    <2> QED  BY <1>0, <2>2 DEF CounterInv, OwnInv, TypeOK
<1>5. PrefixInv' /\ CountersIncrease'
    BY <1>0, <1>1 DEF CounterInv, PrefixInv, CountersIncrease, SameSeries
<1>6. SettledInv'
    BY <1>0, <1>1 DEF CounterInv, SettledInv, TypeOK
<1>7. WalkInv'
    BY <1>0, <1>2 DEF CounterInv, WalkInv, Walking, TypeOK
<1> QED  BY <1>3, <1>4, <1>5, <1>6, <1>7 DEF CounterInv

\* Midnight moves only the clock.
LEMMA MidnightStep ==
    ASSUME TypeOK, CounterInv, Midnight
    PROVE  CounterInv'
<1> USE DEF table, call
<1>1. today \in Nat /\ today' = today + 1 /\ UNCHANGED <<daily, table, tickets, pc, call>>
    BY CounterAssumption DEF Midnight, TypeOK
<1>2. TableInv'
    BY <1>1 DEF CounterInv, TableInv, TypeOK
<1>3. OwnInv' /\ PrefixInv' /\ SettledInv' /\ CountersIncrease'
    BY <1>1 DEF CounterInv, OwnInv, PrefixInv, SettledInv, CountersIncrease, SameSeries, HasRow
<1>4. WalkInv'
    BY <1>1 DEF CounterInv, WalkInv, Walking, Visible, InSeries
<1> QED  BY <1>2, <1>3, <1>4 DEF CounterInv

\* The inductive invariant: as long as the settle window is long enough, no
\* interleaving of callers, crashes and midnights breaks it.
THEOREM CounterCorrect == ASSUME SettleHolds PROVE Spec => []CounterInv
<1>1. Init => CounterInv
    BY CounterAssumption
       DEF Init, CounterInv, TableInv, OwnInv, PrefixInv, SettledInv, WalkInv, CountersIncrease,
           Walking, HasRow, InCall, RowId
<1>2. TypeOK /\ TypeOK' /\ CounterInv /\ [Next]_vars => CounterInv'
    <2> SUFFICES ASSUME TypeOK, TypeOK', CounterInv, [Next]_vars PROVE CounterInv'
        OBVIOUS
    <2>1. ASSUME NEW c \in Caller, TicketCreateNumber(c) \/ Step(c) \/ Crash(c)
          PROVE  CounterInv'
        BY <2>1, SettleHolds, CallerSteps, InsertStep, CommitStep, UpdateStep, CrashStep DEF Step
    <2>2. CASE Midnight
        BY <2>2, MidnightStep
    <2>3. CASE UNCHANGED vars
        BY <2>3 DEF vars, table, call, CounterInv, TableInv, OwnInv, PrefixInv, SettledInv,
               WalkInv, CountersIncrease, SameSeries, HasRow, Walking, Visible, InSeries
    <2> QED  BY <2>1, <2>2, <2>3 DEF Next
<1> QED  BY <1>1, <1>2, TypeCorrect, PTL DEF Spec

\* No two rows of one series share a counter; counters follow the row ids.
THEOREM CountersUnique == ASSUME SettleHolds PROVE Spec => []CountersIncrease
<1>1. CounterInv => CountersIncrease
    BY DEF CounterInv
<1> QED  BY <1>1, CounterCorrect, PTL

\* A counter once set keeps its value, with or without the settle window.
THEOREM CountersNeverChange == Spec => CountersFixed
<1>1. TypeOK /\ [Next]_vars => [\A i \in RowId : counter[i] > 0 => counter'[i] = counter[i]]_vars
    <2> SUFFICES ASSUME TypeOK, [Next]_vars
                 PROVE  \A i \in RowId : counter[i] > 0 => counter'[i] = counter[i]
        OBVIOUS
    <2>1. ASSUME NEW c \in Caller, UpdateRow(c)
          PROVE  \A i \in RowId : counter[i] > 0 => counter'[i] = counter[i]
        BY <2>1 DEF UpdateRow, TypeOK
    <2>2. ASSUME NEW c \in Caller,
                 TicketCreateNumber(c) \/ (Step(c) /\ ~ UpdateRow(c)) \/ Crash(c)
          PROVE  UNCHANGED counter
        BY <2>2 DEF TicketCreateNumber, StartTry, Step, InsertRow, CommitRow, Settle, SelectUnset,
               ReadPrevious, ReadBack, NumberFree, NumberTaken, LoopProtection, CreateTicket,
               Crash, table
    <2>3. CASE Midnight \/ UNCHANGED vars
        BY <2>3 DEF Midnight, vars, table
    <2> QED  BY <2>1, <2>2, <2>3 DEF Next
<1> QED  BY <1>1, TypeCorrect, PTL DEF Spec, CountersFixed

-----------------------------------------------------------------------------
(* Numbers, for a counter that never restarts (AutoIncrement). *)

\* A caller that walked its rows has its own row filled.
LEMMA WalkedOwn ==
    ASSUME ~ daily, TypeOK, CounterInv, NEW c \in Caller, pc[c] = "fill", unset[c] = {}
    PROVE  counter[own[c]] > 0
<1>1. own[c] \in RowId /\ state[own[c]] = "live"
    BY DEF TypeOK, CounterInv, OwnInv, HasRow, InCall
<1>2. own[c] \in Visible(c) /\ own[c] <= own[c]
    BY <1>1 DEF Visible, InSeries, RowId
<1> QED  BY <1>2 DEF CounterInv, WalkInv, Walking

\* Every call returns the computed counter of its row, never an unset one.
THEOREM OwnRowIsFilled == ASSUME SettleHolds PROVE Spec => []OwnRowFilled
<1>1. TypeOK /\ CounterInv => OwnRowFilled
    BY WalkedOwn DEF OwnRowFilled
<1> QED  BY <1>1, TypeCorrect, CounterCorrect, PTL

\* Different callers past the read-back hold different numbers.
LEMMA HoldersDiffer ==
    ASSUME ~ daily, TypeOK, CounterInv, NumberInv, NEW c \in Caller, NEW d \in Caller, c # d,
           pc[c] \in {"check", "named"}, pc[d] \in {"check", "named"}
    PROVE  number[c] # number[d]
<1>1. /\ own[c] \in RowId /\ own[d] \in RowId /\ own[c] # own[d]
      /\ own[c] < own[d] \/ own[d] < own[c]
    <2>1. own[c] \in RowId /\ own[d] \in RowId /\ own[c] # own[d]
        BY DEF TypeOK, CounterInv, OwnInv, HasRow, InCall
    <2>2. own[c] \in Nat /\ own[d] \in Nat
        BY <2>1 DEF RowId
    <2> QED  BY <2>1, <2>2
<1>2. counter[own[c]] > 0 /\ counter[own[d]] > 0 /\ counter[own[c]] \in Nat /\ counter[own[d]] \in Nat
    BY <1>1 DEF NumberInv, TypeOK
<1>3. counter[own[c]] # counter[own[d]]
    BY <1>1, <1>2 DEF CounterInv, CountersIncrease, SameSeries
<1> QED  BY <1>3 DEF NumberInv

\* The number a call returns is held by no other call and is still free when the
\* ticket is inserted: create_ticket never meets the unique index of ticket.tn.
THEOREM NumbersAreUnique == ASSUME SettleHolds PROVE Spec => []NumbersUnique
<1>1. Init => NumberInv
    BY DEF Init, NumberInv
<1>2. TypeOK /\ CounterInv /\ NumberInv /\ [Next]_vars => NumberInv'
    <2> SUFFICES ASSUME TypeOK, CounterInv, NumberInv, [Next]_vars
                 PROVE  NumberInv'
        OBVIOUS
    <2>0. daily' = daily
        BY DEF Next, Step, TicketCreateNumber, StartTry, InsertRow, CommitRow, Settle, SelectUnset,
               ReadPrevious, UpdateRow, ReadBack, NumberFree, NumberTaken, LoopProtection,
               CreateTicket, Crash, Midnight, vars
    <2> SUFFICES ASSUME ~daily, NEW d \in Caller
                 PROVE  /\ pc'[d] \in {"check", "named"} =>
                             number'[d] = <<0, counter'[own'[d]]>> /\ counter'[own'[d]] > 0
                        /\ pc'[d] = "named" => number'[d] \notin tickets'
        BY <2>0 DEF NumberInv
    <2> USE DEF Goto, table, call
    <2>1. ASSUME NEW c \in Caller, ReadBack(c)
          PROVE  /\ pc'[d] \in {"check", "named"} =>
                       number'[d] = <<0, counter'[own'[d]]>> /\ counter'[own'[d]] > 0
                 /\ pc'[d] = "named" => number'[d] \notin tickets'
        <3>1. counter[own[c]] > 0
            BY <2>1, WalkedOwn DEF ReadBack
        <3> QED  BY <2>1, <3>1 DEF ReadBack, NumberOf, NumberInv, TypeOK
    <2>2. ASSUME NEW c \in Caller, CreateTicket(c)
          PROVE  /\ pc'[d] \in {"check", "named"} =>
                       number'[d] = <<0, counter'[own'[d]]>> /\ counter'[own'[d]] > 0
                 /\ pc'[d] = "named" => number'[d] \notin tickets'
        <3>1. CASE d = c
            BY <2>2, <3>1 DEF CreateTicket, TypeOK
        <3>2. CASE d # c
            <4>1. /\ pc'[d] = pc[d] /\ UNCHANGED <<number, counter, own>>
                  /\ tickets' \in {tickets, tickets \cup {number[c]}} /\ pc[c] = "named"
                BY <2>2, <3>2 DEF CreateTicket, TypeOK
            <4>2. pc[d] = "named" => number[d] # number[c]
                BY <3>2, <4>1, HoldersDiffer
            <4> QED  BY <4>1, <4>2 DEF NumberInv
        <3> QED  BY <3>1, <3>2
    <2>3. ASSUME NEW c \in Caller, UpdateRow(c)
          PROVE  /\ pc'[d] \in {"check", "named"} =>
                       number'[d] = <<0, counter'[own'[d]]>> /\ counter'[own'[d]] > 0
                 /\ pc'[d] = "named" => number'[d] \notin tickets'
        <3>1. pc'[d] = pc[d] \/ pc'[d] = "fill"
            BY <2>3 DEF UpdateRow, TypeOK
        <3>2. UNCHANGED <<number, own, tickets>>
            BY <2>3 DEF UpdateRow
        <3>3. pc[d] \in {"check", "named"} => counter[own[d]] > 0 /\ own[d] \in RowId
            BY DEF NumberInv, TypeOK, HasRow, InCall
        <3>4. \A i \in RowId : counter[i] > 0 => counter'[i] = counter[i]
            BY <2>3 DEF UpdateRow, TypeOK
        <3> QED  BY <3>1, <3>2, <3>3, <3>4 DEF NumberInv
    <2>4. ASSUME NEW c \in Caller, NumberFree(c)
          PROVE  /\ pc'[d] \in {"check", "named"} =>
                       number'[d] = <<0, counter'[own'[d]]>> /\ counter'[own'[d]] > 0
                 /\ pc'[d] = "named" => number'[d] \notin tickets'
        BY <2>4 DEF NumberFree, NumberInv, TypeOK
    <2>5. ASSUME NEW c \in Caller,
                 \/ TicketCreateNumber(c) \/ InsertRow(c) \/ CommitRow(c) \/ Settle(c)
                 \/ SelectUnset(c) \/ ReadPrevious(c) \/ NumberTaken(c) \/ LoopProtection(c)
                 \/ Crash(c)
          PROVE  /\ pc'[d] \in {"check", "named"} =>
                       number'[d] = <<0, counter'[own'[d]]>> /\ counter'[own'[d]] > 0
                 /\ pc'[d] = "named" => number'[d] \notin tickets'
        <3>1. UNCHANGED <<number, counter, tickets>>
            BY <2>5 DEF TicketCreateNumber, StartTry, InsertRow, CommitRow, Settle, SelectUnset,
                   ReadPrevious, NumberTaken, LoopProtection, Crash
        <3>2. pc'[d] \in {"check", "named"} => pc'[d] = pc[d] /\ own'[d] = own[d]
            BY <2>5 DEF TicketCreateNumber, StartTry, InsertRow, CommitRow, Settle, SelectUnset,
                   ReadPrevious, NumberTaken, LoopProtection, Crash, TypeOK
        <3> QED  BY <3>1, <3>2 DEF NumberInv
    <2>6. CASE Midnight \/ UNCHANGED vars
        BY <2>6 DEF Midnight, vars, NumberInv
    <2> QED  BY <2>1, <2>2, <2>3, <2>4, <2>5, <2>6 DEF Next, Step
<1>3. TypeOK /\ CounterInv /\ NumberInv => NumbersUnique
    BY HoldersDiffer DEF NumberInv, NumbersUnique, DifferentNumbers
<1> QED  BY <1>1, <1>2, <1>3, TypeCorrect, CounterCorrect, PTL DEF Spec
=============================================================================
