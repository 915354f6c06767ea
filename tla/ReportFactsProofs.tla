------------------------ MODULE ReportFactsProofs ------------------------
(***************************************************************************)
(* Proofs about ReportFacts, for builders in the worker process and beside *)
(* it: an erasure never leaves old facts without a mark, no history row is *)
(* missed, and nothing is put back to older facts where all builders share *)
(* the worker's lock.                                                      *)
(***************************************************************************)
EXTENDS ReportFacts, TLAPS, FiniteSetTheorems

----------------------------------------------------------------------------
(* The inductive invariant. *)

\* The tick rebuilds the marked tickets it took.
Clearing == tick.stage = "dirty"

LockOK == \A b \in Builders \ Outside : pc[b] = "write" <=> lock = b

TickOK ==
    /\ Clearing => pc[Tick] \in {"rebuild", "write"}
    /\ part[Tick] \subseteq left[Tick] /\ left[Tick] \subseteq todo[Tick]
    /\ pc[Tick] # "write" => part[Tick] = {}
    /\ pc[Tick] \notin {"rebuild", "write"} => left[Tick] = {}
    /\ Clearing => tick.failed \subseteq todo[Tick]

\* Stamps grow: the mark of an open erasure is newer than the one it replaces, and a mark the
\* tick has taken is only replaced by a newer one.
StampsOK ==
    /\ \A t \in Tickets : erasing[t] <= clock /\ dirty[t] <= clock
    /\ \A t \in Tickets : erasing[t] # 0 => dirty[t] < erasing[t]
    /\ Clearing => \A t \in todo[Tick] : 0 < tick.seen[t] /\ tick.seen[t] <= dirty[t]

\* What an open rebuild read stands marked if it is outdated, or the facts are newer; what the
\* tick reads or has written for a mark is current unless the ticket was marked again.
ReadsOK ==
    /\ \A t \in Tickets : facts[t].content <= content[t]
    /\ \A b \in Builders : pc[b] = "write" => \A t \in part[b] :
          /\ view[b][t].content <= content[t]
          /\ view[b][t].content < content[t] => \/ dirty[t] # 0 \/ t \in overtaken \cup rewound
                                                \/ view[b][t].content < facts[t].content
    /\ Clearing /\ pc[Tick] = "write" => \A t \in part[Tick] :
          dirty[t] = tick.seen[t] => view[Tick][t].content = content[t]
    /\ Clearing => \A t \in todo[Tick] \ (left[Tick] \cup tick.failed) :
          dirty[t] = tick.seen[t] => facts[t].content = content[t] \/ t \in rewound

IInv == TypeOK /\ TickOK /\ StampsOK /\ ReadsOK /\ StaleIsMarked

----------------------------------------------------------------------------
(* Extreme elements. *)

\* A set of ids has a smallest one: the sets of ids up to its members are well-founded.
LEMMA SmallestExists ==
    ASSUME NEW N \in Nat, NEW S \in SUBSET (1..N), S # {}
    PROVE  \E x \in S : \A y \in S : x <= y
<1> DEFINE Upto(x) == {y \in 1..N : y <= x}
           F == {Upto(x) : x \in S}
<1>1. F \subseteq FiniteSubsetsOf(1..N)
  <2>1. IsFiniteSet(1..N)
    BY FS_Interval
  <2> QED
    BY <2>1, FS_Subset DEF FiniteSubsetsOf
<1>2. IsWellFoundedOn(StrictSubsetOrdering(1..N), FiniteSubsetsOf(1..N))
  BY FS_StrictSubsetOrderingWellFounded
<1>3. PICK a \in F : \A c \in F : ~ (<<c, a>> \in StrictSubsetOrdering(1..N))
  <2>1. F # {}
    OBVIOUS
  <2> QED
    BY <1>1, <1>2, <2>1, WFMin
<1>4. PICK x \in S : a = Upto(x)
  BY <1>3
<1>5. ASSUME NEW y \in S, y < x PROVE FALSE
  <2>1. Upto(y) \in F /\ Upto(y) \subseteq Upto(x) /\ Upto(y) # Upto(x)
    BY <1>5
  <2>2. <<Upto(y), a>> \in StrictSubsetOrdering(1..N)
    BY <2>1, <1>3, <1>4 DEF StrictSubsetOrdering
  <2> QED
    BY <2>1, <2>2, <1>3
<1> QED
  BY <1>4, <1>5

\* Mirrored, it has a largest one.
LEMMA LargestExists ==
    ASSUME NEW N \in Nat, NEW S \in SUBSET (1..N), S # {}
    PROVE  \E x \in S : \A y \in S : y <= x
<1> DEFINE M == {N + 1 - x : x \in S}
<1>1. M \in SUBSET (1..N)
  OBVIOUS
<1>2. PICK m \in M : \A y \in M : m <= y
  <2>1. M # {}
    OBVIOUS
  <2> QED
    BY <1>1, <2>1, SmallestExists
<1>3. PICK x \in S : m = N + 1 - x
  BY <1>2
<1>4. ASSUME NEW y \in S PROVE y <= x
  <2>1. N + 1 - y \in M
    OBVIOUS
  <2>2. N + 1 - x <= N + 1 - y
    BY <1>2, <1>3, <2>1
  <2> QED
    BY <2>2
<1> QED
  BY <1>4

\* What Largest and Smallest return.
LEMMA LargestIs ==
    ASSUME NEW N \in Nat, NEW S \in SUBSET (1..N)
    PROVE  /\ Largest(S) \in Nat
           /\ S # {} => Largest(S) \in S
           /\ \A y \in S : y <= Largest(S)
<1>1. CASE S = {}
  BY <1>1 DEF Largest
<1>2. CASE S # {}
  <2>1. \E x \in S : \A y \in S : y <= x
    BY <1>2, LargestExists
  <2>2. Largest(S) \in S /\ \A y \in S : y <= Largest(S)
    BY <1>2, <2>1 DEF Largest
  <2>3. \A y \in S : y \in Nat
    OBVIOUS
  <2> QED
    BY <1>2, <2>2, <2>3
<1> QED
  BY <1>1, <1>2

LEMMA SmallestIs ==
    ASSUME NEW N \in Nat, NEW S \in SUBSET (1..N), S # {}
    PROVE  Smallest(S) \in S /\ \A y \in S : Smallest(S) <= y
BY SmallestExists DEF Smallest

\* The first n elements reach down to the smallest one.
LEMMA FirstOfIs ==
    ASSUME NEW N \in Nat, NEW S \in SUBSET (1..N), NEW n \in Nat \ {0}
    PROVE  /\ FirstOf(S, n) \subseteq S
           /\ \A x \in FirstOf(S, n) : \A y \in S : y <= x => y \in FirstOf(S, n)
           /\ S # {} => FirstOf(S, n) # {}
<1> DEFINE Upto(x) == {y \in S : y <= x}
<1>1. \A x \in S : IsFiniteSet(Upto(x)) /\ Cardinality(Upto(x)) \in Nat
  <2>1. IsFiniteSet(1..N)
    BY FS_Interval
  <2>2. \A x \in S : Upto(x) \in SUBSET (1..N)
    OBVIOUS
  <2> QED
    BY <2>1, <2>2, FS_Subset, FS_CardinalityType
<1>2. ASSUME NEW x \in FirstOf(S, n), NEW y \in S, y <= x PROVE y \in FirstOf(S, n)
  <2>1. Upto(y) \subseteq Upto(x)
    <3>1. x \in S
      BY DEF FirstOf
    <3>2. x \in Nat /\ y \in Nat /\ \A z \in S : z \in Nat
      BY <3>1
    <3>3. \A z \in S : z <= y => z <= x
      BY <1>2, <3>2
    <3> QED
      BY <3>3
  <2>2. Cardinality(Upto(y)) <= Cardinality(Upto(x))
    <3>1. x \in S
      BY DEF FirstOf
    <3> QED
      BY <1>1, <2>1, <3>1, FS_Subset
  <2>3. Cardinality(Upto(x)) <= n
    BY DEF FirstOf
  <2>4. Cardinality(Upto(y)) <= n
    BY <1>1, <2>2, <2>3 DEF FirstOf
  <2> QED
    BY <2>4 DEF FirstOf
<1>3. ASSUME S # {} PROVE FirstOf(S, n) # {}
  <2>1. PICK x \in S : \A y \in S : x <= y
    BY <1>3, SmallestExists
  <2>2. Upto(x) = {x}
    <3>1. \A y \in S : y \in Nat
      OBVIOUS
    <3>2. \A y \in S : y <= x => y = x
      BY <2>1, <3>1
    <3>3. x <= x
      BY <3>1
    <3> QED
      BY <3>2, <3>3
  <2>3. Cardinality({x}) = 1
    BY FS_Singleton
  <2> QED
    BY <2>2, <2>3 DEF FirstOf
<1> QED
  BY <1>2, <1>3 DEF FirstOf


----------------------------------------------------------------------------
(* Type correctness. *)

\* What the operators of a well-typed state return.
LEMMA Sets ==
    ASSUME TypeOK
    PROVE  /\ Committed \in SUBSET (1..MaxId) /\ Open \in SUBSET (1..MaxId)
           /\ Existing \in SUBSET (1..MaxTicket)
           /\ Largest(Committed) \in Nat /\ Largest(Existing) \in Nat
           /\ \A b \in Builders : Largest(todo[b]) \in Nat
           /\ \A t \in Tickets : Current(t) \in FactType
<1>1. /\ Committed \in SUBSET (1..MaxId) /\ Open \in SUBSET (1..MaxId)
      /\ Existing \in SUBSET (1..MaxTicket)
  BY ReportAssumption DEF Committed, Open, Existing, Ids, Tickets
<1>2. \A b \in Builders : todo[b] \in SUBSET (1..MaxTicket)
  BY DEF TypeOK, Tickets
<1>3. \A t \in Tickets : Current(t) \in FactType
  BY <1>1 DEF TypeOK, Current, Ids, FactType
<1> QED
  BY <1>1, <1>2, <1>3, LargestIs, ReportAssumption

\* What the tick remembers, and how it is rewritten.
LEMMA TickWrites ==
    ASSUME NEW x \in TickType
    PROVE  /\ x.wm \in Nat /\ x.gaps \in SUBSET Ids /\ x.batch \in Nat /\ x.single \in BOOLEAN
           /\ x.failed \in SUBSET Tickets /\ x.backing \in SUBSET Tickets
           /\ x.seen \in [Tickets -> Nat]
           /\ [x EXCEPT !.single = TRUE] \in TickType
           /\ \A A, B \in SUBSET Tickets : /\ [x EXCEPT !.failed = A, !.backing = B] \in TickType
                                          /\ [x EXCEPT !.backing = B] \in TickType
           /\ \A B \in SUBSET Tickets, w \in Nat, G \in SUBSET Ids :
                 [x EXCEPT !.wm = w, !.gaps = G, !.backing = B] \in TickType
           /\ \A B \in SUBSET Tickets, m \in [Tickets -> Nat] :
                 [x EXCEPT !.stage = "dirty", !.backing = B, !.seen = m] \in TickType
           /\ \A w \in Nat, G \in SUBSET Ids, n \in Nat, m \in BOOLEAN :
                 [x EXCEPT !.wm = w, !.gaps = G, !.batch = n, !.more = m, !.single = FALSE,
                           !.failed = {}] \in TickType
BY DEF TickType

\* The values that stand for nothing.
LEMMA Nothing ==
    /\ NoFact \in FactType /\ NoMark \in [Tickets -> Nat] /\ NoRun \in RunType /\ IdleTick \in TickType
BY DEF NoFact, NoMark, NoRun, IdleTick, FactType, RunType, TickType

\* The columns of a backfill, and how a run rewrites them.
LEMMA BackfillWrites ==
    ASSUME NEW x \in BackfillType, NEW r \in RunType, NEW n \in Nat
    PROVE  /\ x.cursor \in Nat /\ x.target \in Nat /\ x.token \in Nat
           /\ r.cursor \in Nat /\ r.target \in Nat
           /\ [x EXCEPT !.token = @ + 1] \in BackfillType
           /\ [x EXCEPT !.status = "pending"] \in BackfillType
           /\ [x EXCEPT !.status = "done", !.cursor = n] \in BackfillType
           /\ [x EXCEPT !.cursor = n] \in BackfillType
           /\ [r EXCEPT !.cursor = n] \in RunType
           /\ [cursor |-> x.cursor, target |-> x.target, token |-> x.token] \in RunType
<1>1. /\ x.cursor \in Nat /\ x.target \in Nat /\ x.token \in Nat
      /\ r.cursor \in Nat /\ r.target \in Nat
  BY DEF BackfillType, RunType
<1>2. /\ [x EXCEPT !.token = @ + 1] \in BackfillType
      /\ [x EXCEPT !.status = "pending"] \in BackfillType
  BY <1>1 DEF BackfillType
<1>3. [x EXCEPT !.status = "done", !.cursor = n] \in BackfillType /\ [x EXCEPT !.cursor = n] \in BackfillType
  BY <1>1 DEF BackfillType
<1>4. [r EXCEPT !.cursor = n] \in RunType
  BY <1>1 DEF RunType
<1>5. [cursor |-> x.cursor, target |-> x.target, token |-> x.token] \in RunType
  BY <1>1 DEF RunType
<1> QED
  BY <1>1, <1>2, <1>3, <1>4, <1>5

\* The initial state is well-typed.
LEMMA TypeInit == Init => TypeOK
<1> SUFFICES ASSUME Init PROVE TypeOK
  OBVIOUS
<1>1. hist \in [Ids -> Status]
  BY DEF Init, Status
<1>2. /\ content \in [Tickets -> Nat] /\ erasing \in [Tickets -> Nat] /\ clock \in Nat
      /\ dirty \in [Tickets -> Nat] /\ facts \in [Tickets -> FactType]
  BY Nothing DEF Init
<1>3. /\ wm \in Nat /\ gaps \subseteq Ids /\ expired \subseteq Ids /\ events \in Nat
      /\ givenUp \subseteq Ids /\ overtaken \subseteq Tickets /\ rewound \subseteq Tickets
      /\ lock \in Builders \cup {None}
  BY DEF Init
<1>4. bf \in BackfillType /\ tick \in TickType /\ run \in [Runs -> RunType]
  BY Nothing DEF Init, BackfillType
<1>5. /\ pc \in [Builders -> Place]
      /\ todo \in [Builders -> SUBSET Tickets] /\ left \in [Builders -> SUBSET Tickets]
      /\ part \in [Builders -> SUBSET Tickets] /\ view \in [Builders -> [Tickets -> FactType]]
  BY Nothing DEF Init, Place
<1> QED
  BY <1>1, <1>2, <1>3, <1>4, <1>5 DEF TypeOK

\* Every step keeps the types.
LEMMA TypeStep == TypeOK /\ [Next]_vars => TypeOK'
<1> SUFFICES ASSUME TypeOK, [Next]_vars PROVE TypeOK'
  OBVIOUS
<1> USE ReportAssumption DEF writers, table, memory, bounds, ghosts
<1>1. CASE \E h \in Ids : Insert(h)
  BY <1>1 DEF TypeOK, Status, Insert
<1>2. CASE \E h \in Ids : EndInsert(h, "committed") \/ EndInsert(h, "rolled back")
  BY <1>2 DEF TypeOK, Status, EndInsert
<1>3. CASE \E t \in Tickets : Erase(t)
  BY <1>3 DEF TypeOK, Erase, Event
<1>4. CASE \E t \in Tickets : CommitErasure(t)
  BY <1>4 DEF TypeOK, FactType, CommitErasure, NoFact
<1>5. CASE Age
  BY <1>5 DEF TypeOK, Age
<1>6. CASE LoadState
  <2>1. wm' \in Nat /\ givenUp' \subseteq Ids
    BY <1>6, Sets DEF TypeOK, LoadState, FirstWatermark, Ids
  <2>2. tick' \in TickType
    BY <1>6, <2>1, TickWrites, Nothing DEF TypeOK, LoadState
  <2> QED
    BY <1>6, <2>1, <2>2 DEF TypeOK, LoadState, Place
<1>7. CASE ReadHistory
  <2>1. tick.wm \in Nat /\ tick.gaps \subseteq Ids /\ tick.batch \in Nat
    BY TickWrites DEF TypeOK
  <2>8. \A w \in Nat, G \in SUBSET Ids, n \in Nat, m \in BOOLEAN :
           [tick EXCEPT !.wm = w, !.gaps = G, !.batch = n, !.more = m, !.single = FALSE,
                           !.failed = {}] \in TickType
    BY TickWrites DEF TypeOK
  <2> DEFINE late == IF tick.batch = 0 THEN tick.gaps \cap Committed ELSE {}
             rows == FirstOf({h \in Committed : h > tick.wm}, Batch)
             last == IF rows = {} THEN tick.wm ELSE Largest(rows)
             missing == {h \in Ids : tick.wm < h /\ h <= last} \ rows
             young == ((tick.gaps \ late) \cup missing) \ expired
  <2>2. PICK kept \in SUBSET young :
           /\ givenUp' = givenUp \cup ((((tick.gaps \ late) \cup missing) \ kept) \cap (Open \cup Committed))
           /\ tick' = [tick EXCEPT !.wm = last, !.gaps = kept, !.batch = @ + 1,
                                    !.more = Cardinality(rows) = Batch,
                                    !.single = FALSE, !.failed = {}]
           /\ todo' = [todo EXCEPT ![Tick] = {TicketOf[h] : h \in late \cup rows}]
           /\ left' = [left EXCEPT ![Tick] = {TicketOf[h] : h \in late \cup rows}]
    BY <1>7 DEF ReadHistory
  <2>3. rows \in SUBSET (1..MaxId) /\ late \in SUBSET Ids
    BY <2>1, Sets DEF FirstOf, Ids
  <2>4. last \in Nat /\ (tick.batch + 1) \in Nat
    <3>1. rows \in SUBSET (1..MaxId)
      BY <2>3
    <3>2. tick.batch + 1 \in Nat
      BY <2>1
    <3> HIDE DEF rows
    <3> QED
      BY <2>1, <3>1, <3>2, LargestIs
  <2>5. kept \in SUBSET Ids /\ givenUp' \subseteq Ids
    BY <2>1, <2>2 DEF TypeOK
  <2>6. tick' \in TickType
    <3> HIDE DEF last
    <3> QED
      BY <2>2, <2>4, <2>5, <2>8
  <2>7. {TicketOf[h] : h \in late \cup rows} \in SUBSET Tickets
    BY <2>3 DEF Ids
  <2> QED
    <3> HIDE DEF late, rows
    <3> QED
      BY <1>7, <2>2, <2>5, <2>6, <2>7 DEF TypeOK, ReadHistory, Place, Builders
<1>8. CASE MarkFailed
  BY <1>8 DEF TypeOK, Place, MarkFailed, Mark, HistoryRebuilt, Builders
<1>9. CASE SaveProgress
  BY <1>9 DEF TypeOK, Place, TickType, SaveProgress, HistoryRebuilt, Builders
<1>10. CASE TakeDirty
  <2>1. tick.backing \in SUBSET Tickets /\ dirty \in [Tickets -> Nat]
    BY TickWrites DEF TypeOK
  <2>2. /\ [IdleTick EXCEPT !.backing = tick.backing] \in TickType
        /\ [IdleTick EXCEPT !.stage = "dirty", !.backing = tick.backing, !.seen = dirty] \in TickType
    BY <2>1, TickWrites, Nothing
  <2>3. tick' \in TickType
    BY <1>10, <2>2 DEF TakeDirty
  <2>4. todo' \in [Builders -> SUBSET Tickets] /\ left' \in [Builders -> SUBSET Tickets]
    BY <1>10 DEF TypeOK, TakeDirty, Marked, Builders
  <2>5. pc' \in [Builders -> Place]
    BY <1>10 DEF TypeOK, TakeDirty, Place
  <2> QED
    BY <1>10, <2>3, <2>4, <2>5 DEF TypeOK, TakeDirty
<1>11. CASE ClearDirty
  <2>1. tick.backing \in SUBSET Tickets /\ tick.failed \in SUBSET Tickets
    BY TickWrites DEF TypeOK
  <2>2. tick' \in TickType
    BY <1>11, <2>1, TickWrites, Nothing DEF ClearDirty
  <2>3. dirty' \in [Tickets -> Nat] /\ clock' \in Nat
    BY <1>11 DEF ClearDirty, Mark, TypeOK
  <2>4. overtaken' \subseteq Tickets
    BY <1>11 DEF ClearDirty, TypeOK, Builders
  <2> QED
    BY <1>11, <2>2, <2>3, <2>4 DEF TypeOK, ClearDirty, Place
<1>12. CASE BackoffPasses
  BY <1>12 DEF TypeOK, TickType, BackoffPasses
<1>13. CASE \E b \in Builders : StartRebuild(b)
  BY <1>13, Sets, Nothing DEF TypeOK, StartRebuild, NextPart, FirstOf, Place
<1>14. CASE \E b \in Builders : CommitRebuild(b)
  <2> PICK b \in Builders : CommitRebuild(b)
    BY <1>14
  <2>1. tick.backing \in SUBSET Tickets
    BY TickWrites DEF TypeOK
  <2>2. tick' \in TickType
    BY <2>1, TickWrites DEF CommitRebuild, TypeOK
  <2>3. facts' \in [Tickets -> FactType]
    BY DEF CommitRebuild, TypeOK
  <2>4. /\ part' \in [Builders -> SUBSET Tickets] /\ view' \in [Builders -> [Tickets -> FactType]]
        /\ lock' \in Builders \cup {None}
    BY Nothing DEF CommitRebuild, EndTransaction, TypeOK
  <2> QED
    BY <2>2, <2>3, <2>4 DEF CommitRebuild, TypeOK, Place
<1>15. CASE \E b \in Builders : FailRebuild(b)
  <2> PICK b \in Builders : FailRebuild(b)
    BY <1>15
  <2>1. /\ part[b] \in SUBSET Tickets /\ left[b] \in SUBSET Tickets /\ todo[b] \in SUBSET Tickets
        /\ tick.failed \in SUBSET Tickets /\ tick.backing \in SUBSET Tickets
    BY TickWrites DEF TypeOK
  <2>2. tick' \in TickType
    <3>1. /\ [tick EXCEPT !.single = TRUE] \in TickType
          /\ [tick EXCEPT !.failed = @ \cup part[b], !.backing = @ \cup part[b]] \in TickType
      BY <2>1, TickWrites DEF TypeOK
    <3> QED
      BY <3>1 DEF FailRebuild, TypeOK
  <2>3. /\ part' \in [Builders -> SUBSET Tickets] /\ view' \in [Builders -> [Tickets -> FactType]]
        /\ lock' \in Builders \cup {None}
    BY Nothing DEF FailRebuild, EndTransaction, TypeOK
  <2>4. todo' \in [Builders -> SUBSET Tickets]
    BY <2>1 DEF FailRebuild, TypeOK
  <2>5. left' \in [Builders -> SUBSET Tickets]
    <3>1. \A S \in SUBSET Tickets : [left EXCEPT ![b] = S] \in [Builders -> SUBSET Tickets]
      BY DEF TypeOK
    <3>2. \E S \in SUBSET Tickets : left' = [left EXCEPT ![b] = S]
      BY <2>1 DEF FailRebuild
    <3> QED
      BY <3>1, <3>2
  <2>6. run' \in [Runs -> RunType]
    BY Nothing DEF FailRebuild, TypeOK
  <2>7. pc' \in [Builders -> Place] /\ events' \in Nat
    <3>1. \E p \in Place : pc' = [pc EXCEPT ![b] = p]
      BY DEF FailRebuild, Place
    <3> QED
      BY <3>1 DEF FailRebuild, TypeOK, Event
  <2> QED
    BY <2>2, <2>3, <2>4, <2>5, <2>6, <2>7 DEF FailRebuild, TypeOK
<1>16. CASE \E b \in Runs : Begin(b)
  <2> PICK b \in Runs : Begin(b)
    BY <1>16
  <2>1. wm' \in Nat /\ givenUp' \subseteq Ids
    BY Sets DEF TypeOK, Begin, FirstWatermark, Ids
  <2>2. Largest(Existing) \in Nat /\ BeforeFirst \in Nat
    <3>1. Existing # {} => Smallest(Existing) \in 1..MaxTicket
      BY Sets, SmallestIs
    <3> QED
      BY <3>1, Sets DEF BeforeFirst
  <2>3. bf' \in BackfillType
    <3>0. bf \in BackfillType
      BY DEF TypeOK
    <3>1. [bf EXCEPT !.token = @ + 1] \in BackfillType
      BY <3>0 DEF BackfillType
    <3>3. bf.token + 1 \in Nat
      BY <3>0 DEF BackfillType
    <3>2. [status |-> "running", start |-> BeforeFirst, cursor |-> BeforeFirst,
           target |-> Largest(Existing), token |-> bf.token + 1] \in BackfillType
      BY <2>2, <3>3 DEF BackfillType
    <3> QED
      BY <3>1, <3>2 DEF Begin
  <2>4. run' \in [Runs -> RunType]
    <3>1. [cursor |-> bf'.cursor, target |-> bf'.target, token |-> bf'.token] \in RunType
      BY <2>3 DEF BackfillType, RunType
    <3> QED
      BY <3>1 DEF Begin, TypeOK
  <2>5. pc' \in [Builders -> Place]
    BY DEF Begin, TypeOK, Place
  <2>6. events' \in Nat
    BY DEF Begin, Event, TypeOK
  <2> QED
    BY <2>1, <2>3, <2>4, <2>5, <2>6 DEF Begin, TypeOK
<1>17. CASE \E b \in Runs : ReadChunk(b)
  <2> PICK b \in Runs : ReadChunk(b)
    BY <1>17
  <2> DEFINE ids == FirstOf({t \in Existing : run[b].cursor < t /\ t <= run[b].target}, Chunk)
  <2>1. ids \in SUBSET Tickets
    BY Sets DEF FirstOf, Tickets
  <2>2. /\ todo' = [todo EXCEPT ![b] = ids] /\ left' = [left EXCEPT ![b] = ids]
        /\ pc' = [pc EXCEPT ![b] = IF ids = {} THEN "finish" ELSE "rebuild"]
    BY DEF ReadChunk
  <2> HIDE DEF ids
  <2> QED
    BY <2>1, <2>2 DEF ReadChunk, TypeOK, Place
<1>18. CASE \E b \in Runs : SaveCursor(b)
  <2> PICK b \in Runs : SaveCursor(b)
    BY <1>18
  <2>1. /\ b \in Builders /\ run[b] \in RunType /\ bf \in BackfillType /\ Largest(todo[b]) \in Nat
    BY Sets DEF TypeOK, Builders
  <2>2. bf.cursor \in Nat /\ (IF bf.cursor < Largest(todo[b]) THEN Largest(todo[b]) ELSE bf.cursor) \in Nat
    BY <2>1 DEF BackfillType
  <2>3. bf' \in BackfillType
    <3>1. [bf EXCEPT !.cursor = IF @ < Largest(todo[b]) THEN Largest(todo[b]) ELSE @] \in BackfillType
      BY <2>1, <2>2, BackfillWrites
    <3> QED
      BY <2>1, <3>1 DEF SaveCursor
  <2>4. run' \in [Runs -> RunType]
    <3>1. [run[b] EXCEPT !.cursor = Largest(todo[b])] \in RunType
      BY <2>1, BackfillWrites
    <3> QED
      BY <3>1, Nothing DEF SaveCursor, StopRun, TypeOK
  <2>5. pc' \in [Builders -> Place] /\ todo' \in [Builders -> SUBSET Tickets]
    BY DEF SaveCursor, StopRun, TypeOK, Place
  <2> QED
    BY <2>3, <2>4, <2>5 DEF SaveCursor, TypeOK
<1>19. CASE \E b \in Runs : Finish(b)
  <2> PICK b \in Runs : Finish(b)
    BY <1>19
  <2>1. run[b] \in RunType /\ bf \in BackfillType
    BY DEF TypeOK
  <2>2. bf' \in BackfillType
    BY <2>1, BackfillWrites DEF Finish
  <2> QED
    BY <2>2, Nothing DEF Finish, StopRun, TypeOK, Place
<1>20. CASE Restart
  <2>1. bf' \in BackfillType
    BY <1>20, BackfillWrites, Nothing DEF Restart, TypeOK
  <2> QED
    BY <1>20, <2>1 DEF Restart, Event, TypeOK
<1>21. CASE Crash
  BY <1>21, Nothing DEF TypeOK, Crash, Place, Event
<1>22. CASE UNCHANGED vars
  BY <1>22 DEF TypeOK, vars
<1> QED
  BY <1>1, <1>2, <1>3, <1>4, <1>5, <1>6, <1>7, <1>8, <1>9, <1>10, <1>11, <1>12, <1>13, <1>14, <1>15, <1>16, <1>17, <1>18, <1>19, <1>20, <1>21, <1>22 DEF Next, Writer, TickStep, Rebuild, RunStep, RunOn


----------------------------------------------------------------------------
(* Control: who is where, and who holds the lock. *)

\* The tick and the runs are different builders, and the tick runs in the worker process.
LEMMA Who ==
           /\ Tick \in Builders /\ Runs \subseteq Builders /\ Tick \notin Runs
           /\ Tick \notin Outside /\ Outside \subseteq Runs
           /\ None \notin Builders /\ \A b \in Builders : b = Tick \/ b \in Runs
BY ReportAssumption DEF Builders

\* The steps of the tick leave the rest of what it remembers alone.
LEMMA TickFields ==
    ASSUME NEW x \in TickType
    PROVE  /\ \A A, B : /\ [x EXCEPT !.failed = A, !.backing = B].stage = x.stage
                        /\ [x EXCEPT !.failed = A, !.backing = B].wm = x.wm
                        /\ [x EXCEPT !.failed = A, !.backing = B].gaps = x.gaps
                        /\ [x EXCEPT !.failed = A, !.backing = B].seen = x.seen
                        /\ [x EXCEPT !.failed = A, !.backing = B].failed = A
                        /\ [x EXCEPT !.backing = B].stage = x.stage
                        /\ [x EXCEPT !.backing = B].wm = x.wm
                        /\ [x EXCEPT !.backing = B].gaps = x.gaps
                        /\ [x EXCEPT !.backing = B].seen = x.seen
                        /\ [x EXCEPT !.backing = B].failed = x.failed
           /\ [x EXCEPT !.single = TRUE].stage = x.stage
           /\ [x EXCEPT !.single = TRUE].wm = x.wm
           /\ [x EXCEPT !.single = TRUE].gaps = x.gaps
           /\ [x EXCEPT !.single = TRUE].seen = x.seen
           /\ [x EXCEPT !.single = TRUE].failed = x.failed
BY DEF TickType

\* A rebuild, and the end of a back-off, leave the tick's place in the history and its marks alone.
LEMMA TickKept ==
    ASSUME TypeOK,
           BackoffPasses \/ \E b \in Builders : StartRebuild(b) \/ CommitRebuild(b) \/ FailRebuild(b)
    PROVE  /\ tick'.stage = tick.stage /\ tick'.wm = tick.wm /\ tick'.gaps = tick.gaps
           /\ tick'.seen = tick.seen
           /\ tick.failed \subseteq tick'.failed
           /\ ~ (\E b \in Builders : FailRebuild(b)) => tick'.failed = tick.failed
<1>1. tick \in TickType
  BY DEF TypeOK
<1>2. CASE BackoffPasses
  BY <1>1, <1>2, TickFields DEF BackoffPasses
<1>3. CASE \E b \in Builders : StartRebuild(b)
  BY <1>3 DEF StartRebuild
<1>4. CASE \E b \in Builders : CommitRebuild(b)
  BY <1>1, <1>4, TickFields DEF CommitRebuild
<1>5. CASE \E b \in Builders : FailRebuild(b)
  <2> PICK b \in Builders : FailRebuild(b)
    BY <1>5
  <2>1. \/ tick' = tick
        \/ tick' = [tick EXCEPT !.single = TRUE]
        \/ tick' = [tick EXCEPT !.failed = @ \cup part[b], !.backing = @ \cup part[b]]
    BY DEF FailRebuild
  <2>2. CASE tick' = tick
    BY <1>5, <2>2
  <2>3. CASE tick' = [tick EXCEPT !.single = TRUE]
    BY <1>1, <1>5, <2>3, TickFields
  <2>4. CASE tick' = [tick EXCEPT !.failed = @ \cup part[b], !.backing = @ \cup part[b]]
    <3>1. tick'.failed = tick.failed \cup part[b]
      BY <1>1, <2>4, TickFields
    <3> QED
      BY <1>1, <1>5, <2>4, <3>1, TickFields
  <2> QED
    BY <2>1, <2>2, <2>3, <2>4
<1> QED
  BY <1>2, <1>3, <1>4, <1>5

\* The actions a step may be.
LEMMA Cases ==
    ASSUME [Next]_vars
    PROVE  \/ \E h \in Ids : Insert(h)
           \/ \E h \in Ids : EndInsert(h, "committed") \/ EndInsert(h, "rolled back")
           \/ \E t \in Tickets : Erase(t)
           \/ \E t \in Tickets : CommitErasure(t)
           \/ Age
           \/ LoadState
           \/ ReadHistory
           \/ MarkFailed
           \/ SaveProgress
           \/ TakeDirty
           \/ ClearDirty
           \/ BackoffPasses
           \/ \E b \in Builders : StartRebuild(b)
           \/ \E b \in Builders : CommitRebuild(b)
           \/ \E b \in Builders : FailRebuild(b)
           \/ \E b \in Runs : Begin(b)
           \/ \E b \in Runs : ReadChunk(b)
           \/ \E b \in Runs : SaveCursor(b)
           \/ \E b \in Runs : Finish(b)
           \/ Restart
           \/ Crash
           \/ UNCHANGED vars
BY DEF Next, Writer, TickStep, Rebuild, RunStep, RunOn


\* A builder holds the lock exactly while its transaction is open.
LEMMA LockStep ==
    ASSUME TypeOK, LockOK, [Next]_vars
    PROVE  LockOK'
<1> USE Who DEF writers, table, memory, bounds, ghosts
<1>0. pc \in [Builders -> Place] /\ lock \in Builders \cup {None}
  BY DEF TypeOK
<1>1. CASE \E h \in Ids : Insert(h)
  BY <1>1, <1>0 DEF Insert, LockOK
<1>2. CASE \E h \in Ids : EndInsert(h, "committed") \/ EndInsert(h, "rolled back")
  BY <1>2, <1>0 DEF EndInsert, LockOK
<1>3. CASE \E t \in Tickets : Erase(t)
  BY <1>3, <1>0 DEF Erase, LockOK
<1>4. CASE \E t \in Tickets : CommitErasure(t)
  BY <1>4, <1>0 DEF CommitErasure, LockOK
<1>5. CASE Age
  BY <1>5, <1>0 DEF Age, LockOK
<1>6. CASE LoadState
  BY <1>6, <1>0 DEF LoadState, LockOK
<1>7. CASE ReadHistory
  BY <1>7, <1>0 DEF ReadHistory, LockOK
<1>8. CASE MarkFailed
  BY <1>8, <1>0 DEF MarkFailed, HistoryRebuilt, LockOK
<1>9. CASE SaveProgress
  BY <1>9, <1>0 DEF SaveProgress, HistoryRebuilt, LockOK
<1>10. CASE TakeDirty
  BY <1>10, <1>0 DEF TakeDirty, LockOK
<1>11. CASE ClearDirty
  BY <1>11, <1>0 DEF ClearDirty, LockOK
<1>12. CASE BackoffPasses
  BY <1>12, <1>0 DEF BackoffPasses, LockOK
<1>13. CASE \E b \in Builders : StartRebuild(b)
  BY <1>13, <1>0 DEF StartRebuild, LockOK
<1>14. CASE \E b \in Builders : CommitRebuild(b)
  BY <1>14, <1>0 DEF CommitRebuild, EndTransaction, LockOK
<1>15. CASE \E b \in Builders : FailRebuild(b)
  BY <1>15, <1>0 DEF FailRebuild, EndTransaction, LockOK
<1>16. CASE \E b \in Runs : Begin(b)
  BY <1>16, <1>0 DEF Begin, LockOK
<1>17. CASE \E b \in Runs : ReadChunk(b)
  BY <1>17, <1>0 DEF ReadChunk, LockOK
<1>18. CASE \E b \in Runs : SaveCursor(b)
  BY <1>18, <1>0 DEF SaveCursor, StopRun, LockOK
<1>19. CASE \E b \in Runs : Finish(b)
  BY <1>19, <1>0 DEF Finish, StopRun, LockOK
<1>20. CASE Restart
  BY <1>20, <1>0 DEF Restart, LockOK
<1>21. CASE Crash
  BY <1>21, <1>0 DEF Crash, LockOK
<1>22. CASE UNCHANGED vars
  BY <1>22, <1>0 DEF vars, LockOK
<1> QED
  BY <1>1, <1>2, <1>3, <1>4, <1>5, <1>6, <1>7, <1>8, <1>9, <1>10, <1>11, <1>12, <1>13, <1>14, <1>15, <1>16, <1>17, <1>18, <1>19, <1>20, <1>21, <1>22, Cases


\* The tick clears marks only in its dirty stage, of tickets it was told to rebuild.
LEMMA TickStepOK ==
    ASSUME TypeOK, TickOK, [Next]_vars
    PROVE  TickOK'
<1> USE Who DEF writers, table, memory, bounds, ghosts
<1>0. /\ pc \in [Builders -> Place] /\ todo \in [Builders -> SUBSET Tickets] /\ tick \in TickType
      /\ left \in [Builders -> SUBSET Tickets] /\ part \in [Builders -> SUBSET Tickets]
  BY DEF TypeOK
<1>1. CASE \E h \in Ids : Insert(h)
  BY <1>1, <1>0 DEF Insert, TickOK, Clearing
<1>2. CASE \E h \in Ids : EndInsert(h, "committed") \/ EndInsert(h, "rolled back")
  BY <1>2, <1>0 DEF EndInsert, TickOK, Clearing
<1>3. CASE \E t \in Tickets : Erase(t)
  BY <1>3, <1>0 DEF Erase, TickOK, Clearing
<1>4. CASE \E t \in Tickets : CommitErasure(t)
  BY <1>4, <1>0 DEF CommitErasure, TickOK, Clearing
<1>5. CASE Age
  BY <1>5, <1>0 DEF Age, TickOK, Clearing
<1>6. CASE LoadState
  BY <1>6, <1>0 DEF LoadState, IdleTick, TickOK, Clearing
<1>7. CASE ReadHistory
  <2>1. /\ \E S \in SUBSET Tickets : todo'[Tick] = S /\ left'[Tick] = S
        /\ pc'[Tick] = "rebuild" /\ part' = part /\ pc[Tick] = "read"
    <3>1. \E S : todo' = [todo EXCEPT ![Tick] = S] /\ left' = [left EXCEPT ![Tick] = S]
      BY <1>7 DEF ReadHistory
    <3>2. todo' \in [Builders -> SUBSET Tickets]
      BY TypeStep DEF TypeOK
    <3> QED
      BY <1>0, <1>7, <3>1, <3>2 DEF ReadHistory
  <2>2. tick'.stage = tick.stage
    BY <1>0, <1>7 DEF ReadHistory
  <2>3. ~Clearing
    BY <2>1 DEF TickOK
  <2> QED
    BY <2>1, <2>2, <2>3 DEF TickOK, Clearing
<1>8. CASE MarkFailed
  BY <1>8, <1>0 DEF MarkFailed, HistoryRebuilt, TickOK, Clearing
<1>9. CASE SaveProgress
  BY <1>9, <1>0 DEF SaveProgress, HistoryRebuilt, TickOK, Clearing
<1>10. CASE TakeDirty
  <2>1. pc[Tick] = "take" /\ part' = part
    BY <1>10 DEF TakeDirty
  <2>2. CASE pc' = [pc EXCEPT ![Tick] = "idle"] /\ left' = left /\ todo' = todo /\ tick'.stage = "history"
    BY <1>0, <2>1, <2>2 DEF TickOK, Clearing
  <2>3. CASE \E due \in SUBSET Tickets :
              /\ todo' = [todo EXCEPT ![Tick] = due] /\ left' = [left EXCEPT ![Tick] = due]
              /\ pc' = [pc EXCEPT ![Tick] = "rebuild"] /\ tick'.failed = {}
    BY <1>0, <2>1, <2>3 DEF TickOK, Clearing
  <2>4. Marked \ tick.backing \in SUBSET Tickets
    BY DEF Marked
  <2> QED
    <3>1. CASE tick' = [IdleTick EXCEPT !.backing = tick.backing]
      BY <1>10, <2>2, <3>1 DEF TakeDirty, IdleTick
    <3> QED
      BY <1>10, <2>2, <2>3, <2>4, <3>1 DEF TakeDirty, IdleTick
<1>11. CASE ClearDirty
  BY <1>11, <1>0 DEF ClearDirty, IdleTick, TickOK, Clearing
<1>12. CASE BackoffPasses
  <2>1. tick'.stage = tick.stage /\ tick'.failed = tick.failed
    BY <1>0, <1>12, TickFields DEF BackoffPasses
  <2> QED
    BY <1>0, <1>12, <2>1 DEF BackoffPasses, TickOK, Clearing
<1>13. CASE \E b \in Builders : StartRebuild(b)
  <2> PICK b \in Builders : StartRebuild(b)
    BY <1>13
  <2>1. NextPart(b) \subseteq left[b]
    BY DEF NextPart, FirstOf
  <2>2. tick' = tick /\ todo' = todo /\ left' = left
    BY DEF StartRebuild
  <2>3. CASE b = Tick
    BY <1>0, <2>1, <2>2, <2>3 DEF StartRebuild, TickOK, Clearing
  <2>4. CASE b # Tick
    BY <1>0, <2>2, <2>4 DEF StartRebuild, TickOK, Clearing
  <2> QED
    BY <2>3, <2>4
<1>14. CASE \E b \in Builders : CommitRebuild(b)
  <2> PICK b \in Builders : CommitRebuild(b)
    BY <1>14
  <2>1. tick'.stage = tick.stage /\ tick'.failed = tick.failed /\ todo' = todo
    <3>1. tick' = IF b = Tick THEN [tick EXCEPT !.backing = @ \ part[b]] ELSE tick
      BY DEF CommitRebuild
    <3> QED
      BY <1>0, <3>1, TickFields DEF CommitRebuild
  <2>2. /\ left' = [left EXCEPT ![b] = @ \ part[b]] /\ part' = [part EXCEPT ![b] = {}]
        /\ pc' = [pc EXCEPT ![b] = "rebuild"] /\ pc[b] = "write"
    BY DEF CommitRebuild, EndTransaction
  <2> QED
    BY <1>0, <2>1, <2>2 DEF TickOK, Clearing
<1>15. CASE \E b \in Builders : FailRebuild(b)
  <2> PICK b \in Builders : FailRebuild(b)
    BY <1>15
  <2>1. pc[b] = "write" /\ part' = [part EXCEPT ![b] = {}]
    BY DEF FailRebuild, EndTransaction
  <2>2. CASE b = Tick /\ ~tick.single
    <3>1. tick'.stage = tick.stage /\ tick'.failed = tick.failed
      BY <1>0, <2>2, TickFields DEF FailRebuild
    <3>2. left' = [left EXCEPT ![b] = todo[b]] /\ pc' = [pc EXCEPT ![b] = "rebuild"] /\ todo' = todo
      BY <2>2 DEF FailRebuild
    <3> QED
      BY <1>0, <2>1, <2>2, <3>1, <3>2 DEF TickOK, Clearing
  <2>3. CASE b = Tick /\ tick.single
    <3>0. tick' = [tick EXCEPT !.failed = @ \cup part[b], !.backing = @ \cup part[b]]
      BY <2>3 DEF FailRebuild
    <3>1. tick'.stage = tick.stage /\ tick'.failed = tick.failed \cup part[b]
      BY <1>0, <3>0, TickFields
    <3>2. left' = [left EXCEPT ![b] = @ \ part[b]] /\ pc' = [pc EXCEPT ![b] = "rebuild"] /\ todo' = todo
      BY <2>3 DEF FailRebuild
    <3> QED
      BY <1>0, <2>1, <2>3, <3>1, <3>2 DEF TickOK, Clearing
  <2>4. CASE b \in Runs
    <3>1. /\ left' = [left EXCEPT ![b] = {}] /\ pc' = [pc EXCEPT ![b] = "idle"]
          /\ todo' = [todo EXCEPT ![b] = {}] /\ tick' = tick
      BY <2>4 DEF FailRebuild
    <3> QED
      BY <1>0, <2>1, <2>4, <3>1 DEF TickOK, Clearing
  <2> QED
    BY <2>2, <2>3, <2>4
<1>16. CASE \E b \in Runs : Begin(b)
  BY <1>16, <1>0 DEF Begin, TickOK, Clearing
<1>17. CASE \E b \in Runs : ReadChunk(b)
  BY <1>17, <1>0 DEF ReadChunk, TickOK, Clearing
<1>18. CASE \E b \in Runs : SaveCursor(b)
  BY <1>18, <1>0 DEF SaveCursor, StopRun, TickOK, Clearing
<1>19. CASE \E b \in Runs : Finish(b)
  BY <1>19, <1>0 DEF Finish, StopRun, TickOK, Clearing
<1>20. CASE Restart
  BY <1>20, <1>0 DEF Restart, TickOK, Clearing
<1>21. CASE Crash
  BY <1>21, <1>0 DEF Crash, IdleTick, TickOK, Clearing
<1>22. CASE UNCHANGED vars
  BY <1>22, <1>0 DEF vars, TickOK, Clearing
<1> QED
  BY <1>1, <1>2, <1>3, <1>4, <1>5, <1>6, <1>7, <1>8, <1>9, <1>10, <1>11, <1>12, <1>13, <1>14, <1>15, <1>16, <1>17, <1>18, <1>19, <1>20, <1>21, <1>22, Cases


\* Stamps grow.
LEMMA StampsStep ==
    ASSUME TypeOK, TickOK, StampsOK, [Next]_vars
    PROVE  StampsOK'
<1> USE Who DEF writers, table, memory, bounds, ghosts
<1>0. /\ pc \in [Builders -> Place] /\ todo \in [Builders -> SUBSET Tickets] /\ tick \in TickType
      /\ erasing \in [Tickets -> Nat] /\ dirty \in [Tickets -> Nat] /\ clock \in Nat
  BY DEF TypeOK
<1>K. tick' \in TickType /\ dirty' \in [Tickets -> Nat]
  BY TypeStep DEF TypeOK
<1>1. CASE \E h \in Ids : Insert(h)
  BY <1>1, <1>0, <1>K DEF Insert, StampsOK, Clearing
<1>2. CASE \E h \in Ids : EndInsert(h, "committed") \/ EndInsert(h, "rolled back")
  BY <1>2, <1>0, <1>K DEF EndInsert, StampsOK, Clearing
<1>3. CASE \E t \in Tickets : Erase(t)
  BY <1>3, <1>0, <1>K DEF Erase, Event, StampsOK, Clearing
<1>4. CASE \E t \in Tickets : CommitErasure(t)
  <2> PICK e \in Tickets : CommitErasure(e)
    BY <1>4
  <2>1. /\ dirty' = [dirty EXCEPT ![e] = erasing[e]] /\ erasing' = [erasing EXCEPT ![e] = 0]
        /\ erasing[e] # 0 /\ UNCHANGED <<clock, tick, todo>>
    BY DEF CommitErasure
  <2>2. \A t \in Tickets : dirty[t] <= dirty'[t] /\ dirty'[t] <= clock
    BY <1>0, <2>1 DEF StampsOK
  <2>3. \A t \in Tickets : erasing'[t] <= clock /\ (erasing'[t] # 0 => dirty'[t] < erasing'[t])
    BY <1>0, <2>1 DEF StampsOK
  <2>4. Clearing => todo[Tick] \subseteq Tickets /\ tick.seen \in [Tickets -> Nat]
    BY <1>0, TickWrites, Who
  <2> QED
    BY <1>0, <2>1, <2>2, <2>3, <2>4 DEF StampsOK, Clearing
<1>5. CASE Age
  BY <1>5, <1>0, <1>K DEF Age, StampsOK, Clearing
<1>6. CASE LoadState
  BY <1>6, <1>0, <1>K DEF LoadState, IdleTick, StampsOK, Clearing
<1>7. CASE ReadHistory
  <2>1. tick'.stage = tick.stage /\ pc[Tick] = "read"
    BY <1>7, <1>0 DEF ReadHistory
  <2> QED
    BY <1>7, <2>1 DEF ReadHistory, StampsOK, TickOK, Clearing
<1>8. CASE MarkFailed
  <2>1. ~Clearing /\ ~Clearing'
    BY <1>8 DEF MarkFailed, HistoryRebuilt, Clearing
  <2>2. \A t \in Tickets : dirty'[t] = IF t \in tick.failed THEN clock' ELSE dirty[t]
    BY <1>8 DEF MarkFailed, Mark
  <2> QED
    BY <1>0, <1>8, <2>1, <2>2 DEF MarkFailed, StampsOK
<1>9. CASE SaveProgress
  BY <1>9, <1>0, <1>K DEF SaveProgress, HistoryRebuilt, StampsOK, Clearing
<1>10. CASE TakeDirty
  <2>1. UNCHANGED <<erasing, dirty, clock>>
    BY <1>10 DEF TakeDirty
  <2>2. CASE tick'.stage = "history"
    BY <2>1, <2>2 DEF StampsOK, Clearing
  <2>3. CASE tick'.seen = dirty /\ todo'[Tick] \subseteq Marked
    BY <1>0, <2>1, <2>3 DEF StampsOK, Marked
  <2>4. CASE /\ todo' = [todo EXCEPT ![Tick] = Marked \ tick.backing]
             /\ tick' = [IdleTick EXCEPT !.stage = "dirty", !.backing = tick.backing, !.seen = dirty]
    BY <1>0, <2>3, <2>4, Nothing, TickWrites, Sets DEF TypeOK, Marked, IdleTick
  <2>5. CASE tick' = [IdleTick EXCEPT !.backing = tick.backing]
    BY <2>2, <2>5 DEF IdleTick
  <2> QED
    BY <1>10, <2>4, <2>5 DEF TakeDirty
<1>11. CASE ClearDirty
  <2>1. ~Clearing'
    BY <1>11 DEF ClearDirty, IdleTick, Clearing
  <2>2. tick.failed \subseteq todo[Tick]
    BY <1>11 DEF ClearDirty, TickOK, Clearing
  <2>3. \A t \in Tickets : \/ dirty'[t] = dirty[t]
                           \/ dirty'[t] = 0
                           \/ erasing[t] = 0 /\ dirty'[t] = clock + 1 /\ tick.failed # {}
    BY <1>11, <2>2 DEF ClearDirty, Mark
  <2>4. clock' = clock \/ clock' = clock + 1
    BY <1>11 DEF ClearDirty
  <2>5. tick.failed # {} => clock' = clock + 1
    BY <1>11 DEF ClearDirty
  <2>6. erasing' = erasing
    BY <1>11 DEF ClearDirty
  <2> QED
    BY <1>0, <2>1, <2>3, <2>4, <2>5, <2>6 DEF StampsOK
<1>12. CASE BackoffPasses
  <2>1. tick'.stage = tick.stage /\ tick'.seen = tick.seen
    BY <1>12, TickKept
  <2> QED
    BY <1>12, <2>1 DEF StampsOK, Clearing, BackoffPasses
<1>13. CASE \E b \in Builders : StartRebuild(b)
  <2>1. tick'.stage = tick.stage /\ tick'.seen = tick.seen
    BY <1>13, TickKept
  <2> QED
    BY <1>13, <2>1 DEF StampsOK, Clearing, StartRebuild
<1>14. CASE \E b \in Builders : CommitRebuild(b)
  <2>1. tick'.stage = tick.stage /\ tick'.seen = tick.seen
    BY <1>14, TickKept
  <2> QED
    BY <1>14, <2>1 DEF StampsOK, Clearing, CommitRebuild, EndTransaction
<1>15. CASE \E b \in Builders : FailRebuild(b)
  <2> PICK b \in Builders : FailRebuild(b)
    BY <1>15
  <2>1. tick'.stage = tick.stage /\ tick'.seen = tick.seen
    BY <1>15, TickKept
  <2>2. todo' = todo \/ (b \in Runs /\ todo' = [todo EXCEPT ![b] = {}])
    BY Zenon DEF FailRebuild
  <2>3. todo'[Tick] = todo[Tick]
    BY <1>0, <2>2
  <2>4. UNCHANGED <<erasing, dirty, clock>>
    BY DEF FailRebuild
  <2> QED
    BY <2>1, <2>3, <2>4 DEF StampsOK, Clearing
<1>16. CASE \E b \in Runs : Begin(b)
  BY <1>16, <1>0, <1>K DEF Begin, StampsOK, Clearing
<1>17. CASE \E b \in Runs : ReadChunk(b)
  BY <1>17, <1>0, <1>K DEF ReadChunk, StampsOK, Clearing
<1>18. CASE \E b \in Runs : SaveCursor(b)
  BY <1>18, <1>0, <1>K DEF SaveCursor, StopRun, StampsOK, Clearing
<1>19. CASE \E b \in Runs : Finish(b)
  BY <1>19, <1>0, <1>K DEF Finish, StopRun, StampsOK, Clearing
<1>20. CASE Restart
  BY <1>20, <1>0, <1>K DEF Restart, StampsOK, Clearing
<1>21. CASE Crash
  BY <1>21, <1>0, <1>K DEF Crash, IdleTick, StampsOK, Clearing
<1>22. CASE UNCHANGED vars
  BY <1>22, <1>0, <1>K DEF vars, StampsOK, Clearing
<1> QED
  BY <1>1, <1>2, <1>3, <1>4, <1>5, <1>6, <1>7, <1>8, <1>9, <1>10, <1>11, <1>12, <1>13, <1>14, <1>15, <1>16, <1>17, <1>18, <1>19, <1>20, <1>21, <1>22, Cases


\* A mark is only cleared when the facts are current, or noted as overtaken.
LEMMA ClearedAreCurrent ==
    ASSUME TypeOK, StampsOK, ReadsOK, ClearDirty
    PROVE  \A t \in Tickets : facts[t].content < content[t] /\ (dirty[t] # 0 \/ t \in overtaken \cup rewound)
                                 => dirty'[t] # 0 \/ t \in overtaken' \cup rewound'
<1>0. overtaken \subseteq overtaken' /\ rewound' = rewound
  BY DEF ClearDirty
<1> SUFFICES ASSUME NEW t \in Tickets, facts[t].content < content[t], dirty[t] # 0, dirty'[t] = 0,
                    t \notin rewound
             PROVE  t \in overtaken'
  BY <1>0
<1>1. clock + 1 # 0
  BY DEF TypeOK
<1>2. Clearable(t) /\ t \notin tick.failed
  BY <1>1 DEF ClearDirty, Mark, Clearable
<1>3. Clearing /\ t \in todo[Tick] \ (left[Tick] \cup tick.failed)
  BY <1>2 DEF ClearDirty, Clearable, Clearing
<1>4. /\ facts[t].content \in Nat /\ content[t] \in Nat /\ dirty[t] \in Nat /\ tick.seen[t] \in Nat
  BY TickWrites DEF TypeOK, FactType
<1>5. dirty[t] # tick.seen[t]
  <2>1. facts[t].content # content[t]
    BY <1>4
  <2> QED
    BY <1>3, <2>1 DEF ReadsOK
<1>6. tick.seen[t] < dirty[t]
  BY <1>3, <1>4, <1>5 DEF StampsOK
<1> QED
  BY <1>2, <1>6 DEF ClearDirty, Clearable

\* What is read, written and cleared stays in step with the marks.
LEMMA ReadsStep ==
    ASSUME TypeOK, TickOK, StampsOK, ReadsOK, [Next]_vars
    PROVE  ReadsOK'
<1> USE Who DEF writers, table, memory, bounds, ghosts
<1>0. /\ pc \in [Builders -> Place] /\ todo \in [Builders -> SUBSET Tickets] /\ tick \in TickType
      /\ left \in [Builders -> SUBSET Tickets] /\ part \in [Builders -> SUBSET Tickets]
      /\ dirty \in [Tickets -> Nat] /\ content \in [Tickets -> Nat]
      /\ facts \in [Tickets -> FactType] /\ view \in [Builders -> [Tickets -> FactType]]
  BY DEF TypeOK
<1>K. /\ tick' \in TickType /\ dirty' \in [Tickets -> Nat] /\ content' \in [Tickets -> Nat]
      /\ facts' \in [Tickets -> FactType]
  BY TypeStep DEF TypeOK
<1>N. /\ \A t \in Tickets : facts[t].content \in Nat /\ content[t] \in Nat /\ dirty[t] \in Nat
      /\ \A b \in Builders, t \in Tickets : view[b][t].content \in Nat
  BY <1>0 DEF FactType
<1>1. CASE \E h \in Ids : Insert(h)
  BY <1>1 DEF Insert, ReadsOK, Clearing
<1>2. CASE \E h \in Ids : EndInsert(h, "committed") \/ EndInsert(h, "rolled back")
  BY <1>2 DEF EndInsert, ReadsOK, Clearing
<1>3. CASE \E t \in Tickets : Erase(t)
  BY <1>3 DEF Erase, Event, ReadsOK, Clearing
<1>4. CASE \E t \in Tickets : CommitErasure(t)
  <2> PICK e \in Tickets : CommitErasure(e)
    BY <1>4
  <2>1. /\ content' = [content EXCEPT ![e] = @ + 1] /\ facts' = [facts EXCEPT ![e] = NoFact]
        /\ dirty' = [dirty EXCEPT ![e] = erasing[e]] /\ erasing[e] # 0
        /\ UNCHANGED <<tick, todo, left, part, view, pc, overtaken, rewound>>
    BY DEF CommitErasure
  <2>2. /\ NoFact.content = 0 /\ erasing \in [Tickets -> Nat]
        /\ \A t \in todo[Tick] : tick.seen[t] \in Nat /\ t \in Tickets
    BY <1>0, TickWrites DEF NoFact, TypeOK
  <2>3. \A t \in Tickets : facts'[t].content <= content'[t]
    BY <1>0, <1>N, <2>1, <2>2 DEF ReadsOK
  <2>4. ASSUME NEW b \in Builders, pc[b] = "write", NEW t \in part[b]
        PROVE  /\ view[b][t].content <= content'[t]
               /\ view[b][t].content < content'[t] => \/ dirty'[t] # 0 \/ t \in overtaken \cup rewound
                                                      \/ view[b][t].content < facts'[t].content
    <3>1. t \in Tickets
      BY <1>0
    <3>2. /\ view[b][t].content <= content[t]
          /\ view[b][t].content < content[t] => \/ dirty[t] # 0 \/ t \in overtaken \cup rewound
                                                \/ view[b][t].content < facts[t].content
      BY <2>4 DEF ReadsOK
    <3>3. CASE t = e
      BY <1>0, <1>N, <2>1, <2>2, <3>1, <3>2, <3>3
    <3>4. CASE t # e
      BY <1>0, <2>1, <3>1, <3>2, <3>4
    <3> QED
      BY <3>3, <3>4
  <2>5. Clearing => \A t \in todo[Tick] : dirty'[t] = tick.seen[t] => t # e
    <3> SUFFICES ASSUME Clearing, e \in todo[Tick] PROVE dirty'[e] # tick.seen[e]
      OBVIOUS
    <3>1. tick.seen[e] <= dirty[e] /\ dirty[e] < erasing[e]
      BY <2>1 DEF StampsOK
    <3>2. tick.seen[e] \in Nat /\ dirty[e] \in Nat /\ erasing[e] \in Nat
      BY <1>0, <2>2
    <3> QED
      BY <1>0, <2>1, <3>1, <3>2
  <2>6. part[Tick] \subseteq todo[Tick] /\ todo[Tick] \subseteq Tickets
    BY <1>0 DEF TickOK
  <2>7. \A t \in Tickets : t # e => UNCHANGED <<facts[t], content[t], dirty[t]>>
    BY <1>0, <2>1
  <2>8. Clearing /\ pc[Tick] = "write" => \A t \in part[Tick] :
           dirty'[t] = tick.seen[t] => view[Tick][t].content = content'[t]
    BY <2>5, <2>6, <2>7 DEF ReadsOK
  <2>9. Clearing => \A t \in todo[Tick] \ (left[Tick] \cup tick.failed) :
           dirty'[t] = tick.seen[t] => facts'[t].content = content'[t] \/ t \in rewound
    BY <2>5, <2>6, <2>7 DEF ReadsOK
  <2> QED
    BY <2>1, <2>3, <2>4, <2>8, <2>9 DEF ReadsOK, Clearing
<1>5. CASE Age
  BY <1>5 DEF Age, ReadsOK, Clearing
<1>6. CASE LoadState
  <2>1. ~Clearing'
    BY <1>6 DEF LoadState, IdleTick, Clearing
  <2>2. /\ UNCHANGED <<facts, content, dirty, overtaken, rewound, part, view>>
        /\ pc' = [pc EXCEPT ![Tick] = "read"]
    BY <1>6 DEF LoadState
  <2> QED
    BY <1>0, <2>1, <2>2 DEF ReadsOK
<1>7. CASE ReadHistory
  <2>1. ~Clearing'
    BY <1>7, <1>0 DEF ReadHistory, TickOK, Clearing
  <2>2. /\ UNCHANGED <<facts, content, dirty, overtaken, rewound, part, view>>
        /\ pc' = [pc EXCEPT ![Tick] = "rebuild"]
    BY <1>7 DEF ReadHistory
  <2> QED
    BY <1>0, <2>1, <2>2 DEF ReadsOK
<1>8. CASE MarkFailed
  <2>1. ~Clearing'
    BY <1>8, <1>0 DEF MarkFailed, HistoryRebuilt, Clearing
  <2>2. /\ UNCHANGED <<facts, content, overtaken, rewound, part, view>>
        /\ pc' = [pc EXCEPT ![Tick] = "save"]
    BY <1>8 DEF MarkFailed
  <2>3. \A t \in Tickets : dirty[t] # 0 => dirty'[t] # 0
    <3>1. clock + 1 # 0
      BY DEF TypeOK
    <3> QED
      BY <1>0, <1>8, <3>1 DEF MarkFailed, Mark
  <2> QED
    BY <1>0, <2>1, <2>2, <2>3 DEF ReadsOK
<1>9. CASE SaveProgress
  <2>1. ~Clearing'
    BY <1>9, <1>0 DEF SaveProgress, HistoryRebuilt, TickOK, Clearing
  <2>2. /\ UNCHANGED <<facts, content, dirty, overtaken, rewound, part, view>>
        /\ pc'[Tick] # "write" /\ \A b \in Runs : pc'[b] = pc[b]
    BY <1>0, <1>9 DEF SaveProgress
  <2> QED
    BY <1>0, <2>1, <2>2 DEF ReadsOK
<1>10. CASE TakeDirty
  <2>1. /\ UNCHANGED <<facts, content, dirty, overtaken, rewound, part, view>>
        /\ pc'[Tick] # "write" /\ \A b \in Runs : pc'[b] = pc[b]
    BY <1>0, <1>10 DEF TakeDirty
  <2>2. Clearing' => todo'[Tick] \subseteq left'[Tick]
    <3>1. CASE tick' = [IdleTick EXCEPT !.backing = tick.backing]
      BY <3>1 DEF IdleTick, Clearing
    <3>2. CASE tick' # [IdleTick EXCEPT !.backing = tick.backing]
      BY <1>0, <1>10, <3>2 DEF TakeDirty
    <3> QED
      BY <3>1, <3>2
  <2> QED
    BY <1>0, <2>1, <2>2 DEF ReadsOK
<1>11. CASE ClearDirty
  <2>1. ~Clearing' /\ Clearing
    BY <1>11 DEF ClearDirty, IdleTick, Clearing
  <2>2. /\ UNCHANGED <<facts, content, part, view>>
        /\ pc'[Tick] # "write" /\ \A b \in Runs : pc'[b] = pc[b]
    BY <1>0, <1>11 DEF ClearDirty
  <2>3. \A t \in Tickets : facts[t].content < content[t] /\ (dirty[t] # 0 \/ t \in overtaken \cup rewound)
                              => dirty'[t] # 0 \/ t \in overtaken' \cup rewound'
    BY <1>11, <2>1, ClearedAreCurrent
  <2>4. ASSUME NEW b \in Builders, pc'[b] = "write", NEW t \in part'[b]
        PROVE  /\ view'[b][t].content <= content'[t]
               /\ view'[b][t].content < content'[t]
                     => \/ dirty'[t] # 0 \/ t \in overtaken' \cup rewound'
                        \/ view'[b][t].content < facts'[t].content
    <3>1. pc[b] = "write" /\ t \in part[b] /\ t \in Tickets
      BY <1>0, <2>2, <2>4
    <3>2. /\ view[b][t].content <= content[t]
          /\ view[b][t].content < content[t] => \/ dirty[t] # 0 \/ t \in overtaken \cup rewound
                                                \/ view[b][t].content < facts[t].content
          /\ facts[t].content <= content[t]
      BY <3>1 DEF ReadsOK
    <3>3. view[b][t].content < content[t]
             => facts[t].content < content[t] \/ view[b][t].content < facts[t].content
      BY <1>N, <3>1, <3>2
    <3> QED
      BY <2>2, <2>3, <3>1, <3>2, <3>3
  <2>5. \A t \in Tickets : facts'[t].content <= content'[t]
    BY <2>2 DEF ReadsOK
  <2> QED
    BY <2>1, <2>4, <2>5 DEF ReadsOK
<1>12. CASE BackoffPasses
  <2>1. tick'.stage = tick.stage /\ tick'.seen = tick.seen /\ tick'.failed = tick.failed
    BY <1>0, <1>12, TickFields DEF BackoffPasses
  <2> QED
    BY <1>12, <2>1 DEF BackoffPasses, ReadsOK, Clearing
<1>13. CASE \E b \in Builders : StartRebuild(b)
  <2> PICK b \in Builders : StartRebuild(b)
    BY <1>13
  <2>1. /\ pc' = [pc EXCEPT ![b] = "write"] /\ part' = [part EXCEPT ![b] = NextPart(b)]
        /\ view' = [view EXCEPT ![b] = [t \in Tickets |-> IF t \in NextPart(b) THEN Current(t) ELSE NoFact]]
        /\ UNCHANGED <<facts, content, dirty, overtaken, rewound, tick, todo, left>>
    BY DEF StartRebuild
  <2>2. NextPart(b) \subseteq Tickets
    BY <1>0 DEF NextPart, FirstOf
  <2>3. \A t \in part'[b] : t \in Tickets /\ view'[b][t].content = content[t]
    BY <1>0, <2>1, <2>2 DEF Current
  <2>4. \A c \in Builders : c # b => UNCHANGED <<pc[c], part[c], view[c]>>
    BY <1>0, <2>1
  <2>5. ASSUME NEW c \in Builders, pc'[c] = "write", NEW t \in part'[c]
        PROVE  /\ view'[c][t].content <= content[t]
               /\ view'[c][t].content < content[t] => \/ dirty[t] # 0 \/ t \in overtaken \cup rewound
                                                      \/ view'[c][t].content < facts[t].content
    <3>1. CASE c = b
      BY <1>N, <2>3, <2>5, <3>1 DEF ReadsOK
    <3>2. CASE c # b
      BY <2>4, <2>5, <3>2 DEF ReadsOK
    <3> QED
      BY <3>1, <3>2
  <2>6. Clearing /\ pc'[Tick] = "write" => \A t \in part'[Tick] :
           dirty[t] = tick.seen[t] => view'[Tick][t].content = content[t]
    BY <2>3, <2>4 DEF ReadsOK
  <2> QED
    BY <2>1, <2>5, <2>6 DEF ReadsOK, Clearing
<1>14. CASE \E b \in Builders : CommitRebuild(b)
  <2> PICK b \in Builders : CommitRebuild(b)
    BY <1>14
  <2>1. /\ pc[b] = "write" /\ pc' = [pc EXCEPT ![b] = "rebuild"] /\ part' = [part EXCEPT ![b] = {}]
        /\ facts' = [t \in Tickets |-> IF t \in part[b] THEN view[b][t] ELSE facts[t]]
        /\ left' = [left EXCEPT ![b] = @ \ part[b]]
        /\ rewound' = rewound \cup {t \in part[b] : Rewinds(b, t)}
        /\ view' = [view EXCEPT ![b] = [t \in Tickets |-> NoFact]]
        /\ UNCHANGED <<content, dirty, overtaken, todo>>
    BY DEF CommitRebuild, EndTransaction
  <2>2. \A c \in Builders : pc'[c] = "write" =>
           c # b /\ pc[c] = "write" /\ part'[c] = part[c] /\ view'[c] = view[c]
    BY <1>0, <2>1
  <2>3. tick'.stage = tick.stage /\ tick'.seen = tick.seen /\ tick'.failed = tick.failed
    <3>1. tick' = IF b = Tick THEN [tick EXCEPT !.backing = @ \ part[b]] ELSE tick
      BY DEF CommitRebuild
    <3> QED
      BY <1>0, <3>1, TickFields
  <2>4. \A t \in Tickets : facts'[t].content <= content[t]
    BY <1>0, <1>N, <2>1 DEF ReadsOK
  <2>7. \A t \in Tickets : t \in rewound' \/ facts[t].content <= facts'[t].content
    <3> SUFFICES ASSUME NEW t \in Tickets, t \notin rewound'
                 PROVE  facts[t].content <= facts'[t].content
      OBVIOUS
    <3>1. CASE t \in part[b]
      <4>1. ~(view[b][t].content < facts[t].content) /\ facts'[t] = view[b][t]
        BY <2>1, <3>1 DEF Rewinds
      <4>2. view[b][t].content \in Nat /\ facts[t].content \in Nat
        BY <1>N
      <4> QED
        BY <4>1, <4>2
    <3>2. CASE t \notin part[b]
      BY <1>N, <2>1, <3>2
    <3> QED
      BY <3>1, <3>2
  <2>8. ASSUME NEW c \in Builders, pc'[c] = "write", NEW t \in part'[c]
        PROVE  /\ view'[c][t].content <= content[t]
               /\ view'[c][t].content < content[t]
                     => \/ dirty[t] # 0 \/ t \in overtaken \cup rewound'
                        \/ view'[c][t].content < facts'[t].content
    <3>1. t \in part[c] /\ pc[c] = "write" /\ view'[c] = view[c] /\ t \in Tickets
      BY <1>0, <2>2, <2>8
    <3>2. /\ view[c][t].content <= content[t]
          /\ view[c][t].content < content[t]
                => \/ dirty[t] # 0 \/ t \in overtaken \cup rewound
                   \/ view[c][t].content < facts[t].content
      BY <3>1 DEF ReadsOK
    <3>3. view[c][t].content < facts[t].content
             => t \in rewound' \/ view[c][t].content < facts'[t].content
      <4>1. view[c][t].content \in Nat /\ facts[t].content \in Nat /\ facts'[t].content \in Nat
        BY <1>K, <1>N, <3>1 DEF FactType
      <4> QED
        BY <2>7, <3>1, <4>1
    <3> QED
      BY <2>1, <3>1, <3>2, <3>3
  <2>5. ASSUME Clearing, NEW t \in todo[Tick], t \notin left'[Tick], t \notin tick.failed,
               dirty[t] = tick.seen[t]
        PROVE  facts'[t].content = content[t] \/ t \in rewound'
    <3>1. t \in Tickets
      BY <1>0
    <3>2. CASE t \in left[Tick]
      <4>1. b = Tick /\ t \in part[b]
        BY <1>0, <2>1, <2>5, <3>2
      <4> QED
        BY <2>1, <2>5, <3>1, <4>1 DEF ReadsOK
    <3>3. CASE t \notin left[Tick]
      <4>1. facts[t].content = content[t] \/ t \in rewound'
        BY <2>1, <2>5, <3>3 DEF ReadsOK
      <4>2. facts'[t].content \in Nat
        BY <1>K, <3>1 DEF FactType
      <4> QED
        BY <1>N, <2>4, <2>7, <3>1, <4>1, <4>2
    <3> QED
      BY <3>2, <3>3
  <2>6. (Clearing' <=> Clearing)
    BY <2>3 DEF Clearing
  <2>9. Clearing' /\ pc'[Tick] = "write" => \A t \in part'[Tick] :
           dirty'[t] = tick'.seen[t] => view'[Tick][t].content = content'[t]
    BY <2>1, <2>2, <2>3, <2>6 DEF ReadsOK
  <2>10. Clearing' => \A t \in todo'[Tick] \ (left'[Tick] \cup tick'.failed) :
           dirty'[t] = tick'.seen[t] => facts'[t].content = content'[t] \/ t \in rewound'
    BY <2>1, <2>3, <2>5, <2>6
  <2> QED
    BY <2>1, <2>4, <2>8, <2>9, <2>10 DEF ReadsOK
<1>15. CASE \E b \in Builders : FailRebuild(b)
  <2> PICK b \in Builders : FailRebuild(b)
    BY <1>15
  <2>1. /\ pc[b] = "write" /\ UNCHANGED <<content, dirty, facts, overtaken, rewound>>
        /\ part' = [part EXCEPT ![b] = {}]
    BY DEF FailRebuild, EndTransaction
  <2>2. \A c \in Builders : pc'[c] = "write" =>
           pc[c] = "write" /\ part'[c] = part[c] /\ view'[c] = view[c]
    <3>1. \E p \in {"rebuild", "idle"} : pc' = [pc EXCEPT ![b] = p]
      BY DEF FailRebuild
    <3>2. view' = [view EXCEPT ![b] = [t \in Tickets |-> NoFact]]
      BY DEF FailRebuild, EndTransaction
    <3> QED
      BY <1>0, <2>1, <3>1, <3>2
  <2>3. tick'.stage = tick.stage /\ tick'.seen = tick.seen /\ tick.failed \subseteq tick'.failed
    BY <1>15, TickKept
  <2>4. todo'[Tick] \ (left'[Tick] \cup tick'.failed) \subseteq todo[Tick] \ (left[Tick] \cup tick.failed)
    <3>1. CASE b = Tick /\ ~tick.single
      BY <1>0, <2>3, <3>1 DEF FailRebuild
    <3>2. CASE b = Tick /\ tick.single
      <4>1. tick'.failed = tick.failed \cup part[b]
        <5>1. tick' = [tick EXCEPT !.failed = @ \cup part[b], !.backing = @ \cup part[b]]
          BY <3>2 DEF FailRebuild
        <5> QED
          BY <1>0, <5>1, TickFields
      <4>2. left'[Tick] = left[Tick] \ part[b] /\ todo' = todo
        BY <1>0, <3>2 DEF FailRebuild
      <4> QED
        BY <4>1, <4>2
    <3>3. CASE b \in Runs
      <4>1. left'[Tick] = left[Tick] /\ todo'[Tick] = todo[Tick]
        <5>1. left' = [left EXCEPT ![b] = {}] /\ todo' = [todo EXCEPT ![b] = {}]
          BY <3>3 DEF FailRebuild
        <5> QED
          BY <1>0, <3>3, <5>1
      <4> QED
        BY <2>3, <4>1
    <3> QED
      BY <3>1, <3>2, <3>3
  <2>5. (Clearing' <=> Clearing)
    BY <2>3 DEF Clearing
  <2> QED
    BY <2>1, <2>2, <2>3, <2>4, <2>5 DEF ReadsOK
<1>16. CASE \E b \in Runs : Begin(b)
  <2> PICK b \in Runs : Begin(b)
    BY <1>16
  <2>1. \E p \in {"chunk", "finish", "rebuild", "idle"} : pc' = [pc EXCEPT ![b] = p]
    BY DEF Begin
  <2>2. UNCHANGED <<facts, content, dirty, overtaken, rewound, tick, part, view>>
    BY DEF Begin
  <2>3. UNCHANGED <<todo[Tick], left[Tick]>>
    BY <1>0 DEF Begin
  <2>4. \A c \in Builders : pc'[c] = "write" => pc[c] = "write"
    BY <1>0, <2>1
  <2> QED
    BY <2>2, <2>3, <2>4 DEF ReadsOK, Clearing
<1>17. CASE \E b \in Runs : ReadChunk(b)
  <2> PICK b \in Runs : ReadChunk(b)
    BY <1>17
  <2>1. \E p \in {"chunk", "finish", "rebuild", "idle"} : pc' = [pc EXCEPT ![b] = p]
    BY DEF ReadChunk
  <2>2. UNCHANGED <<facts, content, dirty, overtaken, rewound, tick, part, view>>
    BY DEF ReadChunk
  <2>3. UNCHANGED <<todo[Tick], left[Tick]>>
    BY <1>0 DEF ReadChunk
  <2>4. \A c \in Builders : pc'[c] = "write" => pc[c] = "write"
    BY <1>0, <2>1
  <2> QED
    BY <2>2, <2>3, <2>4 DEF ReadsOK, Clearing
<1>18. CASE \E b \in Runs : SaveCursor(b)
  <2> PICK b \in Runs : SaveCursor(b)
    BY <1>18
  <2>1. \E p \in {"chunk", "finish", "rebuild", "idle"} : pc' = [pc EXCEPT ![b] = p]
    BY DEF SaveCursor, StopRun
  <2>2. UNCHANGED <<facts, content, dirty, overtaken, rewound, tick, part, view>>
    BY DEF SaveCursor
  <2>3. UNCHANGED <<todo[Tick], left[Tick]>>
    BY <1>0 DEF SaveCursor
  <2>4. \A c \in Builders : pc'[c] = "write" => pc[c] = "write"
    BY <1>0, <2>1
  <2> QED
    BY <2>2, <2>3, <2>4 DEF ReadsOK, Clearing
<1>19. CASE \E b \in Runs : Finish(b)
  <2> PICK b \in Runs : Finish(b)
    BY <1>19
  <2>1. \E p \in {"chunk", "finish", "rebuild", "idle"} : pc' = [pc EXCEPT ![b] = p]
    BY DEF Finish, StopRun
  <2>2. UNCHANGED <<facts, content, dirty, overtaken, rewound, tick, part, view>>
    BY DEF Finish
  <2>3. UNCHANGED <<todo[Tick], left[Tick]>>
    BY <1>0 DEF Finish
  <2>4. \A c \in Builders : pc'[c] = "write" => pc[c] = "write"
    BY <1>0, <2>1
  <2> QED
    BY <2>2, <2>3, <2>4 DEF ReadsOK, Clearing
<1>20. CASE Restart
  BY <1>20 DEF Restart, ReadsOK, Clearing
<1>21. CASE Crash
  <2>1. ~Clearing' /\ UNCHANGED <<facts, content, dirty, overtaken, rewound>>
    BY <1>21 DEF Crash, IdleTick, Clearing
  <2>2. \A b \in Builders : pc'[b] = "write" =>
           pc[b] = "write" /\ part'[b] = part[b] /\ view'[b] = view[b]
    BY <1>21 DEF Crash
  <2> QED
    BY <2>1, <2>2 DEF ReadsOK
<1>22. CASE UNCHANGED vars
  BY <1>22 DEF vars, ReadsOK, Clearing
<1> QED
  BY <1>1, <1>2, <1>3, <1>4, <1>5, <1>6, <1>7, <1>8, <1>9, <1>10, <1>11, <1>12, <1>13, <1>14, <1>15, <1>16, <1>17, <1>18, <1>19, <1>20, <1>21, <1>22, Cases


\* Old facts stay marked.
LEMMA StaleStep ==
    ASSUME TypeOK, StampsOK, ReadsOK, StaleIsMarked, [Next]_vars
    PROVE  StaleIsMarked'
<1> USE Who DEF writers, table, memory, bounds, ghosts
<1>0. /\ dirty \in [Tickets -> Nat] /\ content \in [Tickets -> Nat] /\ facts \in [Tickets -> FactType]
  BY DEF TypeOK
<1>1. CASE \E h \in Ids : Insert(h)
  BY <1>1 DEF Insert, StaleIsMarked
<1>2. CASE \E h \in Ids : EndInsert(h, "committed") \/ EndInsert(h, "rolled back")
  BY <1>2 DEF EndInsert, StaleIsMarked
<1>3. CASE \E t \in Tickets : Erase(t)
  BY <1>3 DEF Erase, StaleIsMarked
<1>4. CASE \E t \in Tickets : CommitErasure(t)
  <2> PICK e \in Tickets : CommitErasure(e)
    BY <1>4
  <2>1. /\ content' = [content EXCEPT ![e] = @ + 1] /\ facts' = [facts EXCEPT ![e] = NoFact]
        /\ dirty' = [dirty EXCEPT ![e] = erasing[e]] /\ UNCHANGED <<overtaken, rewound>>
    BY DEF CommitErasure
  <2>2. ASSUME NEW t \in Tickets, facts'[t].rows # {}, facts'[t].content < content'[t]
        PROVE  dirty'[t] # 0 \/ t \in overtaken' \cup rewound'
    <3>1. CASE t = e
      <4>1. facts'[t].rows = {}
        BY <1>0, <2>1, <3>1 DEF NoFact
      <4> QED
        BY <2>2, <4>1
    <3>2. CASE t # e
      <4>1. UNCHANGED <<facts[t], content[t], dirty[t]>>
        BY <1>0, <2>1, <3>2
      <4> QED
        BY <2>1, <2>2, <4>1 DEF StaleIsMarked
    <3> QED
      BY <3>1, <3>2
  <2> QED
    BY <2>2 DEF StaleIsMarked
<1>5. CASE Age
  BY <1>5 DEF Age, StaleIsMarked
<1>6. CASE LoadState
  BY <1>6 DEF LoadState, StaleIsMarked
<1>7. CASE ReadHistory
  BY <1>7 DEF ReadHistory, StaleIsMarked
<1>8. CASE MarkFailed
  <2>1. clock + 1 # 0
    BY DEF TypeOK
  <2>2. \A t \in Tickets : dirty[t] # 0 => dirty'[t] # 0
    BY <1>0, <1>8, <2>1 DEF MarkFailed, Mark
  <2> QED
    BY <1>8, <2>2 DEF MarkFailed, StaleIsMarked
<1>9. CASE SaveProgress
  BY <1>9 DEF SaveProgress, HistoryRebuilt, StaleIsMarked
<1>10. CASE TakeDirty
  BY <1>10 DEF TakeDirty, StaleIsMarked
<1>11. CASE ClearDirty
  <2>1. UNCHANGED <<facts, content>>
    BY <1>11 DEF ClearDirty
  <2>2. \A t \in Tickets : facts[t].content < content[t] /\ (dirty[t] # 0 \/ t \in overtaken \cup rewound)
                              => dirty'[t] # 0 \/ t \in overtaken' \cup rewound'
    BY <1>11, ClearedAreCurrent
  <2> QED
    BY <2>1, <2>2 DEF StaleIsMarked
<1>12. CASE BackoffPasses
  BY <1>12 DEF BackoffPasses, StaleIsMarked
<1>13. CASE \E b \in Builders : StartRebuild(b)
  BY <1>13 DEF StartRebuild, StaleIsMarked
<1>14. CASE \E b \in Builders : CommitRebuild(b)
  <2> PICK b \in Builders : CommitRebuild(b)
    BY <1>14
  <2>1. /\ pc[b] = "write" /\ UNCHANGED <<content, dirty, overtaken>>
        /\ facts' = [t \in Tickets |-> IF t \in part[b] THEN view[b][t] ELSE facts[t]]
        /\ rewound' = rewound \cup {t \in part[b] : Rewinds(b, t)}
    BY DEF CommitRebuild
  <2> QED
    BY <2>1 DEF ReadsOK, StaleIsMarked, Rewinds
<1>15. CASE \E b \in Builders : FailRebuild(b)
  BY <1>15 DEF FailRebuild, EndTransaction, StaleIsMarked
<1>16. CASE \E b \in Runs : Begin(b)
  BY <1>16 DEF Begin, StaleIsMarked
<1>17. CASE \E b \in Runs : ReadChunk(b)
  BY <1>17 DEF ReadChunk, StaleIsMarked
<1>18. CASE \E b \in Runs : SaveCursor(b)
  BY <1>18 DEF SaveCursor, StopRun, StaleIsMarked
<1>19. CASE \E b \in Runs : Finish(b)
  BY <1>19 DEF Finish, StopRun, StaleIsMarked
<1>20. CASE Restart
  BY <1>20 DEF Restart, StaleIsMarked
<1>21. CASE Crash
  BY <1>21 DEF Crash, StaleIsMarked
<1>22. CASE UNCHANGED vars
  BY <1>22 DEF vars, StaleIsMarked
<1> QED
  BY <1>1, <1>2, <1>3, <1>4, <1>5, <1>6, <1>7, <1>8, <1>9, <1>10, <1>11, <1>12, <1>13, <1>14, <1>15, <1>16, <1>17, <1>18, <1>19, <1>20, <1>21, <1>22, Cases


----------------------------------------------------------------------------
(* The theorems. *)

\* The report data, the marks, the progress and every builder keep their types.
THEOREM TypeCorrect == Spec => []TypeOK
<1>1. Init => TypeOK
  BY TypeInit
<1>2. TypeOK /\ [Next]_vars => TypeOK'
  BY TypeStep
<1> QED
  BY <1>1, <1>2, PTL DEF Spec

\* The invariant holds at first ...
LEMMA InvInit == ASSUME Init PROVE IInv
<1>1. TypeOK
  BY TypeInit
<1>2. /\ pc = [b \in Builders |-> "idle"] /\ lock = None
      /\ part = [b \in Builders |-> {}] /\ left = [b \in Builders |-> {}]
      /\ todo = [b \in Builders |-> {}] /\ tick = IdleTick
      /\ content = NoMark /\ erasing = NoMark /\ dirty = NoMark /\ clock = 0
      /\ facts = [t \in Tickets |-> NoFact]
  BY DEF Init
<1>3. tick.stage = "history"
  BY <1>2 DEF IdleTick
<1>5. TickOK
  BY <1>2, <1>3, Who DEF TickOK, Clearing
<1>6. StampsOK
  BY <1>2, <1>3 DEF StampsOK, Clearing, NoMark
<1>7. ReadsOK /\ StaleIsMarked
  BY <1>2, <1>3 DEF ReadsOK, StaleIsMarked, Clearing, NoMark, NoFact
<1> QED
  BY <1>1, <1>5, <1>6, <1>7 DEF IInv

\* ... and is kept by every step.
LEMMA InvStep == ASSUME IInv, [Next]_vars PROVE IInv'
BY TypeStep, TickStepOK, StampsStep, ReadsStep, StaleStep DEF IInv

\* Facts computed before an erasure never stand unmarked, whatever rebuilds were under way when the
\* erasure committed, in the worker or in the CLI.  The exceptions are a mark lost to clear_dirty's
\* comparison, and facts a builder that does not share the worker's lock has put back.
THEOREM NoStaleFacts == Spec => []StaleIsMarked
<1>1. Init => IInv
  BY InvInit
<1>2. IInv /\ [Next]_vars => IInv'
  BY InvStep
<1>3. IInv => StaleIsMarked
  BY DEF IInv
<1> QED
  BY <1>1, <1>2, <1>3, PTL DEF Spec

\* No two builders of the worker process ever have a rebuild transaction open (fact_write_lock).
THEOREM OneRebuildAtATime ==
    Spec => [](\A b, c \in Builders \ Outside : pc[b] = "write" /\ pc[c] = "write" => b = c)
<1>1. Init => TypeOK /\ LockOK
  BY TypeInit, Who DEF Init, LockOK
<1>2. TypeOK /\ LockOK /\ [Next]_vars => (TypeOK /\ LockOK)'
  BY TypeStep, LockStep
<1>3. LockOK => \A b, c \in Builders \ Outside : pc[b] = "write" /\ pc[c] = "write" => b = c
  BY DEF LockOK
<1> QED
  BY <1>1, <1>2, <1>3, PTL DEF Spec

-----------------------------------------------------------------------------
(* No history row is missed by the report data.                            *)
(*                                                                         *)
(* A row is on its way to the facts by one of several hands: it lies ahead *)
(* of the watermark or in the gap list, the tick has read it and still has *)
(* its ticket to rebuild, the ticket is marked, or the backfill cursor has *)
(* not come to the ticket.  Each hand keeps a memory of its own across     *)
(* transactions of the others; the invariant says for every one of them    *)
(* which rows it may let go of.                                            *)
(*                                                                         *)
(* One condition is needed: some history exists before the report data is  *)
(* first built.  On an empty one the watermark stays 0 and a row that is   *)
(* written after the empty backfill is skipped (LaterTicketsFollowed).     *)

\* The tick has read history rows and has not saved yet how far it came.
Following == ~Clearing /\ pc[Tick] \in {"rebuild", "write", "save"}

\* What brings a row into the facts: the facts themselves, a mark, the watermark and the gaps.
Kept(h) ==
    LET t == TicketOf[h]
    IN  h \in facts[t].rows \/ h \in givenUp \/ dirty[t] # 0 \/ t \in overtaken \cup rewound
Ahead(h) == wm < h \/ h \in gaps \cup givenUp
AheadOfTick(h) == tick.wm < h \/ h \in tick.gaps \cup givenUp
Followed(h) == Kept(h) \/ Ahead(h)

\* Facts, and what an open rebuild has read for them, come from committed rows.
RowsOK ==
    /\ \A t \in Tickets : facts[t].rows \subseteq Current(t).rows
    /\ \A b \in Builders : pc[b] = "write" => \A t \in part[b] :
          view[b][t].rows \subseteq Current(t).rows

\* Ids are taken in order, the watermarks stay behind the free ones, and the rows of open
\* transactions are ahead or remembered.
IdsOK ==
    /\ Committed # {}
    /\ \A h \in Ids : hist[h] = "free" =>
          /\ wm < h
          /\ Following \/ pc[Tick] = "read" => tick.wm < h
          /\ \A g \in Ids : h < g => hist[g] = "free"
    /\ \A h \in Open : Ahead(h) /\ (Following => AheadOfTick(h))

\* Nobody builds before there is a watermark; the tick goes on from the saved one.
PlaceOK ==
    /\ wm = 0 => bf.status = "pending" /\ \A b \in Builders : pc[b] = "idle"
    /\ pc[Tick] = "read" => wm = tick.wm /\ gaps = tick.gaps
    /\ Following => wm <= tick.wm

\* What the tick still has to do with the rows it has read.
TickRows(h) ==
    Ahead(h) => \/ Kept(h) \/ AheadOfTick(h)
                \/ TicketOf[h] \in left[Tick]
                \/ pc[Tick] # "save" /\ TicketOf[h] \in tick.failed
TickReads(h) ==
    TicketOf[h] \in part[Tick] =>
        \/ h \in view[Tick][TicketOf[h]].rows
        \/ IF Clearing THEN Ahead(h) ELSE AheadOfTick(h)
TickClears(h) ==
    LET t == TicketOf[h]
    IN  t \in todo[Tick] \ (left[Tick] \cup tick.failed) /\ dirty[t] = tick.seen[t]
           => h \in facts[t].rows \/ Ahead(h) \/ t \in rewound

TickCovers ==
    \A h \in Committed : /\ Following => TickRows(h)
                         /\ pc[Tick] = "write" => TickReads(h)
                         /\ Clearing => TickClears(h)

\* Of the runs that live one at most owns the backfill, and its cursor is the saved one.
TokensOK ==
    \A b \in Runs : pc[b] # "idle" =>
        /\ run[b].token <= bf.token
        /\ Owns(b) => run[b].cursor = bf.cursor /\ run[b].target = bf.target
        /\ \A c \in Runs \ {b} : pc[c] # "idle" => run[b].token # run[c].token

\* A run rebuilds some tickets between its cursor and its target.
TodoOK ==
    \A b \in Runs : pc[b] \in {"rebuild", "write"} =>
        todo[b] # {} /\ \A t \in todo[b] : run[b].cursor < t /\ t <= run[b].target

\* What a run has left to do between its cursor and its target.
RunReads(b, h) ==
    TicketOf[h] \in part[b] => h \in view[b][TicketOf[h]].rows \/ Followed(h)
RunBuilds(b, h) ==
    run[b].cursor < TicketOf[h] /\ (\E x \in todo[b] : TicketOf[h] <= x)
        => TicketOf[h] \in left[b] \/ Followed(h)
RunEnds(b, h) ==
    run[b].cursor < TicketOf[h] /\ TicketOf[h] <= run[b].target => Followed(h)

RunCovers ==
    \A b \in Runs : \A h \in Committed :
        /\ pc[b] = "write" => RunReads(b, h)
        /\ pc[b] \in {"rebuild", "write"} => RunBuilds(b, h)
        /\ pc[b] = "finish" => RunEnds(b, h)

HInv ==
    /\ IInv /\ RowsOK /\ IdsOK /\ PlaceOK
    /\ TickCovers /\ TokensOK /\ TodoOK /\ RunCovers
    /\ NothingMissed

----------------------------------------------------------------------------
(* What a step leaves alone. *)

\* The history is written by its writers only, and they write nothing else.
LEMMA WhoWrites ==
    ASSUME [Next]_vars
    PROVE  hist' = hist \/ \E h \in Ids :
              Insert(h) \/ EndInsert(h, "committed") \/ EndInsert(h, "rolled back")
<1> USE DEF writers, table, memory, bounds, ghosts
<1> QED
  BY Cases DEF Erase, CommitErasure, Age, LoadState, ReadHistory, MarkFailed, SaveProgress, TakeDirty,
               ClearDirty, BackoffPasses, StartRebuild, CommitRebuild, FailRebuild, Begin, ReadChunk,
               SaveCursor, Finish, Restart, Crash, vars

\* While it rests, the sets of its rows stay.
LEMMA SameHistory ==
    ASSUME hist' = hist
    PROVE  /\ Committed' = Committed /\ Open' = Open /\ Existing' = Existing
           /\ \A t \in Tickets : Current(t).rows' = Current(t).rows
BY DEF Committed, Open, Existing, Current

\* The memory of a run is its own.
LEMMA RunAlone ==
    ASSUME TypeOK, NEW b \in Runs, [Next]_vars
    PROVE  \/ UNCHANGED <<pc[b], todo[b], left[b], run[b], part[b], view[b]>>
           \/ StartRebuild(b) \/ CommitRebuild(b) \/ FailRebuild(b)
           \/ Begin(b) \/ ReadChunk(b) \/ SaveCursor(b) \/ Finish(b)
           \/ Crash /\ b \notin Outside
<1> USE Who DEF writers, table, memory, bounds, ghosts
<1>0. /\ pc \in [Builders -> Place] /\ todo \in [Builders -> SUBSET Tickets]
      /\ left \in [Builders -> SUBSET Tickets] /\ part \in [Builders -> SUBSET Tickets]
      /\ view \in [Builders -> [Tickets -> FactType]] /\ run \in [Runs -> RunType]
  BY DEF TypeOK
<1>1. CASE \E h \in Ids : Insert(h) \/ EndInsert(h, "committed") \/ EndInsert(h, "rolled back")
  BY <1>1 DEF Insert, EndInsert
<1>2. CASE Age \/ (\E t \in Tickets : Erase(t) \/ CommitErasure(t)) \/ UNCHANGED vars
  BY <1>2 DEF Age, Erase, CommitErasure, vars
<1>3. CASE LoadState \/ ReadHistory
  BY <1>0, <1>3 DEF LoadState, ReadHistory
<1>4. CASE MarkFailed \/ SaveProgress
  BY <1>0, <1>4 DEF MarkFailed, SaveProgress
<1>5. CASE TakeDirty \/ ClearDirty
  BY <1>0, <1>5 DEF TakeDirty, ClearDirty
<1>6. CASE BackoffPasses \/ Restart
  BY <1>6 DEF BackoffPasses, Restart
<1>7. ASSUME NEW c \in Builders, c # b, StartRebuild(c)
      PROVE  UNCHANGED <<pc[b], todo[b], left[b], run[b], part[b], view[b]>>
  BY <1>0, <1>7 DEF StartRebuild
<1>8. ASSUME NEW c \in Builders, c # b, CommitRebuild(c)
      PROVE  UNCHANGED <<pc[b], todo[b], left[b], run[b], part[b], view[b]>>
  BY <1>0, <1>8 DEF CommitRebuild, EndTransaction
<1>9. ASSUME NEW c \in Builders, c # b, FailRebuild(c)
      PROVE  UNCHANGED <<pc[b], todo[b], left[b], run[b], part[b], view[b]>>
  BY <1>0, <1>9 DEF FailRebuild, EndTransaction
<1>10. ASSUME NEW c \in Runs, c # b, Begin(c) \/ ReadChunk(c) \/ SaveCursor(c) \/ Finish(c)
       PROVE  UNCHANGED <<pc[b], todo[b], left[b], run[b], part[b], view[b]>>
  BY <1>0, <1>10 DEF Begin, ReadChunk, SaveCursor, Finish, StopRun
<1>11. CASE Crash /\ b \in Outside
  BY <1>0, <1>11 DEF Crash
<1> QED
  BY <1>1, <1>2, <1>3, <1>4, <1>5, <1>6, <1>7, <1>8, <1>9, <1>10, <1>11, Cases

\* And that of the tick.
LEMMA TickAlone ==
    ASSUME TypeOK, [Next]_vars
    PROVE  \/ UNCHANGED <<pc[Tick], todo[Tick], left[Tick], tick, part[Tick], view[Tick]>>
           \/ LoadState \/ ReadHistory \/ MarkFailed \/ SaveProgress \/ TakeDirty \/ ClearDirty
           \/ BackoffPasses
           \/ StartRebuild(Tick) \/ CommitRebuild(Tick) \/ FailRebuild(Tick)
           \/ Crash
<1> USE Who DEF writers, table, memory, bounds, ghosts
<1>0. /\ pc \in [Builders -> Place] /\ todo \in [Builders -> SUBSET Tickets]
      /\ left \in [Builders -> SUBSET Tickets] /\ part \in [Builders -> SUBSET Tickets]
      /\ view \in [Builders -> [Tickets -> FactType]]
  BY DEF TypeOK
<1>1. CASE \E h \in Ids : Insert(h) \/ EndInsert(h, "committed") \/ EndInsert(h, "rolled back")
  BY <1>1 DEF Insert, EndInsert
<1>2. CASE Age \/ Restart \/ (\E t \in Tickets : Erase(t) \/ CommitErasure(t)) \/ UNCHANGED vars
  BY <1>2 DEF Age, Restart, Erase, CommitErasure, vars
<1>7. ASSUME NEW c \in Runs, StartRebuild(c)
      PROVE  UNCHANGED <<pc[Tick], todo[Tick], left[Tick], tick, part[Tick], view[Tick]>>
  BY <1>0, <1>7 DEF StartRebuild
<1>8. ASSUME NEW c \in Runs, CommitRebuild(c)
      PROVE  UNCHANGED <<pc[Tick], todo[Tick], left[Tick], tick, part[Tick], view[Tick]>>
  BY <1>0, <1>8 DEF CommitRebuild, EndTransaction
<1>9. ASSUME NEW c \in Runs, FailRebuild(c)
      PROVE  UNCHANGED <<pc[Tick], todo[Tick], left[Tick], tick, part[Tick], view[Tick]>>
  BY <1>0, <1>9 DEF FailRebuild, EndTransaction
<1>10. ASSUME NEW c \in Runs, Begin(c) \/ ReadChunk(c) \/ SaveCursor(c) \/ Finish(c)
       PROVE  UNCHANGED <<pc[Tick], todo[Tick], left[Tick], tick, part[Tick], view[Tick]>>
  BY <1>0, <1>10 DEF Begin, ReadChunk, SaveCursor, Finish, StopRun
<1> QED
  BY <1>1, <1>2, <1>7, <1>8, <1>9, <1>10, Cases

----------------------------------------------------------------------------
(* What a step may do to the table. *)

\* Only the tick's save moves a watermark that is set, and takes over the tick's gaps.
LEMMA Watermark ==
    ASSUME [Next]_vars
    PROVE  SaveProgress \/ (gaps' = gaps /\ (wm' = wm \/ (wm = 0 /\ wm' = Largest(Committed)
                                                     /\ (LoadState \/ \E b \in Runs : Begin(b)))))
<1> USE DEF writers, table, memory, bounds, ghosts
<1>1. CASE LoadState
  BY <1>1 DEF LoadState, FirstWatermark
<1>2. CASE \E b \in Runs : Begin(b)
  BY <1>2 DEF Begin, FirstWatermark
<1> QED
  BY <1>1, <1>2, Cases DEF Insert, EndInsert, Erase, CommitErasure, Age, ReadHistory, MarkFailed, TakeDirty,
               ClearDirty, BackoffPasses, StartRebuild, CommitRebuild, FailRebuild, ReadChunk,
               SaveCursor, Finish, Restart, Crash, vars

\* What was given up, overtaken or rewound stays noted.
LEMMA Noted ==
    ASSUME [Next]_vars
    PROVE  /\ givenUp \subseteq givenUp' /\ rewound \subseteq rewound'
           /\ overtaken \cup rewound \subseteq overtaken' \cup rewound'
<1> USE DEF writers, table, memory, bounds, ghosts
<1>1. CASE LoadState
  BY <1>1 DEF LoadState, FirstWatermark
<1>2. CASE \E b \in Runs : Begin(b)
  BY <1>2 DEF Begin, FirstWatermark
<1>3. CASE ReadHistory
  BY <1>3 DEF ReadHistory
<1>4. CASE ClearDirty
  BY <1>4 DEF ClearDirty
<1>5. CASE \E b \in Builders : CommitRebuild(b)
  BY <1>5 DEF CommitRebuild
<1> QED
  BY <1>1, <1>2, <1>3, <1>4, <1>5, Cases
  DEF Insert, EndInsert, Erase, CommitErasure, Age, MarkFailed, SaveProgress, TakeDirty,
      BackoffPasses, StartRebuild, FailRebuild, ReadChunk,
      SaveCursor, Finish, Restart, Crash, vars

\* Only clear_dirty removes a mark.
LEMMA MarksStay ==
    ASSUME TypeOK, [Next]_vars
    PROVE  ClearDirty \/ \A t \in Tickets : dirty[t] # 0 => dirty'[t] # 0
<1> USE DEF writers, table, memory, bounds, ghosts
<1>0. clock + 1 # 0 /\ dirty \in [Tickets -> Nat]
  BY DEF TypeOK
<1>1. CASE \E t \in Tickets : CommitErasure(t)
  BY <1>0, <1>1 DEF CommitErasure
<1>2. CASE MarkFailed
  BY <1>0, <1>2 DEF MarkFailed, Mark
<1> QED
  BY <1>1, <1>2, Cases
  DEF Insert, EndInsert, Erase, Age, LoadState, ReadHistory, SaveProgress, TakeDirty,
      BackoffPasses, StartRebuild, CommitRebuild, FailRebuild, Begin, ReadChunk,
      SaveCursor, Finish, Restart, Crash, vars

\* Facts are only lost to an erasure, which marks the ticket anew.
LEMMA FactsStay ==
    ASSUME TypeOK, StampsOK, [Next]_vars, NEW t \in Tickets
    PROVE  \/ facts[t].rows \subseteq facts'[t].rows \/ t \in rewound'
           \/ dirty[t] < dirty'[t] /\ dirty'[t] # 0
<1> USE DEF writers, table, memory, bounds, ghosts
<1>0. dirty \in [Tickets -> Nat] /\ facts \in [Tickets -> FactType] /\ erasing \in [Tickets -> Nat]
  BY DEF TypeOK
<1>1. CASE \E e \in Tickets : CommitErasure(e)
  <2> PICK e \in Tickets : CommitErasure(e)
    BY <1>1
  <2>1. /\ facts' = [facts EXCEPT ![e] = NoFact] /\ dirty' = [dirty EXCEPT ![e] = erasing[e]]
        /\ erasing[e] # 0
    BY DEF CommitErasure
  <2>2. dirty[e] < erasing[e]
    BY <2>1 DEF StampsOK
  <2> QED
    BY <1>0, <2>1, <2>2
<1>2. CASE \E b \in Builders : CommitRebuild(b)
  <2> PICK b \in Builders : CommitRebuild(b)
    BY <1>2
  <2>1. /\ facts' = [x \in Tickets |-> IF x \in part[b] THEN view[b][x] ELSE facts[x]]
        /\ rewound' = rewound \cup {x \in part[b] : Rewinds(b, x)}
    BY DEF CommitRebuild
  <2> QED
    BY <2>1 DEF Rewinds
<1>3. facts' = facts \/ (\E e \in Tickets : CommitErasure(e)) \/ (\E b \in Builders : CommitRebuild(b))
  BY Cases
  DEF Insert, EndInsert, Erase, Age, LoadState, ReadHistory, MarkFailed, SaveProgress, TakeDirty,
      ClearDirty, BackoffPasses, StartRebuild, FailRebuild, EndTransaction, Begin, ReadChunk,
      SaveCursor, Finish, Restart, Crash, vars
<1> QED
  BY <1>1, <1>2, <1>3

\* The tick saves when it has rebuilt what it read, or has marked what failed.
LEMMA SavedWhenDone ==
    ASSUME TypeOK, TickOK, SaveProgress
    PROVE  /\ Following /\ left[Tick] = {} /\ (pc[Tick] = "save" \/ tick.failed = {})
           /\ wm' = IF wm < tick.wm THEN tick.wm ELSE wm
           /\ gaps' = tick.gaps
           /\ UNCHANGED <<hist, facts, dirty, givenUp, overtaken, rewound, tick, bf>>
<1> USE DEF writers, table, memory, bounds, ghosts
<1>1. pc[Tick] = "save" => left[Tick] = {} /\ ~Clearing
  BY DEF TickOK
<1>2. pc[Tick] = "save" \/ (pc[Tick] = "rebuild" /\ left[Tick] = {} /\ ~Clearing /\ tick.failed = {})
  BY DEF SaveProgress, HistoryRebuilt, Clearing
<1> QED
  BY <1>1, <1>2 DEF SaveProgress, Following

\* A row that is followed stays so, as long as there is a watermark.
LEMMA FollowedStays ==
    ASSUME IInv, RowsOK, PlaceOK, TickCovers, [Next]_vars, wm # 0,
           NEW h \in Committed, Followed(h)
    PROVE  Followed(h)'
<1> DEFINE t == TicketOf[h]
<1>0. /\ TypeOK /\ StampsOK /\ TickOK /\ t \in Tickets /\ h \in Ids
      /\ wm \in Nat /\ tick.wm \in Nat
  BY ReportAssumption, TickWrites DEF IInv, TypeOK, Committed
<1>1. CASE SaveProgress
  <2>1. TickRows(h) /\ wm <= tick.wm
    BY <1>0, <1>1, SavedWhenDone DEF TickCovers, PlaceOK
  <2>2. Kept(h) \/ AheadOfTick(h)
    BY <1>0, <1>1, <2>1, SavedWhenDone DEF TickRows, Followed
  <2>3. wm' = tick.wm /\ gaps' = tick.gaps
    BY <1>0, <1>1, <2>1, SavedWhenDone
  <2> QED
    BY <1>0, <1>1, <2>2, <2>3, SavedWhenDone DEF Kept, AheadOfTick, Ahead, Followed
<1>2. CASE ~SaveProgress
  <2>1. wm' = wm /\ gaps' = gaps /\ givenUp \subseteq givenUp' /\ overtaken \cup rewound \subseteq overtaken' \cup rewound'
    BY <1>2, Watermark, Noted
  <2>2. CASE Ahead(h) \/ h \in givenUp \/ t \in overtaken \cup rewound
    BY <2>1, <2>2 DEF Ahead, Kept, Followed
  <2>3. CASE ClearDirty /\ ~ (Ahead(h) \/ h \in givenUp \/ t \in overtaken \cup rewound)
    <3>1. facts' = facts /\ Clearing /\ pc[Tick] = "rebuild" /\ left[Tick] = {}
      BY <2>3 DEF ClearDirty, Clearing
    <3>2. CASE h \in facts[t].rows
      BY <3>1, <3>2 DEF Kept, Followed
    <3>3. CASE h \notin facts[t].rows
      <4>1. dirty[t] # 0
        BY <2>3, <3>3 DEF Followed, Kept
      <4>2. CASE dirty'[t] # 0
        BY <4>2 DEF Kept, Followed
      <4>3. CASE dirty'[t] = 0
        <5>1. clock + 1 # 0
          BY <1>0 DEF TypeOK
        <5>2. Clearable(t) /\ t \notin tick.failed
          BY <1>0, <2>3, <4>1, <4>3, <5>1 DEF ClearDirty, Mark, Clearable
        <5>3. t \in todo[Tick] \ (left[Tick] \cup tick.failed)
          BY <3>1, <5>2 DEF Clearable
        <5>4. dirty[t] # tick.seen[t]
          BY <2>3, <3>1, <3>3, <5>3 DEF TickCovers, TickClears
        <5>5. tick.seen[t] < dirty[t]
          <6>1. tick.seen[t] <= dirty[t]
            BY <1>0, <3>1, <5>3 DEF StampsOK, Clearing
          <6>2. tick \in TickType /\ dirty \in [Tickets -> Nat]
            BY <1>0 DEF TypeOK
          <6>3. tick.seen \in [Tickets -> Nat]
            BY <6>2, TickWrites
          <6>4. tick.seen[t] \in Nat /\ dirty[t] \in Nat
            BY <1>0, <6>2, <6>3
          <6> QED
            BY <5>4, <6>1, <6>4
        <5>6. t \in overtaken' \cup rewound'
          BY <1>0, <2>3, <5>2, <5>5 DEF ClearDirty, Clearable
        <5> QED
          BY <5>6 DEF Kept, Followed
      <4> QED
        BY <4>2, <4>3
    <3> QED
      BY <3>2, <3>3
  <2>4. CASE ~ClearDirty /\ ~ (Ahead(h) \/ h \in givenUp \/ t \in overtaken \cup rewound)
    <3>1. facts[t].rows \subseteq facts'[t].rows \/ t \in rewound' \/ dirty'[t] # 0
      BY <1>0, FactsStay
    <3>2. dirty[t] # 0 => dirty'[t] # 0
      BY <1>0, <2>4, MarksStay
    <3>3. h \in facts[t].rows \/ dirty[t] # 0
      BY <2>4 DEF Followed, Kept
    <3> QED
      BY <3>1, <3>2, <3>3 DEF Followed, Kept
  <2> QED
    BY <2>2, <2>3, <2>4
<1> QED
  BY <1>1, <1>2

----------------------------------------------------------------------------
(* Rows, ids and places. *)

\* What is committed stays committed.
LEMMA CommittedStays ==
    ASSUME TypeOK, [Next]_vars
    PROVE  Committed \subseteq Committed' /\ \A t \in Tickets : Current(t).rows \subseteq Current(t).rows'
<1>1. hist \in [Ids -> Status]
  BY DEF TypeOK
<1>2. Committed \subseteq Committed'
  BY <1>1, WhoWrites DEF Insert, EndInsert, Committed
<1> QED
  BY <1>2 DEF Current

\* A transaction that is open was open before or is started by this step.
LEMMA Writing ==
    ASSUME TypeOK, [Next]_vars, NEW b \in Builders, pc'[b] = "write"
    PROVE  StartRebuild(b) \/ (pc[b] = "write" /\ part'[b] = part[b] /\ view'[b] = view[b])
<1>0. pc \in [Builders -> Place] /\ Tick \in Builders /\ Runs \subseteq Builders /\ (b = Tick \/ b \in Runs)
  BY Who DEF TypeOK
<1>1. CASE b = Tick
  BY <1>0, <1>1, TickAlone
  DEF LoadState, ReadHistory, MarkFailed, SaveProgress, TakeDirty, ClearDirty, BackoffPasses, CommitRebuild,
      FailRebuild, Crash, memory
<1>2. CASE b \in Runs
  BY <1>0, <1>2, RunAlone DEF CommitRebuild, FailRebuild, Begin, ReadChunk, SaveCursor, Finish, StopRun, Crash
<1> QED
  BY <1>0, <1>1, <1>2

LEMMA RowsStep ==
    ASSUME TypeOK, RowsOK, [Next]_vars
    PROVE  RowsOK'
<1> USE DEF writers, table, memory, bounds, ghosts
<1>0. /\ pc \in [Builders -> Place] /\ facts \in [Tickets -> FactType] /\ left \in [Builders -> SUBSET Tickets]
      /\ part \in [Builders -> SUBSET Tickets] /\ view \in [Builders -> [Tickets -> FactType]]
  BY DEF TypeOK
<1>1. /\ \A t \in Tickets : facts[t].rows \subseteq Current(t).rows
      /\ \A t \in Tickets : Current(t).rows \subseteq Current(t).rows'
      /\ \A b \in Builders : pc[b] = "write" => \A t \in part[b] :
            view[b][t].rows \subseteq Current(t).rows
  BY CommittedStays DEF RowsOK
<1>2. \/ facts' = facts
      \/ \E e \in Tickets : CommitErasure(e)
      \/ \E b \in Builders : CommitRebuild(b)
  BY Cases
  DEF Insert, EndInsert, Erase, Age, LoadState, ReadHistory, MarkFailed, SaveProgress, TakeDirty,
      ClearDirty, BackoffPasses, StartRebuild, FailRebuild, EndTransaction, Begin, ReadChunk,
      SaveCursor, Finish, Restart, Crash, vars
<1>3. ASSUME NEW e \in Tickets, CommitErasure(e)
      PROVE  \A t \in Tickets : facts'[t].rows \subseteq facts[t].rows
  BY <1>0, <1>3 DEF CommitErasure, NoFact
<1>4. ASSUME NEW b \in Builders, CommitRebuild(b)
      PROVE  \A t \in Tickets : facts'[t].rows \subseteq Current(t).rows
  <2>1. /\ facts' = [t \in Tickets |-> IF t \in part[b] THEN view[b][t] ELSE facts[t]]
        /\ pc[b] = "write"
    BY <1>4 DEF CommitRebuild
  <2> QED
    BY <1>1, <2>1
<1>5. \A t \in Tickets : facts'[t].rows \subseteq Current(t).rows'
  BY <1>1, <1>2, <1>3, <1>4
<1>6. ASSUME NEW b \in Builders, pc'[b] = "write", NEW t \in part'[b]
      PROVE  view'[b][t].rows \subseteq Current(t).rows'
  <2>1. CASE StartRebuild(b)
    <3>1. /\ part' = [part EXCEPT ![b] = NextPart(b)]
          /\ view' = [view EXCEPT ![b] = [x \in Tickets |-> IF x \in NextPart(b) THEN Current(x) ELSE NoFact]]
      BY <2>1 DEF StartRebuild
    <3>2. t \in NextPart(b) /\ t \in Tickets
      BY <1>0, <1>6, <3>1 DEF NextPart, FirstOf
    <3>3. view'[b][t] = Current(t)
      BY <1>0, <3>1, <3>2
    <3> QED
      BY <1>1, <3>1, <3>2, <3>3
  <2>2. CASE ~StartRebuild(b)
    <3>1. pc[b] = "write" /\ part'[b] = part[b] /\ view'[b] = view[b]
      BY <1>6, <2>2, Writing
    <3>2. t \in Tickets
      BY <1>0, <1>6, <3>1
    <3> QED
      BY <1>1, <1>6, <3>1, <3>2
  <2> QED
    BY <2>1, <2>2
<1> QED
  BY <1>5, <1>6 DEF RowsOK

\* What the tick reads is either to be rebuilt or still ahead of it.
LEMMA ReadLeaves ==
    ASSUME TypeOK, TickOK, IdsOK, PlaceOK, ReadHistory
    PROVE  /\ tick.wm <= tick'.wm
           /\ \A h \in Ids : hist[h] = "free" => tick'.wm < h
           /\ \A h \in Open \cup Committed : Ahead(h) =>
                 AheadOfTick(h)' \/ (h \in Committed /\ TicketOf[h] \in left'[Tick])
<1> DEFINE late == IF tick.batch = 0 THEN tick.gaps \cap Committed ELSE {}
           rows == FirstOf({h \in Committed : h > tick.wm}, Batch)
           last == IF rows = {} THEN tick.wm ELSE Largest(rows)
           missing == {h \in Ids : tick.wm < h /\ h <= last} \ rows
           young == ((tick.gaps \ late) \cup missing) \ expired
<1>1. PICK kept \in SUBSET young :
         /\ givenUp' = givenUp \cup ((((tick.gaps \ late) \cup missing) \ kept) \cap (Open \cup Committed))
         /\ tick' = [tick EXCEPT !.wm = last, !.gaps = kept, !.batch = @ + 1,
                                 !.more = Cardinality(rows) = Batch, !.single = FALSE, !.failed = {}]
         /\ left' = [left EXCEPT ![Tick] = {TicketOf[h] : h \in late \cup rows}]
  BY DEF ReadHistory
<1>2. /\ tick \in TickType /\ left \in [Builders -> SUBSET Tickets] /\ Tick \in Builders
      /\ wm = tick.wm /\ gaps = tick.gaps /\ tick.wm \in Nat
  BY TickWrites DEF TypeOK, PlaceOK, ReadHistory, Builders
<1>3. tick'.wm = last /\ tick'.gaps = kept
  BY <1>1, <1>2 DEF TickType
<1>4. left'[Tick] = {TicketOf[h] : h \in late \cup rows}
  BY <1>1, <1>2
<1>5. /\ rows \subseteq Committed /\ \A h \in rows : tick.wm < h
      /\ rows # {} => last \in rows
      /\ \A h \in rows : h <= last
      /\ Committed \subseteq Ids /\ Open \subseteq Ids /\ Ids \subseteq Nat
  <2>1. /\ rows \subseteq Committed /\ \A h \in rows : tick.wm < h
    BY DEF FirstOf
  <2>2. Committed \in SUBSET (1..MaxId) /\ Open \subseteq Ids /\ Committed \subseteq Ids
    BY DEF Committed, Open, Ids
  <2>3. /\ rows # {} => Largest(rows) \in rows
        /\ \A h \in rows : h <= Largest(rows)
    <3> HIDE DEF rows
    <3>1. rows \in SUBSET (1..MaxId)
      BY <2>1, <2>2
    <3> QED
      BY <3>1, LargestIs, ReportAssumption
  <2>4. Ids \subseteq Nat
    BY ReportAssumption DEF Ids
  <2>5. last = IF rows = {} THEN tick.wm ELSE Largest(rows)
    OBVIOUS
  <2> HIDE DEF rows, last
  <2>6. /\ rows # {} => last \in rows
        /\ \A h \in rows : h <= last
    BY <2>3, <2>5
  <2> QED
    BY <2>1, <2>2, <2>4, <2>6
<1> HIDE DEF rows, late, missing, young, last
<1>6. last \in Nat /\ tick.wm <= last
  <2>1. CASE rows = {}
    BY <1>2, <2>1 DEF last
  <2>2. CASE rows # {}
    <3>1. last \in Nat /\ tick.wm < last
      BY <1>5, <2>2
    <3> QED
      BY <1>2, <3>1
  <2> QED
    BY <2>1, <2>2
<1>7. ASSUME NEW h \in Ids, hist[h] = "free"
      PROVE  last < h
  <2>1. CASE rows = {}
    BY <1>7, <2>1 DEF last, IdsOK, ReadHistory
  <2>2. CASE rows # {}
    <3>1. last \in Committed /\ last \in Ids
      BY <1>5, <2>2
    <3>2. hist[last] = "committed"
      BY <3>1 DEF Committed
    <3>3. ~ (h < last) /\ h # last
      BY <1>7, <3>1, <3>2 DEF IdsOK
    <3>4. h \in Nat
      BY <1>5
    <3> QED
      BY <1>6, <3>3, <3>4
  <2> QED
    BY <2>1, <2>2
<1>8. ASSUME NEW h \in Open \cup Committed, Ahead(h)
      PROVE  \/ last < h \/ h \in kept \cup givenUp'
             \/ h \in Committed /\ TicketOf[h] \in left'[Tick]
  <2>1. CASE h \in givenUp
    BY <1>1, <2>1
  <2>2. CASE h \in late \cup rows
    <3>1. TicketOf[h] \in left'[Tick]
      BY <1>4, <2>2
    <3>2. late \subseteq Committed
      BY DEF late
    <3> QED
      BY <1>5, <2>2, <3>1, <3>2
  <2>3. CASE h \in gaps /\ h \notin late
    BY <1>1, <1>2, <2>3
  <2>4. CASE wm < h /\ h \notin rows
    <3>1. h \in Nat /\ h \in Ids
      BY <1>5
    <3>2. last < h \/ h \in missing
      BY <1>2, <1>6, <2>4, <3>1 DEF missing
    <3> QED
      BY <1>1, <3>2
  <2> QED
    BY <1>8, <2>1, <2>2, <2>3, <2>4 DEF Ahead
<1> QED
  BY <1>3, <1>6, <1>7, <1>8 DEF AheadOfTick

\* Where the tick may be in the history after a step.
LEMMA TickPlaces ==
    ASSUME TypeOK, TickOK, [Next]_vars, Following' \/ pc'[Tick] = "read"
    PROVE  \/ LoadState /\ pc'[Tick] = "read"
           \/ ReadHistory /\ Following'
           \/ SaveProgress /\ pc'[Tick] = "read"
           \/ /\ ~LoadState /\ ~ReadHistory /\ ~SaveProgress
              /\ tick'.wm = tick.wm /\ tick'.gaps = tick.gaps
              /\ Following' => Following
              /\ pc'[Tick] = "read" => pc[Tick] = "read"
<1> USE Who DEF writers, table, memory, bounds, ghosts
<1>0. pc \in [Builders -> Place] /\ tick \in TickType
  BY DEF TypeOK
<1>1. CASE LoadState
  BY <1>0, <1>1 DEF LoadState
<1>2. CASE ReadHistory
  <2>1. pc'[Tick] = "rebuild"
    BY <1>0, <1>2 DEF ReadHistory
  <2> QED
    BY <1>2, <2>1
<1>3. CASE SaveProgress
  <2>1. pc'[Tick] \in {"read", "take"}
    BY <1>0, <1>3 DEF SaveProgress
  <2> QED
    BY <1>3, <2>1 DEF Following
<1>4. CASE ~LoadState /\ ~ReadHistory /\ ~SaveProgress
  <2>1. CASE UNCHANGED <<pc[Tick], todo[Tick], left[Tick], tick, part[Tick], view[Tick]>>
    BY <1>4, <2>1 DEF Following, Clearing
  <2>2. CASE MarkFailed
    BY <1>0, <1>4, <2>2 DEF MarkFailed, HistoryRebuilt, Following, Clearing
  <2>3. CASE TakeDirty
    <3>1. pc'[Tick] \in {"idle", "rebuild"} /\ (pc'[Tick] = "rebuild" => Clearing')
      <4>1. \/ pc' = [pc EXCEPT ![Tick] = "idle"]
            \/ /\ pc' = [pc EXCEPT ![Tick] = "rebuild"]
               /\ tick' = [IdleTick EXCEPT !.stage = "dirty", !.backing = tick.backing, !.seen = dirty]
        BY <2>3 DEF TakeDirty
      <4> QED
        BY <1>0, <4>1 DEF Clearing, IdleTick
    <3> QED
      BY <3>1 DEF Following
  <2>4. CASE ClearDirty
    BY <1>0, <2>4 DEF ClearDirty, Following
  <2>5. CASE Crash
    BY <2>5 DEF Crash, Following
  <2>6. CASE BackoffPasses \/ StartRebuild(Tick) \/ CommitRebuild(Tick) \/ FailRebuild(Tick)
    <3>1. tick'.stage = tick.stage /\ tick'.wm = tick.wm /\ tick'.gaps = tick.gaps
      BY <2>6, TickKept
    <3>2. CASE BackoffPasses
      BY <1>4, <3>1, <3>2 DEF BackoffPasses, Following, Clearing
    <3>3. CASE StartRebuild(Tick) \/ CommitRebuild(Tick) \/ FailRebuild(Tick)
      <4>1. pc[Tick] \in {"rebuild", "write"} /\ pc'[Tick] \in {"rebuild", "write"}
        BY <1>0, <3>3 DEF StartRebuild, CommitRebuild, FailRebuild
      <4> QED
        BY <1>4, <3>1, <4>1 DEF Following, Clearing
    <3> QED
      BY <2>6, <3>2, <3>3
  <2> QED
    BY <1>4, <2>1, <2>2, <2>3, <2>4, <2>5, <2>6, TickAlone
<1> QED
  BY <1>1, <1>2, <1>3, <1>4

\* The highest visible id.
LEMMA HighestVisible ==
    ASSUME TypeOK, IdsOK
    PROVE  /\ Largest(Committed) \in Committed /\ Largest(Committed) # 0
           /\ \A h \in Ids : hist[h] = "free" => Largest(Committed) < h
<1>1. Largest(Committed) \in Committed
  <2>1. Committed \in SUBSET (1..MaxId) /\ Committed # {}
    BY Sets DEF IdsOK
  <2> QED
    BY <2>1, LargestIs, ReportAssumption
<1>2. Largest(Committed) \in Ids /\ hist[Largest(Committed)] = "committed"
  BY <1>1 DEF Committed
<1>3. \A h \in Ids : h \in Nat /\ h # 0
  BY ReportAssumption DEF Ids
<1>4. \A h \in Ids : hist[h] = "free" => ~ (h < Largest(Committed)) /\ h # Largest(Committed)
  BY <1>2 DEF IdsOK
<1> QED
  BY <1>1, <1>2, <1>3, <1>4

LEMMA IdsStep ==
    ASSUME IInv, IdsOK, PlaceOK, [Next]_vars
    PROVE  IdsOK'
<1> USE DEF writers, table, memory, bounds, ghosts
<1>0. TypeOK /\ TickOK /\ hist \in [Ids -> Status] /\ Ids \subseteq Nat /\ wm \in Nat /\ tick.wm \in Nat
  <2>1. TypeOK /\ TickOK
    BY DEF IInv
  <2>2. hist \in [Ids -> Status] /\ wm \in Nat /\ tick \in TickType
    BY <2>1 DEF TypeOK
  <2>3. Ids \subseteq Nat
    BY ReportAssumption DEF Ids
  <2> QED
    BY <2>1, <2>2, <2>3, TickWrites
<1>1. Committed' # {}
  BY <1>0, CommittedStays DEF IdsOK
<1>2. CASE hist' = hist
  <2>1. ASSUME NEW h \in Ids, hist[h] = "free"
        PROVE  wm' < h
    <3>1. CASE SaveProgress
      BY <1>0, <2>1, <3>1, SavedWhenDone DEF IdsOK
    <3>2. CASE ~SaveProgress
      BY <1>0, <2>1, <3>2, Watermark, HighestVisible DEF IdsOK
    <3> QED
      BY <3>1, <3>2
  <2>2. ASSUME Following' \/ pc'[Tick] = "read", NEW h \in Ids, hist[h] = "free"
        PROVE  tick'.wm < h
    <3>1. CASE LoadState
      <4>1. tick'.wm = wm'
        BY <3>1 DEF LoadState, IdleTick
      <4> QED
        BY <2>1, <2>2, <4>1
    <3>2. CASE ReadHistory
      BY <1>0, <2>2, <3>2, ReadLeaves
    <3>3. CASE SaveProgress
      BY <1>0, <2>2, <3>3, SavedWhenDone DEF IdsOK
    <3>4. CASE ~LoadState /\ ~ReadHistory /\ ~SaveProgress
      BY <1>0, <2>2, <3>4, TickPlaces DEF IdsOK
    <3> QED
      BY <3>1, <3>2, <3>3, <3>4
  <2>3. ASSUME NEW h \in Open
        PROVE  Ahead(h)'
    <3>0. Ahead(h) /\ (Following => AheadOfTick(h)) /\ h \in Ids /\ h \in Nat
      BY <1>0 DEF IdsOK, Open
    <3>1. CASE SaveProgress
      <4>1. wm' = tick.wm /\ gaps' = tick.gaps /\ givenUp' = givenUp /\ Following
        BY <1>0, <3>1, SavedWhenDone DEF PlaceOK
      <4> QED
        BY <3>0, <4>1 DEF Ahead, AheadOfTick
    <3>2. CASE ~SaveProgress /\ wm' = wm /\ gaps' = gaps
      BY <3>0, <3>2, Noted DEF Ahead
    <3>3. CASE LoadState \/ \E b \in Runs : Begin(b)
      <4>1. FirstWatermark /\ gaps' = gaps
        BY <3>3 DEF LoadState, Begin
      <4>2. wm' \in Nat
        BY <1>0, <4>1, Sets DEF FirstWatermark
      <4> QED
        BY <1>0, <3>0, <4>1, <4>2 DEF FirstWatermark, Ahead
    <3> QED
      BY <3>1, <3>2, <3>3, Watermark
  <2>4. ASSUME Following', NEW h \in Open
        PROVE  AheadOfTick(h)'
    <3>0. Ahead(h) /\ (Following => AheadOfTick(h))
      BY DEF IdsOK
    <3>1. CASE ReadHistory
      <4>1. h \notin Committed
        BY DEF Open, Committed
      <4> QED
        BY <1>0, <3>0, <3>1, <4>1, ReadLeaves
    <3>2. CASE ~ReadHistory
      <4>1. pc'[Tick] # "read"
        BY <2>4 DEF Following
      <4>2. tick'.wm = tick.wm /\ tick'.gaps = tick.gaps /\ Following
        BY <1>0, <2>4, <3>2, <4>1, TickPlaces
      <4> QED
        BY <3>0, <4>2, Noted DEF AheadOfTick
    <3> QED
      BY <3>1, <3>2
  <2>5. Open' = Open
    BY <1>2, SameHistory
  <2> QED
    BY <1>1, <1>2, <2>1, <2>2, <2>3, <2>4, <2>5 DEF IdsOK
<1>3. ASSUME NEW g \in Ids, Insert(g)
      PROVE  IdsOK'
  <2>1. /\ hist' = [hist EXCEPT ![g] = "open"] /\ hist[g] = "free"
        /\ \A k \in Ids : k < g => hist[k] # "free"
        /\ UNCHANGED <<wm, gaps, tick, pc, givenUp>>
    BY <1>3 DEF Insert
  <2>2. \A h \in Ids : hist'[h] = IF h = g THEN "open" ELSE hist[h]
    BY <1>0, <2>1
  <2>3. wm < g /\ (Following => tick.wm < g)
    BY <2>1 DEF IdsOK
  <2>4. \A h \in Open' : h \in Open \/ h = g
    BY <2>2 DEF Open
  <2>5. /\ Following' = Following /\ \A h \in Ids : /\ Ahead(h)' = Ahead(h)
                                                  /\ AheadOfTick(h)' = AheadOfTick(h)
    BY <2>1 DEF Following, Clearing, Ahead, AheadOfTick
  <2>6. \A h \in Open' : Ahead(h)' /\ (Following' => AheadOfTick(h)')
    <3>1. Ahead(g) /\ (Following => AheadOfTick(g))
      BY <2>3 DEF Ahead, AheadOfTick
    <3>2. \A h \in Open' : h \in Ids
      BY DEF Open
    <3> QED
      BY <2>4, <2>5, <3>1, <3>2 DEF IdsOK
  <2>7. ASSUME NEW h \in Ids, hist'[h] = "free", NEW k \in Ids, h < k
        PROVE  hist'[k] = "free"
    <3>1. hist[h] = "free" /\ h # g /\ ~ (h < g)
      BY <2>1, <2>2, <2>7
    <3>2. k # g
      BY <2>7, <3>1
    <3> QED
      BY <2>2, <2>7, <3>1, <3>2 DEF IdsOK
  <2>8. \A h \in Ids : hist'[h] = "free" => wm < h /\ (Following \/ pc[Tick] = "read" => tick.wm < h)
    BY <2>2 DEF IdsOK
  <2> QED
    BY <1>1, <2>1, <2>5, <2>6, <2>7, <2>8 DEF IdsOK
<1>4. ASSUME NEW g \in Ids, EndInsert(g, "committed") \/ EndInsert(g, "rolled back")
      PROVE  IdsOK'
  <2>1. /\ hist[g] = "open" /\ UNCHANGED <<wm, gaps, tick, pc, givenUp>>
        /\ \A h \in Ids : h # g => hist'[h] = hist[h]
        /\ hist'[g] # "free" /\ hist'[g] # "open"
    BY <1>0, <1>4 DEF EndInsert
  <2>2. \A h \in Open' : h \in Open
    BY <2>1 DEF Open
  <2>3. /\ Following' = Following /\ \A h \in Ids : /\ Ahead(h)' = Ahead(h)
                                                  /\ AheadOfTick(h)' = AheadOfTick(h)
    BY <2>1 DEF Following, Clearing, Ahead, AheadOfTick
  <2>4. \A h \in Open' : Ahead(h)' /\ (Following' => AheadOfTick(h)')
    <3>1. \A h \in Open' : h \in Ids
      BY DEF Open
    <3> QED
      BY <2>2, <2>3, <3>1 DEF IdsOK
  <2>5. \A h \in Ids : hist'[h] = "free" <=> hist[h] = "free"
    BY <2>1
  <2> QED
    BY <1>1, <2>1, <2>3, <2>4, <2>5 DEF IdsOK
<1> QED
  BY <1>2, <1>3, <1>4, WhoWrites

\* The columns of the backfill are written by the runs and by a restart.
LEMMA BackfillMoves ==
    ASSUME [Next]_vars
    PROVE  bf' = bf \/ Restart \/ \E b \in Runs : Begin(b) \/ SaveCursor(b) \/ Finish(b)
<1> USE DEF writers, table, memory, bounds, ghosts
<1> QED
  BY Cases DEF Insert, EndInsert, Erase, CommitErasure, Age, LoadState, ReadHistory, MarkFailed,
               SaveProgress, TakeDirty, ClearDirty, BackoffPasses, StartRebuild, CommitRebuild,
               FailRebuild, ReadChunk, Crash, vars

\* What the proofs below take from the invariant of the erasures.
LEMMA Basics ==
    ASSUME IInv
    PROVE  /\ TypeOK /\ TickOK /\ StampsOK
           /\ wm \in Nat /\ tick.wm \in Nat /\ Ids \subseteq Nat /\ Tickets \subseteq Nat
           /\ \A h \in Ids : TicketOf[h] \in Tickets
           /\ Committed \subseteq Ids /\ Open \subseteq Ids
<1>1. TypeOK /\ TickOK /\ StampsOK
  BY DEF IInv
<1>2. wm \in Nat /\ tick \in TickType
  BY <1>1 DEF TypeOK
<1>3. Ids \subseteq Nat /\ Tickets \subseteq Nat /\ \A h \in Ids : TicketOf[h] \in Tickets
  BY ReportAssumption DEF Ids, Tickets
<1> QED
  BY <1>1, <1>2, <1>3, TickWrites DEF Committed, Open

LEMMA PlaceStep ==
    ASSUME IInv, IdsOK, PlaceOK, [Next]_vars
    PROVE  PlaceOK'
<1> USE DEF writers, table, memory, bounds, ghosts
<1>0. /\ TypeOK /\ TickOK /\ wm \in Nat /\ tick.wm \in Nat
      /\ Largest(Committed) \in Nat /\ Largest(Committed) # 0
  BY Basics, HighestVisible, Sets
<1>1. ASSUME wm' = 0
      PROVE  bf'.status = "pending" /\ \A b \in Builders : pc'[b] = "idle"
  <2>1. ~SaveProgress
    <3>1. ASSUME SaveProgress PROVE FALSE
      <4>1. Following /\ wm' = IF wm < tick.wm THEN tick.wm ELSE wm
        BY <1>0, <3>1, SavedWhenDone
      <4>2. wm # 0
        BY <4>1, Who DEF PlaceOK, Following
      <4> QED
        BY <1>0, <1>1, <4>1, <4>2
    <3> QED
      BY <3>1
  <2>2. ~LoadState /\ ~ \E b \in Runs : Begin(b)
    BY <1>0, <1>1 DEF LoadState, Begin, FirstWatermark
  <2>3. wm = 0
    BY <1>1, <2>1, <2>2, Watermark
  <2>4. bf.status = "pending" /\ \A b \in Builders : pc[b] = "idle"
    BY <2>3 DEF PlaceOK
  <2>5. bf'.status = "pending"
    <3>1. ASSUME NEW b \in Runs, SaveCursor(b) \/ Finish(b) PROVE FALSE
      BY <2>4, <3>1, Who DEF SaveCursor, Finish
    <3>2. CASE Restart
      <4>1. bf \in BackfillType /\ bf' = [bf EXCEPT !.status = "pending"]
        BY <1>0, <3>2 DEF TypeOK, Restart
      <4> QED
        BY <4>1 DEF BackfillType
    <3> QED
      BY <2>2, <2>4, <3>1, <3>2, BackfillMoves
  <2>6. ASSUME NEW b \in Runs
        PROVE  pc'[b] = "idle"
    <3>1. pc[b] = "idle" /\ b \in Builders
      BY <2>4, Who
    <3>2. CASE Crash
      BY <3>1, <3>2 DEF Crash
    <3> QED
      BY <1>0, <2>2, <3>1, <3>2, RunAlone
      DEF StartRebuild, CommitRebuild, FailRebuild, ReadChunk, SaveCursor, Finish
  <2>7. pc'[Tick] = "idle"
    <3>1. pc[Tick] = "idle" /\ Tick \in Builders
      BY <2>4, Who
    <3>2. CASE Crash
      BY <3>1, <3>2 DEF Crash
    <3>3. CASE BackoffPasses
      BY <3>1, <3>3 DEF BackoffPasses
    <3> QED
      BY <1>0, <2>1, <2>2, <3>1, <3>2, <3>3, TickAlone
      DEF StartRebuild, CommitRebuild, FailRebuild, ReadHistory, MarkFailed, HistoryRebuilt, TakeDirty, ClearDirty
  <2> QED
    BY <2>5, <2>6, <2>7, Who
<1>2. ASSUME pc'[Tick] = "read"
      PROVE  wm' = tick'.wm /\ gaps' = tick'.gaps
  <2>1. CASE LoadState
    <3>1. tick' = [IdleTick EXCEPT !.wm = wm', !.gaps = gaps, !.backing = tick.backing] /\ gaps' = gaps
      BY <2>1 DEF LoadState
    <3> QED
      BY <3>1 DEF IdleTick
  <2>2. CASE SaveProgress
    <3>1. /\ Following /\ wm' = IF wm < tick.wm THEN tick.wm ELSE wm
          /\ gaps' = tick.gaps /\ tick' = tick
      BY <1>0, <2>2, SavedWhenDone
    <3>2. wm <= tick.wm
      BY <3>1 DEF PlaceOK
    <3> QED
      BY <1>0, <3>1, <3>2
  <2>3. CASE ~LoadState /\ ~SaveProgress
    <3>1. ~ReadHistory
      BY <1>0, <1>2, Who DEF ReadHistory, TypeOK
    <3>2. tick'.wm = tick.wm /\ tick'.gaps = tick.gaps /\ pc[Tick] = "read"
      BY <1>0, <1>2, <2>3, <3>1, TickPlaces
    <3>3. wm # 0 /\ wm = tick.wm /\ gaps = tick.gaps
      BY <3>2, Who DEF PlaceOK
    <3> QED
      BY <2>3, <3>2, <3>3, Watermark
  <2> QED
    BY <2>1, <2>2, <2>3
<1>3. ASSUME Following'
      PROVE  wm' <= tick'.wm
  <2>1. pc'[Tick] # "read"
    BY <1>3 DEF Following
  <2>2. CASE ReadHistory
    <3>1. wm' = wm /\ tick.wm <= tick'.wm
      BY <1>0, <2>2, ReadLeaves DEF ReadHistory
    <3>2. wm = tick.wm
      BY <2>2 DEF ReadHistory, PlaceOK
    <3> QED
      BY <3>1, <3>2
  <2>3. CASE ~ReadHistory
    <3>1. tick'.wm = tick.wm /\ Following /\ ~SaveProgress
      BY <1>0, <1>3, <2>1, <2>3, TickPlaces
    <3>2. wm # 0 /\ wm <= tick.wm
      BY <3>1, Who DEF PlaceOK, Following
    <3> QED
      BY <3>1, <3>2, Watermark
  <2> QED
    BY <2>2, <2>3
<1> QED
  BY <1>1, <1>2, <1>3 DEF PlaceOK

----------------------------------------------------------------------------
(* The rows the tick has to care for. *)

\* Except in clear_dirty, a mark is only replaced by a newer one.
LEMMA MarksGrow ==
    ASSUME TypeOK, StampsOK, [Next]_vars, NEW t \in Tickets
    PROVE  ClearDirty \/ dirty[t] <= dirty'[t]
<1> USE DEF writers, table, memory, bounds, ghosts
<1>0. dirty \in [Tickets -> Nat] /\ erasing \in [Tickets -> Nat] /\ clock \in Nat
  BY DEF TypeOK
<1>1. CASE \E e \in Tickets : CommitErasure(e)
  <2> PICK e \in Tickets : CommitErasure(e)
    BY <1>1
  <2>1. dirty' = [dirty EXCEPT ![e] = erasing[e]] /\ dirty[e] < erasing[e]
    BY DEF CommitErasure, StampsOK
  <2>2. dirty[t] \in Nat /\ dirty[e] \in Nat /\ erasing[e] \in Nat
    BY <1>0
  <2> QED
    BY <1>0, <2>1, <2>2
<1>2. CASE MarkFailed
  <2>1. dirty' = [x \in Tickets |-> IF x \in tick.failed THEN clock + 1 ELSE dirty[x]] /\ dirty[t] <= clock
    BY <1>2 DEF MarkFailed, Mark, StampsOK
  <2> QED
    BY <1>0, <2>1
<1>3. \/ dirty' = dirty \/ MarkFailed \/ ClearDirty \/ \E e \in Tickets : CommitErasure(e)
  BY Cases
  DEF Insert, EndInsert, Erase, Age, LoadState, ReadHistory, SaveProgress, TakeDirty,
      BackoffPasses, StartRebuild, CommitRebuild, FailRebuild, Begin, ReadChunk,
      SaveCursor, Finish, Restart, Crash, vars
<1>4. dirty[t] \in Nat
  BY <1>0
<1> QED
  BY <1>1, <1>2, <1>3, <1>4

\* Between two steps of the tick that let go of rows, nothing is let go.
LEMMA Carried ==
    ASSUME IInv, RowsOK, [Next]_vars, wm # 0, ~SaveProgress, ~ClearDirty, NEW h \in Committed
    PROVE  /\ Kept(h) => Kept(h)'
           /\ Ahead(h) => Ahead(h)'
           /\ Ahead(h)' => Ahead(h) \/ Kept(h)'
           /\ tick'.wm = tick.wm /\ tick'.gaps = tick.gaps => (AheadOfTick(h) => AheadOfTick(h)')
<1> DEFINE t == TicketOf[h]
<1>0. TypeOK /\ StampsOK /\ t \in Tickets
  BY Basics
<1>1. wm' = wm /\ gaps' = gaps
  BY Watermark
<1>2. givenUp \subseteq givenUp' /\ overtaken \cup rewound \subseteq overtaken' \cup rewound'
  BY Noted
<1>3. facts[t].rows \subseteq facts'[t].rows \/ t \in rewound' \/ dirty'[t] # 0
  BY <1>0, FactsStay
<1>4. dirty[t] # 0 => dirty'[t] # 0
  BY <1>0, MarksStay
<1>5. Kept(h) => Kept(h)'
  BY <1>2, <1>3, <1>4 DEF Kept
<1>6. Ahead(h) => Ahead(h)'
  BY <1>1, <1>2 DEF Ahead
<1>7. Ahead(h)' => Ahead(h) \/ Kept(h)'
  BY <1>1 DEF Ahead, Kept
<1>8. tick'.wm = tick.wm /\ tick'.gaps = tick.gaps => (AheadOfTick(h) => AheadOfTick(h)')
  BY <1>2 DEF AheadOfTick
<1> QED
  BY <1>5, <1>6, <1>7, <1>8

\* A row that becomes visible is ahead.
LEMMA CoveredWhenVisible ==
    ASSUME IInv, IdsOK, TickCovers, [Next]_vars, hist' # hist
    PROVE  TickCovers'
<1> USE DEF writers, table, memory, bounds, ghosts
<1>0. TypeOK /\ TickOK /\ hist \in [Ids -> Status]
  BY Basics DEF TypeOK
<1>1. UNCHANGED <<facts, dirty, wm, gaps, pc, tick, todo, left, part, view, givenUp, overtaken, rewound>>
  BY WhoWrites DEF Insert, EndInsert
<1>2. ASSUME NEW h \in Committed'
      PROVE  h \in Committed \/ (h \in Open /\ Ahead(h) /\ (Following => AheadOfTick(h)))
  <2>1. h \in Committed \/ h \in Open
    BY <1>0, <1>2, WhoWrites DEF Insert, EndInsert, Committed, Open
  <2> QED
    BY <2>1 DEF IdsOK
<1>3. ASSUME NEW h \in Committed'
      PROVE  /\ Following => TickRows(h)
             /\ pc[Tick] = "write" => TickReads(h)
             /\ Clearing => TickClears(h)
  <2>1. CASE h \in Committed
    BY <2>1 DEF TickCovers
  <2>2. CASE Ahead(h) /\ (Following => AheadOfTick(h))
    BY <2>2 DEF TickRows, TickReads, TickClears, Following
  <2> QED
    BY <1>2, <2>1, <2>2
<1>4. /\ Following' = Following /\ Clearing' = Clearing
      /\ \A h : TickRows(h)' = TickRows(h) /\ TickReads(h)' = TickReads(h) /\ TickClears(h)' = TickClears(h)
  BY <1>1 DEF Following, Clearing, TickRows, TickReads, TickClears, Kept, Ahead, AheadOfTick
<1> QED
  BY <1>1, <1>3, <1>4 DEF TickCovers

\* The steps of other builders and the back-off, and the start of a rebuild.
LEMMA CoveredMeanwhile ==
    ASSUME IInv, RowsOK, PlaceOK, TickCovers, [Next]_vars, hist' = hist,
           StartRebuild(Tick) \/ BackoffPasses
              \/ UNCHANGED <<pc[Tick], todo[Tick], left[Tick], tick, part[Tick], view[Tick]>>
    PROVE  TickCovers'
<1> USE DEF writers, table, memory, bounds, ghosts
<1>0. /\ TypeOK /\ StampsOK /\ TickOK /\ tick \in TickType /\ pc \in [Builders -> Place]
      /\ part \in [Builders -> SUBSET Tickets] /\ view \in [Builders -> [Tickets -> FactType]]
      /\ dirty \in [Tickets -> Nat] /\ left \in [Builders -> SUBSET Tickets]
      /\ todo \in [Builders -> SUBSET Tickets] /\ Tick \in Builders
  BY Basics, Who DEF TypeOK
<1>1. /\ todo'[Tick] = todo[Tick] /\ left'[Tick] = left[Tick]
      /\ tick'.wm = tick.wm /\ tick'.gaps = tick.gaps /\ tick'.stage = tick.stage
      /\ tick'.failed = tick.failed /\ tick'.seen = tick.seen
  <2>1. CASE BackoffPasses
    <3>1. tick' = [tick EXCEPT !.backing = {}] /\ todo' = todo /\ left' = left
      BY <2>1 DEF BackoffPasses
    <3> QED
      BY <1>0, <3>1, TickFields
  <2>2. CASE ~BackoffPasses
    BY <2>2 DEF StartRebuild
  <2> QED
    BY <2>1, <2>2
<1>2. /\ Clearing' = Clearing
      /\ pc'[Tick] = pc[Tick] \/ (pc[Tick] = "rebuild" /\ pc'[Tick] = "write" /\ StartRebuild(Tick))
  BY <1>0, <1>1 DEF Clearing, StartRebuild, BackoffPasses
<1>3. ASSUME pc'[Tick] = "write" \/ Following' \/ Clearing'
      PROVE  wm # 0 /\ ~SaveProgress /\ ~ClearDirty
  <2>1. pc[Tick] # "idle"
    BY <1>0, <1>2, <1>3 DEF Following, TickOK
  <2>2. ~SaveProgress
    BY <1>0, <1>2 DEF SaveProgress, HistoryRebuilt
  <2>3. ~ClearDirty
    BY <1>0, <1>2 DEF ClearDirty
  <2> QED
    BY <1>0, <2>1, <2>2, <2>3 DEF PlaceOK
<1>4. ASSUME NEW h \in Committed, Following'
      PROVE  TickRows(h)'
  <2>1. Following /\ (pc'[Tick] = "save" => pc[Tick] = "save") /\ (pc[Tick] = "save" => pc'[Tick] = "save")
    BY <1>2, <1>4 DEF Following
  <2>2. TickRows(h)
    BY <2>1 DEF TickCovers
  <2> QED
    BY <1>1, <1>3, <1>4, <2>1, <2>2, Carried DEF TickRows
<1>5. ASSUME NEW h \in Committed, pc'[Tick] = "write"
      PROVE  TickReads(h)'
  <2>0. TicketOf[h] \in Tickets
    BY Basics
  <2>1. CASE StartRebuild(Tick)
    <3>1. /\ part' = [part EXCEPT ![Tick] = NextPart(Tick)]
          /\ view' = [view EXCEPT ![Tick] =
                         [t \in Tickets |-> IF t \in NextPart(Tick) THEN Current(t) ELSE NoFact]]
      BY <2>1 DEF StartRebuild
    <3>2. part'[Tick] = NextPart(Tick)
          /\ \A t \in NextPart(Tick) : t \in Tickets => view'[Tick][t] = Current(t)
      BY <1>0, <3>1
    <3>3. h \in Current(TicketOf[h]).rows
      BY DEF Current
    <3> QED
      BY <2>0, <3>2, <3>3 DEF TickReads
  <2>2. CASE ~StartRebuild(Tick)
    <3>1. part'[Tick] = part[Tick] /\ view'[Tick] = view[Tick] /\ pc[Tick] = "write"
      BY <1>2, <1>5, <2>2 DEF BackoffPasses
    <3>2. TickReads(h)
      BY <3>1 DEF TickCovers
    <3> QED
      BY <1>1, <1>2, <1>3, <1>5, <3>1, <3>2, Carried DEF TickReads
  <2> QED
    BY <2>1, <2>2
<1>6. ASSUME NEW h \in Committed, Clearing'
      PROVE  TickClears(h)'
  <2> DEFINE t == TicketOf[h]
  <2> SUFFICES ASSUME t \in todo'[Tick] \ (left'[Tick] \cup tick'.failed), dirty'[t] = tick'.seen[t],
                      ~ Ahead(h)', t \notin rewound'
               PROVE  h \in facts'[t].rows
    BY DEF TickClears
  <2>0. t \in Tickets /\ Clearing /\ TickClears(h)
    BY <1>2, <1>6, Basics DEF TickCovers
  <2>1. t \in todo[Tick] \ (left[Tick] \cup tick.failed) /\ dirty'[t] = tick.seen[t]
    BY <1>1
  <2>2. tick.seen[t] <= dirty[t] /\ dirty[t] <= dirty'[t]
    BY <1>0, <1>3, <1>6, <2>0, <2>1, MarksGrow DEF StampsOK
  <2>3. dirty[t] \in Nat /\ tick.seen[t] \in Nat
    BY <1>0, <2>0, TickWrites
  <2>4. dirty[t] = tick.seen[t] /\ dirty'[t] = dirty[t]
    BY <2>1, <2>2, <2>3
  <2>5. h \in facts[t].rows
    <3>1. ~Ahead(h) /\ t \notin rewound
      BY <1>3, <1>6, Carried, Noted
    <3> QED
      BY <2>0, <2>1, <2>4, <3>1 DEF TickClears
  <2>6. facts[t].rows \subseteq facts'[t].rows
    BY <1>0, <2>0, <2>3, <2>4, FactsStay
  <2> QED
    BY <2>5, <2>6
<1> QED
  BY <1>4, <1>5, <1>6, SameHistory DEF TickCovers

\* The tick's own steps.
LEMMA CoveredByTick ==
    ASSUME IInv, RowsOK, IdsOK, PlaceOK, TickCovers, [Next]_vars, hist' = hist,
           LoadState \/ ReadHistory \/ MarkFailed \/ SaveProgress \/ TakeDirty \/ ClearDirty \/ Crash
    PROVE  TickCovers'
<1> USE DEF writers, table, memory, bounds, ghosts
<1>0. /\ TypeOK /\ TickOK /\ tick \in TickType /\ pc \in [Builders -> Place]
      /\ left \in [Builders -> SUBSET Tickets] /\ todo \in [Builders -> SUBSET Tickets] /\ Tick \in Builders
  BY Basics, Who DEF TypeOK
<1>1. CASE LoadState \/ SaveProgress \/ ClearDirty \/ Crash
  <2>1. pc'[Tick] \in {"idle", "read", "take"}
    BY <1>0, <1>1, Who DEF LoadState, SaveProgress, ClearDirty, Crash
  <2>2. tick'.stage = "history"
    <3>1. CASE LoadState
      BY <3>1 DEF LoadState, IdleTick
    <3>2. CASE SaveProgress
      <4>1. ~Clearing /\ tick' = tick
        BY <1>0, <3>2, SavedWhenDone DEF Following
      <4> QED
        BY <1>0, <4>1 DEF Clearing, TickType
    <3>3. CASE ClearDirty \/ Crash
      BY <3>3 DEF ClearDirty, Crash, IdleTick
    <3> QED
      BY <1>1, <3>1, <3>2, <3>3
  <2> QED
    BY <2>1, <2>2 DEF TickCovers, Following, Clearing
<1>2. CASE ReadHistory
  <2>1. pc'[Tick] = "rebuild" /\ pc[Tick] = "read" /\ wm' = wm /\ gaps' = gaps
    BY <1>0, <1>2 DEF ReadHistory
  <2>2. tick'.stage = "history"
    <3>1. tick.stage # "dirty"
      BY <1>0, <2>1 DEF TickOK, Clearing
    <3>2. tick.stage \in {"history", "dirty"}
      BY <1>0 DEF TickType
    <3>3. tick'.stage = tick.stage
      BY <1>0, <1>2 DEF ReadHistory, TickType
    <3> QED
      BY <3>1, <3>2, <3>3
  <2>3. ASSUME NEW h \in Committed
        PROVE  TickRows(h)'
    <3>1. Ahead(h)' => Ahead(h) \/ Kept(h)'
      BY <2>1 DEF Ahead, Kept
    <3>2. Ahead(h) => AheadOfTick(h)' \/ TicketOf[h] \in left'[Tick]
      BY <1>0, <1>2, ReadLeaves
    <3> QED
      BY <3>1, <3>2 DEF TickRows
  <2> QED
    BY <2>1, <2>2, <2>3, SameHistory DEF TickCovers, Clearing
<1>3. CASE MarkFailed
  <2>1. /\ pc'[Tick] = "save" /\ pc[Tick] = "rebuild" /\ left'[Tick] = {} /\ left[Tick] = {}
        /\ tick' = tick /\ ~Clearing /\ Following
        /\ UNCHANGED <<wm, gaps, facts, ghosts>>
        /\ dirty' = [t \in Tickets |-> IF t \in tick.failed THEN clock + 1 ELSE dirty[t]]
    BY <1>0, <1>3 DEF MarkFailed, HistoryRebuilt, Mark, Clearing, Following
  <2>2. clock + 1 # 0
    BY <1>0 DEF TypeOK
  <2>3. ASSUME NEW h \in Committed
        PROVE  TickRows(h)'
    <3>1. TickRows(h) /\ TicketOf[h] \in Tickets
      BY <2>1, Basics DEF TickCovers
    <3>2. Ahead(h)' = Ahead(h) /\ AheadOfTick(h)' = AheadOfTick(h)
      BY <2>1 DEF Ahead, AheadOfTick
    <3>3. TicketOf[h] \in tick.failed \/ Kept(h) => Kept(h)'
      BY <2>1, <2>2, <3>1 DEF Kept
    <3> QED
      BY <2>1, <3>1, <3>2, <3>3 DEF TickRows
  <2> QED
    BY <2>1, <2>3, SameHistory DEF TickCovers, Clearing
<1>4. CASE TakeDirty
  <2>1. pc'[Tick] \in {"idle", "rebuild"} /\ (pc'[Tick] = "rebuild" => Clearing')
        /\ (Clearing' => todo'[Tick] = left'[Tick])
    <3>1. \/ /\ pc' = [pc EXCEPT ![Tick] = "idle"]
             /\ tick' = [IdleTick EXCEPT !.backing = tick.backing]
          \/ /\ pc' = [pc EXCEPT ![Tick] = "rebuild"]
             /\ tick' = [IdleTick EXCEPT !.stage = "dirty", !.backing = tick.backing, !.seen = dirty]
             /\ todo' = [todo EXCEPT ![Tick] = Marked \ tick.backing]
             /\ left' = [left EXCEPT ![Tick] = Marked \ tick.backing]
      BY <1>4 DEF TakeDirty
    <3>2. CASE pc' = [pc EXCEPT ![Tick] = "idle"] /\ tick' = [IdleTick EXCEPT !.backing = tick.backing]
      BY <1>0, <3>2 DEF Clearing, IdleTick
    <3>3. CASE pc' # [pc EXCEPT ![Tick] = "idle"] \/ tick' # [IdleTick EXCEPT !.backing = tick.backing]
      <4>1. /\ pc' = [pc EXCEPT ![Tick] = "rebuild"]
            /\ tick' = [IdleTick EXCEPT !.stage = "dirty", !.backing = tick.backing, !.seen = dirty]
            /\ todo' = [todo EXCEPT ![Tick] = Marked \ tick.backing]
            /\ left' = [left EXCEPT ![Tick] = Marked \ tick.backing]
        BY <3>1, <3>3
      <4>2. tick'.stage = "dirty"
        BY <4>1 DEF IdleTick
      <4>3. pc'[Tick] = "rebuild" /\ todo'[Tick] = left'[Tick]
        BY <1>0, <4>1
      <4> QED
        BY <4>2, <4>3 DEF Clearing
    <3> QED
      BY <3>2, <3>3
  <2> QED
    BY <2>1 DEF TickCovers, Following, TickClears
<1> QED
  BY <1>1, <1>2, <1>3, <1>4

\* The end of the tick's own rebuild transaction.
LEMMA CoveredByRebuild ==
    ASSUME IInv, RowsOK, PlaceOK, TickCovers, [Next]_vars, hist' = hist,
           CommitRebuild(Tick) \/ FailRebuild(Tick)
    PROVE  TickCovers'
<1> USE DEF writers, table, memory, bounds, ghosts
<1>0. /\ TypeOK /\ TickOK /\ tick \in TickType /\ pc \in [Builders -> Place]
      /\ part \in [Builders -> SUBSET Tickets] /\ left \in [Builders -> SUBSET Tickets]
      /\ Tick \in Builders /\ Tick \notin Runs
      /\ part[Tick] \subseteq left[Tick] /\ left[Tick] \subseteq todo[Tick]
  BY Basics, Who DEF TypeOK, TickOK
<1>1. /\ pc[Tick] = "write" /\ pc'[Tick] = "rebuild" /\ todo'[Tick] = todo[Tick]
  BY <1>0 DEF CommitRebuild, FailRebuild
<1>2. /\ tick'.wm = tick.wm /\ tick'.gaps = tick.gaps /\ tick'.stage = tick.stage
      /\ tick'.seen = tick.seen /\ tick.failed \subseteq tick'.failed
  BY <1>0, TickKept
<1>3. wm # 0 /\ ~SaveProgress /\ ~ClearDirty /\ dirty' = dirty /\ (Following' => Following) /\ Clearing' = Clearing
  <2>1. ~SaveProgress /\ ~ClearDirty
    BY <1>1 DEF SaveProgress, HistoryRebuilt, ClearDirty
  <2>2. dirty' = dirty
    BY DEF CommitRebuild, FailRebuild
  <2>3. wm # 0
    BY <1>0, <1>1 DEF PlaceOK
  <2> QED
    BY <1>1, <1>2, <2>1, <2>2, <2>3 DEF Following, Clearing
<1>4. ASSUME NEW h \in Committed, CommitRebuild(Tick)
      PROVE  /\ Following' => TickRows(h)'
             /\ Clearing' => TickClears(h)'
  <2> DEFINE t == TicketOf[h]
  <2>1. /\ left' = [left EXCEPT ![Tick] = @ \ part[Tick]]
        /\ facts' = [x \in Tickets |-> IF x \in part[Tick] THEN view[Tick][x] ELSE facts[x]]
        /\ tick' = [tick EXCEPT !.backing = @ \ part[Tick]]
        /\ wm' = wm /\ gaps' = gaps /\ givenUp' = givenUp
    BY <1>4 DEF CommitRebuild
  <2>2. left'[Tick] = left[Tick] \ part[Tick] /\ tick'.failed = tick.failed
    BY <1>0, <2>1, TickFields
  <2>3. t \in Tickets /\ TickReads(h)
    BY <1>1, Basics DEF TickCovers
  <2>4. h \in view[Tick][t].rows /\ t \in part[Tick] => h \in facts'[t].rows
    BY <2>1, <2>3
  <2>5. ASSUME Following' PROVE TickRows(h)'
    <3>1. TickRows(h) /\ Following
      BY <1>3, <2>5 DEF TickCovers
    <3>2. t \in left[Tick] => t \in left'[Tick] \/ Kept(h)' \/ AheadOfTick(h)
      BY <2>2, <2>3, <2>4, <3>1 DEF TickReads, Following, Kept
    <3>3. Ahead(h)' = Ahead(h)
      BY <2>1 DEF Ahead
    <3> QED
      BY <1>1, <1>2, <1>3, <2>2, <3>1, <3>2, <3>3, Carried DEF TickRows
  <2>6. ASSUME Clearing' PROVE TickClears(h)'
    <3>1. TickClears(h) /\ Clearing
      BY <1>3, <2>6 DEF TickCovers
    <3>2. Ahead(h)' = Ahead(h)
      BY <2>1 DEF Ahead
    <3>3. ASSUME t \in todo'[Tick] \ (left'[Tick] \cup tick'.failed), dirty'[t] = tick'.seen[t]
          PROVE  h \in facts'[t].rows \/ Ahead(h) \/ t \in rewound'
      <4>1. t \in todo[Tick] \ tick.failed /\ dirty[t] = tick.seen[t] /\ (t \in left[Tick] => t \in part[Tick])
        BY <1>1, <1>2, <1>3, <2>2, <3>3
      <4>2. CASE t \in part[Tick]
        BY <2>3, <2>4, <3>1, <4>2 DEF TickReads
      <4>3. CASE t \notin part[Tick]
        <5>1. facts'[t] = facts[t]
          BY <2>1, <2>3, <4>3
        <5> QED
          BY <3>1, <4>1, <4>3, <5>1, Noted DEF TickClears
      <4> QED
        BY <4>2, <4>3
    <3> QED
      BY <3>2, <3>3 DEF TickClears
  <2> QED
    BY <2>5, <2>6
<1>5. ASSUME NEW h \in Committed, FailRebuild(Tick)
      PROVE  /\ Following' => TickRows(h)'
             /\ Clearing' => TickClears(h)'
  <2> DEFINE t == TicketOf[h]
  <2>1. \/ left'[Tick] = todo[Tick]
        \/ left'[Tick] = left[Tick] \ part[Tick] /\ tick'.failed = tick.failed \cup part[Tick]
    <3>1. \/ left' = [left EXCEPT ![Tick] = todo[Tick]]
          \/ /\ tick' = [tick EXCEPT !.failed = @ \cup part[Tick], !.backing = @ \cup part[Tick]]
             /\ left' = [left EXCEPT ![Tick] = @ \ part[Tick]]
      BY <1>0, <1>5 DEF FailRebuild
    <3>2. CASE left' = [left EXCEPT ![Tick] = todo[Tick]]
      BY <1>0, <3>2
    <3>3. CASE left' = [left EXCEPT ![Tick] = @ \ part[Tick]]
               /\ tick' = [tick EXCEPT !.failed = @ \cup part[Tick], !.backing = @ \cup part[Tick]]
      <4>1. left'[Tick] = left[Tick] \ part[Tick]
        BY <1>0, <3>3
      <4>2. tick'.failed = tick.failed \cup part[Tick]
        BY <1>0, <3>3, TickFields
      <4> QED
        BY <4>1, <4>2
    <3> QED
      BY <3>1, <3>2, <3>3
  <2>2. /\ facts' = facts /\ wm' = wm /\ gaps' = gaps /\ givenUp' = givenUp
    BY <1>5 DEF FailRebuild
  <2>3. left[Tick] \subseteq left'[Tick] \cup tick'.failed
    BY <1>0, <2>1
  <2>4. ASSUME Following' PROVE TickRows(h)'
    <3>1. TickRows(h) /\ Following
      BY <1>3, <2>4 DEF TickCovers
    <3>2. Ahead(h)' = Ahead(h)
      BY <2>2 DEF Ahead
    <3> QED
      <4>1. t \in left[Tick] \cup tick.failed => t \in left'[Tick] \cup tick'.failed
        BY <1>2, <2>3
      <4>2. Ahead(h)' => Kept(h)' \/ AheadOfTick(h)' \/ t \in left[Tick] \cup tick.failed
        BY <1>2, <1>3, <3>1, <3>2, Carried DEF TickRows
      <4> QED
        BY <1>1, <4>1, <4>2 DEF TickRows
  <2>5. ASSUME Clearing' PROVE TickClears(h)'
    <3>1. TickClears(h)
      BY <1>3, <2>5 DEF TickCovers
    <3>2. Ahead(h)' = Ahead(h)
      BY <2>2 DEF Ahead
    <3> QED
      BY <1>1, <1>2, <1>3, <2>2, <2>3, <3>1, <3>2, Noted DEF TickClears
  <2> QED
    BY <2>4, <2>5
<1>6. Committed' = Committed
  BY SameHistory
<1> QED
  BY <1>1, <1>4, <1>5, <1>6 DEF TickCovers

LEMMA TickCoversStep ==
    ASSUME IInv, RowsOK, IdsOK, PlaceOK, TickCovers, [Next]_vars
    PROVE  TickCovers'
<1>1. CASE hist' # hist
  BY <1>1, CoveredWhenVisible
<1>2. CASE hist' = hist
  <2>1. TypeOK
    BY Basics
  <2> QED
    BY <1>2, <2>1, TickAlone, CoveredMeanwhile, CoveredByTick, CoveredByRebuild
<1> QED
  BY <1>1, <1>2

----------------------------------------------------------------------------
(* The rows the runs have to care for. *)

\* The tickets a run reads: the next ones after its cursor, with none left out between them.
LEMMA ChunkIs ==
    ASSUME TypeOK, NEW b \in Runs, Tick \notin Runs, ReadChunk(b)
    PROVE  LET ahead == {t \in Existing : run[b].cursor < t /\ t <= run[b].target}
           IN  /\ todo'[b] \subseteq ahead /\ left'[b] = todo'[b] /\ run' = run
               /\ \A x \in todo'[b] : \A t \in ahead : t <= x => t \in todo'[b]
               /\ IF todo'[b] = {} THEN ahead = {} /\ pc'[b] = "finish" ELSE pc'[b] = "rebuild"
<1> DEFINE ahead == {t \in Existing : run[b].cursor < t /\ t <= run[b].target}
           ids == FirstOf(ahead, Chunk)
<1>0. /\ pc \in [Builders -> Place] /\ todo \in [Builders -> SUBSET Tickets]
      /\ left \in [Builders -> SUBSET Tickets] /\ b \in Builders
  BY DEF TypeOK, Builders
<1>1. /\ todo' = [todo EXCEPT ![b] = ids] /\ left' = [left EXCEPT ![b] = ids] /\ run' = run
      /\ pc' = [pc EXCEPT ![b] = IF ids = {} THEN "finish" ELSE "rebuild"]
  BY DEF ReadChunk
<1>2. ahead \in SUBSET (1..MaxTicket)
  BY Sets
<1> HIDE DEF ahead
<1>3. /\ ids \subseteq ahead
      /\ \A x \in ids : \A t \in ahead : t <= x => t \in ids
      /\ ahead # {} => ids # {}
  BY <1>2, FirstOfIs, ReportAssumption
<1> HIDE DEF ids
<1>4. todo'[b] = ids /\ left'[b] = ids /\ pc'[b] = IF ids = {} THEN "finish" ELSE "rebuild"
  BY <1>0, <1>1
<1> QED
  BY <1>1, <1>3, <1>4 DEF ahead

\* A run that rebuilds was rebuilding before, or has just read its tickets.
LEMMA Rebuilding ==
    ASSUME TypeOK, [Next]_vars, NEW b \in Runs, pc'[b] \in {"rebuild", "write"}
    PROVE  \/ ReadChunk(b)
           \/ /\ pc[b] \in {"rebuild", "write"} /\ todo'[b] = todo[b] /\ run'[b] = run[b]
              /\ \/ StartRebuild(b) \/ CommitRebuild(b)
                 \/ UNCHANGED <<pc[b], left[b], part[b], view[b]>>
<1> USE Who DEF writers, table, memory, bounds, ghosts
<1>0. pc \in [Builders -> Place] /\ b \in Builders /\ run \in [Runs -> RunType] /\ b # Tick
  BY DEF TypeOK
<1>1. CASE UNCHANGED <<pc[b], todo[b], left[b], run[b], part[b], view[b]>>
  BY <1>1
<1>2. CASE StartRebuild(b)
  BY <1>2 DEF StartRebuild
<1>3. CASE CommitRebuild(b)
  BY <1>3 DEF CommitRebuild
<1>4. ASSUME FailRebuild(b) \/ Begin(b) \/ SaveCursor(b) \/ Finish(b) \/ (Crash /\ b \notin Outside)
      PROVE  FALSE
  BY <1>0, <1>4 DEF FailRebuild, Begin, SaveCursor, Finish, StopRun, Crash
<1> QED
  BY <1>1, <1>2, <1>3, <1>4, RunAlone

LEMMA TodoStep ==
    ASSUME TypeOK, TodoOK, [Next]_vars
    PROVE  TodoOK'
<1>1. ASSUME NEW b \in Runs, pc'[b] \in {"rebuild", "write"}
      PROVE  todo'[b] # {} /\ \A t \in todo'[b] : run'[b].cursor < t /\ t <= run'[b].target
  <2>1. CASE ReadChunk(b)
    BY <1>1, <2>1, ChunkIs, Who
  <2>2. CASE ~ReadChunk(b)
    BY <1>1, <2>2, Rebuilding DEF TodoOK
  <2> QED
    BY <2>1, <2>2
<1> QED
  BY <1>1 DEF TodoOK

\* A run that lives was started by this step or lived before; only its own cursor moves.
LEMMA Living ==
    ASSUME TypeOK, [Next]_vars, NEW b \in Runs, pc'[b] # "idle"
    PROVE  Begin(b) \/ (pc[b] # "idle" /\ (run'[b] = run[b] \/ SaveCursor(b)))
<1> USE Who DEF writers, table, memory, bounds, ghosts
<1>0. pc \in [Builders -> Place] /\ b \in Builders /\ run \in [Runs -> RunType] /\ b # Tick
  BY DEF TypeOK
<1>1. CASE UNCHANGED <<pc[b], todo[b], left[b], run[b], part[b], view[b]>>
  BY <1>1
<1>2. CASE StartRebuild(b) \/ CommitRebuild(b) \/ ReadChunk(b)
  BY <1>0, <1>2 DEF StartRebuild, CommitRebuild, ReadChunk
<1>3. CASE SaveCursor(b)
  BY <1>0, <1>3 DEF SaveCursor
<1>4. ASSUME FailRebuild(b) \/ Finish(b) \/ (Crash /\ b \notin Outside) PROVE FALSE
  BY <1>0, <1>4 DEF FailRebuild, Finish, StopRun, Crash
<1> QED
  BY <1>1, <1>2, <1>3, <1>4, RunAlone

LEMMA TokensStep ==
    ASSUME TypeOK, TokensOK, TodoOK, [Next]_vars
    PROVE  TokensOK'
<1> USE DEF writers, table, memory, bounds, ghosts
<1>0. /\ pc \in [Builders -> Place] /\ run \in [Runs -> RunType] /\ bf \in BackfillType
      /\ Runs \subseteq Builders /\ bf.token \in Nat /\ bf.cursor \in Nat
      /\ \A b \in Runs : run[b].token \in Nat /\ run[b].cursor \in Nat
  BY Who DEF TypeOK, BackfillType, RunType
<1>1. ASSUME NEW c \in Runs, Begin(c)
      PROVE  TokensOK'
  <2>1. /\ bf'.token = bf.token + 1
        /\ run' = [run EXCEPT ![c] = [cursor |-> bf'.cursor, target |-> bf'.target, token |-> bf'.token]]
        /\ pc' = [pc EXCEPT ![c] = "chunk"]
    BY <1>0, <1>1 DEF Begin, BackfillType
  <2>2. /\ run'[c].token = bf'.token /\ run'[c].cursor = bf'.cursor /\ run'[c].target = bf'.target
        /\ \A b \in Runs \ {c} : run'[b] = run[b] /\ pc'[b] = pc[b]
    BY <1>0, <2>1
  <2>3. \A b \in Runs \ {c} : pc'[b] # "idle" => run'[b].token < bf'.token
    BY <1>0, <2>1, <2>2 DEF TokensOK
  <2>4. bf'.token \in Nat /\ \A b \in Runs : run'[b].token \in Nat
    BY <1>0, <2>1, <2>2
  <2>5. ASSUME NEW b \in Runs, pc'[b] # "idle"
        PROVE  /\ run'[b].token <= bf'.token
               /\ bf'.token = run'[b].token => b = c
               /\ \A d \in Runs \ {b} : pc'[d] # "idle" => run'[b].token # run'[d].token
    <3>1. CASE b = c
      BY <2>2, <2>3, <2>4, <3>1
    <3>2. CASE b # c
      <4>1. run'[b].token < bf'.token
        BY <2>3, <2>5, <3>2
      <4>2. \A d \in Runs \ {b, c} : pc'[d] # "idle" => run'[b].token # run'[d].token
        BY <2>2, <2>5, <3>2 DEF TokensOK
      <4> QED
        BY <2>2, <2>4, <3>2, <4>1, <4>2
    <3> QED
      BY <3>1, <3>2
  <2> QED
    BY <2>2, <2>5 DEF TokensOK, Owns
<1>2. ASSUME NEW c \in Runs, SaveCursor(c)
      PROVE  TokensOK'
  <2>1. CASE ~Owns(c)
    <3>1. run' = [run EXCEPT ![c] = NoRun] /\ pc' = [pc EXCEPT ![c] = "idle"] /\ bf' = bf
      BY <1>2, <2>1 DEF SaveCursor, StopRun
    <3>2. \A b \in Runs : pc'[b] # "idle" => b # c /\ pc[b] # "idle" /\ run'[b] = run[b]
      BY <1>0, <3>1
    <3> QED
      BY <3>1, <3>2 DEF TokensOK, Owns
  <2>2. CASE Owns(c)
    <3> DEFINE cursor == Largest(todo[c])
    <3>1. /\ bf' = [bf EXCEPT !.cursor = IF bf.cursor < cursor THEN cursor ELSE bf.cursor]
          /\ run' = [run EXCEPT ![c].cursor = cursor]
          /\ pc' = [pc EXCEPT ![c] = "chunk"]
          /\ pc[c] = "rebuild"
      BY <1>2, <2>2 DEF SaveCursor
    <3>2. run[c].cursor < cursor /\ cursor \in Nat
      <4>1. todo[c] # {} /\ \A t \in todo[c] : run[c].cursor < t
        BY <3>1 DEF TodoOK
      <4>2. todo[c] \in SUBSET (1..MaxTicket)
        BY <1>0 DEF TypeOK, Tickets
      <4> QED
        BY <4>1, <4>2, LargestIs, ReportAssumption
    <3> HIDE DEF cursor
    <3>3. run[c].cursor = bf.cursor /\ run[c].target = bf.target
      BY <1>0, <2>2, <3>1 DEF TokensOK
    <3>4. bf'.cursor = cursor /\ bf'.token = bf.token /\ bf'.target = bf.target /\ bf'.status = bf.status
      BY <1>0, <3>1, <3>2, <3>3 DEF BackfillType
    <3>5. /\ run'[c].cursor = cursor /\ run'[c].token = run[c].token /\ run'[c].target = run[c].target
          /\ \A b \in Runs \ {c} : run'[b] = run[b] /\ pc'[b] = pc[b]
      BY <1>0, <3>1 DEF RunType
    <3>6. ASSUME NEW b \in Runs, pc'[b] # "idle"
          PROVE  /\ pc[b] # "idle" /\ run'[b].token = run[b].token
                 /\ Owns(b)' => b = c
      <4>1. pc[b] # "idle" /\ run'[b].token = run[b].token
        BY <3>1, <3>5, <3>6
      <4>2. ASSUME Owns(b)', b # c PROVE FALSE
        <5>1. run[b].token = run[c].token
          BY <2>2, <3>4, <4>1, <4>2 DEF Owns
        <5> QED
          BY <3>1, <4>1, <4>2, <5>1 DEF TokensOK
      <4> QED
        BY <4>1, <4>2
    <3> QED
      BY <3>3, <3>4, <3>5, <3>6 DEF TokensOK
  <2> QED
    BY <2>1, <2>2
<1>3. CASE ~(\E c \in Runs : Begin(c) \/ SaveCursor(c))
  <2>1. bf'.token = bf.token
        /\ (bf'.status = "running" => bf' = bf)
    BY <1>0, <1>3, BackfillMoves DEF Restart, Finish, BackfillType
  <2>2. \A b \in Runs : pc'[b] # "idle" => pc[b] # "idle" /\ run'[b] = run[b]
    BY <1>3, Living
  <2> QED
    BY <2>1, <2>2 DEF TokensOK, Owns
<1> QED
  BY <1>1, <1>2, <1>3

\* A row that is not followed after a step was not followed before.
LEMMA Unfollowed ==
    ASSUME IInv, RowsOK, IdsOK, PlaceOK, TickCovers, [Next]_vars,
           NEW h \in Committed', ~Followed(h)'
    PROVE  h \in Committed /\ (wm # 0 => ~Followed(h)) /\ TicketOf[h] \in Tickets /\ TicketOf[h] \in Existing
<1> USE DEF writers, table, memory, bounds, ghosts
<1>0. TypeOK /\ hist \in [Ids -> Status]
  BY Basics DEF TypeOK
<1>1. h \in Committed
  <2>1. CASE hist' = hist
    BY <2>1, SameHistory
  <2>2. CASE hist' # hist
    <3>1. wm' = wm /\ gaps' = gaps /\ givenUp' = givenUp
      BY <2>2, WhoWrites DEF Insert, EndInsert
    <3>2. ~Ahead(h)
      BY <3>1 DEF Ahead, Followed
    <3>3. h \in Committed \/ h \in Open
      BY <1>0, <2>2, WhoWrites DEF Insert, EndInsert, Committed, Open
    <3> QED
      BY <3>2, <3>3 DEF IdsOK
  <2> QED
    BY <2>1, <2>2
<1>2. wm # 0 => ~Followed(h)
  BY <1>1, FollowedStays
<1> QED
  BY <1>1, <1>2, Basics DEF Existing

LEMMA RunCoversStep ==
    ASSUME IInv, RowsOK, IdsOK, PlaceOK, TickCovers, RunCovers, [Next]_vars
    PROVE  RunCovers'
<1> USE DEF writers, table, memory, bounds, ghosts
<1>1. SUFFICES ASSUME NEW b \in Runs, NEW h \in Committed', ~Followed(h)'
               PROVE  /\ pc'[b] = "write" => RunReads(b, h)'
                      /\ pc'[b] \in {"rebuild", "write"} => RunBuilds(b, h)'
                      /\ pc'[b] = "finish" => RunEnds(b, h)'
  BY DEF RunCovers, RunReads, RunBuilds, RunEnds
<1> DEFINE t == TicketOf[h]
<1>2. h \in Committed /\ (wm # 0 => ~Followed(h)) /\ t \in Tickets /\ t \in Existing
  BY <1>1, Unfollowed
<1>3. /\ TypeOK /\ pc \in [Builders -> Place] /\ b \in Builders /\ b # Tick
      /\ left \in [Builders -> SUBSET Tickets]
      /\ part \in [Builders -> SUBSET Tickets] /\ view \in [Builders -> [Tickets -> FactType]]
  BY Basics, Who DEF TypeOK
<1>4. pc[b] # "idle" => wm # 0
  BY <1>3 DEF PlaceOK
<1> HIDE DEF t
<1>5. ASSUME pc'[b] = "write", t \in part'[b]
      PROVE  h \in view'[b][t].rows
  <2>1. CASE StartRebuild(b)
    <3>1. /\ part' = [part EXCEPT ![b] = NextPart(b)]
          /\ view' = [view EXCEPT ![b] =
                         [x \in Tickets |-> IF x \in NextPart(b) THEN Current(x) ELSE NoFact]]
      BY <2>1 DEF StartRebuild
    <3>2. view'[b][t] = Current(t)
      BY <1>2, <1>3, <1>5, <3>1
    <3> QED
      BY <1>2, <3>2 DEF Current, t
  <2>2. CASE ~StartRebuild(b)
    <3>1. pc[b] = "write" /\ part'[b] = part[b] /\ view'[b] = view[b]
      BY <1>3, <1>5, <2>2, Writing
    <3> QED
      BY <1>2, <1>4, <1>5, <3>1 DEF RunCovers, RunReads, t
  <2> QED
    BY <2>1, <2>2
<1>6. ASSUME pc'[b] \in {"rebuild", "write"}, run'[b].cursor < t, NEW x \in todo'[b], t <= x
      PROVE  t \in left'[b]
  <2>1. CASE ReadChunk(b)
    <3> DEFINE ahead == {y \in Existing : run[b].cursor < y /\ y <= run[b].target}
    <3>1. /\ todo'[b] \subseteq ahead /\ left'[b] = todo'[b] /\ run' = run
          /\ \A y \in ahead : y <= x => y \in todo'[b]
      BY <1>3, <1>6, <2>1, ChunkIs, Who
    <3>2. x <= run[b].target /\ x \in Existing
      BY <1>6, <3>1
    <3>3. x \in Nat /\ t \in Nat /\ run[b].target \in Nat
      <4>1. Existing \subseteq Tickets /\ Tickets \subseteq Nat
        BY <1>3, Sets, Basics DEF Tickets
      <4>2. run \in [Runs -> RunType]
        BY <1>3 DEF TypeOK
      <4> QED
        BY <1>2, <3>2, <4>1, <4>2 DEF RunType
    <3>4. t \in ahead
      BY <1>2, <1>6, <3>1, <3>2, <3>3
    <3> QED
      BY <1>6, <3>1, <3>4
  <2>2. CASE ~ReadChunk(b)
    <3>1. /\ pc[b] \in {"rebuild", "write"} /\ todo'[b] = todo[b] /\ run'[b] = run[b]
          /\ \/ StartRebuild(b) \/ CommitRebuild(b)
             \/ UNCHANGED <<pc[b], left[b], part[b], view[b]>>
      BY <1>3, <1>6, <2>2, Rebuilding
    <3>2. t \in left[b]
      BY <1>2, <1>4, <1>6, <3>1 DEF RunCovers, RunBuilds, t
    <3>3. CASE CommitRebuild(b)
      <4>1. /\ pc[b] = "write" /\ left' = [left EXCEPT ![b] = @ \ part[b]]
            /\ facts' = [y \in Tickets |-> IF y \in part[b] THEN view[b][y] ELSE facts[y]]
        BY <3>3 DEF CommitRebuild
      <4>2. ASSUME t \in part[b] PROVE FALSE
        <5>1. h \in view[b][t].rows
          BY <1>2, <1>4, <4>1, <4>2 DEF RunCovers, RunReads, t
        <5>2. h \in facts'[t].rows
          BY <1>2, <4>1, <4>2, <5>1
        <5> QED
          BY <1>1, <5>2 DEF Followed, Kept, t
      <4> QED
        BY <1>3, <3>2, <4>1, <4>2
    <3>4. CASE StartRebuild(b) \/ UNCHANGED <<pc[b], left[b], part[b], view[b]>>
      BY <3>2, <3>4 DEF StartRebuild
    <3> QED
      BY <3>1, <3>3, <3>4
  <2> QED
    BY <2>1, <2>2
<1>7. ASSUME pc'[b] = "finish", run'[b].cursor < t, t <= run'[b].target
      PROVE  FALSE
  <2>1. CASE ReadChunk(b)
    <3>1. run' = run /\ pc'[b] = "finish" =>
             {y \in Existing : run[b].cursor < y /\ y <= run[b].target} = {}
      BY <1>3, <2>1, ChunkIs, Who
    <3>2. run' = run
      BY <1>3, <2>1, ChunkIs, Who
    <3> QED
      BY <1>2, <1>7, <3>1, <3>2
  <2>2. CASE UNCHANGED <<pc[b], todo[b], left[b], run[b], part[b], view[b]>>
    BY <1>2, <1>4, <1>7, <2>2 DEF RunCovers, RunEnds, t
  <2>3. ASSUME StartRebuild(b) \/ CommitRebuild(b) \/ FailRebuild(b) \/ Begin(b) \/ SaveCursor(b)
                  \/ Finish(b) \/ (Crash /\ b \notin Outside)
        PROVE  FALSE
    BY <1>3, <1>7, <2>3, Who DEF StartRebuild, CommitRebuild, FailRebuild, Begin, SaveCursor, Finish, StopRun, Crash
  <2> QED
    BY <1>3, <2>1, <2>2, <2>3, RunAlone
<1> QED
  BY <1>5, <1>6, <1>7 DEF RunReads, RunBuilds, RunEnds, t

----------------------------------------------------------------------------
(* Nothing is missed. *)

\* The first run starts before every ticket that has history.
LEMMA StartsBefore ==
    ASSUME TypeOK, NEW t \in Existing
    PROVE  BeforeFirst < t /\ t <= Largest(Existing)
<1>1. Existing \in SUBSET (1..MaxTicket) /\ Existing # {}
  <2>1. Existing \in SUBSET (1..MaxTicket)
    BY Sets
  <2> QED
    BY <2>1
<1>2. Smallest(Existing) \in Existing /\ Smallest(Existing) <= t /\ t <= Largest(Existing)
  BY <1>1, SmallestIs, LargestIs, ReportAssumption
<1>3. Smallest(Existing) \in Nat /\ t \in Nat
  <2>1. 1..MaxTicket \subseteq Nat
    BY ReportAssumption
  <2> QED
    BY <1>1, <1>2, <2>1
<1>4. BeforeFirst = Smallest(Existing) - 1
  BY <1>1 DEF BeforeFirst
<1> QED
  BY <1>2, <1>3, <1>4

\* What a backfill has not come to.
ToBackfill(t) == bf.status = "pending" \/ (bf.status = "running" /\ bf.cursor < t /\ t <= bf.target)

LEMMA MissedStep ==
    ASSUME HInv, [Next]_vars
    PROVE  NothingMissed'
<1> USE DEF writers, table, memory, bounds, ghosts
<1>1. SUFFICES ASSUME NEW h \in Committed', ~Followed(h)'
               PROVE  ToBackfill(TicketOf[h])'
  BY DEF NothingMissed, Accounted, Followed, Kept, Ahead, ToBackfill
<1> DEFINE t == TicketOf[h]
<1>2. h \in Committed /\ (wm # 0 => ~Followed(h)) /\ t \in Tickets /\ t \in Existing
  BY <1>1, Unfollowed DEF HInv
<1>3. /\ TypeOK /\ bf \in BackfillType /\ PlaceOK /\ NothingMissed /\ TokensOK /\ TodoOK /\ RunCovers
      /\ Runs \subseteq Builders /\ Tickets \subseteq Nat
  BY Basics, Who DEF HInv, TypeOK
<1>4. ToBackfill(t)
  <2>1. CASE wm = 0
    BY <1>3, <2>1 DEF PlaceOK, ToBackfill
  <2>2. CASE wm # 0
    <3>1. Accounted(h) /\ ~Followed(h)
      BY <1>2, <1>3, <2>2 DEF NothingMissed
    <3> QED
      BY <3>1 DEF Accounted, Followed, Kept, Ahead, ToBackfill
  <2> QED
    BY <2>1, <2>2
<1>5. ASSUME NEW c \in Runs, pc[c] # "idle"
      PROVE  ~Followed(h)
  BY <1>2, <1>3, <1>5 DEF PlaceOK
<1> HIDE DEF t
<1>6. CASE bf' = bf
  BY <1>4, <1>6 DEF ToBackfill, t
<1>7. CASE Restart
  <2>1. bf' = [bf EXCEPT !.status = "pending"]
    BY <1>7 DEF Restart
  <2> QED
    BY <1>3, <2>1 DEF ToBackfill, BackfillType
<1>8. ASSUME NEW c \in Runs, Begin(c)
      PROVE  ToBackfill(t)'
  <2>1. CASE bf.status = "running"
    <3>1. bf' = [bf EXCEPT !.token = bf.token + 1]
      BY <1>8, <2>1 DEF Begin
    <3> QED
      BY <1>3, <1>4, <2>1, <3>1 DEF ToBackfill, BackfillType
  <2>2. CASE bf.status # "running"
    <3>1. bf' = [status |-> "running", start |-> BeforeFirst, cursor |-> BeforeFirst,
                 target |-> Largest(Existing), token |-> bf.token + 1]
      BY <1>8, <2>2 DEF Begin
    <3>2. BeforeFirst < t /\ t <= Largest(Existing)
      BY <1>2, <1>3, StartsBefore
    <3> QED
      BY <3>1, <3>2 DEF ToBackfill
  <2> QED
    BY <2>1, <2>2
<1>9. ASSUME NEW c \in Runs, SaveCursor(c), bf' # bf
      PROVE  ToBackfill(t)'
  <2> DEFINE cursor == Largest(todo[c])
  <2>1. /\ Owns(c) /\ pc[c] = "rebuild" /\ left[c] = {}
        /\ bf' = [bf EXCEPT !.cursor = IF bf.cursor < cursor THEN cursor ELSE bf.cursor]
    BY <1>9 DEF SaveCursor
  <2>2. run[c].cursor = bf.cursor /\ bf.status = "running"
    BY <1>3, <2>1 DEF TokensOK, Owns
  <2>3. cursor \in todo[c] /\ cursor \in Nat
    <3>1. todo[c] # {}
      BY <1>3, <2>1 DEF TodoOK
    <3>2. todo[c] \in SUBSET (1..MaxTicket)
      BY <1>3 DEF TypeOK, Tickets
    <3> QED
      BY <3>1, <3>2, LargestIs, ReportAssumption
  <2> HIDE DEF cursor
  <2>4. bf.cursor < t /\ t <= bf.target
    BY <1>4, <2>2 DEF ToBackfill
  <2>5. ~ (t <= cursor)
    <3>1. ASSUME t <= cursor PROVE FALSE
      <4>1. run[c].cursor < t /\ \E x \in todo[c] : t <= x
        BY <2>2, <2>3, <2>4, <3>1
      <4>2. t \in left[c] \/ Followed(h)
        BY <1>2, <1>3, <2>1, <4>1 DEF RunCovers, RunBuilds, t
      <4> QED
        BY <1>5, <2>1, <4>2
    <3> QED
      BY <3>1
  <2>6. t \in Nat /\ bf.cursor \in Nat
    BY <1>2, <1>3 DEF BackfillType
  <2>7. bf'.cursor < t /\ bf'.target = bf.target /\ bf'.status = bf.status
    BY <1>3, <2>1, <2>3, <2>4, <2>5, <2>6 DEF BackfillType
  <2> QED
    BY <2>2, <2>4, <2>7 DEF ToBackfill
<1>10. ASSUME NEW c \in Runs, Finish(c), bf' # bf
       PROVE  FALSE
  <2>1. Owns(c) /\ pc[c] = "finish"
    BY <1>10 DEF Finish
  <2>2. run[c].cursor = bf.cursor /\ run[c].target = bf.target /\ bf.status = "running"
    BY <1>3, <2>1 DEF TokensOK, Owns
  <2>3. run[c].cursor < t /\ t <= run[c].target
    BY <1>4, <2>2 DEF ToBackfill
  <2> QED
    BY <1>2, <1>3, <1>5, <2>1, <2>3 DEF RunCovers, RunEnds, t
<1>11. ToBackfill(t)'
  BY <1>6, <1>7, <1>8, <1>9, <1>10, BackfillMoves DEF t
<1> QED
  BY <1>11 DEF t, ToBackfill

LEMMA HistoryInit ==
    ASSUME Before # {}, Init
    PROVE  HInv
<1> USE Who
<1>1. IInv
  BY InvInit
<1>2. /\ Committed = Before /\ Open = {} /\ \A b \in Builders : pc[b] = "idle"
      /\ wm = 0 /\ tick.stage = "history" /\ bf.status = "pending"
      /\ \A t \in Tickets : facts[t].rows = {}
  BY ReportAssumption DEF Init, Committed, Open, IdleTick, NoFact
<1>3. RowsOK /\ PlaceOK /\ TickCovers /\ TokensOK /\ TodoOK /\ RunCovers /\ NothingMissed
  BY <1>2 DEF RowsOK, PlaceOK, Following, Clearing, TickCovers, TokensOK, TodoOK, RunCovers, NothingMissed, Accounted
<1>4. \A h \in Ids : hist[h] = "free" <=> h \notin Before /\ ~ \E g \in Before : h < g
  BY DEF Init
<1>5. ASSUME NEW h \in Ids, hist[h] = "free"
      PROVE  0 < h /\ \A g \in Ids : h < g => hist[g] = "free"
  <2>1. Ids \subseteq Nat /\ 0 < h /\ Before \subseteq Ids
    BY ReportAssumption DEF Ids
  <2>2. ASSUME NEW g \in Ids, h < g, NEW k \in Before, g = k \/ g < k PROVE FALSE
    <3>1. h < k
      BY <2>1, <2>2
    <3> QED
      BY <1>4, <1>5, <3>1
  <2> QED
    BY <1>4, <2>1, <2>2
<1>6. IdsOK
  BY <1>2, <1>5, Who DEF IdsOK, Following
<1> QED
  BY <1>1, <1>3, <1>6 DEF HInv

LEMMA HistoryStep ==
    ASSUME HInv, [Next]_vars
    PROVE  HInv'
<1>1. /\ IInv /\ RowsOK /\ IdsOK /\ PlaceOK /\ TickCovers /\ TokensOK /\ TodoOK /\ RunCovers
      /\ TypeOK
  BY Basics DEF HInv
<1>2. IInv' /\ RowsOK' /\ IdsOK' /\ PlaceOK'
  BY <1>1, InvStep, RowsStep, IdsStep, PlaceStep
<1>3. TickCovers' /\ TokensOK' /\ TodoOK' /\ RunCovers'
  BY <1>1, TickCoversStep, TokensStep, TodoStep, RunCoversStep
<1>4. NothingMissed'
  BY MissedStep
<1> QED
  BY <1>2, <1>3, <1>4 DEF HInv

\* When some history exists before the report data is first built, a committed history row is in
\* the facts of its ticket, or the watermark, the gap list, a mark or the backfill cursor will
\* still bring it there, through failing rebuilds, crashes, restarts, runs that are taken over and
\* CLI runs beside the worker (_follow_history, _save_progress, clear_dirty, _begin, _save_cursor).
\* The exceptions are what Accounted names: ids given up (older than GAP_TTL_SECONDS, over MAX_GAPS,
\* or still open at the first watermark), a newer mark cleared with an older one, and facts put
\* back by a builder that does not share the worker's lock.
THEOREM NoRowMissed ==
    ASSUME Before # {}
    PROVE  Spec => []NothingMissed
<1>1. Init => HInv
  BY HistoryInit
<1>2. HInv /\ [Next]_vars => HInv'
  BY HistoryStep
<1>3. HInv => NothingMissed
  BY DEF HInv
<1> QED
  BY <1>1, <1>2, <1>3, PTL DEF Spec

----------------------------------------------------------------------------
(* What the lock of the worker process is for. *)

\* No open rebuild is about to put back older facts.
FreshOK ==
    /\ rewound = {}
    /\ \A b \in Builders : pc[b] = "write" => \A t \in part[b] : ~Rewinds(b, t)

\* With a common lock nobody writes between the read and the write of a rebuild but an erasure,
\* which leaves nothing that could be put back.
LEMMA FreshStep ==
    ASSUME Outside = {}, IInv, LockOK, RowsOK, FreshOK, [Next]_vars
    PROVE  FreshOK'
<1> USE DEF writers, table, memory, bounds, ghosts
<1>0. /\ TypeOK /\ facts \in [Tickets -> FactType] /\ content \in [Tickets -> Nat]
      /\ pc \in [Builders -> Place] /\ left \in [Builders -> SUBSET Tickets]
      /\ part \in [Builders -> SUBSET Tickets] /\ view \in [Builders -> [Tickets -> FactType]]
  BY DEF IInv, TypeOK
<1>1. rewound' = {}
  <2>1. CASE \E b \in Builders : CommitRebuild(b)
    BY <2>1 DEF CommitRebuild, FreshOK
  <2>2. CASE ~ \E b \in Builders : CommitRebuild(b)
    BY <2>2, Cases
    DEF Insert, EndInsert, Erase, CommitErasure, Age, LoadState, ReadHistory, MarkFailed, SaveProgress,
        TakeDirty, ClearDirty, BackoffPasses, StartRebuild, FailRebuild, Begin, ReadChunk, SaveCursor,
        Finish, Restart, Crash, vars, FreshOK
  <2> QED
    BY <2>1, <2>2
<1>2. ASSUME NEW b \in Builders, pc'[b] = "write", NEW t \in part'[b]
      PROVE  ~Rewinds(b, t)'
  <2>1. CASE StartRebuild(b)
    <3>1. /\ part' = [part EXCEPT ![b] = NextPart(b)] /\ facts' = facts
          /\ view' = [view EXCEPT ![b] = [x \in Tickets |-> IF x \in NextPart(b) THEN Current(x) ELSE NoFact]]
      BY <2>1 DEF StartRebuild
    <3>2. t \in NextPart(b) /\ t \in Tickets
      BY <1>0, <1>2, <3>1 DEF NextPart, FirstOf
    <3>3. view'[b][t] = Current(t)
      BY <1>0, <3>1, <3>2
    <3>4. facts[t].rows \subseteq Current(t).rows /\ facts[t].content <= content[t]
      BY <3>2 DEF RowsOK, ReadsOK, IInv
    <3>5. facts[t].content \in Nat /\ content[t] \in Nat /\ Current(t).content = content[t]
      BY <1>0, <3>2 DEF Current, FactType
    <3> QED
      BY <3>1, <3>3, <3>4, <3>5 DEF Rewinds
  <2>2. CASE ~StartRebuild(b)
    <3>1. pc[b] = "write" /\ part'[b] = part[b] /\ view'[b] = view[b]
      BY <1>0, <1>2, <2>2, Writing
    <3>2. t \in Tickets /\ ~Rewinds(b, t)
      BY <1>0, <1>2, <3>1 DEF FreshOK
    <3>3. CASE facts' = facts
      BY <3>1, <3>2, <3>3 DEF Rewinds
    <3>4. CASE \E e \in Tickets : CommitErasure(e)
      <4>1. facts'[t] = facts[t] \/ facts'[t] = NoFact
        BY <1>0, <3>2, <3>4 DEF CommitErasure
      <4>2. view[b][t].content \in Nat
        BY <1>0, <3>2 DEF FactType
      <4> QED
        BY <3>1, <3>2, <4>1, <4>2 DEF Rewinds, NoFact
    <3>5. ASSUME NEW c \in Builders, CommitRebuild(c) PROVE FALSE
      <4>1. pc[c] = "write" /\ pc' = [pc EXCEPT ![c] = "rebuild"]
        BY <3>5 DEF CommitRebuild
      <4>2. b = c
        BY <3>1, <4>1 DEF LockOK
      <4> QED
        BY <1>0, <1>2, <4>1, <4>2
    <3>6. facts' = facts \/ (\E e \in Tickets : CommitErasure(e)) \/ (\E c \in Builders : CommitRebuild(c))
      BY Cases
      DEF Insert, EndInsert, Erase, Age, LoadState, ReadHistory, MarkFailed, SaveProgress, TakeDirty,
          ClearDirty, BackoffPasses, StartRebuild, FailRebuild, EndTransaction, Begin, ReadChunk,
          SaveCursor, Finish, Restart, Crash, vars
    <3> QED
      BY <3>3, <3>4, <3>5, <3>6
  <2> QED
    BY <2>1, <2>2
<1> QED
  BY <1>1, <1>2 DEF FreshOK

\* As long as every builder runs in the worker process (fact_write_lock) no rebuild ever puts a
\* ticket back to older facts: the tick, the backfill job and a job reaped while it lived read and
\* write under one lock.  So the exception NoStaleFacts and NoRowMissed make for rewound tickets
\* is the price of the CLI alone.
THEOREM WorkerNeverRewinds ==
    ASSUME Outside = {}
    PROVE  Spec => [](rewound = {})
<1> DEFINE Inv == IInv /\ LockOK /\ RowsOK /\ FreshOK
<1>1. Init => Inv
  <2> SUFFICES ASSUME Init PROVE Inv
    OBVIOUS
  <2>1. IInv
    BY InvInit
  <2>2. /\ rewound = {} /\ lock = None /\ \A b \in Builders : pc[b] = "idle"
        /\ \A t \in Tickets : facts[t].rows = {}
    BY DEF Init, NoFact
  <2> QED
    BY <2>1, <2>2, Who DEF LockOK, RowsOK, FreshOK
<1>2. Inv /\ [Next]_vars => Inv'
  <2> SUFFICES ASSUME Inv, [Next]_vars PROVE Inv'
    OBVIOUS
  <2>1. IInv /\ TypeOK /\ LockOK /\ RowsOK /\ FreshOK
    BY DEF IInv
  <2> QED
    BY <2>1, InvStep, LockStep, RowsStep, FreshStep
<1>3. Inv => rewound = {}
  BY DEF FreshOK
<1> HIDE DEF Inv
<1> QED
  BY <1>1, <1>2, <1>3, PTL DEF Spec
=============================================================================
