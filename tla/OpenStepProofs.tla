--------------------------- MODULE OpenStepProofs ---------------------------
(***************************************************************************)
(* No open step of an approval request is decided by its votes already,    *)
(* and none waits for nobody.                                              *)
(*                                                                         *)
(* evaluate_step looks at a sequence of voters whose pending part has no   *)
(* fixed order.  Undecided says of the rows and votes themselves when its  *)
(* result is "pending"; OutcomeIs shows that the two agree.  Every         *)
(* operation then either leaves what Undecided looks at alone, replaces a  *)
(* pending row by one that counts the same, or evaluates the step again.   *)
(***************************************************************************)
EXTENDS ApprovalProofs

\* The pending rows that count in the rule, and the votes that approve.
Counted(s, rows) == {p \in PendingIn(rows, s) : CountsInRule(s, p)}
Agreed(cast) == {i \in DOMAIN cast : cast[i].vote = "approved"}

\* The votes leave the step open.
Undecided(s, rows, cast) ==
    LET left == Cardinality(Counted(s, rows))
        yes == Cardinality(Agreed(cast))
        needed == RequiredVotes(spec[s].rule, spec[s].quorum, Len(cast) + left)
    IN  /\ \A i \in DOMAIN cast : cast[i].row \notin decisive[s]
        /\ \/ cast = <<>> /\ Counted(s, rows) = {}
           \/ spec[s].rule = "any" /\ cast = <<>>
           \/ /\ spec[s].rule = "all" /\ Counted(s, rows) # {}
              /\ \A i \in DOMAIN cast : cast[i].vote = "approved"
           \/ /\ spec[s].rule \notin {"any", "all"}
              /\ yes < needed /\ needed <= yes + left

-----------------------------------------------------------------------------
(* Counting voters. *)

\* The pending voters are listed, each once.
LEMMA ListedOnce ==
    ASSUME NEW S, IsFiniteSet(S)
    PROVE  SetToSeq(S) \in Bijection(1..Cardinality(S), S)
<1> DEFINE n == Cardinality(S)
<1>1. n \in Nat /\ ExistsBijection(1..n, S)
  BY FS_CardinalityType
<1>2. \E f \in [1..n -> S] : IsInjective(f)
  BY <1>1 DEF ExistsBijection, Bijection, Injection
<1>3. SetToSeq(S) \in Injection(1..n, S)
  BY <1>2 DEF SetToSeq, Injection
<1>4. IsFiniteSet(1..n) /\ Cardinality(1..n) = n
  BY <1>1, FS_Interval
<1>5. SetToSeq(S) \in Surjection(1..n, S)
  BY <1>3, <1>4, FS_Injection
<1> QED
  BY <1>3, <1>5 DEF Bijection

\* Where the members of R stand in a sequence that has the first m elements of list behind n others.
Places(list, n, m, R) == {i \in (n + 1)..(n + m) : list[i - n] \in R}

\* Their places in the voters count like they do.
LEMMA PlacesCount ==
    ASSUME NEW S, IsFiniteSet(S), NEW R \in SUBSET S, NEW n \in Nat,
           NEW list \in Bijection(1..Cardinality(S), S)
    PROVE  /\ IsFiniteSet(Places(list, n, Cardinality(S), R))
           /\ Cardinality(Places(list, n, Cardinality(S), R)) = Cardinality(R)
<1> DEFINE m == Cardinality(S)
           places == {i \in (n + 1)..(n + m) : list[i - n] \in R}
           g == [i \in places |-> list[i - n]]
<1>1. m \in Nat
  BY FS_CardinalityType
<1>2. /\ list \in [1..m -> S]
      /\ \A i, j \in 1..m : list[i] = list[j] => i = j
      /\ \A x \in S : \E i \in 1..m : list[i] = x
  BY DEF Bijection, Injection, Surjection, IsInjective
<1>3. \A i \in places : i \in Int /\ i - n \in 1..m /\ list[i - n] \in R
  BY <1>1
<1>4. g \in Injection(places, R)
  <2>1. g \in [places -> R]
    BY <1>3
  <2>2. ASSUME NEW i \in places, NEW j \in places, g[i] = g[j]
        PROVE  i = j
    <3>1. i - n = j - n
      BY <1>2, <1>3, <2>2
    <3> QED
      BY <1>3, <3>1
  <2> QED
    BY <2>1, <2>2 DEF Injection, IsInjective
<1>5. g \in Surjection(places, R)
  <2>1. ASSUME NEW x \in R
        PROVE  \E i \in places : g[i] = x
    <3>1. PICK k \in 1..m : list[k] = x
      BY <1>2
    <3>2. k + n \in (n + 1)..(n + m) /\ (k + n) - n = k
      BY <1>1
    <3>3. k + n \in places
      BY <3>1, <3>2
    <3> QED
      BY <3>1, <3>2, <3>3
  <2> QED
    BY <1>4, <2>1 DEF Injection, Surjection
<1>6. IsFiniteSet(places)
  <2>1. IsFiniteSet((n + 1)..(n + m))
    BY <1>1, FS_Interval
  <2> QED
    BY <2>1, FS_Subset
<1>7. ExistsBijection(places, R)
  BY <1>4, <1>5 DEF ExistsBijection, Bijection
<1> QED
  BY <1>6, <1>7, FS_Bijection DEF Places

\* evaluate_step says pending of the voters.
Waits(rule, quorum, voters) ==
    LET regular == {i \in DOMAIN voters : voters[i].regular}
        With(st) == {i \in regular : voters[i].status = st}
        needed == RequiredVotes(rule, quorum, Cardinality(regular))
    IN  /\ \A i \in DOMAIN voters : voters[i].decisive => voters[i].status = "pending"
        /\ \/ regular = {}
           \/ rule = "any" /\ With("approved") \cup With("rejected") = {}
           \/ rule = "all" /\ With("rejected") = {} /\ With("pending") # {}
           \/ /\ rule \notin {"any", "all"}
              /\ ~ (Cardinality(With("approved")) >= needed)
              /\ ~ (Cardinality(With("approved")) + Cardinality(With("pending")) < needed)

LEMMA WaitsIs ==
    ASSUME NEW rule, NEW quorum, NEW voters, DOMAIN voters \subseteq Nat,
           \A i \in DOMAIN voters : voters[i].status \in {"pending"} \cup Vote
    PROVE  EvaluateStep(rule, quorum, voters) = "pending" <=> Waits(rule, quorum, voters)
<1> DEFINE alone == {i \in DOMAIN voters : voters[i].decisive /\ voters[i].status # "pending"}
           regular == {i \in DOMAIN voters : voters[i].regular}
           With(st) == {i \in regular : voters[i].status = st}
           cast == With("approved") \cup With("rejected")
           needed == RequiredVotes(rule, quorum, Cardinality(regular))
           yes == Cardinality(With("approved"))
           left == Cardinality(With("pending"))
<1>1. alone # {} => voters[Min(alone)].status \in Vote
  BY MinIn
<1>2. cast # {} => voters[Min(cast)].status \in Vote
  BY MinIn DEF Vote
<1>3. RuleOutcome(rule, quorum, voters) = "pending"
        <=> \/ regular = {}
            \/ rule = "any" /\ cast = {}
            \/ rule = "all" /\ With("rejected") = {} /\ With("pending") # {}
            \/ rule \notin {"any", "all"} /\ ~ (yes >= needed) /\ ~ (yes + left < needed)
  <2>1. CASE regular = {}
    BY <2>1 DEF RuleOutcome
  <2>2. CASE regular # {} /\ rule = "any"
    BY <2>2, <1>2 DEF RuleOutcome, Vote
  <2>3. CASE regular # {} /\ rule = "all"
    BY <2>3 DEF RuleOutcome
  <2>4. CASE regular # {} /\ rule # "any" /\ rule # "all"
    <3>1. RuleOutcome(rule, quorum, voters) =
             IF yes >= needed THEN "approved" ELSE IF yes + left < needed THEN "rejected" ELSE "pending"
      BY <2>4 DEF RuleOutcome
    <3> HIDE DEF yes, left, needed, regular, cast
    <3> QED
      BY <2>4, <3>1
  <2> QED
    BY <2>1, <2>2, <2>3, <2>4
<1>4. EvaluateStep(rule, quorum, voters)
        = IF alone # {} THEN voters[Min(alone)].status ELSE RuleOutcome(rule, quorum, voters)
  BY DEF EvaluateStep
<1>5. EvaluateStep(rule, quorum, voters) = "pending"
        <=> alone = {} /\ RuleOutcome(rule, quorum, voters) = "pending"
  BY <1>1, <1>4 DEF Vote
<1>6. alone = {} <=> \A i \in DOMAIN voters : voters[i].decisive => voters[i].status = "pending"
  OBVIOUS
<1> HIDE DEF alone
<1> QED
  BY <1>3, <1>5, <1>6 DEF Waits

\* The voters of a step: those who voted, in order, then the pending ones.
LEMMA VotersAre ==
    ASSUME IsFiniteSet(Person), NEW s \in Step, NEW rows, NEW cast \in Seq(Ballot)
    PROVE  /\ Len(cast) \in Nat /\ DOMAIN cast = 1..Len(cast)
           /\ IsFiniteSet(PendingIn(rows, s)) /\ Cardinality(PendingIn(rows, s)) \in Nat
           /\ SetToSeq(PendingIn(rows, s)) \in Bijection(1..Cardinality(PendingIn(rows, s)), PendingIn(rows, s))
           /\ DOMAIN StepVoters(s, rows, cast) = 1..(Len(cast) + Cardinality(PendingIn(rows, s)))
           /\ \A i \in 1..Len(cast) :
                 StepVoters(s, rows, cast)[i] = AsVoter(s, cast[i].row, rows[s][cast[i].row])
           /\ \A i \in (Len(cast) + 1)..(Len(cast) + Cardinality(PendingIn(rows, s))) :
                 StepVoters(s, rows, cast)[i] = AsVoter(s, SetToSeq(PendingIn(rows, s))[i - Len(cast)], "pending")
<1> DEFINE n == Len(cast)
           list == SetToSeq(PendingIn(rows, s))
           m == Cardinality(PendingIn(rows, s))
           voters == StepVoters(s, rows, cast)
           first == [i \in DOMAIN cast |-> AsVoter(s, cast[i].row, rows[s][cast[i].row])]
           last == [i \in DOMAIN list |-> AsVoter(s, list[i], "pending")]
           states == {first[i] : i \in DOMAIN cast} \cup {last[i] : i \in DOMAIN list}
<1>1. IsFiniteSet(PendingIn(rows, s))
  <2>1. PendingIn(rows, s) \in SUBSET Person
    BY DEF PendingIn
  <2> QED
    BY <2>1, FS_Subset
<1>2. m \in Nat /\ list \in Bijection(1..m, PendingIn(rows, s))
  BY <1>1, ListedOnce, FS_CardinalityType
<1>3. n \in Nat /\ DOMAIN cast = 1..n /\ DOMAIN list = 1..m
  BY <1>2 DEF Bijection, Injection
<1>4. first \in Seq(states) /\ Len(first) = n /\ last \in Seq(states) /\ Len(last) = m
  BY <1>2, <1>3
<1>5. /\ \A i \in 1..n : first[i] = AsVoter(s, cast[i].row, rows[s][cast[i].row])
      /\ \A i \in 1..m : last[i] = AsVoter(s, list[i], "pending")
  BY <1>3
<1>6. voters = first \o last
  BY DEF StepVoters
<1> HIDE DEF first, last, states, n, m, list, voters
<1>7. DOMAIN voters = 1..(n + m) /\ \A i \in 1..n : voters[i] = first[i]
  <2>0. first \o last \in Seq(states) /\ Len(first \o last) = Len(first) + Len(last)
    BY <1>4
  <2>1. voters \in Seq(states) /\ Len(voters) = n + m
    BY <1>4, <1>6, <2>0
  <2>2. DOMAIN voters = 1..(n + m)
    BY <2>1
  <2>3. \A i \in 1..Len(first) : (first \o last)[i] = first[i]
    BY <1>4
  <2> QED
    BY <1>4, <1>6, <2>2, <2>3
<1>8. ASSUME NEW i \in (n + 1)..(n + m)
      PROVE  voters[i] = AsVoter(s, list[i - n], "pending")
  <2>1. i - n \in 1..m /\ voters[i] = last[i - n]
    BY <1>2, <1>3, <1>4, <1>6
  <2> QED
    BY <2>1, <1>5
<1> QED
  BY <1>1, <1>2, <1>3, <1>5, <1>7, <1>8 DEF n, m, list, voters

\* What evaluate_step sees of one row.
LEMMA VoterIs ==
    ASSUME NEW s \in Step, NEW p, NEW st
    PROVE  /\ AsVoter(s, p, st).status = st
           /\ AsVoter(s, p, st).decisive <=> p \in decisive[s]
           /\ AsVoter(s, p, st).regular <=> CountsInRule(s, p)
<1> DEFINE d == p \in decisive[s]
           c == CountsInRule(s, p)
<1>1. AsVoter(s, p, st) = [status |-> st, decisive |-> d, regular |-> c]
  BY DEF AsVoter
<1>2. d \in BOOLEAN /\ c \in BOOLEAN
  BY DEF CountsInRule
<1> HIDE DEF d, c
<1>3. AsVoter(s, p, st).status = st /\ AsVoter(s, p, st).decisive = d /\ AsVoter(s, p, st).regular = c
  BY <1>1
<1> QED
  BY <1>2, <1>3 DEF d, c

\* The rule asks for a number of votes, at least one of at least one voter.
LEMMA RequiredType ==
    ASSUME spec \in [Step -> StepSpec], NEW s \in Step, NEW n \in Nat
    PROVE  /\ RequiredVotes(spec[s].rule, spec[s].quorum, n) \in Nat
           /\ n > 0 => RequiredVotes(spec[s].rule, spec[s].quorum, n) > 0
<1>1. spec[s].rule \in Rules /\ spec[s].quorum \in Nat \ {0}
  BY DEF StepSpec
<1> QED
  BY <1>1 DEF RequiredVotes, Rules

\* Whether a step is undecided does not depend on the order of its pending rows.
LEMMA OutcomeIs ==
    ASSUME IsFiniteSet(Person), spec \in [Step -> StepSpec], NEW s \in Step, NEW rows, NEW cast \in Seq(Ballot),
           \A i \in DOMAIN cast : rows[s][cast[i].row] = cast[i].vote
    PROVE  Outcome(s, rows, cast) = "pending" <=> Undecided(s, rows, cast)
<1> DEFINE n == Len(cast)
           P == PendingIn(rows, s)
           list == SetToSeq(P)
           m == Cardinality(P)
           voters == StepVoters(s, rows, cast)
           C == Counted(s, rows)
           k == Cardinality(C)
           rule == spec[s].rule
           quorum == spec[s].quorum
           regular == {i \in DOMAIN voters : voters[i].regular}
           With(st) == {i \in regular : voters[i].status = st}
<1>1. /\ n \in Nat /\ m \in Nat /\ DOMAIN cast = 1..n /\ IsFiniteSet(P) /\ list \in Bijection(1..m, P)
      /\ DOMAIN voters = 1..(n + m)
      /\ \A i \in 1..n : voters[i] = AsVoter(s, cast[i].row, rows[s][cast[i].row])
      /\ \A i \in (n + 1)..(n + m) : voters[i] = AsVoter(s, list[i - n], "pending")
  BY VotersAre
<1>2. C \in SUBSET P
  BY DEF Counted
<1>3. /\ \A i \in 1..n : /\ voters[i].status = cast[i].vote /\ cast[i].vote \in Vote
                         /\ voters[i].decisive <=> cast[i].row \in decisive[s]
                         /\ cast[i].row \notin decisive[s] => voters[i].regular
  <2>1. \A i \in 1..n : cast[i] \in Ballot
    BY <1>1
  <2> QED
    BY <1>1, <2>1, VoterIs DEF CountsInRule, Ballot
<1>4. ASSUME NEW i \in (n + 1)..(n + m)
      PROVE  voters[i].status = "pending" /\ (voters[i].regular <=> list[i - n] \in C)
  <2>1. i - n \in 1..m
    BY <1>1
  <2>2. list[i - n] \in P
    BY <1>1, <2>1 DEF Bijection, Injection
  <2> QED
    BY <1>1, <2>2, VoterIs DEF Counted
<1>5. /\ 1..(n + m) = (1..n) \cup ((n + 1)..(n + m)) /\ (1..n) \cap ((n + 1)..(n + m)) = {}
      /\ 1..(n + m) \subseteq Nat
  BY <1>1
<1> DEFINE places == Places(list, n, m, C)
<1>6. IsFiniteSet(places) /\ Cardinality(places) = k /\ k \in Nat
  <2>1. IsFiniteSet(places) /\ Cardinality(places) = k
    <3> HIDE DEF C, P, list, n
    <3> QED
      BY <1>1, <1>2, PlacesCount
  <2> QED
    BY <2>1, FS_CardinalityType
<1>7. C = {} <=> places = {}
  BY <1>1, <1>2, <1>6, FS_EmptySet, FS_Subset
<1> HIDE DEF voters, list, C, P, m, n, k, rule, quorum, places
<1>8. Outcome(s, rows, cast) = "pending" <=> Waits(rule, quorum, voters)
  <2>1. DOMAIN voters \subseteq Nat /\ \A i \in DOMAIN voters : voters[i].status \in {"pending"} \cup Vote
    BY <1>1, <1>3, <1>4, <1>5
  <2>2. Outcome(s, rows, cast) = EvaluateStep(rule, quorum, voters)
    BY DEF Outcome, rule, quorum, voters
  <2> QED
    BY <2>1, <2>2, WaitsIs
<1>9. (\A i \in DOMAIN voters : voters[i].decisive => voters[i].status = "pending")
         <=> \A i \in 1..n : cast[i].row \notin decisive[s]
  <2>1. \A i \in 1..n : i \in DOMAIN voters
    BY <1>1, <1>5
  <2>2. \A i \in DOMAIN voters : i \notin 1..n => voters[i].status = "pending"
    BY <1>1, <1>4, <1>5
  <2> QED
    BY <1>3, <2>1, <2>2 DEF Vote
<1>10. CASE \E i \in 1..n : cast[i].row \in decisive[s]
  BY <1>1, <1>8, <1>9, <1>10 DEF Waits, Undecided
<1>11. CASE \A i \in 1..n : cast[i].row \notin decisive[s]
  <2>1. regular = (1..n) \cup places
    BY <1>1, <1>3, <1>4, <1>5, <1>11 DEF places, Places
  <2>2. /\ With("approved") = Agreed(cast)
        /\ With("rejected") = {i \in 1..n : cast[i].vote = "rejected"}
        /\ With("pending") = places
    <3>1. \A i \in places : voters[i].status = "pending"
      BY <1>4 DEF places, Places
    <3> QED
      BY <1>1, <1>3, <2>1, <3>1 DEF Agreed, Vote
  <2>3. IsFiniteSet(regular) /\ Cardinality(regular) = n + k
    <3>1. IsFiniteSet(1..n) /\ Cardinality(1..n) = n
      BY <1>1, FS_Interval
    <3>2. (1..n) \cap places = {}
      BY <1>5 DEF places, Places
    <3>3. Cardinality((1..n) \cap places) = 0
      BY <3>2, FS_EmptySet
    <3>4. /\ IsFiniteSet((1..n) \cup places)
          /\ Cardinality((1..n) \cup places)
                = Cardinality(1..n) + Cardinality(places) - Cardinality((1..n) \cap places)
      BY <1>6, <3>1, FS_Union
    <3>5. n + k - 0 = n + k
      BY <1>1, <1>6
    <3> HIDE DEF regular
    <3> QED
      BY <1>6, <2>1, <3>1, <3>3, <3>4, <3>5
  <2>4. regular = {} <=> n = 0 /\ C = {}
    <3>1. 1..n = {} <=> n = 0
      BY <1>1
    <3> QED
      BY <1>7, <2>1, <3>1
  <2>5. n = 0 <=> cast = <<>>
    BY DEF n
  <2>6. With("approved") \cup With("rejected") = {} <=> n = 0
    <3>1. With("approved") \cup With("rejected") = 1..n
      BY <1>1, <1>3, <2>2 DEF Agreed, Vote
    <3> QED
      BY <1>1, <3>1
  <2>7. With("rejected") = {} <=> \A i \in DOMAIN cast : cast[i].vote = "approved"
    BY <1>1, <1>3, <2>2 DEF Vote
  <2>8. Cardinality(Agreed(cast)) \in Nat
    <3>1. Agreed(cast) \in SUBSET (1..n) /\ IsFiniteSet(1..n)
      BY <1>1, FS_Interval DEF Agreed
    <3> QED
      BY <3>1, FS_Subset, FS_CardinalityType
  <2> DEFINE yes == Cardinality(Agreed(cast))
             needed == RequiredVotes(rule, quorum, n + k)
  <2>9. Waits(rule, quorum, voters)
          <=> \/ cast = <<>> /\ C = {}
              \/ rule = "any" /\ cast = <<>>
              \/ rule = "all" /\ (\A i \in DOMAIN cast : cast[i].vote = "approved") /\ C # {}
              \/ rule \notin {"any", "all"} /\ ~ (yes >= needed) /\ ~ (yes + k < needed)
    <3>1. (\A i \in DOMAIN voters : voters[i].decisive => voters[i].status = "pending")
      BY <1>9, <1>11
    <3>2. Cardinality(With("approved")) = yes /\ Cardinality(With("pending")) = k
      BY <1>6, <2>2
    <3>3. RequiredVotes(rule, quorum, Cardinality(regular)) = needed
      BY <2>3
    <3>4. With("pending") # {} <=> C # {}
      BY <1>7, <2>2
    <3> HIDE DEF yes, needed
    <3>5. Waits(rule, quorum, voters)
          <=> \/ regular = {}
              \/ rule = "any" /\ With("approved") \cup With("rejected") = {}
              \/ rule = "all" /\ With("rejected") = {} /\ With("pending") # {}
              \/ rule \notin {"any", "all"} /\ ~ (yes >= needed) /\ ~ (yes + k < needed)
      BY <3>1, <3>2, <3>3 DEF Waits
    <3> HIDE DEF regular, With
    <3> QED
      BY <2>4, <2>5, <2>6, <2>7, <3>4, <3>5
  <2>10. Undecided(s, rows, cast)
          <=> \/ cast = <<>> /\ C = {}
              \/ rule = "any" /\ cast = <<>>
              \/ rule = "all" /\ C # {} /\ (\A i \in DOMAIN cast : cast[i].vote = "approved")
              \/ rule \notin {"any", "all"} /\ yes < needed /\ needed <= yes + k
    BY <1>1, <1>11 DEF Undecided, C, k, rule, quorum, n
  <2>11. rule \notin {"any", "all"} =>
           (~ (yes >= needed) /\ ~ (yes + k < needed) <=> yes < needed /\ needed <= yes + k)
    <3>1. n + k \in Nat
      BY <1>1, <1>6
    <3>2. needed \in Nat
      BY <3>1, RequiredType DEF rule, quorum
    <3>3. yes \in Nat /\ k \in Nat
      BY <1>6, <2>8
    <3> HIDE DEF yes, needed
    <3> QED
      BY <3>2, <3>3
  <2> HIDE DEF yes, needed
  <2> QED
    BY <1>8, <2>9, <2>10, <2>11
<1> QED
  BY <1>10, <1>11

-----------------------------------------------------------------------------
(* What opening and closing steps leave open. *)

\* Undecided looks at the pending rows only.
LEMMA UndecidedOf ==
    ASSUME NEW s, NEW rows, NEW other, NEW cast, PendingIn(rows, s) = PendingIn(other, s)
    PROVE  Undecided(s, rows, cast) <=> Undecided(s, other, cast)
BY DEF Undecided, Counted

\* A step that its votes leave open still waits for somebody.
LEMMA SomebodyIsAsked ==
    ASSUME IsFiniteSet(Person), spec \in [Step -> StepSpec], NEW s \in Step, NEW rows,
           NEW cast \in Seq(Ballot), cast # <<>>, Undecided(s, rows, cast)
    PROVE  PendingIn(rows, s) # {}
<1> DEFINE k == Cardinality(Counted(s, rows))
           yes == Cardinality(Agreed(cast))
           needed == RequiredVotes(spec[s].rule, spec[s].quorum, Len(cast) + k)
<1>1. IsFiniteSet(Counted(s, rows))
  <2>1. Counted(s, rows) \in SUBSET Person
    BY DEF Counted, PendingIn
  <2> QED
    BY <2>1, FS_Subset
<1>2. k \in Nat /\ (k = 0 <=> Counted(s, rows) = {})
  BY <1>1, FS_CardinalityType, FS_EmptySet
<1>3. yes \in Nat
  <2>1. DOMAIN cast = 1..Len(cast) /\ Len(cast) \in Nat
    OBVIOUS
  <2>2. Agreed(cast) \in SUBSET (1..Len(cast)) /\ IsFiniteSet(1..Len(cast))
    BY <2>1, FS_Interval DEF Agreed
  <2> QED
    BY <2>2, FS_Subset, FS_CardinalityType
<1>4. needed \in Nat
  <2>1. Len(cast) + k \in Nat
    BY <1>2
  <2> QED
    BY <2>1, RequiredType
<1>5. \/ Counted(s, rows) # {}
      \/ yes < needed /\ needed <= yes + k
  BY DEF Undecided
<1> HIDE DEF k, yes, needed
<1>6. Counted(s, rows) # {}
  BY <1>2, <1>3, <1>4, <1>5
<1> QED
  BY <1>6 DEF Counted

\* A step that was opened for enough people is undecided.
LEMMA FreshIsUndecided ==
    ASSUME IsFiniteSet(Person), spec \in [Step -> StepSpec], NEW s \in Step, NEW rows,
           NEW F \in SUBSET Person, PendingIn(rows, s) = F, F \cap decisive[s] = {},
           Reachable(spec[s].rule, spec[s].quorum, Cardinality(F))
    PROVE  PendingIn(rows, s) # {} /\ Undecided(s, rows, <<>>)
<1> DEFINE k == Cardinality(F)
           needed == RequiredVotes(spec[s].rule, spec[s].quorum, k)
<1>1. IsFiniteSet(F) /\ k \in Nat /\ (k = 0 <=> F = {})
  <2>1. IsFiniteSet(F)
    BY FS_Subset
  <2> QED
    BY <2>1, FS_CardinalityType, FS_EmptySet
<1>2. k > 0 /\ needed <= k
  BY DEF Reachable
<1>3. Counted(s, rows) = F
  BY DEF Counted, CountsInRule
<1>4. needed \in Nat /\ needed > 0
  BY <1>1, <1>2, RequiredType
<1>5. Agreed(<<>>) = {} /\ Cardinality(Agreed(<<>>)) = 0
  BY FS_EmptySet DEF Agreed
<1>6. Len(<<>>) + k = k /\ 0 + k = k
  BY <1>1
<1>7. spec[s].rule \in Rules
  BY DEF StepSpec
<1>8. F # {}
  BY <1>1, <1>2
<1>9. spec[s].rule \notin {"any", "all"} =>
         /\ Cardinality(Agreed(<<>>)) < RequiredVotes(spec[s].rule, spec[s].quorum, Len(<<>>) + k)
         /\ RequiredVotes(spec[s].rule, spec[s].quorum, Len(<<>>) + k) <= Cardinality(Agreed(<<>>)) + k
  BY <1>2, <1>4, <1>5, <1>6
<1> QED
  BY <1>3, <1>8, <1>9 DEF Undecided

\* A step that is open after activate_next_stage was open before or was opened for enough people,
\* and no step was rejected.
LEMMA AdvanceLeaves ==
    ASSUME spec \in [Step -> StepSpec], NEW steps \in [Step -> Running], NEW rows \in Rows, NEW links, NEW found,
           Advance(steps, rows, links, found), NEW s \in Step, stepSt'[s] = "active"
    PROVE  /\ \A t \in Step : steps[t] # "rejected"
           /\ \/ steps[s] = "active" /\ \A p \in Person : row'[s][p] = rows[s][p]
              \/ /\ steps[s] = "waiting"
                 /\ Reachable(spec[s].rule, spec[s].quorum, Cardinality(found[s]))
                 /\ \A p \in Person : row'[s][p] = IF p \in found[s] THEN "pending" ELSE rows[s][p]
<1> DEFINE after == AfterActivation(steps, found)
           added == [t \in Step |-> [p \in Person |->
                        IF steps[t] = "waiting" /\ after[t] = "active" /\ p \in found[t]
                        THEN "pending" ELSE rows[t][p]]]
           result == RequestResult({after[t] : t \in Step})
<1>1. \/ /\ result = "pending"
         /\ stepSt' = after /\ row' = added
      \/ stepSt' = [t \in Step |-> IF after[t] \in Open THEN "cancelled" ELSE after[t]]
  BY DEF Advance, Finalize
<1>2. result = "pending" /\ stepSt' = after /\ row' = added
  <2>1. CASE stepSt' = [t \in Step |-> IF after[t] \in Open THEN "cancelled" ELSE after[t]]
    <3>1. stepSt'[s] = IF after[s] \in Open THEN "cancelled" ELSE after[s]
      BY <2>1
    <3> HIDE DEF after
    <3> QED
      BY <3>1 DEF Open
  <2> HIDE DEF after, added, result
  <2> QED
    BY <1>1, <2>1
<1>3. \A t \in Step : after[t] # "rejected"
  BY <1>2 DEF RequestResult
<1>4. \A t \in Step : \/ after[t] = steps[t]
                      \/ steps[t] = "waiting" /\ after[t] = AtActivation(t, found[t])
  BY DEF AfterActivation, Reached
<1>5. \A p \in Person : row'[s][p] =
         IF steps[s] = "waiting" /\ after[s] = "active" /\ p \in found[s] THEN "pending" ELSE rows[s][p]
  BY <1>2
<1>6. after[s] = "active"
  BY <1>2
<1>7. spec[s].onNoApprover \in Vote
  BY DEF StepSpec
<1> HIDE DEF after, added, result
<1>8. \A t \in Step : steps[t] # "rejected"
  BY <1>3, <1>4
<1>9. CASE steps[s] = "waiting"
  <2>1. AtActivation(s, found[s]) = "active"
    BY <1>4, <1>6, <1>9
  <2>2. Reachable(spec[s].rule, spec[s].quorum, Cardinality(found[s]))
    BY <1>7, <2>1 DEF AtActivation, Vote
  <2> QED
    BY <1>5, <1>6, <1>8, <1>9, <2>2
<1>10. CASE steps[s] # "waiting"
  <2>1. steps[s] = "active"
    BY <1>4, <1>6, <1>10
  <2> QED
    BY <1>5, <1>8, <2>1
<1> QED
  BY <1>9, <1>10

\* The same after closing the steps that have an outcome.
LEMMA CloseStepsLeaves ==
    ASSUME spec \in [Step -> StepSpec], stepSt \in [Step -> {"none"} \cup Open \cup Closed],
           status = "pending", StatusFits,
           NEW outcome, NEW rows \in Rows, NEW links,
           \A t \in Step : outcome[t] \in {"pending"} \cup Vote,
           \A t \in Step : outcome[t] # "pending" => stepSt[t] = "active",
           CloseSteps(outcome, rows, links), NEW s \in Step, stepSt'[s] = "active"
    PROVE  /\ \A t \in Step : outcome[t] # "rejected"
           /\ \/ /\ stepSt[s] = "active" /\ outcome[s] = "pending"
                 /\ \A p \in Person : row'[s][p] = rows[s][p]
              \/ /\ stepSt[s] = "waiting"
                 /\ \E F \in SUBSET Person :
                       /\ Reachable(spec[s].rule, spec[s].quorum, Cardinality(F))
                       /\ \A p \in Person : row'[s][p] = IF p \in F THEN "pending" ELSE rows[s][p]
<1> DEFINE over == {t \in Step : outcome[t] # "pending"}
           base == [t \in Step |-> IF t \in over THEN outcome[t] ELSE stepSt[t]]
           left == [t \in Step |-> [p \in Person |->
                       IF t \in over /\ rows[t][p] = "pending" THEN "not_needed" ELSE rows[t][p]]]
           kept == [t \in Step |-> IF t \in over THEN links[t] \ PendingIn(rows, t) ELSE links[t]]
<1>1. PICK found \in Resolutions(WithStatus("waiting")) : Advance(base, left, kept, found)
  BY DEF CloseSteps
<1>2. \A t \in Step : stepSt[t] \in {"waiting", "active", "approved"}
  BY DEF StatusFits, Open
<1>3. base \in [Step -> Running]
  BY <1>2 DEF Running, Open, Vote
<1>4. \A t \in Step : base[t] = IF outcome[t] # "pending" THEN outcome[t] ELSE stepSt[t]
  OBVIOUS
<1>5. left \in Rows
  BY DEF Rows, RowStatus
<1>6. \A p \in Person : outcome[s] = "pending" => left[s][p] = rows[s][p]
  OBVIOUS
<1> HIDE DEF over, base, left, kept
<1>7. /\ \A t \in Step : base[t] # "rejected"
      /\ \/ base[s] = "active" /\ \A p \in Person : row'[s][p] = left[s][p]
         \/ /\ base[s] = "waiting"
            /\ Reachable(spec[s].rule, spec[s].quorum, Cardinality(found[s]))
            /\ \A p \in Person : row'[s][p] = IF p \in found[s] THEN "pending" ELSE left[s][p]
  BY <1>1, <1>3, <1>5, AdvanceLeaves
<1>8. \A t \in Step : outcome[t] # "rejected"
  BY <1>4, <1>7
<1>9. outcome[s] = "pending" /\ base[s] = stepSt[s]
  BY <1>4, <1>7 DEF Vote
<1>10. CASE base[s] = "active"
  <2>1. \A p \in Person : row'[s][p] = left[s][p]
    BY <1>7, <1>10
  <2> QED
    BY <1>6, <1>8, <1>9, <1>10, <2>1
<1>11. CASE base[s] = "waiting"
  <2>1. s \in WithStatus("waiting")
    BY <1>9, <1>11 DEF WithStatus
  <2>2. found[s] \in SUBSET Person
    <3>1. found[s] \subseteq spec[s].approvers
      BY <2>1 DEF Resolutions
    <3>2. spec[s].approvers \in SUBSET Person
      BY DEF StepSpec
    <3> QED
      BY <3>1, <3>2
  <2>3. /\ Reachable(spec[s].rule, spec[s].quorum, Cardinality(found[s]))
        /\ \A p \in Person : row'[s][p] = IF p \in found[s] THEN "pending" ELSE rows[s][p]
    BY <1>6, <1>7, <1>9, <1>11
  <2> QED
    BY <1>8, <1>9, <1>11, <2>2, <2>3
<1> QED
  BY <1>7, <1>10, <1>11

-----------------------------------------------------------------------------
(* The inductive invariant, with Undecided for the result of evaluate_step. *)

Awaited(s) == PendingIn(row, s) # {} /\ Undecided(s, row, votes[s])

OpenStands == \A s \in Step : stepSt[s] = "active" => Awaited(s)

LEMMA WellTyped ==
    ASSUME IInv
    PROVE  /\ spec \in [Step -> StepSpec] /\ IsFiniteSet(Person)
           /\ stepSt \in [Step -> {"none"} \cup Open \cup Closed]
           /\ row \in Rows /\ votes \in [Step -> Seq(Ballot)]
           /\ source \in [Step -> [Person -> {"regular", "escalation"} \cup Person]]
           /\ decisive \in [Step -> SUBSET Person]
           /\ StatusFits
BY ApprovalAssumption DEF IInv, TypeOK, Consistent, Rows, Ballot

LEMMA OpenIs == IInv => (OpenIsUndecided <=> OpenStands)
<1> SUFFICES ASSUME IInv PROVE OpenIsUndecided <=> OpenStands
  OBVIOUS
<1>1. ASSUME NEW s \in Step
      PROVE  Outcome(s, row, votes[s]) = "pending" <=> Undecided(s, row, votes[s])
  <2>1. votes[s] \in Seq(Ballot)
    BY WellTyped
  <2>2. \A i \in DOMAIN votes[s] : row[s][votes[s][i].row] = votes[s][i].vote
    BY DEF IInv, Consistent, Recorded
  <2> QED
    BY <2>1, <2>2, WellTyped, OutcomeIs
<1>2. \A s \in Step : s \in WithStatus("active") <=> stepSt[s] = "active"
  BY DEF WithStatus
<1>3. WithStatus("active") \subseteq Step
  BY DEF WithStatus
<1> QED
  BY <1>1, <1>2, <1>3 DEF OpenIsUndecided, OpenStands, Awaited

LEMMA OpenIsNext == IInv' => (OpenIsUndecided' <=> OpenStands')
BY OpenIs, PTL

\* While the request and the origin of its rows stay as they are.
LEMMA AwaitedNext ==
    ASSUME UNCHANGED <<request, rowsOf>>, NEW s \in Step,
           PendingIn(row', s) # {}, Undecided(s, row', votes'[s])
    PROVE  Awaited(s)'
<1>1. spec' = spec /\ source' = source /\ decisive' = decisive
  BY DEF request, rowsOf
<1> QED
  BY <1>1 DEF Awaited, Undecided, Counted, CountsInRule, Origin, PendingIn

LEMMA OriginsNext ==
    ASSUME Origins, UNCHANGED rowsOf, \A s \in Step, p \in Person : row'[s][p] = "none" => row[s][p] = "none"
    PROVE  Origins'
<1>1. source' = source /\ decisive' = decisive
  BY DEF rowsOf
<1> QED
  BY <1>1 DEF Origins, Origin

\* Nobody without a row decides alone.
LEMMA NoneDecides ==
    ASSUME Origins, NEW s \in Step, NEW F \in SUBSET Person, \A p \in Person : row[s][p] = "none"
    PROVE  F \cap decisive[s] = {}
BY DEF Origins

-----------------------------------------------------------------------------
(* One lemma per kind of operation. *)

\* What a handler owes: the steps it leaves open are awaited, unless it rejects a step.
Settles(outcome, rows, cast) ==
    /\ \A t \in Step : outcome[t] \in {"pending"} \cup Vote
    /\ \A t \in Step : outcome[t] # "pending" => stepSt[t] = "active"
    /\ \A t \in Step, p \in Person : rows[t][p] = "none" => row[t][p] = "none"
    /\ \A t \in Step : stepSt[t] = "waiting" =>
          cast[t] = <<>> /\ \A p \in Person : rows[t][p] = "none"
    /\ \A t \in Step : stepSt[t] = "active" /\ outcome[t] = "pending"
                         /\ (\A u \in Step : outcome[u] # "rejected")
          => PendingIn(rows, t) # {} /\ Undecided(t, rows, cast[t])

LEMMA ClosingLeaves ==
    ASSUME IInv, Origins, status = "pending", UNCHANGED <<request, rowsOf>>,
           NEW outcome, NEW rows \in Rows, NEW links, Prepared(stepSt, rows, links),
           CloseSteps(outcome, rows, links), Settles(outcome, rows, votes')
    PROVE  OpenStands' /\ Origins'
<1>a. /\ \A t \in Step : outcome[t] \in {"pending"} \cup Vote
      /\ \A t \in Step : outcome[t] # "pending" => stepSt[t] = "active"
  BY DEF Settles
<1>0. /\ \A t \in Step, p \in Person : rows[t][p] = "none" => row[t][p] = "none"
      /\ \A t \in Step : stepSt[t] = "waiting" =>
            votes'[t] = <<>> /\ \A p \in Person : rows[t][p] = "none"
      /\ \A t \in Step : stepSt[t] = "active" /\ outcome[t] = "pending"
                           /\ (\A u \in Step : outcome[u] # "rejected")
            => PendingIn(rows, t) # {} /\ Undecided(t, rows, votes'[t])
  BY DEF Settles
<1>1. ASSUME NEW s \in Step, stepSt'[s] = "active"
      PROVE  PendingIn(row', s) # {} /\ Undecided(s, row', votes'[s])
  <2>1. /\ \A t \in Step : outcome[t] # "rejected"
        /\ \/ /\ stepSt[s] = "active" /\ outcome[s] = "pending"
              /\ \A p \in Person : row'[s][p] = rows[s][p]
           \/ /\ stepSt[s] = "waiting"
              /\ \E F \in SUBSET Person :
                    /\ Reachable(spec[s].rule, spec[s].quorum, Cardinality(F))
                    /\ \A p \in Person : row'[s][p] = IF p \in F THEN "pending" ELSE rows[s][p]
    <3>1. /\ spec \in [Step -> StepSpec] /\ StatusFits
          /\ stepSt \in [Step -> {"none"} \cup Open \cup Closed]
      BY WellTyped
    <3> QED
      BY <1>a, <1>1, <3>1, CloseStepsLeaves
  <2>2. CASE stepSt[s] = "active"
    <3>1. outcome[s] = "pending" /\ \A p \in Person : row'[s][p] = rows[s][p]
      BY <2>1, <2>2
    <3>2. PendingIn(rows, s) # {} /\ Undecided(s, rows, votes'[s])
      BY <1>0, <2>1, <2>2, <3>1
    <3>3. PendingIn(row', s) = PendingIn(rows, s)
      BY <3>1 DEF PendingIn
    <3> QED
      BY <3>2, <3>3, UndecidedOf
  <2>3. CASE stepSt[s] = "waiting"
    <3>1. PICK F \in SUBSET Person :
             /\ Reachable(spec[s].rule, spec[s].quorum, Cardinality(F))
             /\ \A p \in Person : row'[s][p] = IF p \in F THEN "pending" ELSE rows[s][p]
      BY <2>1, <2>3
    <3>2. votes'[s] = <<>> /\ \A p \in Person : rows[s][p] = "none"
      BY <1>0, <2>3
    <3>3. PendingIn(row', s) = F
      BY <3>1, <3>2 DEF PendingIn
    <3>4. F \cap decisive[s] = {}
      <4>1. \A p \in Person : row[s][p] = "none"
        BY <1>0, <3>2
      <4> QED
        BY <4>1, NoneDecides
    <3>5. PendingIn(row', s) # {} /\ Undecided(s, row', <<>>)
      BY <3>1, <3>3, <3>4, WellTyped, FreshIsUndecided
    <3> QED
      BY <3>2, <3>5
  <2> QED
    BY <2>1, <2>2, <2>3
<1>2. OpenStands'
  <2>1. \A s \in Step : stepSt'[s] = "active" => Awaited(s)'
    BY <1>1, AwaitedNext
  <2> QED
    BY <2>1 DEF OpenStands
<1>3. \A s \in Step, p \in Person : row'[s][p] = "none" => row[s][p] = "none"
  <2>1. PICK base \in [Step -> Running], left \in Rows, kept \in Links :
              /\ Prepared(base, left, kept) /\ Moved(base, left, kept)
              /\ \A s \in Step : base[s] = "waiting" <=> stepSt[s] = "waiting"
              /\ \A s \in Step : stepSt[s] \in Closed => base[s] = stepSt[s] /\ base[s] \in Vote
              /\ \A s \in Step, p \in Person :
                    left[s][p] = rows[s][p] \/ (rows[s][p] = "pending" /\ left[s][p] = "not_needed")
    <3>1. StagesInOrder /\ Step # {}
      BY ApprovalAssumption DEF IInv, Consistent
    <3>2. /\ spec \in [Step -> StepSpec] /\ StatusFits
          /\ stepSt \in [Step -> {"none"} \cup Open \cup Closed]
      BY WellTyped
    <3> QED
      BY <1>a, <3>1, <3>2, CloseStepsMoves
  <2>2. ASSUME NEW s \in Step, NEW p \in Person, row'[s][p] = "none"
        PROVE  row[s][p] = "none"
    <3>1. CASE stepSt[s] = "waiting"
      BY <3>1 DEF IInv, Consistent, Untouched
    <3>2. CASE stepSt[s] # "waiting"
      <4>1. row'[s][p] = left[s][p] \/ row'[s][p] = "not_needed"
        BY <2>1, <3>2 DEF Moved, RowsMoved
      <4>2. left[s][p] = rows[s][p] \/ left[s][p] = "not_needed"
        BY <2>1
      <4> QED
        BY <1>0, <2>2, <4>1, <4>2
    <3> QED
      BY <3>1, <3>2
  <2> QED
    BY <2>2
<1>4. Origins'
  BY <1>3, OriginsNext
<1> QED
  BY <1>2, <1>4

\* Making the request.
LEMMA RequestLeaves ==
    ASSUME IInv, Origins, Request
    PROVE  OpenStands' /\ Origins'
<1> DEFINE base == [s \in Step |-> "waiting"]
<1>1. PICK found \in Resolutions(Step) : Advance(base, row, live, found)
  BY DEF Request
<1>2. status = "none" /\ UNCHANGED <<request, rowsOf, votes>>
  BY DEF Request
<1>3. \A s \in Step : votes[s] = <<>> /\ \A p \in Person : row[s][p] = "none"
  BY <1>2 DEF IInv, Consistent, StatusFits, Untouched
<1>4. base \in [Step -> Running] /\ \A s \in Step : base[s] = "waiting"
  BY DEF Running, Open
<1> HIDE DEF base
<1>5. ASSUME NEW s \in Step, stepSt'[s] = "active"
      PROVE  PendingIn(row', s) # {} /\ Undecided(s, row', votes'[s])
  <2>1. /\ Reachable(spec[s].rule, spec[s].quorum, Cardinality(found[s]))
        /\ \A p \in Person : row'[s][p] = IF p \in found[s] THEN "pending" ELSE row[s][p]
    <3>1. base[s] # "active"
      BY <1>4
    <3>2. spec \in [Step -> StepSpec] /\ row \in Rows
      BY WellTyped
    <3> QED
      BY <1>1, <1>4, <1>5, <3>1, <3>2, AdvanceLeaves
  <2>2. found[s] \in SUBSET Person
    <3>1. found[s] \subseteq spec[s].approvers /\ spec \in [Step -> StepSpec]
      BY WellTyped DEF Resolutions
    <3> QED
      BY <3>1 DEF StepSpec
  <2>3. PendingIn(row', s) = found[s]
    BY <1>3, <2>1, <2>2 DEF PendingIn
  <2>4. found[s] \cap decisive[s] = {}
    BY <1>3, <2>2, NoneDecides
  <2>5. PendingIn(row', s) # {} /\ Undecided(s, row', <<>>)
    BY <2>1, <2>2, <2>3, <2>4, WellTyped, FreshIsUndecided
  <2> QED
    BY <1>2, <1>3, <2>5
<1>6. OpenStands'
  <2>1. \A s \in Step : stepSt'[s] = "active" => Awaited(s)'
    BY <1>2, <1>5, AwaitedNext
  <2> QED
    BY <2>1 DEF OpenStands
<1>7. Origins'
  BY <1>2, <1>3, OriginsNext
<1> QED
  BY <1>6, <1>7

\* A request that is closed as a whole has no open step.
LEMMA FinalizeLeaves ==
    ASSUME IInv, Origins, NEW result, Finalize(result, stepSt, row), UNCHANGED rowsOf
    PROVE  OpenStands' /\ Origins'
<1>1. \A s \in Step : stepSt'[s] = IF stepSt[s] \in Open THEN "cancelled" ELSE stepSt[s]
  BY DEF Finalize
<1>2. \A s \in Step : stepSt'[s] # "active"
  BY <1>1 DEF Open
<1>3. \A s \in Step, p \in Person : row'[s][p] = "none" => row[s][p] = "none"
  BY DEF Finalize
<1> QED
  BY <1>2, <1>3, OriginsNext DEF OpenStands

\* A vote evaluates its own step and leaves the others alone.
LEMMA DecideLeaves ==
    ASSUME IInv, Origins, OpenStands, NEW p \in Person, NEW s \in Step, NEW q \in Person, NEW vote \in Vote,
           Decide(p, s, q, vote)
    PROVE  OpenStands' /\ Origins'
<1>1. PICK rows \in Rows, links \in Links, cast \in Seq(Ballot) :
         /\ cast = Append(votes[s], [by |-> p, row |-> q, vote |-> vote])
         /\ votes' = [votes EXCEPT ![s] = cast]
         /\ CloseSteps(Only(s, Outcome(s, rows, cast)), rows, links)
         /\ Outcome(s, rows, cast) \in {"pending"} \cup Vote
         /\ Fits(stepSt, rows, votes') /\ Prepared(stepSt, rows, links)
         /\ \A t \in Step, x \in Person : /\ t # s => rows[t][x] = row[t][x]
                                          /\ rows[t][x] = "none" => row[t][x] = "none"
  BY DecidePrepares
<1> DEFINE outcome == Only(s, Outcome(s, rows, cast))
<1>2. /\ status = "pending" /\ stepSt[s] = "active" /\ UNCHANGED <<request, rowsOf>>
  BY DEF Decide
<1>3. votes \in [Step -> Seq(Ballot)] /\ spec \in [Step -> StepSpec] /\ IsFiniteSet(Person)
  BY WellTyped
<1>4. /\ \A t \in Step : outcome[t] \in {"pending"} \cup Vote
      /\ \A t \in Step : outcome[t] # "pending" => stepSt[t] = "active"
      /\ outcome[s] = Outcome(s, rows, cast)
  BY <1>1, <1>2 DEF Only
<1>5. /\ \A t \in Step : votes'[t] = IF t = s THEN cast ELSE votes[t]
      /\ cast # <<>>
  <2>1. votes[s] \in Seq(Ballot)
    BY <1>3
  <2>2. cast # <<>>
    BY <1>1, <2>1
  <2> QED
    BY <1>1, <1>3, <2>2
<1>6. CloseSteps(outcome, rows, links)
  BY <1>1
<1> HIDE DEF outcome
<1>7. ASSUME NEW t \in Step, stepSt[t] = "active", outcome[t] = "pending"
      PROVE  PendingIn(rows, t) # {} /\ Undecided(t, rows, votes'[t])
  <2>1. CASE t = s
    <3>1. \A i \in DOMAIN cast : rows[s][cast[i].row] = cast[i].vote
      BY <1>1, <1>5 DEF Fits
    <3>2. Undecided(s, rows, cast)
      BY <1>3, <1>4, <1>7, <2>1, <3>1, OutcomeIs
    <3>3. PendingIn(rows, s) # {}
      BY <1>3, <1>5, <3>2, SomebodyIsAsked
    <3> QED
      BY <1>5, <2>1, <3>2, <3>3
  <2>2. CASE t # s
    <3>1. PendingIn(rows, t) = PendingIn(row, t)
      BY <1>1, <2>2 DEF PendingIn
    <3>2. Awaited(t)
      BY <1>7 DEF OpenStands
    <3> QED
      BY <1>5, <2>2, <3>1, <3>2, UndecidedOf DEF Awaited
  <2> QED
    BY <2>1, <2>2
<1>8. \A t \in Step : stepSt[t] = "waiting" =>
         votes'[t] = <<>> /\ \A x \in Person : rows[t][x] = "none"
  BY <1>1 DEF Fits
<1>9. Settles(outcome, rows, votes')
  BY <1>1, <1>4, <1>7, <1>8 DEF Settles
<1> QED
  BY <1>1, <1>2, <1>6, <1>9, ClosingLeaves

\* Rows that were revised, with the steps that are closed for it.
LEMMA ReviseLeaves ==
    ASSUME IInv, Origins, status = "pending", UNCHANGED <<request, rowsOf, votes>>,
           NEW outcome, NEW rows \in Rows, NEW links, Revised(rows, links),
           CloseSteps(outcome, rows, links), Settles(outcome, rows, votes)
    PROVE  OpenStands' /\ Origins'
<1>1. Prepared(stepSt, rows, links)
  BY DEF Revised, Prepared
<1>2. UNCHANGED <<request, rowsOf>> /\ Settles(outcome, rows, votes')
  OBVIOUS
<1> QED
  BY <1>1, <1>2, ClosingLeaves

\* Of several positions one is first.
LEMMA FirstOfThem ==
    ASSUME NEW S, S \subseteq Nat, S # {}
    PROVE  \E x \in S : \A y \in S : x <= y
<1>1. \A x, y \in Nat : y < x => <<y, x>> \in OpToRel(<, Nat)
  BY DEF OpToRel
<1> QED
  BY <1>1, NatLessThanWellFounded, LeastOf

\* Evaluating steps again: a step that is passed over lies behind a rejection.
LEMMA ReevaluateLeaves ==
    ASSUME IInv, Origins, OpenStands, status = "pending", UNCHANGED <<request, rowsOf, votes>>,
           NEW S \in SUBSET WithStatus("active"), NEW rows \in Rows, NEW links,
           Revised(rows, links), Reevaluate(S, rows, links),
           \A t \in Step, p \in Person : rows[t][p] = "none" => row[t][p] = "none",
           \A t \in WithStatus("active") \ S : \A p \in Person : rows[t][p] = row[t][p]
    PROVE  OpenStands' /\ Origins'
<1> DEFINE deserted(s) == PendingIn(rows, s) = {} /\ votes[s] = <<>>
           verdict(s) == IF deserted(s) THEN spec[s].onNoApprover ELSE Outcome(s, rows, votes[s])
           reached(s) == s \in S /\ \A t \in S : t < s => verdict(t) # "rejected"
           outcome == [s \in Step |-> IF reached(s) THEN verdict(s) ELSE "pending"]
<1>1. CloseSteps(outcome, rows, links)
  BY DEF Reevaluate
<1>2. /\ spec \in [Step -> StepSpec] /\ IsFiniteSet(Person) /\ votes \in [Step -> Seq(Ballot)]
      /\ Step \subseteq Nat
  BY WellTyped, ApprovalAssumption
<1>3. Fits(stepSt, rows, votes)
  <2>1. /\ \A t \in Step, p \in Person : row[t][p] \in Vote => rows[t][p] = row[t][p]
        /\ \A t \in Step, p \in Person : stepSt[t] = "waiting" => rows[t][p] = row[t][p]
        /\ \A t \in Step, p \in Person : rows[t][p] = "pending" => p \notin VotersIn(t) \cup excluded
    BY DEF Revised
  <2> QED
    BY <2>1, RevisedRowsFit
<1>4. ASSUME NEW s \in Step
      PROVE  /\ votes[s] \in Seq(Ballot)
             /\ \A i \in DOMAIN votes[s] : rows[s][votes[s][i].row] = votes[s][i].vote
             /\ spec[s].onNoApprover \in Vote
             /\ Outcome(s, rows, votes[s]) \in {"pending"} \cup Vote
  <2>1. /\ votes[s] \in Seq(Ballot)
        /\ \A i \in DOMAIN votes[s] : rows[s][votes[s][i].row] = votes[s][i].vote
    BY <1>3 DEF Fits
  <2>2. spec[s].onNoApprover \in Vote
    BY <1>2 DEF StepSpec
  <2> QED
    BY <1>2, <2>1, <2>2, OutcomeType
<1>5. \A s \in Step : verdict(s) \in {"pending"} \cup Vote
  BY <1>4
<1>6. /\ \A s \in Step : outcome[s] \in {"pending"} \cup Vote
      /\ \A s \in Step : outcome[s] # "pending" => stepSt[s] = "active"
  BY <1>5 DEF WithStatus
<1>7. \A s \in Step : outcome[s] = IF reached(s) THEN verdict(s) ELSE "pending"
  OBVIOUS
<1>8. S \subseteq Step
  BY DEF WithStatus
<1> HIDE DEF outcome, verdict
<1>9. ASSUME NEW s \in Step, stepSt[s] = "active", outcome[s] = "pending",
             \A u \in Step : outcome[u] # "rejected"
      PROVE  PendingIn(rows, s) # {} /\ Undecided(s, rows, votes[s])
  <2>1. CASE s \notin S
    <3>1. s \in WithStatus("active") \ S
      BY <1>9, <2>1 DEF WithStatus
    <3>2. PendingIn(rows, s) = PendingIn(row, s)
      BY <3>1 DEF PendingIn
    <3>3. Awaited(s)
      BY <1>9 DEF OpenStands
    <3> QED
      BY <3>2, <3>3, UndecidedOf DEF Awaited
  <2>2. CASE s \in S /\ ~ reached(s)
    <3> DEFINE R == {u \in S : verdict(u) = "rejected"}
    <3>1. R # {} /\ R \subseteq Nat
      BY <1>2, <1>8, <2>2
    <3>2. PICK x \in R : \A y \in R : x <= y
      BY <3>1, FirstOfThem
    <3>3. ASSUME NEW t \in S, t < x
          PROVE  verdict(t) # "rejected"
      <4>1. t \in Nat /\ x \in Nat
        BY <1>2, <1>8
      <4>2. ~ (x <= t)
        BY <3>3, <4>1
      <4> QED
        BY <3>2, <4>2
    <3>4. reached(x) /\ x \in Step
      BY <1>8, <3>3
    <3>5. outcome[x] = "rejected"
      BY <1>7, <3>4
    <3> QED
      BY <1>9, <3>4, <3>5
  <2>3. CASE reached(s)
    <3>1. verdict(s) = "pending"
      BY <1>7, <1>9, <2>3
    <3>2. ~ deserted(s) /\ Outcome(s, rows, votes[s]) = "pending"
      BY <1>4, <3>1 DEF verdict, Vote
    <3>3. Undecided(s, rows, votes[s])
      BY <1>2, <1>4, <3>2, OutcomeIs
    <3>4. PendingIn(rows, s) # {}
      BY <1>2, <1>4, <3>2, <3>3, SomebodyIsAsked
    <3> QED
      BY <3>3, <3>4
  <2> QED
    BY <2>1, <2>2, <2>3
<1>10. Settles(outcome, rows, votes)
  <2>1. \A t \in Step : stepSt[t] = "waiting" =>
           votes[t] = <<>> /\ \A p \in Person : rows[t][p] = "none"
    BY DEF Revised, IInv, Consistent, Untouched
  <2> QED
    BY <1>6, <1>9, <2>1 DEF Settles
<1> QED
  BY <1>1, <1>10, ReviseLeaves

LEMMA RefreshLeaves ==
    ASSUME IInv, Origins, OpenStands, Refresh
    PROVE  OpenStands' /\ Origins'
<1>1. status = "pending" /\ UNCHANGED <<request, rowsOf, votes>>
  BY DEF Refresh
<1>2. PICK rows \in Rows, links \in Links :
         /\ Revised(rows, links) /\ Reevaluate(WithStatus("active"), rows, links)
         /\ \A t \in Step, p \in Person : rows[t][p] = "none" => row[t][p] = "none"
  BY RefreshRevises
<1> QED
  BY <1>1, <1>2, ReevaluateLeaves

LEMMA DropInvalidLeaves ==
    ASSUME IInv, Origins, OpenStands, DropInvalid
    PROVE  OpenStands' /\ Origins'
<1>1. status = "pending" /\ UNCHANGED <<request, rowsOf, votes>>
  BY DEF DropInvalid
<1>2. PICK rows \in Rows, links \in Links, T \in SUBSET WithStatus("active") :
         /\ Revised(rows, links) /\ Reevaluate(T, rows, links)
         /\ \A t \in Step, p \in Person : rows[t][p] = "none" => row[t][p] = "none"
         /\ \A t \in WithStatus("active") \ T : \A p \in Person : rows[t][p] = row[t][p]
  BY DropInvalidRevises
<1> QED
  BY <1>1, <1>2, ReevaluateLeaves

\* A deadline that decides closes its own step.
LEMMA DecideOverdueLeaves ==
    ASSUME IInv, Origins, OpenStands, NEW w \in Sweeper, NEW s \in Step, DecideOverdue(w, s)
    PROVE  OpenStands' /\ Origins'
<1> DEFINE outcome == Only(s, spec[s].onTimeout)
<1>1. /\ status = "pending" /\ stepSt[s] = "active" /\ spec[s].onTimeout \in Vote
      /\ CloseSteps(outcome, row, live)
      /\ UNCHANGED <<request, rowsOf, votes>>
  BY DEF DecideOverdue, StillOverdue
<1>2. /\ \A t \in Step : outcome[t] \in {"pending"} \cup Vote
      /\ \A t \in Step : outcome[t] # "pending" => stepSt[t] = "active"
  BY <1>1 DEF Only
<1>3. Revised(row, live) /\ row \in Rows
  <2>1. row \in Rows /\ live \in Links
    BY DEF IInv, TypeOK, Rows, Links
  <2>2. \A t \in Step, p \in Person : row[t][p] = "pending" => stepSt[t] = "active" /\ p \notin VotersIn(t) \cup excluded
    BY PendingRow
  <2>3. \A t \in Step : \A p \in live[t] : row[t][p] = "pending"
    BY DEF IInv, Consistent, LinksFollowRows
  <2> QED
    BY <2>1, <2>2, <2>3 DEF Revised
<1> HIDE DEF outcome
<1>4. Settles(outcome, row, votes)
  <2>1. \A t \in Step : stepSt[t] = "waiting" =>
           votes[t] = <<>> /\ \A p \in Person : row[t][p] = "none"
    BY DEF IInv, Consistent, Untouched
  <2>2. \A t \in Step : stepSt[t] = "active" => PendingIn(row, t) # {} /\ Undecided(t, row, votes[t])
    BY DEF OpenStands, Awaited
  <2> QED
    BY <1>2, <2>1, <2>2 DEF Settles
<1> QED
  BY <1>1, <1>3, <1>4, ReviseLeaves

\* The steps that hand out links or only sweep.
LEMMA SweepLeaves ==
    ASSUME Origins, OpenStands, UNCHANGED <<request, stepSt, row, rowsOf, votes>>
    PROVE  OpenStands' /\ Origins'
<1>1. /\ spec' = spec /\ stepSt' = stepSt /\ row' = row /\ source' = source /\ decisive' = decisive
      /\ votes' = votes
  BY DEF request, rowsOf
<1> QED
  BY <1>1 DEF OpenStands, Awaited, Undecided, Counted, CountsInRule, Origin, PendingIn, Origins

-----------------------------------------------------------------------------
(* New rows in an open step. *)

\* Whose row goes back to an escalation does not count, decisive or not.
LEMMA CountsIs ==
    ASSUME Origins, NEW s \in Step, NEW p \in Person
    PROVE  CountsInRule(s, p) <=> source[s][Origin(s, p)] # "escalation"
BY DEF Origins, CountsInRule

\* A step stays undecided while as many rows count as before and no vote becomes decisive.
LEMMA UndecidedStays ==
    ASSUME NEW s \in Step, Awaited(s), spec' = spec, votes' = votes, PendingIn(row', s) # {},
           \A i \in DOMAIN votes[s] : votes[s][i].row \notin decisive[s] => votes[s][i].row \notin decisive'[s],
           Counted(s, row)' = {} <=> Counted(s, row) = {},
           Cardinality(Counted(s, row)') = Cardinality(Counted(s, row))
    PROVE  Awaited(s)'
<1> DEFINE left == Cardinality(Counted(s, row))
           yes == Cardinality(Agreed(votes[s]))
           none == Counted(s, row) = {}
<1>1. Cardinality(Counted(s, row)') = left /\ (Counted(s, row)' = {} <=> none)
  OBVIOUS
<1>2. Agreed(votes[s])' = Agreed(votes[s])
  BY DEF Agreed
<1>3. PendingIn(row, s)' # {}
  BY DEF PendingIn
<1>4. Undecided(s, row, votes[s])
  BY DEF Awaited
<1>5. Undecided(s, row, votes[s])'
  BY <1>1, <1>2, <1>4 DEF Undecided
<1> QED
  BY <1>3, <1>5 DEF Awaited

\* A step whose rows, votes and origins stay as they are stays awaited.
LEMMA AwaitedStays ==
    ASSUME NEW s \in Step, Awaited(s), spec' = spec, votes' = votes, row'[s] = row[s],
           source'[s] = source[s], decisive'[s] = decisive[s]
    PROVE  Awaited(s)'
BY DEF Awaited, Undecided, Counted, CountsInRule, Origin, PendingIn

\* The new row counts exactly when the forwarded one did.
LEMMA ForwardLeaves ==
    ASSUME IInv, Origins, OpenStands, NEW q \in Person, NEW s \in Step, NEW p \in Person, Forward(q, s, p)
    PROVE  OpenStands' /\ Origins'
<1>1. /\ stepSt[s] = "active" /\ row[s][q] = "pending" /\ row[s][p] = "none" /\ source[s][q] \notin Person
      /\ row' = [row EXCEPT ![s] = [@ EXCEPT ![q] = "forwarded", ![p] = "pending"]]
      /\ source' = [source EXCEPT ![s] = [@ EXCEPT ![p] = q]]
      /\ decisive' = [decisive EXCEPT ![s] = IF q \in @ THEN @ \cup {p} ELSE @]
      /\ UNCHANGED <<request, stepSt, votes>>
  BY DEF Forward
<1>2. /\ row \in [Step -> [Person -> RowStatus]]
      /\ source \in [Step -> [Person -> {"regular", "escalation"} \cup Person]]
      /\ decisive \in [Step -> SUBSET Person] /\ votes \in [Step -> Seq(Ballot)] /\ IsFiniteSet(Person)
  BY WellTyped DEF Rows
<1>3. p # q
  BY <1>1
<1>4. /\ \A x \in Person : row'[s][x] = IF x = p THEN "pending" ELSE IF x = q THEN "forwarded" ELSE row[s][x]
      /\ \A x \in Person : source'[s][x] = IF x = p THEN q ELSE source[s][x]
      /\ \A x \in Person : x \in decisive'[s] <=> x \in decisive[s] \/ (x = p /\ q \in decisive[s])
  BY <1>1, <1>2, <1>3
<1>5. \A t \in Step : t # s => row'[t] = row[t] /\ source'[t] = source[t] /\ decisive'[t] = decisive[t]
  BY <1>1, <1>2
<1>6. \A x \in Person : source[s][x] # p
  BY <1>1 DEF Origins
<1>7. /\ Origin(s, q) = q /\ Origin(s, p)' = q
      /\ \A x \in Person : x # p => Origin(s, x)' = Origin(s, x) /\ Origin(s, x) # p /\ Origin(s, x) \in Person
  BY <1>1, <1>2, <1>4, <1>6 DEF Origin
<1>8. /\ source'[s][Origin(s, p)'] = source[s][Origin(s, q)]
      /\ \A x \in Person : x # p => source'[s][Origin(s, x)'] = source[s][Origin(s, x)]
  BY <1>3, <1>4, <1>7
<1>9. Origins'
  <2>1. ASSUME NEW t \in Step, NEW x \in Person
        PROVE  /\ row'[t][x] = "none" => /\ source'[t][x] = "regular" /\ x \notin decisive'[t]
                                         /\ \A y \in Person : source'[t][y] # x
               /\ source'[t][Origin(t, x)'] = "escalation" => x \in decisive'[t]
    <3>1. CASE t # s
      BY <1>5, <3>1 DEF Origins, Origin
    <3>2. CASE t = s
      <4>1. row[s][x] = "none" => /\ source[s][x] = "regular" /\ x \notin decisive[s]
                                  /\ \A y \in Person : source[s][y] # x
        BY DEF Origins
      <4>2. row'[s][x] = "none" => row[s][x] = "none" /\ x # p /\ x # q
        BY <1>4
      <4>3. source'[s][Origin(s, x)'] = "escalation" => x \in decisive'[s]
        <5>1. CASE x = p
          <6>1. source[s][Origin(s, q)] = "escalation" => q \in decisive[s]
            BY DEF Origins
          <6> QED
            BY <1>4, <1>8, <5>1, <6>1
        <5>2. CASE x # p
          <6>1. source[s][Origin(s, x)] = "escalation" => x \in decisive[s]
            BY DEF Origins
          <6> QED
            BY <1>4, <1>8, <5>2, <6>1
        <5> QED
          BY <5>1, <5>2
      <4> QED
        BY <1>4, <3>2, <4>1, <4>2, <4>3
    <3> QED
      BY <3>1, <3>2
  <2> QED
    BY <2>1 DEF Origins
<1> DEFINE C == Counted(s, row)
           D == Counted(s, row)'
<1>10. /\ C \in SUBSET Person /\ D \in SUBSET Person /\ IsFiniteSet(C) /\ IsFiniteSet(D)
       /\ p \notin C /\ q \notin D
       /\ \A x \in Person \ {p, q} : x \in C <=> x \in D
       /\ p \in D <=> q \in C
  <2>1. C \in SUBSET Person /\ D \in SUBSET Person
    BY DEF Counted, PendingIn
  <2>2. \A x \in Person : x \in C <=> row[s][x] = "pending" /\ source[s][Origin(s, x)] # "escalation"
    BY CountsIs DEF Counted, PendingIn
  <2>3. \A x \in Person : x \in D <=> row'[s][x] = "pending" /\ source'[s][Origin(s, x)'] # "escalation"
    <3>1. \A x \in Person : CountsInRule(s, x)' <=> source'[s][Origin(s, x)'] # "escalation"
      BY <1>9 DEF Origins, CountsInRule
    <3> QED
      BY <3>1 DEF Counted, PendingIn
  <2> HIDE DEF C, D
  <2>4. IsFiniteSet(C) /\ IsFiniteSet(D)
    BY <1>2, <2>1, FS_Subset
  <2>5. p \notin C /\ q \notin D
    <3>1. row[s][p] = "none" /\ row'[s][q] = "forwarded"
      BY <1>1, <1>3, <1>4
    <3> QED
      BY <2>2, <2>3, <3>1
  <2>6. \A x \in Person \ {p, q} : x \in C <=> x \in D
    BY <1>4, <1>8, <2>2, <2>3
  <2>7. p \in D <=> q \in C
    <3>1. row[s][q] = "pending" /\ row'[s][p] = "pending"
      BY <1>1, <1>4
    <3>2. source'[s][Origin(s, p)'] = source[s][Origin(s, q)]
      BY <1>8
    <3> QED
      BY <2>2, <2>3, <3>1, <3>2
  <2> QED
    BY <2>1, <2>4, <2>5, <2>6, <2>7
<1> HIDE DEF C, D
<1>11. (D = {} <=> C = {}) /\ Cardinality(D) = Cardinality(C)
  <2>1. CASE q \in C
    <3>1. D = (C \ {q}) \cup {p} /\ p \notin C \ {q}
      BY <1>3, <1>10, <2>1
    <3>2. IsFiniteSet(C \ {q}) /\ Cardinality(C \ {q}) = Cardinality(C) - 1
      BY <1>10, <2>1, FS_RemoveElement
    <3>3. Cardinality(D) = Cardinality(C \ {q}) + 1
      BY <3>1, <3>2, FS_AddElement
    <3>4. Cardinality(C) \in Nat
      BY <1>10, FS_CardinalityType
    <3> QED
      BY <2>1, <3>1, <3>2, <3>3, <3>4
  <2>2. CASE q \notin C
    <3>1. D = C
      BY <1>10, <2>2
    <3> QED
      BY <3>1
  <2> QED
    BY <2>1, <2>2
<1>12. Awaited(s)'
  <2>1. Awaited(s) /\ spec' = spec /\ votes' = votes
    BY <1>1 DEF OpenStands, request
  <2>2. PendingIn(row', s) # {}
    BY <1>4 DEF PendingIn
  <2>3. ASSUME NEW i \in DOMAIN votes[s], votes[s][i].row \notin decisive[s]
        PROVE  votes[s][i].row \notin decisive'[s]
    <3>1. votes[s][i] \in Ballot
      BY <1>2
    <3>2. row[s][votes[s][i].row] = votes[s][i].vote
      BY DEF IInv, Consistent, Recorded
    <3>3. votes[s][i].row \in Person /\ votes[s][i].row # p
      BY <1>1, <3>1, <3>2 DEF Ballot, Vote
    <3> QED
      BY <1>4, <2>3, <3>3
  <2> QED
    BY <1>11, <2>1, <2>2, <2>3, UndecidedStays DEF C, D
<1>13. OpenStands'
  <2>1. ASSUME NEW t \in Step, stepSt'[t] = "active"
        PROVE  Awaited(t)'
    <3>1. CASE t = s
      BY <1>12, <3>1
    <3>2. CASE t # s
      <4>1. Awaited(t) /\ spec' = spec /\ votes' = votes
        BY <1>1, <2>1 DEF OpenStands, request
      <4> QED
        BY <1>5, <3>2, <4>1, AwaitedStays
    <3> QED
      BY <3>1, <3>2
  <2> QED
    BY <2>1 DEF OpenStands
<1> QED
  BY <1>9, <1>13

\* An escalation makes rows decisive; whom it adds does not count, who counted counts on.
LEMMA EscalateOverdueLeaves ==
    ASSUME IInv, Origins, OpenStands, NEW w \in Sweeper, NEW s \in Step, EscalateOverdue(w, s)
    PROVE  OpenStands' /\ Origins'
<1>1. stepSt[s] = "active" /\ UNCHANGED <<request, stepSt, votes>>
  <2>1. request' = request
    BY DEF EscalateOverdue
  <2> QED
    BY <2>1 DEF EscalateOverdue, StillOverdue
<1>2. /\ row \in [Step -> [Person -> RowStatus]]
      /\ source \in [Step -> [Person -> {"regular", "escalation"} \cup Person]]
      /\ decisive \in [Step -> SUBSET Person] /\ votes \in [Step -> Seq(Ballot)]
      /\ spec[s].escalation \subseteq Person
  BY WellTyped DEF Rows, StepSpec
<1>3. PICK found \in SUBSET (spec[s].escalation \ excluded) :
         LET now == EscalatedTo(s, found)
             new == {p \in now : row[s][p] = "none"}
         IN  /\ row' = [row EXCEPT ![s] = [p \in Person |-> IF p \in new THEN "pending" ELSE @[p]]]
             /\ source' = [source EXCEPT ![s] = [p \in Person |-> IF p \in new THEN "escalation" ELSE @[p]]]
             /\ decisive' = [decisive EXCEPT ![s] = @ \cup now]
  BY DEF EscalateOverdue
<1> DEFINE now == EscalatedTo(s, found)
           new == {p \in now : row[s][p] = "none"}
<1>4. /\ \A x \in Person : row'[s][x] = IF x \in new THEN "pending" ELSE row[s][x]
      /\ \A x \in Person : source'[s][x] = IF x \in new THEN "escalation" ELSE source[s][x]
      /\ decisive'[s] = decisive[s] \cup now
  BY <1>2, <1>3
<1>5. \A t \in Step : t # s => row'[t] = row[t] /\ source'[t] = source[t] /\ decisive'[t] = decisive[t]
  BY <1>2, <1>3
<1>6. /\ \A x \in now : x \in Person /\ row[s][x] \in {"none", "pending"}
      /\ \A x \in Person : x \in new <=> x \in now /\ row[s][x] = "none"
  BY <1>2 DEF EscalatedTo
<1> HIDE DEF now, new
<1>7. \A x, y \in Person : y \in new => source[s][x] # y
  BY <1>6 DEF Origins
<1>8. /\ \A x \in Person : x \in new => Origin(s, x)' = x
      /\ \A x \in Person : x \notin new =>
            /\ Origin(s, x)' = Origin(s, x) /\ Origin(s, x) \in Person /\ Origin(s, x) \notin new
  BY <1>2, <1>4, <1>7, ApprovalAssumption DEF Origin
<1>9. /\ \A x \in Person : x \in new => source'[s][Origin(s, x)'] = "escalation"
      /\ \A x \in Person : x \notin new => source'[s][Origin(s, x)'] = source[s][Origin(s, x)]
  BY <1>4, <1>8
<1>10. Origins'
  <2>1. ASSUME NEW t \in Step, NEW x \in Person
        PROVE  /\ row'[t][x] = "none" => /\ source'[t][x] = "regular" /\ x \notin decisive'[t]
                                         /\ \A y \in Person : source'[t][y] # x
               /\ source'[t][Origin(t, x)'] = "escalation" => x \in decisive'[t]
    <3>1. CASE t # s
      BY <1>5, <3>1 DEF Origins, Origin
    <3>2. CASE t = s
      <4>1. /\ row[s][x] = "none" => /\ source[s][x] = "regular" /\ x \notin decisive[s]
                                     /\ \A y \in Person : source[s][y] # x
            /\ source[s][Origin(s, x)] = "escalation" => x \in decisive[s]
        BY DEF Origins
      <4>2. ASSUME row'[s][x] = "none"
            PROVE  /\ source'[s][x] = "regular" /\ x \notin decisive'[s]
                   /\ \A y \in Person : source'[s][y] # x
        <5>1. row[s][x] = "none" /\ x \notin new /\ x \notin now
          BY <1>4, <1>6, <4>2
        <5>2. x # "escalation"
          BY ApprovalAssumption
        <5> QED
          BY <1>4, <4>1, <5>1, <5>2
      <4>3. source'[s][Origin(s, x)'] = "escalation" => x \in decisive'[s]
        <5>1. CASE x \in new
          BY <1>4, <1>6, <5>1
        <5>2. CASE x \notin new
          BY <1>4, <1>9, <4>1, <5>2
        <5> QED
          BY <5>1, <5>2
      <4> QED
        BY <3>2, <4>2, <4>3
    <3> QED
      BY <3>1, <3>2
  <2> QED
    BY <2>1 DEF Origins
<1>11. Counted(s, row)' = Counted(s, row)
  <2>1. \A x \in Person : CountsInRule(s, x)' <=> source'[s][Origin(s, x)'] # "escalation"
    BY <1>10 DEF Origins, CountsInRule
  <2>2. \A x \in Person : CountsInRule(s, x) <=> source[s][Origin(s, x)] # "escalation"
    BY CountsIs
  <2>3. ASSUME NEW x \in Person
        PROVE  row'[s][x] = "pending" /\ CountsInRule(s, x)' <=> row[s][x] = "pending" /\ CountsInRule(s, x)
    <3>1. CASE x \in new
      BY <1>6, <1>9, <2>1, <3>1
    <3>2. CASE x \notin new
      BY <1>4, <1>9, <2>1, <2>2, <3>2
    <3> QED
      BY <3>1, <3>2
  <2> QED
    BY <2>3 DEF Counted, PendingIn
<1>12. Awaited(s)'
  <2>1. Awaited(s) /\ spec' = spec /\ votes' = votes
    BY <1>1 DEF OpenStands, request
  <2>2. PendingIn(row', s) # {}
    <3>1. PendingIn(row, s) # {}
      BY <2>1 DEF Awaited
    <3> QED
      BY <1>4, <3>1 DEF PendingIn
  <2>3. ASSUME NEW i \in DOMAIN votes[s], votes[s][i].row \notin decisive[s]
        PROVE  votes[s][i].row \notin decisive'[s]
    <3>1. votes[s][i] \in Ballot
      BY <1>2
    <3>2. row[s][votes[s][i].row] = votes[s][i].vote
      BY DEF IInv, Consistent, Recorded
    <3>3. row[s][votes[s][i].row] \in Vote
      BY <3>1, <3>2 DEF Ballot
    <3>4. votes[s][i].row \notin now
      BY <1>6, <3>3 DEF Vote
    <3> QED
      BY <1>4, <2>3, <3>4
  <2> QED
    BY <1>11, <2>1, <2>2, <2>3, UndecidedStays
<1>13. OpenStands'
  <2>1. ASSUME NEW t \in Step, stepSt'[t] = "active"
        PROVE  Awaited(t)'
    <3>1. CASE t = s
      BY <1>12, <3>1
    <3>2. CASE t # s
      <4>1. Awaited(t) /\ spec' = spec /\ votes' = votes
        BY <1>1, <2>1 DEF OpenStands, request
      <4> QED
        BY <1>5, <3>2, <4>1, AwaitedStays
    <3> QED
      BY <3>1, <3>2
  <2> QED
    BY <2>1 DEF OpenStands
<1> QED
  BY <1>10, <1>13

-----------------------------------------------------------------------------
(* The theorem. *)

LEMMA InitLeaves == Init => OpenStands /\ Origins
<1> SUFFICES ASSUME Init PROVE OpenStands /\ Origins
  OBVIOUS
<1>1. /\ \A s \in Step : stepSt[s] = "none" /\ decisive[s] = {}
      /\ \A s \in Step, p \in Person : source[s][p] = "regular"
  BY DEF Init
<1>2. "regular" \notin Person
  BY ApprovalAssumption
<1>3. \A s \in Step, p \in Person : Origin(s, p) = p
  BY <1>1, <1>2 DEF Origin
<1>4. Origins
  BY <1>1, <1>2, <1>3 DEF Origins
<1>5. OpenStands
  BY <1>1 DEF OpenStands
<1> QED
  BY <1>4, <1>5

LEMMA NextLeaves ==
    ASSUME IInv, Origins, OpenStands, [Next]_vars
    PROVE  OpenStands' /\ Origins'
<1>1. CASE Request
  BY <1>1, RequestLeaves
<1>2. CASE \E result \in Vote : AutoDecide(result)
  BY <1>2, FinalizeLeaves DEF AutoDecide
<1>3. CASE Cancel
  BY <1>3, FinalizeLeaves DEF Cancel
<1>4. ASSUME NEW p \in Person, NEW s \in Step, Voting(p, s)
      PROVE  OpenStands' /\ Origins'
  <2>1. CASE \E q \in Person, vote \in Vote : Decide(p, s, q, vote)
    BY <2>1, DecideLeaves
  <2>2. CASE \E vote \in Vote : Redeem(p, s, vote)
    BY <2>2, DecideLeaves DEF Redeem
  <2>3. CASE \E q \in Person : Forward(p, s, q)
    BY <2>3, ForwardLeaves
  <2>4. CASE IssueLink(p, s)
    <3>1. UNCHANGED <<request, stepSt, row, rowsOf, votes>>
      BY <2>4 DEF IssueLink
    <3> QED
      BY <3>1, SweepLeaves
  <2> QED
    BY <1>4, <2>1, <2>2, <2>3, <2>4 DEF Voting
<1>5. CASE Refresh
  BY <1>5, RefreshLeaves
<1>6. CASE DropInvalid
  BY <1>6, DropInvalidLeaves
<1>7. CASE \E s \in Step : DeadlinePasses(s)
  BY <1>7, SweepLeaves DEF DeadlinePasses
<1>8. CASE \E w \in Sweeper : SelectOverdue(w) \/ AbortSweep(w)
  BY <1>8, SweepLeaves DEF SelectOverdue, AbortSweep
<1>9. ASSUME NEW w \in Sweeper, NEW s \in Step, SweepItem(w, s)
      PROVE  OpenStands' /\ Origins'
  <2>1. CASE SkipOverdue(w, s) \/ NotifyOverdue(w, s)
    BY <2>1, SweepLeaves DEF SkipOverdue, NotifyOverdue
  <2>2. CASE EscalateOverdue(w, s)
    BY <2>2, EscalateOverdueLeaves
  <2>3. CASE DecideOverdue(w, s)
    BY <2>3, DecideOverdueLeaves
  <2> QED
    BY <1>9, <2>1, <2>2, <2>3 DEF SweepItem
<1>10. CASE UNCHANGED vars
  BY <1>10, SweepLeaves DEF vars
<1> QED
  BY <1>1, <1>2, <1>3, <1>4, <1>5, <1>6, <1>7, <1>8, <1>9, <1>10 DEF Next

\* No step stays open that its votes have decided already, and none without somebody who may still
\* vote: decide, refresh_approvers, _drop_invalid and the deadlines re-evaluate every step whose
\* voters they change, and forward and escalate leave the count of its rule as it was.
THEOREM OpenStepsAwaitVotes == Spec => []OpenIsUndecided
<1>1. Init => UInv
  BY InitKeeps, InitLeaves, OpenIs DEF UInv
<1>2. UInv /\ [Next]_vars => UInv'
  <2> SUFFICES ASSUME UInv, [Next]_vars PROVE UInv'
    OBVIOUS
  <2>1. IInv /\ Origins /\ OpenStands
    BY OpenIs DEF UInv
  <2>2. IInv' /\ OpenStands' /\ Origins'
    BY <2>1, NextKeeps, NextLeaves
  <2> QED
    BY <2>2, OpenIsNext DEF UInv
<1>3. UInv => OpenIsUndecided
  BY DEF UInv
<1> QED
  BY <1>1, <1>2, <1>3, PTL DEF Spec
=============================================================================
