-------------------------- MODULE StepVotingProofs --------------------------
(***************************************************************************)
(* Proofs about StepVoting, for any number of voters and any quorum: what  *)
(* evaluate_step returns is what the votes mean.                           *)
(***************************************************************************)
EXTENDS StepVoting, FiniteSetTheorems, NaturalsInduction, SequenceTheorems, TLAPS

-----------------------------------------------------------------------------
(* Lists and least elements. *)

\* A set of naturals has an element below all others.
LEMMA LeastOf ==
    ASSUME NEW S, S \subseteq Nat, S # {}
    PROVE  Min(S) \in S /\ \A y \in S : Min(S) <= y
<1> DEFINE R == OpToRel(<, Nat)
<1>1. \A x, y \in Nat : y < x => <<y, x>> \in R
  BY DEF OpToRel
<1>2. IsWellFoundedOn(R, Nat)
  BY NatLessThanWellFounded
<1> HIDE DEF R
<1>3. PICK x \in S : \A y \in S : ~ (<<y, x>> \in R)
  BY <1>2, WFMin
<1>4. ASSUME NEW y \in S
      PROVE  x <= y
  <2>1. x \in Nat /\ y \in Nat
    OBVIOUS
  <2>2. ~ (y < x)
    BY <1>1, <1>3, <2>1
  <2> QED
    BY <2>1, <2>2
<1>5. \E z \in S : \A y \in S : z <= y
  BY <1>4
<1> QED
  BY <1>5 DEF Min

LEMMA RemovedIs ==
    ASSUME NEW S, NEW s \in Seq(S), NEW i \in 1..Len(s)
    PROVE  /\ RemoveAt(s, i) \in Seq(S) /\ Len(RemoveAt(s, i)) = Len(s) - 1
           /\ \A n \in 1..(Len(s) - 1) : RemoveAt(s, i)[n] = IF n < i THEN s[n] ELSE s[n + 1]
<1> DEFINE a == SubSeq(s, 1, i - 1)
           b == SubSeq(s, i + 1, Len(s))
<1>1. Len(s) \in Nat /\ i \in Nat /\ i >= 1 /\ i <= Len(s) /\ \A n \in 1..Len(s) : s[n] \in S
  OBVIOUS
<1>2. a \in Seq(S) /\ Len(a) = i - 1 /\ \A n \in 1..(i - 1) : a[n] = s[n]
  <2>1. 1 \in Int /\ i - 1 \in Int /\ \A n \in 1..(i - 1) : s[n] \in S
    BY <1>1
  <2>2. /\ a \in Seq(S) /\ Len(a) = (IF 1 <= i - 1 THEN i - 1 - 1 + 1 ELSE 0)
        /\ \A n \in 1..(i - 1 - 1 + 1) : a[n] = s[1 + n - 1]
    BY <2>1, SubSeqProperties
  <2>3. i - 1 - 1 + 1 = i - 1 /\ \A n \in Nat : 1 + n - 1 = n
    BY <1>1
  <2> QED
    BY <1>1, <2>2, <2>3
<1>3. b \in Seq(S) /\ Len(b) = Len(s) - i /\ \A n \in 1..(Len(s) - i) : b[n] = s[n + i]
  <2>1. i + 1 \in Int /\ Len(s) \in Int /\ \A n \in (i + 1)..Len(s) : s[n] \in S
    BY <1>1
  <2>2. /\ b \in Seq(S) /\ Len(b) = (IF i + 1 <= Len(s) THEN Len(s) - (i + 1) + 1 ELSE 0)
        /\ \A n \in 1..(Len(s) - (i + 1) + 1) : b[n] = s[i + 1 + n - 1]
    BY <2>1, SubSeqProperties
  <2>3. Len(s) - (i + 1) + 1 = Len(s) - i /\ \A n \in Nat : i + 1 + n - 1 = n + i
    BY <1>1
  <2> HIDE DEF b
  <2>4. Len(b) = Len(s) - i
    <3>1. \A m, k \in Nat : k <= m => (IF k + 1 <= m THEN m - (k + 1) + 1 ELSE 0) = m - k
      OBVIOUS
    <3>2. Len(b) = (IF i + 1 <= Len(s) THEN Len(s) - (i + 1) + 1 ELSE 0)
      BY <2>2
    <3> QED
      BY <1>1, <3>1, <3>2
  <2>5. ASSUME NEW n \in 1..(Len(s) - i) PROVE b[n] = s[n + i]
    <3>1. n \in Nat /\ n \in 1..(Len(s) - (i + 1) + 1)
      BY <1>1, <2>3
    <3> QED
      BY <2>2, <2>3, <3>1
  <2> QED
    BY <2>2, <2>4, <2>5
<1>4. RemoveAt(s, i) = a \o b
  BY DEF RemoveAt
<1> HIDE DEF a, b
<1>5. /\ a \o b \in Seq(S) /\ Len(a \o b) = Len(a) + Len(b)
      /\ \A n \in 1..(Len(a) + Len(b)) : (a \o b)[n] = IF n <= Len(a) THEN a[n] ELSE b[n - Len(a)]
  BY <1>2, <1>3, ConcatProperties
<1>6. ASSUME NEW n \in 1..(Len(s) - 1)
      PROVE  (a \o b)[n] = IF n < i THEN s[n] ELSE s[n + 1]
  <2>1. n \in 1..(Len(a) + Len(b)) /\ n \in Nat
    BY <1>1, <1>2, <1>3
  <2>2. CASE n < i
    <3>1. n <= Len(a) /\ n \in 1..(i - 1)
      BY <1>1, <1>2, <2>1, <2>2
    <3> QED
      BY <1>2, <1>5, <2>1, <2>2, <3>1
  <2>3. CASE ~ (n < i)
    <3>1. ~ (n <= Len(a)) /\ n - Len(a) \in 1..(Len(s) - i) /\ (n - Len(a)) + i = n + 1
      BY <1>1, <1>2, <2>1, <2>3
    <3> QED
      BY <1>3, <1>5, <2>1, <2>3, <3>1
  <2> QED
    BY <2>2, <2>3
<1> QED
  BY <1>1, <1>2, <1>3, <1>4, <1>5, <1>6

LEMMA InsertedIs ==
    ASSUME NEW S, NEW s \in Seq(S), NEW i \in 1..(Len(s) + 1), NEW e \in S
    PROVE  /\ InsertAt(s, i, e) \in Seq(S) /\ Len(InsertAt(s, i, e)) = Len(s) + 1
           /\ \A n \in 1..(Len(s) + 1) :
                 InsertAt(s, i, e)[n] = IF n < i THEN s[n] ELSE IF n = i THEN e ELSE s[n - 1]
<1> DEFINE a == SubSeq(s, 1, i - 1)
           b == SubSeq(s, i, Len(s))
           ae == a \o <<e>>
<1>1. Len(s) \in Nat /\ i \in Nat /\ i >= 1 /\ i <= Len(s) + 1 /\ \A n \in 1..Len(s) : s[n] \in S
  OBVIOUS
<1>2. a \in Seq(S) /\ Len(a) = i - 1 /\ \A n \in 1..(i - 1) : a[n] = s[n]
  <2>1. 1 \in Int /\ i - 1 \in Int /\ \A n \in 1..(i - 1) : s[n] \in S
    BY <1>1
  <2>2. /\ a \in Seq(S) /\ Len(a) = (IF 1 <= i - 1 THEN i - 1 - 1 + 1 ELSE 0)
        /\ \A n \in 1..(i - 1 - 1 + 1) : a[n] = s[1 + n - 1]
    BY <2>1, SubSeqProperties
  <2>3. i - 1 - 1 + 1 = i - 1 /\ \A n \in Nat : 1 + n - 1 = n
    BY <1>1
  <2> QED
    BY <1>1, <2>2, <2>3
<1>3. b \in Seq(S) /\ Len(b) = Len(s) - i + 1 /\ \A n \in 1..(Len(s) - i + 1) : b[n] = s[n + i - 1]
  <2>1. i \in Int /\ Len(s) \in Int /\ \A n \in i..Len(s) : s[n] \in S
    BY <1>1
  <2>2. /\ b \in Seq(S) /\ Len(b) = (IF i <= Len(s) THEN Len(s) - i + 1 ELSE 0)
        /\ \A n \in 1..(Len(s) - i + 1) : b[n] = s[i + n - 1]
    BY <2>1, SubSeqProperties
  <2>3. \A n \in Nat : i + n - 1 = n + i - 1
    BY <1>1
  <2> QED
    BY <1>1, <2>2, <2>3
<1>4. InsertAt(s, i, e) = ae \o b
  BY DEF InsertAt
<1>5. ae \in Seq(S) /\ Len(ae) = i /\ ae[i] = e /\ \A n \in 1..(i - 1) : ae[n] = s[n]
  <2> HIDE DEF a
  <2>1. <<e>> \in Seq(S) /\ Len(<<e>>) = 1 /\ <<e>>[1] = e
    OBVIOUS
  <2>2. /\ ae \in Seq(S) /\ Len(ae) = Len(a) + 1
        /\ \A n \in 1..(Len(a) + 1) : ae[n] = IF n <= Len(a) THEN a[n] ELSE <<e>>[n - Len(a)]
    BY <1>2, <2>1, ConcatProperties
  <2> HIDE DEF ae
  <2>3. Len(a) + 1 = i /\ i \in 1..(Len(a) + 1) /\ ~ (i <= Len(a)) /\ i - Len(a) = 1
    BY <1>1, <1>2
  <2>4. \A n \in 1..(i - 1) : n \in 1..(Len(a) + 1) /\ n <= Len(a)
    BY <1>1, <1>2
  <2> QED
    BY <1>2, <2>1, <2>2, <2>3, <2>4
<1> HIDE DEF a, b, ae
<1>6. /\ ae \o b \in Seq(S) /\ Len(ae \o b) = Len(ae) + Len(b)
      /\ \A n \in 1..(Len(ae) + Len(b)) : (ae \o b)[n] = IF n <= Len(ae) THEN ae[n] ELSE b[n - Len(ae)]
  BY <1>3, <1>5, ConcatProperties
<1>7. ASSUME NEW n \in 1..(Len(s) + 1)
      PROVE  (ae \o b)[n] = IF n < i THEN s[n] ELSE IF n = i THEN e ELSE s[n - 1]
  <2>1. n \in 1..(Len(ae) + Len(b)) /\ n \in Nat
    BY <1>1, <1>3, <1>5
  <2>2. CASE n <= i
    <3>1. n <= Len(ae) /\ (n = i \/ n \in 1..(i - 1))
      BY <1>1, <1>5, <2>1, <2>2
    <3>2. n \in 1..(i - 1) => n < i
      BY <1>1
    <3> QED
      BY <1>1, <1>5, <1>6, <2>1, <3>1, <3>2
  <2>3. CASE ~ (n <= i)
    <3>1. ~ (n <= Len(ae)) /\ n - i \in 1..(Len(s) - i + 1) /\ (n - i) + i - 1 = n - 1 /\ ~ (n < i) /\ n # i
      BY <1>1, <1>5, <2>1, <2>3
    <3> QED
      BY <1>3, <1>5, <1>6, <2>1, <3>1
  <2> QED
    BY <2>2, <2>3
<1> QED
  BY <1>1, <1>3, <1>4, <1>5, <1>6, <1>7

-----------------------------------------------------------------------------
(* The invariant. *)

\* A voter who does not count in the rule decides alone.
Counted == \A i \in DOMAIN voters : voters[i].regular \/ voters[i].decisive

\* As long as the step is open no decisive voter has voted; the vote of the first one ends it.
VInv == TypeOK /\ Counted /\ DecisiveDecides

LEMMA VoterTypes ==
    ASSUME voters \in Seq(Voter)
    PROVE  /\ Len(voters) \in Nat /\ DOMAIN voters = 1..Len(voters) /\ DOMAIN voters \subseteq Nat
           /\ \A i \in DOMAIN voters : /\ voters[i] \in Voter
                                       /\ voters[i].status \in {"approved", "rejected", "pending"}
                                       /\ voters[i].decisive \in BOOLEAN /\ voters[i].regular \in BOOLEAN
<1>1. Len(voters) \in Nat /\ DOMAIN voters = 1..Len(voters) /\ DOMAIN voters \subseteq Nat
  OBVIOUS
<1>2. \A i \in DOMAIN voters : voters[i] \in Voter
  BY <1>1
<1> QED
  BY <1>1, <1>2 DEF Voter, Vote

LEMMA SomeVoter ==
    ASSUME VInv, voters # <<>>
    PROVE  1 \in DOMAIN voters
<1>1. voters \in Seq(Voter)
  BY DEF VInv, TypeOK
<1>2. Len(voters) # 0 /\ Len(voters) \in Nat /\ DOMAIN voters = 1..Len(voters)
  BY <1>1, EmptySeq
<1> QED
  BY <1>2

LEMMA NoneAlone ==
    ASSUME NEW r, NEW q, NEW vs, \A i \in DOMAIN vs : vs[i].decisive => vs[i].status = "pending"
    PROVE  EvaluateStep(r, q, vs) = RuleOutcome(r, q, vs)
<1> DEFINE alone == {i \in DOMAIN vs : vs[i].decisive /\ vs[i].status # "pending"}
<1>1. EvaluateStep(r, q, vs) = IF alone # {} THEN vs[Min(alone)].status ELSE RuleOutcome(r, q, vs)
  BY DEF EvaluateStep
<1>2. alone = {}
  OBVIOUS
<1> HIDE DEF alone
<1> QED
  BY <1>1, <1>2

LEMMA FirstAlone ==
    ASSUME NEW r, NEW q, NEW vs, DOMAIN vs \subseteq Nat, NEW k \in DOMAIN vs,
           vs[k].decisive, vs[k].status # "pending",
           \A i \in DOMAIN vs : vs[i].decisive /\ i # k => vs[i].status = "pending"
    PROVE  EvaluateStep(r, q, vs) = vs[k].status
<1> DEFINE alone == {i \in DOMAIN vs : vs[i].decisive /\ vs[i].status # "pending"}
<1>1. EvaluateStep(r, q, vs) = IF alone # {} THEN vs[Min(alone)].status ELSE RuleOutcome(r, q, vs)
  BY DEF EvaluateStep
<1>2. alone = {k} /\ alone \subseteq Nat
  OBVIOUS
<1> HIDE DEF alone
<1>3. Min(alone) \in alone
  BY <1>2, LeastOf
<1> QED
  BY <1>1, <1>2, <1>3

\* In an open step no vote was a decisive one.
LEMMA OpenIsUndecisive ==
    ASSUME DecisiveDecides, Outcome = "pending", NEW i \in DOMAIN voters, voters[i].decisive
    PROVE  voters[i].status = "pending"
  BY DEF DecisiveDecides, Cast, Pending

\* A list whose decisive voters are all pending is one in which DecisiveDecides holds.
LEMMA UndecisiveNext ==
    ASSUME \A i \in DOMAIN voters' : voters'[i].decisive => voters'[i].status = "pending"
    PROVE  DecisiveDecides'
  BY DEF DecisiveDecides, Cast, Pending

\* Where a vote puts its voter.
LEMMA ReorderedIs ==
    ASSUME VInv, NEW i \in Pending, NEW v \in Voter
    PROVE  /\ Reordered(v, i) \in Seq(Voter) /\ Len(Reordered(v, i)) = Len(voters)
           /\ Min(Pending) \in Pending /\ \A j \in Pending : Min(Pending) <= j
           /\ \A n \in 1..Len(voters) :
                 Reordered(v, i)[n] = IF n < Min(Pending) THEN voters[n]
                                      ELSE IF n = Min(Pending) THEN v
                                      ELSE IF n <= i THEN voters[n - 1] ELSE voters[n]
<1> DEFINE m == Min(Pending)
           s == RemoveAt(voters, i)
<1>1. voters \in Seq(Voter)
  BY DEF VInv, TypeOK
<1>2. Len(voters) \in Nat /\ DOMAIN voters = 1..Len(voters) /\ Pending \subseteq 1..Len(voters) /\ Pending \subseteq Nat
  BY <1>1 DEF Pending
<1>3. m \in Pending /\ \A j \in Pending : m <= j
  BY <1>2, LeastOf
<1> HIDE DEF m
<1>4. /\ s \in Seq(Voter) /\ Len(s) = Len(voters) - 1
      /\ \A n \in 1..(Len(voters) - 1) : s[n] = IF n < i THEN voters[n] ELSE voters[n + 1]
  BY <1>1, <1>2, RemovedIs
<1> HIDE DEF s
<1>5. m \in 1..(Len(s) + 1) /\ m \in Nat /\ i \in Nat /\ i >= m /\ Len(s) + 1 = Len(voters)
  BY <1>2, <1>3, <1>4
<1>6. /\ InsertAt(s, m, v) \in Seq(Voter) /\ Len(InsertAt(s, m, v)) = Len(s) + 1
      /\ \A n \in 1..(Len(s) + 1) :
            InsertAt(s, m, v)[n] = IF n < m THEN s[n] ELSE IF n = m THEN v ELSE s[n - 1]
  BY <1>4, <1>5, InsertedIs
<1>7. Reordered(v, i) = InsertAt(s, m, v)
  BY DEF Reordered, s, m
<1>8. ASSUME NEW n \in 1..Len(voters)
      PROVE  Reordered(v, i)[n] = IF n < m THEN voters[n] ELSE IF n = m THEN v
                                  ELSE IF n <= i THEN voters[n - 1] ELSE voters[n]
  <2>1. n \in Nat /\ n >= 1 /\ n <= Len(voters) /\ n \in 1..(Len(s) + 1) /\ i <= Len(voters)
    BY <1>2, <1>5
  <2>2. Reordered(v, i)[n] = IF n < m THEN s[n] ELSE IF n = m THEN v ELSE s[n - 1]
    BY <1>6, <1>7, <2>1
  <2>3. CASE n < m
    <3>1. n \in 1..(Len(voters) - 1) /\ n < i
      BY <1>2, <1>5, <2>1, <2>3
    <3> QED
      BY <1>4, <2>2, <2>3, <3>1
  <2>4. CASE n = m
    BY <1>5, <2>2, <2>4
  <2>5. CASE n > m
    <3>1. n - 1 \in 1..(Len(voters) - 1) /\ (n - 1) + 1 = n /\ (n - 1 < i <=> n <= i)
      BY <1>2, <1>5, <2>1, <2>5
    <3>2. s[n - 1] = IF n - 1 < i THEN voters[n - 1] ELSE voters[n]
      BY <1>4, <3>1
    <3>3. ~ (n < m) /\ n # m
      BY <1>5, <2>1, <2>5
    <3> QED
      BY <2>2, <3>1, <3>2, <3>3
  <2> QED
    BY <1>5, <2>1, <2>3, <2>4, <2>5
<1> QED
  BY <1>3, <1>5, <1>6, <1>7, <1>8 DEF m

LEMMA StepCast ==
    ASSUME VInv, NEW i \in Pending, NEW vote \in Vote, CastVote(i, vote)
    PROVE  VInv'
<1> DEFINE m == Min(Pending)
           v == [voters[i] EXCEPT !.status = vote]
<1>1. /\ voters \in Seq(Voter) /\ Len(voters) \in Nat /\ DOMAIN voters = 1..Len(voters)
      /\ i \in 1..Len(voters) /\ i \in Nat /\ voters[i].status = "pending"
      /\ \A n \in 1..Len(voters) : /\ voters[n].decisive \in BOOLEAN /\ voters[n].regular \in BOOLEAN
                                   /\ voters[n] \in Voter
  BY VoterTypes DEF VInv, TypeOK, Pending
<1>2. /\ v \in Voter /\ v.status = vote /\ v.decisive = voters[i].decisive /\ v.regular = voters[i].regular
      /\ vote # "pending"
  BY <1>1 DEF Voter, Vote
<1> HIDE DEF v
<1>3. /\ Reordered(v, i) \in Seq(Voter) /\ Len(Reordered(v, i)) = Len(voters)
      /\ m \in Pending /\ \A j \in Pending : m <= j
      /\ \A n \in 1..Len(voters) :
            Reordered(v, i)[n] = IF n < m THEN voters[n] ELSE IF n = m THEN v
                                 ELSE IF n <= i THEN voters[n - 1] ELSE voters[n]
  BY <1>2, ReorderedIs
<1>4. m \in 1..Len(voters) /\ m \in Nat /\ m <= i
  BY <1>1, <1>3 DEF Pending
<1> HIDE DEF m
<1>5. voters' = Reordered(v, i) /\ UNCHANGED <<rule, quorum>> /\ Outcome = "pending"
  BY DEF CastVote, v
<1>6. \A n \in 1..Len(voters) : voters[n].status = "pending" <=> n >= m
  <2>1. ASSUME NEW n \in 1..Len(voters), voters[n].status = "pending" PROVE n >= m
    BY <1>1, <1>3, <1>4, <2>1 DEF Pending
  <2>2. ASSUME NEW n \in 1..Len(voters), voters[n].status # "pending" PROVE n < m
    BY <1>1, <1>3, <1>4, <2>2 DEF VInv, TypeOK, Cast, Pending
  <2>3. \A n \in 1..Len(voters) : n \in Nat
    OBVIOUS
  <2> QED
    BY <1>4, <2>1, <2>2, <2>3
<1>7. /\ voters' \in Seq(Voter) /\ Len(voters') = Len(voters) /\ DOMAIN voters' = 1..Len(voters)
      /\ voters'[m] = v
  <2>1. voters' \in Seq(Voter) /\ Len(voters') = Len(voters)
    BY <1>3, <1>5
  <2>2. voters'[m] = v
    BY <1>3, <1>4, <1>5
  <2> QED
    BY <2>1, <2>2
<1>8. ASSUME NEW n \in 1..Len(voters), n # m
      PROVE  \E k \in 1..Len(voters) : voters'[n] = voters[k] /\ (k >= m <=> n > m)
  <2>1. n \in Nat /\ n >= 1 /\ n <= Len(voters)
    BY <1>1
  <2>2. voters'[n] = IF n < m THEN voters[n] ELSE IF n = m THEN v
                     ELSE IF n <= i THEN voters[n - 1] ELSE voters[n]
    BY <1>3, <1>5
  <2>3. CASE n < m
    <3>1. ~ (n >= m) /\ ~ (n > m)
      BY <1>4, <2>1, <2>3
    <3> QED
      BY <2>2, <2>3, <3>1
  <2>4. CASE n > m /\ n <= i
    <3>1. n - 1 \in 1..Len(voters) /\ n - 1 >= m /\ ~ (n < m)
      BY <1>1, <1>4, <2>1, <2>4
    <3>2. voters'[n] = voters[n - 1]
      BY <1>8, <2>2, <2>4, <3>1
    <3> QED
      BY <2>4, <3>1, <3>2
  <2>5. CASE n > m /\ ~ (n <= i)
    <3>1. ~ (n < m) /\ n >= m
      BY <1>4, <2>1, <2>5
    <3> QED
      BY <1>8, <2>2, <2>5, <3>1
  <2> QED
    BY <1>4, <1>8, <2>1, <2>3, <2>4, <2>5
<1>9. \A n \in 1..Len(voters) : voters'[n].status = "pending" <=> n > m
  <2>1. ASSUME NEW n \in 1..Len(voters), n # m PROVE voters'[n].status = "pending" <=> n > m
    BY <1>6, <1>8, <2>1
  <2> QED
    BY <1>2, <1>4, <1>7, <2>1
<1>10. TypeOK'
  <2>1. \A k \in Pending', j \in Cast' : j < k
    <3>1. ASSUME NEW k \in Pending', NEW j \in Cast' PROVE j < k
      <4>1. k \in 1..Len(voters) /\ j \in 1..Len(voters) /\ k > m /\ ~ (j > m)
        BY <1>7, <1>9 DEF Pending, Cast
      <4>2. k \in Nat /\ j \in Nat
        BY <4>1
      <4> QED
        BY <1>4, <4>1, <4>2
    <3> QED
      BY <3>1
  <2>2. rule' \in Rules /\ quorum' \in 1..MaxQuorum /\ voters' \in Seq(Voter) /\ Len(voters') <= MaxVoters
    BY <1>5, <1>7 DEF VInv, TypeOK
  <2> QED
    BY <2>1, <2>2 DEF TypeOK
<1>11. Counted'
  <2>1. ASSUME NEW n \in 1..Len(voters) PROVE voters'[n].regular \/ voters'[n].decisive
    <3>1. \A k \in 1..Len(voters) : voters[k].regular \/ voters[k].decisive
      BY <1>1 DEF VInv, Counted
    <3>2. CASE n = m
      BY <1>1, <1>2, <1>7, <3>1, <3>2
    <3>3. CASE n # m
      BY <1>8, <3>1, <3>3
    <3> QED
      BY <3>2, <3>3
  <2> QED
    BY <1>7, <2>1 DEF Counted
<1>12. DecisiveDecides'
  <2>1. \A n \in 1..Len(voters) : voters[n].decisive => voters[n].status = "pending"
    BY <1>1, <1>5, OpenIsUndecisive DEF VInv
  <2>2. ASSUME NEW n \in 1..Len(voters), n # m, voters'[n].decisive PROVE voters'[n].status = "pending"
    BY <1>8, <2>1, <2>2
  <2>3. CASE ~ v.decisive
    <3>1. \A n \in DOMAIN voters' : voters'[n].decisive => voters'[n].status = "pending"
      BY <1>7, <2>2, <2>3
    <3> QED
      BY <3>1, UndecisiveNext
  <2>4. CASE v.decisive
    <3>1. DOMAIN voters' \subseteq Nat /\ m \in DOMAIN voters'
      BY <1>4, <1>7
    <3>2. voters'[m].decisive /\ voters'[m].status # "pending"
      BY <1>2, <1>7, <2>4
    <3>3. \A n \in DOMAIN voters' : voters'[n].decisive /\ n # m => voters'[n].status = "pending"
      BY <1>7, <2>2
    <3>4. EvaluateStep(rule', quorum', voters') = voters'[m].status
      BY <3>1, <3>2, <3>3, FirstAlone
    <3>5. Outcome' = voters'[m].status
      BY <3>4 DEF Outcome
    <3>6. ASSUME NEW n \in Cast', voters'[n].decisive PROVE n = m
      BY <3>3, <3>6 DEF Cast, Pending
    <3> QED
      BY <3>5, <3>6 DEF DecisiveDecides
  <2> QED
    BY <2>3, <2>4
<1> QED
  BY <1>10, <1>11, <1>12 DEF VInv

\* Who comes, goes or is made decisive has not voted: of an open step with a list of voters that keeps
\* its order, nothing else can break.
LEMMA StepOthers ==
    ASSUME VInv, Outcome = "pending", UNCHANGED <<rule, quorum>>,
           voters' \in Seq(Voter), Len(voters') <= MaxVoters,
           \A n \in DOMAIN voters' : voters'[n].regular \/ voters'[n].decisive,
           \A n \in DOMAIN voters' : voters'[n].decisive => voters'[n].status = "pending",
           \A k, j \in DOMAIN voters' : voters'[k].status = "pending" /\ voters'[j].status # "pending" => j < k
    PROVE  VInv'
<1>1. \A k \in Pending', j \in Cast' : j < k
  BY DEF Pending, Cast
<1>2. TypeOK'
  BY <1>1 DEF VInv, TypeOK
<1>3. Counted'
  BY DEF Counted
<1>4. DecisiveDecides'
  BY UndecisiveNext
<1> QED
  BY <1>2, <1>3, <1>4 DEF VInv

LEMMA StepUpgrade ==
    ASSUME VInv, NEW i \in Pending, Upgrade(i)
    PROVE  VInv'
<1>1. /\ voters \in Seq(Voter) /\ Len(voters) \in Nat /\ DOMAIN voters = 1..Len(voters)
      /\ i \in DOMAIN voters /\ voters[i].status = "pending"
      /\ \A n \in DOMAIN voters : voters[n] \in Voter
  BY VoterTypes DEF VInv, TypeOK, Pending
<1>2. Outcome = "pending" /\ UNCHANGED <<rule, quorum>> /\ voters' = [voters EXCEPT ![i].decisive = TRUE]
  BY DEF Upgrade
<1>3. /\ DOMAIN voters' = DOMAIN voters
      /\ \A n \in DOMAIN voters : n # i => voters'[n] = voters[n]
      /\ voters'[i] = [voters[i] EXCEPT !.decisive = TRUE]
  BY <1>1, <1>2
<1>4. /\ voters'[i] \in Voter /\ voters'[i].status = "pending" /\ voters'[i].decisive
      /\ voters'[i].regular = voters[i].regular
  BY <1>1, <1>3 DEF Voter
<1>5. \A n \in DOMAIN voters : voters'[n] \in Voter /\ voters'[n].status = voters[n].status
  BY <1>1, <1>3, <1>4
<1>6. voters' \in Seq(Voter) /\ Len(voters') = Len(voters)
  <2>1. voters' \in [1..Len(voters) -> Voter]
    BY <1>1, <1>2, <1>5
  <2> QED
    BY <1>1, <2>1
<1>7. \A n \in DOMAIN voters : voters[n].decisive => voters[n].status = "pending"
  BY <1>2, OpenIsUndecisive DEF VInv
<1>8. \A n \in DOMAIN voters' : voters'[n].decisive => voters'[n].status = "pending"
  BY <1>3, <1>4, <1>7
<1>9. \A n \in DOMAIN voters' : voters'[n].regular \/ voters'[n].decisive
  BY <1>3, <1>4 DEF VInv, Counted
<1>10. \A k, j \in DOMAIN voters' : voters'[k].status = "pending" /\ voters'[j].status # "pending" => j < k
  BY <1>3, <1>5 DEF VInv, TypeOK, Pending, Cast
<1>11. Len(voters') <= MaxVoters
  BY <1>6 DEF VInv, TypeOK
<1> QED
  BY <1>2, <1>6, <1>8, <1>9, <1>10, <1>11, StepOthers

LEMMA StepNew ==
    ASSUME VInv, NEW d \in BOOLEAN, Outcome = "pending", Len(voters) < MaxVoters,
           voters' = Append(voters, Fresh(d)), UNCHANGED <<rule, quorum>>
    PROVE  VInv'
<1> DEFINE f == Fresh(d)
           l == Len(voters)
<1>1. voters \in Seq(Voter) /\ l \in Nat /\ DOMAIN voters = 1..l
  BY VoterTypes DEF VInv, TypeOK
<1>2. f \in Voter /\ f.status = "pending" /\ (f.regular \/ f.decisive)
  BY DEF Fresh, Voter
<1> HIDE DEF f
<1>3. /\ Append(voters, f) \in Seq(Voter) /\ Len(Append(voters, f)) = l + 1
      /\ \A n \in 1..l : Append(voters, f)[n] = voters[n]
      /\ Append(voters, f)[l + 1] = f
  BY <1>1, <1>2, AppendProperties
<1>4. voters' = Append(voters, f)
  BY DEF f
<1> HIDE DEF l
<1>5. /\ voters' \in Seq(Voter) /\ Len(voters') = l + 1 /\ DOMAIN voters' = 1..(l + 1)
      /\ \A n \in 1..l : voters'[n] = voters[n]
      /\ voters'[l + 1] = f
  <2>1. voters' \in Seq(Voter) /\ Len(voters') = l + 1
    BY <1>3, <1>4
  <2>2. DOMAIN voters' = 1..Len(voters')
    BY <2>1
  <2> QED
    BY <1>3, <1>4, <2>1, <2>2
<1>6. \A n \in DOMAIN voters' : n \in Nat /\ n <= l + 1 /\ (n \in 1..l \/ n = l + 1)
  BY <1>1, <1>5
<1>7. \A n \in 1..l : voters[n].decisive => voters[n].status = "pending"
  BY <1>1, OpenIsUndecisive DEF VInv
<1>8. \A n \in DOMAIN voters' : voters'[n].decisive => voters'[n].status = "pending"
  BY <1>2, <1>5, <1>6, <1>7
<1>9. \A n \in DOMAIN voters' : voters'[n].regular \/ voters'[n].decisive
  BY <1>1, <1>2, <1>5, <1>6 DEF VInv, Counted
<1>10. ASSUME NEW k \in DOMAIN voters', NEW j \in DOMAIN voters',
              voters'[k].status = "pending", voters'[j].status # "pending"
       PROVE  j < k
  <2>1. j \in 1..l /\ voters[j].status # "pending" /\ j \in Nat /\ k \in Nat /\ j < l + 1
    BY <1>1, <1>2, <1>5, <1>6, <1>10
  <2>2. CASE k = l + 1
    BY <2>1, <2>2
  <2>3. CASE k \in 1..l
    <3>1. voters[k].status = "pending"
      BY <1>5, <1>10, <2>3
    <3> QED
      BY <1>1, <2>1, <2>3, <3>1 DEF VInv, TypeOK, Pending, Cast
  <2> QED
    BY <1>6, <2>2, <2>3
<1>11. Len(voters') <= MaxVoters
  BY <1>1, <1>5, VotingAssumption DEF l
<1> QED
  BY <1>5, <1>8, <1>9, <1>10, <1>11, StepOthers

LEMMA StepLeave ==
    ASSUME VInv, NEW i \in Pending, Leave(i)
    PROVE  VInv'
<1> DEFINE l == Len(voters)
           old(n) == IF n < i THEN n ELSE n + 1
<1>1. voters \in Seq(Voter) /\ l \in Nat /\ DOMAIN voters = 1..l /\ i \in 1..l /\ l <= MaxVoters
  BY VoterTypes DEF VInv, TypeOK, Pending
<1>2. Outcome = "pending" /\ UNCHANGED <<rule, quorum>> /\ voters' = RemoveAt(voters, i)
  BY DEF Leave
<1>3. /\ voters' \in Seq(Voter) /\ Len(voters') = l - 1
      /\ \A n \in 1..(l - 1) : voters'[n] = IF n < i THEN voters[n] ELSE voters[n + 1]
  BY <1>1, <1>2, RemovedIs
<1> HIDE DEF l
<1>4. DOMAIN voters' = 1..(l - 1)
  BY <1>3
<1>5. ASSUME NEW n \in DOMAIN voters'
      PROVE  old(n) \in DOMAIN voters /\ voters'[n] = voters[old(n)] /\ n \in Nat /\ old(n) \in Nat
  BY <1>1, <1>3, <1>4
<1>6. \A n \in DOMAIN voters' : voters'[n].decisive => voters'[n].status = "pending"
  <2>1. \A n \in DOMAIN voters : voters[n].decisive => voters[n].status = "pending"
    BY <1>2, OpenIsUndecisive DEF VInv
  <2> HIDE DEF old
  <2> QED
    BY <1>5, <2>1
<1>7. \A n \in DOMAIN voters' : voters'[n].regular \/ voters'[n].decisive
  <2> HIDE DEF old
  <2> QED
    BY <1>5 DEF VInv, Counted
<1>8. ASSUME NEW k \in DOMAIN voters', NEW j \in DOMAIN voters',
             voters'[k].status = "pending", voters'[j].status # "pending"
      PROVE  j < k
  <2>1. old(j) < old(k)
    <3> HIDE DEF old
    <3> QED
      BY <1>5, <1>8 DEF VInv, TypeOK, Pending, Cast
  <2>2. j \in Nat /\ k \in Nat /\ i \in Nat
    BY <1>1, <1>5
  <2> QED
    BY <2>1, <2>2
<1>9. Len(voters') <= MaxVoters
  BY <1>1, <1>3, VotingAssumption
<1> QED
  BY <1>2, <1>3, <1>6, <1>7, <1>8, <1>9, StepOthers

LEMMA InitInv == Init => VInv
<1> SUFFICES ASSUME Init PROVE VInv
  OBVIOUS
<1>1. PICK n \in 1..MaxVoters : voters = [i \in 1..n |-> Fresh(FALSE)]
  BY DEF Init
<1>2. /\ Fresh(FALSE) \in Voter /\ Fresh(FALSE).status = "pending" /\ ~ Fresh(FALSE).decisive
      /\ Fresh(FALSE).regular
  BY DEF Fresh, Voter
<1>3. n \in Nat /\ n <= MaxVoters /\ DOMAIN voters = 1..n /\ \A i \in 1..n : voters[i] = Fresh(FALSE)
  BY <1>1, VotingAssumption
<1>4. voters \in Seq(Voter) /\ Len(voters) = n
  <2>1. voters \in [1..n -> Voter]
    BY <1>1, <1>2
  <2> QED
    BY <1>3, <2>1
<1>5. Pending = DOMAIN voters /\ Cast = {}
  BY <1>2, <1>3 DEF Pending, Cast
<1>6. TypeOK
  BY <1>3, <1>4, <1>5 DEF Init, TypeOK
<1>7. Counted
  BY <1>2, <1>3 DEF Counted
<1>8. DecisiveDecides
  BY <1>5 DEF DecisiveDecides
<1> QED
  BY <1>6, <1>7, <1>8 DEF VInv

LEMMA StepInv == VInv /\ [Next]_vars => VInv'
<1> SUFFICES ASSUME VInv, [Next]_vars PROVE VInv'
  OBVIOUS
<1>1. CASE UNCHANGED vars
  BY <1>1 DEF vars, VInv, TypeOK, Counted, DecisiveDecides, Cast, Pending, Outcome
<1>2. ASSUME NEW i \in Pending, NEW vote \in Vote, CastVote(i, vote) PROVE VInv'
  BY <1>2, StepCast
<1>3. ASSUME NEW i \in Pending, Upgrade(i) PROVE VInv'
  BY <1>3, StepUpgrade
<1>4. ASSUME NEW i \in Pending, Leave(i) PROVE VInv'
  BY <1>4, StepLeave
<1>5. CASE Escalate
  BY <1>5, StepNew DEF Escalate
<1>6. CASE Join
  BY <1>6, StepNew DEF Join
<1> QED
  BY <1>1, <1>2, <1>3, <1>4, <1>5, <1>6 DEF Next

LEMMA Inductive == Spec => []VInv
  BY InitInv, StepInv, PTL DEF Spec

-----------------------------------------------------------------------------
(* What the rule says, read without its steps. *)

With(status) == {i \in DOMAIN voters : voters[i].status = status}
Needed == RequiredVotes(rule, quorum, Cardinality(DOMAIN voters))

\* Where nobody decides alone everybody counts.
LEMMA RuleIs ==
    ASSUME VInv, voters # <<>>, \A i \in DOMAIN voters : ~ voters[i].decisive
    PROVE  Outcome = CASE rule = "any" ->
                               IF With("approved") \cup With("rejected") = {} THEN "pending"
                               ELSE voters[Min(With("approved") \cup With("rejected"))].status
                       [] rule = "all" ->
                               IF With("rejected") # {} THEN "rejected"
                               ELSE IF With("pending") = {} THEN "approved" ELSE "pending"
                       [] OTHER ->
                               IF Cardinality(With("approved")) >= Needed THEN "approved"
                               ELSE IF Cardinality(With("approved")) + Cardinality(With("pending")) < Needed
                                    THEN "rejected" ELSE "pending"
<1> DEFINE regular == {i \in DOMAIN voters : voters[i].regular}
           W(status) == {i \in regular : voters[i].status = status}
           needed == RequiredVotes(rule, quorum, Cardinality(regular))
<1>1. Outcome = RuleOutcome(rule, quorum, voters)
  BY NoneAlone DEF Outcome
<1>2. regular = DOMAIN voters /\ regular # {}
  <2>2. 1 \in DOMAIN voters
    BY SomeVoter
  <2> QED
    BY <2>2 DEF VInv, Counted
<1>3. needed = Needed /\ \A status : W(status) = With(status)
  BY <1>2 DEF With, Needed
<1>4. CASE rule = "any"
  BY <1>1, <1>2, <1>3, <1>4 DEF RuleOutcome
<1>5. CASE rule = "all"
  BY <1>1, <1>2, <1>3, <1>5 DEF RuleOutcome
<1>6. CASE rule # "any" /\ rule # "all"
  BY <1>1, <1>2, <1>3, <1>6 DEF RuleOutcome
<1> QED
  BY <1>4, <1>5, <1>6

\* The three kinds of voters.
LEMMA Kinds ==
    ASSUME VInv
    PROVE  /\ DOMAIN voters = With("approved") \cup With("rejected") \cup With("pending")
           /\ Pending = With("pending")
           /\ With("approved") \cap With("pending") = {}
           /\ \A S \in SUBSET DOMAIN voters : IsFiniteSet(S) /\ Cardinality(S) \in Nat /\ S \subseteq Nat
           /\ DOMAIN voters = 1..Len(voters) /\ Len(voters) \in Nat /\ Cardinality(DOMAIN voters) = Len(voters)
           /\ \A i \in DOMAIN voters : voters[i].status \in {"approved", "rejected", "pending"}
<1>1. /\ Len(voters) \in Nat /\ DOMAIN voters = 1..Len(voters) /\ DOMAIN voters \subseteq Nat
      /\ \A i \in DOMAIN voters : voters[i].status \in {"approved", "rejected", "pending"}
  BY VoterTypes DEF VInv, TypeOK
<1>2. IsFiniteSet(1..Len(voters)) /\ Cardinality(1..Len(voters)) = Len(voters)
  <2>1. 1 \in Int /\ Len(voters) \in Int
    BY <1>1
  <2>2. /\ IsFiniteSet(1..Len(voters))
        /\ Cardinality(1..Len(voters)) = IF 1 > Len(voters) THEN 0 ELSE Len(voters) - 1 + 1
    BY <2>1, FS_Interval
  <2> QED
    BY <1>1, <2>2
<1>3. ASSUME NEW S \in SUBSET DOMAIN voters
      PROVE  IsFiniteSet(S) /\ Cardinality(S) \in Nat /\ S \subseteq Nat
  BY <1>1, <1>2, <1>3, FS_Subset, FS_CardinalityType
<1>4. DOMAIN voters = With("approved") \cup With("rejected") \cup With("pending")
  BY <1>1 DEF With
<1> QED
  BY <1>1, <1>2, <1>3, <1>4 DEF With, Pending

LEMMA SomebodyIsAsked == VInv => OpenWaitsForSomeone
<1> SUFFICES ASSUME VInv, Outcome = "pending", voters # <<>>, Pending = {} PROVE FALSE
  BY DEF OpenWaitsForSomeone
<1> DEFINE cast == With("approved") \cup With("rejected")
<1>1. /\ DOMAIN voters = cast /\ With("pending") = {} /\ cast \subseteq Nat
      /\ Cardinality(With("approved")) \in Nat
  BY Kinds DEF With
<1>2. cast # {}
  <2> HIDE DEF cast
  <2>2. 1 \in DOMAIN voters
    BY SomeVoter
  <2> QED
    BY <1>1, <2>2
<1>3. \A i \in DOMAIN voters : ~ voters[i].decisive
  BY OpenIsUndecisive DEF VInv, Pending
<1>4. Min(cast) \in cast
  BY <1>1, <1>2, LeastOf
<1>5. voters[Min(cast)].status # "pending"
  BY <1>4 DEF With
<1> HIDE DEF cast
<1>6. CASE rule = "any"
  BY <1>2, <1>3, <1>5, <1>6, RuleIs DEF cast
<1>7. CASE rule = "all"
  BY <1>1, <1>3, <1>7, RuleIs
<1>8. CASE rule # "any" /\ rule # "all"
  <2>1. Needed \in Nat
    <3>1. rule \in {"quorum", "majority"} /\ quorum \in Nat /\ Cardinality(DOMAIN voters) \in Nat
      BY <1>8, Kinds, VotingAssumption DEF VInv, TypeOK, Rules
    <3> QED
      BY <3>1 DEF Needed, RequiredVotes
  <2>2. Cardinality(With("pending")) = 0
    BY <1>1, FS_EmptySet
  <2>3. Outcome = IF Cardinality(With("approved")) >= Needed THEN "approved"
                  ELSE IF Cardinality(With("approved")) + Cardinality(With("pending")) < Needed
                       THEN "rejected" ELSE "pending"
    BY <1>3, <1>8, RuleIs
  <2> QED
    BY <1>1, <2>1, <2>2, <2>3
<1> QED
  BY <1>6, <1>7, <1>8

-----------------------------------------------------------------------------
(* Every way the rest could vote. *)

Ballots == [Pending -> Vote]
Voted(b) == [i \in DOMAIN voters |-> IF i \in Pending THEN [voters[i] EXCEPT !.status = b[i]] ELSE voters[i]]
InFavour(b) == {i \in DOMAIN voters : Voted(b)[i].status = "approved"}
Carried(b) ==
    \/ rule = "any" /\ 1 \in InFavour(b)
    \/ rule = "all" /\ InFavour(b) = DOMAIN voters
    \/ rule \in {"majority", "quorum"} /\ Cardinality(InFavour(b)) >= Needed

\* What the voters who voted say, with the ones of the rest who approve.
LEMMA InFavourIs ==
    ASSUME VInv, NEW b \in Ballots
    PROVE  /\ InFavour(b) = With("approved") \cup {i \in Pending : b[i] = "approved"}
           /\ With("approved") \subseteq InFavour(b)
           /\ InFavour(b) \subseteq With("approved") \cup With("pending")
<1>1. ASSUME NEW i \in DOMAIN voters
      PROVE  Voted(b)[i].status = IF i \in Pending THEN b[i] ELSE voters[i].status
  <2>1. voters[i] \in Voter
    BY <1>1, VoterTypes DEF VInv, TypeOK
  <2>2. [voters[i] EXCEPT !.status = b[i]].status = b[i]
    BY <2>1 DEF Voter
  <2> QED
    BY <2>2 DEF Voted
<1>2. Pending = With("pending") /\ With("approved") \cap With("pending") = {} /\ Pending \subseteq DOMAIN voters
  BY Kinds DEF Pending
<1>3. InFavour(b) = With("approved") \cup {i \in Pending : b[i] = "approved"}
  BY <1>1, <1>2 DEF InFavour, With
<1> QED
  BY <1>2, <1>3

LEMMA VerdictIs ==
    ASSUME VInv, voters # <<>>, NEW b \in Ballots
    PROVE  Verdict(Voted(b)) = IF Carried(b) THEN "approved" ELSE "rejected"
<1> DEFINE all == Voted(b)
           yes == {i \in DOMAIN all : all[i].status = "approved"}
           carried == CASE rule = "any" -> all[1].status = "approved"
                        [] rule = "all" -> yes = DOMAIN all
                        [] rule = "majority" -> 2 * Cardinality(yes) > Len(all)
                        [] rule = "quorum" -> Cardinality(yes) >= quorum
<1>1. /\ DOMAIN voters = 1..Len(voters) /\ Len(voters) \in Nat /\ Cardinality(DOMAIN voters) = Len(voters)
      /\ DOMAIN all = DOMAIN voters
  BY Kinds DEF Voted
<1>2. Len(all) = Len(voters)
  BY <1>1 DEF Voted
<1>3. 1 \in DOMAIN voters
  BY SomeVoter
<1>4. yes = InFavour(b) /\ Cardinality(InFavour(b)) \in Nat
  <2>1. InFavour(b) \in SUBSET DOMAIN voters
    BY DEF InFavour
  <2> QED
    BY <1>1, <2>1, Kinds DEF InFavour
<1>5. Verdict(Voted(b)) = IF carried THEN "approved" ELSE "rejected"
  BY DEF Verdict
<1>6. rule \in {"any", "all", "majority", "quorum"}
  BY DEF VInv, TypeOK, Rules
<1>7. CASE rule = "any"
  <2>1. carried <=> all[1].status = "approved"
    BY <1>7
  <2>2. carried <=> 1 \in InFavour(b)
    BY <1>3, <2>1 DEF InFavour
  <2> HIDE DEF carried
  <2> QED
    BY <1>5, <1>7, <2>2 DEF Carried
<1>8. CASE rule = "all"
  <2>1. carried <=> yes = DOMAIN all
    BY <1>8
  <2> HIDE DEF carried, yes, all
  <2>2. carried <=> Carried(b)
    BY <1>1, <1>4, <1>8, <2>1 DEF Carried
  <2> QED
    BY <1>5, <2>2
<1>9. CASE rule = "majority"
  <2>1. carried <=> 2 * Cardinality(yes) > Len(all)
    BY <1>9
  <2>2. Needed = Len(voters) \div 2 + 1
    BY <1>1, <1>9 DEF Needed, RequiredVotes
  <2> HIDE DEF carried, yes, all
  <2>3. \A c, n \in Nat : 2 * c > n <=> c >= n \div 2 + 1
    OBVIOUS
  <2>4. carried <=> Cardinality(InFavour(b)) >= Needed
    BY <1>1, <1>2, <1>4, <2>1, <2>2, <2>3
  <2>5. carried <=> Carried(b)
    BY <1>9, <2>4 DEF Carried
  <2> QED
    BY <1>5, <2>5
<1>10. CASE rule = "quorum"
  <2>1. carried <=> Cardinality(yes) >= quorum
    BY <1>10
  <2>2. Needed = quorum
    BY <1>10 DEF Needed, RequiredVotes
  <2> HIDE DEF carried, yes, all
  <2>3. carried <=> Carried(b)
    BY <1>4, <1>10, <2>1, <2>2 DEF Carried
  <2> QED
    BY <1>5, <2>3
<1> QED
  BY <1>6, <1>7, <1>8, <1>9, <1>10

\* The two ways that bound all others: the rest approves, the rest rejects.
LEMMA Extremes ==
    ASSUME VInv
    PROVE  /\ [i \in Pending |-> "approved"] \in Ballots
           /\ InFavour([i \in Pending |-> "approved"]) = With("approved") \cup With("pending")
           /\ [i \in Pending |-> "rejected"] \in Ballots
           /\ InFavour([i \in Pending |-> "rejected"]) = With("approved")
<1> DEFINE y == [i \in Pending |-> "approved"]
           n == [i \in Pending |-> "rejected"]
<1>1. y \in Ballots /\ n \in Ballots
  BY DEF Ballots, Vote
<1>2. {i \in Pending : y[i] = "approved"} = Pending /\ {i \in Pending : n[i] = "approved"} = {}
  OBVIOUS
<1> HIDE DEF y, n
<1>3. InFavour(y) = With("approved") \cup Pending /\ InFavour(n) = With("approved")
  BY <1>1, <1>2, InFavourIs
<1> QED
  BY <1>1, <1>3, Kinds DEF y, n

\* An outcome is reported exactly when every way the rest could vote leads to it.
LEMMA SettledIs ==
    ASSUME VInv, voters # <<>>, \A i \in DOMAIN voters : ~ voters[i].decisive
    PROVE  /\ Outcome = "approved" <=> \A b \in Ballots : Carried(b)
           /\ Outcome = "rejected" <=> \A b \in Ballots : ~ Carried(b)
<1> DEFINE y == [i \in Pending |-> "approved"]
           n == [i \in Pending |-> "rejected"]
           cast == With("approved") \cup With("rejected")
<1>1. /\ y \in Ballots /\ InFavour(y) = With("approved") \cup With("pending")
      /\ n \in Ballots /\ InFavour(n) = With("approved")
  BY Extremes
<1>2. /\ DOMAIN voters = cast \cup With("pending")
      /\ With("approved") \cap With("pending") = {} /\ With("rejected") \cap With("pending") = {}
      /\ With("approved") \cap With("rejected") = {}
      /\ \A S \in SUBSET DOMAIN voters : IsFiniteSet(S) /\ Cardinality(S) \in Nat /\ S \subseteq Nat
  BY Kinds DEF With
<1>3. \A b \in Ballots : /\ With("approved") \subseteq InFavour(b)
                         /\ InFavour(b) \subseteq With("approved") \cup With("pending")
  BY InFavourIs
<1>4. 1 \in DOMAIN voters
  BY SomeVoter
<1>5. rule \in {"any", "all", "majority", "quorum"}
  BY DEF VInv, TypeOK, Rules
<1> HIDE DEF y, n
<1>6. CASE rule = "any"
  <2>1. \A b \in Ballots : Carried(b) <=> 1 \in InFavour(b)
    BY <1>6 DEF Carried
  <2>2. Outcome = IF cast = {} THEN "pending" ELSE voters[Min(cast)].status
    BY <1>6, RuleIs
  <2>3. CASE cast = {}
    <3>1. 1 \in With("pending") /\ 1 \notin With("approved")
      BY <1>2, <1>4, <2>3
    <3> HIDE DEF cast
    <3>2. Carried(y) /\ ~ Carried(n)
      BY <1>1, <2>1, <3>1
    <3>3. Outcome = "pending"
      BY <2>2, <2>3
    <3> QED
      BY <1>1, <3>2, <3>3
  <2>4. CASE cast # {}
    <3>1. 1 \in cast
      <4>1. PICK j \in cast : TRUE
        BY <2>4
      <4>2. j \in Cast /\ j \in DOMAIN voters /\ j \in Nat /\ j >= 1
        BY <1>2, <4>1, Kinds DEF Cast, Pending, With
      <4>3. 1 \notin Pending
        BY <4>2 DEF VInv, TypeOK
      <4> QED
        BY <1>2, <1>4, <4>3, Kinds
    <3>2. Min(cast) = 1
      <4>1. cast \subseteq Nat /\ 0 \notin cast
        BY <1>2, Kinds
      <4> HIDE DEF cast
      <4>2. Min(cast) \in cast /\ Min(cast) <= 1
        BY <3>1, <4>1, LeastOf
      <4>3. Min(cast) \in Nat /\ Min(cast) # 0
        BY <4>1, <4>2
      <4>4. \A m \in Nat : m # 0 /\ m <= 1 => m = 1
        OBVIOUS
      <4> QED
        BY <4>2, <4>3, <4>4
    <3>3. Outcome = voters[1].status
      BY <2>2, <2>4, <3>2
    <3>4. CASE 1 \in With("approved")
      <4>1. Outcome = "approved"
        BY <3>3, <3>4 DEF With
      <4>2. \A b \in Ballots : Carried(b)
        BY <1>3, <2>1, <3>4
      <4> QED
        BY <1>1, <4>1, <4>2
    <3>5. CASE 1 \in With("rejected")
      <4>1. Outcome = "rejected"
        BY <3>3, <3>5 DEF With
      <4>2. \A b \in Ballots : ~ Carried(b)
        BY <1>2, <1>3, <2>1, <3>5
      <4> QED
        BY <1>1, <4>1, <4>2
    <3> QED
      BY <3>1, <3>4, <3>5
  <2> QED
    BY <2>3, <2>4
<1>7. CASE rule = "all"
  <2>1. \A b \in Ballots : Carried(b) <=> InFavour(b) = DOMAIN voters
    BY <1>7 DEF Carried
  <2>2. Outcome = IF With("rejected") # {} THEN "rejected"
                  ELSE IF With("pending") = {} THEN "approved" ELSE "pending"
    BY <1>7, RuleIs
  <2>3. CASE With("rejected") # {}
    <3>1. \A b \in Ballots : ~ Carried(b)
      BY <1>2, <1>3, <2>1, <2>3
    <3> QED
      BY <1>1, <2>2, <2>3, <3>1
  <2>4. CASE With("rejected") = {} /\ With("pending") = {}
    <3>1. \A b \in Ballots : Carried(b)
      BY <1>2, <1>3, <2>1, <2>4
    <3> QED
      BY <1>1, <2>2, <2>4, <3>1
  <2>5. CASE With("rejected") = {} /\ With("pending") # {}
    <3>1. Carried(y) /\ ~ Carried(n)
      BY <1>1, <1>2, <2>1, <2>5
    <3> QED
      BY <1>1, <2>2, <2>5, <3>1
  <2> QED
    BY <2>3, <2>4, <2>5
<1>8. CASE rule \in {"majority", "quorum"}
  <2> DEFINE a == Cardinality(With("approved"))
             p == Cardinality(With("pending"))
  <2>1. \A b \in Ballots : Carried(b) <=> Cardinality(InFavour(b)) >= Needed
    BY <1>8 DEF Carried
  <2>2. Outcome = IF a >= Needed THEN "approved" ELSE IF a + p < Needed THEN "rejected" ELSE "pending"
    BY <1>8, RuleIs
  <2>3. Needed \in Nat
    <3>1. quorum \in Nat /\ Cardinality(DOMAIN voters) \in Nat
      BY Kinds, VotingAssumption DEF VInv, TypeOK
    <3> QED
      BY <1>8, <3>1 DEF Needed, RequiredVotes
  <2>4. /\ IsFiniteSet(With("approved") \cup With("pending"))
        /\ Cardinality(With("approved") \cup With("pending")) = a + p
        /\ a \in Nat /\ p \in Nat
    <3>1. /\ With("approved") \in SUBSET DOMAIN voters /\ With("pending") \in SUBSET DOMAIN voters
          /\ With("approved") \cup With("pending") \in SUBSET DOMAIN voters
      BY <1>2
    <3>2. /\ IsFiniteSet(With("approved")) /\ IsFiniteSet(With("pending")) /\ a \in Nat /\ p \in Nat
          /\ IsFiniteSet(With("approved") \cup With("pending"))
      BY <1>2, <3>1
    <3>3. Cardinality(With("approved") \cup With("pending"))
            = a + p - Cardinality(With("approved") \cap With("pending"))
      BY <3>2, FS_Union
    <3>4. Cardinality(With("approved") \cap With("pending")) = 0
      BY <1>2, FS_EmptySet
    <3> QED
      BY <3>2, <3>3, <3>4
  <2>5. ASSUME NEW b \in Ballots
        PROVE  a <= Cardinality(InFavour(b)) /\ Cardinality(InFavour(b)) <= a + p /\ Cardinality(InFavour(b)) \in Nat
    <3>1. IsFiniteSet(InFavour(b)) /\ Cardinality(InFavour(b)) <= Cardinality(With("approved") \cup With("pending"))
      BY <1>3, <2>4, FS_Subset
    <3>2. a <= Cardinality(InFavour(b))
      BY <1>3, <3>1, FS_Subset
    <3>3. Cardinality(InFavour(b)) \in Nat
      BY <3>1, FS_CardinalityType
    <3> QED
      BY <2>4, <3>1, <3>2, <3>3
  <2>6. /\ Carried(n) <=> a >= Needed
        /\ Carried(y) <=> a + p >= Needed
    BY <1>1, <2>1, <2>4
  <2> HIDE DEF a, p
  <2>7. CASE a >= Needed
    <3>1. \A b \in Ballots : Carried(b)
      BY <2>1, <2>3, <2>4, <2>5, <2>7
    <3> QED
      BY <1>1, <2>2, <2>7, <3>1
  <2>8. CASE ~ (a >= Needed) /\ a + p < Needed
    <3>1. \A b \in Ballots : ~ Carried(b)
      BY <2>1, <2>3, <2>4, <2>5, <2>8
    <3> QED
      BY <1>1, <2>2, <2>8, <3>1
  <2>9. CASE ~ (a >= Needed) /\ ~ (a + p < Needed)
    <3>1. Carried(y) /\ ~ Carried(n)
      BY <2>3, <2>4, <2>6, <2>9
    <3>2. Outcome = "pending"
      BY <2>2, <2>9
    <3> QED
      BY <1>1, <3>1, <3>2
  <2> QED
    BY <2>7, <2>8, <2>9
<1> QED
  BY <1>5, <1>6, <1>7, <1>8

LEMMA SettlesExactly == VInv => SettledExactly
<1> SUFFICES ASSUME VInv, voters # <<>>, \A i \in DOMAIN voters : ~ voters[i].decisive, NEW vote \in Vote
             PROVE  Outcome = vote <=> {Verdict(all) : all \in Completions} = {vote}
  BY DEF SettledExactly
<1>1. Completions = {Voted(b) : b \in Ballots}
  BY DEF Completions, Voted, Ballots
<1>2. \A b \in Ballots : Verdict(Voted(b)) = IF Carried(b) THEN "approved" ELSE "rejected"
  BY VerdictIs
<1>3. Ballots # {}
  BY Extremes
<1>4. {Verdict(all) : all \in Completions} = {IF Carried(b) THEN "approved" ELSE "rejected" : b \in Ballots}
  BY <1>1, <1>2
<1>5. vote \in {"approved", "rejected"}
  BY DEF Vote
<1>6. {IF Carried(b) THEN "approved" ELSE "rejected" : b \in Ballots} = {"approved"}
        <=> \A b \in Ballots : Carried(b)
  BY <1>3
<1>7. {IF Carried(b) THEN "approved" ELSE "rejected" : b \in Ballots} = {"rejected"}
        <=> \A b \in Ballots : ~ Carried(b)
  BY <1>3
<1>8. /\ Outcome = "approved" <=> \A b \in Ballots : Carried(b)
      /\ Outcome = "rejected" <=> \A b \in Ballots : ~ Carried(b)
  BY SettledIs
<1> QED
  BY <1>4, <1>5, <1>6, <1>7, <1>8

-----------------------------------------------------------------------------
(* The results. *)

\* Every variable keeps its type, and the voters stay in the order of step_voters: those who voted
\* before those who have not.
THEOREM TypeCorrect == Spec => []TypeOK
<1>1. VInv => TypeOK
  BY DEF VInv
<1> QED
  BY <1>1, Inductive, PTL

\* DecisiveDecides for any number of voters: whoever was escalated to and votes first ends the step with
\* that vote, so no second decisive vote is ever cast (rule 1 of evaluate_step, the "pending" asked for
\* by decide).
THEOREM DecisiveVoteDecides == Spec => []DecisiveDecides
<1>1. VInv => DecisiveDecides
  BY DEF VInv
<1> QED
  BY <1>1, Inductive, PTL

\* OpenWaitsForSomeone for any number of voters and any quorum: rules 2 to 5 of evaluate_step say
\* "pending" only as long as somebody of the step has still to vote, whoever left it.
THEOREM OpenStepAsksSomebody == Spec => []OpenWaitsForSomeone
  BY Inductive, SomebodyIsAsked, PTL

\* SettledExactly for any number of voters and any quorum: what evaluate_step counts (required_votes, the
\* votes still possible, the first vote) is what every continuation of the vote would come to.
THEOREM OutcomeIsTheVerdict == Spec => []SettledExactly
  BY Inductive, SettlesExactly, PTL
=============================================================================
