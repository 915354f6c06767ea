--------------------------- MODULE ApprovalProofs ---------------------------
(***************************************************************************)
(* Theorems of Approval, for every definition, any number of people, steps *)
(* and sweepers.                                                           *)
(*                                                                         *)
(* Every vote, refresh, removal and deadline ends in Advance, on steps,    *)
(* rows and links it has prepared.  Moved says what Advance makes of them; *)
(* MovedKeeps says that this preserves the invariant IInv, provided that   *)
(* the prepared rows fit the votes.  An action then has to show only that. *)
(***************************************************************************)
EXTENDS Approval, FiniteSetTheorems, WellFoundedInduction, TLAPS

Ballot == [by : Person, row : Person, vote : Vote]
Rows == [Step -> [Person -> RowStatus]]
Links == [Step -> SUBSET Person]
Running == Open \cup Vote

\* StagesInOrder for the steps as a handler has prepared them.
InOrder(steps) ==
    \A s, t \in Step :
        spec[s].stage < spec[t].stage /\ steps[t] \in {"active"} \cup Vote => steps[s] = "approved"

\* What becomes of the steps a handler prepared (base).
StepsMoved(base) ==
    /\ status' \in {"pending"} \cup Vote
    /\ hooks' = IF status' = "pending" THEN hooks ELSE hooks \cup {status'}
    /\ stepSt' \in [Step -> Open \cup Closed]
    /\ InOrder(stepSt')
    /\ \A s \in Step : base[s] \in Vote => stepSt'[s] = base[s]
    /\ \A s \in Step : stepSt'[s] = "waiting" => base[s] = "waiting"
    /\ status' = "pending" => \A s \in Step : stepSt'[s] \in Open \cup {"approved"}
    /\ status' # "pending" => \A s \in Step : stepSt'[s] \notin Open
    /\ status' = "approved" => \A s \in Step : stepSt'[s] = "approved"
    /\ status' = "rejected" => \E s \in Step : stepSt'[s] = "rejected"

\* What becomes of the rows it prepared.
RowsMoved(base, rows) ==
    /\ row' \in Rows
    /\ \A s \in Step, p \in Person : row'[s][p] = "pending" =>
          /\ status' = "pending" /\ stepSt'[s] = "active"
          /\ rows[s][p] = "pending" \/ (base[s] = "waiting" /\ p \notin excluded)
    /\ \A s \in Step, p \in Person : base[s] # "waiting" =>
          row'[s][p] = rows[s][p] \/ (rows[s][p] = "pending" /\ row'[s][p] = "not_needed")
    /\ \A s \in Step, p \in Person : stepSt'[s] = "waiting" => row'[s][p] = rows[s][p]

\* What becomes of the links.
LinksMoved(links) ==
    /\ live' \in Links
    /\ \A s \in Step : \A p \in live'[s] : p \in links[s] /\ row'[s][p] = "pending"

Moved(base, rows, links) == StepsMoved(base) /\ RowsMoved(base, rows) /\ LinksMoved(links)

\* A handler prepares pending rows and links only in active steps.
Prepared(base, rows, links) ==
    /\ rows \in Rows /\ links \in Links
    /\ \A s \in Step, p \in Person : rows[s][p] = "pending" => base[s] = "active"
    /\ \A s \in Step : \A p \in links[s] : rows[s][p] = "pending"

-----------------------------------------------------------------------------
(* What the engine computes. *)

LEMMA AtActivationType ==
    ASSUME spec \in [Step -> StepSpec], NEW s \in Step, NEW found
    PROVE  AtActivation(s, found) \in {"active"} \cup Vote
BY DEF AtActivation, StepSpec

\* activate_next_stage only touches waiting steps, and opens them stage by stage.
LEMMA AfterActivationKeeps ==
    ASSUME spec \in [Step -> StepSpec], NEW steps \in [Step -> Running], NEW found, InOrder(steps)
    PROVE  /\ AfterActivation(steps, found) \in [Step -> Running]
           /\ \A s \in Step : steps[s] # "waiting" => AfterActivation(steps, found)[s] = steps[s]
           /\ InOrder(AfterActivation(steps, found))
<1> DEFINE after == AfterActivation(steps, found)
<1>1. CASE \E s \in Step : steps[s] \in {"active", "rejected"}
  BY <1>1 DEF AfterActivation
<1>2. CASE ~ \E s \in Step : steps[s] \in {"active", "rejected"}
  <2>1. after = [s \in Step |-> IF s \in Reached(steps, found) THEN AtActivation(s, found[s]) ELSE steps[s]]
    BY <1>2 DEF AfterActivation
  <2>2. \A s \in Step : AtActivation(s, found[s]) \in {"active"} \cup Vote
    BY AtActivationType
  <2>3. \A s \in Step : s \in Reached(steps, found) <=>
            /\ steps[s] = "waiting"
            /\ \A t \in Step : steps[t] = "waiting" /\ spec[t].stage < spec[s].stage
                                  => AtActivation(t, found[t]) = "approved"
    BY DEF Reached
  <2>4. after \in [Step -> Running]
    BY <2>1, <2>2 DEF Running, Open
  <2>5. \A s \in Step : steps[s] # "waiting" => after[s] = steps[s]
    BY <2>1, <2>3
  <2>6. ASSUME NEW s \in Step, NEW t \in Step, spec[s].stage < spec[t].stage,
               after[t] \in {"active"} \cup Vote
        PROVE  after[s] = "approved"
    <3>1. steps[s] \in {"waiting", "approved"} /\ steps[t] \in {"waiting", "approved"}
      BY <1>2 DEF Running, Open, Vote
    <3>2. CASE steps[t] = "approved"
      <4>1. steps[s] = "approved"
        BY <2>6, <3>2 DEF InOrder, Vote
      <4> QED
        BY <4>1, <2>5
    <3>3. CASE steps[t] = "waiting"
      <4>1. t \in Reached(steps, found)
        BY <2>1, <2>6, <3>3 DEF Vote
      <4>2. CASE steps[s] = "approved"
        BY <4>2, <2>5
      <4>3. CASE steps[s] = "waiting"
        <5>1. AtActivation(s, found[s]) = "approved"
          BY <4>1, <4>3, <2>3, <2>6
        <5>2. s \in Reached(steps, found)
          <6>1. ASSUME NEW u \in Step, steps[u] = "waiting", spec[u].stage < spec[s].stage
                PROVE  AtActivation(u, found[u]) = "approved"
            <7>1. spec[u].stage \in Nat /\ spec[s].stage \in Nat /\ spec[t].stage \in Nat
              BY DEF StepSpec
            <7>2. spec[u].stage < spec[t].stage
              BY <7>1, <6>1, <2>6
            <7> QED
              BY <7>2, <6>1, <4>1, <2>3
          <6> QED
            BY <6>1, <4>3, <2>3
        <5> QED
          BY <5>1, <5>2, <2>1
      <4> QED
        BY <4>2, <4>3, <3>1
    <3> QED
      BY <3>1, <3>2, <3>3
  <2> QED
    BY <2>4, <2>5, <2>6 DEF InOrder
<1> QED
  BY <1>1, <1>2

\* Advance leaves no step behind that its result does not account for.
LEMMA AdvanceMoves ==
    ASSUME spec \in [Step -> StepSpec], NEW steps \in [Step -> Running], NEW rows, NEW links, NEW found,
           Prepared(steps, rows, links), InOrder(steps),
           \A s \in Step : steps[s] = "waiting" => found[s] \cap excluded = {},
           Step # {},
           Advance(steps, rows, links, found)
    PROVE  Moved(steps, rows, links)
<1> DEFINE after == AfterActivation(steps, found)
           added == [s \in Step |-> [p \in Person |->
                        IF steps[s] = "waiting" /\ after[s] = "active" /\ p \in found[s]
                        THEN "pending" ELSE rows[s][p]]]
           result == RequestResult({after[s] : s \in Step})
<1>1. /\ after \in [Step -> Running]
      /\ \A s \in Step : steps[s] # "waiting" => after[s] = steps[s]
      /\ InOrder(after)
  BY AfterActivationKeeps
<1>2. \/ /\ result = "pending"
         /\ status' = "pending" /\ stepSt' = after /\ row' = added /\ live' = links
         /\ hooks' = hooks
      \/ /\ result # "pending"
         /\ Finalize(result, after, added)
  BY DEF Advance
<1>3. /\ result \in {"pending"} \cup Vote
      /\ result = "approved" => \A s \in Step : after[s] = "approved"
      /\ result = "rejected" => \E s \in Step : after[s] = "rejected"
      /\ result = "pending" => \A s \in Step : after[s] # "rejected"
  BY DEF RequestResult, Vote
<1>4. rows \in Rows /\ links \in Links
  BY DEF Prepared
<1>5. /\ added \in Rows
      /\ \A s \in Step, p \in Person : added[s][p] =
            IF steps[s] = "waiting" /\ after[s] = "active" /\ p \in found[s] THEN "pending" ELSE rows[s][p]
  BY <1>4 DEF Rows, RowStatus
<1> HIDE DEF after, added, result
<1>6. CASE result = "pending"
  <2>1. status' = "pending" /\ stepSt' = after /\ row' = added /\ live' = links /\ hooks' = hooks
    BY <1>2, <1>6 DEF Finalize
  <2>2. StepsMoved(steps)
    <3>1. \A s \in Step : after[s] \in Open \cup {"approved"}
      BY <1>1, <1>3, <1>6 DEF Running, Open, Vote
    <3>2. after \in [Step -> Open \cup Closed]
      BY <1>1 DEF Running, Closed
    <3>3. \A s \in Step : steps[s] \in Vote => after[s] = steps[s]
      BY <1>1 DEF Vote
    <3>4. \A s \in Step : after[s] = "waiting" => steps[s] = "waiting"
      BY <1>1
    <3>5. InOrder(stepSt')
      BY <1>1, <2>1
    <3> QED
      BY <2>1, <3>1, <3>2, <3>3, <3>4, <3>5 DEF StepsMoved
  <2>3. RowsMoved(steps, rows)
    <3>1. ASSUME NEW s \in Step, NEW p \in Person, added[s][p] = "pending"
          PROVE  /\ after[s] = "active"
                 /\ rows[s][p] = "pending" \/ (steps[s] = "waiting" /\ p \notin excluded)
      <4>1. CASE rows[s][p] = "pending"
        <5>1. steps[s] = "active"
          BY <4>1 DEF Prepared
        <5>2. after[s] = steps[s]
          BY <5>1, <1>1
        <5> QED
          BY <4>1, <5>1, <5>2
      <4>2. CASE rows[s][p] # "pending"
        <5>1. steps[s] = "waiting" /\ after[s] = "active" /\ p \in found[s]
          BY <4>2, <3>1, <1>5
        <5> QED
          BY <5>1
      <4> QED
        BY <4>1, <4>2
    <3>2. \A s \in Step, p \in Person : steps[s] # "waiting" => added[s][p] = rows[s][p]
      BY <1>5
    <3>3. \A s \in Step, p \in Person : after[s] = "waiting" => added[s][p] = rows[s][p]
      BY <1>5
    <3>4. row' = added /\ stepSt' = after /\ status' = "pending" /\ added \in Rows
      BY <2>1, <1>5
    <3> QED
      BY <3>1, <3>2, <3>3, <3>4 DEF RowsMoved
  <2>4. LinksMoved(links)
    <3>1. ASSUME NEW s \in Step, NEW p \in links[s]
          PROVE  added[s][p] = "pending"
      <4>1. p \in Person
        BY <1>4 DEF Links
      <4>2. rows[s][p] = "pending"
        BY DEF Prepared
      <4> QED
        BY <4>1, <4>2, <1>5
    <3> QED
      BY <3>1, <2>1, <1>4 DEF LinksMoved
  <2> QED
    BY <2>2, <2>3, <2>4 DEF Moved
<1>7. CASE result # "pending"
  <2>1. /\ status' = result
        /\ stepSt' = [s \in Step |-> IF after[s] \in Open THEN "cancelled" ELSE after[s]]
        /\ row' = [s \in Step |-> [p \in Person |->
                      IF after[s] \in Open /\ added[s][p] = "pending" THEN "not_needed" ELSE added[s][p]]]
        /\ live' = [s \in Step |-> {}]
        /\ hooks' = hooks \cup {result}
    BY <1>2, <1>7 DEF Finalize
  <2>2. StepsMoved(steps)
    <3>1. status' \in Vote /\ hooks' = hooks \cup {status'}
      BY <2>1, <1>3, <1>7
    <3>2. \A s \in Step : stepSt'[s] = IF after[s] \in Open THEN "cancelled" ELSE after[s]
      BY <2>1
    <3>3. stepSt' \in [Step -> Open \cup Closed]
      BY <2>1, <1>1 DEF Running, Closed
    <3>4. \A s \in Step : stepSt'[s] \notin Open
      BY <3>2 DEF Open
    <3>5. \A s \in Step : steps[s] \in Vote => stepSt'[s] = steps[s]
      BY <3>2, <1>1 DEF Vote, Open
    <3>6. InOrder(stepSt')
      <4>1. \A s \in Step : stepSt'[s] \in {"active"} \cup Vote => after[s] \in {"active"} \cup Vote
        BY <3>2 DEF Open, Vote
      <4>2. \A s \in Step : after[s] = "approved" => stepSt'[s] = "approved"
        BY <3>2 DEF Open
      <4> QED
        BY <4>1, <4>2, <1>1 DEF InOrder
    <3>7. status' = "approved" => \A s \in Step : stepSt'[s] = "approved"
      BY <2>1, <1>3, <3>2 DEF Open
    <3>8. status' = "rejected" => \E s \in Step : stepSt'[s] = "rejected"
      BY <2>1, <1>3, <3>2 DEF Open
    <3>9. status' # "pending"
      BY <3>1 DEF Vote
    <3>10. \A s \in Step : stepSt'[s] # "waiting"
      BY <3>4 DEF Open
    <3> QED
      BY <3>1, <3>3, <3>4, <3>5, <3>6, <3>7, <3>8, <3>9, <3>10 DEF StepsMoved
  <2>3. \A s \in Step, p \in Person : row'[s][p] =
           IF after[s] \in Open /\ added[s][p] = "pending" THEN "not_needed" ELSE added[s][p]
    BY <2>1
  <2>4. row' \in Rows
    BY <2>1, <1>5 DEF Rows, RowStatus
  <2>5. \A s \in Step, p \in Person : row'[s][p] # "pending"
    <3>1. ASSUME NEW s \in Step, NEW p \in Person, added[s][p] = "pending"
          PROVE  after[s] \in Open
      <4>1. steps[s] = "active" \/ after[s] = "active"
        BY <3>1, <1>5 DEF Prepared
      <4> QED
        BY <4>1, <1>1 DEF Open
    <3> QED
      BY <3>1, <2>3
  <2>6. \A s \in Step, p \in Person : steps[s] # "waiting" =>
           row'[s][p] = rows[s][p] \/ (rows[s][p] = "pending" /\ row'[s][p] = "not_needed")
    <3>1. \A s \in Step, p \in Person : steps[s] # "waiting" => added[s][p] = rows[s][p]
      BY <1>5
    <3> QED
      BY <2>3, <3>1
  <2>7. \A s \in Step : stepSt'[s] # "waiting"
    BY <2>1 DEF Open
  <2>8. LinksMoved(links)
    BY <2>1 DEF LinksMoved, Links
  <2> QED
    BY <2>2, <2>4, <2>5, <2>6, <2>7, <2>8 DEF Moved, RowsMoved
<1> QED
  BY <1>6, <1>7

-----------------------------------------------------------------------------
(* What a handler owes the invariant: its rows fit the votes. *)

Fits(base, rows, cast) ==
    /\ cast \in [Step -> Seq(Ballot)]
    /\ \A s \in Step : base[s] = "waiting" => cast[s] = <<>> /\ \A p \in Person : rows[s][p] = "none"
    /\ \A s \in Step : \A i \in DOMAIN cast[s] : rows[s][cast[s][i].row] = cast[s][i].vote
    /\ \A s \in Step : \A i, j \in DOMAIN cast[s] :
          cast[s][i].by = cast[s][j].by \/ cast[s][i].row = cast[s][j].row => i = j
    /\ \A s \in Step, p \in Person : rows[s][p] = "pending" =>
          p \notin excluded /\ \A i \in DOMAIN cast[s] : cast[s][i].by # p

LEMMA MovedKeeps ==
    ASSUME NEW base \in [Step -> Running], NEW rows, NEW links,
           Prepared(base, rows, links), Moved(base, rows, links), Fits(base, rows, votes'),
           hooks = {}, spec' = spec, excluded' = excluded
    PROVE  Consistent'
<1> DEFINE cast == votes'
<1>1. status' \in {"pending", "approved", "rejected"}
  BY DEF Moved, StepsMoved, Vote
<1>2. \A s \in Step : stepSt'[s] \in Open \cup Closed
  BY DEF Moved, StepsMoved
<1>3. StatusFits'
  BY <1>1 DEF StatusFits, Moved, StepsMoved
<1>4. \A s \in Step : \A i \in DOMAIN cast[s] :
         cast[s][i].row \in Person /\ cast[s][i].vote \in Vote
  <2>1. ASSUME NEW s \in Step, NEW i \in DOMAIN cast[s]
        PROVE  cast[s][i] \in Ballot
    <3>1. cast[s] \in Seq(Ballot)
      BY DEF Fits
    <3> HIDE DEF cast
    <3> QED
      BY <3>1
  <2> QED
    BY <2>1 DEF Ballot
<1>5. \A s \in Step : stepSt'[s] # "none"
  BY <1>2 DEF Open, Closed, Vote
<1>6. Untouched'
  <2>1. ASSUME NEW s \in Step, stepSt'[s] = "waiting"
        PROVE  votes'[s] = <<>> /\ \A p \in Person : row'[s][p] = "none"
    <3>1. base[s] = "waiting"
      BY <2>1 DEF Moved, StepsMoved
    <3>2. \A p \in Person : row'[s][p] = rows[s][p]
      BY <2>1 DEF Moved, RowsMoved
    <3> QED
      BY <3>1, <3>2 DEF Fits
  <2> QED
    BY <1>5, <2>1 DEF Untouched
<1>7. Recorded'
  <2>1. ASSUME NEW s \in Step, NEW i \in DOMAIN cast[s]
        PROVE  row'[s][cast[s][i].row] = cast[s][i].vote
    <3>1. base[s] # "waiting"
      BY DEF Fits
    <3>2. rows[s][cast[s][i].row] = cast[s][i].vote
      BY DEF Fits
    <3>3. rows[s][cast[s][i].row] # "pending"
      BY <3>2, <1>4 DEF Vote
    <3> QED
      BY <3>1, <3>2, <3>3, <1>4 DEF Moved, RowsMoved
  <2> QED
    BY <2>1 DEF Recorded
<1>8. OnePersonOneVote'
  BY DEF Fits, OnePersonOneVote
<1>9. PendingMayVote'
  <2>1. ASSUME NEW s \in Step, NEW p \in Person, row'[s][p] = "pending"
        PROVE  /\ status' = "pending" /\ stepSt'[s] = "active"
               /\ p \notin excluded /\ \A i \in DOMAIN cast[s] : cast[s][i].by # p
    <3>1. status' = "pending" /\ stepSt'[s] = "active"
      BY <2>1 DEF Moved, RowsMoved
    <3>2. CASE rows[s][p] = "pending"
      BY <3>1, <3>2 DEF Fits
    <3>3. CASE base[s] = "waiting" /\ p \notin excluded
      <4>1. cast[s] = <<>>
        BY <3>3 DEF Fits
      <4> QED
        BY <3>1, <3>3, <4>1
    <3> QED
      BY <3>2, <3>3, <2>1 DEF Moved, RowsMoved
  <2> QED
    BY <2>1 DEF PendingMayVote, VotersIn
<1>10. LinksFollowRows'
  BY DEF LinksFollowRows, Moved, LinksMoved
<1>11. StagesInOrder'
  BY DEF StagesInOrder, Moved, StepsMoved, InOrder
<1>12. ClosedAddsUp'
  <2>1. hooks' = IF status' \in Closed THEN {status'} ELSE {}
    BY <1>1 DEF Moved, StepsMoved, Closed, Vote
  <2>2. status' \in Closed => \A s \in Step : stepSt'[s] \notin Open
    BY <1>1 DEF Moved, StepsMoved, Closed, Vote
  <2>3. status' = "approved" => \A s \in Step : stepSt'[s] = "approved"
    BY DEF Moved, StepsMoved
  <2>4. status' = "rejected" => \E s \in Step : stepSt'[s] = "rejected"
    BY DEF Moved, StepsMoved
  <2>5. status' = "pending" => \A s \in Step : stepSt'[s] \notin {"rejected", "cancelled"}
    BY DEF Moved, StepsMoved, Open
  <2>6. (WithStatus("waiting") \cup WithStatus("active") = {})' <=> \A s \in Step : stepSt'[s] \notin Open
    BY DEF WithStatus, Open
  <2>7. (\A s \in Step : stepSt'[s] = "approved") => (WithStatus("approved") \cup WithStatus("none") = Step)'
    BY DEF WithStatus
  <2>8. (\E s \in Step : stepSt'[s] = "rejected") => (WithStatus("rejected") # {})'
    BY DEF WithStatus
  <2>9. (\A s \in Step : stepSt'[s] \notin {"rejected", "cancelled"})
           => (WithStatus("rejected") \cup WithStatus("cancelled") = {})'
    BY DEF WithStatus
  <2> QED
    BY <2>1, <2>2, <2>3, <2>4, <2>5, <2>6, <2>7, <2>8, <2>9 DEF ClosedAddsUp
<1> QED
  BY <1>3, <1>6, <1>7, <1>8, <1>9, <1>10, <1>11, <1>12 DEF Consistent

\* Closing steps and opening the next stage.
LEMMA CloseStepsMoves ==
    ASSUME spec \in [Step -> StepSpec], stepSt \in [Step -> {"none"} \cup Open \cup Closed],
           status = "pending", StatusFits, StagesInOrder, Step # {},
           NEW outcome, NEW rows, NEW links,
           \A s \in Step : outcome[s] \in {"pending"} \cup Vote,
           \A s \in Step : outcome[s] # "pending" => stepSt[s] = "active",
           Prepared(stepSt, rows, links),
           CloseSteps(outcome, rows, links)
    PROVE  \E base \in [Step -> Running], left \in Rows, kept \in Links :
              /\ Prepared(base, left, kept) /\ Moved(base, left, kept)
              /\ \A s \in Step : base[s] = "waiting" <=> stepSt[s] = "waiting"
              /\ \A s \in Step : stepSt[s] \in Closed => base[s] = stepSt[s] /\ base[s] \in Vote
              /\ \A s \in Step, p \in Person :
                    left[s][p] = rows[s][p] \/ (rows[s][p] = "pending" /\ left[s][p] = "not_needed")
<1> DEFINE over == {s \in Step : outcome[s] # "pending"}
           base == [s \in Step |-> IF s \in over THEN outcome[s] ELSE stepSt[s]]
           left == [s \in Step |-> [p \in Person |->
                       IF s \in over /\ rows[s][p] = "pending" THEN "not_needed" ELSE rows[s][p]]]
           kept == [s \in Step |-> IF s \in over THEN links[s] \ PendingIn(rows, s) ELSE links[s]]
<1>1. PICK found \in Resolutions(WithStatus("waiting")) : Advance(base, left, kept, found)
  BY DEF CloseSteps
<1>2. \A s \in Step : stepSt[s] \in {"waiting", "active", "approved"}
  BY DEF StatusFits, Open
<1>3. base \in [Step -> Running]
  BY <1>2 DEF Running, Open, Vote
<1>4. \A s \in Step : base[s] = IF s \in over THEN outcome[s] ELSE stepSt[s]
  OBVIOUS
<1>5. \A s \in over : stepSt[s] = "active" /\ outcome[s] \in Vote
  OBVIOUS
<1>6. \A s \in Step : base[s] = "waiting" <=> stepSt[s] = "waiting"
  BY <1>4, <1>5 DEF Vote
<1>7. \A s \in Step : stepSt[s] \in Closed => base[s] = stepSt[s] /\ base[s] \in Vote
  BY <1>2, <1>4, <1>5 DEF Closed, Vote
<1>8. rows \in Rows /\ links \in Links
  BY DEF Prepared
<1>9. \A s \in Step, p \in Person : left[s][p] =
          IF s \in over /\ rows[s][p] = "pending" THEN "not_needed" ELSE rows[s][p]
  OBVIOUS
<1>10. left \in Rows /\ kept \in Links
  BY <1>8 DEF Rows, RowStatus, Links
<1>11. \A s \in Step : kept[s] = IF s \in over THEN links[s] \ PendingIn(rows, s) ELSE links[s]
  OBVIOUS
<1> HIDE DEF over, base, left, kept
<1>12. Prepared(base, left, kept)
  <2>1. ASSUME NEW s \in Step, NEW p \in Person, left[s][p] = "pending"
        PROVE  base[s] = "active"
    <3>1. rows[s][p] = "pending" /\ s \notin over
      BY <2>1, <1>9
    <3>2. stepSt[s] = "active"
      BY <3>1 DEF Prepared
    <3> QED
      BY <3>1, <3>2, <1>4
  <2>2. ASSUME NEW s \in Step, NEW p \in kept[s]
        PROVE  left[s][p] = "pending"
    <3>1. p \in links[s] /\ p \in Person
      BY <1>11, <1>8, <2>2 DEF Links
    <3>2. rows[s][p] = "pending"
      BY <3>1 DEF Prepared
    <3>3. s \notin over
      BY <3>1, <3>2, <2>2, <1>11 DEF PendingIn
    <3> QED
      BY <3>1, <3>2, <3>3, <1>9
  <2> QED
    BY <1>10, <2>1, <2>2 DEF Prepared
<1>13. InOrder(base)
  <2>1. ASSUME NEW s \in Step, NEW t \in Step, spec[s].stage < spec[t].stage,
               base[t] \in {"active"} \cup Vote
        PROVE  base[s] = "approved"
    <3>1. stepSt[t] \in {"active"} \cup Vote
      BY <2>1, <1>4, <1>5
    <3>2. stepSt[s] = "approved"
      BY <2>1, <3>1 DEF StagesInOrder
    <3> QED
      BY <3>2, <1>7 DEF Closed, Vote
  <2> QED
    BY <2>1 DEF InOrder
<1>14. \A s \in Step : base[s] = "waiting" => found[s] \cap excluded = {}
  <2>1. ASSUME NEW s \in Step, base[s] = "waiting"
        PROVE  found[s] \cap excluded = {}
    <3>1. s \in WithStatus("waiting")
      BY <2>1, <1>6 DEF WithStatus
    <3> QED
      BY <3>1 DEF Resolutions
  <2> QED
    BY <2>1
<1>15. Moved(base, left, kept)
  BY <1>1, <1>3, <1>12, <1>13, <1>14, AdvanceMoves
<1> QED
  BY <1>3, <1>6, <1>7, <1>9, <1>10, <1>12, <1>15

\* What every handler that ends in CloseSteps keeps.
LEMMA CloseStepsKeeps ==
    ASSUME IInv, status = "pending", NEW outcome, NEW rows, NEW links,
           \A s \in Step : outcome[s] \in {"pending"} \cup Vote,
           \A s \in Step : outcome[s] # "pending" => stepSt[s] = "active",
           Prepared(stepSt, rows, links), Fits(stepSt, rows, votes'),
           UNCHANGED request,
           CloseSteps(outcome, rows, links)
    PROVE  /\ Consistent'
           /\ status' \in {"pending"} \cup Vote
           /\ stepSt' \in [Step -> {"none"} \cup Open \cup Closed]
           /\ row' \in Rows /\ live' \in Links
           /\ hooks' \subseteq Closed
           /\ \A s \in Step : stepSt[s] \in Closed => stepSt'[s] = stepSt[s]
<1>1. spec \in [Step -> StepSpec] /\ Step # {}
  BY ApprovalAssumption DEF IInv, TypeOK
<1>2. PICK base \in [Step -> Running], left \in Rows, kept \in Links :
         /\ Prepared(base, left, kept) /\ Moved(base, left, kept)
         /\ \A s \in Step : base[s] = "waiting" <=> stepSt[s] = "waiting"
         /\ \A s \in Step : stepSt[s] \in Closed => base[s] = stepSt[s] /\ base[s] \in Vote
         /\ \A s \in Step, p \in Person :
               left[s][p] = rows[s][p] \/ (rows[s][p] = "pending" /\ left[s][p] = "not_needed")
  <2>1. stepSt \in [Step -> {"none"} \cup Open \cup Closed] /\ StatusFits /\ StagesInOrder
    BY DEF IInv, TypeOK, Consistent
  <2> QED
    BY <1>1, <2>1, CloseStepsMoves
<1>3. hooks = {} /\ spec' = spec /\ excluded' = excluded
  BY DEF IInv, Consistent, ClosedAddsUp, request, Closed, Vote
<1>4. Fits(base, left, votes')
  <2> DEFINE cast == votes'
  <2>1. cast \in [Step -> Seq(Ballot)]
    BY DEF Fits
  <2>2. ASSUME NEW s \in Step, NEW i \in DOMAIN cast[s]
        PROVE  left[s][cast[s][i].row] = cast[s][i].vote
    <3>1. cast[s] \in Seq(Ballot)
      BY <2>1
    <3>2. cast[s][i] \in Ballot
      <4> HIDE DEF cast
      <4> QED
        BY <3>1
    <3>3. cast[s][i].row \in Person /\ cast[s][i].vote # "pending"
      BY <3>2 DEF Ballot, Vote
    <3>4. rows[s][cast[s][i].row] = cast[s][i].vote
      BY DEF Fits
    <3> QED
      BY <1>2, <3>3, <3>4
  <2>3. ASSUME NEW s \in Step, base[s] = "waiting"
        PROVE  cast[s] = <<>> /\ \A p \in Person : left[s][p] = "none"
    <3>1. cast[s] = <<>> /\ \A p \in Person : rows[s][p] = "none"
      BY <1>2, <2>3 DEF Fits
    <3> QED
      BY <1>2, <3>1
  <2>4. \A s \in Step, p \in Person : left[s][p] = "pending" => rows[s][p] = "pending"
    BY <1>2
  <2> QED
    BY <2>1, <2>2, <2>3, <2>4 DEF Fits
<1>5. Consistent'
  BY <1>2, <1>3, <1>4, MovedKeeps
<1>6. /\ status' \in {"pending"} \cup Vote
      /\ stepSt' \in [Step -> {"none"} \cup Open \cup Closed]
      /\ row' \in Rows /\ live' \in Links
  BY <1>2 DEF Moved, StepsMoved, RowsMoved, LinksMoved
<1>7. hooks' \subseteq Closed
  BY <1>2, <1>3, <1>6 DEF Moved, StepsMoved, Closed
<1>8. \A s \in Step : stepSt[s] \in Closed => stepSt'[s] = stepSt[s]
  BY <1>2 DEF Moved, StepsMoved
<1> QED
  BY <1>5, <1>6, <1>7, <1>8

\* Rows a handler prepared without a vote fit the votes there are.
LEMMA RevisedRowsFit ==
    ASSUME IInv, NEW rows \in Rows,
           \A s \in Step, p \in Person : row[s][p] \in Vote => rows[s][p] = row[s][p],
           \A s \in Step, p \in Person : stepSt[s] = "waiting" => rows[s][p] = row[s][p],
           \A s \in Step, p \in Person : rows[s][p] = "pending" => p \notin VotersIn(s) \cup excluded
    PROVE  Fits(stepSt, rows, votes)
<1>1. votes \in [Step -> Seq(Ballot)]
  BY DEF IInv, TypeOK, Ballot
<1>2. ASSUME NEW s \in Step, NEW i \in DOMAIN votes[s]
      PROVE  rows[s][votes[s][i].row] = votes[s][i].vote
  <2>1. votes[s][i] \in Ballot
    <3>1. votes[s] \in Seq(Ballot)
      BY <1>1
    <3> QED
      BY <3>1
  <2>2. votes[s][i].row \in Person /\ votes[s][i].vote \in Vote
    BY <2>1 DEF Ballot
  <2>3. row[s][votes[s][i].row] = votes[s][i].vote
    BY DEF IInv, Consistent, Recorded
  <2> QED
    BY <2>2, <2>3
<1>3. \A s \in Step : stepSt[s] = "waiting" =>
         votes[s] = <<>> /\ \A p \in Person : rows[s][p] = "none"
  BY DEF IInv, Consistent, Untouched
<1>4. \A s \in Step : \A i, j \in DOMAIN votes[s] :
         votes[s][i].by = votes[s][j].by \/ votes[s][i].row = votes[s][j].row => i = j
  BY DEF IInv, Consistent, OnePersonOneVote
<1>5. \A s \in Step, p \in Person : rows[s][p] = "pending" =>
         p \notin excluded /\ \A i \in DOMAIN votes[s] : votes[s][i].by # p
  BY DEF VotersIn
<1> QED
  BY <1>1, <1>2, <1>3, <1>4, <1>5 DEF Fits

-----------------------------------------------------------------------------
(* The verdict of a step is a vote or none. *)

\* A set of naturals has an element below all others.
LEMMA LeastOf ==
    ASSUME NEW R, IsWellFoundedOn(R, Nat), \A x, y \in Nat : y < x => <<y, x>> \in R,
           NEW S, S \subseteq Nat, S # {}
    PROVE  \E x \in S : \A y \in S : x <= y
<1>1. PICK x \in S : \A y \in S : ~ (<<y, x>> \in R)
  BY WFMin
<1>2. ASSUME NEW y \in S
      PROVE  x <= y
  <2>1. x \in Nat /\ y \in Nat
    OBVIOUS
  <2>2. ~ (y < x)
    BY <1>1, <2>1
  <2> QED
    BY <2>1, <2>2
<1> QED
  BY <1>2

\* Min picks the vote that was cast first.
LEMMA MinIn ==
    ASSUME NEW S, S \subseteq Nat, S # {}
    PROVE  Min(S) \in S
<1>1. \A x, y \in Nat : y < x => <<y, x>> \in OpToRel(<, Nat)
  BY DEF OpToRel
<1>2. \E x \in S : \A y \in S : x <= y
  BY <1>1, NatLessThanWellFounded, LeastOf
<1> QED
  BY <1>2 DEF Min

\* evaluate_step returns one of its three results.
LEMMA EvaluateStepType ==
    ASSUME NEW rule, NEW quorum, NEW voters, DOMAIN voters \subseteq Nat,
           \A i \in DOMAIN voters : voters[i].status \in {"pending"} \cup Vote
    PROVE  EvaluateStep(rule, quorum, voters) \in {"pending"} \cup Vote
<1> DEFINE alone == {i \in DOMAIN voters : voters[i].decisive /\ voters[i].status # "pending"}
           regular == {i \in DOMAIN voters : voters[i].regular}
           With(st) == {i \in regular : voters[i].status = st}
           cast == With("approved") \cup With("rejected")
<1>1. alone # {} => voters[Min(alone)].status \in Vote
  BY MinIn
<1>2. cast # {} => voters[Min(cast)].status \in Vote
  BY MinIn DEF Vote
<1>3. RuleOutcome(rule, quorum, voters) \in {"pending"} \cup Vote
  <2>1. CASE regular = {}
    BY <2>1 DEF RuleOutcome
  <2>2. CASE regular # {} /\ rule = "any"
    BY <2>2, <1>2 DEF RuleOutcome
  <2>3. CASE regular # {} /\ rule = "all"
    BY <2>3 DEF RuleOutcome, Vote
  <2>4. CASE regular # {} /\ rule # "any" /\ rule # "all"
    BY <2>4 DEF RuleOutcome, Vote
  <2> QED
    BY <2>1, <2>2, <2>3, <2>4
<1> QED
  BY <1>1, <1>3 DEF EvaluateStep

\* The pending voters can be listed.
LEMMA ListedIsSequence ==
    ASSUME NEW S, IsFiniteSet(S)
    PROVE  SetToSeq(S) \in Seq(S)
<1>1. Cardinality(S) \in Nat /\ ExistsBijection(1..Cardinality(S), S)
  BY FS_CardinalityType
<1>2. \E f \in [1..Cardinality(S) -> S] : IsInjective(f)
  BY <1>1 DEF ExistsBijection, Bijection, Injection
<1>3. SetToSeq(S) \in [1..Cardinality(S) -> S]
  BY <1>2 DEF SetToSeq
<1> QED
  BY <1>1, <1>3

\* What a step's votes amount to, for the rows a handler prepared.
LEMMA OutcomeType ==
    ASSUME IsFiniteSet(Person), NEW s \in Step, NEW rows, NEW cast \in Seq(Ballot),
           \A i \in DOMAIN cast : rows[s][cast[i].row] = cast[i].vote
    PROVE  Outcome(s, rows, cast) \in {"pending"} \cup Vote
<1> DEFINE pending == SetToSeq(PendingIn(rows, s))
           first == [i \in DOMAIN cast |-> AsVoter(s, cast[i].row, rows[s][cast[i].row])]
           last == [i \in DOMAIN pending |-> AsVoter(s, pending[i], "pending")]
           voters == StepVoters(s, rows, cast)
<1>1. PendingIn(rows, s) \in SUBSET Person
  BY DEF PendingIn
<1>2. pending \in Seq(PendingIn(rows, s))
  BY <1>1, FS_Subset, ListedIsSequence
<1>3. ASSUME NEW i \in DOMAIN cast
      PROVE  first[i].status \in {"pending"} \cup Vote
  <2>1. cast[i] \in Ballot
    OBVIOUS
  <2>2. rows[s][cast[i].row] \in Vote
    BY <2>1 DEF Ballot
  <2> QED
    BY <2>2 DEF AsVoter
<1>4. ASSUME NEW i \in DOMAIN pending
      PROVE  last[i].status \in {"pending"} \cup Vote
  BY DEF AsVoter
<1>5. voters = first \o last
  BY DEF StepVoters
<1>6. Len(cast) \in Nat /\ DOMAIN cast = 1..Len(cast) /\ Len(pending) \in Nat /\ DOMAIN pending = 1..Len(pending)
  BY <1>2
<1> DEFINE states == {first[i] : i \in DOMAIN cast} \cup {last[i] : i \in DOMAIN pending}
<1>7. first \in Seq(states) /\ last \in Seq(states)
  BY <1>6
<1>8. \A v \in states : v.status \in {"pending"} \cup Vote
  BY <1>3, <1>4
<1> HIDE DEF first, last, states, pending
<1>9. voters \in Seq(states)
  BY <1>5, <1>7
<1>10. DOMAIN voters \subseteq Nat /\ \A i \in DOMAIN voters : voters[i] \in states
  <2> HIDE DEF voters
  <2> QED
    BY <1>9
<1>11. EvaluateStep(spec[s].rule, spec[s].quorum, voters) \in {"pending"} \cup Vote
  <2> HIDE DEF voters
  <2> QED
    BY <1>8, <1>10, EvaluateStepType
<1> QED
  BY <1>11 DEF Outcome

-----------------------------------------------------------------------------
(* One lemma per operation. *)

\* DecisionsStand, of one step.
Stands ==
    /\ status \in Closed => status' = status
    /\ \A s \in Step : /\ stepSt[s] \in Closed => stepSt'[s] = stepSt[s] /\ votes'[s] = votes[s]
                       /\ \A i \in DOMAIN votes[s] : votes'[s][i] = votes[s][i]

\* A vote: the rows and links it prepares fit the votes with it.
LEMMA DecidePrepares ==
    ASSUME IInv, NEW p \in Person, NEW s \in Step, NEW q \in Person, NEW vote \in Vote,
           Decide(p, s, q, vote)
    PROVE  \E rows \in Rows, links \in Links, cast \in Seq(Ballot) :
              /\ cast = Append(votes[s], [by |-> p, row |-> q, vote |-> vote])
              /\ votes' = [votes EXCEPT ![s] = cast]
              /\ CloseSteps(Only(s, Outcome(s, rows, cast)), rows, links)
              /\ Outcome(s, rows, cast) \in {"pending"} \cup Vote
              /\ Fits(stepSt, rows, votes') /\ Prepared(stepSt, rows, links)
              /\ \A t \in Step, x \in Person : /\ t # s => rows[t][x] = row[t][x]
                                               /\ rows[t][x] = "none" => row[t][x] = "none"
<1> DEFINE ballot == [by |-> p, row |-> q, vote |-> vote]
           cast == Append(votes[s], ballot)
           dead == PendingIn(row, s) \cap ({p} \ {q})
           rows == [row EXCEPT ![s] = [x \in Person |-> IF x = q THEN vote
                                                        ELSE IF x \in dead THEN "not_needed"
                                                        ELSE row[s][x]]]
           links == [live EXCEPT ![s] = @ \ ({q} \cup dead)]
           outcome == Only(s, Outcome(s, rows, cast))
<1>1. /\ status = "pending" /\ stepSt[s] = "active" /\ row[s][q] = "pending"
      /\ p \notin VotersIn(s)
      /\ votes' = [votes EXCEPT ![s] = cast]
      /\ CloseSteps(outcome, rows, links)
      /\ UNCHANGED <<request, rowsOf, sweeps>>
  BY DEF Decide
<1>2. /\ votes \in [Step -> Seq(Ballot)] /\ row \in Rows /\ live \in Links
      /\ stepSt \in [Step -> {"none"} \cup Open \cup Closed]
  BY DEF IInv, TypeOK, Ballot, Rows, Links
<1>3. ballot \in Ballot /\ cast \in Seq(Ballot)
  <2>1. ballot \in Ballot
    BY DEF Ballot
  <2>2. votes[s] \in Seq(Ballot)
    BY <1>2
  <2> HIDE DEF ballot
  <2> QED
    BY <2>1, <2>2
<1>4. /\ \A t \in Step, x \in Person : rows[t][x] =
            IF t = s THEN IF x = q THEN vote
                          ELSE IF x \in dead THEN "not_needed" ELSE row[t][x]
            ELSE row[t][x]
      /\ rows \in Rows
  BY <1>2 DEF Rows, RowStatus
<1>5. /\ \A t \in Step : links[t] = IF t = s THEN live[s] \ ({q} \cup dead) ELSE live[t]
      /\ links \in Links
  BY <1>2 DEF Links
<1>6. /\ \A t \in Step : votes'[t] = IF t = s THEN cast ELSE votes[t]
      /\ votes' \in [Step -> Seq(Ballot)]
  BY <1>1, <1>2, <1>3
<1>7. /\ DOMAIN cast = 1 .. Len(votes[s]) + 1 /\ DOMAIN votes[s] = 1 .. Len(votes[s])
      /\ Len(votes[s]) \in Nat
      /\ \A i \in DOMAIN votes[s] : cast[i] = votes[s][i]
      /\ cast[Len(votes[s]) + 1] = ballot
  BY <1>2, <1>3
<1>8. \A t \in Step : \A i \in DOMAIN votes[t] :
         votes[t][i] \in Ballot /\ row[t][votes[t][i].row] = votes[t][i].vote
  <2>1. ASSUME NEW t \in Step, NEW i \in DOMAIN votes[t]
        PROVE  votes[t][i] \in Ballot
    <3>1. votes[t] \in Seq(Ballot)
      BY <1>2
    <3> QED
      BY <3>1
  <2> QED
    BY <2>1 DEF IInv, Consistent, Recorded
<1>9. dead \subseteq {x \in Person : row[s][x] = "pending"} /\ (p # q /\ row[s][p] = "pending" => p \in dead)
  BY DEF PendingIn
<1> HIDE DEF cast, dead, rows, links, ballot
<1>10. \A t \in Step : \A i \in DOMAIN votes[t] : rows[t][votes[t][i].row] = votes[t][i].vote
  <2>1. ASSUME NEW t \in Step, NEW i \in DOMAIN votes[t]
        PROVE  rows[t][votes[t][i].row] = votes[t][i].vote
    <3>1. votes[t][i].row \in Person /\ votes[t][i].vote \in Vote /\ row[t][votes[t][i].row] = votes[t][i].vote
      BY <1>8 DEF Ballot
    <3>2. row[t][votes[t][i].row] # "pending"
      BY <3>1 DEF Vote
    <3> QED
      BY <3>1, <3>2, <1>1, <1>4, <1>9
  <2> QED
    BY <2>1
<1>11. \A i \in DOMAIN cast : rows[s][cast[i].row] = cast[i].vote
  <2>1. rows[s][ballot.row] = ballot.vote
    BY <1>4 DEF ballot
  <2> QED
    BY <2>1, <1>7, <1>10
<1>12. Fits(stepSt, rows, votes')
  <2>1. ASSUME NEW t \in Step, stepSt[t] = "waiting"
        PROVE  votes'[t] = <<>> /\ \A x \in Person : rows[t][x] = "none"
    <3>1. t # s
      BY <2>1, <1>1
    <3>2. votes[t] = <<>> /\ \A x \in Person : row[t][x] = "none"
      BY <2>1 DEF IInv, Consistent, Untouched
    <3> QED
      BY <3>1, <3>2, <1>4, <1>6
  <2>2. ASSUME NEW t \in Step, NEW i \in DOMAIN votes'[t]
        PROVE  rows[t][votes'[t][i].row] = votes'[t][i].vote
    BY <1>6, <1>10, <1>11
  <2>3. ASSUME NEW t \in Step, NEW i \in DOMAIN votes'[t], NEW j \in DOMAIN votes'[t],
               votes'[t][i].by = votes'[t][j].by \/ votes'[t][i].row = votes'[t][j].row
        PROVE  i = j
    <3>1. \A k, l \in DOMAIN votes[t] :
             votes[t][k].by = votes[t][l].by \/ votes[t][k].row = votes[t][l].row => k = l
      BY DEF IInv, Consistent, OnePersonOneVote
    <3>2. CASE t # s
      BY <3>1, <3>2, <2>3, <1>6
    <3>3. CASE t = s
      <4>1. ASSUME NEW k \in DOMAIN votes[s]
            PROVE  votes[s][k].by # p /\ votes[s][k].row # q
        <5>1. votes[s][k].by # p
          BY <1>1 DEF VotersIn
        <5>2. row[s][votes[s][k].row] # "pending"
          BY <1>8 DEF Vote, Ballot
        <5> QED
          BY <5>1, <5>2, <1>1
      <4>2. ballot.by = p /\ ballot.row = q
        BY DEF ballot
      <4>3. votes'[t] = cast
        BY <3>3, <1>6
      <4>4. i \in DOMAIN votes[s] \/ i = Len(votes[s]) + 1
        BY <4>3, <1>7
      <4>5. j \in DOMAIN votes[s] \/ j = Len(votes[s]) + 1
        BY <4>3, <1>7
      <4> QED
        BY <3>1, <3>3, <4>1, <4>2, <4>3, <4>4, <4>5, <2>3, <1>7
    <3> QED
      BY <3>2, <3>3
  <2>4. ASSUME NEW t \in Step, NEW x \in Person, rows[t][x] = "pending"
        PROVE  x \notin excluded /\ \A i \in DOMAIN votes'[t] : votes'[t][i].by # x
    <3>1. row[t][x] = "pending"
      BY <2>4, <1>4 DEF Vote
    <3>2. x \notin excluded /\ \A i \in DOMAIN votes[t] : votes[t][i].by # x
      BY <3>1 DEF IInv, Consistent, PendingMayVote, VotersIn
    <3>3. CASE t # s
      BY <3>2, <3>3, <1>6
    <3>4. CASE t = s
      <4>1. x # q /\ x \notin dead
        BY <2>4, <3>4, <1>4 DEF Vote
      <4>2. x # p
        BY <4>1, <3>1, <3>4, <1>9
      <4>3. ballot.by = p
        BY DEF ballot
      <4> QED
        BY <3>2, <3>4, <4>2, <4>3, <1>6, <1>7
    <3> QED
      BY <3>3, <3>4
  <2> QED
    BY <1>6, <2>1, <2>2, <2>3, <2>4 DEF Fits
<1>13. Prepared(stepSt, rows, links)
  <2>1. ASSUME NEW t \in Step, NEW x \in Person, rows[t][x] = "pending"
        PROVE  stepSt[t] = "active"
    <3>1. row[t][x] = "pending"
      BY <2>1, <1>4 DEF Vote
    <3> QED
      BY <3>1 DEF IInv, Consistent, PendingMayVote
  <2>2. ASSUME NEW t \in Step, NEW x \in links[t]
        PROVE  rows[t][x] = "pending"
    <3>1. x \in live[t] /\ x \in Person /\ (t = s => x # q /\ x \notin dead)
      BY <1>2, <1>5, <2>2 DEF Links
    <3>2. row[t][x] = "pending"
      BY <3>1 DEF IInv, Consistent, LinksFollowRows
    <3> QED
      BY <3>1, <3>2, <1>4
  <2> QED
    BY <1>4, <1>5, <2>1, <2>2 DEF Prepared
<1>14. Outcome(s, rows, cast) \in {"pending"} \cup Vote
  BY <1>3, <1>11, OutcomeType, ApprovalAssumption
<1>15. \A t \in Step, x \in Person : /\ t # s => rows[t][x] = row[t][x]
                                     /\ rows[t][x] = "none" => row[t][x] = "none"
  BY <1>4 DEF Vote
<1>16. cast = Append(votes[s], ballot)
  BY DEF cast
<1> QED
  BY <1>1, <1>3, <1>4, <1>5, <1>12, <1>13, <1>14, <1>15, <1>16 DEF ballot

LEMMA DecideKeeps ==
    ASSUME IInv, NEW p \in Person, NEW s \in Step, NEW q \in Person, NEW vote \in Vote,
           Decide(p, s, q, vote)
    PROVE  IInv' /\ Stands
<1>1. PICK rows \in Rows, links \in Links, cast \in Seq(Ballot) :
         /\ cast = Append(votes[s], [by |-> p, row |-> q, vote |-> vote])
         /\ votes' = [votes EXCEPT ![s] = cast]
         /\ CloseSteps(Only(s, Outcome(s, rows, cast)), rows, links)
         /\ Outcome(s, rows, cast) \in {"pending"} \cup Vote
         /\ Fits(stepSt, rows, votes') /\ Prepared(stepSt, rows, links)
  BY DecidePrepares
<1> DEFINE outcome == Only(s, Outcome(s, rows, cast))
<1>2. /\ status = "pending" /\ stepSt[s] = "active" /\ UNCHANGED <<request, rowsOf, sweeps>>
  BY DEF Decide
<1>3. votes \in [Step -> Seq(Ballot)]
  BY DEF IInv, TypeOK, Ballot
<1>4. /\ \A t \in Step : outcome[t] \in {"pending"} \cup Vote
      /\ \A t \in Step : outcome[t] # "pending" => stepSt[t] = "active"
  BY <1>1, <1>2 DEF Only
<1> HIDE DEF outcome
<1>5. /\ Consistent'
      /\ status' \in {"pending"} \cup Vote
      /\ stepSt' \in [Step -> {"none"} \cup Open \cup Closed]
      /\ row' \in Rows /\ live' \in Links
      /\ hooks' \subseteq Closed
      /\ \A t \in Step : stepSt[t] \in Closed => stepSt'[t] = stepSt[t]
  <2>1. UNCHANGED request /\ CloseSteps(outcome, rows, links)
    BY <1>1, <1>2 DEF outcome
  <2> QED
    BY <1>1, <1>2, <1>4, <2>1, CloseStepsKeeps
<1>6. votes' \in [Step -> Seq(Ballot)]
  BY <1>1, <1>3
<1>7. TypeOK'
  BY <1>2, <1>5, <1>6 DEF IInv, TypeOK, Rows, Links, Ballot, request, rowsOf, sweeps, Closed
<1>8. Stands
  <2>1. stepSt[s] \notin Closed /\ status \notin Closed
    BY <1>2 DEF Closed, Vote
  <2>2. \A i \in DOMAIN votes[s] : cast[i] = votes[s][i]
    BY <1>1, <1>3
  <2>3. \A t \in Step : votes'[t] = IF t = s THEN cast ELSE votes[t]
    BY <1>1, <1>3
  <2> QED
    BY <1>5, <2>1, <2>2, <2>3 DEF Stands
<1> QED
  BY <1>5, <1>7, <1>8 DEF IInv

\* Making the request: every step waits, then the first stage is opened.
LEMMA RequestKeeps ==
    ASSUME IInv, Request
    PROVE  IInv' /\ Stands
<1> DEFINE base == [s \in Step |-> "waiting"]
<1>1. PICK found \in Resolutions(Step) : Advance(base, row, live, found)
  BY DEF Request
<1>2. status = "none" /\ UNCHANGED <<request, rowsOf, votes, sweeps>>
  BY DEF Request
<1>3. /\ spec \in [Step -> StepSpec] /\ Step # {}
      /\ row \in Rows /\ live \in Links /\ votes \in [Step -> Seq(Ballot)]
  BY ApprovalAssumption DEF IInv, TypeOK, Rows, Links, Ballot
<1>4. \A s \in Step : stepSt[s] = "none" /\ votes[s] = <<>> /\ \A p \in Person : row[s][p] = "none"
  BY <1>2 DEF IInv, Consistent, StatusFits, Untouched
<1>5. hooks = {}
  BY <1>2 DEF IInv, Consistent, ClosedAddsUp, Closed, Vote
<1>6. base \in [Step -> Running]
  BY DEF Running, Open
<1>7. \A s \in Step : base[s] = "waiting"
  OBVIOUS
<1> HIDE DEF base
<1>8. Prepared(base, row, live)
  <2>1. ASSUME NEW s \in Step, NEW p \in live[s]
        PROVE  row[s][p] = "pending"
    BY DEF IInv, Consistent, LinksFollowRows
  <2> QED
    BY <2>1, <1>3, <1>4 DEF Prepared
<1>9. InOrder(base)
  BY <1>7 DEF InOrder, Vote
<1>10. \A s \in Step : base[s] = "waiting" => found[s] \cap excluded = {}
  BY DEF Resolutions
<1>11. Moved(base, row, live)
  BY <1>1, <1>3, <1>6, <1>8, <1>9, <1>10, AdvanceMoves
<1>12. Fits(base, row, votes')
  BY <1>2, <1>3, <1>4, <1>7 DEF Fits
<1>13. spec' = spec /\ excluded' = excluded
  BY <1>2 DEF request
<1>14. Consistent'
  BY <1>5, <1>6, <1>8, <1>11, <1>12, <1>13, MovedKeeps
<1>15. /\ status' \in {"pending"} \cup Vote
       /\ stepSt' \in [Step -> {"none"} \cup Open \cup Closed]
       /\ row' \in Rows /\ live' \in Links
       /\ hooks' \subseteq Closed
  BY <1>5, <1>11 DEF Moved, StepsMoved, RowsMoved, LinksMoved, Closed
<1>16. TypeOK'
  BY <1>2, <1>15 DEF IInv, TypeOK, Rows, Links, request, rowsOf, sweeps, Closed
<1>17. Stands
  BY <1>2, <1>4 DEF Stands, Closed, Vote
<1> QED
  BY <1>14, <1>16, <1>17 DEF IInv

\* Closing a request that was automatic or is withdrawn.
LEMMA FinalizeKeeps ==
    ASSUME IInv, NEW result,
           (status = "none" /\ result \in Vote) \/ (status = "pending" /\ result = "cancelled"),
           Finalize(result, stepSt, row),
           UNCHANGED <<request, rowsOf, votes, sweeps>>
    PROVE  IInv' /\ Stands
<1>1. /\ status' = result
      /\ stepSt' = [s \in Step |-> IF stepSt[s] \in Open THEN "cancelled" ELSE stepSt[s]]
      /\ row' = [s \in Step |-> [p \in Person |->
                    IF stepSt[s] \in Open /\ row[s][p] = "pending" THEN "not_needed" ELSE row[s][p]]]
      /\ live' = [s \in Step |-> {}]
      /\ hooks' = hooks \cup {result}
      /\ votes' = votes /\ spec' = spec /\ excluded' = excluded
  BY DEF Finalize, request
<1>2. hooks = {} /\ result \in Closed
  BY DEF IInv, Consistent, ClosedAddsUp, Closed, Vote
<1>3. \A s \in Step : stepSt[s] \in {"none"} \cup Open \cup Closed
  BY DEF IInv, TypeOK
<1>4. \A s \in Step : stepSt'[s] = IF stepSt[s] \in Open THEN "cancelled" ELSE stepSt[s]
  BY <1>1
<1>5. \A s \in Step, p \in Person : row'[s][p] =
         IF stepSt[s] \in Open /\ row[s][p] = "pending" THEN "not_needed" ELSE row[s][p]
  BY <1>1
<1>6. TypeOK'
  BY <1>1, <1>2 DEF IInv, TypeOK, request, rowsOf, sweeps, RowStatus, Closed
<1>7. StatusFits'
  BY <1>1, <1>2 DEF StatusFits, Closed, Vote
<1>8. Untouched'
  BY <1>1, <1>4, <1>5 DEF IInv, Consistent, Untouched, Open
<1>9. Recorded'
  <2>1. ASSUME NEW s \in Step, NEW i \in DOMAIN votes[s]
        PROVE  row'[s][votes[s][i].row] = votes[s][i].vote
    <3>1. votes[s] \in Seq(Ballot)
      BY DEF IInv, TypeOK, Ballot
    <3>2. votes[s][i] \in Ballot
      BY <3>1
    <3>3. votes[s][i].row \in Person /\ votes[s][i].vote \in Vote
      BY <3>2 DEF Ballot
    <3>4. row[s][votes[s][i].row] = votes[s][i].vote
      BY DEF IInv, Consistent, Recorded
    <3> QED
      BY <3>3, <3>4, <1>5 DEF Vote
  <2> QED
    BY <2>1, <1>1 DEF Recorded
<1>10. OnePersonOneVote'
  BY <1>1 DEF IInv, Consistent, OnePersonOneVote
<1>11. PendingMayVote'
  <2>1. ASSUME NEW s \in Step, NEW p \in Person, row'[s][p] = "pending"
        PROVE  FALSE
    <3>1. row[s][p] = "pending" /\ stepSt[s] \notin Open
      BY <2>1, <1>5
    <3> QED
      BY <3>1 DEF IInv, Consistent, PendingMayVote, Open
  <2> QED
    BY <2>1 DEF PendingMayVote
<1>12. LinksFollowRows'
  BY <1>1 DEF LinksFollowRows
<1>13. StagesInOrder'
  <2>1. ASSUME NEW s \in Step, NEW t \in Step, spec[s].stage < spec[t].stage,
               stepSt'[t] \in {"active"} \cup Vote
        PROVE  stepSt'[s] = "approved"
    <3>1. stepSt[t] \in {"active"} \cup Vote
      BY <2>1, <1>4 DEF Open, Vote
    <3>2. stepSt[s] = "approved"
      BY <2>1, <3>1 DEF IInv, Consistent, StagesInOrder
    <3> QED
      BY <3>2, <1>4 DEF Open
  <2> QED
    BY <2>1, <1>1 DEF StagesInOrder
<1>14. ClosedAddsUp'
  <2>1. hooks' = IF status' \in Closed THEN {status'} ELSE {}
    BY <1>1, <1>2
  <2>2. (WithStatus("waiting") \cup WithStatus("active") = {})'
    BY <1>4 DEF WithStatus, Open
  <2>3. CASE status = "none"
    <3>1. \A s \in Step : stepSt'[s] = "none"
      BY <2>3, <1>4 DEF IInv, Consistent, StatusFits, Open
    <3>2. (WithStatus("none") = Step)' /\ (WithStatus("approved") = {})'
      BY <3>1 DEF WithStatus
    <3>3. status' # "pending"
      BY <1>1, <2>3 DEF Vote
    <3> QED
      BY <2>1, <2>2, <3>2, <3>3 DEF ClosedAddsUp
  <2>4. CASE status = "pending" /\ result = "cancelled"
    BY <1>1, <2>1, <2>2, <2>4 DEF ClosedAddsUp
  <2> QED
    BY <2>3, <2>4
<1>15. Stands
  <2>1. status \notin Closed
    BY DEF Closed, Vote
  <2>2. \A s \in Step : stepSt[s] \in Closed => stepSt[s] \notin Open
    BY DEF Closed, Vote, Open
  <2> QED
    BY <1>1, <1>4, <2>1, <2>2 DEF Stands
<1> QED
  BY <1>6, <1>7, <1>8, <1>9, <1>10, <1>11, <1>12, <1>13, <1>14, <1>15 DEF IInv, Consistent

\* What refresh, removal and deadline owe: no row that voted is touched, and nobody is asked who may
\* not vote.
Revised(rows, links) ==
    /\ rows \in Rows /\ links \in Links
    /\ \A s \in Step, p \in Person :
          /\ row[s][p] \in Vote => rows[s][p] = row[s][p]
          /\ stepSt[s] # "active" => rows[s][p] = row[s][p]
          /\ rows[s][p] = "pending" => stepSt[s] = "active" /\ p \notin VotersIn(s) \cup excluded
    /\ \A s \in Step : \A p \in links[s] : rows[s][p] = "pending"

LEMMA ReviseKeeps ==
    ASSUME IInv, status = "pending", NEW outcome, NEW rows, NEW links,
           \A s \in Step : outcome[s] \in {"pending"} \cup Vote,
           \A s \in Step : outcome[s] # "pending" => stepSt[s] = "active",
           Revised(rows, links),
           CloseSteps(outcome, rows, links),
           UNCHANGED <<request, rowsOf, votes>>,
           due' \subseteq Step, overdue' \subseteq Step, cand' \in [Sweeper -> SUBSET Step],
           aborts' \in 0..MaxAborts
    PROVE  IInv' /\ Stands
<1>1. Prepared(stepSt, rows, links)
  BY DEF Revised, Prepared
<1>2. Fits(stepSt, rows, votes)
  <2>1. /\ rows \in Rows
        /\ \A s \in Step, p \in Person : row[s][p] \in Vote => rows[s][p] = row[s][p]
        /\ \A s \in Step, p \in Person : stepSt[s] # "active" => rows[s][p] = row[s][p]
        /\ \A s \in Step, p \in Person : rows[s][p] = "pending" => p \notin VotersIn(s) \cup excluded
    BY DEF Revised
  <2> QED
    BY <2>1, RevisedRowsFit
<1>3. Fits(stepSt, rows, votes') /\ UNCHANGED request
  BY <1>2
<1>4. /\ Consistent'
      /\ status' \in {"pending"} \cup Vote
      /\ stepSt' \in [Step -> {"none"} \cup Open \cup Closed]
      /\ row' \in Rows /\ live' \in Links
      /\ hooks' \subseteq Closed
      /\ \A s \in Step : stepSt[s] \in Closed => stepSt'[s] = stepSt[s]
  BY <1>1, <1>3, CloseStepsKeeps
<1>5. TypeOK'
  BY <1>4 DEF IInv, TypeOK, Rows, Links, request, rowsOf, Closed
<1>6. Stands
  BY <1>4 DEF Stands, Closed, Vote
<1> QED
  BY <1>4, <1>5, <1>6 DEF IInv

\* What a step without votes, or with them, comes to when it is evaluated again.
LEMMA ReevaluateKeeps ==
    ASSUME IInv, status = "pending", NEW S, S \subseteq WithStatus("active"), NEW rows, NEW links,
           Revised(rows, links),
           Reevaluate(S, rows, links),
           UNCHANGED <<request, rowsOf, votes, sweeps>>
    PROVE  IInv' /\ Stands
<1> DEFINE deserted(s) == PendingIn(rows, s) = {} /\ votes[s] = <<>>
           verdict(s) == IF deserted(s) THEN spec[s].onNoApprover ELSE Outcome(s, rows, votes[s])
           reached(s) == s \in S /\ \A t \in S : t < s => verdict(t) # "rejected"
           outcome == [s \in Step |-> IF reached(s) THEN verdict(s) ELSE "pending"]
<1>1. CloseSteps(outcome, rows, links)
  BY DEF Reevaluate
<1>2. ASSUME NEW s \in Step
      PROVE  verdict(s) \in {"pending"} \cup Vote
  <2>1. spec[s].onNoApprover \in Vote
    BY ApprovalAssumption DEF IInv, TypeOK, StepSpec
  <2>2. Outcome(s, rows, votes[s]) \in {"pending"} \cup Vote
    <3>1. /\ rows \in Rows
          /\ \A t \in Step, p \in Person : row[t][p] \in Vote => rows[t][p] = row[t][p]
          /\ \A t \in Step, p \in Person : stepSt[t] = "waiting" => rows[t][p] = row[t][p]
          /\ \A t \in Step, p \in Person : rows[t][p] = "pending" => p \notin VotersIn(t) \cup excluded
      BY DEF Revised
    <3>2. Fits(stepSt, rows, votes)
      BY <3>1, RevisedRowsFit
    <3>3. votes[s] \in Seq(Ballot) /\ \A i \in DOMAIN votes[s] : rows[s][votes[s][i].row] = votes[s][i].vote
      BY <3>2 DEF Fits
    <3> QED
      BY <3>3, OutcomeType, ApprovalAssumption
  <2> QED
    BY <2>1, <2>2
<1>3. \A s \in Step : outcome[s] \in {"pending"} \cup Vote
  BY <1>2
<1>4. \A s \in Step : outcome[s] # "pending" => stepSt[s] = "active"
  BY DEF WithStatus
<1>5. /\ due' \subseteq Step /\ overdue' \subseteq Step /\ cand' \in [Sweeper -> SUBSET Step]
      /\ aborts' \in 0..MaxAborts
  BY DEF IInv, TypeOK, sweeps
<1> HIDE DEF outcome
<1> QED
  BY <1>1, <1>3, <1>4, <1>5, ReviseKeeps

\* A pending row is its person's to vote.
LEMMA PendingRow ==
    ASSUME IInv, NEW s \in Step, NEW p \in Person, row[s][p] = "pending"
    PROVE  status = "pending" /\ stepSt[s] = "active" /\ p \notin VotersIn(s) \cup excluded
BY DEF IInv, Consistent, PendingMayVote

LEMMA RefreshRevises ==
    ASSUME IInv, Refresh
    PROVE  \E rows \in Rows, links \in Links :
              /\ Revised(rows, links) /\ Reevaluate(WithStatus("active"), rows, links)
              /\ \A s \in Step, p \in Person : rows[s][p] = "none" => row[s][p] = "none"
<1> DEFINE S == WithStatus("active")
           departed(s, found) == {p \in PendingIn(row, s) : source[s][p] = "regular"} \ found
<1>1. status = "pending" /\ UNCHANGED <<request, rowsOf, votes, sweeps>>
  BY DEF Refresh
<1>2. PICK found \in Resolutions(S), removed \in [S -> SUBSET Person] :
         /\ \A s \in S : removed[s] \subseteq departed(s, found[s])
         /\ Reevaluate(S,
               [s \in Step |-> [p \in Person |->
                   IF s \in S /\ p \in removed[s] THEN "removed"
                   ELSE IF s \in S /\ p \in found[s] \ VotersIn(s) /\ row[s][p] = "none" THEN "pending"
                   ELSE row[s][p]]],
               [s \in Step |-> IF s \in S THEN live[s] \ removed[s] ELSE live[s]])
  BY DEF Refresh
<1> DEFINE rows == [s \in Step |-> [p \in Person |->
                      IF s \in S /\ p \in removed[s] THEN "removed"
                      ELSE IF s \in S /\ p \in found[s] \ VotersIn(s) /\ row[s][p] = "none" THEN "pending"
                      ELSE row[s][p]]]
           links == [s \in Step |-> IF s \in S THEN live[s] \ removed[s] ELSE live[s]]
<1>3. row \in Rows /\ live \in Links
  BY DEF IInv, TypeOK, Rows, Links
<1>4. \A s \in Step : s \in S <=> stepSt[s] = "active"
  BY DEF WithStatus
<1>5. \A s \in S : found[s] \cap excluded = {}
  BY DEF Resolutions
<1>6. \A s \in S : \A p \in removed[s] : p \in Person /\ row[s][p] = "pending"
  BY <1>2 DEF PendingIn
<1>7. Revised(rows, links)
  <2>1. rows \in Rows /\ links \in Links
    BY <1>3 DEF Rows, RowStatus, Links
  <2>2. \A s \in Step, p \in Person : rows[s][p] =
           IF s \in S /\ p \in removed[s] THEN "removed"
           ELSE IF s \in S /\ p \in found[s] \ VotersIn(s) /\ row[s][p] = "none" THEN "pending"
           ELSE row[s][p]
    OBVIOUS
  <2>3. \A s \in Step : links[s] = IF s \in S THEN live[s] \ removed[s] ELSE live[s]
    OBVIOUS
  <2> HIDE DEF rows, links, S
  <2>4. ASSUME NEW s \in Step, NEW p \in Person
        PROVE  /\ row[s][p] \in Vote => rows[s][p] = row[s][p]
               /\ stepSt[s] # "active" => rows[s][p] = row[s][p]
    BY <2>2, <1>4, <1>6 DEF Vote
  <2>5. ASSUME NEW s \in Step, NEW p \in Person, rows[s][p] = "pending"
        PROVE  stepSt[s] = "active" /\ p \notin VotersIn(s) \cup excluded
    <3>1. CASE row[s][p] = "pending"
      BY <3>1, PendingRow
    <3>2. CASE row[s][p] # "pending"
      <4>1. s \in S /\ p \in found[s] \ VotersIn(s)
        BY <2>2, <2>5, <3>2
      <4> QED
        BY <4>1, <1>4, <1>5
    <3> QED
      BY <3>1, <3>2
  <2>6. ASSUME NEW s \in Step, NEW p \in links[s]
        PROVE  rows[s][p] = "pending"
    <3>1. p \in live[s] /\ p \in Person
      BY <2>3, <2>6, <1>3 DEF Links
    <3>2. row[s][p] = "pending"
      BY <3>1 DEF IInv, Consistent, LinksFollowRows
    <3> QED
      BY <2>2, <2>3, <2>6, <3>1, <3>2
  <2> QED
    BY <2>1, <2>4, <2>5, <2>6 DEF Revised
<1>8. Reevaluate(S, rows, links)
  BY <1>2
<1>9. \A s \in Step, p \in Person : rows[s][p] = "none" => row[s][p] = "none"
  OBVIOUS
<1> HIDE DEF rows, links, S
<1>10. rows \in Rows /\ links \in Links
  BY <1>7 DEF Revised
<1>11. S = WithStatus("active")
  BY DEF S
<1> QED
  BY <1>7, <1>8, <1>9, <1>10, <1>11

LEMMA RefreshKeeps ==
    ASSUME IInv, Refresh
    PROVE  IInv' /\ Stands
<1>1. status = "pending" /\ UNCHANGED <<request, rowsOf, votes, sweeps>>
  BY DEF Refresh
<1> QED
  BY <1>1, RefreshRevises, ReevaluateKeeps

LEMMA DropInvalidRevises ==
    ASSUME IInv, DropInvalid
    PROVE  \E rows \in Rows, links \in Links, T \in SUBSET WithStatus("active") :
              /\ Revised(rows, links) /\ Reevaluate(T, rows, links)
              /\ \A s \in Step, p \in Person : rows[s][p] = "none" => row[s][p] = "none"
              /\ \A s \in WithStatus("active") \ T : \A p \in Person : rows[s][p] = row[s][p]
<1> DEFINE S == WithStatus("active")
<1>1. status = "pending" /\ UNCHANGED <<request, rowsOf, votes, sweeps>>
  BY DEF DropInvalid
<1>2. PICK unfit \in SUBSET UNION {PendingIn(row, s) : s \in S} :
         Reevaluate({s \in S : PendingIn(row, s) \cap unfit # {}},
            [s \in Step |-> [p \in Person |->
                IF s \in S /\ p \in PendingIn(row, s) \cap unfit THEN "removed" ELSE row[s][p]]],
            [s \in Step |-> IF s \in S THEN live[s] \ (PendingIn(row, s) \cap unfit) ELSE live[s]])
  BY DEF DropInvalid
<1> DEFINE rows == [s \in Step |-> [p \in Person |->
                      IF s \in S /\ p \in PendingIn(row, s) \cap unfit THEN "removed" ELSE row[s][p]]]
           links == [s \in Step |-> IF s \in S THEN live[s] \ (PendingIn(row, s) \cap unfit) ELSE live[s]]
           T == {s \in S : PendingIn(row, s) \cap unfit # {}}
<1>3. row \in Rows /\ live \in Links
  BY DEF IInv, TypeOK, Rows, Links
<1>4. \A s \in Step : s \in S <=> stepSt[s] = "active"
  BY DEF WithStatus
<1>5. Revised(rows, links)
  <2>1. rows \in Rows /\ links \in Links
    BY <1>3 DEF Rows, RowStatus, Links
  <2>2. \A s \in Step, p \in Person : rows[s][p] =
           IF s \in S /\ row[s][p] = "pending" /\ p \in unfit THEN "removed" ELSE row[s][p]
    BY DEF PendingIn
  <2>3. \A s \in Step : \A p \in links[s] :
           p \in live[s] /\ ~ (s \in S /\ p \in PendingIn(row, s) /\ p \in unfit)
    OBVIOUS
  <2> HIDE DEF rows, links, S
  <2>4. ASSUME NEW s \in Step, NEW p \in Person
        PROVE  /\ row[s][p] \in Vote => rows[s][p] = row[s][p]
               /\ stepSt[s] # "active" => rows[s][p] = row[s][p]
    BY <2>2, <1>4 DEF Vote
  <2>5. ASSUME NEW s \in Step, NEW p \in Person, rows[s][p] = "pending"
        PROVE  stepSt[s] = "active" /\ p \notin VotersIn(s) \cup excluded
    <3>1. row[s][p] = "pending"
      BY <2>2, <2>5
    <3> QED
      BY <3>1, PendingRow
  <2>6. ASSUME NEW s \in Step, NEW p \in links[s]
        PROVE  rows[s][p] = "pending"
    <3>1. p \in live[s] /\ p \in Person
      BY <2>3, <2>6, <1>3 DEF Links
    <3>2. row[s][p] = "pending"
      BY <3>1 DEF IInv, Consistent, LinksFollowRows
    <3>3. p \in PendingIn(row, s)
      BY <3>1, <3>2 DEF PendingIn
    <3> QED
      BY <2>2, <2>3, <2>6, <3>1, <3>2, <3>3
  <2> QED
    BY <2>1, <2>4, <2>5, <2>6 DEF Revised
<1>6. Reevaluate(T, rows, links)
  BY <1>2
<1>7. T \in SUBSET WithStatus("active")
  OBVIOUS
<1>8. \A s \in Step, p \in Person :
         /\ rows[s][p] = "none" => row[s][p] = "none"
         /\ s \in S \ T => rows[s][p] = row[s][p]
  BY DEF PendingIn
<1>9. S \subseteq Step
  BY DEF WithStatus
<1> HIDE DEF rows, links, T
<1>10. rows \in Rows /\ links \in Links
  BY <1>5 DEF Revised
<1> QED
  BY <1>5, <1>6, <1>7, <1>8, <1>9, <1>10

LEMMA DropInvalidKeeps ==
    ASSUME IInv, DropInvalid
    PROVE  IInv' /\ Stands
<1>1. status = "pending" /\ UNCHANGED <<request, rowsOf, votes, sweeps>>
  BY DEF DropInvalid
<1> QED
  BY <1>1, DropInvalidRevises, ReevaluateKeeps

\* A step of the program that decides nothing: it only hands out rows and links, or only sweeps.
LEMMA UndecidedKeeps ==
    ASSUME IInv, TypeOK', Revised(row', live'), UNCHANGED <<request, status, stepSt, votes, hooks>>
    PROVE  IInv' /\ Stands
<1>1. spec' = spec /\ excluded' = excluded /\ status' = status /\ stepSt' = stepSt /\ votes' = votes /\ hooks' = hooks
  BY DEF request
<1>2. \A s \in Step, p \in Person :
         /\ row[s][p] \in Vote => row'[s][p] = row[s][p]
         /\ stepSt[s] # "active" => row'[s][p] = row[s][p]
         /\ row'[s][p] = "pending" => stepSt[s] = "active" /\ p \notin VotersIn(s) \cup excluded
  BY DEF Revised
<1>3. StatusFits'
  BY <1>1 DEF IInv, Consistent, StatusFits
<1>4. Untouched'
  BY <1>1, <1>2 DEF IInv, Consistent, Untouched
<1>5. Recorded'
  <2>1. ASSUME NEW s \in Step, NEW i \in DOMAIN votes[s]
        PROVE  row'[s][votes[s][i].row] = votes[s][i].vote
    <3>1. votes[s] \in Seq(Ballot)
      BY DEF IInv, TypeOK, Ballot
    <3>2. votes[s][i] \in Ballot
      BY <3>1
    <3>3. votes[s][i].row \in Person /\ votes[s][i].vote \in Vote
      BY <3>2 DEF Ballot
    <3>4. row[s][votes[s][i].row] = votes[s][i].vote
      BY DEF IInv, Consistent, Recorded
    <3> QED
      BY <3>3, <3>4, <1>2
  <2> QED
    BY <2>1, <1>1 DEF Recorded
<1>6. OnePersonOneVote'
  BY <1>1 DEF IInv, Consistent, OnePersonOneVote
<1>7. PendingMayVote'
  <2>1. ASSUME NEW s \in Step, stepSt[s] = "active"
        PROVE  status = "pending"
    <3>1. status # "none"
      BY <2>1 DEF IInv, Consistent, StatusFits
    <3>2. status \notin Closed
      BY <2>1 DEF IInv, Consistent, ClosedAddsUp, WithStatus
    <3> QED
      BY <3>1, <3>2 DEF IInv, TypeOK
  <2>2. \A s \in Step : VotersIn(s)' = VotersIn(s)
    BY <1>1 DEF VotersIn
  <2> QED
    BY <2>1, <2>2, <1>1, <1>2 DEF PendingMayVote
<1>8. LinksFollowRows'
  BY DEF LinksFollowRows, Revised
<1>9. StagesInOrder'
  BY <1>1 DEF IInv, Consistent, StagesInOrder
<1>10. ClosedAddsUp'
  BY <1>1 DEF IInv, Consistent, ClosedAddsUp, WithStatus
<1>11. Stands
  BY <1>1 DEF Stands
<1> QED
  BY <1>3, <1>4, <1>5, <1>6, <1>7, <1>8, <1>9, <1>10, <1>11 DEF IInv, Consistent

\* Rows and links that are left alone.
LEMMA AsTheyWere ==
    ASSUME IInv, row' = row, live' = live
    PROVE  Revised(row', live')
<1>1. row \in Rows /\ live \in Links
  BY DEF IInv, TypeOK, Rows, Links
<1>2. \A s \in Step, p \in Person : row[s][p] = "pending" => stepSt[s] = "active" /\ p \notin VotersIn(s) \cup excluded
  BY PendingRow
<1>3. \A s \in Step : \A p \in live[s] : row[s][p] = "pending"
  BY DEF IInv, Consistent, LinksFollowRows
<1> QED
  BY <1>1, <1>2, <1>3 DEF Revised

LEMMA IssueLinkKeeps ==
    ASSUME IInv, NEW p \in Person, NEW s \in Step, IssueLink(p, s)
    PROVE  IInv' /\ Stands
<1>1. /\ row[s][p] = "pending"
      /\ live' = [live EXCEPT ![s] = @ \cup {p}]
      /\ UNCHANGED <<request, status, stepSt, row, rowsOf, votes, hooks, sweeps>>
  BY DEF IssueLink
<1>2. row \in Rows /\ live \in Links
  BY DEF IInv, TypeOK, Rows, Links
<1>3. /\ \A t \in Step : live'[t] = IF t = s THEN live[s] \cup {p} ELSE live[t]
      /\ live' \in Links
  BY <1>1, <1>2 DEF Links
<1>4. Revised(row', live')
  <2>1. \A t \in Step, x \in Person : row[t][x] = "pending" => stepSt[t] = "active" /\ x \notin VotersIn(t) \cup excluded
    BY PendingRow
  <2>2. \A t \in Step : \A x \in live[t] : row[t][x] = "pending"
    BY DEF IInv, Consistent, LinksFollowRows
  <2>3. \A t \in Step : \A x \in live'[t] : row[t][x] = "pending"
    BY <2>2, <1>1, <1>3
  <2> QED
    BY <2>1, <2>3, <1>1, <1>2, <1>3 DEF Revised
<1>5. TypeOK'
  BY <1>1, <1>3 DEF IInv, TypeOK, request, rowsOf, sweeps, Links
<1> QED
  BY <1>1, <1>4, <1>5, UndecidedKeeps

LEMMA ForwardKeeps ==
    ASSUME IInv, NEW q \in Person, NEW s \in Step, NEW p \in Person, Forward(q, s, p)
    PROVE  IInv' /\ Stands
<1>1. /\ status = "pending" /\ stepSt[s] = "active" /\ row[s][q] = "pending"
      /\ row[s][p] = "none" /\ p \notin VotersIn(s) \cup excluded
      /\ row' = [row EXCEPT ![s] = [@ EXCEPT ![q] = "forwarded", ![p] = "pending"]]
      /\ source' = [source EXCEPT ![s] = [@ EXCEPT ![p] = q]]
      /\ decisive' = [decisive EXCEPT ![s] = IF q \in @ THEN @ \cup {p} ELSE @]
      /\ live' = [live EXCEPT ![s] = @ \ {q}]
      /\ UNCHANGED <<request, status, stepSt, votes, hooks, sweeps>>
  BY DEF Forward
<1>2. row \in Rows /\ live \in Links
  BY DEF IInv, TypeOK, Rows, Links
<1>3. [row[s] EXCEPT ![q] = "forwarded", ![p] = "pending"] \in [Person -> RowStatus]
  BY <1>2 DEF Rows, RowStatus
<1>4. row' = [row EXCEPT ![s] = [row[s] EXCEPT ![q] = "forwarded", ![p] = "pending"]]
  BY <1>1
<1>5. row' \in Rows
  BY <1>2, <1>3, <1>4 DEF Rows
<1>6. \A t \in Step, x \in Person : row'[t][x] =
         IF t = s THEN IF x = p THEN "pending" ELSE IF x = q THEN "forwarded" ELSE row[t][x]
         ELSE row[t][x]
  BY <1>2, <1>4 DEF Rows
<1>7. /\ \A t \in Step : live'[t] = IF t = s THEN live[s] \ {q} ELSE live[t]
      /\ live' \in Links
  BY <1>1, <1>2 DEF Links
<1>8. Revised(row', live')
  <2>1. ASSUME NEW t \in Step, NEW x \in Person
        PROVE  /\ row[t][x] \in Vote => row'[t][x] = row[t][x]
               /\ stepSt[t] # "active" => row'[t][x] = row[t][x]
    BY <1>1, <1>6 DEF Vote
  <2>2. ASSUME NEW t \in Step, NEW x \in Person, row'[t][x] = "pending"
        PROVE  stepSt[t] = "active" /\ x \notin VotersIn(t) \cup excluded
    <3>1. row[t][x] = "pending" \/ (t = s /\ x = p)
      BY <2>2, <1>6
    <3> QED
      BY <3>1, <1>1, PendingRow
  <2>3. ASSUME NEW t \in Step, NEW x \in live'[t]
        PROVE  row'[t][x] = "pending"
    <3>1. x \in live[t] /\ x \in Person /\ ~ (t = s /\ x = q)
      BY <1>2, <1>7, <2>3 DEF Links
    <3>2. row[t][x] = "pending"
      BY <3>1 DEF IInv, Consistent, LinksFollowRows
    <3> QED
      BY <3>1, <3>2, <1>6
  <2> QED
    BY <1>5, <1>7, <2>1, <2>2, <2>3 DEF Revised
<1>9. source' \in [Step -> [Person -> {"regular", "escalation"} \cup Person]]
  <2>1. source \in [Step -> [Person -> {"regular", "escalation"} \cup Person]]
    BY DEF IInv, TypeOK
  <2>2. [source[s] EXCEPT ![p] = q] \in [Person -> {"regular", "escalation"} \cup Person]
    BY <2>1
  <2> QED
    BY <2>1, <2>2, <1>1
<1>10. decisive' \in [Step -> SUBSET Person]
  BY <1>1 DEF IInv, TypeOK
<1>11. TypeOK'
  BY <1>1, <1>5, <1>7, <1>9, <1>10 DEF IInv, TypeOK, request, sweeps, Links, Rows
<1> QED
  BY <1>1, <1>8, <1>11, UndecidedKeeps

LEMMA EscalateOverdueKeeps ==
    ASSUME IInv, NEW w \in Sweeper, NEW s \in Step, EscalateOverdue(w, s)
    PROVE  IInv' /\ Stands
<1>1. /\ status = "pending" /\ stepSt[s] = "active"
      /\ overdue' = overdue \cup {s}
      /\ Handled(w, s)
      /\ UNCHANGED <<request, status, stepSt, votes, live, hooks>>
  BY DEF EscalateOverdue, StillOverdue
<1>2. PICK found \in SUBSET (spec[s].escalation \ excluded) :
         LET now == EscalatedTo(s, found)
             new == {p \in now : row[s][p] = "none"}
         IN  /\ row' = [row EXCEPT ![s] = [p \in Person |-> IF p \in new THEN "pending" ELSE @[p]]]
             /\ source' = [source EXCEPT ![s] = [p \in Person |-> IF p \in new THEN "escalation" ELSE @[p]]]
             /\ decisive' = [decisive EXCEPT ![s] = @ \cup now]
  BY DEF EscalateOverdue
<1> DEFINE now == EscalatedTo(s, found)
           new == {p \in now : row[s][p] = "none"}
<1>3. /\ row' = [row EXCEPT ![s] = [p \in Person |-> IF p \in new THEN "pending" ELSE row[s][p]]]
      /\ source' = [source EXCEPT ![s] = [p \in Person |-> IF p \in new THEN "escalation" ELSE source[s][p]]]
      /\ decisive' = [decisive EXCEPT ![s] = decisive[s] \cup now]
  BY <1>2
<1>4. /\ row \in Rows /\ live \in Links
      /\ source \in [Step -> [Person -> {"regular", "escalation"} \cup Person]]
      /\ decisive \in [Step -> SUBSET Person]
  BY DEF IInv, TypeOK, Rows, Links
<1>5. spec[s].escalation \subseteq Person
  BY ApprovalAssumption DEF IInv, TypeOK, StepSpec
<1>6. now \subseteq Person
  BY <1>5 DEF EscalatedTo
<1>7. \A p \in new : p \in Person /\ row[s][p] = "none" /\ p \notin VotersIn(s) \cup excluded
  BY <1>5 DEF EscalatedTo
<1> HIDE DEF now, new
<1>8. [p \in Person |-> IF p \in new THEN "pending" ELSE row[s][p]] \in [Person -> RowStatus]
  BY <1>4 DEF Rows, RowStatus
<1>9. row' \in Rows
  BY <1>3, <1>4, <1>8 DEF Rows
<1>10. \A t \in Step, x \in Person : row'[t][x] =
          IF t = s /\ x \in new THEN "pending" ELSE row[t][x]
  BY <1>3, <1>4 DEF Rows
<1>11. source' \in [Step -> [Person -> {"regular", "escalation"} \cup Person]]
  <2>1. [p \in Person |-> IF p \in new THEN "escalation" ELSE source[s][p]]
           \in [Person -> {"regular", "escalation"} \cup Person]
    BY <1>4
  <2> QED
    BY <2>1, <1>3, <1>4
<1>12. decisive' \in [Step -> SUBSET Person]
  BY <1>3, <1>4, <1>6
<1>13. Revised(row', live')
  <2>1. ASSUME NEW t \in Step, NEW x \in Person
        PROVE  /\ row[t][x] \in Vote => row'[t][x] = row[t][x]
               /\ stepSt[t] # "active" => row'[t][x] = row[t][x]
    BY <1>1, <1>7, <1>10 DEF Vote
  <2>2. ASSUME NEW t \in Step, NEW x \in Person, row'[t][x] = "pending"
        PROVE  stepSt[t] = "active" /\ x \notin VotersIn(t) \cup excluded
    <3>1. row[t][x] = "pending" \/ (t = s /\ x \in new)
      BY <2>2, <1>10
    <3> QED
      BY <3>1, <1>1, <1>7, PendingRow
  <2>3. ASSUME NEW t \in Step, NEW x \in live[t]
        PROVE  row'[t][x] = "pending"
    <3>1. x \in Person
      BY <1>4 DEF Links
    <3>2. row[t][x] = "pending"
      BY <3>1 DEF IInv, Consistent, LinksFollowRows
    <3> QED
      BY <3>1, <3>2, <1>10
  <2> QED
    BY <1>1, <1>4, <1>9, <2>1, <2>2, <2>3 DEF Revised
<1>14. TypeOK'
  BY <1>1, <1>4, <1>9, <1>11, <1>12 DEF IInv, TypeOK, request, Handled, Rows
<1>15. UNCHANGED <<request, status, stepSt, votes, hooks>>
  BY <1>1
<1> QED
  BY <1>13, <1>14, <1>15, UndecidedKeeps

LEMMA DecideOverdueKeeps ==
    ASSUME IInv, NEW w \in Sweeper, NEW s \in Step, DecideOverdue(w, s)
    PROVE  IInv' /\ Stands
<1> DEFINE outcome == Only(s, spec[s].onTimeout)
<1>1. /\ status = "pending" /\ stepSt[s] = "active" /\ spec[s].onTimeout \in Vote
      /\ CloseSteps(outcome, row, live)
      /\ UNCHANGED <<request, rowsOf, votes>>
  BY DEF DecideOverdue, StillOverdue
<1>2. /\ \A t \in Step : outcome[t] \in {"pending"} \cup Vote
      /\ \A t \in Step : outcome[t] # "pending" => stepSt[t] = "active"
  BY <1>1 DEF Only
<1>3. Revised(row, live)
  <2>1. row \in Rows /\ live \in Links
    BY DEF IInv, TypeOK, Rows, Links
  <2>2. \A t \in Step, p \in Person : row[t][p] = "pending" => stepSt[t] = "active" /\ p \notin VotersIn(t) \cup excluded
    BY PendingRow
  <2>3. \A t \in Step : \A p \in live[t] : row[t][p] = "pending"
    BY DEF IInv, Consistent, LinksFollowRows
  <2> QED
    BY <2>1, <2>2, <2>3 DEF Revised
<1>4. /\ due' \subseteq Step /\ overdue' \subseteq Step /\ cand' \in [Sweeper -> SUBSET Step]
      /\ aborts' \in 0..MaxAborts
  BY DEF IInv, TypeOK, DecideOverdue, Handled
<1> HIDE DEF outcome
<1> QED
  BY <1>1, <1>2, <1>3, <1>4, ReviseKeeps

\* The steps of the sweep that touch neither rows nor links.
LEMMA SweepKeeps ==
    ASSUME IInv,
           \/ \E s \in Step : DeadlinePasses(s)
           \/ \E w \in Sweeper : SelectOverdue(w) \/ AbortSweep(w)
           \/ \E w \in Sweeper, s \in Step : SkipOverdue(w, s) \/ NotifyOverdue(w, s)
    PROVE  IInv' /\ Stands
<1>1. UNCHANGED <<request, status, stepSt, row, rowsOf, votes, live, hooks>>
  BY DEF DeadlinePasses, SelectOverdue, AbortSweep, SkipOverdue, NotifyOverdue
<1>2. TypeOK'
  <2>1. due' \subseteq Step /\ overdue' \subseteq Step
    BY DEF IInv, TypeOK, DeadlinePasses, SelectOverdue, AbortSweep, SkipOverdue, NotifyOverdue, Handled
  <2>2. cand' \in [Sweeper -> SUBSET Step]
    <3>1. cand \in [Sweeper -> SUBSET Step]
      BY DEF IInv, TypeOK
    <3>2. CASE \E s \in Step : DeadlinePasses(s)
      BY <3>1, <3>2 DEF DeadlinePasses
    <3>3. CASE \E w \in Sweeper : SelectOverdue(w)
      BY <3>1, <3>3 DEF SelectOverdue, WithStatus
    <3>4. CASE \E w \in Sweeper : AbortSweep(w)
      BY <3>1, <3>4 DEF AbortSweep
    <3>5. CASE \E w \in Sweeper, s \in Step : SkipOverdue(w, s) \/ NotifyOverdue(w, s)
      BY <3>1, <3>5 DEF SkipOverdue, NotifyOverdue, Handled
    <3> QED
      BY <3>2, <3>3, <3>4, <3>5
  <2>3. aborts' \in 0..MaxAborts
    BY ApprovalAssumption
    DEF IInv, TypeOK, DeadlinePasses, SelectOverdue, AbortSweep, SkipOverdue, NotifyOverdue, Handled
  <2> QED
    BY <1>1, <2>1, <2>2, <2>3 DEF IInv, TypeOK, request, rowsOf
<1>3. Revised(row', live')
  BY <1>1, AsTheyWere
<1> QED
  BY <1>1, <1>2, <1>3, UndecidedKeeps

-----------------------------------------------------------------------------
(* The theorems. *)

LEMMA InitKeeps == Init => IInv
<1> SUFFICES ASSUME Init PROVE IInv
  OBVIOUS
<1>1. /\ spec \in Definitions /\ excluded \in Exclusions /\ status = "none" /\ hooks = {}
      /\ stepSt = [s \in Step |-> "none"]
      /\ row = [s \in Step |-> [p \in Person |-> "none"]]
      /\ source = [s \in Step |-> [p \in Person |-> "regular"]]
      /\ decisive = [s \in Step |-> {}]
      /\ votes = [s \in Step |-> <<>>]
      /\ live = [s \in Step |-> {}]
      /\ due = {} /\ overdue = {} /\ cand = [w \in Sweeper |-> {}] /\ aborts = 0
  BY DEF Init
<1>2. TypeOK
  BY <1>1, ApprovalAssumption DEF TypeOK, RowStatus
<1>3. Consistent
  BY <1>1 DEF Consistent, StatusFits, Untouched, Recorded, OnePersonOneVote, PendingMayVote,
              LinksFollowRows, StagesInOrder, ClosedAddsUp, Closed, Vote, WithStatus
<1> QED
  BY <1>2, <1>3 DEF IInv

LEMMA NextKeeps ==
    ASSUME IInv, [Next]_vars
    PROVE  IInv' /\ Stands
<1>1. CASE Request
  BY <1>1, RequestKeeps
<1>2. CASE \E result \in Vote : AutoDecide(result)
  BY <1>2, FinalizeKeeps DEF AutoDecide
<1>3. CASE Cancel
  BY <1>3, FinalizeKeeps DEF Cancel
<1>4. ASSUME NEW p \in Person, NEW s \in Step, Voting(p, s)
      PROVE  IInv' /\ Stands
  <2>1. CASE \E q \in Person, vote \in Vote : Decide(p, s, q, vote)
    BY <2>1, DecideKeeps
  <2>2. CASE \E vote \in Vote : Redeem(p, s, vote)
    BY <2>2, DecideKeeps DEF Redeem
  <2>3. CASE \E q \in Person : Forward(p, s, q)
    BY <2>3, ForwardKeeps
  <2>4. CASE IssueLink(p, s)
    BY <2>4, IssueLinkKeeps
  <2> QED
    BY <1>4, <2>1, <2>2, <2>3, <2>4 DEF Voting
<1>5. CASE Refresh
  BY <1>5, RefreshKeeps
<1>6. CASE DropInvalid
  BY <1>6, DropInvalidKeeps
<1>7. CASE \E s \in Step : DeadlinePasses(s)
  BY <1>7, SweepKeeps
<1>8. CASE \E w \in Sweeper : SelectOverdue(w) \/ AbortSweep(w)
  BY <1>8, SweepKeeps
<1>9. ASSUME NEW w \in Sweeper, NEW s \in Step, SweepItem(w, s)
      PROVE  IInv' /\ Stands
  <2>1. CASE SkipOverdue(w, s) \/ NotifyOverdue(w, s)
    BY <2>1, SweepKeeps
  <2>2. CASE EscalateOverdue(w, s)
    BY <2>2, EscalateOverdueKeeps
  <2>3. CASE DecideOverdue(w, s)
    BY <2>3, DecideOverdueKeeps
  <2> QED
    BY <1>9, <2>1, <2>2, <2>3 DEF SweepItem
<1>10. CASE UNCHANGED vars
  <2>1. UNCHANGED <<request, status, stepSt, row, rowsOf, votes, live, hooks, sweeps>>
    BY <1>10 DEF vars
  <2>2. TypeOK'
    BY <2>1 DEF IInv, TypeOK, request, rowsOf, sweeps
  <2>3. Revised(row', live')
    BY <2>1, AsTheyWere
  <2> QED
    BY <2>1, <2>2, <2>3, UndecidedKeeps
<1> QED
  BY <1>1, <1>2, <1>3, <1>4, <1>5, <1>6, <1>7, <1>8, <1>9, <1>10 DEF Next

\* The inductive invariant: what holds of the rows, votes and steps together.
THEOREM Invariant == Spec => []IInv
<1>1. IInv /\ [Next]_vars => IInv'
  BY NextKeeps
<1> QED
  BY InitKeeps, <1>1, PTL DEF Spec

\* Type correctness.
THEOREM TypeCorrect == Spec => []TypeOK
<1>1. IInv => TypeOK
  BY DEF IInv
<1> QED
  BY Invariant, <1>1, PTL

\* Nobody votes twice in a step and no row is voted twice: decide's check of voters_in_step suffices
\* against substitutes, forwards, refreshes and escalations in any order.
THEOREM OneVotePerPerson == Spec => []OnePersonOneVote
<1>1. IInv => OnePersonOneVote
  BY DEF IInv, Consistent
<1> QED
  BY Invariant, <1>1, PTL

\* A pending row can always still be voted by its own person: _mark_own_rows_not_needed and the guards
\* of forward, refresh and escalate leave no row behind that waits for a vote nobody may cast.
THEOREM NobodyWaitsInVain == Spec => []PendingMayVote
<1>1. IInv => PendingMayVote
  BY DEF IInv, Consistent
<1> QED
  BY Invariant, <1>1, PTL

\* An e-mail link never outlives its row: whatever ends a row's wait revokes its links.
THEOREM LinksDieWithRows == Spec => []LinksFollowRows
<1>1. IInv => LinksFollowRows
  BY DEF IInv, Consistent
<1> QED
  BY Invariant, <1>1, PTL

\* No stage opens before all stages in front of it are approved, also where activate_next_stage runs
\* through stages that decide themselves at their activation.
THEOREM StagesFollow == Spec => []StagesInOrder
<1>1. IInv => StagesInOrder
  BY DEF IInv, Consistent
<1> QED
  BY Invariant, <1>1, PTL

\* A closed request left nothing open and its steps add up to its outcome, which alone is reported.
THEOREM OutcomeAddsUp == Spec => []ClosedAddsUp
<1>1. IInv => ClosedAddsUp
  BY DEF IInv, Consistent
<1> QED
  BY Invariant, <1>1, PTL

\* What was decided stands, whoever arrives late with a vote, a link, a refresh or a stale selection.
THEOREM NothingIsUndone == Spec => DecisionsStand
<1>1. IInv /\ [Next]_vars => Stands
  BY NextKeeps
<1>2. ASSUME Stands
      PROVE  [/\ status \in Closed => status' = status
              /\ \A s \in Step : /\ stepSt[s] \in Closed => stepSt'[s] = stepSt[s] /\ votes'[s] = votes[s]
                                 /\ \A i \in DOMAIN votes[s] : votes'[s][i] = votes[s][i]]_vars
  BY <1>2 DEF Stands
<1> QED
  BY Invariant, <1>1, <1>2, PTL DEF Spec, DecisionsStand
=============================================================================
