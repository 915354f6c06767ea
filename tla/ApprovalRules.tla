--------------------------- MODULE ApprovalRules ---------------------------
(***************************************************************************)
(* approvals/rules.py: what the votes of one step amount to, and what the  *)
(* steps of a request amount to.  Pure operators, no state.                *)
(*                                                                         *)
(* A voter is a record of its vote, of whether it decides alone (decisive) *)
(* and of whether it counts in the step's rule (regular): the engine       *)
(* always says so, an escalation-only voter is the one that does not.      *)
(* Voters come in the order they voted, the pending ones last.             *)
(***************************************************************************)
EXTENDS Naturals, Sequences, FiniteSets, FiniteSetsExt

Rules == {"any", "all", "quorum", "majority"}
Vote == {"approved", "rejected"}
Voter == [status : Vote \cup {"pending"}, decisive : BOOLEAN, regular : BOOLEAN]

\* Mutant: majority is half of the voters.
MutRequiredVotes(rule, quorum, voters) ==
    CASE rule = "any" -> 1
      [] rule = "all" -> voters
      [] rule = "majority" -> (voters + 1) \div 2
      [] rule = "quorum" -> quorum

\* required_votes, for at least one voter.
RequiredVotes(rule, quorum, voters) ==
    CASE rule = "any" -> 1
      [] rule = "all" -> voters
      [] rule = "majority" -> voters \div 2 + 1
      [] rule = "quorum" -> quorum

\* quorum_reachable, and a step without any approver: what an activation asks.
Reachable(rule, quorum, voters) ==
    voters > 0 /\ RequiredVotes(rule, quorum, voters) <= voters

\* Mutant: a quorum out of reach is waited for.
MutRuleOutcome(rule, quorum, voters) ==
    LET regular == {i \in DOMAIN voters : voters[i].regular}
        With(status) == {i \in regular : voters[i].status = status}
        cast == With("approved") \cup With("rejected")
        needed == RequiredVotes(rule, quorum, Cardinality(regular))
    IN  CASE regular = {} -> "pending"
          [] regular # {} /\ rule = "any" ->
                IF cast = {} THEN "pending" ELSE voters[Min(cast)].status
          [] regular # {} /\ rule = "all" ->
                IF With("rejected") # {} THEN "rejected"
                ELSE IF With("pending") = {} THEN "approved" ELSE "pending"
          [] OTHER ->
                IF Cardinality(With("approved")) >= needed THEN "approved"
                ELSE "pending"

\* What the rule says of the voters that count in it.
RuleOutcome(rule, quorum, voters) ==
    LET regular == {i \in DOMAIN voters : voters[i].regular}
        With(status) == {i \in regular : voters[i].status = status}
        cast == With("approved") \cup With("rejected")
        needed == RequiredVotes(rule, quorum, Cardinality(regular))
    IN  CASE regular = {} -> "pending"
          [] regular # {} /\ rule = "any" ->
                IF cast = {} THEN "pending" ELSE voters[Min(cast)].status
          [] regular # {} /\ rule = "all" ->
                IF With("rejected") # {} THEN "rejected"
                ELSE IF With("pending") = {} THEN "approved" ELSE "pending"
          [] OTHER ->
                IF Cardinality(With("approved")) >= needed THEN "approved"
                ELSE IF Cardinality(With("approved")) + Cardinality(With("pending")) < needed
                     THEN "rejected" ELSE "pending"

\* Mutant: only the approval of a decisive voter decides alone.
MutEvaluateStep(rule, quorum, voters) ==
    LET alone == {i \in DOMAIN voters : voters[i].decisive /\ voters[i].status = "approved"}
    IN  IF alone # {} THEN voters[Min(alone)].status ELSE RuleOutcome(rule, quorum, voters)

\* evaluate_step: the first decisive voter who has voted decides alone.
EvaluateStep(rule, quorum, voters) ==
    LET alone == {i \in DOMAIN voters : voters[i].decisive /\ voters[i].status # "pending"}
    IN  IF alone # {} THEN voters[Min(alone)].status ELSE RuleOutcome(rule, quorum, voters)

\* Mutant: a rejection counts when nobody is asked any more.
MutRequestResult(statuses) ==
    IF "rejected" \in statuses /\ "active" \notin statuses THEN "rejected"
    ELSE IF statuses = {"approved"} THEN "approved" ELSE "pending"

\* request_result, of the statuses of all steps.
RequestResult(statuses) ==
    IF "rejected" \in statuses THEN "rejected"
    ELSE IF statuses = {"approved"} THEN "approved" ELSE "pending"
=============================================================================
