----------------------------- MODULE StepVoting -----------------------------
(***************************************************************************)
(* One step of an approval while it is open: who may vote comes and goes,  *)
(* and after every change the code asks evaluate_step whether the step is  *)
(* over.  The voters start out pending; a vote moves its voter behind the  *)
(* ones that voted before (step_voters sorts by the votes).                *)
(***************************************************************************)
EXTENDS ApprovalRules, SequencesExt

CONSTANTS MaxVoters,   \* bound: voters of the step
          MaxQuorum    \* bound: the quorum a definition asks for

ASSUME VotingAssumption == MaxVoters \in Nat \ {0} /\ MaxQuorum \in Nat \ {0}

VARIABLES rule, quorum, voters

vars == <<rule, quorum, voters>>

Outcome == EvaluateStep(rule, quorum, voters)
Pending == {i \in DOMAIN voters : voters[i].status = "pending"}
Cast == DOMAIN voters \ Pending
Fresh(decisive) == [status |-> "pending", decisive |-> decisive, regular |-> ~decisive]

\* activate_step: a step without an approver or with an unreachable rule never opens.
Init ==
    /\ rule \in Rules
    /\ quorum \in 1..MaxQuorum
    /\ \E n \in 1..MaxVoters :
          /\ Reachable(rule, quorum, n)
          /\ voters = [i \in 1..n |-> Fresh(FALSE)]

\* Mutant: everybody keeps the place of their row.
MutReordered(v, i) == [voters EXCEPT ![i] = v]
\* step_voters sorts the votes so far, then v, then the voters still pending; the votes
\* already stand in front (TypeOK), so v goes to the first pending place.
Reordered(v, i) == InsertAt(RemoveAt(voters, i), Min(Pending), v)

\* decide: the step is open and this voter is pending.
CastVote(i, vote) ==
    /\ Outcome = "pending"
    /\ voters' = Reordered([voters[i] EXCEPT !.status = vote], i)
    /\ UNCHANGED <<rule, quorum>>

\* _escalate: a pending approver becomes decisive and keeps counting in the rule.
Upgrade(i) ==
    /\ Outcome = "pending"
    /\ voters' = [voters EXCEPT ![i].decisive = TRUE]
    /\ UNCHANGED <<rule, quorum>>

\* _escalate: someone who was no approver of the step.
Escalate ==
    /\ Outcome = "pending"
    /\ Len(voters) < MaxVoters
    /\ voters' = Append(voters, Fresh(TRUE))
    /\ UNCHANGED <<rule, quorum>>

\* refresh_approvers: someone who qualifies now.
Join ==
    /\ Outcome = "pending"
    /\ Len(voters) < MaxVoters
    /\ voters' = Append(voters, Fresh(FALSE))
    /\ UNCHANGED <<rule, quorum>>

\* refresh_approvers, _drop_invalid, the own row of a delegate who voted: a pending voter goes.
Leave(i) ==
    /\ Outcome = "pending"
    /\ voters' = RemoveAt(voters, i)
    /\ UNCHANGED <<rule, quorum>>

Next ==
    \/ \E i \in Pending : \/ \E vote \in Vote : CastVote(i, vote)
                          \/ Upgrade(i)
                          \/ Leave(i)
    \/ Escalate
    \/ Join

Spec == Init /\ [][Next]_vars

-----------------------------------------------------------------------------
(* What the votes mean, stated without counting what is still possible. *)

\* The ways the pending voters could vote, in the order they are listed.
Completions ==
    {[i \in DOMAIN voters |-> IF i \in Pending THEN [voters[i] EXCEPT !.status = ballot[i]]
                              ELSE voters[i]] : ballot \in [Pending -> Vote]}

\* The verdict on an electorate that voted completely.
Verdict(all) ==
    LET yes == {i \in DOMAIN all : all[i].status = "approved"}
        carried == CASE rule = "any" -> all[1].status = "approved"
                     [] rule = "all" -> yes = DOMAIN all
                     [] rule = "majority" -> 2 * Cardinality(yes) > Len(all)
                     [] rule = "quorum" -> Cardinality(yes) >= quorum
    IN  IF carried THEN "approved" ELSE "rejected"

\* A step is closed exactly when its votes settle it: without decisive voters, an outcome is
\* reported as soon as, and only when, every way the rest could vote leads to it.
\* (evaluate_step against the meaning of the rules.)
SettledExactly ==
    (voters # <<>> /\ \A i \in DOMAIN voters : ~voters[i].decisive)
        => \A vote \in Vote : Outcome = vote <=> {Verdict(all) : all \in Completions} = {vote}

\* An escalation's word is final: once a decisive voter voted, the step has that result,
\* whatever the others voted before. (evaluate_step, rule 1.)
DecisiveDecides ==
    \A i \in Cast : voters[i].decisive => Outcome = voters[i].status

\* Nobody is left waiting for a vote that cannot come: an open step with voters has a pending
\* one. (evaluate_step's "pending" against step_voters.)
OpenWaitsForSomeone ==
    (Outcome = "pending" /\ voters # <<>>) => Pending # {}

TypeOK ==
    /\ rule \in Rules
    /\ quorum \in 1..MaxQuorum
    /\ voters \in Seq(Voter) /\ Len(voters) <= MaxVoters
    /\ \A i \in Pending, j \in Cast : j < i
=============================================================================
