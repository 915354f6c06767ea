----------------------------- MODULE MCApproval -----------------------------
(* Small instances of Approval. *)
EXTENDS Approval

CONSTANTS p1, p2, p3

Base == [stage |-> 1, rule |-> "all", quorum |-> 1, onTimeout |-> "escalate", onNoApprover |-> "rejected",
         delegation |-> TRUE, email |-> FALSE, approvers |-> {p1, p2}, escalation |-> {p2, p3}]

Nobody == {{}}
SelfOrNot == {{}, {p1}}

\* One step that anybody has anything to do in: every rule, with substitutes, forwards and an escalation; or with e-mail links, and
\* reported or approved at its deadline.
Alone(first) ==
    [s \in Step |-> IF s = 1 THEN first ELSE [Base EXCEPT !.stage = 2, !.approvers = {}, !.escalation = {}]]
Escalated == {Alone([Base EXCEPT !.rule = r, !.quorum = 2, !.onNoApprover = o]) : r \in Rules, o \in Vote}
Linked == {Alone([Base EXCEPT !.email = TRUE, !.onTimeout = t, !.escalation = {}]) :
              t \in {"notify", "approved"}}
OneStep == Escalated \cup Linked

\* Two steps at once, then a third one; all are decided at their deadlines.
TwoThenOne ==
    {[s \in Step |-> [Base EXCEPT !.stage = IF s = 3 THEN 2 ELSE 1,
                                  !.rule = IF s = 2 THEN "any" ELSE "all",
                                  !.onTimeout = IF s = 1 THEN "approved" ELSE "rejected",
                                  !.onNoApprover = o,
                                  !.delegation = FALSE,
                                  !.approvers = IF s = 1 THEN {p1, p2} ELSE {p2},
                                  !.escalation = {}]] : o \in Vote}

OneOrThree == OneStep \cup TwoThenOne

\* Two approvers, majority, each may vote for the other.
Majority == {[s \in Step |-> [Base EXCEPT !.rule = "majority", !.onTimeout = "never", !.escalation = {}]]}
=============================================================================
