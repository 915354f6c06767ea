------------------------------ MODULE Approval ------------------------------
(***************************************************************************)
(* approvals/service.py, _engine.py, sweep.py and tokens.py: one approval  *)
(* request from the moment it is made until it is closed.                  *)
(*                                                                         *)
(* Every operation locks the request row first and re-reads what it is     *)
(* about to change, so an action is one transaction (that the lock makes   *)
(* it one is the subject of VoteLock).  What is read without the lock      *)
(* stays a step of its own: the sweeper selects its candidates before.     *)
(*                                                                         *)
(* Who approver entries resolve to is decided by groups, roles and users   *)
(* that change at any time: every resolution yields any subset of the      *)
(* people the definition can name, without the excluded ones.  Approvers   *)
(* are agents; deadlines pass at any moment.                               *)
(***************************************************************************)
EXTENDS ApprovalRules, SequencesExt

CONSTANTS Person,        \* agents
          Step,          \* positions of the steps, numbers
          Definitions,   \* what may be requested: functions from Step to StepSpec
          Exclusions,    \* requester and creator, {} when self-approval is allowed
          Sweeper,       \* worker processes that run the approvals sweep
          MaxAborts      \* bound: sweeps that end before their last item

\* "never": the step has no deadline.  The contract refuses a quorum below one.
Timeouts == {"never", "notify", "escalate"} \cup Vote
StepSpec == [stage : Nat, rule : Rules, quorum : Nat \ {0}, onTimeout : Timeouts, onNoApprover : Vote,
             delegation : BOOLEAN, email : BOOLEAN,
             approvers : SUBSET Person, escalation : SUBSET Person]

ASSUME ApprovalAssumption ==
    /\ Step \subseteq Nat /\ IsFiniteSet(Step) /\ Step # {}
    /\ IsFiniteSet(Person)
    /\ Definitions \subseteq [Step -> StepSpec]
    /\ Exclusions \subseteq SUBSET Person
    /\ "regular" \notin Person /\ "escalation" \notin Person
    /\ MaxAborts \in Nat

VARIABLES spec,       \* the definition, stored with the steps
          excluded,   \* who may not approve: requester and creator
          status,     \* the request
          stepSt,     \* step -> its status
          row,        \* step -> person -> status of the approver row (unique per step and person)
          source,     \* step -> person -> where that row came from; a forward names the forwarder
          decisive,   \* step -> people whose row is decisive
          votes,      \* step -> its votes in order
          live,       \* step -> people with a live e-mail link for their row
          hooks,      \* hook jobs queued, by the outcome they report
          due,        \* steps whose deadline has passed
          overdue,    \* steps with overdue_at set
          cand,       \* sweeper -> steps it selected as overdue and has still to handle
          aborts      \* sweeps ended early

request == <<spec, excluded>>
rowsOf == <<source, decisive>>
sweeps == <<due, overdue, cand, aborts>>
vars == <<request, status, stepSt, row, rowsOf, votes, live, hooks, sweeps>>

Closed == Vote \cup {"cancelled"}
Open == {"waiting", "active"}
RowStatus == {"none", "pending", "forwarded", "removed", "not_needed"} \cup Vote

Init ==
    /\ spec \in Definitions
    /\ excluded \in Exclusions
    /\ status = "none"
    /\ stepSt = [s \in Step |-> "none"]
    /\ row = [s \in Step |-> [p \in Person |-> "none"]]
    /\ source = [s \in Step |-> [p \in Person |-> "regular"]]
    /\ decisive = [s \in Step |-> {}]
    /\ votes = [s \in Step |-> <<>>]
    /\ live = [s \in Step |-> {}]
    /\ hooks = {}
    /\ due = {} /\ overdue = {}
    /\ cand = [w \in Sweeper |-> {}]
    /\ aborts = 0

-----------------------------------------------------------------------------
(* What the engine computes. *)

WithStatus(st) == {s \in Step : stepSt[s] = st}
PendingIn(rows, s) == {p \in Person : rows[s][p] = "pending"}

\* Mutant: only the votes people cast for themselves.
MutVotersIn(s) == {votes[s][i].by : i \in {j \in DOMAIN votes[s] : votes[s][j].by = votes[s][j].row}}
\* voters_in_step: who cast a vote in the step, for themselves or for someone else.
VotersIn(s) == {votes[s][i].by : i \in DOMAIN votes[s]}

\* The row that a forwarded row was made from, and any other row itself.
Origin(s, p) == IF source[s][p] \in Person THEN source[s][p] ELSE p

\* in_rule: FALSE for a decisive row that exists only through an escalation, or a forward of one.
CountsInRule(s, p) == p \in decisive[s] => source[s][Origin(s, p)] # "escalation"

AsVoter(s, p, st) == [status |-> st, decisive |-> p \in decisive[s], regular |-> CountsInRule(s, p)]

\* step_voters: the rows that voted, in the order of the votes, then the pending ones.
StepVoters(s, rows, cast) ==
    LET pending == SetToSeq(PendingIn(rows, s))
    IN  [i \in DOMAIN cast |-> AsVoter(s, cast[i].row, rows[s][cast[i].row])]
          \o [i \in DOMAIN pending |-> AsVoter(s, pending[i], "pending")]

Outcome(s, rows, cast) == EvaluateStep(spec[s].rule, spec[s].quorum, StepVoters(s, rows, cast))

\* resolve_step for the steps of S: anybody the entries can name, never an excluded person.
Resolutions(S) == {found \in [S -> SUBSET Person] : \A s \in S : found[s] \subseteq spec[s].approvers \ excluded}

\* activate_step: how a step stands right after its activation.
AtActivation(s, found) ==
    IF Reachable(spec[s].rule, spec[s].quorum, Cardinality(found)) THEN "active" ELSE spec[s].onNoApprover

\* Mutant: every stage is opened at once.
MutReached(steps, found) == {s \in Step : steps[s] = "waiting"}
\* The waiting steps the loop of activate_next_stage opens: a stage is followed by the next one
\* while all its steps were approved at their activation.
Reached(steps, found) ==
    {s \in Step : /\ steps[s] = "waiting"
                  /\ \A t \in Step : steps[t] = "waiting" /\ spec[t].stage < spec[s].stage
                                        => AtActivation(t, found[t]) = "approved"}

\* activate_next_stage: nothing while a step is active or one was rejected.
AfterActivation(steps, found) ==
    IF \E s \in Step : steps[s] \in {"active", "rejected"} THEN steps
    ELSE [s \in Step |-> IF s \in Reached(steps, found) THEN AtActivation(s, found[s]) ELSE steps[s]]

\* finalize, close_open_steps: the request is closed, everything still open with it.
Finalize(result, steps, rows) ==
    /\ status' = result
    /\ stepSt' = [s \in Step |-> IF steps[s] \in Open THEN "cancelled" ELSE steps[s]]
    /\ row' = [s \in Step |-> [p \in Person |->
                  IF steps[s] \in Open /\ rows[s][p] = "pending" THEN "not_needed" ELSE rows[s][p]]]
    /\ live' = [s \in Step |-> {}]
    /\ hooks' = hooks \cup {result}

\* activate_next_stage for a pending request, on the steps as they stand now.
Advance(steps, rows, links, found) ==
    LET after == AfterActivation(steps, found)
        added == [s \in Step |-> [p \in Person |->
                     IF steps[s] = "waiting" /\ after[s] = "active" /\ p \in found[s]
                     THEN "pending" ELSE rows[s][p]]]
        result == RequestResult({after[s] : s \in Step})
    IN  \/ /\ result = "pending"
           /\ status' = "pending" /\ stepSt' = after /\ row' = added /\ live' = links
           /\ UNCHANGED hooks
        \/ /\ result # "pending"
           /\ Finalize(result, after, added)

\* close_step for the steps that have an outcome, then the next stage.
CloseSteps(outcome, rows, links) ==
    LET over == {s \in Step : outcome[s] # "pending"}
        left == [s \in Step |-> [p \in Person |->
                    IF s \in over /\ rows[s][p] = "pending" THEN "not_needed" ELSE rows[s][p]]]
    IN  \E found \in Resolutions(WithStatus("waiting")) :
            Advance([s \in Step |-> IF s \in over THEN outcome[s] ELSE stepSt[s]], left,
                    [s \in Step |-> IF s \in over THEN links[s] \ PendingIn(rows, s) ELSE links[s]], found)

Only(s, outcome) == [t \in Step |-> IF t = s THEN outcome ELSE "pending"]

\* Mutant: a step whose last voter left waits on.
MutReevaluate(S, rows, links) ==
    CloseSteps([s \in Step |-> IF s \in S THEN Outcome(s, rows, votes[s]) ELSE "pending"], rows, links)

\* reevaluate_steps: in the order of the positions; the first rejection closes the request, and the
\* steps behind it are not looked at any more.  A step without voters takes on_no_approver.
Reevaluate(S, rows, links) ==
    LET deserted(s) == PendingIn(rows, s) = {} /\ votes[s] = <<>>
        verdict(s) == IF deserted(s) THEN spec[s].onNoApprover ELSE Outcome(s, rows, votes[s])
        reached(s) == s \in S /\ \A t \in S : t < s => verdict(t) # "rejected"
    IN  CloseSteps([s \in Step |-> IF reached(s) THEN verdict(s) ELSE "pending"], rows, links)

-----------------------------------------------------------------------------
(* Making, cancelling. *)

\* request_approval: every step waits, then stage one is activated.
Request ==
    /\ status = "none"
    /\ \E found \in Resolutions(Step) : Advance([s \in Step |-> "waiting"], row, live, found)
    /\ UNCHANGED <<request, rowsOf, votes, sweeps>>

\* record_auto_decision: a decided request without steps.
AutoDecide(result) ==
    /\ status = "none"
    /\ Finalize(result, stepSt, row)
    /\ UNCHANGED <<request, rowsOf, votes, sweeps>>

\* cancel_approval, and _supersede by a newer request of the same key.
Cancel ==
    /\ status = "pending"
    /\ Finalize("cancelled", stepSt, row)
    /\ UNCHANGED <<request, rowsOf, votes, sweeps>>

-----------------------------------------------------------------------------
(* Voting, forwarding. *)

\* decide: p votes with its own row or, as a substitute, with the row of q.  Another pending row of
\* p in the step can never be voted any more and is not needed.
Decide(p, s, q, vote) ==
    /\ status = "pending"
    /\ stepSt[s] = "active" /\ row[s][q] = "pending"
    /\ p # q => spec[s].delegation
    /\ p \notin VotersIn(s)
    /\ {p, q} \cap excluded = {}
    /\ LET cast == Append(votes[s], [by |-> p, row |-> q, vote |-> vote])
           dead == PendingIn(row, s) \cap ({p} \ {q})
           rows == [row EXCEPT ![s] = [x \in Person |-> IF x = q THEN vote
                                                        ELSE IF x \in dead THEN "not_needed"
                                                        ELSE row[s][x]]]
       IN  /\ votes' = [votes EXCEPT ![s] = cast]
           /\ CloseSteps(Only(s, Outcome(s, rows, cast)), rows, [live EXCEPT ![s] = @ \ ({q} \cup dead)])
    /\ UNCHANGED <<request, rowsOf, sweeps>>

\* redeem_link: the vote of the link's own row, while the link is neither used nor revoked.
Redeem(p, s, vote) ==
    /\ p \in live[s]
    /\ spec[s].email
    /\ Decide(p, s, p, vote)

\* issue_link (the mail job).
IssueLink(p, s) ==
    /\ status = "pending" /\ stepSt[s] = "active" /\ row[s][p] = "pending"
    /\ spec[s].email
    /\ live' = [live EXCEPT ![s] = @ \cup {p}]
    /\ UNCHANGED <<request, status, stepSt, row, rowsOf, votes, hooks, sweeps>>

\* Mutant: the links of the forwarded row live on.
MutForward(q, s, p) ==
    /\ status = "pending"
    /\ stepSt[s] = "active" /\ row[s][q] = "pending"
    /\ spec[s].delegation /\ source[s][q] \notin Person
    /\ row[s][p] = "none" /\ p \notin VotersIn(s) \cup excluded
    /\ row' = [row EXCEPT ![s] = [@ EXCEPT ![q] = "forwarded", ![p] = "pending"]]
    /\ source' = [source EXCEPT ![s] = [@ EXCEPT ![p] = q]]
    /\ decisive' = [decisive EXCEPT ![s] = IF q \in @ THEN @ \cup {p} ELSE @]
    /\ UNCHANGED <<request, status, stepSt, votes, live, hooks, sweeps>>

\* Mutant: the new row does not say whose it was.
MutForwardOrigin(q, s, p) ==
    /\ status = "pending"
    /\ stepSt[s] = "active" /\ row[s][q] = "pending"
    /\ spec[s].delegation /\ source[s][q] \notin Person
    /\ row[s][p] = "none" /\ p \notin VotersIn(s) \cup excluded
    /\ row' = [row EXCEPT ![s] = [@ EXCEPT ![q] = "forwarded", ![p] = "pending"]]
    /\ source' = [source EXCEPT ![s] = [@ EXCEPT ![p] = "forward"]]
    /\ decisive' = [decisive EXCEPT ![s] = IF q \in @ THEN @ \cup {p} ELSE @]
    /\ live' = [live EXCEPT ![s] = @ \ {q}]
    /\ UNCHANGED <<request, status, stepSt, votes, hooks, sweeps>>

\* forward: q hands its own pending row to p, who has no row in the step and has not voted there.
Forward(q, s, p) ==
    /\ status = "pending"
    /\ stepSt[s] = "active" /\ row[s][q] = "pending"
    /\ spec[s].delegation /\ source[s][q] \notin Person
    /\ row[s][p] = "none" /\ p \notin VotersIn(s) \cup excluded
    /\ row' = [row EXCEPT ![s] = [@ EXCEPT ![q] = "forwarded", ![p] = "pending"]]
    /\ source' = [source EXCEPT ![s] = [@ EXCEPT ![p] = q]]
    /\ decisive' = [decisive EXCEPT ![s] = IF q \in @ THEN @ \cup {p} ELSE @]
    /\ live' = [live EXCEPT ![s] = @ \ {q}]
    /\ UNCHANGED <<request, status, stepSt, votes, hooks, sweeps>>

-----------------------------------------------------------------------------
(* Approvers that come and go. *)

\* refresh_approvers: pending rows nobody asks for any more are removed, unless an escalation or a
\* forward made them or their entry resolves to nothing at the moment (silent); who qualifies now and
\* has neither a row nor a vote in the step is added.
Refresh ==
    LET S == WithStatus("active")
        departed(s, found) == {p \in PendingIn(row, s) : source[s][p] = "regular"} \ found
    IN  /\ status = "pending"
        /\ \E found \in Resolutions(S), removed \in [S -> SUBSET Person] :
              /\ \A s \in S : removed[s] \subseteq departed(s, found[s])
              /\ Reevaluate(S,
                    [s \in Step |-> [p \in Person |->
                        IF s \in S /\ p \in removed[s] THEN "removed"
                        ELSE IF s \in S /\ p \in found[s] \ VotersIn(s) /\ row[s][p] = "none" THEN "pending"
                        ELSE row[s][p]]],
                    [s \in Step |-> IF s \in S THEN live[s] \ removed[s] ELSE live[s]])
        /\ UNCHANGED <<request, rowsOf, votes, sweeps>>

\* _drop_invalid: pending approvers that are no valid agents any more are removed.
DropInvalid ==
    LET S == WithStatus("active")
    IN  /\ status = "pending"
        /\ \E unfit \in SUBSET UNION {PendingIn(row, s) : s \in S} :
              /\ unfit # {}
              /\ Reevaluate({s \in S : PendingIn(row, s) \cap unfit # {}},
                    [s \in Step |-> [p \in Person |->
                        IF s \in S /\ p \in PendingIn(row, s) \cap unfit THEN "removed" ELSE row[s][p]]],
                    [s \in Step |-> IF s \in S THEN live[s] \ (PendingIn(row, s) \cap unfit) ELSE live[s]])
        /\ UNCHANGED <<request, rowsOf, votes, sweeps>>

-----------------------------------------------------------------------------
(* Deadlines. *)

DeadlinePasses(s) ==
    /\ stepSt[s] = "active" /\ spec[s].onTimeout # "never"
    /\ s \notin due
    /\ due' = due \cup {s}
    /\ UNCHANGED <<request, status, stepSt, row, rowsOf, votes, live, hooks, overdue, cand, aborts>>

\* _overdue_candidates, in a session of its own.
SelectOverdue(w) ==
    LET found == (WithStatus("active") \cap due) \ overdue
    IN  /\ cand[w] = {} /\ found # {}
        /\ cand' = [cand EXCEPT ![w] = found]
        /\ UNCHANGED <<request, status, stepSt, row, rowsOf, votes, live, hooks, due, overdue, aborts>>

\* Mutant: the sweeper trusts its selection.
MutStillOverdue(s) == status = "pending"
\* The re-check of _item and _overdue, under the lock.
StillOverdue(s) == status = "pending" /\ stepSt[s] = "active" /\ s \notin overdue

Handled(w, s) == cand' = [cand EXCEPT ![w] = @ \ {s}] /\ UNCHANGED <<due, aborts>>

\* A vote or another sweeper was faster.
SkipOverdue(w, s) ==
    /\ s \in cand[w] /\ ~StillOverdue(s)
    /\ Handled(w, s)
    /\ UNCHANGED <<request, status, stepSt, row, rowsOf, votes, live, hooks, overdue>>

\* _overdue with on_timeout notify: everybody is told, once.
NotifyOverdue(w, s) ==
    /\ s \in cand[w] /\ StillOverdue(s)
    /\ spec[s].onTimeout = "notify"
    /\ overdue' = overdue \cup {s}
    /\ Handled(w, s)
    /\ UNCHANGED <<request, status, stepSt, row, rowsOf, votes, live, hooks>>

\* Mutant: people who voted for someone else are escalated to.
MutEscalatedTo(s, found) == {p \in found : row[s][p] \in {"none", "pending"}}
\* _escalate: whoever has not voted in the step and has no row there or a pending one.
EscalatedTo(s, found) == {p \in found \ VotersIn(s) : row[s][p] \in {"none", "pending"}}

\* _overdue with on_timeout escalate; with nobody to escalate to it is a notice.
EscalateOverdue(w, s) ==
    /\ s \in cand[w] /\ StillOverdue(s)
    /\ spec[s].onTimeout = "escalate"
    /\ \E found \in SUBSET (spec[s].escalation \ excluded) :
          LET now == EscalatedTo(s, found)
              new == {p \in now : row[s][p] = "none"}
          IN  /\ row' = [row EXCEPT ![s] = [p \in Person |-> IF p \in new THEN "pending" ELSE @[p]]]
              /\ source' = [source EXCEPT ![s] = [p \in Person |-> IF p \in new THEN "escalation" ELSE @[p]]]
              /\ decisive' = [decisive EXCEPT ![s] = @ \cup now]
    /\ overdue' = overdue \cup {s}
    /\ Handled(w, s)
    /\ UNCHANGED <<request, status, stepSt, votes, live, hooks>>

\* _overdue with on_timeout reject or approve.
DecideOverdue(w, s) ==
    /\ s \in cand[w] /\ StillOverdue(s)
    /\ spec[s].onTimeout \in Vote
    /\ CloseSteps(Only(s, spec[s].onTimeout), row, live)
    /\ overdue' = overdue \cup {s}
    /\ Handled(w, s)
    /\ UNCHANGED <<request, rowsOf, votes>>

\* Mutant: the selection has marked its steps as overdue already.
MutAbortSweep(w) ==
    /\ cand[w] # {} /\ aborts < MaxAborts
    /\ cand' = [cand EXCEPT ![w] = {}]
    /\ overdue' = overdue \cup cand[w]
    /\ aborts' = aborts + 1
    /\ UNCHANGED <<request, status, stepSt, row, rowsOf, votes, live, hooks, due>>

\* The process ends, or an item fails and is rolled back; the next tick selects again.
AbortSweep(w) ==
    /\ cand[w] # {} /\ aborts < MaxAborts
    /\ cand' = [cand EXCEPT ![w] = {}]
    /\ aborts' = aborts + 1
    /\ UNCHANGED <<request, status, stepSt, row, rowsOf, votes, live, hooks, due, overdue>>

-----------------------------------------------------------------------------
SweepItem(w, s) ==
    \/ SkipOverdue(w, s) \/ NotifyOverdue(w, s) \/ EscalateOverdue(w, s) \/ DecideOverdue(w, s)

Voting(p, s) ==
    \/ \E q \in Person, vote \in Vote : Decide(p, s, q, vote)
    \/ \E vote \in Vote : Redeem(p, s, vote)
    \/ \E q \in Person : Forward(p, s, q)
    \/ IssueLink(p, s)

Next ==
    \/ Request
    \/ \E result \in Vote : AutoDecide(result)
    \/ Cancel
    \/ \E p \in Person, s \in Step : Voting(p, s)
    \/ Refresh
    \/ DropInvalid
    \/ \E s \in Step : DeadlinePasses(s)
    \/ \E w \in Sweeper : SelectOverdue(w) \/ AbortSweep(w)
    \/ \E w \in Sweeper, s \in Step : SweepItem(w, s)

Spec == Init /\ [][Next]_vars

\* Deadlines pass, and the sweep runs about once a minute and handles what it selected.
FairSpec ==
    /\ Spec
    /\ \A s \in Step : WF_vars(DeadlinePasses(s))
    /\ \A w \in Sweeper : WF_vars(SelectOverdue(w) \/ \E s \in Step : SweepItem(w, s))

-----------------------------------------------------------------------------
(* What the code promises. *)

TypeOK ==
    /\ spec \in Definitions /\ excluded \in Exclusions
    /\ status \in {"none", "pending"} \cup Closed
    /\ stepSt \in [Step -> {"none"} \cup Open \cup Closed]
    /\ row \in [Step -> [Person -> RowStatus]]
    /\ source \in [Step -> [Person -> {"regular", "escalation"} \cup Person]]
    /\ decisive \in [Step -> SUBSET Person]
    /\ votes \in [Step -> Seq([by : Person, row : Person, vote : Vote])]
    /\ live \in [Step -> SUBSET Person]
    /\ hooks \subseteq Closed
    /\ due \subseteq Step /\ overdue \subseteq Step
    /\ cand \in [Sweeper -> SUBSET Step]
    /\ aborts \in 0..MaxAborts

\* One person, one vote: nobody votes twice in a step, for themselves or for others, however rows
\* are forwarded, added and escalated meanwhile (F8), and no row is voted twice.
OnePersonOneVote ==
    \A s \in Step : \A i, j \in DOMAIN votes[s] :
        votes[s][i].by = votes[s][j].by \/ votes[s][i].row = votes[s][j].row => i = j

\* Every pending row of an open step can still be voted by its own person: it is neither the
\* requester's nor someone's who voted in the step already (else an "all" step waits for ever).
PendingMayVote ==
    \A s \in Step, p \in Person :
        row[s][p] = "pending" => /\ status = "pending" /\ stepSt[s] = "active"
                                 /\ p \notin VotersIn(s) \cup excluded

\* No step is left open that its votes have decided, and none waits for nobody: whatever changes an
\* active step's voters re-evaluates it.
OpenIsUndecided ==
    \A s \in WithStatus("active") :
        PendingIn(row, s) # {} /\ Outcome(s, row, votes[s]) = "pending"

\* A closed request left nothing open, and its steps say what it says: approved only with every step
\* approved, rejected only with a rejected step; the consumer is told that outcome and no other.
ClosedAddsUp ==
    /\ hooks = IF status \in Closed THEN {status} ELSE {}
    /\ status \in Closed => WithStatus("waiting") \cup WithStatus("active") = {}
    /\ status = "approved" => WithStatus("approved") \cup WithStatus("none") = Step
    /\ status = "rejected" => WithStatus("rejected") # {} \/ WithStatus("none") = Step
    /\ status = "pending" => WithStatus("rejected") \cup WithStatus("cancelled") = {}

\* A stage opens when all stages before it are approved, never earlier.
StagesInOrder ==
    \A s, t \in Step :
        /\ spec[s].stage < spec[t].stage
        /\ stepSt[t] \in {"active"} \cup Vote
        => stepSt[s] = "approved"

\* An e-mail link never outlives the row it stands for: voted, forwarded, removed or not needed, the
\* link is dead with it.
LinksFollowRows == \A s \in Step : \A p \in live[s] : row[s][p] = "pending"

\* What was decided stands: a closed request, an ended step and a cast vote never change, whoever
\* arrives late with a vote, a link, a refresh or an overdue selection.
DecisionsStand ==
    [][/\ status \in Closed => status' = status
       /\ \A s \in Step : /\ stepSt[s] \in Closed => stepSt'[s] = stepSt[s] /\ votes'[s] = votes[s]
                          /\ \A i \in DOMAIN votes[s] : votes'[s][i] = votes[s][i]]_vars

\* A request whose steps are all decided at their deadlines ends.
DeadlinesDecide ==
    (status = "pending" /\ \A s \in Step : spec[s].onTimeout \in Vote) ~> status \in Closed

\* docs/approvals.md: with rule majority more than half of the approvers agreed, and as a person votes
\* once per step this is a majority of people.
MajorityOfPeople ==
    \A s \in WithStatus("approved") :
        spec[s].rule = "majority" /\ decisive[s] = {} =>
            LET asked == {p \in Person : row[s][p] \in {"pending", "not_needed"} \cup Vote}
                agreed == {votes[s][i].by : i \in {j \in DOMAIN votes[s] : votes[s][j].vote = "approved"}}
            IN  2 * Cardinality(agreed) > Cardinality(asked)

-----------------------------------------------------------------------------
(* Why it holds. *)

\* A pending request has no rejected and no cancelled step.
StatusFits ==
    /\ status = "none" => \A s \in Step : stepSt[s] = "none"
    /\ status = "pending" => \A s \in Step : stepSt[s] \in Open \cup {"approved"}

\* A step that was never activated has neither rows nor votes.
Untouched ==
    \A s \in Step : stepSt[s] \in {"none", "waiting"} =>
        votes[s] = <<>> /\ \A p \in Person : row[s][p] = "none"

\* A row that voted keeps its vote.
Recorded == \A s \in Step : \A i \in DOMAIN votes[s] : row[s][votes[s][i].row] = votes[s][i].vote

Consistent ==
    /\ StatusFits /\ Untouched /\ Recorded /\ OnePersonOneVote /\ PendingMayVote
    /\ LinksFollowRows /\ StagesInOrder /\ ClosedAddsUp

IInv == TypeOK /\ Consistent

\* Where rows come from: a person without a row neither decides alone nor is the origin of one, and
\* whatever goes back to an escalation is decisive.
Origins ==
    \A s \in Step, p \in Person :
        /\ row[s][p] = "none" => /\ source[s][p] = "regular" /\ p \notin decisive[s]
                                /\ \A x \in Person : source[s][x] # p
        /\ source[s][Origin(s, p)] = "escalation" => p \in decisive[s]

UInv == IInv /\ Origins /\ OpenIsUndecided
=============================================================================
