------------------------------ MODULE VoteLock ------------------------------
(***************************************************************************)
(* approvals/service.py decide and tokens.py redeem_link as transactions   *)
(* of their own, run by approvals/retry.py: the vote of one step, cast by  *)
(* calls that race (F1).                                                   *)
(*                                                                         *)
(* SELECT ... FOR UPDATE on the request serialises them.  Step and         *)
(* approver rows are read with locks and so always as they are; the votes  *)
(* are a plain read.  On MariaDB (REPEATABLE READ) that read sees the view *)
(* of its transaction, which opens at its first plain read; on PostgreSQL  *)
(* (READ COMMITTED) every statement sees what is committed.  A call has    *)
(* read before it votes: the signed-in user, or the request of its link.   *)
(*                                                                         *)
(* A link votes its own row; that it dies with the row is LinksFollowRows  *)
(* of Approval.  Which sets of ballots decide the step is a constant: the  *)
(* rules are the subject of StepVoting.                                    *)
(***************************************************************************)
EXTENDS Naturals, FiniteSets

CONSTANTS Call, Person, Deciding,
          Wishes,     \* what a call may want to cast: a function from calls to sets of ballots
          Attempts,   \* _ATTEMPTS of commit_with_retry
          Databases   \* subset of {"mariadb", "postgresql"}

Ballot == [by : Person, row : Person]

ASSUME VoteLockAssumption ==
    Attempts \in Nat \ {0} /\ Wishes \in [Call -> SUBSET Ballot] /\ {} \notin Deciding

VARIABLES db,       \* the database
          invited,  \* people with an approver row in the step
          asked,    \* call -> {} or its ballot
          link,     \* calls that come with a link
          pending,  \* people whose row is pending (committed)
          took,     \* calls whose vote is committed
          open,     \* the step is active (committed)
          holder,   \* {} or the call that holds the lock of the request
          pc,       \* call -> where it stands
          view,     \* call -> {} or the votes its transaction's view shows
          decides,  \* calls whose written vote decides the step
          tries,    \* call -> attempts that were deadlock victims
          answer    \* call -> what it was told

durable == <<pending, took, open>>
vars == <<db, invited, asked, link, durable, holder, pc, view, decides, tries, answer>>

BallotsOf(calls) == UNION {asked[c] : c \in calls}

Init ==
    /\ db \in Databases
    /\ invited \in SUBSET Person
    /\ asked = [c \in Call |-> {}]
    /\ link = {}
    /\ pending = invited /\ took = {} /\ open = TRUE
    /\ holder = {}
    /\ pc = [c \in Call |-> "idle"]
    /\ view = [c \in Call |-> {}]
    /\ decides = {}
    /\ tries = [c \in Call |-> 0]
    /\ answer = [c \in Call |-> "none"]

\* A plain read of the votes.
OpenView(c) == view' = [view EXCEPT ![c] = {BallotsOf(took)}]
Seen(c) == IF db = "mariadb" /\ view[c] # {} THEN UNION view[c] ELSE BallotsOf(took)

\* The end of a transaction that wrote nothing or is undone.
EndTransaction(c) ==
    /\ view' = [view EXCEPT ![c] = {}]
    /\ decides' = decides \ {c}
    /\ holder' = holder \ {c}

GoTo(c, p) == pc' = [pc EXCEPT ![c] = p]
Answer(c, a) == answer' = [answer EXCEPT ![c] = a]

-----------------------------------------------------------------------------
\* A request comes in; reading the user (or the link) opened a view.
Arrive(c) ==
    /\ pc[c] = "idle"
    /\ \E b \in Wishes[c] :
          /\ asked' = [asked EXCEPT ![c] = {b}]
          /\ link' \in {link} \cup (IF b.by = b.row THEN {link \cup {c}} ELSE {})
    /\ OpenView(c)
    /\ GoTo(c, "arrived")
    /\ UNCHANGED <<db, invited, durable, holder, decides, tries, answer>>

\* Mutant: the lock is taken in the transaction the user was read in.
MutRollBack(c) ==
    /\ pc[c] = "arrived"
    /\ GoTo(c, "ready")
    /\ UNCHANGED <<db, invited, asked, link, durable, holder, view, decides, tries, answer>>

\* session.rollback() before the lock: of the endpoint, of redeem_link's second phase.
RollBack(c) ==
    /\ pc[c] = "arrived"
    /\ EndTransaction(c)
    /\ GoTo(c, "ready")
    /\ UNCHANGED <<db, invited, asked, link, durable, tries, answer>>

\* lock_approval.
Lock(c) ==
    /\ pc[c] = "ready" /\ holder = {}
    /\ holder' = {c}
    /\ GoTo(c, "locked")
    /\ UNCHANGED <<db, invited, asked, link, durable, view, decides, tries, answer>>

\* decide's checks: step and row as they are, the voters as the view shows them.
Accepts(c, b) == open /\ b.row \in pending /\ \A v \in Seen(c) : v.by # b.by

Refuse(c) ==
    /\ pc[c] = "locked"
    /\ \E b \in asked[c] : ~ Accepts(c, b)
    /\ EndTransaction(c)
    /\ Answer(c, "refused")
    /\ GoTo(c, "done")
    /\ UNCHANGED <<db, invited, asked, link, durable, tries>>

\* The vote is inserted and the step evaluated.
Write(c) ==
    /\ pc[c] = "locked"
    /\ \E b \in asked[c] : Accepts(c, b)
    /\ view' = [view EXCEPT ![c] = IF @ = {} THEN {BallotsOf(took)} ELSE @]
    /\ decides' = IF Seen(c) \cup asked[c] \in Deciding THEN decides \cup {c} ELSE decides
    /\ GoTo(c, "written")
    /\ UNCHANGED <<db, invited, asked, link, durable, holder, tries, answer>>

\* What a ballot takes out of the step: its row, and the voter's own.
Spent(b) == {b.row, b.by}

Commit(c) ==
    /\ pc[c] = "written"
    /\ took' = took \cup {c}
    /\ open' = (open /\ c \notin decides)
    /\ pending' = IF c \in decides THEN {} ELSE pending \ UNION {Spent(b) : b \in asked[c]}
    /\ EndTransaction(c)
    /\ GoTo(c, "committed")
    /\ UNCHANGED <<db, invited, asked, link, tries, answer>>

Reply(c) ==
    /\ pc[c] = "committed"
    /\ Answer(c, "voted")
    /\ GoTo(c, "done")
    /\ UNCHANGED <<db, invited, asked, link, durable, holder, view, decides, tries>>

-----------------------------------------------------------------------------
InAttempt(c) == pc[c] \in {"ready", "locked", "written"}

\* Mutant: the victim's transaction is never ended.
MutDeadlockHeld(c) ==
    /\ InAttempt(c)
    /\ tries' = [tries EXCEPT ![c] = @ + 1]
    /\ decides' = decides \ {c}
    /\ IF tries[c] + 1 = Attempts
         THEN GoTo(c, "done") /\ Answer(c, "busy")
         ELSE GoTo(c, IF c \in link THEN "arrived" ELSE "ready") /\ UNCHANGED answer
    /\ view' = [view EXCEPT ![c] = {}]
    /\ UNCHANGED <<db, invited, asked, link, durable, holder>>

\* Mutant: one attempt too many.
MutDeadlock(c) ==
    /\ InAttempt(c)
    /\ tries' = [tries EXCEPT ![c] = @ + 1]
    /\ holder' = holder \ {c} /\ decides' = decides \ {c}
    /\ IF tries[c] = Attempts
         THEN /\ GoTo(c, "done") /\ Answer(c, "busy")
              /\ view' = [view EXCEPT ![c] = {}]
         ELSE /\ GoTo(c, IF c \in link THEN "arrived" ELSE "ready") /\ UNCHANGED answer
              /\ view' = [view EXCEPT ![c] = IF c \in link THEN {BallotsOf(took)} ELSE {}]
    /\ UNCHANGED <<db, invited, asked, link, durable>>

\* The database picks the call as the victim of a deadlock: the attempt is rolled back and runs again,
\* a link from its lookup, Attempts times in all.
Deadlock(c) ==
    /\ InAttempt(c)
    /\ tries' = [tries EXCEPT ![c] = @ + 1]
    /\ holder' = holder \ {c} /\ decides' = decides \ {c}
    /\ IF tries[c] + 1 = Attempts
         THEN /\ GoTo(c, "done") /\ Answer(c, "busy")
              /\ view' = [view EXCEPT ![c] = {}]
         ELSE /\ GoTo(c, IF c \in link THEN "arrived" ELSE "ready") /\ UNCHANGED answer
              /\ view' = [view EXCEPT ![c] = IF c \in link THEN {BallotsOf(took)} ELSE {}]
    /\ UNCHANGED <<db, invited, asked, link, durable>>

\* Any other error ends the call: of the database (a lock wait timeout, the answer to COMMIT lost), or
\* after the commit, while the inbox push and the reply are prepared.
Fail(c) ==
    /\ InAttempt(c) \/ pc[c] = "committed"
    /\ EndTransaction(c)
    /\ Answer(c, "failed")
    /\ GoTo(c, "done")
    /\ UNCHANGED <<db, invited, asked, link, durable, tries>>

\* The process ends; the database undoes what was not committed.  Nobody learns how the call ended.
Crash(c) ==
    /\ pc[c] \notin {"idle", "done"}
    /\ EndTransaction(c)
    /\ Answer(c, "lost")
    /\ GoTo(c, "done")
    /\ UNCHANGED <<db, invited, asked, link, durable, tries>>

Proceed(c) == RollBack(c) \/ Lock(c) \/ Refuse(c) \/ Write(c) \/ Commit(c) \/ Reply(c)

Finished == \A c \in Call : pc[c] = "done"

Next ==
    \/ \E c \in Call : Arrive(c) \/ Proceed(c) \/ Deadlock(c) \/ Fail(c) \/ Crash(c)
    \/ Finished /\ UNCHANGED vars

Spec == Init /\ [][Next]_vars

\* A call that runs goes on, and the lock is granted to somebody once it is free.
FairSpec == Spec /\ \A c \in Call : WF_vars(Proceed(c))

-----------------------------------------------------------------------------
TypeOK ==
    /\ db \in Databases
    /\ invited \subseteq Person
    /\ asked \in [Call -> SUBSET Ballot]
    /\ link \subseteq Call
    /\ pending \subseteq Person /\ took \subseteq Call /\ open \in BOOLEAN
    /\ holder \subseteq Call
    /\ pc \in [Call -> {"idle", "arrived", "ready", "locked", "written", "committed", "done"}]
    /\ view \in [Call -> SUBSET SUBSET Ballot]
    /\ decides \subseteq Call
    /\ tries \in [Call -> 0..Attempts]
    /\ answer \in [Call -> {"none", "voted", "refused", "busy", "failed", "lost"}]

\* Racing votes amount to votes one after the other: each takes effect at its commit, nobody votes
\* twice and no row is voted twice, the step closes with the vote that decides it, and every answer is
\* true, whatever deadlocks, failures and crashes come between.
Promise == INSTANCE OneVote WITH Call <- Call, Person <- Person, Deciding <- Deciding,
                                 invited <- invited, asked <- asked, took <- took,
                                 open <- open, answer <- answer
VotesAreAtomic == Promise!Spec

\* Every call is answered: no vote waits for a lock nobody gives back, and deadlocks do not go on for
\* ever.
CallsEnd == \A c \in Call : pc[c] # "idle" ~> pc[c] = "done"

-----------------------------------------------------------------------------
(* Why it holds: who holds the lock sees every committed vote. *)

Working == {c \in Call : pc[c] \in {"locked", "written"}}

LockHeld == \A c \in Call : (c \in Working <=> c \in holder) /\ \A d \in Working : c \in Working => c = d

ViewCurrent ==
    \A c \in Call :
        /\ pc[c] = "ready" => view[c] = {}
        /\ c \in Working => Seen(c) = BallotsOf(took)

\* The rows are what the committed votes made of them.
RowsFollowVotes ==
    /\ open <=> BallotsOf(took) \notin Deciding
    /\ open => pending = invited \ UNION {Spent(b) : b \in BallotsOf(took)}

\* A written vote was acceptable and still is; its decision is right.
WrittenIsRight ==
    \A c \in Call :
        /\ pc[c] = "written" =>
              /\ \A b \in asked[c] : Accepts(c, b)
              /\ c \in decides <=> BallotsOf(took) \cup asked[c] \in Deciding
        /\ pc[c] # "written" => c \notin decides

AnswersFit ==
    \A c \in Call :
        /\ IF pc[c] = "idle" THEN asked[c] = {} ELSE \E b \in Ballot : asked[c] = {b}
        /\ pc[c] # "done" => answer[c] = "none" /\ tries[c] < Attempts
        /\ pc[c] = "committed" => c \in took
        /\ pc[c] \notin {"committed", "done"} => c \notin took

IInv == TypeOK /\ LockHeld /\ ViewCurrent /\ RowsFollowVotes /\ WrittenIsRight /\ AnswersFit
=============================================================================
