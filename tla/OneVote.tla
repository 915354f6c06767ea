------------------------------- MODULE OneVote -------------------------------
(***************************************************************************)
(* What voting on one step of a request promises the people who call it:   *)
(* each vote takes effect at one moment, at most once per person and per   *)
(* row, and what a caller is told is what happened.                        *)
(***************************************************************************)
CONSTANTS Call,      \* calls of the decision endpoints
          Person,
          Deciding   \* the sets of ballots that decide the step

Ballot == [by : Person, row : Person]
Answers == {"voted", "refused", "busy", "failed", "lost"}

VARIABLES invited,   \* people with an approver row in the step
          asked,     \* call -> {} or the ballot it wants to cast
          took,      \* calls whose vote took effect
          open,      \* the step is undecided
          answer     \* call -> what it was told
promise == <<invited, asked, took, open, answer>>

BallotsOf(calls) == UNION {asked[c] : c \in calls}

\* The step is open, the person has not voted in it, and the row is still to be voted: it has no vote
\* and its person has not voted with another one.
MayVote(b) ==
    /\ open
    /\ b.row \in invited
    /\ \A v \in BallotsOf(took) : v.by \notin {b.by, b.row} /\ v.row # b.row

Init ==
    /\ invited \in SUBSET Person
    /\ asked = [c \in Call |-> {}]
    /\ took = {}
    /\ open = TRUE
    /\ answer = [c \in Call |-> "none"]

Ask(c) ==
    /\ asked[c] = {}
    /\ \E b \in Ballot : asked' = [asked EXCEPT ![c] = {b}]
    /\ UNCHANGED <<invited, took, open, answer>>

TakeEffect(c) ==
    /\ c \notin took /\ answer[c] = "none"
    /\ \E b \in asked[c] : MayVote(b)
    /\ took' = took \cup {c}
    /\ open' = (BallotsOf(took') \notin Deciding)
    /\ UNCHANGED <<invited, asked, answer>>

\* A caller is told that it voted only when it did, that it may not only when it may not, and to try
\* again (busy) only when nothing happened; after an error or no answer it knows nothing.
Tell(c, a) ==
    /\ asked[c] # {} /\ answer[c] = "none"
    /\ a = "voted" => c \in took
    /\ a \in {"refused", "busy"} => c \notin took
    /\ a = "refused" => \A b \in asked[c] : ~ MayVote(b)
    /\ answer' = [answer EXCEPT ![c] = a]
    /\ UNCHANGED <<invited, asked, took, open>>

Next == \E c \in Call : Ask(c) \/ TakeEffect(c) \/ \E a \in Answers : Tell(c, a)

Spec == Init /\ [][Next]_promise
=============================================================================
