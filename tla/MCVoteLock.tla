----------------------------- MODULE MCVoteLock -----------------------------
\* Instance of VoteLock for TLC: ann votes for herself and for ben at once, ben for himself.
EXTENDS VoteLock

CONSTANTS ann, ben, c1, c2, c3

\* Two ballots decide the step.
TwoBallots == {b \in SUBSET Ballot : Cardinality(b) >= 2}

ThreeWishes ==
    [c \in Call |-> CASE c = c1 -> {[by |-> ann, row |-> ann]}
                      [] c = c2 -> {[by |-> ann, row |-> ben]}
                      [] c = c3 -> {[by |-> ben, row |-> ben]}]
=============================================================================
