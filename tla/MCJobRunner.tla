---------------------------- MODULE MCJobRunner ----------------------------
(* Small instances of JobRunner. *)
EXTENDS JobRunner, TLC

Symmetry == Permutations(Runner)
OneLane == <<"default">>
TwoLanes == <<"default", "mail">>
AllDefault == [j \in Job |-> "default"]
AllMail == [j \in Job |-> "mail"]
OneSlot == [l \in {"default", "mail"} |-> 1]
OneSlotDefault == [l \in {"default"} |-> 1]
AllRequeue == [j \in Job |-> TRUE]
FirstRequeues == [j \in Job |-> j = 1]
Twice == [j \in Job |-> 2]
FirstTwice == [j \in Job |-> IF j = 1 THEN 2 ELSE 1]
=============================================================================
