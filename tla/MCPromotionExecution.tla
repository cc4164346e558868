------------------------ MODULE MCPromotionExecution ------------------------
(***************************************************************************)
(* Instances of PromotionExecution.  t1 took s0 to s1 and is in force; t2   *)
(* takes s1 to s2, its rival r2 takes s1 to s3, and t3 takes s2 to s3.     *)
(***************************************************************************)
EXTENDS PromotionExecution, TLC

From == [t1 |-> "s0", t2 |-> "s1", r2 |-> "s1", t3 |-> "s2"]
To == [t1 |-> "s1", t2 |-> "s2", r2 |-> "s3", t3 |-> "s3"]

MCBase == [l \in Lineages |-> From[l]]
MCCand == [l \in Lineages |-> To[l]]
MCStates == {MCBase[l] : l \in Lineages} \cup {MCCand[l] : l \in Lineages}

WorkerSymmetry == Permutations(Workers)
=============================================================================
