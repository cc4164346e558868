--------------------------- MODULE MCServingState ---------------------------
(***************************************************************************)
(* Instance of ServingState: two rival promotions of the same base, one of *)
(* them approved twice (two lineages of one candidate), and a promotion    *)
(* built upon the first candidate.                                         *)
(***************************************************************************)
EXTENDS ServingState

MCBase == [l \in Lineages |-> CASE l = "next" -> "s1" [] OTHER -> "s0"]
MCCand == [l \in Lineages |-> CASE l = "next" -> "s2" [] l = "rival" -> "s2" [] OTHER -> "s1"]
=============================================================================
