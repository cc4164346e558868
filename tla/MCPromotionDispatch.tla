------------------------ MODULE MCPromotionDispatch ------------------------
(***************************************************************************)
(* Instances of PromotionDispatch: interchangeable dispatchers.            *)
(***************************************************************************)
EXTENDS PromotionDispatch, TLC

DispatcherSymmetry == Permutations(Dispatchers)
=============================================================================
