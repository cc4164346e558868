-------------------------- MODULE MCEffectHandoff --------------------------
(***************************************************************************)
(* Instances of EffectHandoff.                                             *)
(***************************************************************************)
EXTENDS EffectHandoff, TLC
CONSTANTS h1, h2, h3, w1, w2

\* Two handlers of one worker process share its claimant_id; the third
\* handler is another worker's.
SharedClaimant == (h1 :> w1) @@ (h2 :> w1) @@ (h3 :> w2)

\* Two workers with one handler each.
OwnClaimant == (h1 :> w1) @@ (h2 :> w2)
=============================================================================
