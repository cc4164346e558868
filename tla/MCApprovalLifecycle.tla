------------------------ MODULE MCApprovalLifecycle ------------------------
(***************************************************************************)
(* Instances of ApprovalLifecycle.                                         *)
(***************************************************************************)
EXTENDS ApprovalLifecycle, TLC

CONSTANT m1

\* Every proposal carries the same manifest.
SameManifest == [p \in Proposals |-> m1]
=============================================================================
