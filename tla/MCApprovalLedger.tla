-------------------------- MODULE MCApprovalLedger --------------------------
(***************************************************************************)
(* Instances of ApprovalLedger: interchangeable review processes.          *)
(***************************************************************************)
EXTENDS ApprovalLedger, TLC

=============================================================================
