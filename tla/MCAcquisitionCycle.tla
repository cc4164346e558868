------------------------- MODULE MCAcquisitionCycle -------------------------
(* Two items of one host, the second of which waits for the first in some  *)
(* runs, and a relationship.                                               *)
EXTENDS AcquisitionCycle, TLC

CONSTANTS a, b, r

MCHost == [i \in Work |-> "host"]
MCNeeds == [i \in Work |-> {}]
MCNeedsFirst == [i \in Work |-> IF i = b THEN {a} ELSE {}]
=============================================================================
