--------------------------- MODULE MCLiveSchedule ---------------------------
(* Two daily observations and a reconciliation of the source group, and a  *)
(* maintenance slot of a group of its own.                                 *)
EXTENDS LiveSchedule, TLC

CONSTANTS t1, t2

MCGroup == [c \in Commands |-> IF c = 4 THEN "AUDIT" ELSE "SOURCE"]
MCTimers == {t1, t2}
OneTimer == {t1}
=============================================================================
