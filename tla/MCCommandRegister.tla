------------------------- MODULE MCCommandRegister -------------------------
(***************************************************************************)
(* Instance of CommandRegister: two callers, two aggregates, and the       *)
(* command conflicts the protocol has to settle.                           *)
(***************************************************************************)
EXTENDS CommandRegister

Command(app, id, bytes, target) ==
    [app |-> app, id |-> id, bytes |-> bytes, target |-> target,
     absent |-> TRUE, expected |-> 0, expires |-> 1, guard |-> "APPLIED",
     winner |-> None, event |-> id, type |-> "EVENT", intent |-> None]

\* Creates aggregate A, competing for a winner key, with an effect intent.
CreateA == [Command("P", "create", "b1", "A")
                EXCEPT !.winner = "w", !.intent = "i1", !.expires = 2]

\* The same command id with other bytes.
Conflicting == [Command("P", "create", "b2", "A") EXCEPT !.event = "other"]

\* Creates aggregate B, competing for the same winner key.
CreateB == [Command("P", "rival", "b3", "B") EXCEPT !.winner = "w"]

\* Two updates that expect the same version of A; the second one reuses the
\* event id of CreateB.
UpdateA == [Command("P", "update", "b4", "A") EXCEPT !.absent = FALSE, !.expected = 1]
RaceA == [Command("P", "race", "b5", "A")
              EXCEPT !.absent = FALSE, !.expected = 1, !.event = "rival", !.expires = 2]

\* The id of UpdateA with other bytes, which the guard of its caller rejects.
Guarded == [Command("P", "update", "b6", "A")
                EXCEPT !.guard = "REJECTED_INVALID_STATE", !.event = None]

Commands == {CreateA, Conflicting, CreateB, UpdateA, RaceA, Guarded}
=============================================================================
