----------------------------- MODULE ActiveState -----------------------------
(***************************************************************************)
(* What ADR 0009 asks of the serving state: an append-only history of      *)
(* activation and rollback-activation events, each a compare-and-set on    *)
(* the active state, and an active state that is derived from the history. *)
(***************************************************************************)
EXTENDS Naturals, Sequences

CONSTANTS States, Genesis

VARIABLES
    active,        \* the serving state of the environment
    history        \* the events that made it so, oldest first

Events == [from : States, to : States]

Init ==
    /\ active = Genesis
    /\ history = <<>>

\* One event, valid only from the state that is active.
Transition(e) ==
    /\ e.from = active
    /\ active' = e.to
    /\ history' = Append(history, e)

Next == \E e \in Events : Transition(e)

Spec == Init /\ [][Next]_<<active, history>>
=============================================================================
