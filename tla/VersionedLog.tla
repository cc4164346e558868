----------------------------- MODULE VersionedLog -----------------------------
(***************************************************************************)
(* What the command protocol of the management register promises: each     *)
(* aggregate is an append-only log of commands, and each command has one   *)
(* outcome, decided once, in the step that appends it or refuses it.       *)
(***************************************************************************)
EXTENDS Naturals, Sequences

CONSTANTS Aggregates, Commands, Rejections

VARIABLES
    log,           \* the commands applied to each aggregate, in order
    outcome        \* the decision on each command

Pending == [code |-> "none", version |-> 0]

Init ==
    /\ log = [a \in Aggregates |-> <<>>]
    /\ outcome = [c \in Commands |-> Pending]

\* The command becomes the next entry; its outcome is its position.
Applied(c, a) ==
    /\ outcome[c] = Pending
    /\ log' = [log EXCEPT ![a] = Append(@, c)]
    /\ outcome' = [outcome EXCEPT ![c] = [code |-> "APPLIED", version |-> Len(log[a]) + 1]]

\* The command is refused at the version the aggregate has.
Refused(c, a, code) ==
    /\ outcome[c] = Pending
    /\ outcome' = [outcome EXCEPT ![c] = [code |-> code, version |-> Len(log[a])]]
    /\ UNCHANGED log

Next ==
    \E c \in Commands, a \in Aggregates :
        Applied(c, a) \/ \E code \in Rejections : Refused(c, a, code)

Spec == Init /\ [][Next]_<<log, outcome>>
=============================================================================
