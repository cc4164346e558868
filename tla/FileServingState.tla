-------------------------- MODULE FileServingState --------------------------
(***************************************************************************)
(* The operations of the file that holds the serving state of the local    *)
(* installation (apps/promotion-worker local_serving_state.py).  Each runs *)
(* under the lock of the file and replaces it atomically, so each is a     *)
(* function of the document: what the call returns, and the document it    *)
(* leaves.  An entry of the document repeats the whole candidate, its      *)
(* lineage included, and is modelled by the lineage.                       *)
(***************************************************************************)
CONSTANTS
    Lineages,          \* execution lineages, each with one manifest
    States,            \* serving states
    Base, Cand,        \* the states a lineage replaces and activates
    None               \* no entry

ASSUME LineageAssumption == Base \in [Lineages -> States] /\ Cand \in [Lineages -> States]
ASSUME MovesAssumption == \A l \in Lineages : Base[l] # Cand[l]
ASSUME NoneAssumption == None \notin Lineages

Documents == [active : States, act : Lineages \cup {None}, rb : Lineages \cup {None}]

Did(result, doc) == [result |-> result, doc |-> doc]

\* Mutant of Activate: only the active state is compared.
ActivateByState(doc, l) ==
    IF doc.active = Cand[l]
    THEN Did("REPLAYED", doc)
    ELSE IF doc.active = Base[l]
         THEN Did("APPLIED", [active |-> Cand[l], act |-> l, rb |-> None])
         ELSE Did("BASE_STATE_DRIFT", doc)

\* activate: replay an activation that is in force, refuse one that was rolled
\* back, and otherwise compare and set.
Activate(doc, l) ==
    IF doc.act = l
    THEN Did(IF doc.active = Cand[l] THEN "REPLAYED" ELSE "BASE_STATE_DRIFT", doc)
    ELSE IF doc.active = Base[l]
         THEN Did("APPLIED", [active |-> Cand[l], act |-> l, rb |-> None])
         ELSE Did("BASE_STATE_DRIFT", doc)

\* rollback: replay one that is in force, or reverse the retained activation if
\* it is in force and was never reversed.
Rollback(doc, l) ==
    IF doc.rb = l /\ doc.active = Base[l]
    THEN Did("REPLAYED", doc)
    ELSE IF doc.act = l /\ doc.active = Cand[l] /\ doc.rb = None
         THEN Did("APPLIED", [doc EXCEPT !.active = Base[l], !.rb = l])
         ELSE Did("POST_CUTOVER_FAILED", doc)

\* restore: replay one that is in force, or put the candidate that was rolled
\* back in force again.
Restore(doc, l) ==
    IF doc.rb = l /\ doc.act = l /\ doc.active = Cand[l]
    THEN Did("REPLAYED", doc)
    ELSE IF doc.rb = l /\ doc.act = l /\ doc.active = Base[l]
         THEN Did("APPLIED", [doc EXCEPT !.active = Cand[l]])
         ELSE Did("POST_CUTOVER_FAILED", doc)

Done(r) == r.result \in {"APPLIED", "REPLAYED"}
=============================================================================
