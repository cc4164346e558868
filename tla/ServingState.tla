---------------------------- MODULE ServingState ----------------------------
(***************************************************************************)
(* The serving state of the management register (migration 000011), the    *)
(* adapter ServingStateStore, and the promotion workers that cut over      *)
(* through it (PromotionService._activate_and_verify).                     *)
(*                                                                         *)
(* Each procedure is one SERIALIZABLE transaction holding UPDLOCK on the   *)
(* singleton row and therefore one action; a transaction that throws       *)
(* changes nothing.  A receipt id is a hash of the material it stands for, *)
(* so a receipt is that material; the candidate's fingerprints, target and *)
(* approval are functions of its execution lineage.                        *)
(*                                                                         *)
(* A worker that dies, or that reruns a lineage in a new process, has lost *)
(* everything but the register.  The transport may fail after the commit:  *)
(* the adapter then raises although the transition took place.             *)
(***************************************************************************)
EXTENDS Naturals, Sequences

CONSTANTS
    Lineages,      \* execution lineages, one ServingStateCandidate each
    States,        \* serving state identities
    Genesis,       \* the state the singleton row was seeded with
    SeedReceipt,   \* and its receipt
    Base, Cand,    \* predecessor_state_id and state_id of each candidate
    Workers,       \* processes that execute promotions
    NoLineage      \* a worker that executes nothing

ASSUME CandidateAssumption ==
    /\ Genesis \in States
    /\ Base \in [Lineages -> States]
    /\ Cand \in [Lineages -> States]
    /\ NoLineage \notin Lineages

Operations == {"ACTIVATED", "ROLLED_BACK"}
Receipts == [op : Operations, lin : Lineages, from : States, to : States]

ASSUME SeedAssumption == SeedReceipt \notin Receipts

\* _activation_receipt_id and _rollback_receipt_id.
ActivationReceipt(l) == [op |-> "ACTIVATED", lin |-> l, from |-> Base[l], to |-> Cand[l]]
RollbackReceipt(l, r) == [op |-> "ROLLED_BACK", lin |-> r.lin, from |-> Cand[l], to |-> Base[l]]

VARIABLES
    facts,         \* serving_state_v1_fact, in the order of its ledger
    current,       \* the row of serving_state_v1_current
    lin, pc        \* each worker's lineage and where it is in the cutover

store == <<facts, current>>
worker == <<lin, pc>>
vars == <<facts, current, lin, pc>>

Recorded(r) == \E i \in DOMAIN facts : facts[i] = r

Transition(r) ==
    /\ facts' = Append(facts, r)
    /\ current' = [state |-> r.to, receipt |-> r]

-----------------------------------------------------------------------------
(* The procedures. *)

ActivateReplays(l) ==
    /\ Recorded(ActivationReceipt(l))
    /\ current.state = Cand[l]
    /\ current.receipt = ActivationReceipt(l)

ActivateAppliesUnfenced(l) == ~Recorded(ActivationReceipt(l))

ActivateAppliesAgain(l) == current.state = Base[l]

ActivateApplies(l) ==
    /\ ~Recorded(ActivationReceipt(l))
    /\ current.state = Base[l]

RollbackReplays(l, r) ==
    /\ current.state = Base[l]
    /\ current.receipt = RollbackReceipt(l, r)

RollbackAppliesByState(l, r) ==
    /\ current.state = Cand[l]
    /\ Recorded(r) /\ r.to = Cand[l] /\ r.from = Base[l]
    /\ ~Recorded(RollbackReceipt(l, r))

RollbackApplies(l, r) ==
    /\ ~RollbackReplays(l, r)
    /\ current.state = Cand[l]
    /\ current.receipt = r
    /\ Recorded(r) /\ r.op = "ACTIVATED" /\ r.to = Cand[l] /\ r.from = Base[l]
    /\ ~Recorded(RollbackReceipt(l, r))

ActivateServingState(l) ==
    \/ ActivateApplies(l) /\ Transition(ActivationReceipt(l))
    \/ ActivateReplays(l) /\ UNCHANGED store

RollbackServingState(l, r) ==
    \/ RollbackApplies(l, r) /\ Transition(RollbackReceipt(l, r))
    \/ RollbackReplays(l, r) /\ UNCHANGED store

-----------------------------------------------------------------------------
(* The workers. *)

Outcomes == {"succeeded", "rolled_back", "error"}
Steps == {"idle", "activate", "verify", "rollback"} \cup Outcomes

Goto(w, step) == pc' = [pc EXCEPT ![w] = step] /\ UNCHANGED lin

\* The execution reaches its cutover: the lineage may be one that this or
\* another worker has executed before.
Begin(w, l) ==
    /\ pc[w] = "idle"
    /\ lin' = [lin EXCEPT ![w] = l]
    /\ pc' = [pc EXCEPT ![w] = "activate"]
    /\ UNCHANGED store

\* state.activate: an error of the procedure or of the transport ends the
\* execution, the latter possibly after the commit.
Activate(w) ==
    /\ pc[w] = "activate"
    /\ \/ ActivateServingState(lin[w]) /\ (Goto(w, "verify") \/ Goto(w, "error"))
       \/ UNCHANGED store /\ Goto(w, "error")

\* state.verify: a read of the current state.  A mismatch is a
\* ServingStateVerificationError and rolls back; a read that fails is not
\* caught and ends the execution with the candidate still serving.
Verify(w) ==
    /\ pc[w] = "verify"
    /\ \/ current.state = Cand[lin[w]] /\ Goto(w, "succeeded")
       \/ current.state # Cand[lin[w]] /\ Goto(w, "rollback")
       \/ Goto(w, "error")
    /\ UNCHANGED store

\* state.rollback with the receipt of the worker's own activation.
Rollback(w) ==
    /\ pc[w] = "rollback"
    /\ \/ /\ RollbackServingState(lin[w], ActivationReceipt(lin[w]))
          /\ Goto(w, "rolled_back") \/ Goto(w, "error")
       \/ UNCHANGED store /\ Goto(w, "error")

\* The execution has ended or its process dies; the worker takes up a next one.
Restart(w) ==
    /\ pc[w] # "idle"
    /\ lin' = [lin EXCEPT ![w] = NoLineage]
    /\ pc' = [pc EXCEPT ![w] = "idle"]
    /\ UNCHANGED store

\* A caller of the adapter outside of a cutover, holding some lineage's
\* activation receipt, which need not be the one of the candidate it names.
OperatorRollback(l, m) ==
    /\ RollbackServingState(l, ActivationReceipt(m))
    /\ UNCHANGED worker

Init ==
    /\ facts = <<>>
    /\ current = [state |-> Genesis, receipt |-> SeedReceipt]
    /\ lin = [w \in Workers |-> NoLineage]
    /\ pc = [w \in Workers |-> "idle"]

Next ==
    \/ \E w \in Workers :
          \/ \E l \in Lineages : Begin(w, l)
          \/ Activate(w) \/ Verify(w) \/ Rollback(w) \/ Restart(w)
    \/ \E l, m \in Lineages : OperatorRollback(l, m)

Spec == Init /\ [][Next]_vars

-----------------------------------------------------------------------------
(* Properties. *)

\* The variables have their types.
TypeOK ==
    /\ facts \in Seq(Receipts)
    /\ current \in [state : States, receipt : Receipts \cup {SeedReceipt}]
    /\ lin \in [Workers -> Lineages \cup {NoLineage}]
    /\ pc \in [Workers -> Steps]
    /\ \A w \in Workers : pc[w] # "idle" => lin[w] \in Lineages

\* ADR 0009: the current row is derived from the ledger.  It names the
\* newest fact and the state that fact made active, and each fact starts
\* from the state its predecessor left: no transition was lost between.
CurrentDerivesFromHistory ==
    /\ facts = <<>> => current = [state |-> Genesis, receipt |-> SeedReceipt]
    /\ facts # <<>> => /\ current.receipt = facts[Len(facts)]
                       /\ current.state = facts[Len(facts)].to
    /\ \A i \in DOMAIN facts :
           facts[i].from = IF i = 1 THEN Genesis ELSE facts[i - 1].to

\* A receipt is recorded once: no insert meets the primary key of the ledger,
\* and a lineage that was rolled back is never activated again.
ReceiptsAreUnique ==
    \A i, j \in DOMAIN facts : facts[i] = facts[j] => i = j

\* A rollback undoes the newest transition and that transition only: the
\* fact before it is the activation of the same lineage.
RollbackUndoesNewest ==
    \A i \in DOMAIN facts :
        facts[i].op = "ROLLED_BACK" =>
            i > 1 /\ facts[i - 1] = ActivationReceipt(facts[i].lin)

\* What a worker reports of its cutover is in the ledger: its activation, and
\* when it says so its rollback, which nobody may have to rediscover.
OutcomesAreRecorded ==
    \A w \in Workers :
        /\ pc[w] \in {"verify", "succeeded", "rollback", "rolled_back"} =>
               Recorded(ActivationReceipt(lin[w]))
        /\ pc[w] = "rolled_back" =>
               Recorded(RollbackReceipt(lin[w], ActivationReceipt(lin[w])))

\* A worker that finds another state than its own after activating can not
\* undo what was made active since: its rollback finds no transition to undo.
LateRollbackIsHarmless ==
    \A w \in Workers :
        pc[w] = "rollback" => ~RollbackApplies(lin[w], ActivationReceipt(lin[w]))

\* The docstring of ServingStateVerificationError: a post-activation mismatch
\* is "eligible for exact rollback".  The rollback of a worker that found one
\* is accepted.
MismatchIsEligibleForRollback ==
    \A w \in Workers :
        pc[w] = "rollback" =>
            LET r == ActivationReceipt(lin[w]) IN
            RollbackApplies(lin[w], r) \/ RollbackReplays(lin[w], r)

\* The ledger and the row implement the history ADR 0009 describes.
Pointer ==
    INSTANCE ActiveState WITH
        active <- current.state,
        history <- [i \in DOMAIN facts |-> [from |-> facts[i].from, to |-> facts[i].to]]

ImplementsActiveState == Pointer!Spec
=============================================================================
