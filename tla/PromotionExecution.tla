------------------------- MODULE PromotionExecution -------------------------
(***************************************************************************)
(* Execution of approved promotions by the local installation: the         *)
(* promotion activity (apps/promotion-worker v1_execution.py, service.py,  *)
(* promotion_evidence.py) and the operator's rollback and restoration      *)
(* drill (tools/hk_v1_serving_state_transition.py), which share the file   *)
(* that holds the serving state.                                           *)
(*                                                                         *)
(* Every delivery of the activity is an attempt by a fresh service: it     *)
(* keeps nothing but what is in the files, the approval ledger and the     *)
(* vector store.  An attempt dies at any step, and the scheduler, which    *)
(* delivers at least once, may deliver a lineage again while an earlier    *)
(* attempt is still under way.  The vector store is external: a request    *)
(* may be applied, lost or applied late whatever the worker hears of it,   *)
(* and embedding a text again may give another vector.                     *)
(***************************************************************************)
EXTENDS FileServingState, Naturals, FiniteSets

CONSTANTS
    Workers,
    NBatches,          \* batches of a manifest
    Vectors,           \* what the provider may embed a batch as
    Missing,           \* a batch, or a file, that is not there
    Promoted,          \* lineages that were promoted before
    InForce,           \* the one of them that is in force
    MayClose,          \* whether effect windows may close
    MaxFaults,         \* bound: failures of calls
    MaxCrashes         \* bound: deaths of an attempt or of the drill

Batches == 1..NBatches

ASSUME BatchAssumption == NBatches \in Nat \ {0} /\ Missing \notin Vectors
ASSUME MissingAssumption == Missing \notin Documents
ASSUME PromotedAssumption == Promoted \subseteq Lineages /\ InForce \in Promoted
ASSUME BoundsAssumption == MayClose \in BOOLEAN /\ MaxFaults \in Nat /\ MaxCrashes \in Nat

Contents == [Batches -> Vectors \cup {Missing}]
ASSUME ContentsAssumption == Missing \notin Contents
Empty == [b \in Batches |-> Missing]
Roles == {"NATIVE", "RECOVERY"}
Evidence == [op : {"PROMOTION", "ROLLBACK"}, state : States]

VARIABLES
    doc,               \* the serving state file
    approval,          \* the approval of each lineage in the ledger
    target,            \* the target of each candidate: Missing or its contents
    pending,           \* upserts that are still on their way
    backups,           \* the backup files of each lineage
    complete,          \* the completion evidence of each lineage, or Missing
    failure,           \* the failure stop of each lineage: the state it names, or Missing
    closed,            \* lineages whose effect window has closed
    at,                \* where each worker is in its attempt and what it knows there
    drill, plans,      \* the drill under way; the lineages it is planned for
    report,            \* the drill's report: the state it names, or Missing
    unmoved,           \* false once a failure stop followed a move by its own attempt
    faults, crashes    \* counters of the bounds

files == <<doc, approval, complete, failure>>
remote == <<target, pending, backups>>
drills == <<drill, plans, report>>
bounds == <<faults, crashes>>
vars == <<doc, approval, target, pending, backups, complete, failure, closed, at,
          drill, plans, report, unmoved, faults, crashes>>

Activated(l) == [active |-> Cand[l], act |-> l, rb |-> None]
RolledBack(l) == [active |-> Base[l], act |-> l, rb |-> l]
Restored(l) == [active |-> Cand[l], act |-> l, rb |-> l]

Full(c) == c # Missing /\ \A b \in Batches : c[b] # Missing

Steps == {"idle", "consume", "create", "fill", "reconcile", "inventory", "native", "recovery",
          "activate", "verify", "rollback", "undo", "validate", "persist", "stop"}
Idle == [step |-> "idle", l |-> InForce, before |-> Missing, n |-> 1, wanted |-> Empty,
         op |-> "PROMOTION", moved |-> FALSE]
Rest == [step |-> "idle", l |-> InForce]

Goto(w, step) == at' = [at EXCEPT ![w].step = step]
Quit(w) == at' = [at EXCEPT ![w] = Idle]
Fault == faults < MaxFaults /\ faults' = faults + 1 /\ UNCHANGED crashes

-----------------------------------------------------------------------------
(* An attempt of the activity. *)

\* Mutant of Begin: the preflight expects the base in force.
BeginOnBase(w, l) ==
    /\ at[w].step = "idle"
    /\ approval[l] \in {"APPROVED", "CONSUMED"}
    /\ doc.active = Base[l]
    /\ l \notin closed
    /\ at' = [at EXCEPT ![w] = [Idle EXCEPT !.step = "consume", !.l = l, !.before = doc]]
    /\ UNCHANGED <<files, remote, closed, drills, unmoved, bounds>>

\* The preflight of a delivery, and the activity up to its first effect.
Begin(w, l) ==
    /\ at[w].step = "idle"
    /\ approval[l] \in {"APPROVED", "CONSUMED"}
    /\ doc.active \in {Base[l]} \cup (IF approval[l] = "CONSUMED" THEN {Cand[l]} ELSE {})
    /\ l \notin closed
    /\ at' = [at EXCEPT ![w] = [Idle EXCEPT !.step = "consume", !.l = l, !.before = doc]]
    /\ UNCHANGED <<files, remote, closed, drills, unmoved, bounds>>

\* consume re-reads the ledger under its lock: an approval that was withdrawn
\* since the preflight is refused.
Consume(w) ==
    LET l == at[w].l IN
    /\ at[w].step = "consume"
    /\ \/ /\ approval[l] \in {"APPROVED", "CONSUMED"}
          /\ approval' = [approval EXCEPT ![l] = "CONSUMED"]
          /\ Goto(w, "create")
       \/ /\ approval[l] = "WITHDRAWN"
          /\ Goto(w, "stop")
          /\ UNCHANGED approval
    /\ UNCHANGED <<doc, remote, complete, failure, closed, drills, unmoved, bounds>>

\* create and describe: the target may have been created although the call failed.
Create(w) ==
    LET c == Cand[at[w].l] IN
    /\ at[w].step = "create"
    /\ at[w].l \notin closed
    /\ target' = [target EXCEPT ![c] = IF @ = Missing THEN Empty ELSE @]
    /\ \/ Goto(w, "fill") /\ UNCHANGED bounds
       \/ Goto(w, "stop") /\ Fault
    /\ UNCHANGED <<files, pending, backups, closed, drills, unmoved>>

Sent(w, v) == [at[w] EXCEPT !.wanted[at[w].n] = v]

NextBatch(r) == [r EXCEPT !.n = @ + 1, !.step = IF r.n = NBatches THEN "inventory" ELSE "fill"]
Upserted(c, b, v) == [target EXCEPT ![c][b] = v]

\* Embedding and upserting of the next batch, acknowledged.
FillAcknowledged(w) ==
    LET c == Cand[at[w].l]
        b == at[w].n IN
    \E v \in Vectors :
        /\ at[w].step = "fill"
        /\ at[w].l \notin closed
        /\ target' = Upserted(c, b, v)
        /\ at' = [at EXCEPT ![w] = NextBatch(Sent(w, v))]
        /\ UNCHANGED <<files, pending, backups, closed, drills, unmoved, bounds>>

\* ... and without an answer: applied, lost, or on its way.
FillUnanswered(w) ==
    LET c == Cand[at[w].l]
        b == at[w].n IN
    \E v \in Vectors :
        /\ at[w].step = "fill"
        /\ at[w].l \notin closed
        /\ Fault
        /\ \/ target' = Upserted(c, b, v) /\ UNCHANGED pending
           \/ UNCHANGED <<target, pending>>
           \/ pending' = pending \cup {[c |-> c, b |-> b, v |-> v]} /\ UNCHANGED target
        /\ at' = [at EXCEPT ![w] = [Sent(w, v) EXCEPT !.step = "reconcile"]]
        /\ UNCHANGED <<files, backups, closed, drills, unmoved>>

\* OutcomeUnknown: only the enumeration of the target tells.
Reconcile(w) ==
    LET b == at[w].n IN
    /\ at[w].step = "reconcile"
    /\ IF target[Cand[at[w].l]][b] = at[w].wanted[b]
       THEN at' = [at EXCEPT ![w] = NextBatch(at[w])]
       ELSE Goto(w, "stop")
    /\ UNCHANGED <<files, remote, closed, drills, unmoved, bounds>>

\* An upsert that was on its way arrives.
Land ==
    \E u \in pending :
        /\ target' = Upserted(u.c, u.b, u.v)
        /\ pending' = pending \ {u}
        /\ UNCHANGED <<files, backups, closed, at, drills, unmoved, bounds>>

\* _verify_inventory: the enumeration is exactly what this attempt embedded.
InventoryMatches(contents, wanted) == contents = wanted

\* The inventory, and the queries, which the effect window gates.
Inventory(w) ==
    /\ at[w].step = "inventory"
    /\ IF InventoryMatches(target[Cand[at[w].l]], at[w].wanted) /\ at[w].l \notin closed
       THEN Goto(w, "native")
       ELSE Goto(w, "stop")
    /\ UNCHANGED <<files, remote, closed, drills, unmoved, bounds>>

\* create_and_verify writes one file and then the other.
Backup(w, step, role, next) ==
    /\ at[w].step = step
    /\ step = "native" => at[w].l \notin closed
    /\ backups' = [backups EXCEPT ![at[w].l] = @ \cup {role}]
    /\ Goto(w, next)
    /\ UNCHANGED <<files, target, pending, closed, drills, unmoved, bounds>>

\* Mutant of BackUp: the recovery copy is left for later.
BackUpNativeOnly(w) == Backup(w, "native", "NATIVE", "activate")

BackUp(w) ==
    \/ Backup(w, "native", "NATIVE", "recovery")
    \/ Backup(w, "recovery", "RECOVERY", "activate")

Moves(w, r) == [at[w] EXCEPT !.moved = @ \/ r.result = "APPLIED"]

\* The activation of the candidate.  The write may fail after it replaced the file.
ActivateState(w) ==
    LET r == Activate(doc, at[w].l) IN
    /\ at[w].step = "activate"
    /\ at[w].l \notin closed
    /\ doc' = r.doc
    /\ \/ /\ at' = [at EXCEPT ![w] = [Moves(w, r) EXCEPT !.step = IF Done(r) THEN "verify" ELSE "stop"]]
          /\ UNCHANGED bounds
       \/ /\ at' = [at EXCEPT ![w] = [Moves(w, r) EXCEPT !.step = "stop"]]
          /\ Fault
    /\ UNCHANGED <<approval, complete, failure, remote, closed, drills, unmoved>>

\* A state that differs is rolled back and reported (rollback); an answer that
\* could not be read is rolled back and raised (undo).
VerifyState(w) ==
    /\ at[w].step = "verify"
    /\ \/ doc.active = Cand[at[w].l] /\ Goto(w, "validate") /\ UNCHANGED bounds
       \/ doc.active # Cand[at[w].l] /\ Goto(w, "rollback") /\ UNCHANGED bounds
       \/ Goto(w, "undo") /\ Fault
    /\ UNCHANGED <<files, remote, closed, drills, unmoved>>

RollbackState(w) ==
    LET r == Rollback(doc, at[w].l)
        reported == at[w].step = "rollback" /\ Done(r) IN
    /\ at[w].step \in {"rollback", "undo"}
    /\ doc' = r.doc
    /\ at' = [at EXCEPT ![w] = [Moves(w, r) EXCEPT
                  !.op = IF reported THEN "ROLLBACK" ELSE @,
                  !.step = IF reported THEN "validate" ELSE "stop"]]
    /\ UNCHANGED <<approval, complete, failure, remote, closed, drills, unmoved, bounds>>

\* _retained_predecessor: the evidence of another lineage that serves the base.
Predecessors(l) == {p \in Lineages \ {l} : complete[p] # Missing /\ complete[p].state = Base[l]}

\* _validate_serving_transition: the file shows what the attempt says it did.
TransitionShown(d, l, op) ==
    IF op = "PROMOTION"
    THEN d = Activated(l)
    ELSE d = RolledBack(l) /\ Cardinality(Predecessors(l)) = 1

\* retain_promotion_readback: a refusal here is raised outside the failure stop.
ValidateEvidence(w) ==
    /\ at[w].step = "validate"
    /\ IF TransitionShown(doc, at[w].l, at[w].op) /\ backups[at[w].l] = Roles
       THEN Goto(w, "persist")
       ELSE Quit(w)
    /\ UNCHANGED <<files, remote, closed, drills, unmoved, bounds>>

\* _persist: evidence that is there is matched, never replaced.
PersistEvidence(w) ==
    LET l == at[w].l
        e == [op |-> at[w].op,
              state |-> IF at[w].op = "PROMOTION" THEN Cand[l] ELSE Base[l]] IN
    /\ at[w].step = "persist"
    /\ complete' = [complete EXCEPT ![l] = IF @ = Missing THEN e ELSE @]
    /\ Quit(w)
    /\ UNCHANGED <<doc, approval, failure, remote, closed, drills, unmoved, bounds>>

NothingMoved(w) == doc = at[w].before

\* retain_promotion_failure_stop.
Stop(w) ==
    LET l == at[w].l IN
    /\ at[w].step = "stop"
    /\ IF NothingMoved(w)
       THEN /\ failure' = [failure EXCEPT ![l] = IF @ = Missing THEN at[w].before ELSE @]
            /\ unmoved' = (unmoved /\ ~at[w].moved)
       ELSE UNCHANGED <<failure, unmoved>>
    /\ Quit(w)
    /\ UNCHANGED <<doc, approval, complete, remote, closed, drills, bounds>>

\* A call of the provider, the vector store or the file system fails, or the
\* effect window has closed when it is about to be made.
Gated == {"create", "fill", "native", "activate"}
Fail(w) ==
    /\ \/ at[w].step \in Gated /\ at[w].l \in closed /\ UNCHANGED bounds
       \/ at[w].step \in (Gated \ {"activate"}) \cup {"reconcile", "inventory", "recovery"} /\ Fault
    /\ Goto(w, "stop")
    /\ UNCHANGED <<files, remote, closed, drills, unmoved>>

\* The worker's process dies.
Die(w) ==
    /\ at[w].step # "idle"
    /\ crashes < MaxCrashes
    /\ crashes' = crashes + 1
    /\ Quit(w)
    /\ UNCHANGED <<files, remote, closed, drills, unmoved, faults>>

-----------------------------------------------------------------------------
(* The rollback and restoration drill. *)

Promotes(l) == complete[l] # Missing /\ complete[l] = [op |-> "PROMOTION", state |-> Cand[l]]

\* plan_serving_state_transition: the candidate is in force, never rolled back,
\* and its promotion and its predecessor's are evidenced.
Plan(l) ==
    /\ doc = Activated(l)
    /\ Promotes(l)
    /\ \E p \in Lineages \ {l} : Promotes(p) /\ Cand[p] = Base[l]
    /\ plans' = plans \cup {l}
    /\ UNCHANGED <<files, remote, closed, at, drill, report, unmoved, bounds>>

DrillTo(step) == drill' = IF step = "idle" THEN Rest ELSE [drill EXCEPT !.step = step]

\* _classify_state.
Class(d, l) ==
    CASE d = Activated(l) -> "INITIAL"
      [] d = RolledBack(l) -> "ROLLED_BACK"
      [] d = Restored(l) -> "RESTORED"
      [] OTHER -> "DRIFT"

\* Mutant of Execute: a drill that is interrupted starts over.
ExecuteInitialOnly(l) ==
    /\ drill.step = "idle"
    /\ l \in plans
    /\ report[l] = Missing
    /\ Class(doc, l) = "INITIAL"
    /\ drill' = [step |-> "rollback", l |-> l]
    /\ UNCHANGED <<files, remote, closed, at, plans, report, unmoved, bounds>>

\* execute_serving_state_transition up to its first operation.  With a report,
\* or in a state it does not know, it ends here.
Execute(l) ==
    /\ drill.step = "idle"
    /\ l \in plans
    /\ report[l] = Missing
    /\ Class(doc, l) # "DRIFT"
    /\ drill' = [step |-> CASE Class(doc, l) = "INITIAL" -> "rollback"
                            [] Class(doc, l) = "ROLLED_BACK" -> "confirm"
                            [] OTHER -> "verify",
                 l |-> l]
    /\ UNCHANGED <<files, remote, closed, at, plans, report, unmoved, bounds>>

\* The first rollback applies or replays.
DrillRollback ==
    LET r == Rollback(doc, drill.l) IN
    /\ drill.step = "rollback"
    /\ doc' = r.doc
    /\ DrillTo(IF Done(r) THEN "look" ELSE "idle")
    /\ UNCHANGED <<approval, complete, failure, remote, closed, at, plans, report, unmoved, bounds>>

\* The state is read again after the rollback.
DrillLook ==
    LET c == Class(doc, drill.l) IN
    /\ drill.step = "look"
    /\ DrillTo(CASE c = "ROLLED_BACK" -> "confirm" [] c = "RESTORED" -> "verify" [] OTHER -> "idle")
    /\ UNCHANGED <<files, remote, closed, at, plans, report, unmoved, bounds>>

\* The rollback is asked for again, and must replay.
DrillConfirm ==
    LET r == Rollback(doc, drill.l) IN
    /\ drill.step = "confirm"
    /\ doc' = r.doc
    /\ DrillTo(IF r.result = "REPLAYED" THEN "restore" ELSE "idle")
    /\ UNCHANGED <<approval, complete, failure, remote, closed, at, plans, report, unmoved, bounds>>

DrillRestore ==
    LET r == Restore(doc, drill.l) IN
    /\ drill.step = "restore"
    /\ doc' = r.doc
    /\ DrillTo(IF Done(r) THEN "relook" ELSE "idle")
    /\ UNCHANGED <<approval, complete, failure, remote, closed, at, plans, report, unmoved, bounds>>

\* The state is read again after the restoration, and the active state verified.
DrillVerify ==
    /\ drill.step \in {"relook", "verify"}
    /\ DrillTo(CASE drill.step = "relook" /\ Class(doc, drill.l) = "RESTORED" -> "verify"
                 [] drill.step = "verify" /\ doc.active = Cand[drill.l] -> "report"
                 [] OTHER -> "idle")
    /\ UNCHANGED <<files, remote, closed, at, plans, report, unmoved, bounds>>

\* _retain_report, which reads the state once more for its fingerprint.
DrillReport ==
    /\ drill.step = "report"
    /\ report' = [report EXCEPT ![drill.l] = IF @ = Missing THEN doc ELSE @]
    /\ DrillTo("idle")
    /\ UNCHANGED <<files, remote, closed, at, plans, unmoved, bounds>>

DrillDies ==
    /\ drill.step # "idle"
    /\ crashes < MaxCrashes
    /\ crashes' = crashes + 1
    /\ DrillTo("idle")
    /\ UNCHANGED <<files, remote, closed, at, plans, report, unmoved, faults>>

DrillStep == DrillRollback \/ DrillLook \/ DrillConfirm \/ DrillRestore \/ DrillVerify \/ DrillReport

-----------------------------------------------------------------------------
(* The surroundings. *)

\* Review withdraws an approval that was not consumed.  (That it can also revoke a
\* consumed one, which leaves a ledger nobody loads, is ApprovalLedger's subject.)
Withdraw(l) ==
    /\ approval[l] = "APPROVED"
    /\ approval' = [approval EXCEPT ![l] = "WITHDRAWN"]
    /\ UNCHANGED <<doc, complete, failure, remote, closed, at, drills, unmoved, bounds>>

\* The deadline of the effect intents of a lineage passes.
Close(l) ==
    /\ MayClose
    /\ l \notin closed
    /\ closed' = closed \cup {l}
    /\ UNCHANGED <<files, remote, at, drills, unmoved, bounds>>

Init ==
    /\ doc = Activated(InForce)
    /\ approval = [l \in Lineages |-> IF l \in Promoted THEN "CONSUMED" ELSE "APPROVED"]
    /\ target \in [States -> Contents \cup {Missing}]
    /\ \A c \in States : IF \E l \in Promoted : Cand[l] = c THEN Full(target[c]) ELSE target[c] = Missing
    /\ pending = {}
    /\ backups = [l \in Lineages |-> IF l \in Promoted THEN Roles ELSE {}]
    /\ complete = [l \in Lineages |->
           IF l \in Promoted THEN [op |-> "PROMOTION", state |-> Cand[l]] ELSE Missing]
    /\ failure = [l \in Lineages |-> Missing]
    /\ closed = {}
    /\ at = [w \in Workers |-> Idle]
    /\ drill = Rest
    /\ plans = {}
    /\ report = [l \in Lineages |-> Missing]
    /\ unmoved = TRUE
    /\ faults = 0 /\ crashes = 0

Attempt(w) ==
    \/ Consume(w) \/ Create(w) \/ FillAcknowledged(w) \/ FillUnanswered(w) \/ Reconcile(w)
    \/ Inventory(w) \/ BackUp(w) \/ ActivateState(w) \/ VerifyState(w) \/ RollbackState(w)
    \/ ValidateEvidence(w) \/ PersistEvidence(w) \/ Stop(w) \/ Fail(w)

Next ==
    \/ \E w \in Workers : Attempt(w) \/ Die(w) \/ \E l \in Lineages : Begin(w, l)
    \/ \E l \in Lineages : Plan(l) \/ Execute(l) \/ Withdraw(l) \/ Close(l)
    \/ DrillStep
    \/ DrillDies
    \/ Land

Spec == Init /\ [][Next]_vars

\* A worker and the drill go on with what they began; the scheduler delivers a
\* lineage again and the operator runs a drill again until they are done.
FairSpec ==
    /\ Spec
    /\ \A w \in Workers : WF_vars(Attempt(w))
    /\ \A l \in Lineages : WF_vars(\E w \in Workers : Begin(w, l))
    /\ \A l \in Lineages : WF_vars(Execute(l))
    /\ WF_vars(DrillStep)

-----------------------------------------------------------------------------
(* Properties. *)

\* Every variable keeps its type, and an attempt knows the state it started
\* from as long as it is under way.
TypeOK ==
    /\ doc \in Documents
    /\ approval \in [Lineages -> {"APPROVED", "CONSUMED", "WITHDRAWN"}]
    /\ target \in [States -> Contents \cup {Missing}]
    /\ pending \subseteq [c : States, b : Batches, v : Vectors]
    /\ backups \in [Lineages -> SUBSET Roles]
    /\ complete \in [Lineages -> Evidence \cup {Missing}]
    /\ failure \in [Lineages -> Documents \cup {Missing}]
    /\ closed \subseteq Lineages
    /\ at \in [Workers -> [step : Steps, l : Lineages, before : Documents \cup {Missing},
                           n : 1..(NBatches + 1), wanted : Contents,
                           op : {"PROMOTION", "ROLLBACK"}, moved : BOOLEAN]]
    /\ \A w \in Workers : at[w].step # "idle" => at[w].before # Missing
    /\ drill \in [step : {"idle", "rollback", "look", "confirm", "restore", "relook", "verify",
                          "report"}, l : Lineages]
    /\ plans \subseteq Lineages
    /\ report \in [Lineages -> Documents \cup {Missing}]
    /\ unmoved \in BOOLEAN
    /\ faults \in 0..MaxFaults /\ crashes \in 0..MaxCrashes

\* service.py, _execute: whatever was lost, late, repeated or restored, the
\* lineage in force has a consumed approval, a target with every batch in it
\* and both backups.
ActiveIsBacked ==
    \A l \in Lineages :
        doc.act = l /\ doc.active = Cand[l] =>
            /\ approval[l] = "CONSUMED"
            /\ Full(target[Cand[l]])
            /\ backups[l] = Roles

\* local_serving_state.py, activate: as long as no other promotion was activated
\* since, an activation that was rolled back comes back only by the restoration
\* of the drill, never by another delivery of its promotion.
RollbackHolds ==
    [][\A l \in Lineages :
           doc = RolledBack(l) /\ doc'.act = l /\ doc'.active = Cand[l] =>
               drill.step = "restore" /\ drill.l = l]_vars

\* retain_promotion_failure_stop: a failure stop is never retained by an attempt
\* that moved the serving state itself.
StoppedWithoutMove == unmoved

\* service.py, _execute: an attempt that has left a batch behind finds it in the
\* target, whatever became of the acknowledgement.
BatchesAreThere ==
    \A w \in Workers : \A b \in Batches :
        at[w].step # "idle" /\ b < at[w].n => target[Cand[at[w].l]][b] # Missing

\* tools/hk_v1_serving_state_transition.py, _retain_report: a report names the
\* restored state.
ReportNamesRestoredState ==
    \A l \in Lineages : report[l] # Missing => report[l] = Restored(l)

\* service.py, _activate_and_verify: an activation is evidenced in the end,
\* whatever died between the two, unless it was rolled back, replaced, or its
\* effect window has closed.
ActivatedIsEvidenced ==
    \A l \in Lineages :
        (doc = Activated(l)) ~>
            (complete[l] # Missing \/ doc # Activated(l) \/ l \in closed)

\* execute_serving_state_transition: a drill that rolled a state back restores
\* it in the end, unless another promotion has taken the base meanwhile.
DrillRestores ==
    \A l \in Lineages :
        (l \in plans /\ report[l] = Missing /\ doc = RolledBack(l)) ~>
            (doc = Restored(l) \/ doc.act # l)
=============================================================================
