---------------------- MODULE PromotionExecutionProofs ----------------------
(***************************************************************************)
(* Proofs about PromotionExecution, for any lineages, states, workers,     *)
(* batches and vectors and any number of faults and crashes.               *)
(*                                                                         *)
(* What the lineage in force rests on only grows: an approval stays        *)
(* consumed, a batch stays in its target, a backup stays written (Grows).  *)
(* So it is enough that an attempt has collected all of it when it comes   *)
(* to the activation (Backed), and that the file names no lineage that has *)
(* not (ActIsBacked): the restoration of the drill relies on the latter.   *)
(***************************************************************************)
EXTENDS PromotionExecution, TLAPS

Attempts == [step : Steps, l : Lineages, before : Documents \cup {Missing},
             n : 1..(NBatches + 1), wanted : Contents,
             op : {"PROMOTION", "ROLLBACK"}, moved : BOOLEAN]

Filling == {"fill", "reconcile"}
Filled == {"inventory", "native", "recovery", "activate"}

\* What an attempt has collected at its step: a target, an approval, backups.
Backed(r, tg, ap, bk) ==
    /\ r.step # "idle" => r.before # Missing
    /\ r.step # "idle" /\ r.n > 1 =>
           /\ tg[Cand[r.l]] \in Contents
           /\ \A b \in Batches : b < r.n => tg[Cand[r.l]][b] # Missing
    /\ r.step \in {"consume", "create"} => r.n = 1
    /\ r.step \in Filling => r.n \in Batches /\ tg[Cand[r.l]] \in Contents
    /\ r.step = "reconcile" => r.wanted[r.n] # Missing
    /\ r.step \in Filled => r.n = NBatches + 1
    /\ r.step \in {"create"} \cup Filling \cup Filled => ap[r.l] = "CONSUMED"
    /\ r.step = "recovery" => "NATIVE" \in bk[r.l]
    /\ r.step = "activate" => bk[r.l] = Roles

AttemptsAreBacked == \A w \in Workers : Backed(at[w], target, approval, backups)

\* The target of an upsert that is on its way was created.
PendingIsReady == \A u \in pending : target[u.c] \in Contents

\* The lineage the file names was consumed, filled and backed up, whether it is
\* in force or was rolled back.
ActIsBacked ==
    \A l \in Lineages : doc.act = l =>
        /\ approval[l] = "CONSUMED"
        /\ Full(target[Cand[l]])
        /\ backups[l] = Roles

ExecInv == TypeOK /\ AttemptsAreBacked /\ PendingIsReady /\ ActIsBacked

\* What a step never takes away.
Grows ==
    /\ \A l \in Lineages : /\ approval[l] = "CONSUMED" => approval'[l] = "CONSUMED"
                           /\ backups[l] \subseteq backups'[l]
    /\ \A c \in States : target[c] \in Contents =>
           /\ target'[c] \in Contents
           /\ \A b \in Batches : target[c][b] # Missing => target'[c][b] # Missing

-----------------------------------------------------------------------------
\* The record of a worker that rests.
LEMMA IdleIsAttempt == Idle \in Attempts /\ Idle.step = "idle"
BY BatchAssumption, PromotedAssumption DEF Idle, Attempts, Steps, Contents, Empty, Batches

\* A worker that rests needs nothing.
LEMMA IdleIsBacked == \A tg, ap, bk : Backed(Idle, tg, ap, bk)
BY DEF Backed, Idle, Filling, Filled

\* Upserting keeps the shape of the targets, and adds to one.
LEMMA UpsertGrows ==
    ASSUME target \in [States -> Contents \cup {Missing}],
           NEW c \in States, target[c] \in Contents, NEW b \in Batches, NEW v \in Vectors
    PROVE  /\ Upserted(c, b, v) \in [States -> Contents \cup {Missing}]
           /\ Upserted(c, b, v)[c] \in Contents
           /\ Upserted(c, b, v)[c][b] # Missing
           /\ \A d \in States : target[d] \in Contents =>
                  /\ Upserted(c, b, v)[d] \in Contents
                  /\ \A e \in Batches : target[d][e] # Missing => Upserted(c, b, v)[d][e] # Missing
<1>1. [target[c] EXCEPT ![b] = v] \in Contents
    BY DEF Contents
<1>2. [target[c] EXCEPT ![b] = v][b] # Missing
    BY BatchAssumption DEF Contents
<1>3. \A e \in Batches : target[c][e] # Missing => [target[c] EXCEPT ![b] = v][e] # Missing
    BY BatchAssumption DEF Contents
<1>4. Upserted(c, b, v) = [target EXCEPT ![c] = [target[c] EXCEPT ![b] = v]]
    BY DEF Upserted
<1> QED
    BY <1>1, <1>2, <1>3, <1>4

\* What an attempt has collected stays.
LEMMA BackedStays ==
    ASSUME Grows, backups' \in [Lineages -> SUBSET Roles],
           NEW r \in Attempts, Backed(r, target, approval, backups)
    PROVE  Backed(r, target', approval', backups')
<1>1. r.l \in Lineages /\ Cand[r.l] \in States
    BY LineageAssumption DEF Attempts
<1>2. backups[r.l] \subseteq backups'[r.l] /\ backups'[r.l] \subseteq Roles
    BY <1>1 DEF Grows
<1>3. approval[r.l] = "CONSUMED" => approval'[r.l] = "CONSUMED"
    BY <1>1 DEF Grows
<1>4. target[Cand[r.l]] \in Contents =>
          /\ target'[Cand[r.l]] \in Contents
          /\ \A b \in Batches : target[Cand[r.l]][b] # Missing => target'[Cand[r.l]][b] # Missing
    BY <1>1 DEF Grows
<1> QED
    BY <1>1, <1>2, <1>3, <1>4 DEF Backed

-----------------------------------------------------------------------------
(* The variables, a group at a time. *)

\* What a worker's record is made of.
LEMMA AttemptFields ==
    ASSUME TypeOK, NEW w \in Workers
    PROVE  /\ at[w] \in Attempts
           /\ at[w].l \in Lineages /\ Cand[at[w].l] \in States /\ Base[at[w].l] \in States
           /\ at[w].n \in 1..(NBatches + 1) /\ at[w].step \in Steps
BY LineageAssumption DEF TypeOK, Attempts

\* Every step keeps the types of approvals and backups, and takes neither away.
LEMMA LedgerStep ==
    ASSUME ExecInv, [Next]_vars
    PROVE  /\ approval' \in [Lineages -> {"APPROVED", "CONSUMED", "WITHDRAWN"}]
           /\ backups' \in [Lineages -> SUBSET Roles]
           /\ \A l \in Lineages : /\ approval[l] = "CONSUMED" => approval'[l] = "CONSUMED"
                                  /\ backups[l] \subseteq backups'[l]
<1>1. /\ approval \in [Lineages -> {"APPROVED", "CONSUMED", "WITHDRAWN"}]
      /\ backups \in [Lineages -> SUBSET Roles]
    BY DEF ExecInv, TypeOK
<1> DEFINE P == /\ approval' \in [Lineages -> {"APPROVED", "CONSUMED", "WITHDRAWN"}]
                /\ backups' \in [Lineages -> SUBSET Roles]
                /\ \A l \in Lineages : /\ approval[l] = "CONSUMED" => approval'[l] = "CONSUMED"
                                       /\ backups[l] \subseteq backups'[l]
<1>2. ASSUME UNCHANGED <<approval, backups>> PROVE P
    BY <1>1, <1>2
<1>3. ASSUME NEW w \in Workers, Consume(w) PROVE P
    BY <1>1, <1>3 DEF Consume, remote
<1>4. ASSUME NEW l \in Lineages, Withdraw(l) PROVE P
    BY <1>1, <1>4 DEF Withdraw, remote
<1>5. ASSUME NEW w \in Workers, BackUp(w) PROVE P
    BY <1>1, <1>5 DEF BackUp, Backup, files, Roles
<1>6. ASSUME NEW w \in Workers,
             \/ Create(w) \/ FillAcknowledged(w) \/ FillUnanswered(w) \/ Reconcile(w)
             \/ Inventory(w) \/ ActivateState(w) \/ VerifyState(w) \/ RollbackState(w)
             \/ ValidateEvidence(w) \/ PersistEvidence(w) \/ Stop(w) \/ Fail(w) \/ Die(w)
      PROVE  UNCHANGED <<approval, backups>>
    BY <1>6 DEF Create, FillAcknowledged, FillUnanswered, Reconcile, Inventory, ActivateState,
                VerifyState, RollbackState, ValidateEvidence, PersistEvidence, Stop, Fail, Die,
                files, remote
<1>7. ASSUME NEW l \in Lineages,
             Plan(l) \/ Execute(l) \/ Close(l) \/ \E w \in Workers : Begin(w, l)
      PROVE  UNCHANGED <<approval, backups>>
    BY <1>7 DEF Plan, Execute, Close, Begin, files, remote
<1>8. ASSUME DrillStep \/ DrillDies \/ Land \/ UNCHANGED vars
      PROVE  UNCHANGED <<approval, backups>>
    BY <1>8 DEF DrillStep, DrillRollback, DrillLook, DrillConfirm, DrillRestore, DrillVerify,
                DrillReport, DrillDies, Land, files, remote, vars
<1> QED
    BY <1>2, <1>3, <1>4, <1>5, <1>6, <1>7, <1>8 DEF Next, Attempt

\* Every step keeps the types of targets and upserts, and no batch is lost.
LEMMA TargetStep ==
    ASSUME ExecInv, [Next]_vars
    PROVE  /\ target' \in [States -> Contents \cup {Missing}]
           /\ pending' \subseteq [c : States, b : Batches, v : Vectors]
           /\ \A c \in States : target[c] \in Contents =>
                  /\ target'[c] \in Contents
                  /\ \A b \in Batches : target[c][b] # Missing => target'[c][b] # Missing
           /\ PendingIsReady'
<1> DEFINE Keeps == \A c \in States : target[c] \in Contents =>
                        /\ target'[c] \in Contents
                        /\ \A b \in Batches : target[c][b] # Missing => target'[c][b] # Missing
           Ready == \A u \in pending' : target'[u.c] \in Contents
           P == /\ target' \in [States -> Contents \cup {Missing}]
                /\ pending' \subseteq [c : States, b : Batches, v : Vectors]
                /\ Keeps /\ Ready
<1>1. SUFFICES P
    BY <1>1 DEF PendingIsReady
<1>2. /\ target \in [States -> Contents \cup {Missing}]
      /\ pending \subseteq [c : States, b : Batches, v : Vectors]
      /\ \A u \in pending : target[u.c] \in Contents
    BY DEF ExecInv, TypeOK, PendingIsReady
<1>3. ASSUME UNCHANGED <<target, pending>> PROVE P
    BY <1>2, <1>3
<1>4. ASSUME NEW w \in Workers, Create(w) PROVE P
    <2>1. Cand[at[w].l] \in States /\ Empty \in Contents
        BY AttemptFields DEF ExecInv, Contents, Empty
    <2>2. /\ target' = [target EXCEPT ![Cand[at[w].l]] = IF @ = Missing THEN Empty ELSE @]
          /\ pending' = pending
        BY <1>4 DEF Create
    <2>3. Keeps
        BY <1>2, <2>1, <2>2, ContentsAssumption
    <2>4. target' \in [States -> Contents \cup {Missing}]
        BY <1>2, <2>1, <2>2
    <2> QED
        BY <1>2, <2>2, <2>3, <2>4
<1>5. ASSUME NEW c \in States, NEW b \in Batches, NEW v \in Vectors, target[c] \in Contents,
             target' = Upserted(c, b, v), pending' \subseteq pending
      PROVE  P
    <2>1. target' \in [States -> Contents \cup {Missing}] /\ Keeps
        BY <1>2, <1>5, UpsertGrows
    <2> QED
        BY <1>2, <1>5, <2>1
<1>6. ASSUME NEW w \in Workers, at[w].step = "fill"
      PROVE  /\ Cand[at[w].l] \in States /\ at[w].n \in Batches
             /\ target[Cand[at[w].l]] \in Contents
    BY <1>6, AttemptFields DEF ExecInv, AttemptsAreBacked, Backed, Filling
<1>7. ASSUME NEW w \in Workers, FillAcknowledged(w) PROVE P
    <2>1. PICK v \in Vectors : /\ target' = Upserted(Cand[at[w].l], at[w].n, v)
                               /\ pending' = pending /\ at[w].step = "fill"
        BY <1>7 DEF FillAcknowledged
    <2> QED
        BY <1>5, <1>6, <2>1
<1>8. ASSUME NEW w \in Workers, FillUnanswered(w) PROVE P
    <2>1. PICK v \in Vectors :
              /\ at[w].step = "fill"
              /\ \/ target' = Upserted(Cand[at[w].l], at[w].n, v) /\ pending' = pending
                 \/ target' = target /\ pending' = pending
                 \/ /\ pending' = pending \cup {[c |-> Cand[at[w].l], b |-> at[w].n, v |-> v]}
                    /\ target' = target
        BY <1>8 DEF FillUnanswered
    <2>2. CASE target' = Upserted(Cand[at[w].l], at[w].n, v) /\ pending' = pending
        BY <1>5, <1>6, <2>1, <2>2
    <2>3. CASE target' = target /\ pending' = pending
        BY <1>3, <2>3
    <2>4. CASE /\ pending' = pending \cup {[c |-> Cand[at[w].l], b |-> at[w].n, v |-> v]}
               /\ target' = target
        <3>1. /\ Cand[at[w].l] \in States /\ at[w].n \in Batches
              /\ target[Cand[at[w].l]] \in Contents
            BY <1>6, <2>1
        <3> QED
            BY <1>2, <2>4, <3>1
    <2> QED BY <2>1, <2>2, <2>3, <2>4
<1>9. ASSUME Land PROVE P
    <2>1. PICK u \in pending : target' = Upserted(u.c, u.b, u.v) /\ pending' = pending \ {u}
        BY <1>9 DEF Land
    <2>2. u.c \in States /\ u.b \in Batches /\ u.v \in Vectors /\ target[u.c] \in Contents
        BY <1>2, <2>1
    <2> QED
        BY <1>5, <2>1, <2>2
<1>10. ASSUME NEW w \in Workers,
              \/ Consume(w) \/ Reconcile(w) \/ Inventory(w) \/ BackUp(w) \/ ActivateState(w)
              \/ VerifyState(w) \/ RollbackState(w) \/ ValidateEvidence(w) \/ PersistEvidence(w)
              \/ Stop(w) \/ Fail(w) \/ Die(w)
       PROVE  UNCHANGED <<target, pending>>
    BY <1>10 DEF Consume, Reconcile, Inventory, BackUp, Backup, ActivateState, VerifyState,
                 RollbackState, ValidateEvidence, PersistEvidence, Stop, Fail, Die, remote
<1>11. ASSUME NEW l \in Lineages,
              Plan(l) \/ Execute(l) \/ Close(l) \/ Withdraw(l) \/ \E w \in Workers : Begin(w, l)
       PROVE  UNCHANGED <<target, pending>>
    BY <1>11 DEF Plan, Execute, Close, Withdraw, Begin, remote
<1>12. ASSUME DrillStep \/ DrillDies \/ UNCHANGED vars PROVE UNCHANGED <<target, pending>>
    BY <1>12 DEF DrillStep, DrillRollback, DrillLook, DrillConfirm, DrillRestore, DrillVerify,
                 DrillReport, DrillDies, remote, vars
<1> QED
    BY <1>3, <1>4, <1>7, <1>8, <1>9, <1>10, <1>11, <1>12 DEF Next, Attempt

\* So what was collected stays.
LEMMA StepGrows ==
    ASSUME ExecInv, [Next]_vars
    PROVE  Grows
BY LedgerStep, TargetStep DEF Grows

\* What the operations of the serving state file leave.
LEMMA FileOperations ==
    ASSUME NEW d \in Documents, NEW l \in Lineages
    PROVE  /\ Activate(d, l).doc \in Documents
           /\ Activate(d, l).doc = d \/ Activate(d, l).doc.act = l
           /\ Rollback(d, l).doc \in Documents /\ Rollback(d, l).doc.act = d.act
           /\ Restore(d, l).doc \in Documents /\ Restore(d, l).doc.act = d.act
<1>1. Base[l] \in States /\ Cand[l] \in States
    BY LineageAssumption
<1>2. Activate(d, l).doc \in {d, [active |-> Cand[l], act |-> l, rb |-> None]}
    BY DEF Activate, Did
<1>3. Rollback(d, l).doc \in {d, [d EXCEPT !.active = Base[l], !.rb = l]}
    BY DEF Rollback, Did
<1>4. Restore(d, l).doc \in {d, [d EXCEPT !.active = Cand[l]]}
    BY DEF Restore, Did
<1>5. [active |-> Cand[l], act |-> l, rb |-> None] \in Documents
    BY <1>1 DEF Documents
<1>6. /\ [d EXCEPT !.active = Base[l], !.rb = l] \in Documents
      /\ [d EXCEPT !.active = Base[l], !.rb = l].act = d.act
    BY <1>1 DEF Documents
<1>7. /\ [d EXCEPT !.active = Cand[l]] \in Documents
      /\ [d EXCEPT !.active = Cand[l]].act = d.act
    BY <1>1 DEF Documents
<1>8. /\ Activate(d, l).doc \in Documents
      /\ Activate(d, l).doc = d \/ Activate(d, l).doc.act = l
    BY <1>2, <1>5
<1>9. Rollback(d, l).doc \in Documents /\ Rollback(d, l).doc.act = d.act
    BY <1>3, <1>6
<1>10. Restore(d, l).doc \in Documents /\ Restore(d, l).doc.act = d.act
    BY <1>4, <1>7
<1> QED
    BY <1>8, <1>9, <1>10

\* Every step keeps the type of the file, and names no lineage that is not
\* backed.
LEMMA DocStep ==
    ASSUME ExecInv, [Next]_vars
    PROVE  doc' \in Documents /\ ActIsBacked'
<1> DEFINE P == doc' \in Documents /\ ActIsBacked'
<1>1. doc \in Documents /\ drill.l \in Lineages
    BY DEF ExecInv, TypeOK
<1>2. ASSUME NEW l \in Lineages, approval[l] = "CONSUMED", Full(target[Cand[l]]),
             target[Cand[l]] \in Contents, backups[l] = Roles
      PROVE  approval'[l] = "CONSUMED" /\ Full(target'[Cand[l]]) /\ backups'[l] = Roles
    <2>1. Cand[l] \in States
        BY LineageAssumption
    <2>2. /\ target'[Cand[l]] \in Contents
          /\ \A b \in Batches : target'[Cand[l]][b] # Missing
        BY <1>2, <2>1, TargetStep DEF Full
    <2>3. approval'[l] = "CONSUMED" /\ backups'[l] = Roles
        BY <1>2, LedgerStep
    <2> QED
        BY <2>2, <2>3, ContentsAssumption DEF Full
<1>3. ASSUME doc' \in Documents, doc'.act = doc.act PROVE P
    <2>1. SUFFICES ASSUME NEW l \in Lineages, doc'.act = l
                   PROVE  approval'[l] = "CONSUMED" /\ Full(target'[Cand[l]]) /\ backups'[l] = Roles
        BY <1>3, <2>1 DEF ActIsBacked
    <2>2. approval[l] = "CONSUMED" /\ Full(target[Cand[l]]) /\ backups[l] = Roles
        BY <1>3, <2>1 DEF ExecInv, ActIsBacked
    <2>3. target[Cand[l]] \in Contents
        BY <2>2, LineageAssumption DEF Full, ExecInv, TypeOK
    <2> QED
        BY <1>2, <2>2, <2>3
<1>4. ASSUME NEW w \in Workers, ActivateState(w) PROVE P
    <2>1. /\ doc' = Activate(doc, at[w].l).doc /\ at[w].step = "activate"
          /\ at[w].l \in Lineages /\ Cand[at[w].l] \in States
        BY <1>4, AttemptFields DEF ActivateState, ExecInv
    <2>2. doc' \in Documents /\ (doc' = doc \/ doc'.act = at[w].l)
        BY <1>1, <2>1, FileOperations
    <2>3. /\ approval[at[w].l] = "CONSUMED" /\ backups[at[w].l] = Roles /\ at[w].n = NBatches + 1
          /\ at[w].step # "idle"
          /\ at[w].n > 1 => /\ target[Cand[at[w].l]] \in Contents
                            /\ \A b \in Batches : b < at[w].n => target[Cand[at[w].l]][b] # Missing
        BY <2>1 DEF ExecInv, AttemptsAreBacked, Backed, Filled
    <2>4. target[Cand[at[w].l]] \in Contents /\ Full(target[Cand[at[w].l]])
        BY <2>3, BatchAssumption, ContentsAssumption DEF Full, Batches
    <2>5. /\ approval'[at[w].l] = "CONSUMED" /\ Full(target'[Cand[at[w].l]])
          /\ backups'[at[w].l] = Roles
        BY <1>2, <2>1, <2>3, <2>4
    <2>6. CASE doc' = doc
        BY <1>1, <1>3, <2>6
    <2>7. CASE doc'.act = at[w].l
        BY <2>2, <2>5, <2>7 DEF ActIsBacked
    <2> QED BY <2>2, <2>6, <2>7
<1>5. ASSUME NEW w \in Workers, RollbackState(w) PROVE P
    <2>1. doc' = Rollback(doc, at[w].l).doc /\ at[w].l \in Lineages
        BY <1>5, AttemptFields DEF RollbackState, ExecInv
    <2> QED
        BY <1>1, <1>3, <2>1, FileOperations
<1>6. ASSUME DrillRollback \/ DrillConfirm \/ DrillRestore PROVE P
    <2>1. doc' = Rollback(doc, drill.l).doc \/ doc' = Restore(doc, drill.l).doc
        BY <1>6 DEF DrillRollback, DrillConfirm, DrillRestore
    <2> QED
        BY <1>1, <1>3, <2>1, FileOperations
<1>7. ASSUME UNCHANGED doc PROVE P
    BY <1>1, <1>3, <1>7
<1>8. ASSUME NEW w \in Workers,
             \/ Consume(w) \/ Create(w) \/ FillAcknowledged(w) \/ FillUnanswered(w) \/ Reconcile(w)
             \/ Inventory(w) \/ BackUp(w) \/ VerifyState(w) \/ ValidateEvidence(w)
             \/ PersistEvidence(w) \/ Stop(w) \/ Fail(w) \/ Die(w)
      PROVE  UNCHANGED doc
    BY <1>8 DEF Consume, Create, FillAcknowledged, FillUnanswered, Reconcile, Inventory, BackUp,
                Backup, VerifyState, ValidateEvidence, PersistEvidence, Stop, Fail, Die, files
<1>9. ASSUME NEW l \in Lineages,
             Plan(l) \/ Execute(l) \/ Close(l) \/ Withdraw(l) \/ \E w \in Workers : Begin(w, l)
      PROVE  UNCHANGED doc
    BY <1>9 DEF Plan, Execute, Close, Withdraw, Begin, files
<1>10. ASSUME DrillLook \/ DrillVerify \/ DrillReport \/ DrillDies \/ Land \/ UNCHANGED vars
       PROVE  UNCHANGED doc
    BY <1>10 DEF DrillLook, DrillVerify, DrillReport, DrillDies, Land, files, vars
<1> QED
    BY <1>4, <1>5, <1>6, <1>7, <1>8, <1>9, <1>10 DEF Next, Attempt, DrillStep

\* Every step keeps the types of the evidence, the drill and the counters.
LEMMA RestStep ==
    ASSUME ExecInv, [Next]_vars
    PROVE  /\ complete' \in [Lineages -> Evidence \cup {Missing}]
           /\ failure' \in [Lineages -> Documents \cup {Missing}]
           /\ report' \in [Lineages -> Documents \cup {Missing}]
           /\ closed' \subseteq Lineages /\ plans' \subseteq Lineages
           /\ unmoved' \in BOOLEAN
           /\ drill' \in [step : {"idle", "rollback", "look", "confirm", "restore", "relook",
                                  "verify", "report"}, l : Lineages]
           /\ faults' \in 0..MaxFaults /\ crashes' \in 0..MaxCrashes
<1>1. TypeOK
    BY DEF ExecInv
<1>2. complete' \in [Lineages -> Evidence \cup {Missing}]
    <2>1. ASSUME NEW w \in Workers, PersistEvidence(w)
          PROVE  complete' \in [Lineages -> Evidence \cup {Missing}]
        <3>1. at[w].l \in Lineages /\ Cand[at[w].l] \in States /\ Base[at[w].l] \in States
            BY <1>1, AttemptFields
        <3>2. at[w].op \in {"PROMOTION", "ROLLBACK"}
            BY <1>1 DEF TypeOK
        <3>3. [op |-> at[w].op,
               state |-> IF at[w].op = "PROMOTION" THEN Cand[at[w].l] ELSE Base[at[w].l]] \in Evidence
            BY <3>1, <3>2 DEF Evidence
        <3> QED
            BY <1>1, <2>1, <3>1, <3>3 DEF PersistEvidence, TypeOK
    <2>2. ASSUME ~\E w \in Workers : PersistEvidence(w) PROVE UNCHANGED complete
        BY <2>2 DEF Next, Attempt, vars, files, remote, Consume, Create, FillAcknowledged,
           FillUnanswered, Reconcile, Inventory, BackUp, Backup, ActivateState, VerifyState,
           RollbackState, ValidateEvidence, Stop, Fail, Die, Begin, Plan, Execute, Withdraw,
           Close, DrillStep, DrillRollback, DrillLook, DrillConfirm, DrillRestore, DrillVerify,
           DrillReport, DrillDies, Land
    <2> QED
        BY <1>1, <2>1, <2>2 DEF TypeOK
<1>3. failure' \in [Lineages -> Documents \cup {Missing}] /\ unmoved' \in BOOLEAN
    <2>1. ASSUME NEW w \in Workers, Stop(w)
          PROVE  failure' \in [Lineages -> Documents \cup {Missing}] /\ unmoved' \in BOOLEAN
        <3>1. at[w].before \in Documents \cup {Missing}
            BY <1>1 DEF TypeOK
        <3> QED
            BY <1>1, <2>1, <3>1 DEF Stop, TypeOK
    <2>2. ASSUME ~\E w \in Workers : Stop(w) PROVE UNCHANGED <<failure, unmoved>>
        BY <2>2 DEF Next, Attempt, vars, files, remote, Consume, Create, FillAcknowledged,
           FillUnanswered, Reconcile, Inventory, BackUp, Backup, ActivateState, VerifyState,
           RollbackState, ValidateEvidence, PersistEvidence, Fail, Die, Begin, Plan, Execute,
           Withdraw, Close, DrillStep, DrillRollback, DrillLook, DrillConfirm, DrillRestore,
           DrillVerify, DrillReport, DrillDies, Land
    <2> QED
        BY <1>1, <2>1, <2>2 DEF TypeOK
<1>4. ASSUME NEW w \in Workers, Attempt(w) \/ Die(w) \/ \E l \in Lineages : Begin(w, l)
      PROVE  UNCHANGED <<report, closed, plans, drill>>
    BY <1>4 DEF Attempt, drills, Consume, Create, FillAcknowledged, FillUnanswered, Reconcile,
                Inventory, BackUp, Backup, ActivateState, VerifyState, RollbackState,
                ValidateEvidence, PersistEvidence, Stop, Fail, Die, Begin
<1> DEFINE Drills == [step : {"idle", "rollback", "look", "confirm", "restore", "relook",
                              "verify", "report"}, l : Lineages]
           D == /\ report' \in [Lineages -> Documents \cup {Missing}]
                /\ closed' \subseteq Lineages /\ plans' \subseteq Lineages
                /\ drill' \in Drills
<1>5. /\ report \in [Lineages -> Documents \cup {Missing}]
      /\ closed \subseteq Lineages /\ plans \subseteq Lineages /\ drill \in Drills
      /\ Rest \in Drills /\ doc \in Documents
    BY <1>1, PromotedAssumption DEF TypeOK, Rest
<1>6. ASSUME NEW step \in {"idle", "rollback", "look", "confirm", "restore", "relook",
                           "verify", "report"}, DrillTo(step)
      PROVE  drill' \in Drills
    BY <1>5, <1>6 DEF DrillTo
<1>7. ASSUME UNCHANGED <<report, closed, plans, drill>> PROVE D
    BY <1>5, <1>7
<1>8. ASSUME NEW l \in Lineages, Plan(l) \/ Execute(l) \/ Withdraw(l) \/ Close(l) PROVE D
    <2>1. CASE Plan(l)
        BY <1>5, <2>1 DEF Plan
    <2>2. CASE Execute(l)
        BY <1>5, <2>2 DEF Execute
    <2>3. CASE Withdraw(l)
        BY <1>5, <2>3 DEF Withdraw, drills
    <2>4. CASE Close(l)
        BY <1>5, <2>4 DEF Close, drills
    <2> QED BY <1>8, <2>1, <2>2, <2>3, <2>4
<1>9. ASSUME DrillRollback \/ DrillLook \/ DrillConfirm \/ DrillRestore \/ DrillVerify \/ DrillDies
      PROVE  D
    <2>1. UNCHANGED <<report, closed, plans>>
        BY <1>9 DEF DrillRollback, DrillLook, DrillConfirm, DrillRestore, DrillVerify, DrillDies
    <2>2. \E step \in {"idle", "rollback", "look", "confirm", "restore", "relook", "verify",
                       "report"} : DrillTo(step)
        BY <1>9 DEF DrillRollback, DrillLook, DrillConfirm, DrillRestore, DrillVerify, DrillDies
    <2> QED
        BY <1>5, <1>6, <2>1, <2>2
<1>10. ASSUME DrillReport PROVE D
    BY <1>5, <1>6, <1>10 DEF DrillReport
<1>11. D
    BY <1>4, <1>7, <1>8, <1>9, <1>10 DEF Next, DrillStep, Land, drills, vars
<1>12. faults' \in 0..MaxFaults /\ crashes' \in 0..MaxCrashes
    <2>1. ASSUME UNCHANGED bounds PROVE faults' \in 0..MaxFaults /\ crashes' \in 0..MaxCrashes
        BY <1>1, <2>1 DEF bounds, TypeOK
    <2>2. ASSUME Fault PROVE faults' \in 0..MaxFaults /\ crashes' \in 0..MaxCrashes
        BY <1>1, <2>2, BoundsAssumption DEF Fault, TypeOK
    <2>3. ASSUME DrillDies \/ \E w \in Workers : Die(w)
          PROVE  faults' \in 0..MaxFaults /\ crashes' \in 0..MaxCrashes
        BY <1>1, <2>3, BoundsAssumption DEF DrillDies, Die, TypeOK
    <2>4. ASSUME NEW w \in Workers, Attempt(w) PROVE UNCHANGED bounds \/ Fault
        BY <2>4 DEF Attempt, Consume, Create, FillAcknowledged, FillUnanswered, Reconcile,
                    Inventory, BackUp, Backup, ActivateState, VerifyState, RollbackState,
                    ValidateEvidence, PersistEvidence, Stop, Fail
    <2>5. ASSUME NEW l \in Lineages,
                 Plan(l) \/ Execute(l) \/ Withdraw(l) \/ Close(l) \/ \E w \in Workers : Begin(w, l)
          PROVE  UNCHANGED bounds
        BY <2>5 DEF Plan, Execute, Withdraw, Close, Begin
    <2>6. ASSUME DrillStep \/ Land \/ UNCHANGED vars PROVE UNCHANGED bounds
        BY <2>6 DEF DrillStep, DrillRollback, DrillLook, DrillConfirm, DrillRestore, DrillVerify,
                    DrillReport, Land, vars, bounds
    <2> QED
        BY <2>1, <2>2, <2>3, <2>4, <2>5, <2>6 DEF Next
<1> QED
    BY <1>2, <1>3, <1>11, <1>12

-----------------------------------------------------------------------------
(* The attempts. *)

\* A record that goes to another step keeps the rest.
LEMMA StepReplaced ==
    ASSUME NEW r \in Attempts, NEW step \in Steps
    PROVE  /\ [r EXCEPT !.step = step] \in Attempts
           /\ [r EXCEPT !.step = step].step = step
           /\ [r EXCEPT !.step = step].l = r.l
           /\ [r EXCEPT !.step = step].n = r.n
           /\ [r EXCEPT !.step = step].before = r.before
           /\ [r EXCEPT !.step = step].wanted = r.wanted
BY DEF Attempts

\* Going to a step that asks for nothing new keeps what was collected.
LEMMA StepBacked ==
    ASSUME NEW r \in Attempts, NEW tg, NEW ap, NEW bk, Backed(r, tg, ap, bk), r.step # "idle",
           NEW step \in {"verify", "rollback", "undo", "validate", "persist", "stop"}
    PROVE  /\ [r EXCEPT !.step = step] \in Attempts
           /\ Backed([r EXCEPT !.step = step], tg, ap, bk)
<1>1. step \in Steps
    BY DEF Steps
<1> QED
    BY <1>1, StepReplaced DEF Backed, Filling, Filled

\* The batch after the one that has just been found in the target.
LEMMA NextBatchBacked ==
    ASSUME NEW r \in Attempts, NEW tg, NEW ap, NEW bk, Backed(r, tg, ap, bk),
           r.step \in Filling, tg[Cand[r.l]] \in Contents, tg[Cand[r.l]][r.n] # Missing
    PROVE  NextBatch(r) \in Attempts /\ Backed(NextBatch(r), tg, ap, bk)
<1>1. r.n \in Batches /\ r.n \in Nat /\ NBatches \in Nat /\ r.before # Missing
      /\ ap[r.l] = "CONSUMED"
    BY BatchAssumption DEF Backed, Filling, Batches
<1> DEFINE q == NextBatch(r)
<1>2. /\ q \in Attempts /\ q.l = r.l /\ q.n = r.n + 1 /\ q.before = r.before
      /\ q.step = IF r.n = NBatches THEN "inventory" ELSE "fill"
    <2> DEFINE step == IF r.n = NBatches THEN "inventory" ELSE "fill"
    <2>1. step \in Steps /\ r.n + 1 \in 1..(NBatches + 1)
        BY <1>1 DEF Steps, Batches
    <2>2. q = [r EXCEPT !.n = r.n + 1, !.step = step]
        BY DEF NextBatch
    <2> HIDE DEF step, q
    <2>3. q \in Attempts /\ q.l = r.l /\ q.n = r.n + 1 /\ q.before = r.before /\ q.step = step
        BY <2>1, <2>2 DEF Attempts
    <2> QED
        BY <2>3 DEF step
<1>3. \A b \in Batches : b < q.n => tg[Cand[r.l]][b] # Missing
    <2>1. SUFFICES ASSUME NEW b \in Batches, b < r.n + 1 PROVE tg[Cand[r.l]][b] # Missing
        BY <1>2, <2>1
    <2>2. b \in Nat /\ (b = r.n \/ b < r.n)
        BY <1>1, <2>1 DEF Batches
    <2>3. CASE b < r.n
        <3>1. r.n > 1
            BY <1>1, <2>2, <2>3 DEF Batches
        <3> QED
            BY <2>3, <3>1 DEF Backed, Filling
    <2> QED BY <2>2, <2>3
<1>4. r.n # NBatches => q.n \in Batches
    BY <1>1, <1>2 DEF Batches
<1> HIDE DEF q
<1>5. Backed(q, tg, ap, bk)
    BY <1>1, <1>2, <1>3, <1>4 DEF Backed, Filling, Filled
<1> QED
    BY <1>2, <1>5 DEF q

\* What a batch was embedded as changes nothing else of the record.
LEMMA SentBacked ==
    ASSUME TypeOK, NEW w \in Workers, NEW v \in Vectors, NEW tg, NEW ap, NEW bk,
           Backed(at[w], tg, ap, bk), at[w].step = "fill"
    PROVE  /\ Sent(w, v) \in Attempts
           /\ Sent(w, v).step = "fill" /\ Sent(w, v).l = at[w].l /\ Sent(w, v).n = at[w].n
           /\ Sent(w, v).wanted[at[w].n] # Missing
           /\ Backed(Sent(w, v), tg, ap, bk)
<1>1. at[w] \in Attempts
    BY AttemptFields
<1>2. at[w].n \in Batches
    BY DEF Backed, Filling
<1>3. /\ [at[w].wanted EXCEPT ![at[w].n] = v] \in Contents
      /\ [at[w].wanted EXCEPT ![at[w].n] = v][at[w].n] # Missing
    BY <1>1, <1>2, BatchAssumption DEF Attempts, Contents
<1>4. Sent(w, v) = [at[w] EXCEPT !.wanted = [at[w].wanted EXCEPT ![at[w].n] = v]]
    BY DEF Sent
<1>5. /\ Sent(w, v) \in Attempts
      /\ Sent(w, v).step = at[w].step /\ Sent(w, v).l = at[w].l /\ Sent(w, v).n = at[w].n
      /\ Sent(w, v).before = at[w].before
      /\ Sent(w, v).wanted = [at[w].wanted EXCEPT ![at[w].n] = v]
    BY <1>1, <1>3, <1>4 DEF Attempts
<1> QED
    BY <1>3, <1>5 DEF Backed

\* Every step of a worker leaves it with a record that is backed.
LEMMA WorkerStep ==
    ASSUME ExecInv, [Next]_vars, NEW w \in Workers,
           Attempt(w) \/ Die(w) \/ \E l \in Lineages : Begin(w, l)
    PROVE  \E r \in Attempts : /\ at' = [at EXCEPT ![w] = r]
                               /\ Backed(r, target', approval', backups')
<1> DEFINE P == \E r \in Attempts : /\ at' = [at EXCEPT ![w] = r]
                                    /\ Backed(r, target', approval', backups')
           Old == at[w]
<1>1. /\ Old \in Attempts /\ Old.l \in Lineages /\ Cand[Old.l] \in States /\ Old.step \in Steps
      /\ at \in [Workers -> Attempts]
    BY AttemptFields DEF ExecInv, TypeOK, Attempts
<1>2. Backed(Old, target, approval, backups)
    BY DEF ExecInv, AttemptsAreBacked
<1>3. Backed(Old, target', approval', backups')
    BY <1>1, <1>2, StepGrows, LedgerStep, BackedStays
<1>4. ASSUME NEW step \in {"verify", "rollback", "undo", "validate", "persist", "stop"},
             Goto(w, step), Old.step # "idle"
      PROVE  P
    <2>1. at' = [at EXCEPT ![w] = [Old EXCEPT !.step = step]]
        BY <1>1, <1>4 DEF Goto
    <2> QED
        BY <1>1, <1>3, <1>4, <2>1, StepBacked
<1>5. ASSUME Quit(w) PROVE P
    BY <1>5, IdleIsAttempt, IdleIsBacked DEF Quit
<1>6. ASSUME NEW l \in Lineages, Begin(w, l) PROVE P
    <2> DEFINE r == [Idle EXCEPT !.step = "consume", !.l = l, !.before = doc]
    <2>1. doc \in Documents
        BY DEF ExecInv, TypeOK
    <2>2. r \in Attempts /\ r.step = "consume" /\ r.n = 1 /\ r.before = doc
        BY <2>1, IdleIsAttempt DEF Attempts, Steps, Idle
    <2>3. at' = [at EXCEPT ![w] = r]
        BY <1>6 DEF Begin
    <2>4. doc # Missing
        BY <2>1, MissingAssumption
    <2> HIDE DEF r
    <2>5. Backed(r, target', approval', backups')
        BY <2>2, <2>4 DEF Backed, Filling, Filled
    <2> QED
        BY <2>2, <2>3, <2>5
<1>7. ASSUME Consume(w) PROVE P
    <2>1. CASE Goto(w, "stop")
        BY <1>4, <1>7, <2>1 DEF Consume
    <2>2. CASE approval' = [approval EXCEPT ![Old.l] = "CONSUMED"] /\ Goto(w, "create")
        <3> DEFINE r == [Old EXCEPT !.step = "create"]
        <3>1. "create" \in Steps /\ Old.step = "consume"
            BY <1>7 DEF Steps, Consume
        <3>2. r \in Attempts /\ r.step = "create" /\ r.l = Old.l /\ r.n = Old.n /\ r.before = Old.before
            BY <1>1, <3>1, StepReplaced
        <3>3. approval'[Old.l] = "CONSUMED"
            BY <1>1, <2>2 DEF ExecInv, TypeOK
        <3>4. at' = [at EXCEPT ![w] = r]
            BY <1>1, <2>2 DEF Goto
        <3> HIDE DEF r
        <3>5. Backed(r, target', approval', backups')
            BY <1>3, <3>1, <3>2, <3>3 DEF Backed, Filling, Filled
        <3> QED
            BY <3>2, <3>4, <3>5
    <2> QED BY <1>7, <2>1, <2>2 DEF Consume
<1>8. ASSUME Create(w) PROVE P
    <2>1. CASE Goto(w, "stop")
        BY <1>4, <1>8, <2>1 DEF Create
    <2>2. CASE Goto(w, "fill")
        <3> DEFINE r == [Old EXCEPT !.step = "fill"]
        <3>1. "fill" \in Steps /\ Old.step = "create"
            BY <1>8 DEF Steps, Create
        <3>2. r \in Attempts /\ r.step = "fill" /\ r.l = Old.l /\ r.n = Old.n /\ r.before = Old.before
            BY <1>1, <3>1, StepReplaced
        <3>3. target'[Cand[Old.l]] \in Contents
            <4>1. target' = [target EXCEPT ![Cand[Old.l]] = IF @ = Missing THEN Empty ELSE @]
                BY <1>8 DEF Create
            <4>2. Empty \in Contents /\ target \in [States -> Contents \cup {Missing}]
                BY DEF Empty, Contents, ExecInv, TypeOK
            <4> QED
                BY <1>1, <4>1, <4>2
        <3>4. at' = [at EXCEPT ![w] = r]
            BY <1>1, <2>2 DEF Goto
        <3>5. 1 \in Batches
            BY BatchAssumption DEF Batches
        <3> HIDE DEF r
        <3>6. Backed(r, target', approval', backups')
            BY <1>3, <3>1, <3>2, <3>3, <3>5 DEF Backed, Filling, Filled
        <3> QED
            BY <3>2, <3>4, <3>6
    <2> QED BY <1>8, <2>1, <2>2 DEF Create
<1>9. ASSUME FillAcknowledged(w) PROVE P
    <2>1. PICK v \in Vectors : /\ Old.step = "fill"
                               /\ target' = Upserted(Cand[Old.l], Old.n, v)
                               /\ at' = [at EXCEPT ![w] = NextBatch(Sent(w, v))]
        BY <1>9 DEF FillAcknowledged
    <2>2. Old.n \in Batches /\ target[Cand[Old.l]] \in Contents
        BY <1>2, <2>1 DEF Backed, Filling
    <2>3. target'[Cand[Old.l]] \in Contents /\ target'[Cand[Old.l]][Old.n] # Missing
        BY <1>1, <2>1, <2>2, UpsertGrows DEF ExecInv, TypeOK
    <2>4. /\ Sent(w, v) \in Attempts
          /\ Sent(w, v).step = "fill" /\ Sent(w, v).l = Old.l /\ Sent(w, v).n = Old.n
          /\ Backed(Sent(w, v), target', approval', backups')
        BY <1>3, <2>1, SentBacked DEF ExecInv
    <2>5. NextBatch(Sent(w, v)) \in Attempts /\ Backed(NextBatch(Sent(w, v)), target', approval', backups')
        BY <2>3, <2>4, NextBatchBacked DEF Filling
    <2> QED
        BY <2>1, <2>5
<1>10. ASSUME FillUnanswered(w) PROVE P
    <2>1. PICK v \in Vectors : /\ Old.step = "fill"
                               /\ at' = [at EXCEPT ![w] = [Sent(w, v) EXCEPT !.step = "reconcile"]]
        BY <1>10 DEF FillUnanswered
    <2>2. /\ Sent(w, v) \in Attempts /\ Sent(w, v).step = "fill"
          /\ Sent(w, v).n = Old.n /\ Sent(w, v).wanted[Old.n] # Missing
          /\ Backed(Sent(w, v), target', approval', backups')
        BY <1>3, <2>1, SentBacked DEF ExecInv
    <2> DEFINE q == Sent(w, v)
               r == [q EXCEPT !.step = "reconcile"]
    <2> HIDE DEF q
    <2>3. /\ "reconcile" \in Steps /\ q \in Attempts /\ q.step = "fill"
          /\ q.wanted[q.n] # Missing
          /\ Backed(q, target', approval', backups')
        BY <2>2 DEF Steps, q
    <2>4. /\ r \in Attempts /\ r.step = "reconcile" /\ r.l = q.l /\ r.n = q.n
          /\ r.before = q.before /\ r.wanted = q.wanted
        BY <2>3, StepReplaced
    <2>5. Backed(r, target', approval', backups')
        BY <2>3, <2>4 DEF Backed, Filling, Filled
    <2> QED
        BY <2>1, <2>4, <2>5 DEF q
<1>11. ASSUME Reconcile(w) PROVE P
    <2>1. CASE Goto(w, "stop")
        BY <1>4, <1>11, <2>1 DEF Reconcile
    <2>2. CASE /\ target[Cand[Old.l]][Old.n] = Old.wanted[Old.n]
               /\ at' = [at EXCEPT ![w] = NextBatch(Old)]
        <3>1. Old.step = "reconcile" /\ target' = target
            BY <1>11 DEF Reconcile, remote
        <3>2. target'[Cand[Old.l]] \in Contents
            BY <1>3, <3>1 DEF Backed, Filling
        <3>3. target'[Cand[Old.l]][Old.n] # Missing
            BY <1>3, <2>2, <3>1 DEF Backed
        <3> QED
            BY <1>1, <1>3, <2>2, <3>1, <3>2, <3>3, NextBatchBacked DEF Filling
    <2> QED BY <1>11, <2>1, <2>2 DEF Reconcile
<1>12. ASSUME Inventory(w) PROVE P
    <2>1. CASE Goto(w, "stop")
        BY <1>4, <1>12, <2>1 DEF Inventory
    <2>2. CASE Goto(w, "native")
        <3> DEFINE r == [Old EXCEPT !.step = "native"]
        <3>1. "native" \in Steps /\ Old.step = "inventory"
            BY <1>12 DEF Steps, Inventory
        <3>2. r \in Attempts /\ r.step = "native" /\ r.l = Old.l /\ r.n = Old.n /\ r.before = Old.before
            BY <1>1, <3>1, StepReplaced
        <3>3. at' = [at EXCEPT ![w] = r]
            BY <1>1, <2>2 DEF Goto
        <3> HIDE DEF r
        <3>4. Backed(r, target', approval', backups')
            BY <1>3, <3>1, <3>2 DEF Backed, Filling, Filled
        <3> QED
            BY <3>2, <3>3, <3>4
    <2> QED BY <1>12, <2>1, <2>2 DEF Inventory
<1>13. ASSUME NEW step, NEW role, NEW next, Backup(w, step, role, next),
              \/ step = "native" /\ role = "NATIVE" /\ next = "recovery"
              \/ step = "recovery" /\ role = "RECOVERY" /\ next = "activate"
       PROVE  P
    <2> DEFINE r == [Old EXCEPT !.step = next]
    <2>1. next \in Steps /\ Old.step = step
        BY <1>13 DEF Steps, Backup
    <2>2. r \in Attempts /\ r.step = next /\ r.l = Old.l /\ r.n = Old.n /\ r.before = Old.before
        BY <1>1, <2>1, StepReplaced
    <2>3. at' = [at EXCEPT ![w] = r]
        BY <1>1, <1>13 DEF Backup, Goto
    <2>4. backups' = [backups EXCEPT ![Old.l] = @ \cup {role}]
        BY <1>13 DEF Backup
    <2>5. backups'[Old.l] = backups[Old.l] \cup {role} /\ backups[Old.l] \subseteq Roles
        BY <1>1, <2>4 DEF ExecInv, TypeOK
    <2>6. next = "recovery" => "NATIVE" \in backups'[Old.l]
        BY <1>13, <2>5
    <2>7. next = "activate" => backups'[Old.l] = Roles
        BY <1>2, <1>13, <2>1, <2>5 DEF Backed, Roles
    <2> HIDE DEF r
    <2>8. Backed(r, target', approval', backups')
        BY <1>3, <1>13, <2>1, <2>2, <2>6, <2>7 DEF Backed, Filling, Filled
    <2> QED
        BY <2>2, <2>3, <2>8
<1>14. ASSUME BackUp(w) PROVE P
    BY <1>13, <1>14 DEF BackUp
<1>15. ASSUME NEW r \in Attempts, r.step # "idle", r.l = Old.l, r.n = Old.n, r.before = Old.before,
              r.step \in {"verify", "validate", "stop"}, Old.step # "idle",
              at' = [at EXCEPT ![w] = r]
       PROVE  P
    <2>1. Backed(r, target', approval', backups')
        BY <1>3, <1>15 DEF Backed, Filling, Filled
    <2> QED
        BY <1>15, <2>1
<1>16. ASSUME ActivateState(w) PROVE P
    <2> DEFINE m == Moves(w, Activate(doc, Old.l))
    <2>1. m \in Attempts /\ m.l = Old.l /\ m.n = Old.n /\ m.before = Old.before
        BY <1>1 DEF Moves, Attempts
    <2>2. PICK step \in {"verify", "stop"} : at' = [at EXCEPT ![w] = [m EXCEPT !.step = step]]
        BY <1>16 DEF ActivateState
    <2>3. step \in Steps /\ Old.step = "activate"
        BY <1>16 DEF Steps, ActivateState
    <2> HIDE DEF m
    <2>4. /\ [m EXCEPT !.step = step] \in Attempts /\ [m EXCEPT !.step = step].step = step
          /\ [m EXCEPT !.step = step].l = Old.l /\ [m EXCEPT !.step = step].n = Old.n
          /\ [m EXCEPT !.step = step].before = Old.before
        BY <2>1, <2>3, StepReplaced
    <2> QED
        BY <1>15, <2>2, <2>3, <2>4
<1>17. ASSUME VerifyState(w) PROVE P
    BY <1>4, <1>17 DEF VerifyState
<1>18. ASSUME RollbackState(w) PROVE P
    <2> DEFINE m == Moves(w, Rollback(doc, Old.l))
    <2>1. m \in Attempts /\ m.l = Old.l /\ m.n = Old.n /\ m.before = Old.before
        BY <1>1 DEF Moves, Attempts
    <2>2. PICK step \in {"validate", "stop"}, op \in {"PROMOTION", "ROLLBACK"} :
              at' = [at EXCEPT ![w] = [m EXCEPT !.op = op, !.step = step]]
        <3>1. m.op \in {"PROMOTION", "ROLLBACK"}
            BY <2>1 DEF Attempts
        <3> QED
            BY <1>18, <3>1 DEF RollbackState
    <2>3. step \in Steps /\ Old.step # "idle"
        BY <1>18 DEF Steps, RollbackState
    <2> HIDE DEF m
    <2> DEFINE r == [m EXCEPT !.op = op, !.step = step]
    <2>4. r \in Attempts /\ r.step = step /\ r.l = Old.l /\ r.n = Old.n /\ r.before = Old.before
        BY <2>1, <2>3 DEF Attempts
    <2> HIDE DEF r
    <2> QED
        BY <1>15, <2>2, <2>3, <2>4 DEF r
<1>19. ASSUME ValidateEvidence(w) PROVE P
    BY <1>4, <1>5, <1>19 DEF ValidateEvidence
<1>20. ASSUME PersistEvidence(w) \/ Stop(w) \/ Die(w) PROVE P
    BY <1>5, <1>20 DEF PersistEvidence, Stop, Die
<1>21. ASSUME Fail(w) PROVE P
    BY <1>4, <1>21 DEF Fail, Gated
<1> QED
    BY <1>6, <1>7, <1>8, <1>9, <1>10, <1>11, <1>12, <1>14, <1>16, <1>17, <1>18, <1>19, <1>20,
       <1>21 DEF Attempt

\* Every step keeps every worker's record backed.
LEMMA AttemptStep ==
    ASSUME ExecInv, [Next]_vars
    PROVE  at' \in [Workers -> Attempts] /\ AttemptsAreBacked'
<1>1. at \in [Workers -> Attempts]
    BY DEF ExecInv, TypeOK, Attempts
<1>2. \A v \in Workers : Backed(at[v], target', approval', backups')
    BY <1>1, StepGrows, LedgerStep, BackedStays DEF ExecInv, AttemptsAreBacked
<1>3. ASSUME NEW w \in Workers, Attempt(w) \/ Die(w) \/ \E l \in Lineages : Begin(w, l)
      PROVE  at' \in [Workers -> Attempts] /\ AttemptsAreBacked'
    <2>1. PICK r \in Attempts : /\ at' = [at EXCEPT ![w] = r]
                                /\ Backed(r, target', approval', backups')
        BY <1>3, WorkerStep
    <2> QED
        BY <1>1, <1>2, <2>1 DEF AttemptsAreBacked
<1>4. ASSUME UNCHANGED at PROVE at' \in [Workers -> Attempts] /\ AttemptsAreBacked'
    BY <1>1, <1>2, <1>4 DEF AttemptsAreBacked
<1>5. ASSUME NEW l \in Lineages, Plan(l) \/ Execute(l) \/ Withdraw(l) \/ Close(l)
      PROVE  UNCHANGED at
    BY <1>5 DEF Plan, Execute, Withdraw, Close
<1>6. ASSUME DrillStep \/ DrillDies \/ Land \/ UNCHANGED vars PROVE UNCHANGED at
    BY <1>6 DEF DrillStep, DrillRollback, DrillLook, DrillConfirm, DrillRestore, DrillVerify,
                DrillReport, DrillDies, Land, vars
<1> QED
    BY <1>3, <1>4, <1>5, <1>6 DEF Next

-----------------------------------------------------------------------------
(* The theorems. *)

\* The initial states satisfy the invariant.
LEMMA InitExec == Init => ExecInv
<1> SUFFICES ASSUME Init PROVE ExecInv
    OBVIOUS
<1>1. InForce \in Lineages /\ Cand[InForce] \in States /\ Promoted \subseteq Lineages
    BY LineageAssumption, PromotedAssumption
<1>2. doc \in Documents
    BY <1>1 DEF Init, Activated, Documents
<1>3. at \in [Workers -> Attempts]
    BY IdleIsAttempt DEF Init
<1>4. \A w \in Workers : at[w].step = "idle"
    BY IdleIsAttempt DEF Init
<1>5. complete \in [Lineages -> Evidence \cup {Missing}]
    BY LineageAssumption DEF Init, Evidence
<1>6. drill \in [step : {"idle", "rollback", "look", "confirm", "restore", "relook", "verify",
                         "report"}, l : Lineages]
    BY <1>1 DEF Init, Rest
<1>7. TypeOK
    BY <1>1, <1>2, <1>3, <1>4, <1>5, <1>6, BoundsAssumption DEF Init, TypeOK, Attempts, Roles
<1>8. AttemptsAreBacked /\ PendingIsReady
    BY IdleIsBacked DEF Init, AttemptsAreBacked, PendingIsReady
<1>9. ActIsBacked
    <2>1. doc.act = InForce
        BY DEF Init, Activated
    <2>2. approval[InForce] = "CONSUMED" /\ backups[InForce] = Roles
        BY <1>1, PromotedAssumption DEF Init
    <2>3. Full(target[Cand[InForce]])
        BY <1>1, PromotedAssumption DEF Init
    <2> QED
        BY <2>1, <2>2, <2>3 DEF ActIsBacked
<1> QED
    BY <1>7, <1>8, <1>9 DEF ExecInv

\* The invariant of the execution of promotions holds in every reachable state,
\* for any lineages, workers, batches and vectors and any number of faults.
THEOREM ExecSafe == Spec => []ExecInv
<1>1. ASSUME ExecInv, [Next]_vars PROVE TypeOK'
    <2>1. \A w \in Workers : at'[w].step # "idle" => at'[w].before # Missing
        BY <1>1, AttemptStep DEF AttemptsAreBacked, Backed
    <2> QED
        BY <1>1, <2>1, AttemptStep, LedgerStep, TargetStep, DocStep, RestStep DEF TypeOK, Attempts
<1>2. ExecInv /\ [Next]_vars => ExecInv'
    BY <1>1, AttemptStep, TargetStep, DocStep DEF ExecInv
<1> QED
    BY <1>2, InitExec, PTL DEF Spec

\* Every variable keeps its type, and an attempt under way knows the serving
\* state it started from.
THEOREM ExecTypeCorrect == Spec => []TypeOK
<1>1. ExecInv => TypeOK
    BY DEF ExecInv
<1> QED
    BY <1>1, ExecSafe, PTL

\* service.py, _execute: the lineage in force has a consumed approval, a full
\* target and both backups, whatever was lost, late, repeated or restored.
THEOREM ActiveBacked == Spec => []ActiveIsBacked
<1>1. ExecInv => ActiveIsBacked
    BY DEF ExecInv, ActIsBacked, ActiveIsBacked
<1> QED
    BY <1>1, ExecSafe, PTL

\* service.py, _execute: a batch an attempt has left behind is in the target.
THEOREM BatchesThere == Spec => []BatchesAreThere
<1>1. ExecInv => BatchesAreThere
    <2> SUFFICES ASSUME ExecInv, NEW w \in Workers, NEW b \in Batches,
                        at[w].step # "idle", b < at[w].n
                 PROVE  target[Cand[at[w].l]][b] # Missing
        BY DEF BatchesAreThere
    <2>1. at[w].n > 1
        BY AttemptFields, BatchAssumption DEF ExecInv, Batches
    <2> QED
        BY <2>1 DEF ExecInv, AttemptsAreBacked, Backed
<1> QED
    BY <1>1, ExecSafe, PTL

\* local_serving_state.py, activate: an activation that was rolled back comes
\* back by the restoration of the drill and by nothing else.
THEOREM RollbackStays == Spec => RollbackHolds
<1>1. ASSUME ExecInv, [Next]_vars, NEW l \in Lineages, doc = RolledBack(l), doc'.act = l,
             doc'.active = Cand[l]
      PROVE  drill.step = "restore" /\ drill.l = l
    <2>1. /\ doc.active = Base[l] /\ doc.act = l /\ doc.rb = l /\ doc.active # Cand[l]
          /\ doc.rb # None
        BY <1>1, MovesAssumption, NoneAssumption DEF RolledBack
    <2>2. doc' # doc
        BY <1>1, <2>1
    <2>3. ASSUME NEW w \in Workers, ActivateState(w) PROVE FALSE
        <3>1. doc' = Activate(doc, at[w].l).doc /\ at[w].l \in Lineages
            BY <1>1, <2>3, AttemptFields DEF ActivateState, ExecInv
        <3>2. CASE at[w].l = l
            BY <2>1, <2>2, <3>1, <3>2 DEF Activate, Did
        <3>3. CASE at[w].l # l
            BY <1>1, <2>1, <2>2, <3>1, <3>3 DEF Activate, Did
        <3> QED BY <3>2, <3>3
    <2>4. ASSUME NEW m \in Lineages, doc' = Rollback(doc, m).doc PROVE FALSE
        BY <2>1, <2>2, <2>4 DEF Rollback, Did
    <2>5. ASSUME NEW m \in Lineages, doc' = Restore(doc, m).doc PROVE m = l
        BY <2>1, <2>2, <2>5 DEF Restore, Did
    <2>6. drill.l \in Lineages
        BY <1>1 DEF ExecInv, TypeOK
    <2>7. ASSUME NEW w \in Workers, RollbackState(w) PROVE FALSE
        BY <1>1, <2>4, <2>7, AttemptFields DEF RollbackState, ExecInv
    <2>8. ASSUME DrillRollback \/ DrillConfirm PROVE FALSE
        BY <2>4, <2>6, <2>8 DEF DrillRollback, DrillConfirm
    <2>9. ASSUME DrillRestore PROVE drill.step = "restore" /\ drill.l = l
        BY <2>5, <2>6, <2>9 DEF DrillRestore
    <2>10. ASSUME NEW w \in Workers,
                 \/ Consume(w) \/ Create(w) \/ FillAcknowledged(w) \/ FillUnanswered(w)
                 \/ Reconcile(w) \/ Inventory(w) \/ BackUp(w) \/ VerifyState(w)
                 \/ ValidateEvidence(w) \/ PersistEvidence(w) \/ Stop(w) \/ Fail(w) \/ Die(w)
           PROVE  UNCHANGED doc
        BY <2>10 DEF Consume, Create, FillAcknowledged, FillUnanswered, Reconcile, Inventory,
                     BackUp, Backup, VerifyState, ValidateEvidence, PersistEvidence, Stop, Fail,
                     Die, files
    <2>11. ASSUME NEW m \in Lineages,
                  Plan(m) \/ Execute(m) \/ Close(m) \/ Withdraw(m) \/ \E w \in Workers : Begin(w, m)
           PROVE  UNCHANGED doc
        BY <2>11 DEF Plan, Execute, Close, Withdraw, Begin, files
    <2>12. ASSUME DrillLook \/ DrillVerify \/ DrillReport \/ DrillDies \/ Land \/ UNCHANGED vars
           PROVE  UNCHANGED doc
        BY <2>12 DEF DrillLook, DrillVerify, DrillReport, DrillDies, Land, files, vars
    <2> QED
        BY <1>1, <2>2, <2>3, <2>7, <2>8, <2>9, <2>10, <2>11, <2>12 DEF Next, Attempt, DrillStep
<1>2. ExecInv /\ [Next]_vars =>
          [\A l \in Lineages : doc = RolledBack(l) /\ doc'.act = l /\ doc'.active = Cand[l] =>
               drill.step = "restore" /\ drill.l = l]_vars
    BY <1>1
<1> QED
    BY <1>2, ExecSafe, PTL DEF Spec, RollbackHolds
=============================================================================
