------------------------- MODULE ServingStateProofs -------------------------
(***************************************************************************)
(* The serving state for any number of lineages, states and workers: the   *)
(* ledger is a chain without repetition, a rollback undoes the newest      *)
(* transition only, and the register implements ActiveState.               *)
(***************************************************************************)
EXTENDS ServingState, TLAPS

\* Every fact is the receipt of its lineage: the activation its manifest
\* describes, or the rollback of that activation.
FactsOfLineages ==
    \A i \in DOMAIN facts :
        LET r == ActivationReceipt(facts[i].lin) IN
        facts[i] \in {r, RollbackReceipt(facts[i].lin, r)}

\* A worker about to roll back has been overtaken by another transition.
Overtaken ==
    \A w \in Workers :
        pc[w] = "rollback" => current.receipt # ActivationReceipt(lin[w])

ServingInv ==
    /\ TypeOK
    /\ CurrentDerivesFromHistory
    /\ ReceiptsAreUnique
    /\ RollbackUndoesNewest
    /\ OutcomesAreRecorded
    /\ FactsOfLineages
    /\ Overtaken

\* The receipts of a lineage are receipts.
LEMMA ReceiptTypes ==
  ASSUME NEW l \in Lineages, NEW m \in Lineages
  PROVE  /\ ActivationReceipt(l) \in Receipts
         /\ RollbackReceipt(l, ActivationReceipt(m)) \in Receipts
  BY CandidateAssumption DEF ActivationReceipt, RollbackReceipt, Receipts, Operations

\* Appending a fact that is not yet recorded to the chain, from its end.
LEMMA TransitionStep ==
  ASSUME ServingInv, NEW r \in Receipts, Transition(r), ~Recorded(r),
         r.from = current.state,
         LET a == ActivationReceipt(r.lin) IN
             r = a \/ (r = RollbackReceipt(r.lin, a) /\ current.receipt = a)
  PROVE  /\ facts' \in Seq(Receipts)
         /\ current' \in [state : States, receipt : Receipts \cup {SeedReceipt}]
         /\ CurrentDerivesFromHistory'
         /\ ReceiptsAreUnique'
         /\ RollbackUndoesNewest'
         /\ FactsOfLineages'
         /\ \A q : Recorded(q) => (\E i \in DOMAIN facts' : facts'[i] = q) /\ current'.receipt # q
         /\ \E i \in DOMAIN facts' : facts'[i] = r
<1>1. facts \in Seq(Receipts) /\ current.state \in States
  BY DEF ServingInv, TypeOK
<1>2. facts' = Append(facts, r) /\ current' = [state |-> r.to, receipt |-> r]
  BY DEF Transition
<1>3. /\ Len(facts') = Len(facts) + 1 /\ Len(facts) \in Nat
      /\ DOMAIN facts = 1..Len(facts) /\ DOMAIN facts' = 1..(Len(facts) + 1)
      /\ facts'[Len(facts) + 1] = r
      /\ \A i \in 1..Len(facts) : facts'[i] = facts[i]
      /\ facts' \in Seq(Receipts)
  BY <1>1, <1>2
<1>4. current' \in [state : States, receipt : Receipts \cup {SeedReceipt}]
  BY <1>2 DEF Receipts
<1>5. \A i \in DOMAIN facts : facts[i] # r
  BY DEF Recorded
<1>6. CurrentDerivesFromHistory'
  <2>1. facts' # <<>> /\ current'.receipt = facts'[Len(facts')]
          /\ current'.state = facts'[Len(facts')].to
    BY <1>2, <1>3
  <2>2. ASSUME NEW i \in DOMAIN facts'
        PROVE  facts'[i].from = IF i = 1 THEN Genesis ELSE facts'[i - 1].to
    <3>1. CASE i \in DOMAIN facts
      <4>1. facts[i].from = IF i = 1 THEN Genesis ELSE facts[i - 1].to
        BY <3>1 DEF ServingInv, CurrentDerivesFromHistory
      <4>2. i # 1 => i - 1 \in 1..Len(facts)
        BY <1>3, <3>1
      <4>3. QED
        BY <1>3, <3>1, <4>1, <4>2
    <3>2. CASE i = Len(facts) + 1
      <4>1. CASE facts = <<>>
        BY <1>3, <3>2, <4>1 DEF ServingInv, CurrentDerivesFromHistory
      <4>2. CASE facts # <<>>
        <5>1. Len(facts) # 0
          BY <1>1, <4>2
        <5>2. current.state = facts[Len(facts)].to
          BY <4>2 DEF ServingInv, CurrentDerivesFromHistory
        <5>3. QED
          BY <1>3, <3>2, <5>1, <5>2
      <4>3. QED
        BY <4>1, <4>2
    <3>3. QED
      BY <1>3, <3>1, <3>2
  <2>3. QED
    BY <2>1, <2>2 DEF CurrentDerivesFromHistory
<1>7. ReceiptsAreUnique'
  BY <1>3, <1>5 DEF ServingInv, ReceiptsAreUnique
<1>8. RollbackUndoesNewest'
  <2> SUFFICES ASSUME NEW i \in DOMAIN facts', facts'[i].op = "ROLLED_BACK"
               PROVE  i > 1 /\ facts'[i - 1] = ActivationReceipt(facts'[i].lin)
    BY DEF RollbackUndoesNewest, ActivationReceipt
  <2>1. CASE i \in DOMAIN facts
    <3>1. i > 1 /\ facts[i - 1] = ActivationReceipt(facts[i].lin)
      BY <1>3, <2>1 DEF ServingInv, RollbackUndoesNewest
    <3>2. QED
      BY <1>3, <2>1, <3>1
  <2>2. CASE i = Len(facts) + 1
    <3>1. r.op = "ROLLED_BACK" /\ current.receipt = ActivationReceipt(r.lin)
      BY <1>3, <2>2 DEF ActivationReceipt
    <3>2. facts # <<>>
      <4>1. r.lin \in Lineages
        BY DEF Receipts
      <4>2. current.receipt \in Receipts
        BY <3>1, <4>1, ReceiptTypes
      <4>3. QED
        BY <4>2, SeedAssumption DEF ServingInv, CurrentDerivesFromHistory
    <3>3. Len(facts) # 0 /\ current.receipt = facts[Len(facts)]
      BY <1>1, <3>2 DEF ServingInv, CurrentDerivesFromHistory
    <3>4. i - 1 = Len(facts) /\ Len(facts) \in 1..Len(facts) /\ i > 1
      BY <1>3, <2>2, <3>3
    <3>5. facts'[i - 1] = facts[Len(facts)] /\ facts'[i] = r
      BY <1>3, <2>2, <3>4
    <3>6. QED
      BY <3>1, <3>3, <3>4, <3>5
  <2>3. QED
    BY <1>3, <2>1, <2>2
<1>9. FactsOfLineages'
  <2> SUFFICES ASSUME NEW i \in DOMAIN facts'
               PROVE  facts'[i] \in {ActivationReceipt(facts'[i].lin),
                        RollbackReceipt(facts'[i].lin, ActivationReceipt(facts'[i].lin))}
    BY DEF FactsOfLineages, ActivationReceipt, RollbackReceipt
  <2>1. CASE i \in DOMAIN facts
    BY <1>3, <2>1 DEF ServingInv, FactsOfLineages
  <2>2. CASE i = Len(facts) + 1
    BY <1>3, <2>2
  <2>3. QED
    BY <1>3, <2>1, <2>2
<1>10. \A q : Recorded(q) => (\E i \in DOMAIN facts' : facts'[i] = q) /\ current'.receipt # q
  BY <1>2, <1>3, <1>5 DEF Recorded
<1>11. \E i \in DOMAIN facts' : facts'[i] = r
  BY <1>3
<1>12. QED
  BY <1>3, <1>4, <1>6, <1>7, <1>8, <1>9, <1>10, <1>11

\* activate_serving_state_v1 appends to the chain or changes nothing.
LEMMA ActivateStep ==
  ASSUME ServingInv, NEW l \in Lineages, ActivateServingState(l)
  PROVE  /\ facts' \in Seq(Receipts)
         /\ current' \in [state : States, receipt : Receipts \cup {SeedReceipt}]
         /\ CurrentDerivesFromHistory' /\ ReceiptsAreUnique'
         /\ RollbackUndoesNewest' /\ FactsOfLineages'
         /\ \A q : Recorded(q) => (\E i \in DOMAIN facts' : facts'[i] = q) /\ (current'.receipt = q => current.receipt = q)
         /\ \E i \in DOMAIN facts' : facts'[i] = ActivationReceipt(l)
<1>1. CASE ActivateApplies(l) /\ Transition(ActivationReceipt(l))
  <2>1. /\ ActivationReceipt(l).from = Base[l] /\ ActivationReceipt(l).lin = l
    BY DEF ActivationReceipt
  <2>2. current.state = Base[l] /\ ~Recorded(ActivationReceipt(l))
    BY <1>1 DEF ActivateApplies
  <2>3. QED
    BY <1>1, <2>1, <2>2, TransitionStep, ReceiptTypes
<1>2. CASE ActivateReplays(l) /\ UNCHANGED store
  BY <1>2 DEF ActivateReplays, store, ServingInv, TypeOK, CurrentDerivesFromHistory,
         ReceiptsAreUnique, RollbackUndoesNewest, FactsOfLineages, Recorded,
         ActivationReceipt, RollbackReceipt
<1>3. QED
  BY <1>1, <1>2 DEF ActivateServingState

\* A rollback names the lineage of its receipt, whatever candidate it is
\* called with.
LEMMA RollbackBinding ==
  ASSUME NEW l \in Lineages, NEW m \in Lineages,
         ActivationReceipt(m).from = Base[l], ActivationReceipt(m).to = Cand[l]
  PROVE  RollbackReceipt(l, ActivationReceipt(m)) = RollbackReceipt(m, ActivationReceipt(m))
  BY DEF ActivationReceipt, RollbackReceipt

\* rollback_serving_state_v1 appends to the chain or changes nothing.
LEMMA RollbackStep ==
  ASSUME ServingInv, NEW l \in Lineages, NEW m \in Lineages,
         RollbackServingState(l, ActivationReceipt(m))
  PROVE  /\ facts' \in Seq(Receipts)
         /\ current' \in [state : States, receipt : Receipts \cup {SeedReceipt}]
         /\ CurrentDerivesFromHistory' /\ ReceiptsAreUnique'
         /\ RollbackUndoesNewest' /\ FactsOfLineages'
         /\ \A q : Recorded(q) => (\E i \in DOMAIN facts' : facts'[i] = q) /\ (current'.receipt = q => current.receipt = q)
         /\ \E i \in DOMAIN facts' : facts'[i] = RollbackReceipt(l, ActivationReceipt(m))
<1> DEFINE r == ActivationReceipt(m)
           b == RollbackReceipt(l, r)
<1>1. CASE RollbackApplies(l, r) /\ Transition(b)
  <2>1. /\ current.state = Cand[l] /\ current.receipt = r
        /\ r.from = Base[l] /\ r.to = Cand[l] /\ ~Recorded(b)
    BY <1>1 DEF RollbackApplies
  <2>2. b = RollbackReceipt(m, r) /\ b.from = Cand[l] /\ b.lin = m
    BY <2>1, RollbackBinding DEF RollbackReceipt, ActivationReceipt
  <2>3. b \in Receipts
    BY ReceiptTypes
  <2> HIDE DEF r, b
  <2>4. r = ActivationReceipt(m)
    BY DEF r
  <2>5. /\ facts' \in Seq(Receipts)
        /\ current' \in [state : States, receipt : Receipts \cup {SeedReceipt}]
        /\ CurrentDerivesFromHistory' /\ ReceiptsAreUnique'
        /\ RollbackUndoesNewest' /\ FactsOfLineages'
        /\ \A q : Recorded(q) => (\E i \in DOMAIN facts' : facts'[i] = q) /\ current'.receipt # q
        /\ \E i \in DOMAIN facts' : facts'[i] = b
    BY <1>1, <2>1, <2>2, <2>3, <2>4, TransitionStep
  <2>6. QED
    BY <2>5 DEF b, r
<1>2. CASE RollbackReplays(l, r) /\ UNCHANGED store
  <2>1. facts # <<>>
    <3>1. current.receipt \in Receipts
      BY <1>2, ReceiptTypes DEF RollbackReplays
    <3>2. QED
      BY <3>1, SeedAssumption DEF ServingInv, CurrentDerivesFromHistory
  <2>2. Len(facts) \in DOMAIN facts /\ current.receipt = facts[Len(facts)]
    BY <2>1 DEF ServingInv, TypeOK, CurrentDerivesFromHistory
  <2>3. Recorded(b)
    BY <1>2, <2>2 DEF RollbackReplays, Recorded
  <2>4. QED
    BY <1>2, <2>3 DEF store, ServingInv, TypeOK, CurrentDerivesFromHistory,
         ReceiptsAreUnique, RollbackUndoesNewest, FactsOfLineages, Recorded,
         ActivationReceipt, RollbackReceipt
<1>3. QED
  BY <1>1, <1>2 DEF RollbackServingState

\* The seeded register and idle workers.
LEMMA InitServing == Init => ServingInv
  BY CandidateAssumption
  DEF Init, ServingInv, TypeOK, CurrentDerivesFromHistory, ReceiptsAreUnique,
      RollbackUndoesNewest, OutcomesAreRecorded, FactsOfLineages, Overtaken, Steps

\* Steps that leave the register alone.
LEMMA WorkerStep ==
  ASSUME ServingInv, NEW w \in Workers,
         \/ \E l \in Lineages : Begin(w, l)
         \/ Verify(w)
         \/ Restart(w)
         \/ pc[w] \in {"activate", "rollback"} /\ UNCHANGED store /\ Goto(w, "error")
  PROVE  ServingInv'
<1>1. UNCHANGED <<facts, current>>
  BY DEF Begin, Verify, Restart, store
<1>2. TypeOK'
  BY <1>1 DEF ServingInv, TypeOK, Begin, Verify, Restart, Goto, Steps, Outcomes
<1>3. OutcomesAreRecorded'
  BY <1>1 DEF ServingInv, TypeOK, OutcomesAreRecorded, Begin, Verify, Restart, Goto,
         Recorded, ActivationReceipt, RollbackReceipt
<1>4. current.receipt \in Receipts => current.state = current.receipt.to
  <2>1. ASSUME current.receipt \in Receipts
        PROVE  facts # <<>>
    BY <2>1, SeedAssumption DEF ServingInv, CurrentDerivesFromHistory
  <2>2. QED
    BY <2>1 DEF ServingInv, CurrentDerivesFromHistory
<1>5. ASSUME pc[w] = "verify", current.state # Cand[lin[w]]
      PROVE  current.receipt # ActivationReceipt(lin[w])
  <2>1. lin[w] \in Lineages
    BY <1>5 DEF ServingInv, TypeOK
  <2>2. ActivationReceipt(lin[w]) \in Receipts /\ ActivationReceipt(lin[w]).to = Cand[lin[w]]
    BY <2>1, ReceiptTypes DEF ActivationReceipt
  <2>3. QED
    BY <1>4, <1>5, <2>2
<1>6. Overtaken'
  BY <1>1, <1>5 DEF ServingInv, TypeOK, Overtaken, Begin, Verify, Restart, Goto,
         ActivationReceipt
<1>7. QED
  BY <1>1, <1>2, <1>3, <1>6 DEF ServingInv, CurrentDerivesFromHistory,
     ReceiptsAreUnique, RollbackUndoesNewest, FactsOfLineages, ActivationReceipt,
     RollbackReceipt

\* A committed activation, acknowledged or not.
LEMMA ActivatedStep ==
  ASSUME ServingInv, NEW w \in Workers, pc[w] = "activate",
         ActivateServingState(lin[w]), Goto(w, "verify") \/ Goto(w, "error")
  PROVE  ServingInv'
<1>1. lin[w] \in Lineages
  BY DEF ServingInv, TypeOK
<1>2. /\ facts' \in Seq(Receipts)
      /\ current' \in [state : States, receipt : Receipts \cup {SeedReceipt}]
      /\ CurrentDerivesFromHistory' /\ ReceiptsAreUnique'
      /\ RollbackUndoesNewest' /\ FactsOfLineages'
      /\ \A q : Recorded(q) => (\E i \in DOMAIN facts' : facts'[i] = q) /\ (current'.receipt = q => current.receipt = q)
      /\ \E i \in DOMAIN facts' : facts'[i] = ActivationReceipt(lin[w])
  BY <1>1, ActivateStep
<1>3. TypeOK'
  BY <1>2 DEF ServingInv, TypeOK, Goto, Steps, Outcomes
<1>4. lin' = lin /\ \A v \in Workers : pc'[v] = pc[v] \/ pc'[v] \in {"verify", "error"}
  BY DEF Goto, ServingInv, TypeOK
<1>5. OutcomesAreRecorded'
  <2> SUFFICES ASSUME NEW v \in Workers
               PROVE  /\ pc'[v] \in {"verify", "succeeded", "rollback", "rolled_back"} =>
                            \E i \in DOMAIN facts' : facts'[i] = ActivationReceipt(lin[v])
                      /\ pc'[v] = "rolled_back" =>
                            \E i \in DOMAIN facts' :
                                facts'[i] = RollbackReceipt(lin[v], ActivationReceipt(lin[v]))
    BY <1>4 DEF OutcomesAreRecorded, Recorded, ActivationReceipt, RollbackReceipt
  <2>1. CASE v = w
    BY <1>2, <2>1 DEF Goto, ServingInv, TypeOK
  <2>2. CASE v # w
    <3>1. pc'[v] = pc[v]
      BY <2>2 DEF Goto, ServingInv, TypeOK
    <3>2. /\ pc[v] \in {"verify", "succeeded", "rollback", "rolled_back"} =>
                 Recorded(ActivationReceipt(lin[v]))
          /\ pc[v] = "rolled_back" =>
                 Recorded(RollbackReceipt(lin[v], ActivationReceipt(lin[v])))
      BY DEF ServingInv, OutcomesAreRecorded
    <3>3. QED
      BY <1>2, <3>1, <3>2
  <2>3. QED
    BY <2>1, <2>2
<1>6. Overtaken'
  <2> SUFFICES ASSUME NEW v \in Workers, pc'[v] = "rollback"
               PROVE  current'.receipt # ActivationReceipt(lin[v])
    BY <1>4 DEF Overtaken, ActivationReceipt
  <2>1. Recorded(ActivationReceipt(lin[v])) /\ current.receipt # ActivationReceipt(lin[v])
    BY <1>4 DEF ServingInv, OutcomesAreRecorded, Overtaken
  <2>2. QED
    BY <1>2, <2>1
<1>7. QED
  BY <1>2, <1>3, <1>5, <1>6 DEF ServingInv

\* A committed rollback, acknowledged or not, of a worker or an operator.
LEMMA RolledBackStep ==
  ASSUME ServingInv, NEW l \in Lineages, NEW m \in Lineages,
         RollbackServingState(l, ActivationReceipt(m)),
         \/ UNCHANGED worker
         \/ \E w \in Workers : /\ pc[w] = "rollback" /\ l = lin[w] /\ m = lin[w]
                               /\ Goto(w, "rolled_back") \/ Goto(w, "error")
  PROVE  ServingInv'
<1>1. /\ facts' \in Seq(Receipts)
      /\ current' \in [state : States, receipt : Receipts \cup {SeedReceipt}]
      /\ CurrentDerivesFromHistory' /\ ReceiptsAreUnique'
      /\ RollbackUndoesNewest' /\ FactsOfLineages'
      /\ \A q : Recorded(q) => (\E i \in DOMAIN facts' : facts'[i] = q)
                                 /\ (current'.receipt = q => current.receipt = q)
      /\ \E i \in DOMAIN facts' : facts'[i] = RollbackReceipt(l, ActivationReceipt(m))
  BY RollbackStep
<1>2. TypeOK' /\ lin' = lin
  BY <1>1 DEF ServingInv, TypeOK, Goto, Steps, Outcomes, worker
<1>3. \A v \in Workers : \/ pc'[v] = pc[v]
                         \/ pc[v] = "rollback" /\ pc'[v] = "error"
                         \/ pc[v] = "rollback" /\ pc'[v] = "rolled_back" /\ l = lin[v] /\ m = lin[v]
  BY DEF ServingInv, TypeOK, Goto, worker
<1>4. OutcomesAreRecorded'
  <2> SUFFICES ASSUME NEW v \in Workers
               PROVE  /\ pc'[v] \in {"verify", "succeeded", "rollback", "rolled_back"} =>
                            \E i \in DOMAIN facts' : facts'[i] = ActivationReceipt(lin[v])
                      /\ pc'[v] = "rolled_back" =>
                            \E i \in DOMAIN facts' :
                                facts'[i] = RollbackReceipt(lin[v], ActivationReceipt(lin[v]))
    BY <1>2 DEF OutcomesAreRecorded, Recorded, ActivationReceipt, RollbackReceipt
  <2>1. /\ pc[v] \in {"verify", "succeeded", "rollback", "rolled_back"} =>
               Recorded(ActivationReceipt(lin[v]))
        /\ pc[v] = "rolled_back" =>
               Recorded(RollbackReceipt(lin[v], ActivationReceipt(lin[v])))
    BY DEF ServingInv, OutcomesAreRecorded
  <2>2. QED
    BY <1>1, <1>3, <2>1
<1>5. Overtaken'
  <2> SUFFICES ASSUME NEW v \in Workers, pc'[v] = "rollback"
               PROVE  current'.receipt # ActivationReceipt(lin[v])
    BY <1>2 DEF Overtaken, ActivationReceipt
  <2>1. Recorded(ActivationReceipt(lin[v])) /\ current.receipt # ActivationReceipt(lin[v])
    BY <1>3 DEF ServingInv, OutcomesAreRecorded, Overtaken
  <2>2. QED
    BY <1>1, <2>1
<1>6. QED
  BY <1>1, <1>2, <1>4, <1>5 DEF ServingInv

\* Every step preserves the invariant.
LEMMA StepServing ==
  ASSUME ServingInv, [Next]_vars
  PROVE  ServingInv'
<1>1. ASSUME NEW w \in Workers, \/ \E l \in Lineages : Begin(w, l)
                                \/ Verify(w)
                                \/ Restart(w)
      PROVE  ServingInv'
  BY <1>1, WorkerStep
<1>2. ASSUME NEW w \in Workers, Activate(w)
      PROVE  ServingInv'
  BY <1>2, ActivatedStep, WorkerStep DEF Activate
<1>3. ASSUME NEW w \in Workers, Rollback(w)
      PROVE  ServingInv'
  <2>1. pc[w] = "rollback" /\ lin[w] \in Lineages
    BY <1>3 DEF Rollback, ServingInv, TypeOK
  <2>2. CASE /\ RollbackServingState(lin[w], ActivationReceipt(lin[w]))
             /\ Goto(w, "rolled_back") \/ Goto(w, "error")
    BY <2>1, <2>2, RolledBackStep
  <2>3. CASE UNCHANGED store /\ Goto(w, "error")
    BY <2>1, <2>3, WorkerStep
  <2>4. QED
    BY <1>3, <2>2, <2>3 DEF Rollback
<1>4. ASSUME NEW l \in Lineages, NEW m \in Lineages, OperatorRollback(l, m)
      PROVE  ServingInv'
  BY <1>4, RolledBackStep DEF OperatorRollback
<1>5. CASE UNCHANGED vars
  BY <1>5 DEF vars, ServingInv, TypeOK, CurrentDerivesFromHistory, ReceiptsAreUnique,
     RollbackUndoesNewest, OutcomesAreRecorded, FactsOfLineages, Overtaken, Recorded,
     ActivationReceipt, RollbackReceipt
<1>6. QED
  BY <1>1, <1>2, <1>3, <1>4, <1>5 DEF Next

\* The inductive invariant.
THEOREM ServingSafe == Spec => []ServingInv
  BY InitServing, StepServing, PTL DEF Spec

\* Type correctness of the register and the workers.
THEOREM TypeCorrect == Spec => []TypeOK
<1>1. ServingInv => TypeOK
  BY DEF ServingInv
<1>2. QED
  BY <1>1, ServingSafe, PTL

\* ADR 0009: the current row follows from the ledger of 000011.
THEOREM CurrentFollowsLedger == Spec => []CurrentDerivesFromHistory
<1>1. ServingInv => CurrentDerivesFromHistory
  BY DEF ServingInv
<1>2. QED
  BY <1>1, ServingSafe, PTL

\* activate_serving_state_v1 and rollback_serving_state_v1 record a receipt once.
THEOREM RecordedOnce == Spec => []ReceiptsAreUnique
<1>1. ServingInv => ReceiptsAreUnique
  BY DEF ServingInv
<1>2. QED
  BY <1>1, ServingSafe, PTL

\* rollback_serving_state_v1 undoes the newest transition only.
THEOREM NewestUndone == Spec => []RollbackUndoesNewest
<1>1. ServingInv => RollbackUndoesNewest
  BY DEF ServingInv
<1>2. QED
  BY <1>1, ServingSafe, PTL

\* What _activate_and_verify returns is in the ledger.
THEOREM OutcomesRecorded == Spec => []OutcomesAreRecorded
<1>1. ServingInv => OutcomesAreRecorded
  BY DEF ServingInv
<1>2. QED
  BY <1>1, ServingSafe, PTL

\* The rollback after a failed state.verify undoes nobody's transition.
THEOREM LateRollbackHarmless == Spec => []LateRollbackIsHarmless
<1>1. ServingInv => LateRollbackIsHarmless
  BY DEF ServingInv, Overtaken, LateRollbackIsHarmless, RollbackApplies
<1>2. QED
  BY <1>1, ServingSafe, PTL

-----------------------------------------------------------------------------
(* The register implements ActiveState. *)

\* What a sequence of receipts says of the states.
StatesOf(q) == [i \in DOMAIN q |-> [from |-> q[i].from, to |-> q[i].to]]

\* The events of a longer ledger.
LEMMA StatesOfAppend ==
  ASSUME NEW q \in Seq(Receipts), NEW r \in Receipts
  PROVE  StatesOf(Append(q, r)) = Append(StatesOf(q), [from |-> r.from, to |-> r.to])
<1>1. /\ Len(q) \in Nat /\ DOMAIN q = 1..Len(q)
      /\ DOMAIN Append(q, r) = 1..(Len(q) + 1)
      /\ \A i \in 1..Len(q) : Append(q, r)[i] = q[i]
      /\ Append(q, r)[Len(q) + 1] = r
  OBVIOUS
<1>2. \A i \in 1..Len(q) : q[i] \in Receipts
  BY <1>1
<1>3. StatesOf(q) \in Seq([from : States, to : States]) /\ Len(StatesOf(q)) = Len(q)
  BY <1>1, <1>2 DEF StatesOf, Receipts
<1>4. \A i \in 1..(Len(q) + 1) :
          StatesOf(Append(q, r))[i] = Append(StatesOf(q), [from |-> r.from, to |-> r.to])[i]
  <2> SUFFICES ASSUME NEW i \in 1..(Len(q) + 1)
               PROVE  StatesOf(Append(q, r))[i]
                        = Append(StatesOf(q), [from |-> r.from, to |-> r.to])[i]
    OBVIOUS
  <2>1. CASE i \in 1..Len(q)
    <3>1. Append(StatesOf(q), [from |-> r.from, to |-> r.to])[i] = StatesOf(q)[i]
      BY <1>3, <2>1
    <3>2. QED
      BY <1>1, <2>1, <3>1 DEF StatesOf
  <2>2. CASE i = Len(q) + 1
    <3>1. Append(StatesOf(q), [from |-> r.from, to |-> r.to])[i] = [from |-> r.from, to |-> r.to]
      BY <1>3, <2>2
    <3>2. QED
      BY <1>1, <2>2, <3>1 DEF StatesOf
  <2>3. i \in 1..Len(q) \/ i = Len(q) + 1
    BY <1>1
  <2>4. QED
    BY <2>1, <2>2, <2>3
<1>5. QED
  <2>1. Append(StatesOf(q), [from |-> r.from, to |-> r.to])
          = [i \in 1..(Len(q) + 1) |-> Append(StatesOf(q), [from |-> r.from, to |-> r.to])[i]]
    BY <1>1, <1>3
  <2>2. StatesOf(Append(q, r)) = [i \in 1..(Len(q) + 1) |-> StatesOf(Append(q, r))[i]]
    BY <1>1 DEF StatesOf
  <2>3. QED
    BY <1>4, <2>1, <2>2

\* A transition from the state of the current row is an event of ActiveState.
LEMMA TransitionIsEvent ==
  ASSUME TypeOK, NEW r \in Receipts, Transition(r), r.from = current.state
  PROVE  Pointer!Next
<1> DEFINE e == [from |-> r.from, to |-> r.to]
<1>1. e \in Pointer!Events
  BY DEF Receipts, Pointer!Events
<1>2. facts \in Seq(Receipts) /\ facts' = Append(facts, r)
  BY DEF TypeOK, Transition
<1>3. StatesOf(facts') = Append(StatesOf(facts), e)
  BY <1>2, StatesOfAppend
<1>4. Pointer!Transition(e)
  BY <1>3 DEF Pointer!Transition, Transition, StatesOf
<1>5. QED
  BY <1>1, <1>4 DEF Pointer!Next

\* Every step of the register is an event of ActiveState or none.
LEMMA StepImplements ==
  ASSUME ServingInv, [Next]_vars
  PROVE  [Pointer!Next]_<<current.state, StatesOf(facts)>>
<1>1. TypeOK
  BY DEF ServingInv
<1>2. ASSUME NEW l \in Lineages, ActivateServingState(l)
      PROVE  Pointer!Next \/ UNCHANGED store
  <2>1. CASE ActivateApplies(l) /\ Transition(ActivationReceipt(l))
    <3>1. ActivationReceipt(l) \in Receipts /\ ActivationReceipt(l).from = current.state
      BY <2>1, ReceiptTypes DEF ActivateApplies, ActivationReceipt
    <3>2. QED
      BY <1>1, <2>1, <3>1, TransitionIsEvent
  <2>2. QED
    BY <1>2, <2>1 DEF ActivateServingState
<1>3. ASSUME NEW l \in Lineages, NEW m \in Lineages, RollbackServingState(l, ActivationReceipt(m))
      PROVE  Pointer!Next \/ UNCHANGED store
  <2> DEFINE b == RollbackReceipt(l, ActivationReceipt(m))
  <2>1. CASE RollbackApplies(l, ActivationReceipt(m)) /\ Transition(b)
    <3>1. b \in Receipts /\ b.from = current.state
      BY <2>1, ReceiptTypes DEF RollbackApplies, RollbackReceipt
    <3>2. QED
      BY <1>1, <2>1, <3>1, TransitionIsEvent
  <2>2. QED
    BY <1>3, <2>1 DEF RollbackServingState
<1>4. Pointer!Next \/ UNCHANGED store
  <2>1. ASSUME NEW w \in Workers, pc[w] # "idle"
        PROVE  lin[w] \in Lineages
    BY <1>1, <2>1 DEF TypeOK
  <2>2. ASSUME NEW w \in Workers, Activate(w) \/ Rollback(w)
        PROVE  Pointer!Next \/ UNCHANGED store
    BY <1>2, <1>3, <2>1, <2>2 DEF Activate, Rollback
  <2>3. ASSUME NEW w \in Workers, (\E l \in Lineages : Begin(w, l)) \/ Verify(w) \/ Restart(w)
        PROVE  UNCHANGED store
    BY <2>3 DEF Begin, Verify, Restart
  <2>4. ASSUME NEW l \in Lineages, NEW m \in Lineages, OperatorRollback(l, m)
        PROVE  Pointer!Next \/ UNCHANGED store
    BY <1>3, <2>4 DEF OperatorRollback
  <2>5. CASE UNCHANGED vars
    BY <2>5 DEF vars, store
  <2>6. QED
    BY <2>2, <2>3, <2>4, <2>5 DEF Next
<1>5. QED
  BY <1>4 DEF store, StatesOf

\* ADR 0009: serving_state_v1_fact and serving_state_v1_current are a history
\* of compare-and-set events and the active state derived from it.
THEOREM RegisterImplementsActiveState == Spec => ImplementsActiveState
<1>1. Init => Pointer!Init
  <2>1. StatesOf(<<>>) = <<>>
    BY DEF StatesOf
  <2>2. QED
    BY <2>1 DEF Init, Pointer!Init, StatesOf
<1>2. ServingInv /\ [Next]_vars => [Pointer!Next]_<<current.state,
          [i \in DOMAIN facts |-> [from |-> facts[i].from, to |-> facts[i].to]]>>
  BY StepImplements DEF StatesOf
<1>3. QED
  BY <1>1, <1>2, ServingSafe, PTL DEF Spec, ImplementsActiveState, Pointer!Spec
=============================================================================
