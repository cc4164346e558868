------------------------- MODULE EffectHandoffProofs -------------------------
(***************************************************************************)
(* Safety of the effect handoff for any number of intents, handlers and    *)
(* claimants: Spec => []HandoffInv, and the invariants it contains.        *)
(***************************************************************************)
EXTENDS EffectHandoff, TLAPS

\* The initial register and idle handlers satisfy the inductive invariant.
LEMMA InitHandoff == Init => HandoffInv
  BY IntentsAssumption, MaxTokenAssumption
  DEF Init, HandoffInv, TypeOK, LeaseRoom, AttemptsPrecede, CallsOK, CallOK,
      AtMostOncePerformed, ReceiptUnderNewestFence, ReceiptBackedByAttempt,
      OneEffectInFlight, NoClaim, Claim, NoReceipt, Receipt,
      Steps, Fenced, Tokens, Outcomes, Statuses, Cancelled

\* The steps of handle_next that only read the register.
LEMMA ReadingSteps ==
  ASSUME HandoffInv, NEW h \in Handlers,
         ListCandidate(h) \/ ReadClaimed(h) \/ CheckAuthority(h) \/ RenewClaim(h)
           \/ AppendCheck(h) \/ Reconcile(h) \/ Abandon(h)
  PROVE  HandoffInv'
<1> USE DEF Goto, Return, GotoIf, register, world
<1>1. TypeOK'
  BY DEF HandoffInv, TypeOK, Steps, ListCandidate, ReadClaimed, CheckAuthority,
         RenewClaim, AppendCheck, Reconcile, Abandon, Outcome, Outcomes, AttemptCount
<1>2. UNCHANGED <<claim, attempt, receipt, performed>>
  BY DEF ListCandidate, ReadClaimed, CheckAuthority, RenewClaim, AppendCheck,
         Reconcile, Abandon
<1>3. \A g \in Handlers : pc'[g] = "perform" => pc[g] = "perform" /\ task'[g] = task[g]
  BY DEF HandoffInv, TypeOK, ListCandidate, ReadClaimed, CheckAuthority, RenewClaim,
         AppendCheck, Reconcile, Abandon, Outcome
<1>4. CallsOK'
  <2>1. TypeOK /\ CallsOK /\ AtMostOncePerformed
    BY DEF HandoffInv
  <2> USE <1>2, <2>1 DEF CallsOK, CallOK, TypeOK, Fenced, Steps
  <2>2. CASE ListCandidate(h) \/ Abandon(h)
    BY <2>2 DEF ListCandidate, Abandon
  <2>3. CASE ReadClaimed(h)
    BY <2>3 DEF ReadClaimed, AttemptCount
  <2>4. CASE CheckAuthority(h)
    BY <2>4 DEF CheckAuthority
  <2>5. CASE RenewClaim(h) \/ AppendCheck(h)
    BY <2>5 DEF RenewClaim, AppendCheck
  <2>6. CASE Reconcile(h)
    BY <2>6 DEF Reconcile, Outcome, AtMostOncePerformed
  <2>7. QED
    BY <2>2, <2>3, <2>4, <2>5, <2>6
<1>5. QED
  BY <1>1, <1>2, <1>3, <1>4
  DEF HandoffInv, LeaseRoom, AttemptsPrecede, AtMostOncePerformed,
      ReceiptUnderNewestFence, ReceiptBackedByAttempt, OneEffectInFlight

\* claim_effect_v1: the token only grows, and only while there is no receipt.
LEMMA ClaimStep ==
  ASSUME HandoffInv, NEW h \in Handlers, ClaimEffect(h)
  PROVE  HandoffInv'
<1> USE DEF ClaimEffect, Goto, Return, world
<1>1. TypeOK /\ LeaseRoom /\ task[h] \in Intents
  BY DEF HandoffInv, TypeOK
<1>2. ClaimRow(h, task[h]) \in Claim /\ ClaimRow(h, task[h]).live
        /\ ClaimRow(h, task[h]).token \in 1..MaxToken
        /\ claim[task[h]].token <= ClaimRow(h, task[h]).token
  BY <1>1, MaxTokenAssumption, ClaimantOfAssumption
  DEF TypeOK, LeaseRoom, ClaimRow, Claim, Tokens
<1>3. TypeOK'
  BY <1>1, <1>2 DEF TypeOK, Steps, Tokens
<1>4. LeaseRoom'
  BY <1>1, <1>2 DEF TypeOK, LeaseRoom
<1>5. \A j \in Intents : claim[j].token \in Nat /\ claim'[j].token \in Nat
                            /\ claim[j].token <= claim'[j].token
  BY <1>1, <1>2 DEF TypeOK, Claim, Tokens
<1>6. AttemptsPrecede'
  BY <1>1, <1>5 DEF HandoffInv, AttemptsPrecede, TypeOK, Tokens
<1>7. CallsOK'
  BY <1>1, <1>2, <1>5 DEF HandoffInv, CallsOK, CallOK, TypeOK, Tokens, Fenced, Steps
<1>8. ReceiptUnderNewestFence' /\ ReceiptBackedByAttempt'
  BY <1>1 DEF HandoffInv, ReceiptUnderNewestFence, ReceiptBackedByAttempt, TypeOK,
      Claimable, Terminal, Outcomes
<1>9. OneEffectInFlight'
  BY <1>1 DEF HandoffInv, OneEffectInFlight, TypeOK
<1>10. QED
  BY <1>3, <1>4, <1>6, <1>7, <1>8, <1>9 DEF HandoffInv, AtMostOncePerformed

\* append_effect_attempt_v1, INSERT: the first attempt finds no effect and no
\* handler about to perform.
LEMMA InsertStep ==
  ASSUME HandoffInv, NEW h \in Handlers, AppendInsert(h)
  PROVE  HandoffInv'
<1> USE DEF AppendInsert, FirstAttempt, Goto, Return, world
<1>1. TypeOK /\ task[h] \in Intents /\ fence[h] \in 1..claim[task[h]].token
  BY DEF HandoffInv, TypeOK, CallsOK, CallOK, Fenced, Steps
<1>2. TypeOK'
  BY <1>1 DEF TypeOK, Steps
<1>3. LeaseRoom' /\ AtMostOncePerformed' /\ ReceiptUnderNewestFence'
  BY DEF HandoffInv, LeaseRoom, AtMostOncePerformed, ReceiptUnderNewestFence
<1>4. AttemptsPrecede'
  BY <1>1 DEF HandoffInv, AttemptsPrecede, TypeOK, Tokens
<1>5. CallsOK'
  BY <1>1 DEF HandoffInv, AttemptsPrecede, CallsOK, CallOK, TypeOK, Fenced, Steps, Claim, Tokens
<1>6. ReceiptBackedByAttempt'
  BY <1>1 DEF HandoffInv, ReceiptBackedByAttempt, TypeOK
<1>7. OneEffectInFlight'
  BY <1>1 DEF HandoffInv, CallsOK, CallOK, OneEffectInFlight, TypeOK
<1>8. QED
  BY <1>2, <1>3, <1>4, <1>5, <1>6, <1>7 DEF HandoffInv

\* perform: the handler is alone in flight, so the effect count goes to one.
LEMMA PerformStep ==
  ASSUME HandoffInv, NEW h \in Handlers, Perform(h)
  PROVE  HandoffInv'
<1> USE DEF Perform, Outcome, Goto, Return, register
<1>1. TypeOK /\ task[h] \in Intents /\ performed[task[h]] = 0 /\ attempt[task[h]] # 0
  BY DEF HandoffInv, TypeOK, CallsOK, CallOK
<1>2. TypeOK'
  BY <1>1 DEF TypeOK, Steps, Outcomes
<1>3. LeaseRoom' /\ ReceiptUnderNewestFence'
  BY DEF HandoffInv, LeaseRoom, ReceiptUnderNewestFence
<1>4. AtMostOncePerformed' /\ AttemptsPrecede'
  BY <1>1 DEF HandoffInv, AtMostOncePerformed, AttemptsPrecede, TypeOK
<1>5. ReceiptBackedByAttempt'
  BY <1>1 DEF HandoffInv, ReceiptBackedByAttempt, TypeOK
<1>6. OneEffectInFlight'
  BY <1>1 DEF HandoffInv, OneEffectInFlight, TypeOK
<1>7. CallsOK'
  BY <1>1 DEF HandoffInv, CallsOK, CallOK, OneEffectInFlight, TypeOK, Fenced, Steps
<1>8. QED
  BY <1>2, <1>3, <1>4, <1>5, <1>6, <1>7 DEF HandoffInv

\* record_effect_receipt_v1: the receipt carries the live claim's token.
LEMMA ReceiptStep ==
  ASSUME HandoffInv, NEW h \in Handlers, RecordReceipt(h) \/ RecordCancellation(h)
  PROVE  HandoffInv'
<1> USE DEF RecordReceipt, RecordCancellation, Goto, Return, world
<1>1. TypeOK /\ task[h] \in Intents
  BY DEF HandoffInv, TypeOK
<1>2. TypeOK'
  <2>1. [status |-> outcome[h], count |-> 1, token |-> fence[h]] \in Receipt
        /\ [status |-> Cancelled, count |-> 0, token |-> 0] \in Receipt
    BY <1>1, MaxTokenAssumption DEF TypeOK, Receipt, Statuses, Tokens
  <2>2. receipt' \in [Intents -> Receipt]
    BY <1>1, <2>1 DEF TypeOK
  <2>3. QED
    BY <1>1, <2>2 DEF TypeOK, Steps
<1>3. LeaseRoom' /\ AtMostOncePerformed' /\ AttemptsPrecede'
  BY DEF HandoffInv, LeaseRoom, AtMostOncePerformed, AttemptsPrecede
<1>4. CallsOK' /\ OneEffectInFlight'
  BY <1>1 DEF HandoffInv, CallsOK, CallOK, OneEffectInFlight, TypeOK, Fenced, Steps
<1>5. ReceiptUnderNewestFence'
  BY <1>1 DEF HandoffInv, ReceiptUnderNewestFence, TypeOK, Recordable, Holds,
              Cancelled, Outcomes
<1>6. ReceiptBackedByAttempt'
  BY <1>1 DEF HandoffInv, ReceiptBackedByAttempt, AttemptsPrecede, CallsOK, CallOK,
              TypeOK, Tokens, Recordable, Holds, Cancelled, Outcomes, Claim
<1>7. QED
  BY <1>2, <1>3, <1>4, <1>5, <1>6 DEF HandoffInv

\* Leases, deadlines and authority change under the handlers' feet.
LEMMA EnvironmentStep ==
  ASSUME HandoffInv, NEW i \in Intents, Environment(i)
  PROVE  HandoffInv'
<1>1. claim' \in [Intents -> Claim]
      /\ \A j \in Intents : claim'[j].token = claim[j].token
  <2>1. CASE LeaseExpires(i)
    <3>1. [claim[i] EXCEPT !.live = FALSE] \in Claim
          /\ [claim[i] EXCEPT !.live = FALSE].token = claim[i].token
      BY DEF HandoffInv, TypeOK, Claim
    <3>2. claim' = [claim EXCEPT ![i] = [claim[i] EXCEPT !.live = FALSE]]
      BY <2>1 DEF LeaseExpires
    <3>3. QED
      BY <3>1, <3>2 DEF HandoffInv, TypeOK
  <2>2. CASE UNCHANGED claim
    BY <2>2 DEF HandoffInv, TypeOK
  <2>3. QED
    BY <2>1, <2>2 DEF Environment, DeadlinePasses, AuthorityChanges, register
<1>2. UNCHANGED <<attempt, receipt, performed, pc, task, fence, prior, outcome>>
  BY DEF Environment, LeaseExpires, DeadlinePasses, AuthorityChanges, register,
         world, locals
<1>3. TypeOK'
  <2>1. current' \in [Intents -> BOOLEAN] /\ open' \in [Intents -> BOOLEAN]
    BY DEF HandoffInv, TypeOK, Environment, LeaseExpires, DeadlinePasses,
           AuthorityChanges, world
  <2>2. QED
    BY <1>1, <1>2, <2>1 DEF HandoffInv, TypeOK
<1>4. LeaseRoom'
  BY DEF HandoffInv, TypeOK, Claim, LeaseRoom, Environment, LeaseExpires,
         DeadlinePasses, AuthorityChanges, register
<1>5. AttemptsPrecede' /\ ReceiptUnderNewestFence'
  BY <1>1, <1>2 DEF HandoffInv, AttemptsPrecede, ReceiptUnderNewestFence
<1>6. AtMostOncePerformed' /\ ReceiptBackedByAttempt' /\ OneEffectInFlight'
  BY <1>2 DEF HandoffInv, AtMostOncePerformed, ReceiptBackedByAttempt, OneEffectInFlight
<1>7. CallsOK'
  BY <1>1, <1>2 DEF HandoffInv, TypeOK, CallsOK, CallOK
<1>8. QED
  BY <1>3, <1>4, <1>5, <1>6, <1>7 DEF HandoffInv

\* The inductive invariant holds in every reachable state.
THEOREM HandoffSafety == Spec => []HandoffInv
<1>1. HandoffInv /\ [Next]_vars => HandoffInv'
  <2> SUFFICES ASSUME HandoffInv, [Next]_vars PROVE HandoffInv'
    OBVIOUS
  <2>1. CASE UNCHANGED vars
    BY <2>1
    DEF vars, HandoffInv, TypeOK, LeaseRoom, AttemptsPrecede, CallsOK, CallOK,
        AtMostOncePerformed, ReceiptUnderNewestFence, ReceiptBackedByAttempt,
        OneEffectInFlight
  <2>2. ASSUME NEW h \in Handlers, HandleNext(h) \/ Abandon(h) PROVE HandoffInv'
    BY <2>2, ReadingSteps, ClaimStep, InsertStep, PerformStep, ReceiptStep
    DEF HandleNext
  <2>3. QED
    BY <2>1, <2>2, EnvironmentStep DEF Next
<1>2. QED
  BY InitHandoff, <1>1, PTL DEF Spec

\* Type correctness of the handoff.
THEOREM HandoffTypeCorrect == Spec => []TypeOK
  BY HandoffSafety, PTL DEF HandoffInv

\* The effect of an intent reaches its destination at most once.
THEOREM EffectAtMostOnce == Spec => []AtMostOncePerformed
  BY HandoffSafety, PTL DEF HandoffInv

\* No receipt is recorded under a token that has been taken over.
THEOREM ReceiptsAreFenced == Spec => []ReceiptUnderNewestFence
  BY HandoffSafety, PTL DEF HandoffInv

\* Every receipt of an attempt is backed by the attempt it counts.
THEOREM ReceiptsAreBacked == Spec => []ReceiptBackedByAttempt
  BY HandoffSafety, PTL DEF HandoffInv

\* No two handlers are ever about to perform one effect.
THEOREM EffectsDoNotOverlap == Spec => []OneEffectInFlight
  BY HandoffSafety, PTL DEF HandoffInv
=============================================================================
