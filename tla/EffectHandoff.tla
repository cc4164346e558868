---------------------------- MODULE EffectHandoff ----------------------------
(***************************************************************************)
(* The effect handoff of the management register (migrations 000002 and    *)
(* 000009: claim, renew, attempt, receipt) together with the promotion     *)
(* worker's RegisteredEffectHandler that drives it.                        *)
(*                                                                         *)
(* A handler is one thread of handle_next.  Each stored procedure call is  *)
(* one action; append_effect_attempt_v1 is two, because it is not          *)
(* SERIALIZABLE: the fence check and the INSERT can be separated by other  *)
(* transactions.  Clock readings are abstracted to one Boolean per lease   *)
(* and per deadline: a lease is live until LeaseExpires, an intent is open *)
(* until DeadlinePasses.                                                   *)
(***************************************************************************)
EXTENDS Naturals

CONSTANTS
    Intents,       \* effect_intent_id values, numbered in their ORDER BY order
    Handlers,      \* concurrent handle_next calls
    Claimants,     \* claimant_id values
    ClaimantOf,    \* the claimant_id each handler's context carries
    MaxToken,      \* bound: the last fencing token
    Disruptions    \* bound: the last token under which calls die and leases lapse

ASSUME IntentsAssumption == Intents \subseteq Nat
ASSUME ClaimantOfAssumption == ClaimantOf \in [Handlers -> Claimants]
ASSUME MaxTokenAssumption == MaxToken \in Nat \ {0} /\ Disruptions \in Nat

VARIABLES
    claim,         \* effect_claim_current: token 0 means no row
    attempt,       \* effect_attempt_fact number 1: its fencing token, 0 if absent
    receipt,       \* effect_receipt_fact
    current,       \* do the authority and capability sources call the intent current?
    open,          \* deadline > now
    pc, task, fence, prior, outcome,   \* the locals of each handle_next call
    performed      \* how many times the effect reached the destination

register == <<claim, attempt, receipt>>
world    == <<current, open, performed>>
locals   == <<pc, task, fence, prior, outcome>>
vars     == <<claim, attempt, receipt, current, open, performed,
              pc, task, fence, prior, outcome>>

-----------------------------------------------------------------------------
Tokens == 0..MaxToken

\* What a RegisteredEffectPort may report of an attempted effect.
Outcomes == {"SUCCEEDED", "FAILED_FINAL", "OUTCOME_UNKNOWN"}
Cancelled == "CANCELLED_BEFORE_EFFECT"
Statuses == Outcomes \cup {Cancelled}

Steps == {"idle", "listed", "claimed", "read", "cancel", "reconcile",
          "renew", "append", "insert", "perform", "record"}

\* The program points of a call that has been given a fencing token.
Fenced == Steps \ {"idle", "listed"}

NoClaim == [claimant |-> "none", token |-> 0, live |-> FALSE]
Claim == [claimant : Claimants \cup {"none"}, token : Tokens, live : BOOLEAN]

NoReceipt == [status |-> "none", count |-> 0, token |-> 0]
Receipt == [status : Statuses \cup {"none"}, count : 0..1, token : Tokens]

Terminal(i) == receipt[i].status # "none"
AttemptCount(i) == IF attempt[i] = 0 THEN 0 ELSE 1

\* The WHERE clause every fenced procedure uses on effect_claim_current.
Holds(h, i) ==
    /\ claim[i].claimant = ClaimantOf[h]
    /\ claim[i].token = fence[h]
    /\ claim[i].live

TypeOK ==
    /\ claim \in [Intents -> Claim]
    /\ attempt \in [Intents -> Tokens]
    /\ receipt \in [Intents -> Receipt]
    /\ current \in [Intents -> BOOLEAN]
    /\ open \in [Intents -> BOOLEAN]
    /\ pc \in [Handlers -> Steps]
    /\ task \in [Handlers -> Intents]
    /\ fence \in [Handlers -> Tokens]
    /\ prior \in [Handlers -> 0..1]
    /\ outcome \in [Handlers -> Outcomes]
    /\ performed \in [Intents -> Nat]

\* Every intent is committed by its command, still unclaimed.
Init ==
    /\ claim = [i \in Intents |-> NoClaim]
    /\ attempt = [i \in Intents |-> 0]
    /\ receipt = [i \in Intents |-> NoReceipt]
    /\ current \in [Intents -> BOOLEAN]
    /\ open = [i \in Intents |-> TRUE]
    /\ pc = [h \in Handlers |-> "idle"]
    /\ task \in [Handlers -> Intents]
    /\ fence = [h \in Handlers |-> 0]
    /\ prior = [h \in Handlers |-> 0]
    /\ outcome = [h \in Handlers |-> "OUTCOME_UNKNOWN"]
    /\ performed = [i \in Intents |-> 0]

Goto(h, step) == pc' = [pc EXCEPT ![h] = step]
Return(h) == Goto(h, "idle")

\* The handler goes on when the condition holds and raises when it does not.
GotoIf(h, condition, step) == Goto(h, IF condition THEN step ELSE "idle")
-----------------------------------------------------------------------------
CandidateNeverRelisted(i) == ~Terminal(i) /\ claim[i].token = 0 /\ open[i]

\* claim_next, first statement: the oldest listed intent, read without a lock.
Candidate(i) == ~Terminal(i) /\ ~claim[i].live /\ open[i]

ListCandidate(h) ==
    /\ pc[h] = "idle"
    /\ \E i \in Intents :
        /\ Candidate(i)
        /\ \A j \in Intents : Candidate(j) => i <= j
        /\ task' = [task EXCEPT ![h] = i]
    /\ Goto(h, "listed")
    /\ UNCHANGED <<register, world, fence, prior, outcome>>

ClaimableAfterReceipt(h, i) ==
    open[i] /\ (claim[i].live => claim[i].claimant = ClaimantOf[h])

\* claim_effect_v1 admits the caller: no live claim of another claimant.
Claimable(h, i) ==
    /\ open[i]
    /\ ~Terminal(i)
    /\ claim[i].live => claim[i].claimant = ClaimantOf[h]

\* The row claim_effect_v1 leaves: a live claim of the same claimant is
\* returned as it is; an expired one is taken over under the next token.
ClaimRow(h, i) ==
    IF claim[i].live THEN claim[i]
    ELSE [claimant |-> ClaimantOf[h], token |-> claim[i].token + 1, live |-> TRUE]

ClaimEffect(h) ==
    LET i == task[h] IN
    /\ pc[h] = "listed"
    /\ \/ /\ Claimable(h, i)
          /\ claim' = [claim EXCEPT ![i] = ClaimRow(h, i)]
          /\ fence' = [fence EXCEPT ![h] = ClaimRow(h, i).token]
          /\ Goto(h, "claimed")
       \/ /\ ~Claimable(h, i)
          /\ Return(h)
          /\ UNCHANGED <<claim, fence>>
    /\ UNCHANGED <<attempt, receipt, world, task, prior, outcome>>

\* read_claimed_effect_v1
ReadClaimed(h) ==
    LET i == task[h] IN
    /\ pc[h] = "claimed"
    /\ GotoIf(h, Holds(h, i) /\ ~Terminal(i), "read")
    /\ prior' = [prior EXCEPT ![h] = AttemptCount(i)]
    /\ UNCHANGED <<register, world, task, fence, outcome>>

\* handle_next after the claim: an authority or capability that is not
\* current cancels, a prior attempt is reconciled, the rest is attempted.
\* An unavailable source raises; that is Abandon.
CheckAuthority(h) ==
    /\ pc[h] = "read"
    /\ Goto(h, CASE ~current[task[h]] -> "cancel"
                 [] current[task[h]] /\ prior[h] > 0 -> "reconcile"
                 [] OTHER -> "renew")
    /\ UNCHANGED <<register, world, task, fence, prior, outcome>>

\* renew_effect_claim_v1: the lease of a live claim is extended, which
\* leaves the row live; a lost claim raises.
RenewClaim(h) ==
    /\ pc[h] = "renew"
    /\ GotoIf(h, Holds(h, task[h]), "append")
    /\ UNCHANGED <<register, world, task, fence, prior, outcome>>

\* append_effect_attempt_v1, the fence check.
AppendCheck(h) ==
    /\ pc[h] = "append"
    /\ GotoIf(h, Holds(h, task[h]), "insert")
    /\ UNCHANGED <<register, world, task, fence, prior, outcome>>

\* The unique index on (effect_intent_id, attempt_number).
FirstAttemptUnindexed(i) == TRUE
FirstAttempt(i) == attempt[i] = 0

\* append_effect_attempt_v1, the INSERT: a second attempt number 1 raises.
AppendInsert(h) ==
    LET i == task[h] IN
    /\ pc[h] = "insert"
    /\ \/ /\ FirstAttempt(i)
          /\ attempt' = [attempt EXCEPT ![i] = fence[h]]
          /\ Goto(h, "perform")
       \/ /\ ~FirstAttempt(i)
          /\ Return(h)
          /\ UNCHANGED attempt
    /\ UNCHANGED <<claim, receipt, world, task, fence, prior, outcome>>

\* Bound: calls die only under the tokens that may be disrupted.
MayFail(h) == claim[task[h]].token <= Disruptions

Outcome(h, o) == Goto(h, "record") /\ outcome' = [outcome EXCEPT ![h] = o]

\* RegisteredEffectPort.perform: the effect happens or not; a port reports
\* SUCCEEDED only of an effect that happened and FAILED_FINAL only of one
\* that did not; otherwise it reports OUTCOME_UNKNOWN or raises.
Perform(h) ==
    /\ pc[h] = "perform"
    /\ \/ /\ performed' = [performed EXCEPT ![task[h]] = @ + 1]
          /\ \/ \E o \in {"SUCCEEDED", "OUTCOME_UNKNOWN"} : Outcome(h, o)
             \/ MayFail(h) /\ Return(h) /\ UNCHANGED outcome
       \/ /\ \E o \in {"FAILED_FINAL", "OUTCOME_UNKNOWN"} : Outcome(h, o)
          /\ UNCHANGED performed
    /\ UNCHANGED <<register, current, open, task, fence, prior>>

\* RegisteredEffectPort.reconcile: looks for the effect at the destination.
Reconcile(h) ==
    LET found == IF performed[task[h]] > 0 THEN "SUCCEEDED" ELSE "FAILED_FINAL" IN
    /\ pc[h] = "reconcile"
    /\ \E o \in {found, "OUTCOME_UNKNOWN"} : Outcome(h, o)
    /\ UNCHANGED <<register, world, task, fence, prior>>

\* record_effect_receipt_v1 for an attempted effect.  The attempt count the
\* handler passes is its prior count when it reconciled and 1 when it
\* performed: 1 either way.  An existing receipt, a count mismatch and a
\* stale fence all raise and leave the register as it is.
Recordable(h, i) ==
    /\ ~Terminal(i)
    /\ AttemptCount(i) = 1
    /\ Holds(h, i)

RecordReceipt(h) ==
    LET i == task[h] IN
    /\ pc[h] = "record"
    /\ receipt' = [receipt EXCEPT ![i] =
           IF Recordable(h, i)
           THEN [status |-> outcome[h], count |-> 1, token |-> fence[h]]
           ELSE @]
    /\ Return(h)
    /\ UNCHANGED <<claim, attempt, world, task, fence, prior, outcome>>

\* record_effect_receipt_v1 for a cancellation: no claim, no token, and no
\* attempt recorded yet.
Cancellable(i) == ~Terminal(i) /\ AttemptCount(i) = 0

RecordCancellation(h) ==
    LET i == task[h] IN
    /\ pc[h] = "cancel"
    /\ receipt' = [receipt EXCEPT ![i] =
           IF Cancellable(i)
           THEN [status |-> Cancelled, count |-> 0, token |-> 0]
           ELSE @]
    /\ Return(h)
    /\ UNCHANGED <<claim, attempt, world, task, fence, prior, outcome>>

\* An exception from a source, a port or the connection, or the death of
\* the process, at any point of handle_next.  A call that dies before its
\* claim has changed nothing, so those are left out.
Abandon(h) ==
    /\ pc[h] \in Fenced
    /\ MayFail(h)
    /\ Return(h)
    /\ UNCHANGED <<register, world, task, fence, prior, outcome>>

InUse(i) ==
    \E h \in Handlers :
        pc[h] \in Fenced /\ task[h] = i /\ fence[h] = claim[i].token

\* The lease's expires_at passes.  Bound: under a call that still uses the
\* lease only at the tokens that may be disrupted; at the last token never.
LeaseExpires(i) ==
    /\ claim[i].live
    /\ claim[i].token < MaxToken
    /\ claim[i].token <= Disruptions \/ ~InUse(i)
    /\ claim' = [claim EXCEPT ![i].live = FALSE]
    /\ UNCHANGED <<attempt, receipt, world, locals>>

DeadlinePasses(i) ==
    /\ open[i]
    /\ open' = [open EXCEPT ![i] = FALSE]
    /\ UNCHANGED <<register, current, performed, locals>>

\* Revocation, invalidation, capability expiry, or renewed evidence.
AuthorityChanges(i) ==
    /\ current' = [current EXCEPT ![i] = ~@]
    /\ UNCHANGED <<register, open, performed, locals>>

HandleNext(h) ==
    \/ ListCandidate(h) \/ ClaimEffect(h) \/ ReadClaimed(h)
    \/ CheckAuthority(h) \/ RenewClaim(h) \/ AppendCheck(h) \/ AppendInsert(h)
    \/ Perform(h) \/ Reconcile(h) \/ RecordReceipt(h) \/ RecordCancellation(h)

Environment(i) == LeaseExpires(i) \/ DeadlinePasses(i) \/ AuthorityChanges(i)

Next ==
    \/ \E h \in Handlers : HandleNext(h) \/ Abandon(h)
    \/ \E i \in Intents : Environment(i)

Spec == Init /\ [][Next]_vars

\* Workers poll forever and the clock passes every expiry.
FairSpec ==
    /\ Spec
    /\ \A h \in Handlers : WF_vars(HandleNext(h))
    /\ \A i \in Intents : WF_vars(LeaseExpires(i))
-----------------------------------------------------------------------------
\* However many handlers race, crash and take leases over, the effect of an
\* intent reaches its destination at most once: attempt number 1 is appended
\* before perform and no later handle_next performs again.
AtMostOncePerformed == \A i \in Intents : performed[i] <= 1

\* "An expired claimant cannot complete using an old token": the receipt of an
\* attempted effect carries the newest fencing token ever issued for its
\* intent, and no token is issued after it.
ReceiptUnderNewestFence ==
    \A i \in Intents :
        receipt[i].status \in Outcomes => receipt[i].token = claim[i].token

\* A receipt that reports an attempt is backed by the attempt fact it counts,
\* begun under the same or an earlier fence, and one that reports success by
\* an effect that did reach the destination.
ReceiptBackedByAttempt ==
    \A i \in Intents : receipt[i].status \in Outcomes =>
        /\ attempt[i] \in 1..receipt[i].token
        /\ receipt[i].status = "SUCCEEDED" => performed[i] = 1

\* Never two handlers between their attempt and the end of their effect.
OneEffectInFlight ==
    \A i \in Intents, g, h \in Handlers :
        (pc[g] = "perform" /\ pc[h] = "perform" /\ task[g] = i /\ task[h] = i)
            => g = h

\* An intent whose authority stays current and whose deadline does not pass gets
\* its terminal receipt, whatever calls die and leases lapse on the way.
ReceiptEventually ==
    \A i \in Intents : [](current[i] /\ open[i]) => <>Terminal(i)

\* What RegisteredEffectPort.reconcile is for, "Resolve a prior attempt whose
\* terminal receipt was not recorded": a started effect whose deadline does not
\* pass gets its receipt, whatever becomes of the authority meanwhile.
StartedEffectResolved ==
    \A i \in Intents : []open[i] => (attempt[i] # 0 ~> Terminal(i))

\* What CANCELLED_BEFORE_EFFECT says: the effect has not happened and never will.
CancelledBeforeEffect ==
    \A i \in Intents : receipt[i].status = Cancelled => performed[i] = 0
-----------------------------------------------------------------------------
(***************************************************************************)
(* The inductive strengthening of the safety invariants: what each program *)
(* point of handle_next may rely on, whatever the other handlers do.       *)
(***************************************************************************)
\* A live claim has a token; an expired one leaves room for one more.
LeaseRoom == \A i \in Intents :
    IF claim[i].live THEN claim[i].token > 0 ELSE claim[i].token < MaxToken

\* Attempts carry issued tokens and precede every effect.
AttemptsPrecede == \A i \in Intents :
    /\ attempt[i] <= claim[i].token
    /\ performed[i] > 0 => attempt[i] # 0

\* What the locals of a call tell of the register: the token was issued, a
\* prior attempt exists; a handler about to perform has an attempt and no
\* effect yet, one that reports success has an effect.
CallOK(h) ==
    /\ pc[h] \in Fenced => fence[h] \in 1..claim[task[h]].token
    /\ pc[h] \in Fenced \ {"claimed"} /\ prior[h] > 0 => attempt[task[h]] # 0
    /\ pc[h] = "reconcile" => prior[h] > 0
    /\ pc[h] = "perform" => attempt[task[h]] # 0 /\ performed[task[h]] = 0
    /\ pc[h] = "record" => attempt[task[h]] # 0
    /\ pc[h] = "record" /\ outcome[h] = "SUCCEEDED" => performed[task[h]] = 1

CallsOK == \A h \in Handlers : CallOK(h)

HandoffInv ==
    /\ TypeOK
    /\ LeaseRoom
    /\ AttemptsPrecede
    /\ CallsOK
    /\ AtMostOncePerformed
    /\ ReceiptUnderNewestFence
    /\ ReceiptBackedByAttempt
    /\ OneEffectInFlight
=============================================================================
