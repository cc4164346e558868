-------------------------- MODULE ApprovalLifecycle --------------------------
(***************************************************************************)
(* The life of an Approval in the management register: a proposal becomes  *)
(* ready for review, is approved or rejected, the Approval is consumed,    *)
(* revoked or invalidated, a consumed one is authorized and begun as one   *)
(* execution lineage, and approved work is offered to Promotion workers by *)
(* a leased queue (migrations 000003 to 000008 and 000010).                *)
(*                                                                         *)
(* Every change of the register goes through commit_command_v1, which is   *)
(* Commit of CommandRegister.  The stored procedures wrap it in one        *)
(* SERIALIZABLE transaction that holds the approval or lineage lock, so    *)
(* each is one action and a failed check throws and changes nothing.       *)
(* What the services read before they call a procedure (the registered     *)
(* proposal and its decision) is append-only and cannot go stale; whether  *)
(* the reviewer, the base state and the predicates are still current is    *)
(* decided outside, so a worker may consume or invalidate at any time.     *)
(***************************************************************************)
EXTENDS CommandRegister

CONSTANTS
    Proposals,     \* proposal packages
    Manifests,     \* promotion manifests
    ManifestOf,    \* the manifest a proposal carries
    HkV1,          \* the proposals with an HK V1 review readiness
    Lineages,      \* execution lineages
    Workers,       \* worker ids of the approved-promotion queue
    Expiry,        \* the expires_at of every command
    MaxToken       \* bound: the last fencing token of a queue claim

ASSUME LifecycleAssumption ==
    /\ ManifestOf \in [Proposals -> Manifests]
    /\ HkV1 \subseteq Proposals
    /\ Expiry \in Nat
    /\ MaxToken \in Nat
    /\ {"CONTROL_PLANE", "REVIEW_APPLICATION", "PROMOTION_WORKER"} \subseteq Applications
    /\ \A m \in Manifests : <<"proposal-decision", m>> # None
                           /\ <<"approval-terminal", <<"approval", m>>>> # None

VARIABLES
    claims,        \* approved_promotion_claim_current, by approval
    acks,          \* approved_promotion_acknowledgement_fact, by approval
    held           \* the claim each worker was last given

queue == <<claims, acks, held>>
lifecycleVars == <<registerVars, queue>>
-----------------------------------------------------------------------------
\* _stable_id("apr", manifest, fingerprint, decision): one id per manifest.
Approval(m) == <<"approval", m>>
ApprovalOf(p) == Approval(ManifestOf[p])
Approvals == {Approval(m) : m \in Manifests}

\* The canonical command document; the command, event and intent ids are
\* derived from it.
Document(action, p, x) == [action |-> action, proposal |-> p, subject |-> x]

Command(app, doc, target, type) ==
    [app |-> app, id |-> doc, bytes |-> doc, target |-> target,
     absent |-> TRUE, expected |-> 0, expires |-> Expiry, guard |-> "APPLIED",
     winner |-> None, event |-> doc, type |-> type, intent |-> None]

ReadyCommand(p) ==
    [Command("CONTROL_PLANE", Document("READY", p, None), p, "PROPOSAL_REVIEW_READY")
        EXCEPT !.winner = <<"review-ready", p>>]

DecisionCommandPerProposal(p, type) ==
    [Command("REVIEW_APPLICATION", Document("DECIDE", p, type), p, type)
        EXCEPT !.winner = <<"proposal-decision", p>>]

DecisionCommand(p, type) ==
    [Command("REVIEW_APPLICATION", Document("DECIDE", p, type), p, type)
        EXCEPT !.winner = <<"proposal-decision", ManifestOf[p]>>]

\* Revocation, consumption and invalidation compete for one key.
TerminalKey(p) == <<"approval-terminal", ApprovalOf(p)>>

RevokeCommand(p) ==
    [Command("REVIEW_APPLICATION", Document("REVOKE", p, None), p, "APPROVAL_REVOKED")
        EXCEPT !.absent = FALSE, !.expected = 1, !.winner = TerminalKey(p)]

ConsumeCommand(p, l) ==
    [Command("PROMOTION_WORKER", Document("CONSUME", p, l), ApprovalOf(p), "APPROVAL_CONSUMED")
        EXCEPT !.winner = TerminalKey(p)]

InvalidateCommand(p) ==
    [Command("PROMOTION_WORKER", Document("INVALIDATE", p, None), ApprovalOf(p),
             "APPROVAL_INVALIDATED")
        EXCEPT !.winner = TerminalKey(p)]

AuthorizeCommand(p, l) ==
    [Command("PROMOTION_WORKER", Document("AUTHORIZE", p, l), l,
             "PROMOTION_EXECUTION_AUTHORIZED")
        EXCEPT !.winner = <<"promotion-execution", l>>]

BeginCommand(p, l) ==
    LET doc == Document("BEGIN", p, l) IN
    [Command("PROMOTION_WORKER", doc, l, "PROMOTION_EXECUTION_BEGAN")
        EXCEPT !.absent = FALSE, !.expected = 1, !.intent = doc]

Decisions == {"PROPOSAL_APPROVED", "PROPOSAL_REJECTED"}

LifecycleCommands ==
    {ReadyCommand(p) : p \in Proposals}
    \cup {RevokeCommand(p) : p \in Proposals}
    \cup {InvalidateCommand(p) : p \in Proposals}
    \cup {DecisionCommand(p, type) : p \in Proposals, type \in Decisions}
    \cup {ConsumeCommand(p, l) : p \in Proposals, l \in Lineages}
    \cup {AuthorizeCommand(p, l) : p \in Proposals, l \in Lineages}
    \cup {BeginCommand(p, l) : p \in Proposals, l \in Lineages}

ASSUME CommandsAssumption == Submissions = LifecycleCommands
-----------------------------------------------------------------------------
\* The events of one type in the history of an aggregate.
EventsAt(app, target, types) ==
    {e \in events : e.aggregate = <<app, target>> /\ e.type \in types}

\* A row of proposal_package_status_v1.
Ready(p) == EventsAt("CONTROL_PLANE", p, {"PROPOSAL_REVIEW_READY"}) # {}

\* The approving decision of the proposal in proposal_package_review_v1.
Approvings(p) ==
    {e \in EventsAt("REVIEW_APPLICATION", p, {"PROPOSAL_APPROVED"}) : Ready(p) /\ e.new = 1}
Approved(p) == Approvings(p) # {}

\* The proposal's Approval was revoked or invalidated.
Withdrawn(p) ==
    \/ EventsAt("REVIEW_APPLICATION", p, {"APPROVAL_REVOKED", "APPROVAL_INVALIDATED"}) # {}
    \/ EventsAt("PROMOTION_WORKER", ApprovalOf(p), {"APPROVAL_INVALIDATED"}) # {}

\* It reached any terminal state.
Terminated(p) ==
    \/ Withdrawn(p)
    \/ EventsAt("PROMOTION_WORKER", ApprovalOf(p), {"APPROVAL_CONSUMED"}) # {}

ConsumedForAnyLineage(p, l) ==
    EventsAt("PROMOTION_WORKER", ApprovalOf(p), {"APPROVAL_CONSUMED"}) # {}

\* It was consumed, as the first version of the approval, by a command whose
\* document names this proposal and lineage.
ConsumedFor(p, l) ==
    \E e \in EventsAt("PROMOTION_WORKER", ApprovalOf(p), {"APPROVAL_CONSUMED"}) :
        e.new = 1 /\ inbox[e.key].bytes = Document("CONSUME", p, l)

\* The lineage was authorized by a command whose document names the proposal.
AuthorizedFor(p, l) ==
    \E e \in EventsAt("PROMOTION_WORKER", l, {"PROMOTION_EXECUTION_AUTHORIZED"}) :
        e.prior = 0 /\ e.new = 1 /\ inbox[e.key].bytes = Document("AUTHORIZE", p, l)

\* One command of the application that owns it.  What its caller is answered is
\* the subject of CommandRegister; here every answer may be lost.
Issue(c) ==
    /\ Commit(c, c.app)
    /\ UNCHANGED <<now, answers, projection, queue>>

RegisterReviewReady(p) == Issue(ReadyCommand(p))

\* RegisteredReviewGovernanceService.submit.
Decide(p, type) == Ready(p) /\ Issue(DecisionCommand(p, type))

RevokeAsPlainEvent(p) ==
    Approved(p) /\ Issue([RevokeCommand(p) EXCEPT !.winner = None])

\* revoke_registered_approval_v1.
Revoke(p) == Approved(p) /\ ~Terminated(p) /\ Issue(RevokeCommand(p))

\* consume_registered_approval_v1.
Consume(p, l) == Approved(p) /\ ~Terminated(p) /\ Issue(ConsumeCommand(p, l))

\* invalidate_registered_approval_v1.
Invalidate(p) == Approved(p) /\ ~Terminated(p) /\ Issue(InvalidateCommand(p))

\* authorize_registered_execution_v1.
Authorize(p, l) == ConsumedFor(p, l) /\ Issue(AuthorizeCommand(p, l))

\* begin_registered_execution_v1.
Begin(p, l) == AuthorizedFor(p, l) /\ Issue(BeginCommand(p, l))
-----------------------------------------------------------------------------
NoClaim == [proposal |-> None, worker |-> None, until |-> 0, token |-> 0]
NoAck == [lineage |-> None, token |-> 0]

\* generation and fencing_token always advance together: one token.
Claim == [proposal : Proposals, worker : Workers, until : 1..(MaxTime + 1),
          token : 1..MaxToken]

Live(claim) == claim.until > now

DecisionKeysAlwaysReadiness(p) == 15

\* The JSON keys of the approved decision document.
DecisionKeys(p) == IF p \in HkV1 THEN 15 ELSE 14

OfferedDespiteLease(w, p) ==
    /\ Approved(p)
    /\ DecisionKeys(p) = 14
    /\ acks[ApprovalOf(p)] = NoAck
    /\ ~Terminated(p)

\* The WHERE clause of claim_next_approved_promotion_v1 for worker w; a decision
\* is recorded only after its valid_from, so that condition holds.
Offered(w, p) ==
    /\ Approved(p)
    /\ DecisionKeys(p) = 14
    /\ acks[ApprovalOf(p)] = NoAck
    /\ ~Terminated(p)
    /\ Live(claims[ApprovalOf(p)]) => claims[ApprovalOf(p)].worker = w

\* TOP (1) ... ORDER BY decision_at.
First(w, p) ==
    /\ Offered(w, p)
    /\ \A q \in Proposals : Offered(w, q) =>
           \A e \in Approvings(p), f \in Approvings(q) : e.at <= f.at

\* The row after the claim: the worker's own live claim again, or the next
\* generation.  A live claim with another claimed_until throws.
ClaimRow(w, p, until) ==
    LET claim == claims[ApprovalOf(p)] IN
    IF Live(claim) THEN claim
    ELSE [proposal |-> p, worker |-> w, until |-> until, token |-> claim.token + 1]

\* claim_next_approved_promotion_v1; its answer may be lost.
ClaimNext(w, p, until) ==
    LET row == ClaimRow(w, p, until) IN
    /\ until > now
    /\ First(w, p)
    /\ row.until = until
    /\ row.token <= MaxToken
    /\ claims' = [claims EXCEPT ![ApprovalOf(p)] = row]
    /\ held' = [held EXCEPT ![w] = row] \/ UNCHANGED held
    /\ UNCHANGED <<registerVars, acks>>

CurrentUnchecked(claim) == TRUE

\* The exact live row of the claim table.
Current(claim) == claims[ApprovalOf(claim.proposal)] = claim /\ Live(claim)

\* acknowledge_approved_promotion_started_v1 with the claim the worker holds;
\* an exact replay changes nothing, any other acknowledgement throws.
AcknowledgeStarted(w, l) ==
    LET claim == held[w] IN
    /\ claim # NoClaim
    /\ acks[ApprovalOf(claim.proposal)] = NoAck
    /\ Current(claim)
    /\ ~Withdrawn(claim.proposal)
    /\ ConsumedFor(claim.proposal, l)
    /\ acks' = [acks EXCEPT ![ApprovalOf(claim.proposal)] =
                    [lineage |-> l, token |-> claim.token]]
    /\ UNCHANGED <<registerVars, claims, held>>

\* A worker process dies; its worker id may come back.
Crash(w) ==
    /\ held[w] # NoClaim
    /\ held' = [held EXCEPT ![w] = NoClaim]
    /\ UNCHANGED <<registerVars, claims, acks>>

LifecycleInit ==
    /\ RegisterInit
    /\ claims = [a \in Approvals |-> NoClaim]
    /\ acks = [a \in Approvals |-> NoAck]
    /\ held = [w \in Workers |-> NoClaim]

Review(p) ==
    \/ RegisterReviewReady(p)
    \/ \E type \in Decisions : Decide(p, type)
    \/ Revoke(p)

Promotion(p) ==
    \/ Invalidate(p)
    \/ \E l \in Lineages : Consume(p, l) \/ Authorize(p, l) \/ Begin(p, l)

Claiming(w) == \E p \in Proposals, until \in 1..(MaxTime + 1) : ClaimNext(w, p, until)

LifecycleNext ==
    \/ \E p \in Proposals : Review(p) \/ Promotion(p)
    \/ \E w \in Workers :
           \/ Claiming(w)
           \/ \E l \in Lineages : AcknowledgeStarted(w, l)
           \/ Crash(w)
    \/ Tick /\ UNCHANGED queue

LifecycleSpec == LifecycleInit /\ [][LifecycleNext]_lifecycleVars

\* Workers keep polling the queue.
FairLifecycleSpec == LifecycleSpec /\ \A w \in Workers : WF_lifecycleVars(Claiming(w))
-----------------------------------------------------------------------------
\* The queue's tables and the workers' claims have their types.
QueueTypeOK ==
    /\ claims \in [Approvals -> Claim \cup {NoClaim}]
    /\ acks \in [Approvals -> [lineage : Lineages, token : 1..MaxToken] \cup {NoAck}]
    /\ held \in [Workers -> Claim \cup {NoClaim}]

LifecycleTypeOK == RegisterTypeOK /\ QueueTypeOK

TerminalTypes == {"APPROVAL_CONSUMED", "APPROVAL_REVOKED", "APPROVAL_INVALIDATED"}

\* The terminal events of an Approval, on whichever aggregate they are.
TerminalEvents(a) ==
    {e \in events : e.type \in TerminalTypes /\ ApprovalOf(inbox[e.key].bytes.proposal) = a}

DecisionEvents(m) ==
    {e \in events : e.type \in Decisions /\ ManifestOf[inbox[e.key].bytes.proposal] = m}

\* An Approval is consumed, revoked or invalidated, and only one of them, however
\* the reviewers and the workers race and retry, and although revocation is
\* recorded on the proposal and the other two on the approval.
OneTerminalEvent ==
    \A a \in Approvals : \A e, f \in TerminalEvents(a) : e = f

\* Of all proposals that carry one manifest, at most one is decided, once.
OneDecisionPerManifest ==
    \A m \in Manifests : \A e, f \in DecisionEvents(m) : e = f

Begun == {e \in events : e.type = "PROMOTION_EXECUTION_BEGAN"}

\* An execution that began, and with it its effect intent, belongs to a proposal
\* that was approved, whose Approval was consumed for exactly this lineage and
\* never withdrawn; an Approval starts one execution at most, and a lineage
\* executes one Approval at most.
ExecutionsAreApproved ==
    /\ \A e \in Begun :
           LET doc == inbox[e.key].bytes IN
           /\ Approved(doc.proposal)
           /\ ConsumedFor(doc.proposal, doc.subject)
           /\ AuthorizedFor(doc.proposal, doc.subject)
           /\ ~Withdrawn(doc.proposal)
    /\ \A e, f \in Begun :
           LET d == inbox[e.key].bytes
               g == inbox[f.key].bytes IN
           ApprovalOf(d.proposal) = ApprovalOf(g.proposal) \/ d.subject = g.subject => e = f
    /\ \A i \in intents : \E e \in Begun : e.key = i.key

\* No two workers hold live claims of one Approval.
OneLiveClaim ==
    \A v, w \in Workers :
        /\ v # w
        /\ held[v] # NoClaim /\ held[w] # NoClaim
        /\ ApprovalOf(held[v].proposal) = ApprovalOf(held[w].proposal)
        => ~(Live(held[v]) /\ Live(held[w]))

\* An acknowledgement names the lineage the Approval was consumed for, and was
\* made under the newest fencing token, which no later claim supersedes.
AcknowledgedUnderNewestFence ==
    \A a \in Approvals : acks[a] # NoAck =>
        /\ acks[a].token = claims[a].token
        /\ ConsumedFor(claims[a].proposal, acks[a].lineage)

\* "A SQL wake-up projection makes approved work visible to the Promotion
\* worker": an approved proposal is claimed unless it ends first.
ApprovedWorkIsOffered ==
    \A p \in Proposals :
        Approved(p) ~> (claims[ApprovalOf(p)] # NoClaim \/ Terminated(p))
-----------------------------------------------------------------------------
\* What the procedure of a command checks before it is committed.
Checked(c) ==
    /\ c.type \in TerminalTypes => Approved(c.bytes.proposal)
    /\ c.type = "PROMOTION_EXECUTION_AUTHORIZED" =>
           ConsumedFor(c.bytes.proposal, c.bytes.subject)
    /\ c.type = "PROMOTION_EXECUTION_BEGAN" =>
           AuthorizedFor(c.bytes.proposal, c.bytes.subject)

\* Every event is the event of a command of the lifecycle, and what the
\* procedure checked before it recorded the event still holds.
EventsAreIssued ==
    \A e \in events : \E c \in Submissions :
        /\ Key(c) = e.key /\ Agg(c) = e.aggregate /\ c.type = e.type
        /\ c.bytes = inbox[e.key].bytes
        /\ Checked(c)

\* Only an execution that begins carries an effect intent.
IntentsAreBegun == \A i \in intents : \E e \in Begun : e.key = i.key

\* The inductive strengthening of the lifecycle's properties of the register.
LifecycleInv == RegisterInv /\ EventsAreIssued /\ IntentsAreBegun

\* The claim a worker holds is its own, and its Approval's row or an older
\* generation of it, which has lapsed.
HeldAreBehind ==
    \A w \in Workers : held[w] # NoClaim =>
        LET row == claims[ApprovalOf(held[w].proposal)] IN
        /\ held[w].worker = w
        /\ held[w].token <= row.token
        /\ held[w].token = row.token => held[w] = row
        /\ held[w].token < row.token => ~Live(held[w])

\* The inductive strengthening of the queue's properties.
QueueInv ==
    /\ QueueTypeOK
    /\ \A a \in Approvals : claims[a] # NoClaim => ApprovalOf(claims[a].proposal) = a
    /\ HeldAreBehind
    /\ AcknowledgedUnderNewestFence
=============================================================================
