--------------------------- MODULE ApprovalLedger ---------------------------
(***************************************************************************)
(* The approval ledger of the local installation: one file, written by the *)
(* review application (apps/review-api api.py,                             *)
(* LocalRetainedApprovalRegister) and by the promotion worker              *)
(* (apps/promotion-worker local_approval.py).                              *)
(*                                                                         *)
(* The review application keeps the ledger in memory from its start and    *)
(* replaces the whole file, if the file still is what it loaded or wrote   *)
(* last.  The worker re-reads the file under its lock for every            *)
(* consumption.  An approval is recorded in three steps, the archive of    *)
(* its package, the ledger and the trigger of its promotion, and the       *)
(* process may die, or a step fail, between any two.  During a             *)
(* redeployment two processes of the review application may be up.         *)
(*                                                                         *)
(* What is decided on is the package that is current: legal processing     *)
(* publishes one after the other, at any time.  A process adopts the first *)
(* it sees and serves no other, and a rejection is restored against the    *)
(* current package alone.                                                  *)
(*                                                                         *)
(* A proposal is decided once (its winner key), so the ledger is modelled  *)
(* as what it says of each proposal; its approval is named by the proposal.*)
(***************************************************************************)
EXTENDS Naturals, FiniteSets

CONSTANTS
    Proposals,
    Reviewers,        \* processes of the review application
    MaxStops,         \* bound: deaths of review processes
    MaxFaults         \* bound: writes that fail

ASSUME ProposalsAssumption == Proposals # {}
ASSUME BoundsAssumption == MaxStops \in Nat /\ MaxFaults \in Nat

Entries == [state : {"NONE", "REJECTED", "APPROVED", "CONSUMED", "REVOKED"}, lineage : BOOLEAN]
Ledgers == [Proposals -> Entries]
Packages == {{}} \cup {{p} : p \in Proposals}
Blank == [p \in Proposals |-> [state |-> "NONE", lineage |-> FALSE]]

VARIABLES
    file,             \* the ledger file
    current,          \* the published package: none, or that of one proposal
    archive,          \* proposals whose approved package is archived
    spoiled,          \* proposals whose archive holds another package
    trigger,          \* proposals whose promotion trigger is written
    up,               \* "down", "repair" or "ready", for each review process
    held,             \* the package it has adopted
    mem,              \* the ledger each review process has in memory
    loaded,           \* the ledger whose fingerprint it remembers
    doing,            \* the approval it is recording, and the step it is at
    told,             \* what was acknowledged to the caller, for each proposal
    stops, faults     \* counters of the bounds

packages == <<current, archive, spoiled>>
process == <<up, held, mem, loaded, doing>>
vars == <<file, current, archive, spoiled, trigger, up, held, mem, loaded, doing,
          told, stops, faults>>

Nothing == [step |-> "rest", p |-> CHOOSE p \in Proposals : TRUE]
Resting(r) == up[r] = "ready" /\ doing[r] = Nothing

\* detail: the proposal of the package this process holds, which is still the
\* published one; any other call is refused.
Shown(r, p) == held[r] = {p} /\ current = {p}
Goto(r, step, p) == doing' = [doing EXCEPT ![r] = [step |-> step, p |-> p]]
Rest(r) == doing' = [doing EXCEPT ![r] = Nothing]
Tell(p, what) == told' = [told EXCEPT ![p] = @ \cup {what}]

Decided(l, p) == l[p].state # "NONE"
Rejections(l) == {p \in Proposals : l[p].state = "REJECTED"}
Approvals(l) == {p \in Proposals : l[p].state \in {"APPROVED", "CONSUMED", "REVOKED"}}

\* What both loaders refuse: a lineage on anything but a consumed approval.
Readable(l) == \A p \in Proposals : l[p].lineage <=> l[p].state = "CONSUMED"

\* Mutant of Unchanged: the file is replaced whatever it holds.
UnchangedAssumed(r) == TRUE

\* _persist: the file is still the one this process loaded or wrote.
Unchanged(r) == file = loaded[r]

-----------------------------------------------------------------------------
(* The review application. *)

\* _refresh: a process that came up before the first package adopts the one
\* that is there when it is asked; one that holds a package adopts no other.
Adopt(r) ==
    /\ up[r] = "ready"
    /\ held[r] = {} /\ current # {}
    /\ held' = [held EXCEPT ![r] = current]
    /\ UNCHANGED <<file, packages, trigger, up, mem, loaded, doing, told, stops, faults>>

\* record_event of a rejection: memory, then the file, or neither.
Reject(r, p) ==
    /\ Resting(r) /\ Shown(r, p)
    /\ ~Decided(mem[r], p)
    /\ Unchanged(r)
    /\ file' = [mem[r] EXCEPT ![p].state = "REJECTED"]
    /\ mem' = [mem EXCEPT ![r] = file']
    /\ loaded' = [loaded EXCEPT ![r] = file']
    /\ Tell(p, "REJECTED")
    /\ UNCHANGED <<packages, trigger, up, held, doing, stops, faults>>

\* Mutant of Approve: the package is archived when the ledger is written.
ApproveFirst(r, p) ==
    /\ Resting(r) /\ Shown(r, p)
    /\ ~Decided(mem[r], p)
    /\ Goto(r, "persist", p)
    /\ UNCHANGED <<file, packages, trigger, up, held, mem, loaded, told, stops, faults>>

\* record_event of an approval, up to the archive of its package.
Approve(r, p) ==
    /\ Resting(r) /\ Shown(r, p)
    /\ ~Decided(mem[r], p)
    /\ Goto(r, "archive", p)
    /\ UNCHANGED <<file, packages, trigger, up, held, mem, loaded, told, stops, faults>>

\* _retain_approved_package: an archive that is there is compared, and one that
\* is not is copied from whatever package is current by now, then compared.
Retain(p) ==
    IF p \in archive \cup spoiled THEN UNCHANGED <<archive, spoiled>>
    ELSE IF current = {p} THEN archive' = archive \cup {p} /\ UNCHANGED spoiled
    ELSE spoiled' = spoiled \cup {p} /\ UNCHANGED archive

\* The package is archived, or the comparison fails and memory is restored.
Archive(r) ==
    LET p == doing[r].p IN
    /\ doing[r].step = "archive"
    /\ Retain(p)
    /\ IF p \in archive' THEN Goto(r, "persist", p) ELSE Rest(r)
    /\ UNCHANGED <<file, current, trigger, up, held, mem, loaded, told, stops, faults>>

\* The ledger is replaced; a conflict restores memory and is raised.
Persist(r) ==
    LET p == doing[r].p IN
    /\ doing[r].step = "persist"
    /\ IF Unchanged(r)
       THEN /\ file' = [mem[r] EXCEPT ![p].state = "APPROVED"]
            /\ mem' = [mem EXCEPT ![r] = file']
            /\ loaded' = [loaded EXCEPT ![r] = file']
            /\ Goto(r, "trigger", p)
       ELSE Rest(r) /\ UNCHANGED <<file, mem, loaded>>
    /\ UNCHANGED <<packages, trigger, up, held, told, stops, faults>>

\* The trigger is written and the caller answered, or the write fails.
Trigger(r) ==
    LET p == doing[r].p IN
    /\ doing[r].step = "trigger"
    /\ \/ trigger' = trigger \cup {p} /\ Tell(p, "APPROVED") /\ UNCHANGED faults
       \/ faults < MaxFaults /\ faults' = faults + 1 /\ UNCHANGED <<trigger, told>>
    /\ Rest(r)
    /\ UNCHANGED <<file, packages, up, held, mem, loaded, stops>>

\* Mutant of Repeat: a repeated command has been done.
RepeatAnswered(r, p) ==
    /\ Resting(r) /\ Shown(r, p)
    /\ p \in Approvals(mem[r])
    /\ Tell(p, "APPROVED")
    /\ UNCHANGED <<file, packages, trigger, process, stops, faults>>

\* record_event of a command this process has on record: archive and trigger
\* are made good before the caller is answered.
Repeat(r, p) ==
    /\ Resting(r) /\ Shown(r, p)
    /\ p \in Approvals(mem[r])
    /\ Retain(p) /\ p \in archive'
    /\ trigger' = trigger \cup {p}
    /\ Tell(p, "APPROVED")
    /\ UNCHANGED <<file, current, process, stops, faults>>

\* revoke: of an approval that memory does not hold as revoked, whatever package
\* is current.  The lineage of the entry is kept.
Revoke(r, p) ==
    /\ Resting(r)
    /\ mem[r][p].state \in {"APPROVED", "CONSUMED"}
    /\ Unchanged(r)
    /\ file' = [mem[r] EXCEPT ![p].state = "REVOKED"]
    /\ mem' = [mem EXCEPT ![r] = file']
    /\ loaded' = [loaded EXCEPT ![r] = file']
    /\ Tell(p, "REVOKED")
    /\ UNCHANGED <<packages, trigger, up, held, doing, stops, faults>>

\* _restore_approval of every event: an approval is restored against its archive
\* or the current package, a rejection against the current package alone.
Restorable ==
    /\ Approvals(file) \subseteq archive \cup current
    /\ Rejections(file) \subseteq current

\* A process starts: it adopts the current package and loads the file, or fails.
Start(r) ==
    /\ up[r] = "down"
    /\ Readable(file)
    /\ Restorable
    /\ up' = [up EXCEPT ![r] = "repair"]
    /\ held' = [held EXCEPT ![r] = current]
    /\ mem' = [mem EXCEPT ![r] = file]
    /\ loaded' = [loaded EXCEPT ![r] = file]
    /\ UNCHANGED <<file, packages, trigger, doing, told, stops, faults>>

\* Mutant of Repair: triggers are left to the calls that write them.
RepairNothing(r) ==
    /\ up[r] = "repair"
    /\ up' = [up EXCEPT ![r] = "ready"]
    /\ UNCHANGED <<file, packages, trigger, held, mem, loaded, doing, told, stops, faults>>

\* _reconcile_promotion_triggers: one approval after the other.
Repair(r) ==
    /\ up[r] = "repair"
    /\ \/ \E p \in Approvals(mem[r]) \ trigger :
              /\ Retain(p) /\ p \in archive'
              /\ trigger' = trigger \cup {p}
              /\ UNCHANGED up
       \/ /\ Approvals(mem[r]) \subseteq trigger
          /\ up' = [up EXCEPT ![r] = "ready"]
          /\ UNCHANGED <<trigger, archive, spoiled>>
    /\ UNCHANGED <<file, current, held, mem, loaded, doing, told, stops, faults>>

\* The process dies, or is stopped.
Halt(r) ==
    /\ up[r] # "down"
    /\ stops < MaxStops
    /\ stops' = stops + 1
    /\ up' = [up EXCEPT ![r] = "down"]
    /\ held' = [held EXCEPT ![r] = {}]
    /\ Rest(r)
    /\ UNCHANGED <<file, packages, trigger, mem, loaded, told, faults>>

-----------------------------------------------------------------------------
(* Legal processing and the promotion worker. *)

\* _publish_review_generation: the link to the current generation is replaced,
\* by a new package or, when an activity is delivered again, an earlier one.
Publish(p) ==
    /\ current # {p}
    /\ current' = {p}
    /\ UNCHANGED <<file, archive, spoiled, trigger, process, told, stops, faults>>

\* consume: the ledger is read again under the lock, and the approval bound to
\* the lineage of its trigger.
Consume(p) ==
    /\ p \in trigger /\ p \in archive
    /\ Readable(file)
    /\ file[p].state = "APPROVED"
    /\ file' = [file EXCEPT ![p] = [state |-> "CONSUMED", lineage |-> TRUE]]
    /\ Tell(p, "CONSUMED")
    /\ UNCHANGED <<packages, trigger, process, stops, faults>>

Init ==
    /\ file = Blank
    /\ current = {}
    /\ archive = {} /\ spoiled = {} /\ trigger = {}
    /\ up = [r \in Reviewers |-> "down"]
    /\ held = [r \in Reviewers |-> {}]
    /\ mem = [r \in Reviewers |-> Blank]
    /\ loaded = [r \in Reviewers |-> Blank]
    /\ doing = [r \in Reviewers |-> Nothing]
    /\ told = [p \in Proposals |-> {}]
    /\ stops = 0 /\ faults = 0

Next ==
    \/ \E r \in Reviewers :
          \/ Archive(r) \/ Persist(r) \/ Trigger(r) \/ Adopt(r) \/ Start(r) \/ Repair(r) \/ Halt(r)
          \/ \E p \in Proposals : Reject(r, p) \/ Approve(r, p) \/ Repeat(r, p) \/ Revoke(r, p)
    \/ \E p \in Proposals : Publish(p) \/ Consume(p)

Spec == Init /\ [][Next]_vars

\* A process goes on with a call it has begun and with its start; one that is
\* down is started again whenever the file can be restored.  No caller has to
\* call, or to repeat a call, and no package has to be published.
FairSpec ==
    /\ Spec
    /\ \A r \in Reviewers :
          /\ WF_vars(Archive(r) \/ Persist(r) \/ Trigger(r))
          /\ WF_vars(Start(r))
          /\ WF_vars(Repair(r))

-----------------------------------------------------------------------------
(* Properties. *)

\* Every variable keeps its type.
TypeOK ==
    /\ file \in Ledgers
    /\ current \in Packages /\ held \in [Reviewers -> Packages]
    /\ archive \subseteq Proposals /\ spoiled \subseteq Proposals /\ trigger \subseteq Proposals
    /\ up \in [Reviewers -> {"down", "repair", "ready"}]
    /\ mem \in [Reviewers -> Ledgers] /\ loaded \in [Reviewers -> Ledgers]
    /\ doing \in [Reviewers -> [step : {"rest", "archive", "persist", "trigger"}, p : Proposals]]
    /\ told \in [Proposals -> SUBSET {"REJECTED", "APPROVED", "CONSUMED", "REVOKED"}]
    /\ stops \in 0..MaxStops /\ faults \in 0..MaxFaults

\* api.py, _persist: no write of a process that is behind undoes what another
\* one, or the worker, was told is done.
AcknowledgedIsKept ==
    \A p \in Proposals :
        /\ "REJECTED" \in told[p] => file[p].state = "REJECTED"
        /\ "APPROVED" \in told[p] => file[p].state \in {"APPROVED", "CONSUMED", "REVOKED"}
        /\ "CONSUMED" \in told[p] => file[p].lineage
        /\ "REVOKED" \in told[p] => file[p].state = "REVOKED"

\* api.py, record_event: a trigger is of an approval in the ledger, and the
\* package of every approval in the ledger is archived, so that a start finds it.
TriggerIsBacked ==
    /\ trigger \subseteq Approvals(file)
    /\ Approvals(file) \subseteq archive

\* api.py, record_event: a caller who was told of an approval, by the first call
\* or by a repetition of it, has its trigger.
AnsweredIsTriggered == \A p \in Proposals : "APPROVED" \in told[p] => p \in trigger

\* governance.py, _revoke: an approval that is revoked was not consumed.
RevokedUnconsumed == \A p \in Proposals : file[p].state = "REVOKED" => ~file[p].lineage

\* api.py, LocalRetainedApprovalRegister.__init__, "one restart-safe local
\* ledger": whatever is published after a decision, the next start restores it.
RestartSafe == Readable(file) => Restorable

\* api.py, _reconcile_promotion_triggers: an approval in the ledger gets its
\* trigger, if the process dies before it writes one and is started again.  The
\* start is not refused for want of the current package: a rejection is written
\* only by a process that loaded, and so made good, every earlier approval.  A
\* write of a trigger that failed waits for its caller or the next start.
ApprovedIsTriggered ==
    \A p \in Proposals :
        (file[p].state = "APPROVED") ~>
            (p \in trigger \/ file[p].state # "APPROVED" \/ ~Readable(file) \/ faults > 0)
=============================================================================
