# A TLA+ verification of the AskLegal pipeline's authority and effect boundaries

AskLegal's pipeline watches legal sources, captures evidence, prepares search
records, has a frozen package reviewed by a person, and promotes the approved
package into the serving index. Its promise is about authority and exactness:
nothing reaches production that was not approved, an Approval is spent once, an
outside effect happens at most once, interrupted work is resumed and not redone,
and what was promised is eventually done. Two installations keep that promise: one
on stored procedures of a SQL Server database, the *management register*, and a local
one on files under locks, a memory-only task scheduler and a vector store. This
project models the stateful core of both, checks it with TLC and proves its main
properties with TLAPS.

Paths are relative to the repository; `migrations/` stands for
`packages/management-register-adapter/migrations/`, `store.py` for
`packages/management-register-adapter/src/asklegal_management_register/store.py`,
and `promotion-worker/`, `review-api/`, `control-plane/`, `acquisition-worker/` for
the package directories of the applications of that name under `apps/`.

## 1. Inventory

| Component | State it keeps | Operations | Interacts with | What makes it correct |
|---|---|---|---|---|
| Command protocol (`migrations/000002`, 001–003, 008) | command inbox, aggregate versions, events, single winners, effect intents, projection checkpoint | commit, resolve (replay), rebuild | every service, through `store.py` | one result per command; facts and result together or not at all; dense versions; one winner per key |
| Effect handoff (`migrations/000002`, 004–007, `000009`) | claim with lease and fencing token, attempts, receipts | claim, read back, renew, append attempt, record receipt | effect handler | at most one effect; receipts fenced and backed by an attempt; every open intent resolved |
| Registered effect handler (`promotion-worker/registered_effect_handler.py`) | locals of `handle_next` | one call drives claim to receipt | handoff, authority and capability sources, effect port | as above, whatever dies in between |
| Review and approval lifecycle (`migrations/000003`–`000008`; `governance.py`, `registered_approval.py`, `registered_execution*.py`, `proposal.py`) | events of proposals, approvals, lineages | ready, decide, revoke, consume, invalidate, authorize, begin | command protocol | one decision per manifest; one terminal event per Approval; executions only of approved, consumed, unwithdrawn work |
| Approved-promotion queue (`migrations/000010`) | leased claims, acknowledgements | claim next, acknowledge started | approval lifecycle, workers | one live holder; acknowledgement under the newest token; approved work is offered |
| Serving state (`migrations/000011`, `store.py`) | current row, ledger of transitions | activate, roll back, read | promotion workers | compare-and-set against the base; exact replay; rollback only of the last transition |
| Promotion dispatch (`promotion-worker/v1_service.py`) | retry record per lineage, recovery authorities and their receipts | scan: observe, reconcile, reserve, request | task scheduler, triggers | one request per attempt; no restart of a terminated generation without authority; final records stay |
| Promotion execution (`promotion-worker/service.py`, `v1_execution.py`, `promotion_evidence.py`) | target index, backups, completion evidence, failure stop | preflight, consume, create, upsert, verify, activate, roll back, evidence | serving state file, vector store, approval ledger | never serve an unbacked target; lost acknowledgements reconciled; an activation gets its evidence |
| Serving state file (`promotion-worker/local_serving_state.py`) | one document: active state, last activation, last rollback | activate, rollback, restore | execution, drill | a rolled back activation is not replayed |
| Rollback and restoration drill (`tools/hk_v1_serving_state_transition.py`) | plan, report | plan, roll back, restore, report | serving state file | what it rolled back is restored |
| Local approval ledger (`review-api/api.py`, `registered_proposals.py`, `promotion-worker/local_approval.py`) | ledger file, archive, trigger files, each process's memory and the package it has adopted | load, adopt, record decision, revoke, consume, repair triggers | reviewers, worker, legal processing, which publishes packages | nothing acknowledged is undone; an approval leads to a trigger |
| Live schedule (`control-plane/v1_schedule.py`, `main.py`) | commands with root and attempt, owner of each group | reconcile, retry, release, promote, claim, dispatch | timers, task scheduler | the file always loads; one cycle of a group at a time; a retained slot that is not refused is carried out |
| Acquisition journal and runner (`acquisition-worker/acquisition_journal.py`, `resumable_acquisition.py`, `hk_cases_acquisition.py`) | hash-chained entries, queues, budgets, host gates | open, append, append many, replay, run, resume, report | connectors, vault | each append legal; budgets and pacing over all runs; nothing requested twice |
| Everything else (section 7) | see `PROJECT.json` | | | |

What is hard about it:

* **Concurrency.** Several workers, threads of one worker with the same claimant id,
  review processes, timers and an operator's tool act on the same rows and files. Locks
  and transactions cover single calls, not the sequences of calls that a decision takes.
* **Failure.** A process may die between any two calls; the answer of a committed call
  may be lost and the call repeated; a request may be lost or arrive after it was given
  up; a memory-only scheduler forgets.
* **Time.** Leases, deadlines, effect windows and authorities lapse while somebody relies
  on them.
* **Stale knowledge.** What was read under a lock is used after it was released.

`PROJECT.json` lists each place as a hazard, with the properties that watch it.

## 2. Modules

| Module | Stands for |
|---|---|
| `EffectHandoff` | effect handoff and `RegisteredEffectHandler.handle_next` |
| `CommandRegister`, `VersionedLog` | the command protocol; the abstract log it implements |
| `ApprovalLifecycle` | lifecycle procedures and queue; `EXTENDS CommandRegister` and commits through its `Commit` |
| `ServingState`, `ActiveState` | serving state in SQL with the workers that cut over; the abstract history it implements |
| `PromotionDispatch` | `dispatch_pending_promotions` |
| `FileServingState`, `PromotionExecution` | the file's operations as functions; promotion activity and drill, which share it |
| `ApprovalLedger` | the ledger file, its archive and triggers |
| `LiveSchedule` | timers, schedule state and scheduler |
| `AcquisitionJournal`, `AcquisitionCycle` | the lifecycle of journal entries; the resumable runner over it |
| `*Proofs` | the theorems, one module per component; `ApprovalLifecycleProofs` holds those of `CommandRegister` too |
| `MC*` and `.cfg` | instances for TLC |

Definitions named like another with a suffix (`RecordedNever`, `ActivateByState`,
`OrphansAtOnce`, ...) and a comment "Mutant of" stand before the definition they vary.
Each is a plausible mistake in that code, and replacing the definition by it makes TLC
report the property `PROJECT.json` pairs with it.

### EffectHandoff

`claim`, `attempt`, `receipt` are the tables `effect_claim_current`,
`effect_attempt_fact` and `effect_receipt_fact`, one row per intent. `pc`, `task`,
`fence`, `prior`, `outcome` are the program point and the locals of each
`handle_next` call: one step per database or port call, in the code's order
(list a candidate, claim, read back, check authority, then cancel, reconcile, or
renew, append, perform and record). `current` is what the authority and capability
sources would answer; it may change at any time. `performed` counts the effect at
its destination.

* `claim_effect_v1` and `record_effect_receipt_v1` are SERIALIZABLE and are one
  action each. `append_effect_attempt_v1` is two, its fence check and its insert.
  The candidate list is read without a lock and is an action of its own.
* A lease is a Boolean `live`, a deadline a Boolean `open`: the code only ever
  compares them with the present.
* A live claim of the same `claimant_id` is returned with the same token, so two
  threads of one worker can hold one token. The run has such a pair.
* The effect port is a protocol with test doubles only and therefore external: it
  reports SUCCEEDED only of an effect that happened, FAILED_FINAL only of one it
  did not find, and may always report OUTCOME_UNKNOWN or raise.
* An exception from any call, or the death of the process, is `Abandon`.

### CommandRegister and VersionedLog

`inbox`, `version`, `events`, `winner`, `intents`, `checkpoint` are the tables of
migration 000002. A *submission* is one argument list of `commit_command_v1`; the
bytes of a command stand for its fingerprint as well. `ResultCode` keeps the
procedure's order of tests (caller, expiry, version, winner key, guard). A
submission whose event or intent id is taken hits a unique index and rolls back, so
it is not a step. `Acknowledge` loses or delivers the answer; `answers` remembers
all delivered ones. `rebuild_projection_v1` is two actions, since commits may fall
between its COUNT and its SELECT TOP (1). `recorded_at` is abstracted to the order
of recording, `at`; equal time stamps are therefore not distinguished.

`VersionedLog` says what all this is for: every aggregate is an append-only log of
commands and every command is decided once. The refinement mapping reads the log
of an aggregate off its events, by version.

### ApprovalLifecycle

Each stored procedure is one SERIALIZABLE transaction around `commit_command_v1`
and one action: its checks are the guard, `Commit` of `CommandRegister` the rest,
so replay, expiry, version and winner conflicts are those of the command protocol.
A failed check throws and is not a step. Ids that the code derives by hashing a
canonical document are that document (`Document`), so equal ids mean equal content.
One Approval per manifest, as `_stable_id("apr", manifest, fingerprint, ...)` makes it.

The services decide whether the reviewer, the base state and the manifest's
predicates are current from sources outside the register; the model lets a worker
consume or invalidate whenever the register admits it. What the services read from
the register beforehand is append-only.

`claims`, `acks` and `held` are the queue's two tables and the claim each worker
was last given. The generation and the fencing token of a claim advance together and
are one number. `ClaimNext` may lose its answer; `Crash` forgets the worker's claim.
`DecisionKeys` keeps the one datum of the decision document that the queue's WHERE
clause tests beyond its content: its number of JSON keys. The clause on the
manifest's `valid_from` is left out, since a decision is recorded only after it.

### ServingState and ActiveState

`facts` and `current` are the ledger and the singleton row of migration 000011; `lin`
and `pc` a worker's lineage and its place in `_activate_and_verify`. Both procedures
hold UPDLOCK on the row in a SERIALIZABLE transaction and are one action each; what
throws is not a step. A receipt id hashes its material and is that material. An answer
may be lost after the commit (the adapter raises), a worker may start over with nothing
but the register, and a rollback may come from another caller. `ActiveState` is the
decision of ADR 0009: a history of compare-and-set events and a state derived from it.

### PromotionDispatch

`rec`, `lock`, `granted`, `lapsed`, `consumed` are the retry record of one lineage, its
file lock and its recovery authorities; `sched`, `gens`, `inflight` the external
scheduler; `at` is where each dispatcher is in its scan and what it read there. The
observation, the locked decision, the reservation, the request and the settlement are
separate steps, since the lock is free between the reservation and the request. Requests
arrive, arrive late or are lost, answered or not; the scheduler may forget its instances;
dispatchers die and the kernel frees their lock. Lineages share no record, so one is
modelled. `calls`, `overrode`, `completed` are history variables.

### FileServingState and PromotionExecution

The file's three operations run under its lock and replace it atomically; they are
functions from a document to a result and a document. An attempt (`at`) is one delivery
of the activity by a fresh service, from preflight to evidence or failure stop, a step
per outside call: `approval` is the ledger, `target` and `pending` the vector store with
upserts still on their way, `backups`, `complete`, `failure` the retained files, `closed`
the effect window. A lost acknowledgement leads to the enumeration of the target, an
upsert given up may arrive later, a repeated embedding may differ. `drill` and `plans`
are the operator's tool, which may be killed at each of its steps and run again.

### ApprovalLedger

`file`, `archive`, `trigger` are on disk, and so is `current`, the one package that legal
processing has published (`_publish_review_generation`, at any time); `mem` and `loaded` are
what a review process holds since its start and the file whose fingerprint it remembers;
`held` is the package it has adopted (`_refresh`), `doing` the call in progress. A decision
needs a process that holds the current package (`Shown`); one that holds another serves
nothing until it is restarted. An approval is archive, ledger, trigger, in that order and
each a step; a step may fail, the process die or a package be published before it. The
archive is copied from whatever is current by then and compared afterwards, so a copy of
the wrong package (`spoiled`) stays and refuses the proposal from then on. A start restores
every event (`Restorable`): an approval against its archive or the current package, a
rejection against the current package alone, and is refused otherwise. The worker's
consumption re-reads the file under its lock and is one action. `told` records what was
acknowledged.

### LiveSchedule

`retained` and `active` are the state file; `running`, `failed`, `done` the scheduler;
`at`, `cmd`, `todo`, `out` a timer's process, which reconciles, claims its slot and
dispatches. Each store call is one action under the file's lock; each question to the
scheduler is another, so several timers work from snapshots. Timers are killed,
attempts fail and are retried, and the scheduler forgets.

What becomes of an attempt depends on two more things. A release changes the coverage
matrix (`Redeploy`); a root keeps the matrix it was claimed under over all retries, and
`start_hk_v1_due_cycle`, like the maintenance activities, refuses it under another one,
unless the instance has that activity behind it (`admitted`). And all attempts of a root
work on one cycle, with one id, one journal and one manifest, so an attempt that falls short
may leave a stop behind that is final (`stopped`). `Succeed` is possible only without
either, `Refuse` only with one of them.

### AcquisitionJournal and AcquisitionCycle

`AcquisitionJournal` defines which entry may follow which history (`Accepts`).
`AcquisitionCycle` is `run()` step by step: opening, the relationship batch, discovery,
profile, imports, retained stops, orphaned starts, exhausted retries, then the loop that
admits, hands out, marks, retains and accounts attempts, and the report. `journal` alone
(and `torn`, a last file cut short) survives a death; `requests` is what was really asked
of the hosts. A request and its marker are separate, because the coordinator hears of a
request only when it returned.

## 3. Runs

| Run | Instance | Shows |
|---|---|---|
| `effect` | 3 handlers, 2 sharing a claimant, 1 intent, tokens to 3, disruptions under token 1; 234,640 states | `AtMostOncePerformed`, `ReceiptUnderNewestFence`, `OneEffectInFlight`, `ReceiptEventually` |
| `register` | 6 commands, 2 applications, 2 aggregates, 2 clock readings; 151,812 states | `AnswersAreFinal`, `OneWinnerPerKey`, `CheckpointCovered`, refinement `ImplementsLog` |
| `approval` | 2 proposals of one manifest, 2 lineages, 2 workers, 2 clock readings; 32,538 states | `OneTerminalEvent`, `OneDecisionPerManifest`, `ExecutionsAreApproved`, `OneLiveClaim`, `AcknowledgedUnderNewestFence`, `ApprovedWorkIsOffered` |
| `approval_hkv1` | 1 proposal with an HK V1 readiness | violation, finding 1 |
| `serving_state` | 2 workers, 4 lineages (one repeated, one rival, one that builds on another), 3 states; 14,531 states | `ReceiptsAreUnique`, `RollbackUndoesNewest`, refinement `ImplementsActiveState` |
| `dispatch` | 2 dispatchers, 2 attempts, 1 death, a forgetful scheduler; 940,421 states | `OneRequestPerAttempt`, `OneRequestOnItsWay`, `OverrideIsAuthorised`, `FinalIsFinal`, `ExpiryIsRetained` |
| `execution` | 2 lineages in sequence, 1 worker, 2 batches, 1 fault, 1 death, a drill; 117,070 states | `ActiveIsBacked`, `RollbackHolds`, `ActivatedIsEvidenced`, `DrillRestores` |
| `ledger` | 2 review processes, 2 proposals, one current at a time, 2 stops, 1 failed write; 294,457 states | `AcknowledgedIsKept`, `TriggerIsBacked`, `AnsweredIsTriggered`, `ApprovedIsTriggered` |
| `ledger_revoke` | the same ledger | violation, finding 2 |
| `schedule` | 2 timers, 2 slots of one group, any two of a failed attempt (with or without a stop), a kill, a loss and a release; 528,903 states | `StateLoads`, `OneCycleRuns`, `ReleasedIsDone`, `RetainedIsCarriedOut` |
| `acquisition` | 2 items, one imported, one that needs it, 1 relationship, 1 host, 2 starts, 2 deaths; 669,408 states | `TypeOK`, `AppendsAreLegal`, `BudgetHolds`, `HostsArePaced`, `NothingIsRepeated`, `CycleIsDecided` |
| `acquisition_relations` | the same cycle | violation, finding 3 |

Type invariants are proved (section 5) and not run again, except that of
`AcquisitionCycle`, whose entries and queues are rebuilt from each other after a death.

**Bounds.**
`MaxToken` bounds fencing tokens; two tokens give one takeover, which is what a stale
holder needs. `Disruptions` bounds the token under which calls die or leases lapse under
a running call. It is smaller than `MaxToken`, because `ReceiptEventually` is about a
system that is eventually left alone: none finishes if every call dies for ever.
`MaxTime` bounds the clock: the register needs a moment before and one at the expiry of a
command, the queue one claim, its expiry and a takeover. The six commands of
`MCCommandRegister` are one for each conflict the protocol knows: same id with other
bytes, same winner key from another aggregate, same expected version, same event id,
foreign caller and guard rejection. Intents and dispatch lineages share no state but the
order in which they are listed, so one is run. `Ceiling` 2 gives a first attempt and a
retry whose request may overlap the first one's late arrival. Two batches give a lost
batch before and after an acknowledged one. `MaxStops`, `MaxFaults`, `MaxCrashes`,
`MaxFailures`, `MaxAborts`, `MaxLosses` and `MaxReleases` bound how often something goes
wrong, and `MaxTroubles` the failures, kills, losses and releases of the schedule together, so
that every two of them meet. A root that is refused is retried for ever; `MaxAttempts` stops
counting at the second retry, whose instance is left as it is: what the property says of such
a root is that it blocks its group, and a third refusal adds nothing. Two deaths of a cycle
give a resumed run that is itself interrupted. `MaxStarts` and `MaxRetained` are budgets of
the code; the run exhausts the first, while its two items never reach the second. The
theorems hold for every value of these bounds.

What the instances do not reach: the queue of `ApprovalLifecycle` has one manifest and so one
row, and the order in which `claim_next_approved_promotion_v1` offers several is not
exercised. `AcquisitionCycle` has one item to ask for at a time beside the imported one, so
two flights at once, and a full `MaxRetained`, are covered by `HostsPaced`, `BudgetsHold`
and `NothingRepeated`, which hold for any items, and not by the run. `OneCycleRuns` is about
a scheduler that has lost nothing; what happens after a loss is `LiveSchedule_replay.cfg`
(section 4).

Two deliveries of a promotion at the same time exceed the time for a run with liveness.
`PromotionExecution_pair.cfg` runs them for safety (752,369 states under symmetry of the
workers, no error), and `ExecSafe` and `RollbackStays` prove it for any number.

**Deadlock** is not checked for `ApprovalLifecycle`, `ApprovalLedger` and
`PromotionExecution`: a command is issued once, a proposal is decided once, a lineage is
promoted once, so a finished history has nothing left to do.

**Fairness** is weak fairness throughout.

* `EffectHandoff`: every handler keeps taking the steps of `handle_next` (workers poll for
  ever), and a lease that may expire does. Nothing is asked of `Abandon`, the deadline or
  the authority.
* `ApprovalLifecycle`: each worker keeps polling the queue. Reviewers, consumption and
  the clock are not fair.
* `PromotionDispatch`: the scan repeats every second; a deadline is a point in time; a
  worker runs what it is given to an end. Requests may be lost for ever.
* `PromotionExecution`: an attempt and a drill that are not killed go on; the scheduler
  delivers a lineage again and the operator runs an interrupted drill again, as its
  procedure demands.
* `ApprovalLedger`: a call and a start that were begun go on, and a process that is down is
  started again by its service manager. Weak fairness of `Start` asks for a start only while
  the ledger can be restored; no package has to be published for that, and no caller has to
  call, or to repeat a call. `ApprovedIsTriggered` holds all the same: a rejection can be
  written only by a process that has loaded, and so made good, every earlier approval, and an
  approval that is still without its trigger keeps its archive.
* `LiveSchedule`: a process that is not killed goes on, some timer fires again and again,
  an instance comes to an end. The end is a success, a refusal or a failure, whichever the
  matrix and the cycle allow; after at most `MaxFailures` attempts that fall short, one that
  is not refused succeeds. `RetainedIsCarriedOut` claims a success only of a slot whose group
  is not, from some point on, for ever owned by a refused root.
* `AcquisitionCycle`: the schedule starts the cycle again until it is done, a process that
  is not killed goes on, a request returns, time passes.

## 4. What disagrees with the documents

Three disagreements are runs of the project:

1. **Approved HK V1 work is never offered** (`approval_hkv1`). The approval of a
   proposal with an HK V1 readiness has fifteen keys (`governance.py` adds
   `review_readiness_fingerprint`), and `claim_next_approved_promotion_v1` admits
   decisions with exactly fourteen.
2. **A consumed approval can be revoked, and the ledger is then unreadable**
   (`ledger_revoke`). `revoke` tests only that the approval is not revoked. A process
   started after the consumption writes the state REVOKED with a lineage, which
   `_load_state` and the worker's loader both refuse from then on. Its caller promises to
   "revoke one exact unconsumed registered Approval".
3. **A relationship interrupted between its two entries is requested**
   (`acquisition_relations`). `_account_relationship_work` skips every work item the
   journal knows, also one that a death left DISCOVERED and not excluded. Its docstring
   promises "a durable, hash-bound terminal disposition" to every relationship.

Others were met while modelling. Each has a configuration that checks the one property
and shows the behaviour; none is needed for the claims above.

| Configuration | Property | What the code does | What is written |
|---|---|---|---|
| `EffectHandoff_cancel.cfg` | `CancelledBeforeEffect` | `record_effect_receipt_v1` admits a cancellation while no attempt is recorded, and `append_effect_attempt_v1` neither looks for a receipt nor holds a lock between check and insert: a cancelled effect can still be performed | "Current inactive evidence produces a zero-attempt terminal cancellation." (`test_registered_effect_handler.py:430`) |
| `EffectHandoff_withdrawn.cfg` | `StartedEffectResolved` | `handle_next` tests the authority before the prior attempt; a started effect whose authority is withdrawn is cancelled, refused, and never reconciled | "Resolve a prior attempt whose terminal receipt was not recorded." (`registered_effect_handler.py:109`) |
| `ServingState_mismatch.cfg` | `MismatchIsEligibleForRollback` | after a mismatch the worker asks for a rollback, which the procedure refuses exactly because of the mismatch | "One narrow post-activation state mismatch eligible for exact rollback." (`store.py:42`) |
| `PromotionDispatch_consumed.cfg` | `ConsumedBeforeRestart` | the receipt of a recovery authority is written when the restarted generation is observed | "Append one immutable receipt before a TERMINATED generation is restarted." (`v1_service.py:526`) |
| `PromotionExecution_stop.cfg` | `StoppedWithoutMove` | the failure stop compares bytes; a state that moved and came back has the same bytes, so an attempt that moved it retains STOPPED_NO_SERVING_STATE_CHANGE | "Persist a failure stop only when the exact Serving State did not move." (`promotion_evidence.py:473`) |
| `PromotionExecution_report.cfg` | `ReportNamesRestoredState` | the drill's report reads the file again after the verification; a promotion activated in between is what it names | "State drift after planning is rejected before rollback or retained success." (`test_hk_v1_serving_state_transition.py:229`) |
| `LiveSchedule_race.cfg` | `DeliveredIsRetained` | of two timers that see the same root COMPLETED, the second fails in `mark_terminal` before it claims its slot | "A second different slot is coalesced or refused ... according to the retained schedule result." (`HK_V1_TWO_FAMILY_LOCAL_OPERATOR.md:40`) |
| `LiveSchedule_replay.cfg` | `NeverCompeting` | repeating a finished slot after the scheduler forgot it runs it again beside the active root | "it must not create a competing baseline" (same runbook, line 39) |
| `ApprovalLedger_rejected.cfg` | `RestartSafe` | a rejection is restored against the current package only (`api.py` 889-893, 967): once another package is published no review process starts again, and one that is up refuses the new package (`registered_proposals.py` 680-685) | "Open one restart-safe local ledger at an explicit retained path." (`review-api/api.py:650`) |
| `AcquisitionCycle_debit.cfg` | `ReportChargesRequests` | a run that ends on a retained stop reports before it accounts the start of a worker that died with its request | "An unobserved worker may have called transport and must retain its full debit." (`test_resumable_acquisition.py:1549`) |
| `AcquisitionCycle_torn.cfg` | `InterruptedIsResumed` | an entry is written in place; a death within the write leaves a partial file, and every replay refuses the journal | "enqueueing the same slot resumes the same cycle ID and journal head" (same runbook, line 38) |

One more behaviour contradicts no document, but an operator should know it. A root whose
matrix is no longer the deployed one, or whose cycle has retained a stop, fails every
attempt, is retried at every delivery, and keeps its group: the slots that wait behind it
are never carried out, nor is a new one of the group. `RetainedIsCarriedOut` says that this
is the only way in which a retained slot is left undone.

## 5. What is proved

Eight modules hold the proofs. All theorems hold for every value of the constants that
satisfies the named assumptions, which say that functions have their domains, bounds are
numbers, null values are none of the proper ones, calls with the same id and bytes name
the same winner key (it is computed from the bytes), a lineage moves the state it
replaces, and a cycle has an item and finitely many relationships. Each proof has an inductive invariant, one lemma per action or group of actions,
and the theorems follow from it.

**EffectHandoffProofs.** `HandoffInv` (`HandoffSafety`). That the effect happens at most
once depends on what a handler between its attempt and its effect may rely on, so
`HandoffInv` adds `LeaseRoom` (a live claim has a token), `AttemptsPrecede` (no effect
without an attempt, no attempt under a token never issued) and `CallsOK` (what each
program point knows). It gives `HandoffTypeCorrect`, `EffectAtMostOnce`,
`ReceiptsAreFenced`, `ReceiptsAreBacked`, `EffectsDoNotOverlap`.

**ApprovalLifecycleProofs, the command register.** `RegisterInv` (`RegisterSafety`). Beyond the properties it says
that a command without a result has no row, that an applied command holds its winner key,
that the events are numbered 1..n in the order of recording, and that a running rebuild
counted no more than there are. It gives `RegisterTypeCorrect`, `VersionsAreDense`,
`CommandsAreAtomic`, `ResultsAreFinal`, `WinnersAreUnique`, `CheckpointsAreCovered`.
`RegisterImplementsLog` shows that each transaction appends one command to one log and
decides it, or only decides it, or changes neither; it rests on dense versions, which
make the CHOOSE of the mapping unique. None of this uses a definition or an assumption of
the lifecycle.

**ApprovalLifecycleProofs, the lifecycle.** `LifecycleUsesRegister`: every behaviour of the lifecycle is
one of the command protocol, so `RegisterInv` comes for free. `LifecycleInv` adds that
each event is that of one of the lifecycle's commands and that what its procedure checked
still holds, and that every intent belongs to an execution that began. It gives
`ApprovalsEndOnce`, `ManifestsAreDecidedOnce` and `OnlyApprovedExecutions`. For the queue,
`QueueInv` adds `HeldAreBehind`: what a worker holds is the row or an older generation
that has lapsed, so an acknowledgement that passes the row's checks is the newest one. It
gives `LifecycleTypeCorrect`, `LiveClaimsAreOne`, `AcknowledgementsAreFenced`.

**ServingStateProofs.** `ServingInv` (`ServingSafe`) adds that each fact is the activation
or the rollback of its lineage (`FactsOfLineages`) and that a worker about to roll back has
been overtaken (`Overtaken`). It gives `TypeCorrect`, `CurrentFollowsLedger`,
`RecordedOnce`, `NewestUndone`, `OutcomesRecorded`, `LateRollbackHarmless` and the
refinement `RegisterImplementsActiveState`.

**PromotionDispatchProofs.** `DispatchInv` (`DispatchSafe`): the holder of the lock is
inside the locked part (`HolderIsInside`), it reserves on a settled record
(`ReservesTheSettled`), a reservation carried to the request is counted, unspent and
nobody else's (`CarriedIsUnspent`, `SpentIsCounted`), a record is under an authority
exactly when its fence restarts a TERMINATED generation (`FenceSaysAuthority`), and nobody
sees a completion before there is one. It gives `DispatchTypeCorrect`,
`AttemptsSpentOnce`, `OverridesAuthorised`, `CompletionsTrue`, `FinalStays`.
That a second request waits for the first (`RequestsOneByOne`) is about what nobody can
know yet. `WayInv`, inductive over `DispatchInv`, says that a request on its way is that
of the newest reservation (`WayIsNewest`), that until it has arrived the scheduler shows
what the reservation was made against, or nothing (`UndecidedIsStill`), and that what a
dispatcher saw earlier is still good for the decision it leads to (`KnowsTheWay`).

**PromotionExecutionProofs.** `ExecInv` (`ExecSafe`): what an attempt has collected at its
step is there (`AttemptsAreBacked`), and no step takes any of it away (`Grows`), also not
that of another delivery; the lineage the file names is backed whether in force or rolled
back (`ActIsBacked`), which a restoration needs. It gives `ExecTypeCorrect`,
`ActiveBacked`, `BatchesThere` and the action property `RollbackStays`.

**ApprovalLedgerProofs.** `LedgerInv` (`LedgerSafe`): what a process remembers is
what it loaded or wrote last, and every approval in it is in the file (`MemoryIsBehind`); an
approval in progress is archived before the ledger is replaced and in the ledger afterwards
(`CallsAreBacked`), whatever was published in between (`Retained`, `ArchiveGrows`); a process that is down has no call in progress. `LedgerMoves` says how an entry
of the file may change in a step. It gives `LedgerTypeCorrect`, `AcknowledgedKept`,
`TriggersBacked`, `AnsweredTriggered`.

**LiveScheduleProofs.** `ScheduleInv` (`ScheduleSafe`): the file's own invariant
(`FileInv`: one owner per group, roots own themselves, `StateLoads`), instances in one
state, releases only of what was seen to succeed, and, while nothing was lost (`Kept`), that
what a timer is about to do concerns the current attempt or one the scheduler knows. It
gives `ScheduleTypeCorrect`, `FileAlwaysLoads`, `ReleasedDone`, `OneCycle`.

**AcquisitionCycleProofs.** `CycleInv` (`CycleSafe`). What a resumed run does depends on
the journal alone, so the invariant begins with what the journal means (`JournalOK`): the
state of an item is the last word on its attempts, no entry is about a later attempt, an
open start has no outcome yet, and a retryable outcome has its marker. `ScopeInv`,
`BatchInv` and `PhaseInv` say what each step of the opening has made sure of, also when a
death fell inside the relationship batch; `PendingInv` and `FlightsInv` tie queue and
workers to the journal. Two facts carry the main results. A request is *debited*: its
start is open, or charged by its marker or outcome, and no two requests share a debit, so
`DebitsHold` bounds the requests of all runs together, and the loop may add a start only
because every open start is that of a flight it counts (`StartsHold`). A request is
*covered*: by an entry whose floor keeps its host closed, or because its start is open
and unmarked, so that the next run has to close it with a floor that does
(`RequestsPaced`). A marker and an interruption carry such a floor, and a failed admission,
the one entry that takes away a cover and a debit without, closes only starts that made no
request (`CoverKeeps`, `DebitsMove`). It gives `CycleTypes`, `AppendsLegal`, `BudgetsHold`,
`HostsPaced` and the action property `NothingRepeated`, for any number of items, hosts,
dependencies and deaths.

**Only model-checked.** Liveness (`ReceiptEventually`, `ApprovedWorkIsOffered`,
`ExpiryIsRetained`, `ActivatedIsEvidenced`, `DrillRestores`, `ApprovedIsTriggered`,
`RetainedIsCarriedOut`, `CycleIsDecided`), which the prover does not reach. Every safety
property and every refinement that a passing run checks has its theorem.

## 6. Plan

Done: the register, the handoff, the lifecycle and its queue; serving state, dispatch,
execution, drill, ledger, schedule, acquisition. What is left, in this order:

1. One composition of `ApprovalLedger`, `PromotionDispatch` and `PromotionExecution`; today
   each models what it needs of its neighbours (approvals and consumptions of the ledger,
   deliveries by the scheduler).
2. Runs of journals with several hosts and longer dependencies between items; the theorems
   cover their safety, not that such a cycle is decided.
3. The convergence of the vault rotation, if its administration interface is specified.

## 7. Not modelled

Most of the repository's lines transform documents or inspect files one after the other
and share no state: the rulebook builders, the source execution tools, the legal desks,
parsing and distillation, the boundary checks, the recovery proof, reports and connectors.
A model would repeat the code without an interleaving, a failure or a retry to check, so
they are left out, although they are by far the larger part. Furthermore:

* The evidence vault's write-once guarantee is its storage service's; vault rotation calls
  an administration interface that is not in the repository.
* The durable task adapter is a thin layer over a scheduler whose rules are external; the
  modules that use it let it lose, delay and forget.
* HTTP routing and authentication of the review API change no state beyond the lifecycle
  and the ledger. The bootstrap spike of migration 000001 is superseded.
* Schema validation, fingerprints and canonical JSON: equal bytes stand for equal documents.
* `PromotionExecution`: `retire_exact`, which the V1 effect gate forbids; the content of the
  manifest's and the requests' checks; the parsing of intent files. `Withdraw` is only of
  approvals that are not consumed.
* `LiveSchedule`: the bodies of the due cycle and of the maintenance orchestrations, instances
  that succeed, fall short or are refused. A release that deploys an earlier matrix again.
* `AcquisitionCycle`: validation of payloads and of the profile's drift, the checkpoint
  file (rebuilt from the journal), the construction of the cases cycle's work graph, and an
  exception out of a worker's future beyond the outcomes listed.
* A call in flight at the effect port while a successor reconciles is reached by the model,
  but the repository states no contract for it, so no property is claimed.
