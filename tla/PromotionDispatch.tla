-------------------------- MODULE PromotionDispatch --------------------------
(***************************************************************************)
(* Dispatch of one approved promotion to the durable task scheduler        *)
(* (apps/promotion-worker v1_service.py, dispatch_pending_promotions).     *)
(*                                                                         *)
(* A dispatcher is a process scanning the retained triggers.  It keeps one *)
(* retry record per execution lineage, under an exclusive file lock that   *)
(* the kernel releases when the process dies.  It reserves an attempt in   *)
(* the record (OUTCOME_UNKNOWN) before it asks the scheduler to start it,  *)
(* and learns the outcome only from the generation the scheduler shows:    *)
(* its answer may be lost, its request lost or late.  The scheduler is     *)
(* external, keeps its instances in memory and may lose them; it is asked  *)
(* and answers in steps of its own, so that what it answered may be stale  *)
(* when the record is written.                                             *)
(*                                                                         *)
(* Lineages do not share records; one is modelled.  An observation is the  *)
(* generation (its created_at) and the status, the facts its fingerprint   *)
(* hashes that can differ between two observations of one instance.        *)
(***************************************************************************)
EXTENDS Naturals, FiniteSets

CONSTANTS
    Dispatchers,
    Ceiling,          \* the least attempt_ceiling of the lineage's intents
    Absent,           \* the scheduler shows no instance; there is no record
    NoFence,          \* the empty dispatch_fence
    Nobody,           \* the lock is free
    MayLose,          \* whether the scheduler may lose its instances
    MaxCrashes        \* bound: deaths of dispatchers

ASSUME CeilingAssumption == Ceiling \in Nat \ {0}
ASSUME BoundsAssumption == MaxCrashes \in Nat /\ MayLose \in BOOLEAN
ASSUME NobodyAssumption == Nobody \notin Dispatchers

Running == {"PENDING", "RUNNING"}
Ended == {"COMPLETED", "FAILED", "TERMINATED"}
Observations == [gen : Nat, status : Running \cup Ended]
Final == {"STOPPED", "COMPLETE"}
Phases == {"ACTIVE", "OUTCOME_UNKNOWN", "SETTLED"} \cup Final
Fences == [attempt : 1..Ceiling, seen : Observations \cup {Absent}]
Records == [attempt : 0..Ceiling, fence : Fences \cup {NoFence}, phase : Phases,
            seen : Observations \cup {Absent}, auth : BOOLEAN]
Kinds == {"SCHEDULE", "RESTART"}
Steps == {"idle", "enter", "decide", "reserve", "dispatch", "call", "reconcile", "apply"}
Positions == [step : Steps, late : BOOLEAN, past : SUBSET (1..Ceiling),
              seen : Observations \cup {Absent}, task : Fences \cup {NoFence}]

ASSUME AbsentAssumption == Absent \notin Observations \cup Records
ASSUME NoFenceAssumption == NoFence \notin Fences

VARIABLES
    rec,              \* the retry record
    lock,             \* the holder of the record's lock
    granted, lapsed,  \* attempts with a recovery authority, and with an expired one
    consumed,         \* attempts whose authority has a consumption receipt
    expired,          \* the deadline of the intents has passed
    sched,            \* the instance the scheduler shows
    gens,             \* generations it has started
    inflight,         \* requests it has not received yet
    at,               \* where each dispatcher is in its scan and what it knows there:
                      \* whether the time it read is past the deadline and past which
                      \* authorities, the instance it saw, the reservation it made
    calls,            \* how often each attempt was spent on a request
    overrode,         \* attempts that restarted a TERMINATED generation
    completed,        \* some generation has completed
    crashes           \* counter of the bound

ledger == <<rec, granted, lapsed, consumed>>
scheduler == <<sched, gens, inflight, completed>>
ghosts == <<calls, overrode, crashes>>
vars == <<rec, lock, granted, lapsed, consumed, expired, sched, gens, inflight,
          at, calls, overrode, completed, crashes>>

-----------------------------------------------------------------------------
(* The retry record. *)

PhaseFor(o) ==
    CASE o.status = "COMPLETED" -> "COMPLETE"
      [] o.status \in {"FAILED", "TERMINATED"} -> "SETTLED"
      [] OTHER -> "ACTIVE"

\* The record before any: a first attempt is dispatched like a settled one.
NoAttempt == [attempt |-> 0, fence |-> NoFence, phase |-> "SETTLED", seen |-> Absent, auth |-> FALSE]

Adopted(r, o) == [r EXCEPT !.phase = PhaseFor(o), !.seen = o]

Changed(r, o) == o # Absent /\ o # r.seen

\* _consume_recovery_authority, before the record moves on.
ConsumeFor(r) == consumed' = IF r.auth THEN consumed \cup {r.attempt} ELSE consumed

\* Mutant of AuthorityOf: no authority file is no objection.
AuthorityUnlessLapsed(n, past) ==
    CASE n \in consumed -> "none"
      [] n \in past -> "error"
      [] OTHER -> "valid"

\* _recovery_authority: what the authority files say of an attempt.  A lapsed
\* one is an error, not an absence.
AuthorityOf(n, past) ==
    CASE n \in consumed -> "none"
      [] n \notin granted -> "none"
      [] n \in past -> "error"
      [] OTHER -> "valid"

-----------------------------------------------------------------------------
(* The scan of one dispatcher. *)

Idle == [step |-> "idle", late |-> FALSE, past |-> {}, seen |-> Absent, task |-> NoFence]

Quit(d) == at' = [at EXCEPT ![d] = Idle]
Leave(d) == Quit(d) /\ lock' = Nobody
Goto(d, step) == at' = [at EXCEPT ![d].step = step]

\* The clock is read before the lock is asked for.
Wake(d) ==
    /\ at[d].step = "idle"
    /\ at' = [at EXCEPT ![d] = [Idle EXCEPT !.step = "enter", !.late = expired, !.past = lapsed]]
    /\ UNCHANGED <<ledger, lock, expired, scheduler, ghosts>>

Enter(d) ==
    /\ at[d].step = "enter"
    /\ lock = Nobody
    /\ lock' = d
    /\ at' = [at EXCEPT ![d].step = "decide", ![d].seen = sched]
    /\ UNCHANGED <<ledger, expired, scheduler, ghosts>>

\* Nothing to do: the record is final; or the outcome of a request is open and
\* the scheduler shows nothing new; or a settled generation is gone; or it is
\* not the settled generation on record, which is an error.
LeaveAlone(d) ==
    /\ at[d].step = "decide"
    /\ rec # Absent
    /\ \/ rec.phase \in Final
       \/ rec.phase = "OUTCOME_UNKNOWN" /\ ~Changed(rec, at[d].seen) /\ ~at[d].late
       \/ rec.phase = "SETTLED" /\ at[d].seen = Absent
       \/ rec.phase = "SETTLED" /\ Changed(rec, at[d].seen) /\ PhaseFor(at[d].seen) = "SETTLED"
    /\ Leave(d)
    /\ UNCHANGED <<ledger, expired, scheduler, ghosts>>

\* The deadline passes while the outcome is open.
StopUnknown(d) ==
    /\ at[d].step = "decide"
    /\ rec # Absent /\ rec.phase = "OUTCOME_UNKNOWN" /\ at[d].late
    /\ IF Changed(rec, at[d].seen)
       THEN /\ ConsumeFor(rec)
            /\ rec' = [rec EXCEPT !.phase = "STOPPED", !.seen = at[d].seen]
       ELSE rec' = [rec EXCEPT !.phase = "STOPPED"] /\ UNCHANGED consumed
    /\ Leave(d)
    /\ UNCHANGED <<granted, lapsed, expired, scheduler, ghosts>>

\* The instance on record as active has disappeared.
LoseTrack(d) ==
    /\ at[d].step = "decide"
    /\ rec # Absent /\ rec.phase = "ACTIVE" /\ at[d].seen = Absent
    /\ rec' = [rec EXCEPT !.phase = IF at[d].late THEN "STOPPED" ELSE "OUTCOME_UNKNOWN"]
    /\ Leave(d)
    /\ UNCHANGED <<granted, lapsed, consumed, expired, scheduler, ghosts>>

\* The observation becomes the record, the first one included; a settled
\* generation is then a candidate for another attempt.
Adopt(d) ==
    /\ at[d].step = "decide"
    /\ at[d].seen # Absent
    /\ \/ /\ rec = Absent
          /\ rec' = [Adopted(NoAttempt, at[d].seen) EXCEPT !.attempt = 1]
          /\ UNCHANGED consumed
       \/ /\ rec # Absent
          /\ \/ rec.phase = "OUTCOME_UNKNOWN" /\ Changed(rec, at[d].seen) /\ ~at[d].late
             \/ rec.phase = "ACTIVE"
             \/ rec.phase = "SETTLED" /\ ~(Changed(rec, at[d].seen) /\ PhaseFor(at[d].seen) = "SETTLED")
          /\ rec' = Adopted(rec, at[d].seen)
          /\ IF rec.phase = "OUTCOME_UNKNOWN" THEN ConsumeFor(rec) ELSE UNCHANGED consumed
    /\ IF PhaseFor(at[d].seen) = "SETTLED"
       THEN Goto(d, "reserve") /\ UNCHANGED lock
       ELSE Leave(d)
    /\ UNCHANGED <<granted, lapsed, expired, scheduler, ghosts>>

\* Mutant of FirstAttempt: an instance that is not shown is scheduled again.
FirstOrMissing(d) ==
    /\ at[d].step = "decide"
    /\ at[d].seen = Absent
    /\ IF rec = Absent THEN TRUE ELSE rec.phase = "OUTCOME_UNKNOWN"
    /\ Goto(d, "reserve")
    /\ UNCHANGED <<ledger, lock, expired, scheduler, ghosts>>

FirstAttempt(d) ==
    /\ at[d].step = "decide"
    /\ rec = Absent /\ at[d].seen = Absent
    /\ Goto(d, "reserve")
    /\ UNCHANGED <<ledger, lock, expired, scheduler, ghosts>>

\* Mutant of Settled: an attempt that failed is given back.
SettledUncounted ==
    IF rec = Absent THEN NoAttempt
    ELSE [rec EXCEPT !.attempt = IF @ = 0 THEN 0 ELSE @ - 1]

\* The record, or the one a first attempt starts from.
Settled == IF rec = Absent THEN NoAttempt ELSE rec

NeedsAuthority(o) == o # Absent /\ o.status = "TERMINATED"

\* The record stops, waits for an authority, or reserves the next attempt.
Reserve(d) ==
    LET next == Settled.attempt + 1
        o == at[d].seen
        fence == [attempt |-> next, seen |-> o]
    IN
    /\ at[d].step = "reserve"
    /\ \/ /\ at[d].late \/ Settled.attempt >= Ceiling
          /\ rec' = [Settled EXCEPT !.phase = "STOPPED"]
          /\ Leave(d)
       \/ /\ ~at[d].late /\ Settled.attempt < Ceiling
          /\ NeedsAuthority(o) /\ AuthorityOf(next, at[d].past) # "valid"
          /\ Leave(d) /\ UNCHANGED rec
       \/ /\ ~at[d].late /\ Settled.attempt < Ceiling
          /\ NeedsAuthority(o) => AuthorityOf(next, at[d].past) = "valid"
          /\ rec' = [attempt |-> next, fence |-> fence, phase |-> "OUTCOME_UNKNOWN",
                     seen |-> o, auth |-> NeedsAuthority(o)]
          /\ at' = [at EXCEPT ![d].step = "dispatch", ![d].task = fence]
          /\ lock' = Nobody
    /\ UNCHANGED <<granted, lapsed, consumed, expired, scheduler, ghosts>>

\* Mutant of Reserved: the phase of the record is not looked at.
ReservedFence(d) == rec # Absent /\ rec.fence = at[d].task

Reserved(d) == rec # Absent /\ rec.fence = at[d].task /\ rec.phase = "OUTCOME_UNKNOWN"

\* The reservation, the generation, the deadline and the authority are read
\* again at the dispatch boundary; the lock is kept through the request.
Recheck(d) ==
    /\ at[d].step = "dispatch"
    /\ lock = Nobody
    /\ \/ /\ ~Reserved(d)
          /\ Quit(d) /\ UNCHANGED <<rec, lock>>
       \/ /\ Reserved(d) /\ sched # at[d].task.seen
          /\ Goto(d, "reconcile") /\ UNCHANGED <<rec, lock>>
       \/ /\ Reserved(d) /\ sched = at[d].task.seen
          /\ expired \/ (rec.auth /\ AuthorityOf(rec.attempt, lapsed) = "none")
          /\ rec' = [rec EXCEPT !.phase = "STOPPED"]
          /\ Quit(d) /\ UNCHANGED lock
       \/ /\ Reserved(d) /\ sched = at[d].task.seen /\ ~expired
          /\ rec.auth /\ AuthorityOf(rec.attempt, lapsed) = "error"
          /\ Quit(d) /\ UNCHANGED <<rec, lock>>
       \/ /\ Reserved(d) /\ sched = at[d].task.seen /\ ~expired
          /\ rec.auth => AuthorityOf(rec.attempt, lapsed) = "valid"
          /\ lock' = d /\ Goto(d, "call") /\ UNCHANGED rec
    /\ UNCHANGED <<granted, lapsed, consumed, expired, scheduler, ghosts>>

\* The scheduler receives a request.  It starts a new instance only where
\* there is none and restarts only one that has ended.
Receives(kind) ==
    IF IF kind = "SCHEDULE" THEN sched = Absent ELSE sched # Absent /\ sched.status \in Ended
    THEN gens' = gens + 1 /\ sched' = [gen |-> gens + 1, status |-> "PENDING"]
    ELSE UNCHANGED <<gens, sched>>

\* schedule_new_orchestration or restart_orchestration: the request arrives,
\* whether or not the answer does; or it arrives later; or never.
Call(d) ==
    LET kind == IF at[d].task.seen = Absent THEN "SCHEDULE" ELSE "RESTART" IN
    /\ at[d].step = "call"
    /\ \/ Receives(kind) /\ UNCHANGED inflight
       \/ inflight' = inflight \cup {[attempt |-> at[d].task.attempt, kind |-> kind]}
             /\ UNCHANGED <<gens, sched>>
       \/ UNCHANGED <<gens, sched, inflight>>
    /\ calls' = [calls EXCEPT ![at[d].task.attempt] = @ + 1]
    /\ overrode' = IF NeedsAuthority(at[d].task.seen)
                   THEN overrode \cup {at[d].task.attempt} ELSE overrode
    /\ lock' = Nobody /\ Goto(d, "reconcile")
    /\ UNCHANGED <<ledger, expired, completed, crashes>>

\* _reconcile_dispatch asks the scheduler before it takes the lock ...
ReconcileRead(d) ==
    /\ at[d].step = "reconcile"
    /\ at' = [at EXCEPT ![d].step = "apply", ![d].seen = sched]
    /\ UNCHANGED <<ledger, lock, expired, scheduler, ghosts>>

\* ... and adopts the answer only for its own open reservation.
ReconcileApply(d) ==
    /\ at[d].step = "apply"
    /\ lock = Nobody
    /\ IF Reserved(d) /\ Changed(rec, at[d].seen)
       THEN ConsumeFor(rec) /\ rec' = Adopted(rec, at[d].seen)
       ELSE UNCHANGED <<rec, consumed>>
    /\ Quit(d)
    /\ UNCHANGED <<lock, granted, lapsed, expired, scheduler, ghosts>>

\* Mutant of Crash: the lock outlives its holder.
CrashHolding(d) ==
    /\ at[d].step # "idle"
    /\ crashes < MaxCrashes
    /\ crashes' = crashes + 1
    /\ Quit(d)
    /\ UNCHANGED <<ledger, lock, expired, scheduler, calls, overrode>>

Crash(d) ==
    /\ at[d].step # "idle"
    /\ crashes < MaxCrashes
    /\ crashes' = crashes + 1
    /\ Quit(d)
    /\ lock' = IF lock = d THEN Nobody ELSE lock
    /\ UNCHANGED <<ledger, expired, scheduler, calls, overrode>>

Scan(d) ==
    \/ Wake(d) \/ Enter(d) \/ LeaveAlone(d) \/ StopUnknown(d) \/ LoseTrack(d) \/ Adopt(d)
    \/ FirstAttempt(d) \/ Reserve(d) \/ Recheck(d) \/ Call(d)
    \/ ReconcileRead(d) \/ ReconcileApply(d)

-----------------------------------------------------------------------------
(* The scheduler, the clock and the operator. *)

\* A late request arrives.
Arrive(q) ==
    /\ inflight' = inflight \ {q}
    /\ Receives(q.kind)
    /\ UNCHANGED <<ledger, lock, expired, completed, at, ghosts>>

\* The worker takes the generation up and runs the promotion to an end.
Progress ==
    /\ sched # Absent
    /\ \/ sched.status = "PENDING" /\ sched' = [sched EXCEPT !.status = "RUNNING"]
       \/ sched.status = "RUNNING" /\ \E s \in {"COMPLETED", "FAILED"} :
              sched' = [sched EXCEPT !.status = s]
    /\ completed' = (completed \/ sched'.status = "COMPLETED")
    /\ UNCHANGED <<ledger, lock, expired, gens, inflight, at, ghosts>>

Terminate ==
    /\ sched # Absent /\ sched.status \in Running
    /\ sched' = [sched EXCEPT !.status = "TERMINATED"]
    /\ UNCHANGED <<ledger, lock, expired, gens, inflight, completed, at, ghosts>>

\* A memory-only scheduler restarts.
Lose ==
    /\ MayLose
    /\ sched # Absent
    /\ sched' = Absent
    /\ UNCHANGED <<ledger, lock, expired, gens, inflight, completed, at, ghosts>>

Grant ==
    /\ rec # Absent /\ rec.phase = "SETTLED" /\ rec.attempt < Ceiling
    /\ granted' = granted \cup {rec.attempt + 1}
    /\ UNCHANGED <<rec, lock, lapsed, consumed, expired, scheduler, at, ghosts>>

Lapse ==
    /\ \E n \in granted : lapsed' = lapsed \cup {n}
    /\ UNCHANGED <<rec, lock, granted, consumed, expired, scheduler, at, ghosts>>

Expire ==
    /\ expired' = TRUE
    /\ UNCHANGED <<ledger, lock, scheduler, at, ghosts>>

Init ==
    /\ rec = Absent
    /\ lock = Nobody
    /\ granted = {} /\ lapsed = {} /\ consumed = {}
    /\ expired = FALSE
    \* an instance scheduled before there were retry records may exist
    /\ \/ sched = Absent /\ gens = 0
       \/ sched = [gen |-> 1, status |-> "PENDING"] /\ gens = 1
    /\ inflight = {}
    /\ at = [d \in Dispatchers |-> Idle]
    /\ calls = [n \in 1..Ceiling |-> 0]
    /\ overrode = {}
    /\ completed = FALSE
    /\ crashes = 0

Next ==
    \/ \E d \in Dispatchers : Scan(d) \/ Crash(d)
    \/ \E q \in inflight : Arrive(q)
    \/ Progress \/ Terminate \/ Lose
    \/ Grant \/ Lapse \/ Expire

Spec == Init /\ [][Next]_vars

\* The scan repeats every second in each process; the deadline is a point in
\* time; a worker runs what it is given to an end.
FairSpec ==
    /\ Spec
    /\ \A d \in Dispatchers : WF_vars(Scan(d))
    /\ WF_vars(Expire)
    /\ WF_vars(Progress)

-----------------------------------------------------------------------------
(* Properties. *)

\* The variables have their types.
TypeOK ==
    /\ rec \in Records \cup {Absent}
    /\ lock \in Dispatchers \cup {Nobody}
    /\ granted \subseteq 1..Ceiling /\ lapsed \subseteq granted /\ consumed \subseteq 1..Ceiling
    /\ expired \in BOOLEAN /\ completed \in BOOLEAN
    /\ sched \in Observations \cup {Absent}
    /\ gens \in Nat
    /\ inflight \subseteq [attempt : 1..Ceiling, kind : Kinds]
    /\ at \in [Dispatchers -> Positions]
    /\ calls \in [1..Ceiling -> Nat]
    /\ overrode \subseteq 1..Ceiling
    /\ crashes \in 0..MaxCrashes

\* "The retained attempt fence covers read, decision, and reservation across
\* processes": however dispatchers interleave, die and see stale answers, an
\* attempt is spent on the scheduler at most once and only after the record
\* has counted it, so never more than the intents' attempt ceiling.
OneRequestPerAttempt ==
    \A n \in 1..Ceiling :
        /\ calls[n] <= 1
        /\ calls[n] = 1 => rec # Absent /\ n <= rec.attempt

\* While a request is on its way no other one is made.
OneRequestOnItsWay == Cardinality(inflight) <= 1

\* A TERMINATED generation is restarted only under an authority granted for
\* that very attempt.
OverrideIsAuthorised == overrode \subseteq granted

\* A record says COMPLETE only of a promotion that completed.
CompleteIsTrue == rec # Absent /\ rec.phase = "COMPLETE" => completed

\* A retained stop or completion is not taken back, and an attempt once
\* counted stays counted, whatever a slower dispatcher still writes.
FinalIsFinal ==
    [][/\ rec # Absent /\ rec.phase \in Final => rec' = rec
       /\ rec # Absent => rec' # Absent /\ rec'.attempt >= rec.attempt]_vars

\* "Append one immutable receipt before a TERMINATED generation is restarted":
\* the authority of an attempt is consumed when the attempt restarts one.
ConsumedBeforeRestart == overrode \subseteq consumed

\* "Wall-clock expiry is a retained stop": once the deadline has passed the
\* record becomes final.  The one exception is the early return of
\* dispatch_pending_promotions for a SETTLED record whose instance the scheduler
\* does not know: if a memory-only scheduler forgot it for good, it stays.
ExpiryIsRetained ==
    LET IsFinal == rec # Absent /\ rec.phase \in Final
        Forgotten == rec # Absent /\ rec.phase = "SETTLED" /\ sched = Absent
    IN  expired ~> (IsFinal \/ []Forgotten)
=============================================================================
