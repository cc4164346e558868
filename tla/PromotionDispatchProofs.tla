----------------------- MODULE PromotionDispatchProofs -----------------------
(***************************************************************************)
(* Proofs about PromotionDispatch, for every set of dispatchers, every     *)
(* attempt ceiling and any number of crashes.  DispatchInv is inductive:   *)
(* who holds the lock follows from where the dispatchers are, a record     *)
(* counts every attempt a dispatcher still carries, and no two dispatchers *)
(* carry the same unspent attempt.  WayInv is inductive on top of it: a    *)
(* request on its way belongs to the newest reservation, and until it has  *)
(* arrived nobody can see what another reservation would need.             *)
(***************************************************************************)
EXTENDS PromotionDispatch, FiniteSetTheorems, TLAPS

\* A dispatcher is inside the locked part of its scan exactly when it is the
\* holder of the lock.
HolderIsInside ==
    \A d \in Dispatchers : lock = d <=> at[d].step \in {"decide", "reserve", "call"}

\* The decision to reserve is taken on a record that is settled on what the
\* dispatcher saw, or on no record and no instance.
ReservesTheSettled ==
    \A d \in Dispatchers : at[d].step = "reserve" =>
        IF rec = Absent THEN at[d].seen = Absent
        ELSE rec.phase = "SETTLED" /\ rec.seen = at[d].seen

\* A reservation carried to the dispatch boundary is counted by the record and
\* has not been spent; no two dispatchers carry the same one.
CarriedIsUnspent ==
    \A d \in Dispatchers : at[d].step \in {"dispatch", "call"} =>
        /\ at[d].task # NoFence
        /\ rec # Absent
        /\ at[d].task.attempt <= rec.attempt
        /\ calls[at[d].task.attempt] = 0
        /\ \A e \in Dispatchers \ {d} : at[e].step \in {"dispatch", "call"} =>
               at[e].task.attempt # at[d].task.attempt

\* An attempt spent is counted, and spent once.
SpentIsCounted ==
    \A n \in 1..Ceiling : calls[n] <= 1 /\ (calls[n] = 1 => rec # Absent /\ n <= rec.attempt)

\* A record is under an authority exactly when its fence restarts a TERMINATED
\* generation; at the request the authority has been granted.
FenceSaysAuthority ==
    /\ rec # Absent =>
         /\ rec.fence = NoFence => ~rec.auth
         /\ rec.fence # NoFence => /\ rec.auth = NeedsAuthority(rec.fence.seen)
                                   /\ rec.fence.attempt = rec.attempt
    /\ \A d \in Dispatchers : at[d].step = "call" /\ NeedsAuthority(at[d].task.seen) =>
           at[d].task.attempt \in granted

\* Nobody sees a completion before there is one.
CompletionIsSeen ==
    /\ sched # Absent /\ sched.status = "COMPLETED" => completed
    /\ \A d \in Dispatchers :
           at[d].seen # Absent /\ at[d].seen.status = "COMPLETED" => completed
    /\ rec # Absent /\ rec.phase = "COMPLETE" => completed

DispatchInv ==
    /\ TypeOK
    /\ HolderIsInside
    /\ ReservesTheSettled
    /\ CarriedIsUnspent
    /\ SpentIsCounted
    /\ FenceSaysAuthority
    /\ CompletionIsSeen
    /\ OverrideIsAuthorised

-----------------------------------------------------------------------------
(* What the helpers return. *)

\* A dispatcher that has left is nowhere and knows nothing.
LEMMA IdleType == Idle \in Positions
  BY DEF Idle, Positions, Steps

\* A phase read off an observation is a phase, and COMPLETE only of a completion.
LEMMA PhaseForType ==
  ASSUME NEW o \in Observations
  PROVE  /\ PhaseFor(o) \in {"ACTIVE", "SETTLED", "COMPLETE"}
         /\ PhaseFor(o) = "COMPLETE" <=> o.status = "COMPLETED"
  BY DEF PhaseFor, Observations, Running, Ended

\* What a write of the record keeps, except the reservation of an attempt: the
\* attempts it counts and what they are fenced by.
Keeps == /\ rec' \in Records
         /\ rec # Absent => /\ rec'.attempt = rec.attempt
                            /\ rec'.fence = rec.fence /\ rec'.auth = rec.auth
         /\ rec = Absent => rec'.fence = NoFence /\ ~rec'.auth

\* Moving to another phase is such a write.
LEMMA PhaseMoves ==
  ASSUME TypeOK, rec # Absent, NEW p \in Phases, rec' = [rec EXCEPT !.phase = p]
  PROVE  Keeps /\ rec'.phase = p /\ rec'.seen = rec.seen
  BY DEF TypeOK, Keeps, Records

\* So is moving to what was seen.
LEMMA SightMoves ==
  ASSUME TypeOK, rec # Absent, NEW p \in Phases, NEW o \in Observations,
         rec' = [rec EXCEPT !.phase = p, !.seen = o]
  PROVE  Keeps /\ rec'.phase = p /\ rec'.seen = o
  BY DEF TypeOK, Keeps, Records

\* Such a write consumes at most an authority of a counted attempt.
LEMMA ConsumeType ==
  ASSUME TypeOK, FenceSaysAuthority, rec # Absent, ConsumeFor(rec)
  PROVE  consumed' \subseteq 1..Ceiling
<1>1. rec.auth => rec.attempt \in 1..Ceiling
  BY NoFenceAssumption DEF TypeOK, FenceSaysAuthority, Records, Fences
<1>2. QED
  BY <1>1 DEF TypeOK, ConsumeFor


-----------------------------------------------------------------------------
(* Steps that end a scan. *)

\* Whatever a dispatcher wrote, if it was allowed to write and kept the count,
\* the invariant survives its leaving.
LEMMA ScanEnds ==
  ASSUME DispatchInv, NEW d \in Dispatchers, Quit(d),
         lock' = (IF lock = d THEN Nobody ELSE lock),
         rec' = rec \/ (Keeps /\ lock \in {d, Nobody}),
         rec' # Absent /\ rec'.phase = "COMPLETE" => completed,
         consumed' \subseteq 1..Ceiling, crashes' \in 0..MaxCrashes,
         UNCHANGED <<granted, lapsed, expired, scheduler, calls, overrode>>
  PROVE  DispatchInv'
<1>1. at \in [Dispatchers -> Positions] /\ at' = [at EXCEPT ![d] = Idle]
  BY DEF DispatchInv, TypeOK, Quit
<1>2. at'[d] = Idle /\ \A e \in Dispatchers \ {d} : at'[e] = at[e]
  BY <1>1
<1>3. at' \in [Dispatchers -> Positions]
  BY <1>1, IdleType
<1>4. Idle.step = "idle" /\ Idle.seen = Absent
  BY DEF Idle
<1>5. rec' \in Records \cup {Absent}
  BY DEF DispatchInv, TypeOK, Keeps
<1>6. TypeOK'
  BY <1>3, <1>5, NobodyAssumption DEF DispatchInv, TypeOK, scheduler
<1>7. HolderIsInside'
  BY <1>2, <1>4, NobodyAssumption DEF DispatchInv, HolderIsInside
<1>8. ReservesTheSettled'
  <2> SUFFICES ASSUME NEW e \in Dispatchers, at'[e].step = "reserve"
               PROVE  (IF rec = Absent THEN at[e].seen = Absent
                       ELSE rec.phase = "SETTLED" /\ rec.seen = at[e].seen)'
    BY DEF ReservesTheSettled
  <2>1. e # d /\ at'[e] = at[e]
    BY <1>2, <1>4
  <2>2. lock = e
    BY <2>1 DEF DispatchInv, HolderIsInside
  <2>3. rec' = rec
    BY <2>1, <2>2, NobodyAssumption
  <2>4. QED
    BY <2>1, <2>3 DEF DispatchInv, ReservesTheSettled
<1>9. CarriedIsUnspent'
  <2> SUFFICES ASSUME NEW e \in Dispatchers, at'[e].step \in {"dispatch", "call"}
               PROVE  /\ at'[e].task # NoFence
                      /\ rec' # Absent
                      /\ at'[e].task.attempt <= rec'.attempt
                      /\ calls'[at'[e].task.attempt] = 0
                      /\ \A f \in Dispatchers \ {e} : at'[f].step \in {"dispatch", "call"} =>
                             at'[f].task.attempt # at'[e].task.attempt
    BY DEF CarriedIsUnspent
  <2>1. e # d /\ at'[e] = at[e]
    BY <1>2, <1>4
  <2>2. rec # Absent /\ at[e].task.attempt <= rec.attempt /\ at[e].task # NoFence
           /\ calls[at[e].task.attempt] = 0
    BY <2>1 DEF DispatchInv, CarriedIsUnspent
  <2>3. rec' # Absent /\ rec'.attempt = rec.attempt
    BY <2>2, AbsentAssumption DEF Keeps
  <2>4. \A f \in Dispatchers \ {e} : at'[f].step \in {"dispatch", "call"} =>
            at'[f].task.attempt # at'[e].task.attempt
    BY <1>2, <1>4, <2>1 DEF DispatchInv, CarriedIsUnspent
  <2>5. QED
    BY <2>1, <2>2, <2>3, <2>4
<1>10. SpentIsCounted'
  BY AbsentAssumption DEF DispatchInv, SpentIsCounted, Keeps
<1>11. FenceSaysAuthority'
  BY <1>2, <1>4, AbsentAssumption DEF DispatchInv, FenceSaysAuthority, Keeps
<1>12. CompletionIsSeen'
  BY <1>2, <1>4 DEF DispatchInv, CompletionIsSeen, scheduler
<1>13. OverrideIsAuthorised'
  BY DEF DispatchInv, OverrideIsAuthorised
<1>14. QED
  BY <1>6, <1>7, <1>8, <1>9, <1>10, <1>11, <1>12, <1>13 DEF DispatchInv

\* The record is left as it is.
LEMMA LeaveAloneStep ==
  ASSUME DispatchInv, NEW d \in Dispatchers, LeaveAlone(d)
  PROVE  DispatchInv'
<1>1. lock = d
  BY DEF LeaveAlone, DispatchInv, HolderIsInside
<1>2. QED
  BY <1>1, ScanEnds DEF LeaveAlone, Leave, ledger, ghosts, DispatchInv, TypeOK, CompletionIsSeen

\* The open outcome is stopped.
LEMMA StopUnknownStep ==
  ASSUME DispatchInv, NEW d \in Dispatchers, StopUnknown(d)
  PROVE  DispatchInv'
<1>1. lock = d /\ rec # Absent /\ TypeOK /\ FenceSaysAuthority
  BY DEF StopUnknown, DispatchInv, HolderIsInside
<1>2. Changed(rec, at[d].seen) => at[d].seen \in Observations
  BY <1>1 DEF Changed, TypeOK, Positions
<1>3. "STOPPED" \in Phases
  BY DEF Phases, Final
<1>4. Keeps /\ rec'.phase = "STOPPED"
  BY <1>1, <1>2, <1>3, PhaseMoves, SightMoves DEF StopUnknown
<1>5. consumed' \subseteq 1..Ceiling
  BY <1>1, ConsumeType DEF StopUnknown, TypeOK
<1>6. QED
  BY <1>1, <1>4, <1>5, ScanEnds DEF StopUnknown, Leave, ghosts, TypeOK

\* The lost instance makes the outcome open, or stops it.
LEMMA LoseTrackStep ==
  ASSUME DispatchInv, NEW d \in Dispatchers, LoseTrack(d)
  PROVE  DispatchInv'
<1>1. lock = d /\ rec # Absent /\ TypeOK
  BY DEF LoseTrack, DispatchInv, HolderIsInside
<1>2. PICK p \in {"STOPPED", "OUTCOME_UNKNOWN"} : rec' = [rec EXCEPT !.phase = p]
  BY DEF LoseTrack
<1>3. p \in Phases /\ p # "COMPLETE"
  BY DEF Phases, Final
<1>4. Keeps /\ rec'.phase = p
  BY <1>1, <1>2, <1>3, PhaseMoves
<1>5. QED
  BY <1>1, <1>3, <1>4, ScanEnds DEF LoseTrack, Leave, ghosts, TypeOK

\* A dispatcher may die anywhere.
LEMMA CrashStep ==
  ASSUME DispatchInv, NEW d \in Dispatchers, Crash(d)
  PROVE  DispatchInv'
<1>1. crashes' \in 0..MaxCrashes
  BY BoundsAssumption DEF Crash, DispatchInv, TypeOK
<1>2. consumed' \subseteq 1..Ceiling /\ rec' = rec /\ (rec # Absent /\ rec.phase = "COMPLETE" => completed)
  BY DEF Crash, DispatchInv, TypeOK, CompletionIsSeen, ledger
<1>3. QED
  BY <1>1, <1>2, ScanEnds DEF Crash, ledger

\* The answer is adopted for the open reservation only.
LEMMA ReconcileApplyStep ==
  ASSUME DispatchInv, NEW d \in Dispatchers, ReconcileApply(d)
  PROVE  DispatchInv'
<1>1. lock = Nobody /\ lock' = Nobody /\ TypeOK /\ FenceSaysAuthority
  BY DEF ReconcileApply, DispatchInv
<1>2. CASE Reserved(d) /\ Changed(rec, at[d].seen)
  <2>1. rec # Absent /\ at[d].seen \in Observations
    BY <1>1, <1>2 DEF Reserved, Changed, TypeOK, Positions
  <2>2. PhaseFor(at[d].seen) \in Phases
    BY <2>1, PhaseForType DEF Phases, Final
  <2>3. Keeps /\ rec'.phase = PhaseFor(at[d].seen)
    BY <1>1, <1>2, <2>1, <2>2, SightMoves DEF ReconcileApply, Adopted
  <2>4. rec'.phase = "COMPLETE" => completed
    BY <2>1, <2>3, PhaseForType, AbsentAssumption DEF DispatchInv, CompletionIsSeen
  <2>5. consumed' \subseteq 1..Ceiling
    BY <1>1, <1>2, <2>1, ConsumeType DEF ReconcileApply
  <2>6. QED
    BY <1>1, <2>3, <2>4, <2>5, ScanEnds, NobodyAssumption DEF ReconcileApply, ghosts, TypeOK
<1>3. CASE ~(Reserved(d) /\ Changed(rec, at[d].seen))
  BY <1>1, <1>3, ScanEnds, NobodyAssumption
     DEF ReconcileApply, ghosts, TypeOK, DispatchInv, CompletionIsSeen
<1>4. QED
  BY <1>2, <1>3


-----------------------------------------------------------------------------
(* Steps within a scan. *)

\* A dispatcher that moves on without writing, knowing no more than the
\* scheduler shows.
LEMMA ScanMoves ==
  ASSUME DispatchInv, NEW d \in Dispatchers,
         at' \in [Dispatchers -> Positions],
         \A e \in Dispatchers \ {d} : at'[e] = at[e],
         at'[d].step \in {"enter", "decide", "reserve", "reconcile", "apply"},
         at'[d].seen \in {Absent, sched, at[d].seen},
         lock' = IF at'[d].step \in {"decide", "reserve"} THEN d ELSE lock,
         at'[d].step \in {"decide", "reserve"} => lock \in {d, Nobody},
         at'[d].step \notin {"decide", "reserve"} => lock # d,
         at'[d].step = "reserve" => rec = Absent /\ at'[d].seen = Absent,
         UNCHANGED <<ledger, expired, scheduler, ghosts>>
  PROVE  DispatchInv'
<1>1. TypeOK'
  BY DEF DispatchInv, TypeOK, ledger, scheduler, ghosts
<1>2. HolderIsInside'
  BY NobodyAssumption DEF DispatchInv, HolderIsInside
<1>3. ReservesTheSettled'
  BY DEF DispatchInv, ReservesTheSettled, ledger
<1>4. CarriedIsUnspent'
  <2>1. \A e \in Dispatchers : at'[e].step \in {"dispatch", "call"} => e # d /\ at'[e] = at[e]
    OBVIOUS
  <2>2. QED
    BY <2>1 DEF DispatchInv, CarriedIsUnspent, ledger, ghosts
<1>5. SpentIsCounted'
  BY DEF DispatchInv, SpentIsCounted, ledger, ghosts
<1>6. FenceSaysAuthority'
  BY DEF DispatchInv, FenceSaysAuthority, ledger
<1>7. CompletionIsSeen'
  BY DEF DispatchInv, CompletionIsSeen, ledger, scheduler
<1>8. OverrideIsAuthorised'
  BY DEF DispatchInv, OverrideIsAuthorised, ledger, ghosts
<1>9. QED
  BY <1>1, <1>2, <1>3, <1>4, <1>5, <1>6, <1>7, <1>8 DEF DispatchInv

\* The clock is read.
LEMMA WakeStep ==
  ASSUME DispatchInv, NEW d \in Dispatchers, Wake(d)
  PROVE  DispatchInv'
<1>1. at \in [Dispatchers -> Positions] /\ at' = [at EXCEPT ![d] = [Idle EXCEPT !.step = "enter", !.late = expired, !.past = lapsed]]
  BY DEF DispatchInv, TypeOK, Wake
<1>2. at'[d] \in Positions /\ at'[d].step = "enter" /\ at'[d].seen = Absent
  BY <1>1 DEF Positions, Steps, Idle, DispatchInv, TypeOK
<1>3. at' \in [Dispatchers -> Positions] /\ \A e \in Dispatchers \ {d} : at'[e] = at[e]
  BY <1>1, <1>2
<1>4. QED
  BY <1>2, <1>3, ScanMoves DEF Wake, DispatchInv, HolderIsInside

\* The lock is taken and the scheduler asked.
LEMMA EnterStep ==
  ASSUME DispatchInv, NEW d \in Dispatchers, Enter(d)
  PROVE  DispatchInv'
<1>1. at \in [Dispatchers -> Positions] /\ at' = [at EXCEPT ![d].step = "decide", ![d].seen = sched]
  BY DEF DispatchInv, TypeOK, Enter
<1>2. at'[d] \in Positions /\ at'[d].step = "decide" /\ at'[d].seen = sched
  BY <1>1 DEF Positions, Steps, Idle, DispatchInv, TypeOK
<1>3. at' \in [Dispatchers -> Positions] /\ \A e \in Dispatchers \ {d} : at'[e] = at[e]
  BY <1>1, <1>2
<1>4. QED
  BY <1>2, <1>3, ScanMoves, NobodyAssumption DEF Enter

\* There is no record and no instance.
LEMMA FirstAttemptStep ==
  ASSUME DispatchInv, NEW d \in Dispatchers, FirstAttempt(d)
  PROVE  DispatchInv'
<1>1. at \in [Dispatchers -> Positions] /\ at' = [at EXCEPT ![d].step = "reserve"]
  BY DEF DispatchInv, TypeOK, FirstAttempt, Goto
<1>2. at'[d] \in Positions /\ at'[d].step = "reserve" /\ at'[d].seen = at[d].seen
  BY <1>1 DEF Positions, Steps, Idle, DispatchInv, TypeOK
<1>3. at' \in [Dispatchers -> Positions] /\ \A e \in Dispatchers \ {d} : at'[e] = at[e]
  BY <1>1, <1>2
<1>4. QED
  BY <1>2, <1>3, ScanMoves DEF FirstAttempt, Goto, DispatchInv, HolderIsInside

\* The scheduler is asked for the outcome.
LEMMA ReconcileReadStep ==
  ASSUME DispatchInv, NEW d \in Dispatchers, ReconcileRead(d)
  PROVE  DispatchInv'
<1>1. at \in [Dispatchers -> Positions] /\ at' = [at EXCEPT ![d].step = "apply", ![d].seen = sched]
  BY DEF DispatchInv, TypeOK, ReconcileRead
<1>2. at'[d] \in Positions /\ at'[d].step = "apply" /\ at'[d].seen = sched
  BY <1>1 DEF Positions, Steps, Idle, DispatchInv, TypeOK
<1>3. at' \in [Dispatchers -> Positions] /\ \A e \in Dispatchers \ {d} : at'[e] = at[e]
  BY <1>1, <1>2
<1>4. QED
  BY <1>2, <1>3, ScanMoves DEF ReconcileRead, DispatchInv, HolderIsInside

\* What was seen becomes the record; a settled one leads on to a reservation.
LEMMA AdoptStep ==
  ASSUME DispatchInv, NEW d \in Dispatchers, Adopt(d)
  PROVE  DispatchInv'
<1> DEFINE o == at[d].seen
<1>1. lock = d /\ TypeOK /\ FenceSaysAuthority /\ CompletionIsSeen
  BY DEF Adopt, DispatchInv, HolderIsInside
<1>2. o \in Observations /\ o # Absent
  BY <1>1 DEF Adopt, TypeOK, Positions
<1>3. PhaseFor(o) \in Phases
  BY <1>2, PhaseForType DEF Phases, Final
<1>4. Keeps /\ rec'.phase = PhaseFor(o) /\ rec'.seen = o
  <2>1. CASE rec = Absent
    <3>1. rec' = [attempt |-> 1, fence |-> NoFence, phase |-> PhaseFor(o), seen |-> o, auth |-> FALSE]
      BY <2>1 DEF Adopt, Adopted, NoAttempt
    <3>2. 1 \in 0..Ceiling
      BY CeilingAssumption
    <3>3. QED
      BY <1>2, <1>3, <2>1, <3>1, <3>2 DEF Keeps, Records
  <2>2. CASE rec # Absent
    BY <1>1, <1>2, <1>3, <2>2, SightMoves DEF Adopt, Adopted
  <2>3. QED
    BY <2>1, <2>2
<1>5. rec'.phase = "COMPLETE" => completed
  BY <1>1, <1>2, <1>4, PhaseForType DEF CompletionIsSeen
<1>6. consumed' \subseteq 1..Ceiling
  BY <1>1, ConsumeType DEF Adopt, TypeOK
<1>7. CASE PhaseFor(o) # "SETTLED"
  BY <1>1, <1>4, <1>5, <1>6, <1>7, ScanEnds DEF Adopt, Leave, ghosts, TypeOK
<1>8. CASE PhaseFor(o) = "SETTLED"
  <2>1. at \in [Dispatchers -> Positions] /\ at' = [at EXCEPT ![d].step = "reserve"] /\ lock' = lock
    BY <1>1, <1>8 DEF Adopt, Goto, TypeOK
  <2>2. at'[d] \in Positions /\ at'[d].step = "reserve" /\ at'[d].seen = o /\ at'[d].task = at[d].task
    BY <2>1 DEF Positions, Steps
  <2>3. \A e \in Dispatchers \ {d} : at'[e] = at[e] /\ at[e].step # "reserve" /\ at[e].step # "call"
    BY <1>1, <2>1 DEF DispatchInv, HolderIsInside
  <2>4. at' \in [Dispatchers -> Positions]
    BY <2>1, <2>2
  <2>5. rec' # Absent
    BY <1>4, AbsentAssumption DEF Keeps
  <2>6. TypeOK'
    BY <1>4, <1>6, <2>1, <2>4 DEF Adopt, TypeOK, DispatchInv, Keeps, scheduler, ghosts
  <2>7. HolderIsInside'
    BY <1>1, <2>1, <2>2, <2>3 DEF DispatchInv, HolderIsInside
  <2>8. ReservesTheSettled'
    BY <1>4, <1>8, <2>2, <2>3, <2>5 DEF ReservesTheSettled
  <2>9. CarriedIsUnspent'
    <3>1. \A e \in Dispatchers : at'[e].step \in {"dispatch", "call"} => e # d /\ at'[e] = at[e]
      BY <2>2, <2>3
    <3>2. rec # Absent => rec'.attempt = rec.attempt
      BY <1>4 DEF Keeps
    <3>3. calls' = calls
      BY DEF Adopt, ghosts
    <3>4. QED
      BY <2>5, <3>1, <3>2, <3>3 DEF DispatchInv, CarriedIsUnspent
  <2>10. SpentIsCounted'
    BY <1>4, <2>5 DEF DispatchInv, SpentIsCounted, Keeps, Adopt, ghosts
  <2>11. FenceSaysAuthority'
    BY <1>1, <1>4, <2>2, <2>3 DEF FenceSaysAuthority, Keeps, Adopt
  <2>12. CompletionIsSeen'
    BY <1>1, <1>5, <2>2, <2>3 DEF CompletionIsSeen, Adopt, scheduler
  <2>13. OverrideIsAuthorised'
    BY DEF DispatchInv, OverrideIsAuthorised, Adopt, ghosts
  <2>14. QED
    BY <2>6, <2>7, <2>8, <2>9, <2>10, <2>11, <2>12, <2>13 DEF DispatchInv
<1>9. QED
  BY <1>7, <1>8


\* The record is stopped, or waits, or counts the attempt before it is carried
\* to the dispatch boundary.
LEMMA ReserveStep ==
  ASSUME DispatchInv, NEW d \in Dispatchers, Reserve(d)
  PROVE  DispatchInv'
<1> DEFINE o == at[d].seen
           next == Settled.attempt + 1
           fence == [attempt |-> next, seen |-> o]
<1>1. lock = d /\ TypeOK /\ FenceSaysAuthority /\ CompletionIsSeen
  BY DEF Reserve, DispatchInv, HolderIsInside
<1>2. /\ Settled \in Records /\ Settled.attempt \in 0..Ceiling
      /\ rec = Absent => Settled = NoAttempt
      /\ rec # Absent => Settled = rec
  BY <1>1, CeilingAssumption DEF TypeOK, Settled, NoAttempt, Records, Phases
<1>3. o \in Observations \cup {Absent}
  BY <1>1 DEF TypeOK, Positions
<1>4. CASE rec' = [Settled EXCEPT !.phase = "STOPPED"] /\ Leave(d)
  <2>1. Keeps /\ rec'.phase = "STOPPED"
    BY <1>2, <1>4 DEF Keeps, Records, NoAttempt, Phases, Final
  <2>2. QED
    BY <1>1, <1>4, <2>1, ScanEnds DEF Reserve, Leave, ghosts, TypeOK
<1>5. CASE Leave(d) /\ UNCHANGED rec
  BY <1>1, <1>5, ScanEnds DEF Reserve, Leave, ghosts, TypeOK, CompletionIsSeen
<1>6. CASE /\ Settled.attempt < Ceiling
           /\ rec' = [attempt |-> next, fence |-> fence, phase |-> "OUTCOME_UNKNOWN",
                      seen |-> o, auth |-> NeedsAuthority(o)]
           /\ at' = [at EXCEPT ![d].step = "dispatch", ![d].task = fence]
           /\ lock' = Nobody
  <2>1. next \in 1..Ceiling
    BY <1>2, <1>6, CeilingAssumption
  <2>2. fence \in Fences /\ fence # NoFence /\ fence.attempt = next /\ fence.seen = o
    BY <1>3, <2>1, NoFenceAssumption DEF Fences
  <2>3. /\ rec' \in Records /\ rec' # Absent /\ rec'.attempt = next /\ rec'.fence = fence
        /\ rec'.auth = NeedsAuthority(o) /\ rec'.phase = "OUTCOME_UNKNOWN"
    <3>1. next \in 0..Ceiling
      BY <2>1
    <3>2. NeedsAuthority(o) \in BOOLEAN
      BY DEF NeedsAuthority
    <3>3. rec' \in Records
      BY <1>3, <1>6, <2>2, <3>1, <3>2 DEF Records, Phases
    <3>4. QED
      BY <1>6, <3>3, AbsentAssumption
  <2>4. at \in [Dispatchers -> Positions]
    BY <1>1 DEF TypeOK
  <2>5. at'[d] \in Positions /\ at'[d].step = "dispatch" /\ at'[d].seen = o /\ at'[d].task = fence
    BY <1>6, <2>2, <2>4 DEF Positions, Steps
  <2>6. \A e \in Dispatchers \ {d} : at'[e] = at[e] /\ at[e].step \notin {"decide", "reserve", "call"}
    BY <1>1, <1>6, <2>4 DEF DispatchInv, HolderIsInside
  <2>7. at' \in [Dispatchers -> Positions]
    BY <1>6, <2>4, <2>5
  <2>8. \A n \in 1..Ceiling : calls[n] = 1 => n < next
    BY <1>2, <2>1 DEF DispatchInv, SpentIsCounted
  <2>9. calls \in [1..Ceiling -> Nat] /\ calls' = calls /\ calls[next] = 0
    <3>1. calls \in [1..Ceiling -> Nat] /\ calls' = calls
      BY <1>1 DEF TypeOK, Reserve, ghosts
    <3>2. calls[next] \in Nat /\ calls[next] <= 1 /\ calls[next] # 1
      BY <2>1, <2>8, <3>1 DEF DispatchInv, SpentIsCounted
    <3>3. QED
      BY <3>1, <3>2
  <2>10. \A e \in Dispatchers \ {d} : at[e].step = "dispatch" =>
             /\ rec # Absent /\ at[e].task # NoFence /\ at[e].task.attempt < next
             /\ calls[at[e].task.attempt] = 0
    <3> SUFFICES ASSUME NEW e \in Dispatchers \ {d}, at[e].step = "dispatch"
                 PROVE  /\ rec # Absent /\ at[e].task # NoFence /\ at[e].task.attempt < next
                        /\ calls[at[e].task.attempt] = 0
      OBVIOUS
    <3>1. /\ rec # Absent /\ at[e].task # NoFence /\ at[e].task.attempt <= rec.attempt
          /\ calls[at[e].task.attempt] = 0
      BY DEF DispatchInv, CarriedIsUnspent
    <3>2. at[e].task.attempt \in 1..Ceiling
      BY <2>4, <3>1 DEF Positions, Fences
    <3>3. rec.attempt \in 0..Ceiling /\ next = rec.attempt + 1
      BY <1>2, <3>1
    <3>4. QED
      BY <3>1, <3>2, <3>3
  <2> HIDE DEF o, next, fence
  <2>11. TypeOK'
    BY <1>1, <1>6, <2>3, <2>7 DEF TypeOK, Reserve, scheduler, ghosts
  <2>12. HolderIsInside'
    BY <1>6, <2>5, <2>6, NobodyAssumption DEF HolderIsInside
  <2>13. ReservesTheSettled'
    BY <2>5, <2>6 DEF ReservesTheSettled
  <2>14. CarriedIsUnspent'
    <3> SUFFICES ASSUME NEW e \in Dispatchers, at'[e].step \in {"dispatch", "call"}
                 PROVE  /\ at'[e].task # NoFence
                        /\ rec' # Absent
                        /\ at'[e].task.attempt <= rec'.attempt
                        /\ calls'[at'[e].task.attempt] = 0
                        /\ \A f \in Dispatchers \ {e} : at'[f].step \in {"dispatch", "call"} =>
                               at'[f].task.attempt # at'[e].task.attempt
      BY DEF CarriedIsUnspent
    <3>1. CASE e = d
      <4>1. at'[e].task = fence /\ fence # NoFence /\ fence.attempt = next
        BY <2>2, <2>5, <3>1
      <4>2. \A f \in Dispatchers \ {e} : at'[f].step \in {"dispatch", "call"} =>
                at'[f].task.attempt < next
        BY <2>6, <2>10, <3>1
      <4>3. QED
        BY <2>1, <2>3, <2>9, <4>1, <4>2
    <3>2. CASE e # d
      <4>1. at'[e] = at[e] /\ at[e].step = "dispatch"
        BY <2>6, <3>2
      <4>2. /\ at[e].task # NoFence /\ at[e].task.attempt < next
            /\ calls[at[e].task.attempt] = 0
        BY <2>10, <3>2, <4>1
      <4>3. \A f \in Dispatchers \ {e, d} : at'[f].step \in {"dispatch", "call"} =>
                at'[f].task.attempt # at'[e].task.attempt
        BY <2>6, <4>1 DEF DispatchInv, CarriedIsUnspent
      <4>4. at'[d].task.attempt = next
        BY <2>2, <2>5
      <4>5. at[e].task.attempt \in 1..Ceiling
        BY <2>4, <4>2 DEF Positions, Fences
      <4>6. QED
        BY <2>1, <2>3, <2>9, <4>1, <4>2, <4>3, <4>4, <4>5
    <3>3. QED
      BY <3>1, <3>2
  <2>15. SpentIsCounted'
    BY <2>1, <2>3, <2>8, <2>9 DEF DispatchInv, SpentIsCounted
  <2>16. FenceSaysAuthority'
    BY <2>2, <2>3, <2>5, <2>6 DEF FenceSaysAuthority
  <2>17. CompletionIsSeen'
    <3>1. \A e \in Dispatchers : at'[e].seen = at[e].seen
      BY <2>5, <2>6 DEF o
    <3>2. QED
      BY <1>1, <2>3, <3>1 DEF CompletionIsSeen, Reserve, scheduler
  <2>18. OverrideIsAuthorised'
    BY DEF DispatchInv, OverrideIsAuthorised, Reserve, ghosts
  <2>19. QED
    BY <2>11, <2>12, <2>13, <2>14, <2>15, <2>16, <2>17, <2>18 DEF DispatchInv
<1>7. QED
  BY <1>4, <1>5, <1>6 DEF Reserve

\* The dispatch boundary: leave, look again, or go on to the request, and then
\* under a granted authority where one is needed.
LEMMA RecheckStep ==
  ASSUME DispatchInv, NEW d \in Dispatchers, Recheck(d)
  PROVE  DispatchInv'
<1>1. lock = Nobody /\ TypeOK /\ at \in [Dispatchers -> Positions] /\ at[d].step = "dispatch"
  BY DEF Recheck, DispatchInv, TypeOK
<1>2. /\ consumed' \subseteq 1..Ceiling /\ crashes' \in 0..MaxCrashes
      /\ UNCHANGED <<granted, lapsed, consumed, expired, scheduler, calls, overrode, crashes>>
  BY <1>1 DEF Recheck, TypeOK, ghosts
<1>3. CASE Quit(d) /\ UNCHANGED <<rec, lock>>
  BY <1>1, <1>2, <1>3, ScanEnds, NobodyAssumption DEF DispatchInv, CompletionIsSeen
<1>4. CASE Reserved(d) /\ rec' = [rec EXCEPT !.phase = "STOPPED"] /\ Quit(d) /\ UNCHANGED lock
  <2>1. rec # Absent /\ "STOPPED" \in Phases
    BY <1>4 DEF Reserved, Phases, Final
  <2>2. Keeps /\ rec'.phase = "STOPPED"
    BY <1>1, <1>4, <2>1, PhaseMoves
  <2>3. QED
    BY <1>1, <1>2, <1>4, <2>2, ScanEnds, NobodyAssumption
<1>5. CASE Goto(d, "reconcile") /\ UNCHANGED <<rec, lock>>
  <2>1. at'[d] \in Positions /\ at'[d].step = "reconcile" /\ at'[d].seen = at[d].seen
    BY <1>1, <1>5 DEF Goto, Positions, Steps
  <2>2. at' \in [Dispatchers -> Positions] /\ \A e \in Dispatchers \ {d} : at'[e] = at[e]
    BY <1>1, <1>5, <2>1 DEF Goto
  <2>3. QED
    BY <1>1, <1>2, <1>5, <2>1, <2>2, ScanMoves, NobodyAssumption DEF ledger, ghosts
<1>6. CASE /\ Reserved(d)
           /\ rec.auth => AuthorityOf(rec.attempt, lapsed) = "valid"
           /\ lock' = d /\ Goto(d, "call") /\ UNCHANGED rec
  <2>1. at'[d] \in Positions /\ at'[d].step = "call" /\ at'[d].seen = at[d].seen /\ at'[d].task = at[d].task
    BY <1>1, <1>6 DEF Goto, Positions, Steps
  <2>2. at' \in [Dispatchers -> Positions] /\ \A e \in Dispatchers \ {d} : at'[e] = at[e]
    BY <1>1, <1>6, <2>1 DEF Goto
  <2>3. \A e \in Dispatchers : at[e].step \notin {"decide", "reserve", "call"}
    BY <1>1, NobodyAssumption DEF DispatchInv, HolderIsInside
  <2>4. TypeOK'
    BY <1>1, <1>2, <1>6, <2>2 DEF TypeOK, scheduler
  <2>5. HolderIsInside'
    BY <1>6, <2>1, <2>2, <2>3 DEF HolderIsInside
  <2>6. ReservesTheSettled'
    BY <2>1, <2>2, <2>3 DEF ReservesTheSettled
  <2>7. CarriedIsUnspent'
    <3>1. \A e \in Dispatchers : /\ at'[e].task = at[e].task
                                 /\ at'[e].step \in {"dispatch", "call"} => at[e].step = "dispatch"
      BY <1>1, <2>1, <2>2, <2>3
    <3>2. QED
      BY <1>2, <1>6, <3>1 DEF DispatchInv, CarriedIsUnspent
  <2>8. SpentIsCounted'
    BY <1>2, <1>6 DEF DispatchInv, SpentIsCounted
  <2>9. FenceSaysAuthority'
    <3>1. rec # Absent /\ rec.fence = at[d].task /\ at[d].task # NoFence
      BY <1>1, <1>6 DEF Reserved, DispatchInv, CarriedIsUnspent
    <3>2. NeedsAuthority(at[d].task.seen) => rec.auth /\ rec.attempt = at[d].task.attempt
      BY <3>1 DEF DispatchInv, FenceSaysAuthority
    <3>3. NeedsAuthority(at[d].task.seen) => at[d].task.attempt \in granted
      BY <1>6, <3>2 DEF AuthorityOf
    <3>4. QED
      BY <1>2, <1>6, <2>1, <2>2, <2>3, <3>3 DEF DispatchInv, FenceSaysAuthority
  <2>10. CompletionIsSeen'
    BY <1>2, <1>6, <2>1, <2>2 DEF DispatchInv, CompletionIsSeen, scheduler
  <2>11. OverrideIsAuthorised'
    BY <1>2 DEF DispatchInv, OverrideIsAuthorised
  <2>12. QED
    BY <2>4, <2>5, <2>6, <2>7, <2>8, <2>9, <2>10, <2>11 DEF DispatchInv
<1>7. QED
  BY <1>3, <1>4, <1>5, <1>6 DEF Recheck


\* What the scheduler does with a request it receives is of the right kind and
\* completes nothing.
LEMMA ReceivesType ==
  ASSUME TypeOK, NEW kind, Receives(kind)
  PROVE  /\ gens' \in Nat /\ sched' \in Observations \cup {Absent}
         /\ sched' # Absent /\ sched'.status = "COMPLETED" => sched' = sched
<1>1. CASE UNCHANGED <<gens, sched>>
  BY <1>1 DEF TypeOK
<1>2. CASE gens' = gens + 1 /\ sched' = [gen |-> gens + 1, status |-> "PENDING"]
  BY <1>2 DEF TypeOK, Observations, Running
<1>3. QED
  BY <1>1, <1>2 DEF Receives

\* The request spends the attempt the dispatcher carries, and no other's.
LEMMA CallStep ==
  ASSUME DispatchInv, NEW d \in Dispatchers, Call(d)
  PROVE  DispatchInv'
<1> DEFINE n == at[d].task.attempt
<1>1. TypeOK /\ at \in [Dispatchers -> Positions] /\ at[d].step = "call" /\ lock = d
  BY DEF Call, DispatchInv, TypeOK, HolderIsInside
<1>2. /\ at[d].task \in Fences /\ n \in 1..Ceiling /\ rec # Absent /\ n <= rec.attempt /\ calls[n] = 0
      /\ \A e \in Dispatchers \ {d} : at[e].step \in {"dispatch", "call"} => at[e].task.attempt # n
  BY <1>1 DEF DispatchInv, CarriedIsUnspent, Positions, Fences
<1>3. /\ at'[d] \in Positions /\ at'[d].step = "reconcile"
      /\ at'[d].seen = at[d].seen /\ at'[d].task = at[d].task
  BY <1>1 DEF Call, Goto, Positions, Steps
<1>4. at' \in [Dispatchers -> Positions] /\ \A e \in Dispatchers \ {d} : at'[e] = at[e]
  BY <1>1, <1>3 DEF Call, Goto
<1>5. /\ calls \in [1..Ceiling -> Nat] /\ calls' \in [1..Ceiling -> Nat]
      /\ calls'[n] = 1 /\ \A k \in 1..Ceiling \ {n} : calls'[k] = calls[k]
  BY <1>1, <1>2 DEF Call, TypeOK
<1>6. /\ gens' \in Nat /\ sched' \in Observations \cup {Absent}
      /\ sched' # Absent /\ sched'.status = "COMPLETED" => sched' = sched
  BY <1>1, ReceivesType DEF Call, TypeOK
<1>7. inflight' \subseteq [attempt : 1..Ceiling, kind : Kinds]
  <2>1. \A k \in Kinds : [attempt |-> n, kind |-> k] \in [attempt : 1..Ceiling, kind : Kinds]
    BY <1>2
  <2>2. QED
    BY <1>1, <2>1 DEF Call, TypeOK, Kinds
<1>8. overrode' = overrode \/ (NeedsAuthority(at[d].task.seen) /\ overrode' = overrode \cup {n})
  BY DEF Call
<1>9. UNCHANGED <<rec, granted, lapsed, consumed, expired, completed, crashes>> /\ lock' = Nobody
  BY DEF Call, ledger
<1> HIDE DEF n
<1>10. TypeOK'
  BY <1>1, <1>2, <1>4, <1>5, <1>6, <1>7, <1>8, <1>9 DEF TypeOK
<1>11. HolderIsInside'
  BY <1>1, <1>3, <1>4, <1>9, NobodyAssumption DEF DispatchInv, HolderIsInside
<1>12. ReservesTheSettled'
  BY <1>3, <1>4, <1>9 DEF DispatchInv, ReservesTheSettled
<1>13. CarriedIsUnspent'
  <2> SUFFICES ASSUME NEW e \in Dispatchers, at'[e].step \in {"dispatch", "call"}
               PROVE  /\ at'[e].task # NoFence
                      /\ rec' # Absent
                      /\ at'[e].task.attempt <= rec'.attempt
                      /\ calls'[at'[e].task.attempt] = 0
                      /\ \A f \in Dispatchers \ {e} : at'[f].step \in {"dispatch", "call"} =>
                             at'[f].task.attempt # at'[e].task.attempt
    BY DEF CarriedIsUnspent
  <2>1. e # d /\ at'[e] = at[e]
    BY <1>3, <1>4
  <2>2. /\ at[e].task # NoFence /\ at[e].task.attempt <= rec.attempt
        /\ calls[at[e].task.attempt] = 0 /\ at[e].task.attempt # n
    BY <1>2, <2>1 DEF DispatchInv, CarriedIsUnspent
  <2>3. at[e].task.attempt \in 1..Ceiling
    BY <1>1, <2>2 DEF Positions, Fences
  <2>4. \A f \in Dispatchers \ {e} : at'[f].step \in {"dispatch", "call"} =>
            at'[f].task.attempt # at'[e].task.attempt
    BY <1>3, <1>4, <2>1 DEF DispatchInv, CarriedIsUnspent
  <2>5. QED
    BY <1>2, <1>5, <1>9, <2>1, <2>2, <2>3, <2>4
<1>14. SpentIsCounted'
  BY <1>2, <1>5, <1>9 DEF DispatchInv, SpentIsCounted
<1>15. FenceSaysAuthority'
  BY <1>3, <1>4, <1>9 DEF DispatchInv, FenceSaysAuthority
<1>16. CompletionIsSeen'
  BY <1>3, <1>4, <1>6, <1>9 DEF DispatchInv, CompletionIsSeen
<1>17. OverrideIsAuthorised'
  BY <1>1, <1>8, <1>9 DEF DispatchInv, OverrideIsAuthorised, FenceSaysAuthority, n
<1>18. QED
  BY <1>10, <1>11, <1>12, <1>13, <1>14, <1>15, <1>16, <1>17 DEF DispatchInv

-----------------------------------------------------------------------------
(* The scheduler, the clock and the operator. *)

\* Nothing of the dispatchers' moves when only their surroundings do, and an
\* authority is not withdrawn.
LEMMA Surroundings ==
  ASSUME DispatchInv, TypeOK',
         UNCHANGED <<rec, lock, at, calls, overrode>>, granted \subseteq granted',
         completed => completed',
         sched' # Absent /\ sched'.status = "COMPLETED" => completed' \/ sched' = sched
  PROVE  DispatchInv'
<1>1. HolderIsInside' /\ ReservesTheSettled'
  BY DEF DispatchInv, HolderIsInside, ReservesTheSettled
<1>2. CarriedIsUnspent' /\ SpentIsCounted'
  BY DEF DispatchInv, CarriedIsUnspent, SpentIsCounted
<1>3. FenceSaysAuthority' /\ OverrideIsAuthorised'
  BY DEF DispatchInv, FenceSaysAuthority, OverrideIsAuthorised
<1>4. CompletionIsSeen'
  BY DEF DispatchInv, CompletionIsSeen
<1>5. QED
  BY <1>1, <1>2, <1>3, <1>4 DEF DispatchInv

\* A late request.
LEMMA ArriveStep ==
  ASSUME DispatchInv, NEW q \in inflight, Arrive(q)
  PROVE  DispatchInv'
<1>1. TypeOK'
  BY ReceivesType DEF Arrive, DispatchInv, TypeOK, ledger, ghosts
<1>2. QED
  BY <1>1, Surroundings, ReceivesType DEF Arrive, DispatchInv, ledger, ghosts

\* A generation runs.
LEMMA ProgressStep ==
  ASSUME DispatchInv, Progress
  PROVE  DispatchInv'
<1>1. sched \in Observations /\ TypeOK
  BY DEF Progress, DispatchInv, TypeOK
<1>2. PICK t \in {"RUNNING", "COMPLETED", "FAILED"} : sched' = [sched EXCEPT !.status = t]
  BY DEF Progress
<1>3. sched' \in Observations
  BY <1>1, <1>2 DEF Observations, Running, Ended
<1>4. completed' \in BOOLEAN /\ (completed => completed') /\ (sched'.status = "COMPLETED" => completed')
  BY DEF Progress
<1>5. TypeOK'
  BY <1>1, <1>3, <1>4 DEF Progress, TypeOK, ledger, ghosts
<1>6. QED
  BY <1>4, <1>5, Surroundings DEF Progress, ledger, ghosts

\* A generation is terminated, or lost.
LEMMA TerminateOrLoseStep ==
  ASSUME DispatchInv, Terminate \/ Lose
  PROVE  DispatchInv'
<1>1. sched' \in Observations \cup {Absent} /\ (sched' # Absent => sched'.status = "TERMINATED")
  BY DEF Terminate, Lose, DispatchInv, TypeOK, Observations, Running, Ended
<1>2. TypeOK'
  BY <1>1 DEF Terminate, Lose, DispatchInv, TypeOK, ledger, ghosts
<1>3. QED
  BY <1>1, <1>2, Surroundings DEF Terminate, Lose, ledger, ghosts

\* An authority is granted or lapses; the deadline passes.
LEMMA OperatorStep ==
  ASSUME DispatchInv, Grant \/ Lapse \/ Expire
  PROVE  DispatchInv'
<1>1. rec # Absent /\ rec.attempt < Ceiling => rec.attempt + 1 \in 1..Ceiling
  BY CeilingAssumption DEF DispatchInv, TypeOK, Records
<1>2. TypeOK' /\ granted \subseteq granted'
  BY <1>1 DEF Grant, Lapse, Expire, DispatchInv, TypeOK, ledger, scheduler, ghosts
<1>3. QED
  BY <1>2, Surroundings DEF Grant, Lapse, Expire, ledger, scheduler, ghosts

-----------------------------------------------------------------------------
(* The theorems. *)

\* Every dispatch begins with nothing reserved and nothing spent.
LEMMA InitSafe == Init => DispatchInv
<1> SUFFICES ASSUME Init PROVE DispatchInv
  OBVIOUS
<1>1. at \in [Dispatchers -> Positions] /\ \A d \in Dispatchers : at[d] = Idle
  BY IdleType DEF Init
<1>2. Idle.step = "idle" /\ Idle.seen = Absent
  BY DEF Idle
<1>3. sched \in Observations \cup {Absent} /\ gens \in Nat
  BY DEF Init, Observations, Running
<1>4. TypeOK
  <2>1. calls \in [1..Ceiling -> Nat] /\ crashes \in 0..MaxCrashes
    BY BoundsAssumption DEF Init
  <2>2. /\ rec \in Records \cup {Absent} /\ lock \in Dispatchers \cup {Nobody}
        /\ granted \subseteq 1..Ceiling /\ lapsed \subseteq granted /\ consumed \subseteq 1..Ceiling
        /\ expired \in BOOLEAN /\ completed \in BOOLEAN
        /\ inflight \subseteq [attempt : 1..Ceiling, kind : Kinds] /\ overrode \subseteq 1..Ceiling
    BY DEF Init
  <2>3. QED
    BY <1>1, <1>3, <2>1, <2>2 DEF TypeOK
<1>5. HolderIsInside /\ ReservesTheSettled /\ CarriedIsUnspent
  BY <1>1, <1>2, NobodyAssumption DEF Init, HolderIsInside, ReservesTheSettled, CarriedIsUnspent
<1>6. SpentIsCounted /\ FenceSaysAuthority /\ CompletionIsSeen /\ OverrideIsAuthorised
  BY <1>1, <1>2 DEF Init, SpentIsCounted, FenceSaysAuthority, CompletionIsSeen, OverrideIsAuthorised
<1>7. QED
  BY <1>4, <1>5, <1>6 DEF DispatchInv

\* Every step of a dispatcher or of its surroundings keeps the invariant.
LEMMA NextSafe == DispatchInv /\ [Next]_vars => DispatchInv'
<1> SUFFICES ASSUME DispatchInv, [Next]_vars PROVE DispatchInv'
  OBVIOUS
<1>1. ASSUME NEW d \in Dispatchers, Scan(d) \/ Crash(d) PROVE DispatchInv'
  BY <1>1, WakeStep, EnterStep, LeaveAloneStep, StopUnknownStep, LoseTrackStep, AdoptStep,
     FirstAttemptStep, ReserveStep, RecheckStep, CallStep, ReconcileReadStep,
     ReconcileApplyStep, CrashStep DEF Scan
<1>2. CASE UNCHANGED vars
  <2>1. TypeOK'
    BY <1>2 DEF vars, DispatchInv, TypeOK
  <2>2. QED
    BY <1>2, <2>1, Surroundings DEF vars
<1>3. QED
  BY <1>1, <1>2, ArriveStep, ProgressStep, TerminateOrLoseStep, OperatorStep DEF Next

\* The inductive invariant holds of every behaviour of the dispatchers.
THEOREM DispatchSafe == Spec => []DispatchInv
  BY InitSafe, NextSafe, PTL DEF Spec

\* The variables keep their types (TypeOK).
THEOREM DispatchTypeCorrect == Spec => []TypeOK
<1>1. DispatchInv => TypeOK
  BY DEF DispatchInv
<1>2. QED
  BY <1>1, DispatchSafe, PTL

\* No attempt is spent twice, and none that the record has not counted.
THEOREM AttemptsSpentOnce == Spec => []OneRequestPerAttempt
<1>1. DispatchInv => OneRequestPerAttempt
  BY DEF DispatchInv, SpentIsCounted, OneRequestPerAttempt
<1>2. QED
  BY <1>1, DispatchSafe, PTL

\* A TERMINATED generation is restarted only under its authority.
THEOREM OverridesAuthorised == Spec => []OverrideIsAuthorised
<1>1. DispatchInv => OverrideIsAuthorised
  BY DEF DispatchInv
<1>2. QED
  BY <1>1, DispatchSafe, PTL

\* A record that says COMPLETE is right.
THEOREM CompletionsTrue == Spec => []CompleteIsTrue
<1>1. DispatchInv => CompleteIsTrue
  BY DEF DispatchInv, CompletionIsSeen, CompleteIsTrue
<1>2. QED
  BY <1>1, DispatchSafe, PTL

\* A final record stays, and a counted attempt stays counted.
THEOREM FinalStays == Spec => FinalIsFinal
<1>1. ASSUME DispatchInv, [Next]_vars
      PROVE  [/\ rec # Absent /\ rec.phase \in Final => rec' = rec
              /\ rec # Absent => rec' # Absent /\ rec'.attempt >= rec.attempt]_vars
  <2>1. ASSUME NEW d \in Dispatchers, Scan(d) \/ Crash(d), rec # Absent
        PROVE  /\ rec.phase \in Final => rec' = rec
               /\ rec' # Absent /\ rec'.attempt >= rec.attempt
    <3>1. TypeOK /\ rec \in Records /\ rec.attempt \in Nat
      BY <1>1, <2>1 DEF DispatchInv, TypeOK, Records
    <3>2. CASE UNCHANGED rec
      BY <2>1, <3>1, <3>2
    <3>3. CASE StopUnknown(d) \/ LoseTrack(d) \/ (Recheck(d) /\ Reserved(d) /\ rec' = [rec EXCEPT !.phase = "STOPPED"])
      <4>1. rec.phase \notin Final
        BY <3>3 DEF StopUnknown, LoseTrack, Reserved, Final
      <4>2. Keeps
        <5>1. ASSUME Changed(rec, at[d].seen) PROVE at[d].seen \in Observations
          BY <3>1, <5>1, <2>1 DEF Changed, TypeOK, Positions
        <5>2. \A p \in {"STOPPED", "OUTCOME_UNKNOWN"} : p \in Phases
          BY DEF Phases, Final
        <5>3. QED
          BY <2>1, <3>1, <3>3, <5>1, <5>2, PhaseMoves, SightMoves DEF StopUnknown, LoseTrack
      <4>3. QED
        BY <2>1, <3>1, <4>1, <4>2, AbsentAssumption DEF Keeps
    <3>4. CASE Adopt(d) \/ (ReconcileApply(d) /\ Reserved(d) /\ Changed(rec, at[d].seen))
      <4>1. rec.phase \notin Final /\ rec' = Adopted(rec, at[d].seen)
        BY <2>1, <3>4 DEF Adopt, ReconcileApply, Reserved, Final
      <4>2. at[d].seen \in Observations
        BY <2>1, <3>1, <3>4 DEF Adopt, Changed, TypeOK, Positions
      <4>3. PhaseFor(at[d].seen) \in Phases
        BY <4>2, PhaseForType DEF Phases, Final
      <4>4. Keeps
        BY <2>1, <3>1, <4>1, <4>2, <4>3, SightMoves DEF Adopted
      <4>5. QED
        BY <2>1, <3>1, <4>1, <4>4, AbsentAssumption DEF Keeps
    <3>5. CASE Reserve(d)
      <4>1. rec.phase = "SETTLED"
        BY <1>1, <2>1, <3>5 DEF Reserve, DispatchInv, ReservesTheSettled
      <4>2. Settled = rec
        BY <2>1 DEF Settled
      <4>3. rec' # Absent /\ rec'.attempt >= rec.attempt
        <5>1. DispatchInv'
          BY <1>1, <3>5, ReserveStep
        <5>2. \/ rec' = rec
              \/ rec' = [rec EXCEPT !.phase = "STOPPED"]
              \/ \E f, p, o, a : rec' = [attempt |-> rec.attempt + 1, fence |-> f, phase |-> p, seen |-> o, auth |-> a]
          BY <3>5, <4>2 DEF Reserve
        <5>3. rec'.attempt >= rec.attempt
          BY <3>1, <5>2 DEF Records
        <5>4. rec' # Absent
          <6>1. CASE rec' = rec
            BY <2>1, <6>1
          <6>2. CASE rec' = [rec EXCEPT !.phase = "STOPPED"]
            <7>1. "STOPPED" \in Phases
              BY DEF Phases, Final
            <7>2. QED
              BY <2>1, <3>1, <6>2, <7>1, PhaseMoves, AbsentAssumption DEF Keeps
          <6>3. CASE rec' # rec /\ rec' # [rec EXCEPT !.phase = "STOPPED"]
            <7>1. at'[d].step = "dispatch"
              <8>1. at' = [at EXCEPT ![d].step = "dispatch", ![d].task = [attempt |-> Settled.attempt + 1, seen |-> at[d].seen]]
                BY <3>5, <4>2, <6>3 DEF Reserve
              <8>2. at \in [Dispatchers -> Positions]
                BY <3>1 DEF TypeOK
              <8>3. QED
                BY <2>1, <8>1, <8>2 DEF Positions
            <7>2. QED
              BY <2>1, <5>1, <7>1 DEF DispatchInv, CarriedIsUnspent
          <6>4. QED
            BY <6>1, <6>2, <6>3
        <5>5. QED
          BY <5>3, <5>4
      <4>4. QED
        BY <4>1, <4>3 DEF Final
    <3>6. CASE Recheck(d)
      BY <3>2, <3>3, <3>6 DEF Recheck
    <3>7. CASE ReconcileApply(d)
      BY <3>2, <3>4, <3>7 DEF ReconcileApply
    <3>8. CASE Wake(d) \/ Enter(d) \/ LeaveAlone(d) \/ FirstAttempt(d) \/ Call(d) \/ ReconcileRead(d) \/ Crash(d)
      BY <3>2, <3>8 DEF Wake, Enter, LeaveAlone, FirstAttempt, Call, ReconcileRead, Crash, ledger
    <3>9. QED
      BY <2>1, <3>3, <3>4, <3>5, <3>6, <3>7, <3>8 DEF Scan
  <2>2. rec # Absent => rec.attempt \in Nat
    BY <1>1 DEF DispatchInv, TypeOK, Records
  <2>3. ASSUME UNCHANGED rec PROVE rec # Absent => rec' # Absent /\ rec'.attempt >= rec.attempt
    BY <2>2, <2>3
  <2>4. CASE Progress \/ Terminate \/ Lose \/ Grant \/ Lapse \/ Expire \/ \E q \in inflight : Arrive(q)
    <3>1. UNCHANGED rec
      BY <2>4 DEF Progress, Terminate, Lose, Grant, Lapse, Expire, Arrive, ledger
    <3>2. QED
      BY <2>3, <3>1
  <2>5. QED
    BY <1>1, <2>1, <2>4 DEF Next
<1>2. QED
  BY <1>1, DispatchSafe, PTL DEF Spec, FinalIsFinal

-----------------------------------------------------------------------------
(* One request on its way. *)

\* Nothing runs: no instance, or a generation that failed or was terminated.
Resting(o) == o = Absent \/ PhaseFor(o) = "SETTLED"

KindFor(o) == IF o = Absent THEN "SCHEDULE" ELSE "RESTART"

\* The request of the newest reservation has not been made or not arrived.
Undecided ==
    rec # Absent /\ rec.fence # NoFence /\ (calls[rec.attempt] = 0 \/ inflight # {})

\* A request on its way is the newest reservation's.
WayIsNewest ==
    /\ inflight # {} => rec # Absent /\ rec.fence # NoFence
    /\ \A q \in inflight : /\ q = [attempt |-> rec.attempt, kind |-> KindFor(rec.fence.seen)]
                           /\ calls[rec.attempt] = 1

\* Until the reserved request has arrived, the record stays open or stopped on
\* what was reserved against, and the scheduler shows nothing else.
UndecidedIsStill ==
    Undecided => /\ rec.phase \in {"OUTCOME_UNKNOWN", "STOPPED"}
                 /\ rec.seen = rec.fence.seen
                 /\ Resting(rec.seen)
                 /\ sched \in {rec.seen, Absent}

\* What a dispatcher saw is still good for the decision it leads to; what it
\* carries is counted; and it asks the scheduler only for its open reservation.
KnowsTheWay(d) ==
    /\ Undecided /\ (at[d].step = "decide" \/ (at[d].step = "apply" /\ at[d].task = rec.fence)) =>
           at[d].seen \in {rec.seen, Absent}
    /\ at[d].step = "decide" /\ rec = Absent /\ at[d].seen = Absent => sched = Absent
    /\ at[d].step = "decide" /\ at[d].seen # Absent /\ Resting(at[d].seen) =>
           \/ inflight = {} /\ sched \in {at[d].seen, Absent}
           \/ rec # Absent /\ rec.seen = at[d].seen /\ rec.phase \in {"OUTCOME_UNKNOWN", "STOPPED"}
    /\ at[d].step = "reserve" =>
           inflight = {} /\ sched \in {at[d].seen, Absent} /\ Resting(at[d].seen)
    /\ at[d].step \in {"dispatch", "call", "reconcile", "apply"} =>
           at[d].task # NoFence /\ rec # Absent /\ at[d].task.attempt <= rec.attempt
    /\ at[d].step = "call" => Reserved(d)

WayInv == WayIsNewest /\ UndecidedIsStill /\ \A d \in Dispatchers : KnowsTheWay(d)

\* While a request is on its way its reservation is undecided.
LEMMA OnTheWayIsUndecided ==
  ASSUME WayInv, inflight # {}
  PROVE  Undecided
  BY DEF WayInv, WayIsNewest, Undecided

\* A step of one dispatcher that asks nothing of the scheduler: if it writes the
\* record under the lock, keeps the count, and leaves an undecided record on
\* what it was reserved against, then only its own knowledge is in question.
LEMMA WayMoves ==
  ASSUME DispatchInv, WayInv, NEW d \in Dispatchers,
         UNCHANGED <<sched, inflight, calls>>,
         \A e \in Dispatchers \ {d} : at'[e] = at[e],
         \/ rec' = rec
         \/ /\ Keeps /\ lock \in {d, Nobody}
            /\ Undecided => rec'.seen = rec.seen /\ rec'.phase \in {"OUTCOME_UNKNOWN", "STOPPED"},
         KnowsTheWay(d)'
  PROVE  WayInv'
<1>1. CASE rec' = rec
  <2>1. Undecided' = Undecided /\ WayIsNewest' /\ UndecidedIsStill'
    BY <1>1 DEF Undecided, WayInv, WayIsNewest, UndecidedIsStill
  <2>2. \A e \in Dispatchers \ {d} : KnowsTheWay(e)'
    BY <1>1, <2>1 DEF WayInv, KnowsTheWay, Reserved
  <2>3. QED
    BY <2>1, <2>2 DEF WayInv
<1>2. CASE /\ Keeps /\ lock \in {d, Nobody}
           /\ Undecided => rec'.seen = rec.seen /\ rec'.phase \in {"OUTCOME_UNKNOWN", "STOPPED"}
  <2>1. rec' # Absent
    BY <1>2, AbsentAssumption DEF Keeps
  <2>2. CASE rec = Absent
    <3>1. rec'.fence = NoFence /\ inflight = {}
      BY <1>2, <2>2 DEF Keeps, WayInv, WayIsNewest
    <3>2. ~Undecided' /\ WayIsNewest' /\ UndecidedIsStill'
      BY <3>1 DEF Undecided, WayIsNewest, UndecidedIsStill
    <3>3. \A e \in Dispatchers \ {d} : at[e].step \notin {"decide", "reserve", "call", "dispatch", "reconcile", "apply"}
      BY <1>2, <2>2, NobodyAssumption DEF DispatchInv, HolderIsInside, WayInv, KnowsTheWay
    <3>4. \A e \in Dispatchers \ {d} : KnowsTheWay(e)'
      BY <3>3 DEF KnowsTheWay
    <3>5. QED
      BY <3>2, <3>4 DEF WayInv
  <2>3. CASE rec # Absent
    <3>1. rec'.attempt = rec.attempt /\ rec'.fence = rec.fence
      BY <1>2, <2>3 DEF Keeps
    <3>2. Undecided' = Undecided
      BY <2>1, <2>3, <3>1 DEF Undecided
    <3>3. WayIsNewest'
      BY <2>1, <2>3, <3>1 DEF WayInv, WayIsNewest
    <3>4. UndecidedIsStill'
      BY <1>2, <3>1, <3>2 DEF WayInv, UndecidedIsStill
    <3>5. \A e \in Dispatchers \ {d} : at[e].step \notin {"decide", "reserve", "call"}
      BY <1>2, NobodyAssumption DEF DispatchInv, HolderIsInside
    <3>6. \A e \in Dispatchers \ {d} : KnowsTheWay(e)'
      BY <1>2, <2>1, <2>3, <3>1, <3>2, <3>5 DEF WayInv, KnowsTheWay
    <3>7. QED
      BY <3>3, <3>4, <3>6 DEF WayInv
  <2>4. QED
    BY <2>2, <2>3
<1>3. QED
  BY <1>1, <1>2

\* A dispatcher that leaves knows nothing.
LEMMA WayEnds ==
  ASSUME DispatchInv, WayInv, NEW d \in Dispatchers, Quit(d),
         UNCHANGED <<sched, inflight, calls>>,
         \/ rec' = rec
         \/ /\ Keeps /\ lock \in {d, Nobody}
            /\ Undecided => rec'.seen = rec.seen /\ rec'.phase \in {"OUTCOME_UNKNOWN", "STOPPED"}
  PROVE  WayInv'
<1>1. at' = [at EXCEPT ![d] = Idle] /\ at \in [Dispatchers -> Positions]
  BY DEF Quit, DispatchInv, TypeOK
<1>2. at'[d].step = "idle" /\ \A e \in Dispatchers \ {d} : at'[e] = at[e]
  BY <1>1 DEF Idle
<1>3. KnowsTheWay(d)'
  BY <1>2 DEF KnowsTheWay
<1>4. QED
  BY <1>2, <1>3, WayMoves

\* A scan that only ends, stops or adopts leaves the way as it is: an outcome
\* that is adopted was decided.
LEMMA WayLeaving ==
  ASSUME DispatchInv, WayInv, NEW d \in Dispatchers,
         LeaveAlone(d) \/ StopUnknown(d) \/ LoseTrack(d) \/ ReconcileApply(d) \/ Crash(d)
  PROVE  WayInv'
<1>1. UNCHANGED <<sched, inflight, calls>> /\ Quit(d) /\ TypeOK
  BY DEF LeaveAlone, StopUnknown, LoseTrack, ReconcileApply, Crash, Leave, scheduler, ghosts, DispatchInv
<1>2. CASE LeaveAlone(d) \/ Crash(d)
  BY <1>1, <1>2, WayEnds DEF LeaveAlone, Crash, ledger
<1>3. CASE StopUnknown(d)
  <2>1. lock = d /\ rec # Absent /\ at[d].step = "decide" /\ "STOPPED" \in Phases
    BY <1>3 DEF StopUnknown, DispatchInv, HolderIsInside, Phases, Final
  <2>2. Changed(rec, at[d].seen) => at[d].seen \in Observations /\ ~Undecided
    BY <1>1, <2>1 DEF Changed, TypeOK, Positions, WayInv, KnowsTheWay
  <2>3. Keeps /\ rec'.phase = "STOPPED" /\ (~Changed(rec, at[d].seen) => rec'.seen = rec.seen)
    BY <1>1, <1>3, <2>1, <2>2, PhaseMoves, SightMoves DEF StopUnknown
  <2>4. QED
    BY <1>1, <2>1, <2>2, <2>3, WayEnds
<1>4. CASE LoseTrack(d)
  <2>1. lock = d /\ rec # Absent /\ rec.phase = "ACTIVE"
    BY <1>4 DEF LoseTrack, DispatchInv, HolderIsInside
  <2>2. PICK p \in {"STOPPED", "OUTCOME_UNKNOWN"} : rec' = [rec EXCEPT !.phase = p]
    BY <1>4 DEF LoseTrack
  <2>3. Keeps
    BY <1>1, <2>1, <2>2, PhaseMoves DEF Phases, Final
  <2>4. ~Undecided
    BY <2>1 DEF WayInv, UndecidedIsStill
  <2>5. QED
    BY <1>1, <2>1, <2>3, <2>4, WayEnds
<1>5. CASE ReconcileApply(d)
  <2>1. lock = Nobody /\ at[d].step = "apply"
    BY <1>5 DEF ReconcileApply
  <2>2. CASE Reserved(d) /\ Changed(rec, at[d].seen)
    <3>1. rec # Absent /\ at[d].task = rec.fence /\ at[d].seen \in Observations
      BY <1>1, <2>2 DEF Reserved, Changed, TypeOK, Positions
    <3>2. ~Undecided
      BY <2>1, <2>2, <3>1 DEF WayInv, KnowsTheWay, Changed
    <3>3. PhaseFor(at[d].seen) \in Phases
      BY <3>1, PhaseForType DEF Phases, Final
    <3>4. Keeps
      BY <1>1, <1>5, <2>2, <3>1, <3>3, SightMoves DEF ReconcileApply, Adopted
    <3>5. QED
      BY <1>1, <2>1, <3>2, <3>4, WayEnds
  <2>3. CASE ~(Reserved(d) /\ Changed(rec, at[d].seen))
    BY <1>1, <1>5, <2>3, WayEnds DEF ReconcileApply
  <2>4. QED
    BY <2>2, <2>3
<1>6. QED
  BY <1>2, <1>3, <1>4, <1>5

\* Reading the clock or the scheduler: what is seen is what the scheduler shows.
LEMMA WayLooks ==
  ASSUME DispatchInv, WayInv, NEW d \in Dispatchers,
         Wake(d) \/ Enter(d) \/ ReconcileRead(d) \/ FirstAttempt(d)
  PROVE  WayInv'
<1>1. UNCHANGED <<rec, sched, inflight, calls>> /\ at \in [Dispatchers -> Positions]
  BY DEF Wake, Enter, ReconcileRead, FirstAttempt, ledger, scheduler, ghosts, DispatchInv, TypeOK
<1>2. \A e \in Dispatchers \ {d} : at'[e] = at[e]
  BY <1>1 DEF Wake, Enter, ReconcileRead, FirstAttempt, Goto
<1>3. Undecided' = Undecided
  BY <1>1 DEF Undecided
<1>4. KnowsTheWay(d)'
  <2>1. CASE Wake(d)
    <3>1. at'[d].step = "enter"
      BY <1>1, <2>1 DEF Wake, Idle
    <3>2. QED
      BY <3>1 DEF KnowsTheWay
  <2>2. CASE Enter(d)
    <3>1. at'[d].step = "decide" /\ at'[d].seen = sched
      BY <1>1, <2>2 DEF Enter, Positions
    <3>2. Undecided => sched \in {rec.seen, Absent} /\ rec.phase \in {"OUTCOME_UNKNOWN", "STOPPED"} /\ rec # Absent
      BY DEF WayInv, UndecidedIsStill, Undecided
    <3>3. inflight = {} \/ Undecided
      BY OnTheWayIsUndecided
    <3>4. QED
      BY <1>1, <1>3, <3>1, <3>2, <3>3 DEF KnowsTheWay
  <2>3. CASE ReconcileRead(d)
    <3>1. /\ at[d].step = "reconcile" /\ at'[d].step = "apply" /\ at'[d].seen = sched
          /\ at'[d].task = at[d].task
      BY <1>1, <2>3 DEF ReconcileRead, Positions
    <3>2. Undecided => sched \in {rec.seen, Absent}
      BY DEF WayInv, UndecidedIsStill
    <3>3. QED
      BY <1>1, <1>3, <3>1, <3>2 DEF WayInv, KnowsTheWay
  <2>4. CASE FirstAttempt(d)
    <3>1. at'[d].step = "reserve" /\ at'[d].seen = Absent /\ at[d].step = "decide" /\ at[d].seen = Absent /\ rec = Absent
      BY <1>1, <2>4 DEF FirstAttempt, Goto, Positions
    <3>2. sched = Absent /\ inflight = {}
      BY <3>1 DEF WayInv, WayIsNewest, KnowsTheWay
    <3>3. QED
      BY <1>1, <3>1, <3>2 DEF KnowsTheWay, Resting
  <2>5. QED
    BY <2>1, <2>2, <2>3, <2>4
<1>5. QED
  BY <1>1, <1>2, <1>4, WayMoves

\* What is adopted was decided, and a settled generation it goes on from is the
\* one the scheduler still shows, with nothing on its way to it.
LEMMA WayAdopt ==
  ASSUME DispatchInv, WayInv, NEW d \in Dispatchers, Adopt(d)
  PROVE  WayInv'
<1> DEFINE o == at[d].seen
<1>1. /\ lock = d /\ TypeOK /\ at \in [Dispatchers -> Positions] /\ at[d].step = "decide"
      /\ UNCHANGED <<sched, inflight, calls>>
  BY DEF Adopt, DispatchInv, HolderIsInside, TypeOK, scheduler, ghosts
<1>2. o \in Observations /\ o # Absent
  BY <1>1 DEF Adopt, TypeOK, Positions
<1>3. PhaseFor(o) \in Phases
  BY <1>2, PhaseForType DEF Phases, Final
<1>4. Keeps
  <2>1. CASE rec = Absent
    <3>1. rec' = [attempt |-> 1, fence |-> NoFence, phase |-> PhaseFor(o), seen |-> o, auth |-> FALSE]
      BY <2>1 DEF Adopt, Adopted, NoAttempt
    <3>2. 1 \in 0..Ceiling
      BY CeilingAssumption
    <3>3. QED
      BY <1>2, <1>3, <2>1, <3>1, <3>2 DEF Keeps, Records
  <2>2. CASE rec # Absent
    BY <1>1, <1>2, <1>3, <2>2, SightMoves DEF Adopt, Adopted
  <2>3. QED
    BY <2>1, <2>2
<1>5. ~Undecided
  BY <1>1, <1>2 DEF WayInv, UndecidedIsStill, KnowsTheWay, Adopt, Changed, Undecided
<1>6. CASE PhaseFor(o) # "SETTLED"
  BY <1>1, <1>4, <1>5, <1>6, WayEnds DEF Adopt, Leave
<1>7. CASE PhaseFor(o) = "SETTLED"
  <2>1. /\ at'[d].step = "reserve" /\ at'[d].seen = o
        /\ \A e \in Dispatchers \ {d} : at'[e] = at[e]
    BY <1>1, <1>7 DEF Adopt, Goto, Positions
  <2>2. inflight = {} /\ sched \in {o, Absent}
    BY <1>1, <1>2, <1>7 DEF WayInv, KnowsTheWay, Resting, Adopt, Changed
  <2>3. KnowsTheWay(d)'
    BY <1>1, <1>7, <2>1, <2>2 DEF KnowsTheWay, Resting
  <2>4. QED
    BY <1>1, <1>4, <1>5, <2>1, <2>3, WayMoves
<1>8. QED
  BY <1>6, <1>7

\* A new reservation is made with nothing on its way, against what the scheduler
\* still shows, and is newer than any that is carried.
LEMMA WayReserve ==
  ASSUME DispatchInv, WayInv, NEW d \in Dispatchers, Reserve(d)
  PROVE  WayInv'
<1> DEFINE o == at[d].seen
           next == Settled.attempt + 1
           fence == [attempt |-> next, seen |-> o]
<1>1. /\ lock = d /\ TypeOK /\ at \in [Dispatchers -> Positions] /\ at[d].step = "reserve"
      /\ UNCHANGED <<sched, inflight, calls>>
  BY DEF Reserve, DispatchInv, HolderIsInside, TypeOK, scheduler, ghosts
<1>2. /\ Settled \in Records /\ Settled.attempt \in 0..Ceiling
      /\ rec = Absent => Settled = NoAttempt
      /\ rec # Absent => Settled = rec
  BY <1>1, CeilingAssumption DEF TypeOK, Settled, NoAttempt, Records, Phases
<1>3. inflight = {} /\ sched \in {o, Absent} /\ Resting(o)
  BY <1>1 DEF WayInv, KnowsTheWay
<1>4. ~Undecided
  BY <1>1 DEF WayInv, UndecidedIsStill, Undecided, DispatchInv, ReservesTheSettled
<1>5. CASE rec' = [Settled EXCEPT !.phase = "STOPPED"] /\ Leave(d)
  <2>1. Keeps
    BY <1>2, <1>5 DEF Keeps, Records, NoAttempt, Phases, Final
  <2>2. QED
    BY <1>1, <1>4, <1>5, <2>1, WayEnds DEF Leave
<1>6. CASE Leave(d) /\ UNCHANGED rec
  BY <1>1, <1>6, WayEnds DEF Leave
<1>7. CASE /\ Settled.attempt < Ceiling
           /\ rec' = [attempt |-> next, fence |-> fence, phase |-> "OUTCOME_UNKNOWN",
                      seen |-> o, auth |-> NeedsAuthority(o)]
           /\ at' = [at EXCEPT ![d].step = "dispatch", ![d].task = fence]
  <2>1. at'[d].step = "dispatch" /\ at'[d].task = fence /\ \A e \in Dispatchers \ {d} : at'[e] = at[e]
    BY <1>1, <1>7 DEF Positions
  <2>2. fence # NoFence /\ rec' # Absent
    <3>1. DispatchInv'
      BY ReserveStep
    <3>2. QED
      BY <2>1, <3>1 DEF DispatchInv, CarriedIsUnspent
  <2>3. /\ rec'.attempt = next /\ rec'.fence = fence /\ rec'.phase = "OUTCOME_UNKNOWN" /\ rec'.seen = o
        /\ fence.attempt = next /\ fence.seen = o
    BY <1>7
  <2>4. \A e \in Dispatchers \ {d} : at[e].step \in {"dispatch", "call", "reconcile", "apply"} =>
            at[e].task # NoFence /\ at[e].task.attempt < next
    <3> SUFFICES ASSUME NEW e \in Dispatchers \ {d}, at[e].step \in {"dispatch", "call", "reconcile", "apply"}
                 PROVE  at[e].task # NoFence /\ at[e].task.attempt < next
      OBVIOUS
    <3>1. at[e].task # NoFence /\ rec # Absent /\ at[e].task.attempt <= rec.attempt
      BY DEF WayInv, KnowsTheWay
    <3>2. at[e].task.attempt \in 1..Ceiling
      BY <1>1, <3>1 DEF Positions, Fences
    <3>3. QED
      BY <1>2, <3>1, <3>2
  <2>5. \A e \in Dispatchers \ {d} : at[e].step \notin {"decide", "reserve", "call"}
    BY <1>1 DEF DispatchInv, HolderIsInside
  <2>6. next \in Nat
    BY <1>2
  <2> HIDE DEF o, next, fence
  <2>7. WayIsNewest'
    BY <1>1, <1>3, <2>2, <2>3 DEF WayIsNewest
  <2>8. UndecidedIsStill'
    BY <1>1, <1>3, <2>3 DEF UndecidedIsStill
  <2>9. KnowsTheWay(d)'
    BY <2>1, <2>2, <2>3, <2>6 DEF KnowsTheWay
  <2>10. ASSUME NEW e \in Dispatchers \ {d} PROVE KnowsTheWay(e)'
    <3>1. at'[e] = at[e] /\ at'[e].step \notin {"decide", "reserve", "call"}
      BY <2>1, <2>5
    <3>2. at'[e].step \in {"dispatch", "reconcile", "apply"} =>
             at'[e].task # NoFence /\ at'[e].task.attempt < next
      BY <2>4, <3>1
    <3>3. at'[e].step \in {"dispatch", "reconcile", "apply"} => at'[e].task.attempt \in 1..Ceiling
      BY <1>1, <3>1, <3>2 DEF Positions, Fences
    <3>4. at'[e].step \in {"dispatch", "reconcile", "apply"} =>
             at'[e].task # rec'.fence /\ at'[e].task.attempt <= rec'.attempt
      BY <2>3, <2>6, <3>2, <3>3
    <3>5. QED
      BY <2>2, <3>1, <3>2, <3>4 DEF KnowsTheWay
  <2>11. QED
    BY <2>7, <2>8, <2>9, <2>10 DEF WayInv
<1>8. QED
  BY <1>5, <1>6, <1>7 DEF Reserve

\* The dispatch boundary goes on only with the open reservation.
LEMMA WayRecheck ==
  ASSUME DispatchInv, WayInv, NEW d \in Dispatchers, Recheck(d)
  PROVE  WayInv'
<1>1. /\ lock = Nobody /\ TypeOK /\ at \in [Dispatchers -> Positions] /\ at[d].step = "dispatch"
      /\ UNCHANGED <<sched, inflight, calls>>
  BY DEF Recheck, DispatchInv, TypeOK, scheduler, ghosts
<1>2. CASE Quit(d) /\ UNCHANGED rec
  BY <1>1, <1>2, WayEnds
<1>3. CASE Reserved(d) /\ rec' = [rec EXCEPT !.phase = "STOPPED"] /\ Quit(d)
  <2>1. rec # Absent /\ "STOPPED" \in Phases
    BY <1>3 DEF Reserved, Phases, Final
  <2>2. Keeps /\ rec'.phase = "STOPPED" /\ rec'.seen = rec.seen
    BY <1>1, <1>3, <2>1, PhaseMoves
  <2>3. QED
    BY <1>1, <1>3, <2>2, WayEnds
<1>4. CASE \E s \in {"reconcile", "call"} : Goto(d, s) /\ UNCHANGED rec /\ Reserved(d)
  <2>1. PICK s \in {"reconcile", "call"} : Goto(d, s) /\ UNCHANGED rec /\ Reserved(d)
    BY <1>4
  <2>2. at'[d].step = s /\ at'[d].task = at[d].task /\ \A e \in Dispatchers \ {d} : at'[e] = at[e]
    BY <1>1, <2>1 DEF Goto, Positions
  <2>3. KnowsTheWay(d)'
    BY <1>1, <2>1, <2>2 DEF WayInv, KnowsTheWay, Reserved
  <2>4. QED
    BY <1>1, <2>1, <2>2, <2>3, WayMoves
<1>5. QED
  BY <1>2, <1>3, <1>4 DEF Recheck

\* A request is made with none on its way: the one that would be belongs to the
\* reservation it is made for, which has not been spent.
LEMMA WayCall ==
  ASSUME DispatchInv, WayInv, NEW d \in Dispatchers, Call(d)
  PROVE  WayInv'
<1>1. /\ lock = d /\ TypeOK /\ at \in [Dispatchers -> Positions] /\ at[d].step = "call" /\ rec' = rec
  BY DEF Call, DispatchInv, HolderIsInside, TypeOK, ledger
<1>2. rec # Absent /\ rec.fence = at[d].task /\ at[d].task # NoFence /\ calls[at[d].task.attempt] = 0
  BY <1>1 DEF WayInv, KnowsTheWay, Reserved, DispatchInv, CarriedIsUnspent
<1>3. rec.attempt = at[d].task.attempt /\ rec.attempt \in 1..Ceiling
  BY <1>1, <1>2 DEF DispatchInv, FenceSaysAuthority, Positions, Fences
<1>4. inflight = {} /\ Undecided
  BY <1>2, <1>3 DEF WayInv, WayIsNewest, Undecided
<1>5. calls'[rec.attempt] = 1
  <2>1. calls \in [1..Ceiling -> Nat] /\ calls' = [calls EXCEPT ![rec.attempt] = calls[rec.attempt] + 1]
    BY <1>1, <1>3 DEF Call, TypeOK
  <2>2. QED
    BY <1>2, <1>3, <2>1
<1>6. /\ at'[d].step = "reconcile" /\ at'[d].task = at[d].task
      /\ \A e \in Dispatchers \ {d} : at'[e] = at[e]
  BY <1>1 DEF Call, Goto, Positions
<1>7. \A e \in Dispatchers \ {d} : at[e].step \notin {"decide", "reserve", "call"}
  BY <1>1 DEF DispatchInv, HolderIsInside
<1>8. \/ inflight' = {}
      \/ /\ inflight' = {[attempt |-> rec.attempt, kind |-> KindFor(rec.fence.seen)]}
         /\ sched' = sched
  BY <1>2, <1>3, <1>4 DEF Call, KindFor
<1>9. WayIsNewest'
  BY <1>1, <1>2, <1>5, <1>8 DEF WayIsNewest
<1>10. Undecided' => sched' = sched
  BY <1>1, <1>5, <1>8 DEF Undecided
<1>11. UndecidedIsStill'
  BY <1>1, <1>4, <1>10 DEF WayInv, UndecidedIsStill
<1>12. KnowsTheWay(d)'
  BY <1>1, <1>6 DEF WayInv, KnowsTheWay
<1>13. \A e \in Dispatchers \ {d} : KnowsTheWay(e)'
  BY <1>1, <1>4, <1>6, <1>7 DEF WayInv, KnowsTheWay
<1>14. QED
  BY <1>9, <1>11, <1>12, <1>13 DEF WayInv

\* The request that arrives was the only one on its way.
LEMMA WayArrive ==
  ASSUME DispatchInv, WayInv, NEW q \in inflight, Arrive(q)
  PROVE  WayInv'
<1>1. UNCHANGED <<rec, at, calls>> /\ inflight' = inflight \ {q}
  BY DEF Arrive, ledger, ghosts
<1>2. rec # Absent /\ rec.fence # NoFence /\ calls[rec.attempt] = 1 /\ \A p \in inflight : p = q
  BY DEF WayInv, WayIsNewest
<1>3. inflight' = {}
  BY <1>1, <1>2
<1>4. ~Undecided'
  BY <1>1, <1>2, <1>3 DEF Undecided
<1>5. \A d \in Dispatchers : KnowsTheWay(d)'
  BY <1>1, <1>2, <1>4 DEF WayInv, KnowsTheWay, Reserved
<1>6. QED
  BY <1>3, <1>4, <1>5 DEF WayInv, WayIsNewest, UndecidedIsStill

\* An instance on which a decision rests has ended: it may be lost, and nothing
\* else moves it.
LEMMA WayScheduler ==
  ASSUME DispatchInv, WayInv, Progress \/ Terminate \/ Lose
  PROVE  WayInv'
<1>1. UNCHANGED <<rec, at, calls, inflight>> /\ sched # Absent /\ TypeOK
  BY DEF Progress, Terminate, Lose, ledger, ghosts, DispatchInv
<1>2. sched' = Absent \/ ~Resting(sched)
  BY <1>1 DEF Progress, Terminate, Lose, Resting, PhaseFor, Running
<1>3. Undecided' = Undecided /\ WayIsNewest'
  BY <1>1 DEF Undecided, WayInv, WayIsNewest
<1>4. UndecidedIsStill'
  BY <1>1, <1>2, <1>3 DEF WayInv, UndecidedIsStill
<1>5. ASSUME NEW d \in Dispatchers PROVE KnowsTheWay(d)'
  <2>1. at[d].step = "decide" /\ rec = Absent /\ at[d].seen = Absent => sched' = Absent
    BY <1>1 DEF WayInv, KnowsTheWay
  <2>2. Resting(at[d].seen) /\ sched \in {at[d].seen, Absent} => sched' = Absent
    BY <1>1, <1>2
  <2>3. QED
    BY <1>1, <1>3, <2>1, <2>2 DEF WayInv, KnowsTheWay, Reserved
<1>6. QED
  BY <1>3, <1>4, <1>5 DEF WayInv

\* No request is on its way at first, and every step keeps the invariant.
LEMMA WayInit == Init => WayInv
<1> SUFFICES ASSUME Init PROVE WayInv
  OBVIOUS
<1>1. \A d \in Dispatchers : at[d].step = "idle"
  BY DEF Init, Idle
<1>2. QED
  BY <1>1 DEF Init, WayInv, WayIsNewest, UndecidedIsStill, Undecided, KnowsTheWay

LEMMA WayNext == DispatchInv /\ WayInv /\ [Next]_vars => WayInv'
<1> SUFFICES ASSUME DispatchInv, WayInv, [Next]_vars PROVE WayInv'
  OBVIOUS
<1>1. ASSUME NEW d \in Dispatchers, Scan(d) \/ Crash(d) PROVE WayInv'
  BY <1>1, WayLeaving, WayLooks, WayAdopt, WayReserve, WayRecheck, WayCall DEF Scan
<1>2. CASE Grant \/ Lapse \/ Expire \/ UNCHANGED vars
  <2>1. UNCHANGED <<rec, at, calls, inflight, sched>>
    BY <1>2 DEF Grant, Lapse, Expire, vars, ledger, scheduler, ghosts
  <2>2. QED
    BY <2>1 DEF WayInv, WayIsNewest, UndecidedIsStill, Undecided, KnowsTheWay, Reserved
<1>3. QED
  BY <1>1, <1>2, WayArrive, WayScheduler DEF Next

\* However dispatchers interleave and whatever the scheduler loses or delays, a
\* second request is never made while one is on its way (OneRequestOnItsWay).
THEOREM RequestsOneByOne == Spec => []OneRequestOnItsWay
<1>1. WayInv => OneRequestOnItsWay
  <2> SUFFICES ASSUME WayInv PROVE Cardinality(inflight) <= 1
    BY DEF OneRequestOnItsWay
  <2>1. CASE inflight = {}
    BY <2>1, FS_EmptySet
  <2>2. CASE inflight # {}
    <3>1. PICK q : q \in inflight
      BY <2>2
    <3>2. inflight = {q}
      BY <3>1 DEF WayInv, WayIsNewest
    <3>3. IsFiniteSet(inflight) /\ Cardinality(inflight) = 1
      BY <3>2, FS_Singleton
    <3>4. QED
      BY <3>3
  <2>3. QED
    BY <2>1, <2>2
<1>2. QED
  BY <1>1, DispatchSafe, WayInit, WayNext, PTL DEF Spec

=============================================================================
