------------------------- MODULE LiveScheduleProofs -------------------------
(***************************************************************************)
(* Proofs about LiveSchedule, for any commands, groups and timers and any  *)
(* number of failures, aborts, losses and releases.                        *)
(*                                                                         *)
(* The state file is one thing (FileInv): a group has one owner, and the   *)
(* commands that wait name it.  The scheduler is another: while it keeps   *)
(* its instances (Kept), every attempt before the current one has failed,  *)
(* so an instance a timer saw succeed is the current attempt however old   *)
(* the snapshot it came from is; and whatever a timer has still to         *)
(* dispatch is the current attempt or an instance that is there already.   *)
(***************************************************************************)
EXTENDS LiveSchedule, WellFoundedInduction, TLAPS

OnePerGroup == \A c, d \in active : Group[c] = Group[d] => c = d
RootsAreOwn == \A c \in Commands : retained[c].state # "COALESCED" => retained[c].root = c
FileInv == OnePerGroup /\ RootsAreOwn /\ StateLoads

\* An instance is in one state, and a success is recorded.
InstancesAreOne ==
    /\ failed \cap done = {} /\ running \cap (failed \cup done) = {}
    /\ \A op \in done : op[1] \in succeeded

\* A timer releases what it saw succeed.
ReleasesAreSeen == \A t \in Timers : at[t].step = "release" => at[t].op[1] \in succeeded

Current(op) == op[1] \in active /\ op[2] = retained[op[1]].attempt
Seen(op) == Current(op) \/ op \in Known

\* While the scheduler keeps its instances.
KnownAreStarted ==
    \A op \in Known : retained[op[1]].state = "STARTED" /\ op[2] <= retained[op[1]].attempt
EarlierFailed ==
    \A c \in active : \A k \in Nat : k < retained[c].attempt => <<c, k>> \in failed
ReleasedAreKnown ==
    \A c \in Commands : retained[c].state = "STARTED" /\ c \notin active =>
        <<c, retained[c].attempt>> \in Known
TimersAreBehind ==
    \A t \in Timers :
        /\ \A op \in todo[t] \cup out[t] : Seen(op)
        /\ at[t].step = "start" => Seen(at[t].op)
        /\ at[t].step = "retry" => at[t].op \in failed
        /\ at[t].step = "release" => at[t].op \in done
RunningIsCurrent == \A op \in running : Current(op)
Kept ==
    losses = 0 =>
        KnownAreStarted /\ EarlierFailed /\ ReleasedAreKnown /\ TimersAreBehind /\ RunningIsCurrent

\* What the invariant says of the scheduler; the rest bears on its outcomes only.
instances == <<running, failed, done, succeeded, losses>>

ScheduleInv ==
    TypeOK /\ FileInv /\ ReleasedIsDone /\ InstancesAreOne /\ ReleasesAreSeen /\ Kept

-----------------------------------------------------------------------------
\* A set of numbers that is not empty has a least one.
LEMMA LeastNumber ==
    ASSUME NEW S, S \subseteq Nat, S # {}
    PROVE  \E x \in S : \A y \in S : x <= y
<1>1. IsWellFoundedOn(OpToRel(<, Nat), Nat)
    BY NatLessThanWellFounded
<1>2. PICK x \in S : \A y \in S : ~(<<y, x>> \in OpToRel(<, Nat))
    BY <1>1, WFMin
<1>3. \A y \in S : ~(y < x)
    BY <1>2 DEF OpToRel
<1> QED
    BY <1>3

\* The command that is promoted is one of those that wait.
LEMMA OldestWaits ==
    ASSUME NEW S, S \subseteq Commands, S # {}
    PROVE  Oldest(S) \in S
BY LeastNumber, CommandsAssumption DEF Oldest

\* The operation a timer is about.
LEMMA TimerFields ==
    ASSUME TypeOK, NEW t \in Timers
    PROVE  /\ at[t].op \in Operations /\ at[t].op[1] \in Commands /\ at[t].op[2] \in Nat
           /\ at[t].op = <<at[t].op[1], at[t].op[2]>>
           /\ at[t].step \in Steps /\ cmd[t] \in Commands
           /\ todo[t] \subseteq Operations /\ out[t] \subseteq Operations
BY DEF TypeOK, Operations

\* What a timer's step does to its place.
LEMMA Gone ==
    ASSUME TypeOK, NEW t \in Timers, NEW step \in Steps, NEW op \in Operations, Goto(t, step, op)
    PROVE  /\ at' \in [Timers -> [step : Steps, op : Operations]]
           /\ at'[t].step = step /\ at'[t].op = op
           /\ \A u \in Timers : u # t => at'[u] = at[u]
BY DEF TypeOK, Goto

\* A timer without an operation of its own points at some command.
LEMMA FirstIsCommand == First \in Commands /\ <<First, 0>> \in Operations
BY CommandsAssumption DEF First, Operations

\* The commands of the file after an advance and a promotion.
LEMMA AdvancedFile ==
    ASSUME TypeOK, NEW c \in Commands, NEW n \in Nat
    PROVE  /\ Advance(c, n) \in [Commands -> Stored]
           /\ \A d \in Commands :
                 /\ Advance(c, n)[d].state = retained[d].state
                 /\ Advance(c, n)[d].root = retained[d].root
                 /\ Advance(c, n)[d].attempt =
                        IF Group[d] = Group[c] /\ retained[d].root = c THEN n ELSE retained[d].attempt
BY DEF TypeOK, Advance, Stored

\* Only the commands that wait are changed by a promotion.
LEMMA PromotedFile ==
    ASSUME TypeOK, NEW c \in Commands
    PROVE  /\ Promoted(c) \in [Commands -> Stored]
           /\ \A d \in Commands : d \notin Waiting(c) => Promoted(c)[d] = retained[d]
           /\ \A d \in Waiting(c) :
                 /\ Promoted(c)[d].state =
                        IF d = Oldest(Waiting(c)) THEN "STARTED" ELSE "COALESCED"
                 /\ Promoted(c)[d].root = Oldest(Waiting(c))
                 /\ Promoted(c)[d].attempt = 0
<1>1. Waiting(c) \subseteq Commands
    BY DEF Waiting
<1>2. Waiting(c) # {} => Oldest(Waiting(c)) \in Commands
    BY <1>1, OldestWaits
<1>3. \A d \in Commands : retained[d] \in Stored /\ retained[d].matrix \in 0..MaxReleases
    BY DEF TypeOK, Stored
<1> QED
    BY <1>1, <1>2, <1>3 DEF Promoted, Stored

\* The owner of a group that has one.
LEMMA OwnerOwns ==
    ASSUME NEW c, Owned(c)
    PROVE  Owner(c) \in active /\ Group[Owner(c)] = Group[c]
BY DEF Owned, Owner

\* What claim retains for a new command.
LEMMA NewEntry ==
    ASSUME TypeOK, NEW c \in Commands
    PROVE  /\ Entry(c) \in Stored
           /\ Entry(c).state \in {"STARTED", "COALESCED"}
           /\ <<Entry(c).root, Entry(c).attempt>> \in Operations
           /\ Owned(c) => /\ Entry(c).state = "COALESCED" /\ Entry(c).root = Owner(c)
                          /\ Entry(c).attempt = retained[Owner(c)].attempt
           /\ ~Owned(c) => Entry(c).state = "STARTED" /\ Entry(c).root = c /\ Entry(c).attempt = 0
<1>1. matrix \in 0..MaxReleases
    BY DEF TypeOK
<1>2. Owned(c) => Owner(c) \in Commands /\ retained[Owner(c)].attempt \in Nat
    BY OwnerOwns DEF TypeOK, Stored
<1> QED
    BY <1>1, <1>2 DEF Entry, Stored, Operations

-----------------------------------------------------------------------------
(* Types. *)

\* Every step keeps the types.
LEMMA TypeStep ==
    ASSUME ScheduleInv, [Next]_vars
    PROVE  TypeOK'
<1>1. TypeOK
    BY DEF ScheduleInv
<1>2. /\ at \in [Timers -> [step : Steps, op : Operations]]
      /\ todo \in [Timers -> SUBSET Operations] /\ out \in [Timers -> SUBSET Operations]
      /\ cmd \in [Timers -> Commands] /\ retained \in [Commands -> Stored]
      /\ active \subseteq Commands
    BY <1>1 DEF TypeOK
<1>3. ASSUME NEW t \in Timers, NEW how \in {"idle", "failed"}, End(t, how)
      PROVE  /\ at' \in [Timers -> [step : Steps, op : Operations]]
             /\ todo' \in [Timers -> SUBSET Operations] /\ out' \in [Timers -> SUBSET Operations]
    <2>1. how \in Steps
        BY DEF Steps
    <2>2. at' \in [Timers -> [step : Steps, op : Operations]]
        BY <1>1, <1>3, <2>1, FirstIsCommand, Gone DEF End
    <2> QED
        BY <1>2, <1>3, <2>2 DEF End
<1>4. ASSUME NEW t \in Timers, Back(t)
      PROVE  at' \in [Timers -> [step : Steps, op : Operations]]
    <2>1. "reconcile" \in Steps
        BY DEF Steps
    <2> QED
        BY <1>1, <1>4, <2>1, FirstIsCommand, Gone DEF Back
<1>5. ASSUME NEW op \in Operations, Ensure(op) PROVE running' \subseteq Operations
    BY <1>1, <1>5 DEF Ensure, TypeOK
<1>6. ASSUME NEW t \in Timers, NEW c \in Commands, Deliver(t, c) PROVE TypeOK'
    <2>1. {<<d, retained[d].attempt>> : d \in active} \subseteq Operations
        BY <1>2 DEF Stored, Operations
    <2>2. at' \in [Timers -> [step : Steps, op : Operations]]
        BY <1>4, <1>6 DEF Deliver
    <2> QED
        BY <1>1, <1>2, <1>6, <2>1, <2>2 DEF Deliver, TypeOK, file, scheduler, ended
<1>7. ASSUME NEW t \in Timers, Ask(t) PROVE TypeOK'
    <2>1. PICK op \in todo[t] :
              /\ todo' = [todo EXCEPT ![t] = @ \ {op}]
              /\ out' = [out EXCEPT ![t] = IF op \in Known THEN @ ELSE @ \cup {op}]
              /\ IF Judged(op) = "reconcile" THEN Back(t) ELSE Goto(t, Judged(op), op)
        BY <1>7 DEF Ask
    <2>2. op \in Operations
        BY <1>2
    <2>3. Judged(op) \in Steps
        BY DEF Judged, Steps
    <2>4. at' \in [Timers -> [step : Steps, op : Operations]]
        BY <1>1, <1>4, <2>1, <2>2, <2>3, Gone
    <2>5. todo' \in [Timers -> SUBSET Operations] /\ out' \in [Timers -> SUBSET Operations]
        BY <1>2, <2>1, <2>2
    <2> QED
        BY <1>1, <1>7, <2>4, <2>5 DEF Ask, TypeOK, file, scheduler, ended
<1>8. ASSUME NEW t \in Timers, Retry(t) PROVE TypeOK'
    <2> DEFINE c == at[t].op[1]
               n == at[t].op[2]
    <2>1. c \in Commands /\ n \in Nat /\ n + 1 \in Nat /\ <<c, n + 1>> \in Operations
        BY <1>1, TimerFields DEF Operations
    <2>2. UNCHANGED <<active, scheduler, cmd, matrix, aborts>>
        BY <1>8 DEF Retry
    <2>3. CASE c \in active /\ retained[c].attempt \in {n, n + 1}
        <3>1. /\ retained' = Advance(c, n + 1)
              /\ out' = [out EXCEPT ![t] = @ \cup {<<c, n + 1>>}]
              /\ Back(t) /\ todo' = todo
            BY <1>8, <2>3 DEF Retry
        <3>2. retained' \in [Commands -> Stored]
            BY <1>1, <2>1, <3>1, AdvancedFile
        <3>3. out' \in [Timers -> SUBSET Operations]
            BY <1>2, <2>1, <3>1
        <3>4. at' \in [Timers -> [step : Steps, op : Operations]]
            BY <1>4, <3>1
        <3> QED
            BY <1>1, <2>2, <3>1, <3>2, <3>3, <3>4 DEF TypeOK, scheduler, ended
    <2>4. CASE ~(c \in active /\ retained[c].attempt \in {n, n + 1})
        <3>1. End(t, "failed") /\ retained' = retained
            BY <1>8, <2>4 DEF Retry
        <3> QED
            BY <1>1, <1>3, <2>2, <3>1 DEF TypeOK, scheduler, ended
    <2> QED BY <2>3, <2>4
<1>9. ASSUME NEW t \in Timers, Release(t) PROVE TypeOK'
    <2> DEFINE c == at[t].op[1]
    <2>1. c \in Commands
        BY <1>1, TimerFields
    <2>2. UNCHANGED <<scheduler, cmd, matrix, aborts>>
        BY <1>9 DEF Release
    <2>3. CASE c \in active
        <3>1. /\ retained' = Promoted(c) /\ Back(t) /\ todo' = todo
              /\ IF Waiting(c) = {}
                 THEN active' = active \ {c} /\ out' = out
                 ELSE /\ active' = (active \ {c}) \cup {Oldest(Waiting(c))}
                      /\ out' = [out EXCEPT ![t] = @ \cup {<<Oldest(Waiting(c)), 0>>}]
            BY <1>9, <2>3 DEF Release
        <3>2. retained' \in [Commands -> Stored]
            BY <1>1, <2>1, <3>1, PromotedFile
        <3>3. Waiting(c) # {} => Oldest(Waiting(c)) \in Commands
            BY OldestWaits DEF Waiting
        <3>4. out' \in [Timers -> SUBSET Operations] /\ active' \subseteq Commands
            BY <1>2, <3>1, <3>3 DEF Operations
        <3>5. at' \in [Timers -> [step : Steps, op : Operations]]
            BY <1>4, <3>1
        <3> QED
            BY <1>1, <2>2, <3>1, <3>2, <3>4, <3>5 DEF TypeOK, scheduler, ended
    <2>4. CASE c \notin active
        <3>1. End(t, "failed") /\ UNCHANGED file
            BY <1>9, <2>4 DEF Release
        <3> QED
            BY <1>1, <1>3, <2>2, <3>1 DEF TypeOK, scheduler, ended, file
    <2> QED BY <2>3, <2>4
<1>10. ASSUME NEW t \in Timers, Dispatch(t) PROVE TypeOK'
    <2>1. PICK op \in out[t] : Ensure(op) /\ out' = [out EXCEPT ![t] = @ \ {op}]
        BY <1>10 DEF Dispatch
    <2>2. running' \subseteq Operations /\ out' \in [Timers -> SUBSET Operations]
        BY <1>2, <1>5, <2>1
    <2> QED
        BY <1>1, <1>10, <2>2 DEF Dispatch, TypeOK, file, ended
<1>11. ASSUME NEW t \in Timers, Claim(t) PROVE TypeOK'
    <2> DEFINE c == cmd[t]
    <2>1. c \in Commands /\ "start" \in Steps
        BY <1>2 DEF Steps
    <2>2. UNCHANGED <<scheduler, cmd, matrix, aborts>>
        BY <1>11 DEF Claim
    <2>3. CASE retained[c].state = "NONE"
        <3>1. /\ retained' = [retained EXCEPT ![c] = Entry(c)]
              /\ active' = IF Entry(c).state = "STARTED" THEN active \cup {c} ELSE active
              /\ Goto(t, "start", <<Entry(c).root, Entry(c).attempt>>)
              /\ todo' = todo /\ out' = out
            BY <1>11, <2>3 DEF Claim
        <3>2. at' \in [Timers -> [step : Steps, op : Operations]]
            BY <1>1, <2>1, <3>1, NewEntry, Gone
        <3>3. retained' \in [Commands -> Stored] /\ active' \subseteq Commands
            BY <1>1, <1>2, <2>1, <3>1, NewEntry
        <3> QED
            BY <1>1, <2>2, <3>1, <3>2, <3>3 DEF TypeOK, scheduler, ended
    <2>4. CASE retained[c].state # "NONE"
        <3>1. /\ retained' = retained /\ active' = active
              /\ \/ /\ Goto(t, "start", <<retained[c].root, retained[c].attempt>>)
                    /\ todo' = todo /\ out' = out
                 \/ End(t, "failed")
            BY <1>11, <2>4 DEF Claim, file
        <3>2. <<retained[c].root, retained[c].attempt>> \in Operations
            BY <1>2, <2>1 DEF Stored, Operations
        <3>3. /\ at' \in [Timers -> [step : Steps, op : Operations]]
              /\ todo' \in [Timers -> SUBSET Operations] /\ out' \in [Timers -> SUBSET Operations]
            BY <1>1, <1>2, <1>3, <2>1, <3>1, <3>2, Gone
        <3> QED
            BY <1>1, <2>2, <3>1, <3>3 DEF TypeOK, scheduler, ended
    <2> QED BY <2>3, <2>4
<1>12. ASSUME NEW t \in Timers, Start(t) PROVE TypeOK'
    <2>1. running' \subseteq Operations
        BY <1>1, <1>5, <1>12, TimerFields DEF Start
    <2>2. End(t, "idle")
        BY <1>12 DEF Start
    <2> QED
        BY <1>1, <1>3, <1>12, <2>1, <2>2 DEF Start, TypeOK, file, ended
<1>13. ASSUME NEW t \in Timers, Abort(t) PROVE TypeOK'
    <2>1. End(t, "idle") /\ aborts' \in 0..MaxAborts
        BY <1>1, <1>13, LimitsAssumption DEF Abort, TypeOK
    <2> QED
        BY <1>1, <1>3, <1>13, <2>1 DEF Abort, TypeOK, file, scheduler, ended
<1>14. ASSUME NEW op \in running, Succeed(op) PROVE TypeOK'
    <2>1. op \in Operations /\ op[1] \in Commands
        BY <1>1 DEF TypeOK, Operations
    <2> QED
        BY <1>1, <1>14, <2>1 DEF Succeed, TypeOK, file, timer
<1>15. ASSUME NEW op \in running, FallShort(op) PROVE TypeOK'
    <2>1. op \in Operations /\ op[1] \in Commands /\ failures' \in 0..MaxFailures
        BY <1>1, <1>15, LimitsAssumption DEF TypeOK, FallShort, Operations
    <2>2. stopped' \subseteq Commands
        BY <1>1, <1>15, <2>1 DEF TypeOK, FallShort
    <2> QED
        BY <1>1, <1>15, <2>1, <2>2 DEF FallShort, Failed, TypeOK, file, timer
<1>16. ASSUME Lose PROVE TypeOK'
    BY <1>1, <1>16, LimitsAssumption DEF Lose, TypeOK, file, timer
<1>17. ASSUME Redeploy PROVE TypeOK'
    <2>1. matrix' \in 0..MaxReleases
        BY <1>1, <1>17, LimitsAssumption DEF Redeploy, TypeOK
    <2>2. admitted' \subseteq Operations
        BY <1>1, <1>17 DEF Redeploy, TypeOK
    <2> QED
        BY <1>1, <1>17, <2>1, <2>2 DEF Redeploy, TypeOK, file, timer
<1>18. ASSUME NEW op \in running, Refuse(op) PROVE TypeOK'
    BY <1>1, <1>18 DEF Refuse, Failed, TypeOK, file, timer
<1>19. ASSUME UNCHANGED vars PROVE TypeOK'
    BY <1>1, <1>19 DEF vars, TypeOK
<1> QED
    BY <1>6, <1>7, <1>8, <1>9, <1>10, <1>11, <1>12, <1>13, <1>14, <1>15, <1>16, <1>17, <1>18,
       <1>19
       DEF Next, Step

-----------------------------------------------------------------------------
(* The state file. *)

\* What the three actions that write the file make of it.
LEMMA RetryWrites ==
    ASSUME ScheduleInv, NEW t \in Timers, Retry(t),
           at[t].op[1] \in active, retained[at[t].op[1]].attempt \in {at[t].op[2], at[t].op[2] + 1}
    PROVE  /\ active' = active
           /\ \A d \in Commands :
                 /\ retained'[d].state = retained[d].state /\ retained'[d].root = retained[d].root
                 /\ retained'[d].attempt =
                        IF Group[d] = Group[at[t].op[1]] /\ retained[d].root = at[t].op[1]
                        THEN at[t].op[2] + 1 ELSE retained[d].attempt
<1>1. TypeOK
    BY DEF ScheduleInv
<1>2. at[t].op[1] \in Commands /\ at[t].op[2] + 1 \in Nat
    BY <1>1, TimerFields
<1>3. retained' = Advance(at[t].op[1], at[t].op[2] + 1) /\ active' = active
    BY DEF Retry
<1> QED
    BY <1>1, <1>2, <1>3, AdvancedFile

\* mark_terminal: the root is released and the oldest waiting command owns the group.
LEMMA ReleaseWrites ==
    ASSUME ScheduleInv, NEW t \in Timers, Release(t), at[t].op[1] \in active
    PROVE  LET c == at[t].op[1] IN
           /\ c \in Commands /\ Waiting(c) \subseteq Commands /\ retained' = Promoted(c)
           /\ Waiting(c) = {} => active' = active \ {c} /\ retained' = retained
           /\ Waiting(c) # {} => /\ Oldest(Waiting(c)) \in Waiting(c)
                                 /\ active' = (active \ {c}) \cup {Oldest(Waiting(c))}
<1>1. TypeOK
    BY DEF ScheduleInv
<1>2. at[t].op[1] \in Commands
    BY <1>1, TimerFields
<1>3. /\ retained' = Promoted(at[t].op[1])
      /\ IF Waiting(at[t].op[1]) = {}
         THEN active' = active \ {at[t].op[1]}
         ELSE active' = (active \ {at[t].op[1]}) \cup {Oldest(Waiting(at[t].op[1]))}
    BY DEF Release
<1>4. Waiting(at[t].op[1]) \subseteq Commands
    BY DEF Waiting
<1>5. Waiting(at[t].op[1]) = {} => Promoted(at[t].op[1]) = retained
    BY <1>1 DEF Promoted, TypeOK
<1> QED
    BY <1>2, <1>3, <1>4, <1>5, OldestWaits

\* claim: the new command waits for the owner of its group, or becomes it.
LEMMA ClaimWrites ==
    ASSUME ScheduleInv, NEW t \in Timers, Claim(t), retained[cmd[t]].state = "NONE"
    PROVE  /\ cmd[t] \in Commands
           /\ retained' = [retained EXCEPT ![cmd[t]] = Entry(cmd[t])]
           /\ active' = IF Owned(cmd[t]) THEN active ELSE active \cup {cmd[t]}
           /\ todo' = todo /\ out' = out
           /\ Goto(t, "start", <<Entry(cmd[t]).root, Entry(cmd[t]).attempt>>)
<1>1. TypeOK /\ cmd[t] \in Commands
    BY TimerFields DEF ScheduleInv
<1>2. /\ retained' = [retained EXCEPT ![cmd[t]] = Entry(cmd[t])]
      /\ active' = IF Entry(cmd[t]).state = "STARTED" THEN active \cup {cmd[t]} ELSE active
      /\ todo' = todo /\ out' = out
      /\ Goto(t, "start", <<Entry(cmd[t]).root, Entry(cmd[t]).attempt>>)
    BY DEF Claim
<1> QED
    BY <1>1, <1>2, NewEntry

\* Every other step leaves the file alone, and no success is forgotten.
LEMMA FileUntouched ==
    ASSUME [Next]_vars,
           ~\E t \in Timers :
               \/ Retry(t) /\ at[t].op[1] \in active
                           /\ retained[at[t].op[1]].attempt \in {at[t].op[2], at[t].op[2] + 1}
               \/ Release(t) /\ at[t].op[1] \in active
               \/ Claim(t) /\ retained[cmd[t]].state = "NONE"
    PROVE  UNCHANGED file
BY DEF Next, Step, vars, file, Ask, Retry, Release, Dispatch, Claim, Start, Abort, Deliver,
       Succeed, FallShort, Refuse, Lose, Redeploy

\* The history of successes only grows.
LEMMA SucceededStays ==
    ASSUME [Next]_vars
    PROVE  succeeded \subseteq succeeded'
BY DEF Next, Step, vars, scheduler, ended, Ask, Retry, Release, Dispatch, Claim, Start, Abort, Deliver,
       Succeed, FallShort, Refuse, Lose, Redeploy

\* The owners of the groups, and what waits for them, stay in order.
LEMMA FileStep ==
    ASSUME ScheduleInv, [Next]_vars
    PROVE  FileInv' /\ ReleasedIsDone'
<1>1. /\ TypeOK /\ OnePerGroup /\ RootsAreOwn /\ StateLoads /\ ReleasedIsDone
      /\ active \subseteq Commands /\ retained \in [Commands -> Stored]
    BY DEF ScheduleInv, FileInv, TypeOK
<1>2. succeeded \subseteq succeeded'
    BY SucceededStays
<1>3. CASE UNCHANGED file
    BY <1>1, <1>2, <1>3 DEF file, FileInv, OnePerGroup, RootsAreOwn, StateLoads, ReleasedIsDone
<1>4. ASSUME NEW t \in Timers, Retry(t), at[t].op[1] \in active,
             retained[at[t].op[1]].attempt \in {at[t].op[2], at[t].op[2] + 1}
      PROVE  FileInv' /\ ReleasedIsDone'
    <2>1. /\ active' = active
          /\ \A d \in Commands :
                /\ retained'[d].state = retained[d].state /\ retained'[d].root = retained[d].root
                /\ retained'[d].attempt =
                       IF Group[d] = Group[at[t].op[1]] /\ retained[d].root = at[t].op[1]
                       THEN at[t].op[2] + 1 ELSE retained[d].attempt
        BY <1>4, RetryWrites
    <2>2. OnePerGroup' /\ RootsAreOwn'
        BY <1>1, <2>1 DEF OnePerGroup, RootsAreOwn
    <2>3. ReleasedIsDone'
        BY <1>1, <1>2, <2>1 DEF ReleasedIsDone
    <2>4. ASSUME NEW c \in Commands, retained'[c].state = "COALESCED"
          PROVE  \E d \in active' : /\ Group[d] = Group[c] /\ retained'[c].root = d
                                    /\ retained'[c].attempt = retained'[d].attempt
        <3>1. PICK d \in active : /\ Group[d] = Group[c] /\ retained[c].root = d
                                  /\ retained[c].attempt = retained[d].attempt
            BY <1>1, <2>1, <2>4 DEF StateLoads
        <3>2. d \in Commands /\ retained[d].root = d
            BY <1>1 DEF StateLoads
        <3> QED
            BY <2>1, <3>1, <3>2
    <2>5. StateLoads'
        BY <1>1, <2>1, <2>4 DEF StateLoads
    <2> QED
        BY <2>2, <2>3, <2>5 DEF FileInv
<1>5. ASSUME NEW t \in Timers, Release(t), at[t].op[1] \in active
      PROVE  FileInv' /\ ReleasedIsDone'
    <2> DEFINE c == at[t].op[1]
               o == Oldest(Waiting(c))
    <2>1. /\ c \in Commands /\ Waiting(c) \subseteq Commands /\ retained' = Promoted(c)
          /\ Waiting(c) = {} => active' = active \ {c} /\ retained' = retained
          /\ Waiting(c) # {} => o \in Waiting(c) /\ active' = (active \ {c}) \cup {o}
        BY <1>5, ReleaseWrites
    <2>2. c \in active /\ c \in succeeded /\ retained[c].state = "STARTED" /\ retained[c].root = c
        BY <1>1, <1>5 DEF ScheduleInv, ReleasesAreSeen, Release, StateLoads
    <2>3. /\ \A d \in Commands : d \notin Waiting(c) => retained'[d] = retained[d]
          /\ \A d \in Waiting(c) :
                /\ retained'[d].state = IF d = o THEN "STARTED" ELSE "COALESCED"
                /\ retained'[d].root = o
                /\ retained'[d].attempt = 0
        BY <1>1, <2>1, PromotedFile
    <2>4. \A d \in Waiting(c) : /\ d \in Commands /\ retained[d].state = "COALESCED"
                                /\ retained[d].root = c /\ Group[d] = Group[c]
        BY DEF Waiting
    <2>5. \A d \in active : d \notin Waiting(c)
        BY <1>1, <2>4 DEF StateLoads
    <2> HIDE DEF c, o
    <2>6. OnePerGroup'
        BY <1>1, <2>1, <2>2, <2>4 DEF OnePerGroup
    <2>7. RootsAreOwn'
        BY <1>1, <2>3, <2>4 DEF RootsAreOwn
    <2>8. ReleasedIsDone'
        BY <1>1, <1>2, <2>1, <2>2, <2>3 DEF ReleasedIsDone
    <2>9. ASSUME NEW d \in active' PROVE retained'[d].state = "STARTED" /\ retained'[d].root = d
        BY <1>1, <2>1, <2>3, <2>5, <2>9 DEF StateLoads
    <2>10. ASSUME NEW d \in Commands, retained'[d].state = "COALESCED"
           PROVE  \E e \in active' : /\ Group[e] = Group[d] /\ retained'[d].root = e
                                     /\ retained'[d].attempt = retained'[e].attempt
        <3>1. CASE d \in Waiting(c)
            BY <2>1, <2>3, <2>4, <3>1
        <3>2. CASE d \notin Waiting(c)
            <4>1. retained'[d] = retained[d] /\ retained[d].state = "COALESCED"
                BY <2>3, <2>10, <3>2
            <4>2. PICK e \in active : /\ Group[e] = Group[d] /\ retained[d].root = e
                                      /\ retained[d].attempt = retained[e].attempt
                BY <1>1, <4>1 DEF StateLoads
            <4>3. e # c
                BY <2>10, <3>2, <4>1, <4>2 DEF Waiting
            <4>4. e \in active' /\ retained'[e] = retained[e]
                BY <1>1, <2>1, <2>3, <2>5, <4>2, <4>3
            <4> QED
                BY <4>1, <4>2, <4>4
        <3> QED BY <3>1, <3>2
    <2>11. StateLoads'
        BY <2>9, <2>10 DEF StateLoads
    <2> QED
        BY <2>6, <2>7, <2>8, <2>11 DEF FileInv
<1>6. ASSUME NEW t \in Timers, Claim(t), retained[cmd[t]].state = "NONE"
      PROVE  FileInv' /\ ReleasedIsDone'
    <2> DEFINE c == cmd[t]
    <2>1. /\ c \in Commands /\ retained' = [retained EXCEPT ![c] = Entry(c)]
          /\ active' = IF Owned(c) THEN active ELSE active \cup {c}
        BY <1>6, ClaimWrites
    <2>2. retained'[c] = Entry(c) /\ \A d \in Commands : d # c => retained'[d] = retained[d]
        BY <1>1, <2>1
    <2>3. c \notin active /\ retained[c].state = "NONE"
        BY <1>1, <1>6 DEF StateLoads
    <2>4. /\ Owned(c) => /\ Entry(c).state = "COALESCED" /\ Entry(c).root = Owner(c)
                         /\ Entry(c).attempt = retained[Owner(c)].attempt
                         /\ Owner(c) \in active /\ Group[Owner(c)] = Group[c]
          /\ ~Owned(c) => Entry(c).state = "STARTED" /\ Entry(c).root = c
        BY <1>1, <2>1, NewEntry, OwnerOwns
    <2> HIDE DEF c
    <2>5. OnePerGroup'
        BY <1>1, <2>1 DEF OnePerGroup, Owned
    <2>6. RootsAreOwn'
        BY <1>1, <2>2, <2>4 DEF RootsAreOwn
    <2>7. ReleasedIsDone'
        BY <1>1, <1>2, <2>1, <2>2, <2>4 DEF ReleasedIsDone
    <2>8. \A d \in active : d \in Commands /\ d # c /\ retained'[d] = retained[d] /\ d \in active'
        BY <1>1, <2>1, <2>2, <2>3
    <2>9. \A d \in active' : retained'[d].state = "STARTED" /\ retained'[d].root = d
        BY <1>1, <2>1, <2>2, <2>4, <2>8 DEF StateLoads
    <2>10. ASSUME NEW d \in Commands, retained'[d].state = "COALESCED"
           PROVE  \E e \in active' : /\ Group[e] = Group[d] /\ retained'[d].root = e
                                     /\ retained'[d].attempt = retained'[e].attempt
        <3>1. CASE d = c
            BY <2>2, <2>4, <2>8, <2>10, <3>1
        <3>2. CASE d # c
            BY <1>1, <2>2, <2>8, <2>10, <3>2 DEF StateLoads
        <3> QED BY <3>1, <3>2
    <2>11. StateLoads'
        BY <2>9, <2>10 DEF StateLoads
    <2> QED
        BY <2>5, <2>6, <2>7, <2>11 DEF FileInv
<1> QED
    BY <1>3, <1>4, <1>5, <1>6, FileUntouched

-----------------------------------------------------------------------------
(* The scheduler. *)

\* An instance is started once, ends once, and a timer releases on a success.
LEMMA InstancesStep ==
    ASSUME ScheduleInv, [Next]_vars
    PROVE  InstancesAreOne' /\ ReleasesAreSeen'
<1>1. TypeOK /\ InstancesAreOne /\ ReleasesAreSeen
    BY DEF ScheduleInv
<1>2. succeeded \subseteq succeeded'
    BY SucceededStays
<1>3. InstancesAreOne'
    <2>1. ASSUME NEW op, Ensure(op), UNCHANGED <<failed, done, succeeded>> PROVE InstancesAreOne'
        BY <1>1, <2>1 DEF Ensure, InstancesAreOne, Known
    <2>2. ASSUME UNCHANGED instances PROVE InstancesAreOne'
        BY <1>1, <2>2 DEF InstancesAreOne, instances
    <2>3. ASSUME NEW op \in running, Succeed(op) PROVE InstancesAreOne'
        BY <1>1, <2>3 DEF InstancesAreOne, Succeed
    <2>4. ASSUME NEW op \in running, FallShort(op) \/ Refuse(op) PROVE InstancesAreOne'
        BY <1>1, <2>4 DEF InstancesAreOne, FallShort, Refuse, Failed
    <2>5. ASSUME Lose PROVE InstancesAreOne'
        BY <2>5 DEF InstancesAreOne, Lose
    <2>6. ASSUME NEW t \in Timers, Dispatch(t) PROVE InstancesAreOne'
        BY <2>1, <2>6 DEF Dispatch, ended
    <2>7. ASSUME NEW t \in Timers, Start(t) PROVE InstancesAreOne'
        BY <2>1, <2>7 DEF Start, ended
    <2>8. ASSUME UNCHANGED vars PROVE UNCHANGED instances
        BY <2>8 DEF vars, instances
    <2>9. ASSUME NEW t \in Timers, Ask(t) \/ Retry(t) \/ Release(t) \/ Claim(t) \/ Abort(t)
          PROVE  UNCHANGED instances
        BY <2>9 DEF Ask, Retry, Release, Claim, Abort, scheduler, ended, instances
    <2>10. ASSUME NEW t \in Timers, NEW c \in Commands, Deliver(t, c) PROVE UNCHANGED instances
        BY <2>10 DEF Deliver, scheduler, ended, instances
    <2>11. ASSUME Redeploy PROVE UNCHANGED instances
        BY <2>11 DEF Redeploy, instances
    <2> QED
        BY <2>2, <2>3, <2>4, <2>5, <2>6, <2>7, <2>8, <2>9, <2>10, <2>11 DEF Next, Step
<1>4. ReleasesAreSeen'
    <2>1. ASSUME NEW t \in Timers, NEW step \in Steps, NEW op \in Operations, Goto(t, step, op),
                 step = "release" => op[1] \in succeeded
          PROVE  ReleasesAreSeen'
        BY <1>1, <1>2, <2>1, Gone DEF ReleasesAreSeen
    <2>2. \A step \in {"idle", "failed", "reconcile", "start"} : step \in Steps /\ step # "release"
        BY DEF Steps
    <2>3. ASSUME NEW t \in Timers, NEW step \in {"idle", "failed", "reconcile", "start"},
                 NEW op \in Operations, Goto(t, step, op)
          PROVE  ReleasesAreSeen'
        BY <2>1, <2>2, <2>3
    <2>4. ASSUME NEW t \in Timers, Back(t) \/ End(t, "idle") \/ End(t, "failed")
          PROVE  ReleasesAreSeen'
        BY <2>3, <2>4, FirstIsCommand DEF Back, End
    <2>5. ASSUME at' = at PROVE ReleasesAreSeen'
        BY <1>1, <1>2, <2>5 DEF ReleasesAreSeen
    <2>6. ASSUME NEW t \in Timers, Ask(t) PROVE ReleasesAreSeen'
        <3>1. PICK op \in todo[t] : Back(t) \/ Goto(t, Judged(op), op)
            BY <2>6 DEF Ask
        <3>2. op \in Operations
            BY <1>1, TimerFields
        <3>3. Judged(op) \in Steps /\ (Judged(op) = "release" => op \in done)
            BY DEF Judged, Steps
        <3> QED
            BY <1>1, <2>1, <2>4, <3>1, <3>2, <3>3 DEF InstancesAreOne
    <2>7. ASSUME NEW t \in Timers, Claim(t) PROVE ReleasesAreSeen'
        <3>1. cmd[t] \in Commands
            BY <1>1, TimerFields
        <3>2. <<retained[cmd[t]].root, retained[cmd[t]].attempt>> \in Operations
            BY <1>1, <3>1 DEF TypeOK, Stored, Operations
        <3>3. <<Entry(cmd[t]).root, Entry(cmd[t]).attempt>> \in Operations
            BY <1>1, <3>1, NewEntry
        <3>4. \/ Goto(t, "start", <<Entry(cmd[t]).root, Entry(cmd[t]).attempt>>)
              \/ Goto(t, "start", <<retained[cmd[t]].root, retained[cmd[t]].attempt>>)
              \/ End(t, "failed")
            BY <2>7 DEF Claim
        <3> QED
            BY <2>3, <2>4, <3>2, <3>3, <3>4
    <2>8. ASSUME NEW t \in Timers, Retry(t) \/ Release(t) \/ Start(t) \/ Abort(t)
          PROVE  Back(t) \/ End(t, "idle") \/ End(t, "failed")
        BY <2>8 DEF Retry, Release, Start, Abort
    <2>9. ASSUME NEW t \in Timers, NEW c \in Commands, Deliver(t, c) PROVE Back(t)
        BY <2>9 DEF Deliver
    <2>10. ASSUME NEW t \in Timers, Dispatch(t) PROVE at' = at
        BY <2>10 DEF Dispatch
    <2>11. ASSUME NEW op \in running, Succeed(op) \/ FallShort(op) \/ Refuse(op) PROVE at' = at
        BY <2>11 DEF Succeed, FallShort, Refuse, timer
    <2>12. ASSUME Lose \/ Redeploy \/ UNCHANGED vars PROVE at' = at
        BY <2>12 DEF Lose, Redeploy, timer, vars
    <2> QED
        BY <2>4, <2>5, <2>6, <2>7, <2>8, <2>9, <2>10, <2>11, <2>12 DEF Next, Step
<1> QED
    BY <1>3, <1>4

\* A scheduler that is not lost forgets nothing.
LEMMA KnownGrows ==
    ASSUME ScheduleInv, [Next]_vars, losses' = 0
    PROVE  /\ losses = 0 /\ ~Lose
           /\ Known \subseteq Known' /\ failed \subseteq failed' /\ done \subseteq done'
<1>1. losses \in Nat
    BY DEF ScheduleInv, TypeOK
<1>2. ASSUME NEW op, Ensure(op), UNCHANGED <<failed, done, losses>>
      PROVE  /\ losses = 0 /\ Known \subseteq Known' /\ failed \subseteq failed' /\ done \subseteq done'
    BY <1>2 DEF Ensure, Known
<1>3. ~Lose
    BY <1>1 DEF Lose
<1>4. ASSUME NEW t \in Timers, Dispatch(t)
      PROVE  \E op : Ensure(op) /\ UNCHANGED <<failed, done, losses>>
    BY <1>4 DEF Dispatch, ended
<1>5. ASSUME NEW t \in Timers, Start(t)
      PROVE  \E op : Ensure(op) /\ UNCHANGED <<failed, done, losses>>
    BY <1>5 DEF Start, ended
<1>6. ASSUME NEW op \in running, Succeed(op) \/ FallShort(op) \/ Refuse(op)
      PROVE  /\ losses = 0 /\ Known \subseteq Known' /\ failed \subseteq failed' /\ done \subseteq done'
    BY <1>6 DEF Succeed, FallShort, Refuse, Failed, Known
<1>7. ASSUME UNCHANGED instances
      PROVE  /\ losses = 0 /\ Known \subseteq Known' /\ failed \subseteq failed' /\ done \subseteq done'
    BY <1>7 DEF instances, Known
<1>8. ASSUME NEW t \in Timers, Ask(t) \/ Retry(t) \/ Release(t) \/ Claim(t) \/ Abort(t)
      PROVE  UNCHANGED instances
    BY <1>8 DEF Ask, Retry, Release, Claim, Abort, scheduler, ended, instances
<1>9. ASSUME NEW t \in Timers, NEW c \in Commands, Deliver(t, c) PROVE UNCHANGED instances
    BY <1>9 DEF Deliver, scheduler, ended, instances
<1>10. ASSUME Redeploy \/ UNCHANGED vars PROVE UNCHANGED instances
    BY <1>10 DEF Redeploy, vars, instances
<1> QED
    BY <1>2, <1>3, <1>4, <1>5, <1>6, <1>7, <1>8, <1>9, <1>10 DEF Next, Step

\* The instance a timer saw succeed is the current attempt of its root.
LEMMA DoneIsCurrent ==
    ASSUME ScheduleInv, losses = 0, NEW op \in done, op[1] \in active
    PROVE  Current(op)
<1>1. /\ KnownAreStarted /\ EarlierFailed /\ op \in Known /\ op \notin failed
      /\ op[1] \in Commands /\ op[2] \in Nat /\ op = <<op[1], op[2]>>
      /\ retained[op[1]].attempt \in Nat
    BY DEF ScheduleInv, Kept, Known, InstancesAreOne, TypeOK, Operations, Stored
<1>2. op[2] <= retained[op[1]].attempt
    BY <1>1 DEF KnownAreStarted
<1>3. ~(op[2] < retained[op[1]].attempt)
    BY <1>1 DEF EarlierFailed
<1> QED
    BY <1>1, <1>2, <1>3 DEF Current

\* A current attempt is moved on from only when its instance has ended.
LEMMA CurrentMoves ==
    ASSUME ScheduleInv, [Next]_vars, losses' = 0, NEW op \in Operations, Current(op)
    PROVE  Current(op)' \/ op \in failed \cup done
<1>1. /\ TypeOK /\ OnePerGroup /\ RootsAreOwn /\ StateLoads /\ losses = 0 /\ TimersAreBehind
      /\ op[1] \in active /\ op[1] \in Commands /\ op[2] = retained[op[1]].attempt
      /\ op = <<op[1], op[2]>>
    BY KnownGrows DEF ScheduleInv, FileInv, Kept, Current, Operations
<1>2. CASE UNCHANGED file
    BY <1>1, <1>2 DEF file, Current
<1>3. ASSUME NEW t \in Timers, Retry(t), at[t].op[1] \in active,
             retained[at[t].op[1]].attempt \in {at[t].op[2], at[t].op[2] + 1}
      PROVE  Current(op)' \/ op \in failed \cup done
    <2>1. /\ active' = active
          /\ retained'[op[1]].attempt =
                 IF Group[op[1]] = Group[at[t].op[1]] /\ retained[op[1]].root = at[t].op[1]
                 THEN at[t].op[2] + 1 ELSE retained[op[1]].attempt
        BY <1>1, <1>3, RetryWrites
    <2>2. at[t].op \in failed /\ at[t].op = <<at[t].op[1], at[t].op[2]>>
        BY <1>1, <1>3, TimerFields DEF TimersAreBehind, Retry
    <2>3. retained[op[1]].root = op[1]
        BY <1>1 DEF StateLoads
    <2>4. CASE op[1] = at[t].op[1]
        BY <1>1, <1>3, <2>1, <2>2, <2>4 DEF Current
    <2>5. CASE op[1] # at[t].op[1]
        BY <1>1, <2>1, <2>3, <2>5 DEF Current
    <2> QED BY <2>4, <2>5
<1>4. ASSUME NEW t \in Timers, Release(t), at[t].op[1] \in active
      PROVE  Current(op)' \/ op \in failed \cup done
    <2>1. at[t].op \in done /\ at[t].op = <<at[t].op[1], at[t].op[2]>>
        BY <1>1, <1>4, TimerFields DEF TimersAreBehind, Release
    <2>2. CASE op[1] = at[t].op[1]
        <3>1. Current(at[t].op)
            BY <1>1, <1>4, <2>1, DoneIsCurrent
        <3> QED
            BY <1>1, <2>1, <2>2, <3>1 DEF Current
    <2>3. CASE op[1] # at[t].op[1]
        <3>1. op[1] \in active'
            BY <1>1, <1>4, <2>3, ReleaseWrites
        <3>2. op[1] \notin Waiting(at[t].op[1])
            BY <1>1 DEF StateLoads, Waiting
        <3>3. retained'[op[1]] = retained[op[1]]
            BY <1>1, <1>4, <3>2, ReleaseWrites, PromotedFile
        <3> QED
            BY <1>1, <3>1, <3>3 DEF Current
    <2> QED BY <2>2, <2>3
<1>5. ASSUME NEW t \in Timers, Claim(t), retained[cmd[t]].state = "NONE"
      PROVE  Current(op)' \/ op \in failed \cup done
    <2>1. op[1] # cmd[t]
        BY <1>1, <1>5 DEF StateLoads
    <2>2. op[1] \in active' /\ retained'[op[1]] = retained[op[1]]
        BY <1>1, <1>5, <2>1, ClaimWrites DEF TypeOK
    <2> QED
        BY <1>1, <2>2 DEF Current
<1> QED
    BY <1>2, <1>3, <1>4, <1>5, FileUntouched

\* What was seen stays seen.
LEMMA SeenStays ==
    ASSUME ScheduleInv, [Next]_vars, losses' = 0, NEW op \in Operations, Seen(op)
    PROVE  Seen(op)'
<1>1. Known \subseteq Known' /\ failed \cup done \subseteq Known
    BY KnownGrows DEF Known
<1> QED
    BY <1>1, CurrentMoves DEF Seen

\* A started command stays started, and its attempts go up.
LEMMA StartedStays ==
    ASSUME ScheduleInv, [Next]_vars, NEW c \in Commands, retained[c].state = "STARTED"
    PROVE  /\ retained'[c].state = "STARTED" /\ retained[c].attempt <= retained'[c].attempt
           /\ c \notin active => retained'[c] = retained[c] /\ c \notin active'
<1>1. /\ TypeOK /\ RootsAreOwn /\ StateLoads /\ retained[c].root = c
      /\ retained[c].attempt \in Nat /\ retained \in [Commands -> Stored]
    BY DEF ScheduleInv, FileInv, RootsAreOwn, TypeOK, Stored
<1>2. CASE UNCHANGED file
    BY <1>1, <1>2 DEF file
<1>3. ASSUME NEW t \in Timers, Retry(t), at[t].op[1] \in active,
             retained[at[t].op[1]].attempt \in {at[t].op[2], at[t].op[2] + 1}
      PROVE  /\ retained'[c].state = "STARTED" /\ retained[c].attempt <= retained'[c].attempt
             /\ c \notin active => retained'[c] = retained[c] /\ c \notin active'
    <2>1. at[t].op[1] \in Commands /\ at[t].op[2] \in Nat
        BY <1>1, TimerFields
    <2>2. retained'[c].state = "STARTED" /\ retained[c].attempt <= retained'[c].attempt
        BY <1>1, <1>3, <2>1, RetryWrites
    <2>3. c \notin active => retained'[c] = retained[c]
        <3>1. retained' = Advance(at[t].op[1], at[t].op[2] + 1)
            BY <1>3 DEF Retry
        <3> QED
            BY <1>1, <1>3, <3>1 DEF Advance
    <2> QED
        BY <1>3, <2>2, <2>3, RetryWrites
<1>4. ASSUME NEW t \in Timers, Release(t), at[t].op[1] \in active
      PROVE  /\ retained'[c].state = "STARTED" /\ retained[c].attempt <= retained'[c].attempt
             /\ c \notin active => retained'[c] = retained[c] /\ c \notin active'
    <2>1. c \notin Waiting(at[t].op[1])
        BY DEF Waiting
    <2>2. retained'[c] = retained[c]
        BY <1>1, <1>4, <2>1, ReleaseWrites, PromotedFile
    <2>3. c \notin active => c \notin active'
        BY <1>4, <2>1, ReleaseWrites
    <2> QED
        BY <1>1, <2>2, <2>3
<1>5. ASSUME NEW t \in Timers, Claim(t), retained[cmd[t]].state = "NONE"
      PROVE  /\ retained'[c].state = "STARTED" /\ retained[c].attempt <= retained'[c].attempt
             /\ c \notin active => retained'[c] = retained[c] /\ c \notin active'
    <2>1. c # cmd[t]
        BY <1>5
    <2>2. /\ retained' = [retained EXCEPT ![cmd[t]] = Entry(cmd[t])]
          /\ active' = IF Owned(cmd[t]) THEN active ELSE active \cup {cmd[t]}
        BY <1>5, ClaimWrites
    <2>3. retained'[c] = retained[c]
        BY <1>1, <2>1, <2>2
    <2> QED
        BY <1>1, <2>1, <2>2, <2>3
<1> QED
    BY <1>2, <1>3, <1>4, <1>5, FileUntouched

\* Only a dispatch adds an instance, and only the current attempt of an owner.
LEMMA NewInstances ==
    ASSUME ScheduleInv, [Next]_vars, losses' = 0, NEW op \in Known', op \notin Known
    PROVE  op \in running' /\ Current(op)'
<1>1. TypeOK /\ losses = 0 /\ TimersAreBehind /\ ~Lose
    BY KnownGrows DEF ScheduleInv, Kept
<1>2. ASSUME NEW o, Seen(o), Ensure(o), UNCHANGED <<file, failed, done>>
      PROVE  op \in running' /\ Current(op)'
    BY <1>2 DEF Ensure, Known, Seen, Current, file
<1>3. ASSUME NEW t \in Timers, Dispatch(t) PROVE op \in running' /\ Current(op)'
    <2>1. PICK o \in out[t] : Ensure(o)
        BY <1>3 DEF Dispatch
    <2> QED
        BY <1>1, <1>2, <1>3, <2>1 DEF TimersAreBehind, Dispatch, ended
<1>4. ASSUME NEW t \in Timers, Start(t) PROVE op \in running' /\ Current(op)'
    BY <1>1, <1>2, <1>4 DEF TimersAreBehind, Start, ended
<1>5. ASSUME NEW o \in running, Succeed(o) \/ FallShort(o) \/ Refuse(o) PROVE Known' = Known
    BY <1>5 DEF Succeed, FallShort, Refuse, Failed, Known
<1>6. ASSUME UNCHANGED instances PROVE Known' = Known
    BY <1>6 DEF instances, Known
<1>7. ASSUME NEW t \in Timers, Ask(t) \/ Retry(t) \/ Release(t) \/ Claim(t) \/ Abort(t)
      PROVE  UNCHANGED instances
    BY <1>7 DEF Ask, Retry, Release, Claim, Abort, scheduler, ended, instances
<1>8. ASSUME NEW t \in Timers, NEW c \in Commands, Deliver(t, c) PROVE UNCHANGED instances
    BY <1>8 DEF Deliver, scheduler, ended, instances
<1>9. ASSUME Redeploy \/ UNCHANGED vars PROVE UNCHANGED instances
    BY <1>9 DEF Redeploy, vars, instances
<1> QED
    BY <1>1, <1>3, <1>4, <1>5, <1>6, <1>7, <1>8, <1>9 DEF Next, Step

\* The instances the scheduler knows are attempts of started commands, and the
\* one that runs is the current one.
LEMMA KnownStep ==
    ASSUME ScheduleInv, [Next]_vars, losses' = 0
    PROVE  KnownAreStarted' /\ RunningIsCurrent'
<1>1. /\ TypeOK /\ losses = 0 /\ KnownAreStarted /\ RunningIsCurrent /\ InstancesAreOne
      /\ TypeOK' /\ StateLoads' /\ InstancesAreOne'
    BY KnownGrows, TypeStep, FileStep, InstancesStep DEF ScheduleInv, Kept, FileInv
<1>2. ASSUME NEW op \in Known'
      PROVE  retained'[op[1]].state = "STARTED" /\ op[2] <= retained'[op[1]].attempt
    <2>1. CASE op \in Known
        <3>1. op \in Operations /\ op[1] \in Commands /\ op[2] \in Nat
            BY <1>1, <2>1 DEF TypeOK, Known, Operations
        <3>2. retained[op[1]].state = "STARTED" /\ op[2] <= retained[op[1]].attempt
            BY <1>1, <2>1 DEF KnownAreStarted
        <3>3. retained[op[1]].attempt \in Nat /\ retained'[op[1]].attempt \in Nat
            BY <1>1, <3>1 DEF TypeOK, Stored
        <3> QED
            BY <3>1, <3>2, <3>3, StartedStays
    <2>2. CASE op \notin Known
        <3>1. op[1] \in active' /\ op[2] = retained'[op[1]].attempt
            BY <2>2, NewInstances DEF Current
        <3>2. retained'[op[1]].attempt \in Nat
            BY <1>1, <3>1 DEF TypeOK, Stored
        <3> QED
            BY <1>1, <3>1, <3>2 DEF StateLoads
    <2> QED BY <2>1, <2>2
<1>3. ASSUME NEW op \in running' PROVE Current(op)'
    <2>1. CASE op \in Known
        <3>1. op \notin failed' \cup done' /\ failed \subseteq failed' /\ done \subseteq done'
            BY <1>1, KnownGrows DEF InstancesAreOne
        <3>2. op \in running /\ op \in Operations
            BY <1>1, <2>1, <3>1 DEF Known, TypeOK
        <3>3. Current(op)
            BY <1>1, <3>2 DEF RunningIsCurrent
        <3> QED
            BY <3>1, <3>2, <3>3, CurrentMoves
    <2>2. CASE op \notin Known
        BY <2>2, NewInstances DEF Known
    <2> QED BY <2>1, <2>2
<1> QED
    BY <1>2, <1>3 DEF KnownAreStarted, RunningIsCurrent

\* The attempts before the current one have failed, and a command that was
\* released is known by its last attempt.
LEMMA AttemptsStep ==
    ASSUME ScheduleInv, [Next]_vars, losses' = 0
    PROVE  EarlierFailed' /\ ReleasedAreKnown'
<1>1. /\ TypeOK /\ losses = 0 /\ OnePerGroup /\ RootsAreOwn /\ StateLoads
      /\ EarlierFailed /\ ReleasedAreKnown /\ TimersAreBehind
      /\ Known \subseteq Known' /\ failed \subseteq failed'
      /\ active \subseteq Commands /\ retained \in [Commands -> Stored]
    BY KnownGrows DEF ScheduleInv, Kept, FileInv, TypeOK
<1>2. ASSUME NEW c \in Commands, retained[c].state = "STARTED", c \notin active
      PROVE  <<c, retained'[c].attempt>> \in Known'
    BY <1>1, <1>2, StartedStays DEF ReleasedAreKnown
<1>3. CASE UNCHANGED file
    <2>1. EarlierFailed'
        BY <1>1, <1>3 DEF EarlierFailed, file
    <2>2. ReleasedAreKnown'
        BY <1>1, <1>3 DEF ReleasedAreKnown, file
    <2> QED BY <2>1, <2>2
<1>4. ASSUME NEW t \in Timers, Retry(t), at[t].op[1] \in active,
             retained[at[t].op[1]].attempt \in {at[t].op[2], at[t].op[2] + 1}
      PROVE  EarlierFailed' /\ ReleasedAreKnown'
    <2> DEFINE c == at[t].op[1]
               n == at[t].op[2]
    <2>1. /\ active' = active
          /\ \A d \in Commands :
                /\ retained'[d].state = retained[d].state /\ retained'[d].root = retained[d].root
                /\ retained'[d].attempt =
                       IF Group[d] = Group[c] /\ retained[d].root = c
                       THEN n + 1 ELSE retained[d].attempt
        BY <1>4, RetryWrites
    <2>2. <<c, n>> \in failed /\ n \in Nat /\ c \in active /\ retained[c].attempt \in {n, n + 1}
        BY <1>1, <1>4, TimerFields DEF TimersAreBehind, Retry
    <2> HIDE DEF c, n
    <2>3. ASSUME NEW d \in active', NEW k \in Nat, k < retained'[d].attempt
          PROVE  <<d, k>> \in failed'
        <3>1. d \in Commands /\ d \in active /\ retained[d].root = d /\ retained[d].attempt \in Nat
            BY <1>1, <2>1 DEF StateLoads, Stored
        <3>2. CASE d = c
            <4>1. k < retained[c].attempt \/ k = n
                BY <2>1, <2>2, <2>3, <3>1, <3>2
            <4> QED
                BY <1>1, <2>2, <3>1, <3>2, <4>1 DEF EarlierFailed
        <3>3. CASE d # c
            BY <1>1, <2>1, <2>3, <3>1, <3>3 DEF EarlierFailed
        <3> QED BY <3>2, <3>3
    <2>4. ReleasedAreKnown'
        BY <1>2, <2>1 DEF ReleasedAreKnown
    <2> QED
        BY <2>3, <2>4 DEF EarlierFailed
<1>5. ASSUME NEW t \in Timers, Release(t), at[t].op[1] \in active
      PROVE  EarlierFailed' /\ ReleasedAreKnown'
    <2> DEFINE c == at[t].op[1]
               o == Oldest(Waiting(c))
    <2>1. /\ c \in Commands /\ c \in active /\ Waiting(c) \subseteq Commands /\ retained' = Promoted(c)
          /\ Waiting(c) = {} => active' = active \ {c}
          /\ Waiting(c) # {} => o \in Waiting(c) /\ active' = (active \ {c}) \cup {o}
        BY <1>5, ReleaseWrites
    <2>2. /\ \A d \in Commands : d \notin Waiting(c) => retained'[d] = retained[d]
          /\ \A d \in Waiting(c) :
                /\ retained'[d].state = IF d = o THEN "STARTED" ELSE "COALESCED"
                /\ retained'[d].attempt = 0
        BY <1>1, <2>1, PromotedFile
    <2>3. \A d \in active : d \notin Waiting(c)
        BY <1>1 DEF StateLoads, Waiting
    <2>4. <<c, retained[c].attempt>> \in Known
        <3>1. at[t].op \in done /\ at[t].op = <<at[t].op[1], at[t].op[2]>>
            BY <1>1, <1>5, TimerFields DEF TimersAreBehind, Release
        <3>2. Current(at[t].op)
            BY <1>1, <1>5, <3>1, DoneIsCurrent
        <3> QED
            BY <3>1, <3>2 DEF Current, Known
    <2> HIDE DEF c, o
    <2>5. ASSUME NEW d \in active', NEW k \in Nat, k < retained'[d].attempt
          PROVE  <<d, k>> \in failed'
        <3>1. CASE d \in active
            <4>1. retained'[d] = retained[d]
                BY <1>1, <2>2, <2>3, <3>1
            <4> QED
                BY <1>1, <2>5, <3>1, <4>1 DEF EarlierFailed
        <3>2. CASE d \notin active
            <4>1. d \in Waiting(c)
                BY <2>1, <3>2
            <4> QED
                BY <2>2, <2>5, <4>1
        <3> QED BY <3>1, <3>2
    <2>6. ASSUME NEW d \in Commands, retained'[d].state = "STARTED", d \notin active'
          PROVE  <<d, retained'[d].attempt>> \in Known'
        <3>1. d \notin Waiting(c)
            BY <2>1, <2>2, <2>6
        <3>2. retained'[d] = retained[d] /\ retained[d].state = "STARTED"
            BY <2>2, <2>6, <3>1
        <3>3. CASE d = c
            BY <1>1, <2>4, <3>2, <3>3
        <3>4. CASE d # c
            <4>1. d \notin active
                BY <2>1, <2>6, <3>4
            <4> QED
                BY <1>2, <3>2, <4>1
        <3> QED BY <3>3, <3>4
    <2> QED
        BY <2>5, <2>6 DEF EarlierFailed, ReleasedAreKnown
<1>6. ASSUME NEW t \in Timers, Claim(t), retained[cmd[t]].state = "NONE"
      PROVE  EarlierFailed' /\ ReleasedAreKnown'
    <2> DEFINE c == cmd[t]
    <2>1. /\ c \in Commands /\ retained' = [retained EXCEPT ![c] = Entry(c)]
          /\ active' = IF Owned(c) THEN active ELSE active \cup {c}
        BY <1>6, ClaimWrites
    <2>2. retained'[c] = Entry(c) /\ \A d \in Commands : d # c => retained'[d] = retained[d]
        BY <1>1, <2>1
    <2>3. c \notin active
        BY <1>1, <1>6 DEF StateLoads
    <2>4. /\ Owned(c) => Entry(c).state = "COALESCED"
          /\ ~Owned(c) => Entry(c).state = "STARTED" /\ Entry(c).attempt = 0
        BY <1>1, <2>1, NewEntry
    <2> HIDE DEF c
    <2>5. ASSUME NEW d \in active', NEW k \in Nat, k < retained'[d].attempt
          PROVE  <<d, k>> \in failed'
        <3>1. CASE d \in active
            <4>1. retained'[d] = retained[d]
                BY <1>1, <2>2, <2>3, <3>1
            <4> QED
                BY <1>1, <2>5, <3>1, <4>1 DEF EarlierFailed
        <3>2. CASE d \notin active
            BY <2>1, <2>2, <2>4, <2>5, <3>2
        <3> QED BY <3>1, <3>2
    <2>6. ASSUME NEW d \in Commands, retained'[d].state = "STARTED", d \notin active'
          PROVE  <<d, retained'[d].attempt>> \in Known'
        <3>1. d # c /\ d \notin active
            BY <2>1, <2>2, <2>4, <2>6
        <3> QED
            BY <1>2, <2>2, <2>6, <3>1
    <2> QED
        BY <2>5, <2>6 DEF EarlierFailed, ReleasedAreKnown
<1> QED
    BY <1>3, <1>4, <1>5, <1>6, FileUntouched

\* What the timers hold, however old, is the current attempt of an owner or an
\* instance the scheduler knows.
LEMMA TimersStep ==
    ASSUME ScheduleInv, [Next]_vars, losses' = 0
    PROVE  TimersAreBehind'
<1>1. /\ TypeOK /\ losses = 0 /\ ~Lose /\ RootsAreOwn /\ StateLoads /\ ReleasedAreKnown
      /\ TimersAreBehind /\ TypeOK'
      /\ Known \subseteq Known' /\ failed \subseteq failed' /\ done \subseteq done'
      /\ active \subseteq Commands /\ retained \in [Commands -> Stored]
      /\ todo \in [Timers -> SUBSET Operations] /\ out \in [Timers -> SUBSET Operations]
    BY KnownGrows, TypeStep DEF ScheduleInv, Kept, FileInv, TypeOK
<1>2. \A u \in Timers : \A op \in todo[u] \cup out[u] : Seen(op)'
    <2>1. ASSUME NEW u \in Timers, NEW op \in todo[u] \cup out[u] PROVE Seen(op)'
        <3>1. Seen(op) /\ op \in Operations
            BY <1>1, TimerFields DEF TimersAreBehind
        <3> QED
            BY <3>1, SeenStays
    <2> QED BY <2>1
<1>3. ASSUME NEW u \in Timers, at'[u] = at[u]
      PROVE  /\ at'[u].step = "start" => Seen(at[u].op)'
             /\ at'[u].step = "retry" => at[u].op \in failed'
             /\ at'[u].step = "release" => at[u].op \in done'
    <2>1. at[u].op \in Operations
        BY <1>1, TimerFields
    <2>2. at[u].step = "start" => Seen(at[u].op)
        BY <1>1 DEF TimersAreBehind
    <2>3. ASSUME NEW op \in Operations, op = at[u].op, at[u].step = "start"
          PROVE  Seen(op)'
        BY <2>2, <2>3, SeenStays
    <2>4. at[u].step = "start" => Seen(at[u].op)'
        BY <1>3, <2>1, <2>3 DEF Seen, Current
    <2> QED
        BY <1>1, <1>3, <2>4 DEF TimersAreBehind
\* The places of the timers after one of them moved.
<1>4. ASSUME NEW t \in Timers, NEW step \in Steps, NEW op \in Operations, Goto(t, step, op),
             step = "start" => Seen(op)', step = "retry" => op \in failed',
             step = "release" => op \in done'
      PROVE  \A u \in Timers : /\ at'[u].step = "start" => Seen(at[u].op)'
                               /\ at'[u].step = "retry" => at'[u].op \in failed'
                               /\ at'[u].step = "release" => at'[u].op \in done'
    <2>1. at'[t].step = step /\ at'[t].op = op /\ \A u \in Timers : u # t => at'[u] = at[u]
        BY <1>1, <1>4, Gone
    <2>2. ASSUME NEW u \in Timers
          PROVE  /\ at'[u].step = "start" => Seen(at[u].op)'
                 /\ at'[u].step = "retry" => at'[u].op \in failed'
                 /\ at'[u].step = "release" => at'[u].op \in done'
        <3>1. CASE u = t
            BY <1>4, <2>1, <3>1 DEF Seen, Current
        <3>2. CASE u # t
            BY <1>3, <2>1, <3>2
        <3> QED BY <3>1, <3>2
    <2> QED BY <2>2
<1> DEFINE Placed ==
        \A u \in Timers : /\ at'[u].step = "start" => Seen(at[u].op)'
                          /\ at'[u].step = "retry" => at'[u].op \in failed'
                          /\ at'[u].step = "release" => at'[u].op \in done'
           Held == \A u \in Timers : \A op \in todo'[u] \cup out'[u] : Seen(op)'
<1>5. Placed /\ Held => TimersAreBehind'
    BY DEF TimersAreBehind
<1>6. ASSUME NEW t \in Timers, Back(t) \/ End(t, "idle") \/ End(t, "failed") PROVE Placed
    <2>1. "reconcile" \in Steps /\ "idle" \in Steps /\ "failed" \in Steps
        BY DEF Steps
    <2>2. PICK step \in {"reconcile", "idle", "failed"} : Goto(t, step, <<First, 0>>)
        BY <1>6 DEF Back, End
    <2> QED
        BY <1>4, <2>1, <2>2, FirstIsCommand
<1>7. ASSUME at' = at PROVE Placed
    BY <1>3, <1>7
<1>8. ASSUME NEW t \in Timers, End(t, "idle") \/ End(t, "failed") PROVE TimersAreBehind'
    <2>1. Held
        BY <1>1, <1>2, <1>8 DEF End
    <2> QED
        BY <1>5, <1>6, <1>8, <2>1
<1>9. ASSUME UNCHANGED timer PROVE TimersAreBehind'
    BY <1>2, <1>5, <1>7, <1>9 DEF timer
<1>10. ASSUME NEW t \in Timers, NEW c \in Commands, Deliver(t, c) PROVE TimersAreBehind'
    <2>1. /\ Back(t) /\ out' = out /\ UNCHANGED file
          /\ todo' = [todo EXCEPT ![t] = {<<d, retained[d].attempt>> : d \in active}]
        BY <1>10 DEF Deliver
    <2>2. \A op \in {<<d, retained[d].attempt>> : d \in active} : Seen(op)'
        BY <2>1 DEF Seen, Current, file
    <2>3. ASSUME NEW u \in Timers, NEW op \in todo'[u] \cup out'[u] PROVE Seen(op)'
        <3>1. u = t => todo'[u] = {<<d, retained[d].attempt>> : d \in active}
            BY <1>1, <2>1
        <3>2. u # t => todo'[u] = todo[u]
            BY <1>1, <2>1
        <3> QED
            BY <1>2, <2>1, <2>2, <2>3, <3>1, <3>2
    <2> QED
        BY <1>5, <1>6, <2>1, <2>3
<1>11. ASSUME NEW t \in Timers, Ask(t) PROVE TimersAreBehind'
    <2>1. PICK op \in todo[t] :
              /\ todo' = [todo EXCEPT ![t] = @ \ {op}]
              /\ out' = [out EXCEPT ![t] = IF op \in Known THEN @ ELSE @ \cup {op}]
              /\ IF Judged(op) = "reconcile" THEN Back(t) ELSE Goto(t, Judged(op), op)
        BY <1>11 DEF Ask
    <2>2. op \in Operations
        BY <1>1
    <2>3. Held
        BY <1>1, <1>2, <2>1
    <2>4. /\ Judged(op) \in Steps /\ Judged(op) # "start"
          /\ Judged(op) = "retry" => op \in failed
          /\ Judged(op) = "release" => op \in done
        BY DEF Judged, Steps
    <2>5. Placed
        BY <1>1, <1>4, <1>6, <2>1, <2>2, <2>4
    <2> QED
        BY <1>5, <2>3, <2>5
<1>12. ASSUME NEW t \in Timers, Retry(t) PROVE TimersAreBehind'
    <2> DEFINE c == at[t].op[1]
               n == at[t].op[2]
    <2>1. CASE c \in active /\ retained[c].attempt \in {n, n + 1}
        <3>0. c \in Commands /\ n + 1 \in Nat /\ <<c, n + 1>> \in Operations
            BY <1>1, TimerFields DEF Operations
        <3>1. PICK op \in Operations : op = <<c, n + 1>>
            BY <3>0
        <3>2. /\ out' = [out EXCEPT ![t] = @ \cup {op}]
              /\ Back(t) /\ todo' = todo
            BY <1>12, <2>1, <3>1 DEF Retry
        <3>3. retained[c].root = c
            BY <1>1, <2>1 DEF StateLoads
        <3>4. op[1] \in active' /\ retained'[op[1]].attempt = op[2]
            BY <1>1, <1>12, <2>1, <3>1, <3>3, RetryWrites
        <3>5. Seen(op)'
            BY <3>4 DEF Seen, Current
        <3>6. Held
            BY <1>1, <1>2, <3>2, <3>5
        <3> QED
            BY <1>5, <1>6, <3>2, <3>6
    <2>2. CASE ~(c \in active /\ retained[c].attempt \in {n, n + 1})
        BY <1>8, <1>12, <2>2 DEF Retry
    <2> QED BY <2>1, <2>2
<1>13. ASSUME NEW t \in Timers, Release(t) PROVE TimersAreBehind'
    <2> DEFINE c == at[t].op[1]
    <2>1. CASE c \in active
        <3>1. /\ Back(t) /\ todo' = todo /\ retained' = Promoted(c)
              /\ IF Waiting(c) = {}
                 THEN out' = out
                 ELSE /\ active' = (active \ {c}) \cup {Oldest(Waiting(c))}
                      /\ out' = [out EXCEPT ![t] = @ \cup {<<Oldest(Waiting(c)), 0>>}]
            BY <1>13, <2>1 DEF Release
        <3>2. CASE Waiting(c) = {}
            BY <1>2, <1>5, <1>6, <3>1, <3>2
        <3>3. CASE Waiting(c) # {}
            <4>1. PICK o \in Waiting(c) : o = Oldest(Waiting(c))
                BY <1>13, <2>1, <3>3, ReleaseWrites
            <4>2. o \in active' /\ retained'[o].attempt = 0
                BY <1>1, <1>13, <2>1, <3>1, <3>3, <4>1, ReleaseWrites, PromotedFile
            <4>3. Seen(<<o, 0>>)'
                BY <4>2 DEF Seen, Current
            <4>4. out' = [out EXCEPT ![t] = @ \cup {<<o, 0>>}]
                BY <3>1, <3>3, <4>1
            <4>5. Held
                BY <1>1, <1>2, <3>1, <4>3, <4>4
            <4> QED
                BY <1>5, <1>6, <3>1, <4>5
        <3> QED BY <3>2, <3>3
    <2>2. CASE c \notin active
        BY <1>8, <1>13, <2>2 DEF Release
    <2> QED BY <2>1, <2>2
<1>14. ASSUME NEW t \in Timers, Dispatch(t) PROVE TimersAreBehind'
    <2>1. PICK op \in out[t] : out' = [out EXCEPT ![t] = @ \ {op}] /\ todo' = todo /\ at' = at
        BY <1>14 DEF Dispatch
    <2>2. Held
        BY <1>1, <1>2, <2>1
    <2> QED
        BY <1>5, <1>7, <2>1, <2>2
<1>15. ASSUME NEW t \in Timers, Claim(t) PROVE TimersAreBehind'
    <2> DEFINE c == cmd[t]
    <2>1. c \in Commands /\ "start" \in Steps
        BY <1>1, TimerFields DEF Steps
    <2>2. ASSUME NEW op \in Operations, Goto(t, "start", op), Seen(op)', todo' = todo, out' = out
          PROVE  TimersAreBehind'
        <3>1. Placed
            BY <1>4, <2>1, <2>2
        <3> QED
            BY <1>2, <1>5, <2>2, <3>1
    <2>3. CASE retained[c].state = "NONE"
        <3>1. PICK op \in Operations : op = <<Entry(c).root, Entry(c).attempt>>
            BY <1>1, <2>1, NewEntry
        <3>2. /\ Goto(t, "start", op) /\ todo' = todo /\ out' = out
              /\ retained' = [retained EXCEPT ![c] = Entry(c)]
              /\ active' = IF Owned(c) THEN active ELSE active \cup {c}
            BY <1>15, <2>3, <3>1, ClaimWrites
        <3>3. op[1] \in active' /\ retained'[op[1]].attempt = op[2]
            <4>1. CASE Owned(c)
                <5>1. op[1] = Owner(c) /\ op[2] = retained[Owner(c)].attempt /\ Owner(c) \in active
                    BY <1>1, <2>1, <3>1, <4>1, NewEntry, OwnerOwns
                <5>2. Owner(c) # c
                    BY <1>1, <2>3, <5>1 DEF StateLoads
                <5> QED
                    BY <1>1, <3>2, <4>1, <5>1, <5>2
            <4>2. CASE ~Owned(c)
                <5>1. op[1] = c /\ op[2] = Entry(c).attempt
                    BY <1>1, <2>1, <3>1, <4>2, NewEntry
                <5> QED
                    BY <1>1, <2>1, <3>2, <4>2, <5>1
            <4> QED BY <4>1, <4>2
        <3>4. Seen(op)'
            BY <3>3 DEF Seen, Current
        <3> QED
            BY <2>2, <3>2, <3>4
    <2>4. CASE retained[c].state # "NONE"
        <3>1. <<retained[c].root, retained[c].attempt>> \in Operations
            BY <1>1, <2>1 DEF Stored, Operations
        <3>2. PICK op \in Operations : op = <<retained[c].root, retained[c].attempt>>
            BY <3>1
        <3>3. \/ Goto(t, "start", op) /\ todo' = todo /\ out' = out
              \/ End(t, "failed")
            BY <1>15, <2>4, <3>2 DEF Claim
        <3>4. Seen(op)
            <4>1. retained[c].state \in {"STARTED", "COALESCED"}
                BY <1>1, <2>1, <2>4 DEF Stored
            <4>2. CASE retained[c].state = "STARTED"
                <5>1. retained[c].root = c
                    BY <1>1, <2>1, <4>2 DEF RootsAreOwn
                <5> QED
                    BY <1>1, <2>1, <3>2, <4>2, <5>1 DEF Seen, Current, ReleasedAreKnown
            <4>3. CASE retained[c].state = "COALESCED"
                BY <1>1, <2>1, <3>2, <4>3 DEF StateLoads, Seen, Current
            <4> QED BY <4>1, <4>2, <4>3
        <3>5. Seen(op)'
            BY <3>4, SeenStays
        <3> QED
            BY <1>8, <2>2, <3>3, <3>5
    <2> QED BY <2>3, <2>4
<1>16. ASSUME NEW t \in Timers, Start(t) \/ Abort(t) PROVE End(t, "idle")
    BY <1>16 DEF Start, Abort
<1>17. ASSUME NEW op \in running, Succeed(op) \/ FallShort(op) \/ Refuse(op) PROVE UNCHANGED timer
    BY <1>17 DEF Succeed, FallShort, Refuse
<1>18. ASSUME Redeploy \/ UNCHANGED vars PROVE UNCHANGED timer
    BY <1>18 DEF Redeploy, vars, timer
<1> QED
    BY <1>1, <1>8, <1>9, <1>10, <1>11, <1>12, <1>13, <1>14, <1>15, <1>16, <1>17, <1>18
       DEF Next, Step

-----------------------------------------------------------------------------
(* The theorems. *)

\* The invariant holds at first and is kept by every step.
LEMMA ScheduleStarts == Init => ScheduleInv
<1>1. SUFFICES ASSUME Init PROVE ScheduleInv
    OBVIOUS
<1>2. /\ active = {} /\ Known = {} /\ running = {} /\ failed = {} /\ done = {}
      /\ \A c \in Commands : retained[c] = Absent(c)
      /\ \A t \in Timers : todo[t] = {} /\ out[t] = {} /\ at[t].step = "idle"
    BY <1>1 DEF Init, Known
<1>3. TypeOK
    <2>1. \A c \in Commands : Absent(c) \in Stored
        BY LimitsAssumption DEF Absent, Stored
    <2>2. at \in [Timers -> [step : Steps, op : Operations]] /\ cmd \in [Timers -> Commands]
        BY <1>1, FirstIsCommand DEF Init, Steps
    <2> QED
        BY <1>1, <2>1, <2>2, LimitsAssumption DEF Init, TypeOK
<1>4. /\ \A c \in Commands : retained[c].state = "NONE" /\ retained[c].root = c
      /\ FileInv /\ ReleasedIsDone
    <2>1. \A c \in Commands : Absent(c).state = "NONE" /\ Absent(c).root = c
        BY DEF Absent
    <2>2. \A c \in Commands : retained[c].state = "NONE" /\ retained[c].root = c
        BY <1>2, <2>1
    <2> QED
        BY <1>2, <2>2 DEF FileInv, OnePerGroup, RootsAreOwn, StateLoads, ReleasedIsDone
<1>5. InstancesAreOne /\ ReleasesAreSeen
    BY <1>2 DEF InstancesAreOne, ReleasesAreSeen
<1>6. KnownAreStarted /\ EarlierFailed /\ RunningIsCurrent
    BY <1>2 DEF KnownAreStarted, EarlierFailed, RunningIsCurrent
<1>7. ReleasedAreKnown
    BY <1>4 DEF ReleasedAreKnown
<1>8. TimersAreBehind
    BY <1>2 DEF TimersAreBehind
<1> QED
    BY <1>3, <1>4, <1>5, <1>6, <1>7, <1>8 DEF ScheduleInv, Kept

\* Every step keeps the invariant.
LEMMA ScheduleStep == ScheduleInv /\ [Next]_vars => ScheduleInv'
<1>1. SUFFICES ASSUME ScheduleInv, [Next]_vars PROVE ScheduleInv'
    OBVIOUS
<1>2. Kept'
    <2>1. SUFFICES ASSUME losses' = 0
                   PROVE  /\ KnownAreStarted' /\ EarlierFailed' /\ ReleasedAreKnown'
                          /\ TimersAreBehind' /\ RunningIsCurrent'
        BY DEF Kept
    <2>2. KnownAreStarted' /\ RunningIsCurrent'
        BY <1>1, <2>1, KnownStep
    <2>3. EarlierFailed' /\ ReleasedAreKnown'
        BY <1>1, <2>1, AttemptsStep
    <2>4. TimersAreBehind'
        BY <1>1, <2>1, TimersStep
    <2> QED
        BY <2>2, <2>3, <2>4
<1>3. TypeOK'
    BY <1>1, TypeStep
<1>4. FileInv' /\ ReleasedIsDone'
    BY <1>1, FileStep
<1>5. InstancesAreOne' /\ ReleasesAreSeen'
    BY <1>1, InstancesStep
<1> QED
    BY <1>2, <1>3, <1>4, <1>5 DEF ScheduleInv

\* The inductive invariant of the live schedules: what the state file, the
\* scheduler and the snapshots of the timers say of one another
\* (release_terminal_schedules and enqueue_schedule in any interleaving).
THEOREM ScheduleSafe == Spec => []ScheduleInv
BY ScheduleStarts, ScheduleStep, PTL DEF Spec

\* The state file and the timers keep their types through every store call.
THEOREM ScheduleTypeCorrect == Spec => []TypeOK
<1>1. ScheduleInv => TypeOK
    BY DEF ScheduleInv
<1> QED
    BY <1>1, ScheduleSafe, PTL

\* The state file that mark_terminal, advance_retry and claim leave can always
\* be decoded by the next store call.
THEOREM FileAlwaysLoads == Spec => []StateLoads
<1>1. ScheduleInv => StateLoads
    BY DEF ScheduleInv, FileInv
<1> QED
    BY <1>1, ScheduleSafe, PTL

\* mark_terminal releases only a root of which an attempt succeeded, also
\* across losses of the scheduler.
THEOREM ReleasedDone == Spec => []ReleasedIsDone
<1>1. ScheduleInv => ReleasedIsDone
    BY DEF ScheduleInv
<1> QED
    BY <1>1, ScheduleSafe, PTL

\* While the scheduler keeps its instances, what dispatch_schedule starts is
\* the current attempt of the owner of its group, one per group.
THEOREM OneCycle == Spec => []OneCycleRuns
<1>1. ScheduleInv => OneCycleRuns
    <2>1. SUFFICES ASSUME ScheduleInv, losses = 0
                   PROVE  /\ NeverCompeting
                          /\ \A op \in running : op[1] \in active /\ op[2] = retained[op[1]].attempt
        BY DEF OneCycleRuns
    <2>2. /\ OnePerGroup /\ running \subseteq Operations
          /\ \A op \in running : op[1] \in active /\ op[2] = retained[op[1]].attempt
        BY <2>1 DEF ScheduleInv, FileInv, Kept, RunningIsCurrent, Current, TypeOK
    <2>3. \A o1, o2 \in Operations : o1[1] = o2[1] /\ o1[2] = o2[2] => o1 = o2
        BY DEF Operations
    <2>4. NeverCompeting
        BY <2>2, <2>3 DEF NeverCompeting, OnePerGroup
    <2> QED
        BY <2>2, <2>4
<1> QED
    BY <1>1, ScheduleSafe, PTL
=============================================================================
