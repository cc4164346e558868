---------------------------- MODULE LiveSchedule ----------------------------
(***************************************************************************)
(* The live schedules of the control plane (apps/control-plane main.py and *)
(* v1_schedule.py): each systemd timer starts a process that reconciles    *)
(* the retained schedule state with the durable scheduler, claims its own  *)
(* calendar slot and makes sure that the instance it stands for exists.    *)
(*                                                                         *)
(* The state file is read and replaced under a lock, for one store call at *)
(* a time; the scheduler is asked between two of them, so several timers   *)
(* (all of them fire when the host comes up late) work from snapshots.  A  *)
(* process may die anywhere and the scheduler may forget every instance.   *)
(*                                                                         *)
(* An attempt is refused when the matrix of its root is not the deployed   *)
(* one, and every attempt of a root works on the one cycle, so what a      *)
(* cycle retained of a stop refuses the later attempts too.                *)
(*                                                                         *)
(* A command, its slot and its root operation are one to one, so a command *)
(* names all three, and attempt n of root c is the operation <<c, n>>.     *)
(* Commands are numbers in the order of (scheduled_at, command_id).        *)
(***************************************************************************)
EXTENDS Naturals

CONSTANTS
    Commands,         \* the slots, in the order they are due
    Group,            \* the activity group of each
    Timers,           \* processes that deliver a slot
    MaxFailures,      \* bound: attempts that end without a success
    MaxAborts,        \* bound: processes killed, or refused by the scheduler
    MaxLosses,        \* bound: times the scheduler forgets its instances
    MaxReleases,      \* bound: deployments of another coverage matrix
    MaxTroubles,      \* bound: the four of these together
    MaxAttempts       \* bound: attempts of a root that is refused

ASSUME CommandsAssumption == Commands \subseteq Nat /\ Commands # {}
ASSUME LimitsAssumption ==
    /\ MaxFailures \in Nat
    /\ MaxAborts \in Nat
    /\ MaxLosses \in Nat
    /\ MaxTroubles \in Nat
    /\ MaxReleases \in Nat
    /\ MaxAttempts \in Nat

VARIABLES
    retained,         \* what the state file says of each command
    active,           \* the commands that own their group
    running, failed, done,  \* the scheduler: its instances, by what became of them
    at,               \* the step each timer is at, and the operation it is about
    cmd,              \* the slot it delivers
    todo,             \* the active attempts it has still to ask about
    out,              \* the operations it has to dispatch before its own
    matrix,           \* the deployed coverage matrix
    admitted,         \* instances an earlier matrix admitted, before it was replaced
    stopped,          \* roots whose cycle has retained a stop
    succeeded,        \* roots of which an attempt succeeded (history)
    failures, aborts, losses  \* counters of the bounds

file == <<retained, active>>
ended == <<failed, done, admitted, stopped, succeeded, failures, losses>>
scheduler == <<running, ended>>
timer == <<at, cmd, todo, out>>
vars == <<retained, active, running, failed, done, at, cmd, todo, out, matrix,
          admitted, stopped, succeeded, failures, aborts, losses>>

Operations == Commands \X Nat
Known == running \cup failed \cup done

Stored == [state : {"NONE", "STARTED", "COALESCED"}, root : Commands, attempt : Nat,
           matrix : 0..MaxReleases]
Absent(c) == [state |-> "NONE", root |-> c, attempt |-> 0, matrix |-> 0]
First == CHOOSE c \in Commands : TRUE

Troubles == failures + aborts + losses + matrix

Steps == {"idle", "failed", "reconcile", "retry", "release", "start"}
Goto(t, step, op) == at' = [at EXCEPT ![t] = [step |-> step, op |-> op]]
Back(t) == Goto(t, "reconcile", <<First, 0>>)

\* The process ends; what it had still to do is gone.
End(t, how) ==
    /\ Goto(t, how, <<First, 0>>)
    /\ todo' = [todo EXCEPT ![t] = {}]
    /\ out' = [out EXCEPT ![t] = {}]

\* _promote_waiting_command: the commands that wait for root c.
Waiting(c) ==
    {d \in Commands : /\ retained[d].state = "COALESCED"
                      /\ retained[d].root = c
                      /\ Group[d] = Group[c]}
Oldest(S) == CHOOSE d \in S : \A e \in S : d <= e

-----------------------------------------------------------------------------
(* A timer's process, _enqueue_live_schedule. *)

\* The timer fires, or the operator repeats a slot: active_commands is read.
Deliver(t, c) ==
    /\ at[t].step \in {"idle", "failed"}
    /\ Back(t)
    /\ cmd' = [cmd EXCEPT ![t] = c]
    /\ todo' = [todo EXCEPT ![t] = {<<d, retained[d].attempt>> : d \in active}]
    /\ UNCHANGED <<file, scheduler, out, matrix, aborts>>

\* Mutant of Judged: an attempt that ended is a success.
JudgedEnded(op) == IF op \in failed \cup done THEN "release" ELSE "reconcile"

\* _reconcile_active_schedule: what the attempt's instance calls for.
Judged(op) ==
    IF op \in failed THEN "retry" ELSE IF op \in done THEN "release" ELSE "reconcile"

\* Mutant of Ask: an instance that is not there is left to its own slot.
AskKnown(t) ==
    /\ at[t].step = "reconcile"
    /\ \E op \in todo[t] :
        /\ todo' = [todo EXCEPT ![t] = @ \ {op}]
        /\ IF Judged(op) = "reconcile" THEN Back(t) ELSE Goto(t, Judged(op), op)
    /\ UNCHANGED <<out, file, scheduler, cmd, matrix, aborts>>

\* One active attempt of the snapshot is looked up in the scheduler; an
\* instance that is not there is started again.
Ask(t) ==
    /\ at[t].step = "reconcile"
    /\ \E op \in todo[t] :
        /\ todo' = [todo EXCEPT ![t] = @ \ {op}]
        /\ out' = [out EXCEPT ![t] = IF op \in Known THEN @ ELSE @ \cup {op}]
        /\ IF Judged(op) = "reconcile" THEN Back(t) ELSE Goto(t, Judged(op), op)
    /\ UNCHANGED <<file, scheduler, cmd, matrix, aborts>>

\* Mutant of Advance: the waiting commands keep the attempt they coalesced onto.
AdvanceRootOnly(c, n) == [retained EXCEPT ![c].attempt = n]

\* _replace_root_attempt
Advance(c, n) ==
    [d \in Commands |->
        IF Group[d] = Group[c] /\ retained[d].root = c
        THEN [retained[d] EXCEPT !.attempt = n] ELSE retained[d]]

\* advance_retry: the next attempt, once; a timer that is one attempt behind
\* is handed the one that was retained, any other is refused.
Retry(t) ==
    LET c == at[t].op[1]
        n == at[t].op[2]
    IN
    /\ at[t].step = "retry"
    /\ IF c \in active /\ retained[c].attempt \in {n, n + 1}
       THEN /\ retained' = Advance(c, n + 1)
            /\ out' = [out EXCEPT ![t] = @ \cup {<<c, n + 1>>}]
            /\ Back(t)
            /\ UNCHANGED todo
       ELSE End(t, "failed") /\ UNCHANGED retained
    /\ UNCHANGED <<active, scheduler, cmd, matrix, aborts>>

\* The oldest waiting command becomes the root the others wait for.
Promoted(c) ==
    [d \in Commands |->
        IF d \in Waiting(c)
        THEN [state |-> IF d = Oldest(Waiting(c)) THEN "STARTED" ELSE "COALESCED",
              root |-> Oldest(Waiting(c)), attempt |-> 0, matrix |-> retained[d].matrix]
        ELSE retained[d]]

\* mark_terminal, of an operation that must still be active.
Release(t) ==
    LET c == at[t].op[1] IN
    /\ at[t].step = "release"
    /\ IF c \in active
       THEN /\ retained' = Promoted(c)
            /\ IF Waiting(c) = {}
               THEN active' = active \ {c} /\ UNCHANGED out
               ELSE /\ active' = (active \ {c}) \cup {Oldest(Waiting(c))}
                    /\ out' = [out EXCEPT ![t] = @ \cup {<<Oldest(Waiting(c)), 0>>}]
            /\ Back(t)
            /\ UNCHANGED todo
       ELSE End(t, "failed") /\ UNCHANGED file
    /\ UNCHANGED <<scheduler, cmd, matrix, aborts>>

\* dispatch_schedule: an operation the scheduler knows is present; creating it
\* a second time is refused and found present.
Ensure(op) == running' = IF op \in Known THEN running ELSE running \cup {op}

\* What was resumed, retried or promoted is dispatched.
Dispatch(t) ==
    /\ at[t].step = "reconcile"
    /\ todo[t] = {}
    /\ \E op \in out[t] :
        /\ Ensure(op)
        /\ out' = [out EXCEPT ![t] = @ \ {op}]
    /\ UNCHANGED <<file, ended, at, cmd, todo, matrix, aborts>>

Owner(c) == CHOOSE d \in active : Group[d] = Group[c]
Owned(c) == \E d \in active : Group[d] = Group[c]

\* Mutant of Entry: a free group is one without a running instance.
EntryUnlessRunning(c) ==
    IF \E op \in running : Group[op[1]] = Group[c] /\ op[1] \in active
    THEN [state |-> "COALESCED", root |-> Owner(c), attempt |-> retained[Owner(c)].attempt,
          matrix |-> matrix]
    ELSE [state |-> "STARTED", root |-> c, attempt |-> 0, matrix |-> matrix]

\* claim: a new command starts its group, or coalesces onto the active root.
Entry(c) ==
    IF Owned(c)
    THEN [state |-> "COALESCED", root |-> Owner(c), attempt |-> retained[Owner(c)].attempt,
          matrix |-> matrix]
    ELSE [state |-> "STARTED", root |-> c, attempt |-> 0, matrix |-> matrix]

\* enqueue_schedule: the timer's own slot is retained or, if it is retained
\* under the same matrix, replayed.
Claim(t) ==
    LET c == cmd[t] IN
    /\ at[t].step = "reconcile"
    /\ todo[t] = {} /\ out[t] = {}
    /\ IF retained[c].state = "NONE"
       THEN /\ retained' = [retained EXCEPT ![c] = Entry(c)]
            /\ active' = IF Entry(c).state = "STARTED" THEN active \cup {c} ELSE active
            /\ Goto(t, "start", <<Entry(c).root, Entry(c).attempt>>)
            /\ UNCHANGED <<todo, out>>
       ELSE /\ IF retained[c].matrix = matrix
               THEN /\ Goto(t, "start", <<retained[c].root, retained[c].attempt>>)
                    /\ UNCHANGED <<todo, out>>
               ELSE End(t, "failed")
            /\ UNCHANGED file
    /\ UNCHANGED <<scheduler, cmd, matrix, aborts>>

\* The instance its slot stands for is dispatched, and the process is done.
Start(t) ==
    /\ at[t].step = "start"
    /\ Ensure(at[t].op)
    /\ End(t, "idle")
    /\ UNCHANGED <<file, ended, cmd, matrix, aborts>>

\* The process is killed, or a call to the scheduler fails.
Abort(t) ==
    /\ at[t].step \notin {"idle", "failed"}
    /\ aborts < MaxAborts /\ Troubles < MaxTroubles
    /\ aborts' = aborts + 1
    /\ End(t, "idle")
    /\ UNCHANGED <<file, scheduler, cmd, matrix>>

-----------------------------------------------------------------------------
(* The scheduler and the deployment, modelled from how v1_schedule.py uses *)
(* them.                                                                   *)

\* start_hk_v1_due_cycle and the maintenance activities: the matrix of the
\* instance's root is the deployed one, or was when the activity began.
Admits(op) == retained[op[1]].matrix = matrix \/ op \in admitted

\* The cycle is accepted (or the maintenance activity completes).
Succeed(op) ==
    /\ op \in running
    /\ Admits(op) /\ op[1] \notin stopped
    /\ running' = running \ {op}
    /\ done' = done \cup {op}
    /\ admitted' = admitted \ {op}
    /\ succeeded' = succeeded \cup {op[1]}
    /\ UNCHANGED <<file, failed, stopped, timer, matrix, failures, aborts, losses>>

Failed(op) ==
    /\ running' = running \ {op}
    /\ failed' = failed \cup {op}
    /\ admitted' = admitted \ {op}

\* It fails, is terminated, or completes without an accepted result, which the
\* cycle, one for all attempts of the root, may have retained.
FallShort(op) ==
    /\ op \in running
    /\ failures < MaxFailures /\ Troubles < MaxTroubles
    /\ failures' = failures + 1
    /\ Failed(op)
    /\ stopped' \in {stopped, stopped \cup {op[1]}}
    /\ UNCHANGED <<file, done, succeeded, timer, matrix, aborts, losses>>

\* The deployed matrix is not that of its root, or its cycle stays stopped.
Refuse(op) ==
    /\ op \in running
    /\ ~Admits(op) \/ op[1] \in stopped
    /\ op[2] < MaxAttempts
    /\ Failed(op)
    /\ UNCHANGED <<file, done, stopped, succeeded, timer, matrix, failures, aborts, losses>>

\* The memory of the scheduler is lost.
Lose ==
    /\ losses < MaxLosses /\ Troubles < MaxTroubles
    /\ losses' = losses + 1
    /\ running' = {} /\ failed' = {} /\ done' = {} /\ admitted' = {}
    /\ UNCHANGED <<file, stopped, succeeded, timer, matrix, failures, aborts>>

\* A release with another coverage matrix is deployed; the activities that some
\* of the running instances had behind them are not run again.
Redeploy ==
    /\ matrix < MaxReleases /\ Troubles < MaxTroubles
    /\ matrix' = matrix + 1
    /\ admitted' \in SUBSET {op \in running : Admits(op)}
    /\ UNCHANGED <<file, running, failed, done, stopped, succeeded, failures, losses, timer, aborts>>

-----------------------------------------------------------------------------
Init ==
    /\ retained = [c \in Commands |-> Absent(c)]
    /\ active = {}
    /\ running = {} /\ failed = {} /\ done = {}
    /\ admitted = {} /\ stopped = {} /\ succeeded = {}
    /\ at = [t \in Timers |-> [step |-> "idle", op |-> <<First, 0>>]]
    /\ cmd = [t \in Timers |-> First]
    /\ todo = [t \in Timers |-> {}]
    /\ out = [t \in Timers |-> {}]
    /\ matrix = 0
    /\ failures = 0 /\ aborts = 0 /\ losses = 0

Step(t) == Ask(t) \/ Retry(t) \/ Release(t) \/ Dispatch(t) \/ Claim(t) \/ Start(t)

Next ==
    \/ \E t \in Timers : Step(t) \/ Abort(t)
    \/ \E t \in Timers, c \in Commands : Deliver(t, c)
    \/ \E op \in running : Succeed(op) \/ FallShort(op) \/ Refuse(op)
    \/ Lose
    \/ Redeploy

Spec == Init /\ [][Next]_vars

\* A process that is not killed goes on, some timer fires again and again, and
\* an instance comes to an end, whatever that end is: a refused one fails, and
\* of the others at most MaxFailures fall short.
Fairness ==
    /\ \A t \in Timers : WF_vars(Step(t))
    /\ WF_vars(\E t \in Timers, c \in Commands : Deliver(t, c))
    /\ WF_vars(\E op \in running : Succeed(op) \/ FallShort(op) \/ Refuse(op))

FairSpec == Spec /\ Fairness

-----------------------------------------------------------------------------
(* Properties. *)

\* The state file holds commands, operations and snapshots of the declared
\* shapes, and the counters stay within their bounds.
TypeOK ==
    /\ retained \in [Commands -> Stored]
    /\ active \subseteq Commands
    /\ running \subseteq Operations /\ failed \subseteq Operations /\ done \subseteq Operations
    /\ at \in [Timers -> [step : Steps, op : Operations]]
    /\ cmd \in [Timers -> Commands]
    /\ todo \in [Timers -> SUBSET Operations]
    /\ out \in [Timers -> SUBSET Operations]
    /\ matrix \in 0..MaxReleases
    /\ admitted \subseteq Operations
    /\ stopped \subseteq Commands /\ succeeded \subseteq Commands
    /\ failures \in 0..MaxFailures /\ aborts \in 0..MaxAborts /\ losses \in 0..MaxLosses

\* The state file can always be read again (_decode_active and
\* _validate_waiting_commands, which every store call runs): the owner of a
\* group is a started root, and every waiting command names the owner of its
\* group and the attempt that owner is at, whatever timers retried, promoted
\* or claimed from older snapshots in between.
StateLoads ==
    /\ \A c \in active : retained[c].state = "STARTED" /\ retained[c].root = c
    /\ \A c \in Commands : retained[c].state = "COALESCED" =>
           \E d \in active : /\ Group[d] = Group[c]
                             /\ retained[c].root = d
                             /\ retained[c].attempt = retained[d].attempt

\* release_terminal_schedules, "release only semantically completed roots": a
\* command that was started and no longer owns its group has had an attempt
\* that succeeded, also when a timer acted on an observation the scheduler has
\* forgotten or superseded since.
ReleasedIsDone ==
    \A c \in Commands :
        retained[c].state = "STARTED" /\ c \notin active => c \in succeeded

\* "It must not create a competing baseline": two operations of one activity
\* group do not run at the same time.
NeverCompeting ==
    \A o1, o2 \in running : Group[o1[1]] = Group[o2[1]] => o1 = o2

\* While the scheduler keeps its instances, one operation of a group runs at a
\* time, and it is the current attempt of the command that owns the group,
\* however late a timer dispatches what it read.
OneCycleRuns ==
    losses = 0 =>
        /\ NeverCompeting
        /\ \A op \in running : op[1] \in active /\ op[2] = retained[op[1]].attempt

\* A slot whose timer ran to its end is retained, started or coalesced: the
\* process fails only after its command is in the state file.
DeliveredIsRetained ==
    \A t \in Timers : at[t].step = "failed" => retained[cmd[t]].state # "NONE"

\* The deployed matrix, or what its cycle has retained, fails every new attempt.
Refused(c) == retained[c].matrix # matrix \/ c \in stopped

\* A root of the slot's group, itself or the one it waits for, is refused.
Blocked(c) == \E d \in active : Group[d] = Group[c] /\ Refused(d)

\* Every retained slot is carried out in the end: retried until it succeeds,
\* then the oldest that waited behind it, and so on, after failed attempts,
\* killed timers and losses of the scheduler.  Only one thing keeps it from
\* that: from some point on, and for ever, a refused root owns its group.
RetainedIsCarriedOut ==
    \A c \in Commands :
        []<>(retained[c].state # "NONE" /\ ~Blocked(c)) => <>(c \in succeeded)
=============================================================================
