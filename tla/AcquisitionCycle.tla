-------------------------- MODULE AcquisitionCycle --------------------------
(***************************************************************************)
(* One acquisition cycle: the resumable runner (apps/acquisition-worker    *)
(* resumable_acquisition.py) over its journal, with the accounting of      *)
(* relationship work that the cases cycle does first                       *)
(* (hk_cases_acquisition.py).                                              *)
(*                                                                         *)
(* One coordinator appends to the journal; worker threads pass their       *)
(* host's gate and make the request.  The coordinator hears of a request   *)
(* only when it has returned, so its marker is written after it.  The      *)
(* process may die between any two appends, inside a batch, and with       *)
(* requests on their way; the next one, the journal's lease allows one at  *)
(* a time, resumes from the journal.                                       *)
(*                                                                         *)
(* Wall clock and monotonic clock are one, and the cycle starts at 0.  A   *)
(* request is made at the instant its gate is passed.  Every start         *)
(* reserves the same number of redirects, so that budget is one of starts. *)
(***************************************************************************)
EXTENDS AcquisitionJournal, FiniteSets, SequencesExt

CONSTANTS
    Items,            \* the work items that are requested
    Imports,          \* those of them whose evidence is already retained
    Relations,        \* relationships, accounted for without a request
    Host,             \* the host of each item
    Needs,            \* the items whose evidence an item waits for
    MaxStarts,        \* the budget of starts
    MaxRetained,      \* the budget of retained bodies
    MaxAttempts,      \* attempts of an item
    HostLimit,        \* requests of a host on their way at a time
    Interval,         \* time between two starts at a host
    MaxElapsed,       \* the elapsed budget, from the start of the cycle
    MaxTime,          \* bound: the clock
    MaxCrashes,       \* bound: deaths of the process
    Faults            \* which of "tear", "verify", "admission" and "stop" may happen

ASSUME ItemsAssumption ==
    Items # {} /\ Imports \subseteq Items /\ Relations \cap Items = {}
ASSUME RelationsAssumption == IsFiniteSet(Relations)
\* What CycleBudget and the runner require of their bounds.
ASSUME BudgetAssumption ==
    MaxStarts \in Nat /\ MaxRetained \in Nat /\ MaxAttempts \in Nat \ {0}
ASSUME TimeAssumption == Interval \in Nat /\ MaxElapsed \in Nat /\ MaxTime \in Nat

Work == Items \cup Relations

VARIABLES
    journal,
    torn,             \* the last file of the journal is not a whole entry
    phase,            \* the step of run() the coordinator is at
    scope,            \* the work items of this invocation's graph
    batch,            \* what append_many has still to publish
    pending,          \* attempts to make, with the instant they may be made
    flights,          \* attempts handed to a worker
    starts,           \* the starts charged so far
    stop,             \* why dispatching has stopped
    pass,             \* the pass that noticed it still has candidates
    nextStart, gate,  \* of each host, the coordinator's and the workers'
    now,
    requests,         \* the requests that were made (history)
    report,           \* the last report, and the requests made before it
    refused,          \* the journal refused an append
    crashes

memory == <<batch, pending, flights, starts, stop, pass, nextStart, gate>>
vars == <<journal, torn, phase, scope, batch, pending, flights, starts, stop, pass,
          nextStart, gate, now, requests, report, refused, crashes>>

Hosts == {Host[i] : i \in Work}
Larger(a, b) == IF a >= b THEN a ELSE b
Highest(S) == IF S = {} THEN 0 ELSE CHOOSE x \in S : \A y \in S : x >= y

Captured(log) == {i \in Work : Discovered(log, i) /\ Latest(log, i).kind \in Good}

\* append: an entry the lifecycle does not allow is refused, and run() raises;
\* that this never happens is AppendsAreLegal.
Record(e) ==
    /\ journal' = IF Accepts(journal, e) THEN Append(journal, e) ELSE journal
    /\ refused' = (refused \/ ~Accepts(journal, e))

-----------------------------------------------------------------------------
(* Opening the cycle. *)

\* _account_relationship_work: the relationships the journal does not know,
\* each discovered and excluded.
Relationships ==
    LET s == SetToSeq({i \in Relations : ~Discovered(journal, i)})
    IN  [k \in 1..2 * Len(s) |->
            Entry(s[(k + 1) \div 2], IF k % 2 = 1 THEN "DISCOVERED" ELSE "EXCLUDED", 0, 0)]

\* An invocation opens the journal, which must replay.  Once the listings are
\* captured the graph has the relationships they state, and the entries that
\* account for them are validated as one batch.
Open ==
    /\ phase \in {"down", "done"}
    /\ ~torn
    /\ IF Items \subseteq Captured(journal)
       THEN scope' = Work /\ batch' = Relationships
       ELSE scope' = Items /\ batch' = <<>>
    /\ phase' = "account"
    /\ UNCHANGED <<journal, torn, pending, flights, starts, stop, pass, nextStart, gate, now,
                   requests, report, refused, crashes>>

\* append_many publishes its entries one after the other.
Account ==
    /\ phase = "account"
    /\ IF batch = <<>>
       THEN phase' = "discover" /\ UNCHANGED <<journal, batch, refused>>
       ELSE Record(Head(batch)) /\ batch' = Tail(batch) /\ UNCHANGED phase
    /\ UNCHANGED <<torn, scope, pending, flights, starts, stop, pass, nextStart, gate, now,
                   requests, report, crashes>>

\* A step of run() that appends one entry for each item that needs it, and
\* goes on to the next step when there is none left.
ForEach(step, entries, next) ==
    /\ phase = step
    /\ IF entries = {}
       THEN phase' = next /\ UNCHANGED <<journal, refused>>
       ELSE \E e \in entries : Record(e) /\ UNCHANGED phase
    /\ UNCHANGED <<torn, scope, memory, now, requests, report, crashes>>

\* _discover_missing
Discover ==
    ForEach("discover",
            {Entry(i, "DISCOVERED", 0, 0) : i \in {j \in scope : ~Discovered(journal, j)}},
            "profile")

\* _bind_or_validate_cycle_profile, whose controls are constants here.
Bind ==
    ForEach("profile",
            IF Has(journal, "PROFILE") THEN {} ELSE {Entry(journal[1].item, "PROFILE", 0, 0)},
            "import")

\* _seed_preverified_imports
Import ==
    ForEach("import",
            {Entry(i, "IMPORTED", 0, 0) :
                i \in {j \in Imports : Latest(journal, j).kind # "IMPORTED"}},
            "judge")

\* An earlier stop, or retained evidence that no longer verifies, ends the run
\* with a report at once.
Judge ==
    /\ phase = "judge"
    /\ \/ stop' = StopsOf(journal)
       \/ /\ "verify" \in Faults /\ Captured(journal) # {}
          /\ stop' = StopsOf(journal) \cup {"evidence"}
    /\ phase' = IF stop' = {} THEN "orphans" ELSE "report"
    /\ UNCHANGED <<journal, torn, scope, batch, pending, flights, starts, pass, nextStart, gate,
                   now, requests, report, refused, crashes>>

\* The items whose request was started and has no outcome.
Started == {i \in scope : Latest(journal, i).kind = "STARTED"}

\* Mutant of Orphans: the interrupted attempt may be repeated at once.
OrphansAtOnce ==
    ForEach("orphans",
            {Entry(i, "INTERRUPTED", Latest(journal, i).attempt, Latest(journal, i).floor) :
                i \in Started},
            "exhausted")

\* _account_orphan_starts: a start without an outcome was interrupted; its
\* request may have been made at any time up to now.
Orphans ==
    ForEach("orphans",
            {Entry(i, "INTERRUPTED", Latest(journal, i).attempt,
                   Larger(now + Interval, Latest(journal, i).floor)) : i \in Started},
            "exhausted")

\* The items whose next attempt would be one more than limit.
Spent(limit) ==
    {i \in scope : Latest(journal, i).kind \in Retries /\ Latest(journal, i).attempt >= limit}

\* Mutant of Exhausted: one attempt more than there are.
ExhaustedLate ==
    ForEach("exhausted",
            {Entry(i, "EXHAUSTED", Latest(journal, i).attempt, 0) : i \in Spent(MaxAttempts + 1)},
            "enter")

\* _account_exhausted_retries
Exhausted ==
    ForEach("exhausted",
            {Entry(i, "EXHAUSTED", Latest(journal, i).attempt, 0) : i \in Spent(MaxAttempts)},
            "enter")

\* _pending_attempts
Waiting(log) ==
    {[item |-> i, attempt |-> Latest(log, i).attempt + 1,
      ready |-> IF Latest(log, i).kind = "DISCOVERED" THEN now ELSE Larger(now, Latest(log, i).floor)] :
        i \in {j \in scope : Latest(log, j).kind \in Retries \cup {"DISCOVERED"}}}

\* _durable_host_deadlines: when each host may be asked again.
Floors(log) ==
    [h \in Hosts |-> Highest({e.floor : e \in {f \in Entries(log) :
        Host[f.item] = h /\ f.kind \in {"TRANSPORT", "INTERRUPTED", "ADMISSION"}}})]

\* The queue, the budget and the gates are rebuilt from the journal.
Enter ==
    /\ phase = "enter"
    /\ pending' = Waiting(journal)
    /\ starts' = Cardinality(Charged(journal))
    /\ stop' = IF now >= MaxElapsed THEN {"elapsed"} ELSE {}
    /\ nextStart' = Floors(journal)
    /\ gate' = Floors(journal)
    /\ phase' = "loop"
    /\ UNCHANGED <<journal, torn, scope, batch, flights, pass, now, requests, report, refused, crashes>>

-----------------------------------------------------------------------------
(* The dispatching loop. *)

\* The coordinator is between two appends about one flight.
Busy == \E f \in flights : f.st \in {"marked", "exhaust"}
Looping == phase = "loop" /\ ~Busy

Eligible(p) == Needs[p.item] \subseteq Captured(journal)
Free(p) == Cardinality({f \in flights : Host[f.item] = Host[p.item]}) < HostLimit
At(p) == Larger(now, Larger(p.ready, nextStart[Host[p.item]]))

\* _can_reserve
Affordable ==
    /\ starts + Cardinality(flights) + 1 <= MaxStarts
    /\ Cardinality({e \in Entries(journal) : e.kind = "CAPTURED"}) + Cardinality(flights) + 1
           <= MaxRetained

\* A candidate is reserved, its start journalled and handed to a worker.
Dispatch ==
    /\ Looping
    /\ stop = {} \/ pass
    /\ \E p \in pending :
        /\ Eligible(p) /\ Free(p)
        /\ At(p) < MaxElapsed /\ Affordable
        /\ Record(Entry(p.item, "STARTED", p.attempt, At(p) + Interval))
        /\ pending' = pending \ {p}
        /\ flights' = flights \cup
               {[item |-> p.item, attempt |-> p.attempt, at |-> At(p), st |-> "waits"]}
        /\ nextStart' = [nextStart EXCEPT ![Host[p.item]] = At(p) + Interval]
    /\ UNCHANGED <<torn, phase, scope, batch, starts, stop, pass, gate, now, requests, report, crashes>>

\* Nothing is on its way and a candidate fits neither the time nor the budget
\* that is left; the pass goes on with its other candidates.
RunOut ==
    /\ Looping
    /\ stop = {} \/ pass
    /\ flights = {}
    /\ \E p \in pending :
        /\ Eligible(p)
        /\ \/ At(p) >= MaxElapsed /\ stop' = stop \cup {"elapsed"}
           \/ At(p) < MaxElapsed /\ ~Affordable /\ stop' = stop \cup {"budget"}
    /\ pass' = TRUE
    /\ UNCHANGED <<journal, torn, phase, scope, batch, pending, flights, starts, nextStart, gate,
                   now, requests, report, refused, crashes>>

\* stop_requested
Interrupt ==
    /\ Looping
    /\ "stop" \in Faults
    /\ stop' = stop \cup {"clean"}
    /\ pass' = FALSE
    /\ UNCHANGED <<journal, torn, phase, scope, batch, pending, flights, starts, nextStart, gate,
                   now, requests, report, refused, crashes>>

\* Mutant of Request: the worker repeats a request that has not come back.
RequestAgain ==
    /\ phase = "loop"
    /\ \E f \in flights :
        /\ f.st \in {"waits", "made"}
        /\ now >= f.at /\ now >= gate[Host[f.item]] /\ now < MaxElapsed
        /\ flights' = (flights \ {f}) \cup {[f EXCEPT !.st = "made", !.at = now]}
        /\ gate' = [gate EXCEPT ![Host[f.item]] = now + Interval]
        /\ requests' = requests \cup {[item |-> f.item, attempt |-> f.attempt, at |-> now]}
    /\ UNCHANGED <<journal, torn, phase, scope, batch, pending, starts, stop, pass, nextStart,
                   now, report, refused, crashes>>

\* _capture_at, a worker thread: it waits for its instant and for the host's
\* gate, then makes the request, unless the time is over or its clock fails.
Request ==
    /\ phase = "loop"
    /\ \E f \in flights :
        LET h == Host[f.item]
            Then(st) == flights' = (flights \ {f}) \cup {[f EXCEPT !.st = st, !.at = now]}
        IN
        /\ f.st = "waits"
        /\ \/ /\ now >= f.at /\ now >= gate[h]
              /\ IF now >= MaxElapsed
                 THEN Then("expired") /\ UNCHANGED <<gate, requests>>
                 ELSE /\ Then("made")
                      /\ gate' = [gate EXCEPT ![h] = now + Interval]
                      /\ requests' = requests \cup
                             {[item |-> f.item, attempt |-> f.attempt, at |-> now]}
           \/ /\ "admission" \in Faults
              /\ flights' = (flights \ {f}) \cup {[f EXCEPT !.st = "failed"]}
              /\ UNCHANGED <<gate, requests>>
    /\ UNCHANGED <<journal, torn, phase, scope, batch, pending, starts, stop, pass, nextStart,
                   now, report, refused, crashes>>

\* A request has returned: its marker is written and its start charged.
Mark ==
    /\ Looping
    /\ \E f \in flights :
        /\ f.st = "made"
        /\ Record(Entry(f.item, "TRANSPORT", f.attempt, f.at + Interval))
        /\ flights' = (flights \ {f}) \cup {[f EXCEPT !.st = "marked"]}
    /\ starts' = starts + 1
    /\ pass' = FALSE
    /\ UNCHANGED <<torn, phase, scope, batch, pending, stop, nextStart, gate, now, requests,
                   report, crashes>>

\* After what has completed is settled, the clock is looked at.
Elapsed == IF now >= MaxElapsed THEN {"elapsed"} ELSE {}
StopFor(kind) ==
    IF kind = "CONTRACT" THEN {"contract"}
    ELSE IF kind = "AUTHORIZATION" THEN {"authorization"}
    ELSE IF kind = "EVIDENCE" THEN {"evidence"} ELSE {}

\* _accept_outcome: the outcome is journalled.  A retry is queued, or is the
\* last one the item has.
Settle ==
    /\ phase = "loop"
    /\ \E f \in flights, kind \in {"CAPTURED", "RETRYABLE", "CONTRACT", "AUTHORIZATION",
                                   "UNAVAILABLE", "EVIDENCE"} :
        /\ f.st = "marked"
        /\ Record(Entry(f.item, kind, f.attempt, IF kind = "RETRYABLE" THEN now ELSE 0))
        /\ flights' = (flights \ {f}) \cup
               (IF kind = "RETRYABLE" /\ f.attempt >= MaxAttempts
                THEN {[f EXCEPT !.st = "exhaust"]} ELSE {})
        /\ pending' = pending \cup
               (IF kind = "RETRYABLE" /\ f.attempt < MaxAttempts
                THEN {[item |-> f.item, attempt |-> f.attempt + 1, ready |-> now]} ELSE {})
        /\ stop' = stop \cup Elapsed \cup StopFor(kind)
    /\ UNCHANGED <<torn, phase, scope, batch, starts, pass, nextStart, gate, now, requests,
                   report, crashes>>

\* A worker made no request: the reservation is cancelled.  Its start is left
\* as it is when the time was over, and closed when its admission failed.
Cancel ==
    /\ Looping
    /\ \E f \in flights :
        \/ /\ f.st = "expired"
           /\ flights' = flights \ {f}
           /\ stop' = stop \cup {"elapsed"}
           /\ UNCHANGED <<journal, refused>>
        \/ /\ f.st = "failed"
           /\ Record(Entry(f.item, "ADMISSION", f.attempt, f.at + Interval))
           /\ flights' = (flights \ {f}) \cup
                  (IF f.attempt >= MaxAttempts THEN {[f EXCEPT !.st = "exhaust"]} ELSE {})
           /\ stop' = stop \cup Elapsed \cup {"clean"}
    /\ pass' = FALSE
    /\ UNCHANGED <<torn, phase, scope, batch, pending, starts, nextStart, gate, now, requests,
                   report, crashes>>

\* The last attempt an item had is followed by its exhaustion.
Exhaust ==
    /\ phase = "loop"
    /\ \E f \in flights :
        /\ f.st = "exhaust"
        /\ Record(Entry(f.item, "EXHAUSTED", f.attempt, 0))
        /\ flights' = flights \ {f}
    /\ UNCHANGED <<torn, phase, scope, batch, pending, starts, stop, pass, nextStart, gate, now,
                   requests, report, crashes>>

\* Mutant of Leave: the loop goes on until nothing is left to try.
LeaveWhenIdle ==
    /\ Looping
    /\ flights = {}
    /\ \A p \in pending : ~Eligible(p)
    /\ phase' = "report"
    /\ UNCHANGED <<journal, refused, torn, scope, memory, now, requests, report, crashes>>

\* The loop ends: nothing is on its way, and dispatching has stopped, or what
\* is pending waits for evidence that will not come.  An elapsed budget is
\* journalled with the first item, the one that was discovered first.
Leave ==
    /\ Looping
    /\ flights = {}
    /\ stop # {} \/ \A p \in pending : ~Eligible(p)
    /\ IF "elapsed" \in stop
       THEN Record(Entry(journal[1].item, "ELAPSED", 0, 0))
       ELSE UNCHANGED <<journal, refused>>
    /\ phase' = "report"
    /\ UNCHANGED <<torn, scope, memory, now, requests, report, crashes>>

-----------------------------------------------------------------------------
\* _build_report: the result of a run.
Result ==
    LET states == {Latest(journal, i).kind : i \in {j \in Work : Discovered(journal, j)}}
    IN  IF "evidence" \in stop \/ Has(journal, "EVIDENCE") THEN "EVIDENCE_INTEGRITY_FAILURE"
        ELSE IF "contract" \in stop \/ "CONTRACT" \in states THEN "SOURCE_CONTRACT_CHANGED"
        ELSE IF "authorization" \in stop \/ "AUTHORIZATION" \in states THEN "AUTHORIZATION_FAILURE"
        ELSE IF "EXHAUSTED" \in states THEN "RETRY_EXHAUSTED"
        ELSE IF stop \cap {"budget", "elapsed"} # {} THEN "BUDGET_EXHAUSTED"
        ELSE IF "UNAVAILABLE" \in states THEN "INCOMPLETE_TERMINAL"
        ELSE IF states \subseteq Good THEN "COMPLETE" ELSE "INCOMPLETE_RETRYABLE"

NoReport == [result |-> "NONE", starts |-> 0, made |-> 0]

\* The report, and the end of the invocation.
Report ==
    /\ phase = "report"
    /\ report' = [result |-> Result, starts |-> Cardinality(Charged(journal)),
                  made |-> Cardinality(requests)]
    /\ phase' = "done"
    /\ batch' = <<>> /\ pending' = {} /\ flights' = {} /\ starts' = 0 /\ stop' = {} /\ pass' = FALSE
    /\ nextStart' = [h \in Hosts |-> 0] /\ gate' = [h \in Hosts |-> 0]
    /\ UNCHANGED <<journal, torn, scope, now, requests, refused, crashes>>

\* The process dies, with its requests; an entry it was writing may be a part.
Crash ==
    /\ phase \notin {"down", "done"}
    /\ crashes < MaxCrashes
    /\ crashes' = crashes + 1
    /\ phase' = "down"
    /\ torn' \in {FALSE, "tear" \in Faults}
    /\ batch' = <<>> /\ pending' = {} /\ flights' = {} /\ starts' = 0 /\ stop' = {} /\ pass' = FALSE
    /\ nextStart' = [h \in Hosts |-> 0] /\ gate' = [h \in Hosts |-> 0]
    /\ UNCHANGED <<journal, scope, now, requests, report, refused>>

Tick ==
    /\ now < MaxTime
    /\ now' = now + 1
    /\ UNCHANGED <<journal, torn, phase, scope, memory, requests, report, refused, crashes>>

Init ==
    /\ journal = <<>> /\ torn = FALSE /\ phase = "down" /\ scope = Items
    /\ batch = <<>> /\ pending = {} /\ flights = {} /\ starts = 0 /\ stop = {} /\ pass = FALSE
    /\ nextStart = [h \in Hosts |-> 0] /\ gate = [h \in Hosts |-> 0]
    /\ now = 0 /\ requests = {} /\ report = NoReport /\ refused = FALSE /\ crashes = 0

Opening == Open \/ Account \/ Discover \/ Bind \/ Import \/ Judge \/ Orphans \/ Exhausted \/ Enter
Loop == Dispatch \/ RunOut \/ Request \/ Mark \/ Settle \/ Cancel \/ Exhaust \/ Leave

Next == Opening \/ Loop \/ Interrupt \/ Report \/ Crash \/ Tick

Spec == Init /\ [][Next]_vars

\* The schedule starts the cycle again until it is done, a process that is not
\* killed goes on, a request returns, and time passes.
FairSpec ==
    Spec /\ WF_vars(Opening) /\ WF_vars(Loop) /\ WF_vars(Report) /\ WF_vars(Tick)

-----------------------------------------------------------------------------
(* Properties. *)

\* The journal holds entries about known work, and the coordinator's queue,
\* flights, stops and budget have the declared shapes.
TypeOK ==
    /\ \A e \in Entries(journal) : e.item \in Work /\ e.kind \in Kinds /\ e.attempt \in 0..MaxAttempts
    /\ \A p \in pending : p.item \in scope /\ p.attempt \in 1..MaxAttempts
    /\ \A f \in flights : /\ f.item \in scope /\ f.attempt \in 1..MaxAttempts
                          /\ f.st \in {"waits", "made", "marked", "expired", "failed", "exhaust"}
    /\ stop \subseteq {"clean", "budget", "elapsed", "contract", "evidence", "authorization"}
    /\ starts \in 0..MaxStarts
    /\ torn \in BOOLEAN /\ pass \in BOOLEAN /\ now \in 0..MaxTime

\* The journal never refuses what the runner appends: in whatever state a
\* death left the cycle, each step of the resumed run (_discover_missing to
\* _account_exhausted_retries, and the loop) is one the lifecycle of
\* _apply_transition allows, the floors of interrupted starts included.
AppendsAreLegal == ~refused

\* The budgets hold for the cycle and not for the process: over all its runs,
\* deaths with requests on their way included, no more requests are made than
\* maximum_starts and no more bodies retained than the budget has room for.
BudgetHolds ==
    /\ Cardinality(requests) <= MaxStarts
    /\ Cardinality({e \in Entries(journal) : e.kind = "CAPTURED"}) <= MaxRetained

\* Two requests to one host are the minimum interval apart, also when the
\* first was made by a process that died before it could write its marker.
HostsArePaced ==
    \A q, r \in requests :
        q # r /\ Host[q.item] = Host[r.item] => q.at + Interval <= r.at \/ r.at + Interval <= q.at

\* A request is never repeated: a resumed cycle does not ask for an item whose
\* evidence is retained, nor make an attempt that was made before.
NothingIsRepeated ==
    [][\A r \in requests' \ requests :
          /\ r.item \notin Captured(journal)
          /\ \A q \in requests : q.item = r.item => q.attempt < r.attempt]_vars

\* _account_relationship_work, "Give every source relationship a durable,
\* hash-bound terminal disposition": a relationship is never requested.
RelationshipsAreAccounted == \A r \in requests : r.item \notin Relations

\* "An unobserved worker may have called transport and must retain its full
\* debit": a report charges every request that was made before it.
ReportChargesRequests == report.starts >= report.made

\* A cycle that is run again after every death ends with a report that leaves
\* nothing to retry.
CycleIsDecided == <>(report.result \notin {"NONE", "INCOMPLETE_RETRYABLE"})

\* "If the cycle was interrupted, enqueueing the same slot resumes the same
\* cycle ID and journal head": after a death the cycle comes to a report.
InterruptedIsResumed == (phase = "down") ~> (phase = "done")
=============================================================================
