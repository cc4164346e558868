----------------------- MODULE AcquisitionCycleProofs -----------------------
(***************************************************************************)
(* Proofs about AcquisitionCycle, for any items, relationships, hosts,     *)
(* dependencies and budgets, and any number of deaths of the process.      *)
(*                                                                         *)
(* The journal is all that survives, so CycleInv says first what it means  *)
(* (JournalOK: the state of an item is the last word on its attempts) and  *)
(* what each step of the opening may rely on (ScopeInv, BatchInv,          *)
(* PhaseInv).  A request is debited from its start to its outcome          *)
(* (DebitsHold) and keeps its host closed by a marker, by the floor of an  *)
(* interruption, or because its start is still open (Covered); the loop's  *)
(* counters and gates agree with that (StartsHold, BodiesHold, GateInv).   *)
(***************************************************************************)
EXTENDS AcquisitionCycle, FiniteSetTheorems, SequenceTheorems, TLAPS

-----------------------------------------------------------------------------
(* The journal. *)

\* No entry carries an instant later than this.
Horizon == MaxTime + MaxElapsed + Interval
EntrySpace == [item : Work, kind : Kinds, attempt : 0..MaxAttempts, floor : 0..Horizon]

Known(i) == Discovered(journal, i)
StateOf(i) == Latest(journal, i)
IsLast(log, i, k) ==
    /\ k \in DOMAIN log /\ log[k].item = i /\ log[k].kind \notin Markers
    /\ \A j \in DOMAIN log : j > k => log[j].item # i \/ log[j].kind \in Markers

\* A state of an item is the last word on its attempts: what was written before
\* it is about no later attempt, and a start is not closed yet.
JournalOK(log) ==
    /\ log \in Seq(EntrySpace)
    /\ \A i : Discovered(log, i) => \E k : IsLast(log, i, k)
    /\ \A e \in Entries(log) : /\ e.attempt <= Latest(log, e.item).attempt
                               /\ e.kind = "DISCOVERED" => e.attempt = 0
                               /\ e.kind = "STARTED" => e.attempt >= 1
    /\ \A i : Discovered(log, i) /\ Latest(log, i).kind = "RETRYABLE" => Marked(log, i, Latest(log, i).attempt)
    /\ \A i : Discovered(log, i) /\ Latest(log, i).kind = "STARTED" =>
           \A g \in Of(log, i) : g.attempt = Latest(log, i).attempt => g.kind \in {"STARTED", "TRANSPORT"}
    /\ Has(log, "STARTED") => Has(log, "PROFILE")

\* Only once every item is captured is a relationship known, and the graph of
\* an invocation holds everything that is.
ScopeInv ==
    /\ Items \subseteq scope /\ scope \subseteq Work
    /\ (scope # Items \/ \E i \in Relations : Known(i)) => Items \subseteq Captured(journal)
    /\ phase \notin {"down", "done"} => \A i \in Work : Known(i) => i \in scope
    /\ phase \notin {"down", "done", "account", "discover"} => \A i \in scope : Known(i)

\* What is left of the batch discovers each relationship and then excludes it.
BatchInv ==
    /\ phase # "account" => batch = <<>>
    /\ batch \in Seq(EntrySpace)
    /\ \A k \in DOMAIN batch :
         /\ batch[k].item \in Relations \cap scope /\ batch[k].attempt = 0
         /\ \/ /\ batch[k].kind = "DISCOVERED" /\ ~Known(batch[k].item)
               /\ \A j \in 1..(k - 1) : batch[j].item # batch[k].item
            \/ /\ batch[k].kind = "EXCLUDED"
               /\ IF k = 1 THEN Known(batch[k].item) /\ StateOf(batch[k].item).kind = "DISCOVERED"
                  ELSE batch[k - 1].kind = "DISCOVERED" /\ batch[k - 1].item = batch[k].item

\* What each step of the opening has made sure of.
PhaseInv ==
    /\ phase \in {"import", "judge", "orphans", "exhausted", "enter", "loop"} => Has(journal, "PROFILE")
    /\ \A i \in Imports : Known(i) => StateOf(i).kind \in {"DISCOVERED", "IMPORTED"}
    /\ phase \in {"judge", "orphans", "exhausted", "enter", "loop"} =>
           \A i \in Imports : StateOf(i).kind = "IMPORTED"
    /\ phase \in {"orphans", "exhausted", "enter", "loop"} => ~Has(journal, "ELAPSED")
    /\ phase \in {"exhausted", "enter"} => \A i \in scope : StateOf(i).kind # "STARTED"
    /\ phase = "enter" => \A i \in scope : StateOf(i).kind \in Retries => StateOf(i).attempt < MaxAttempts

\* The requests of an attempt.
RequestsOf(i, n) == {r \in requests : r.item = i /\ r.attempt = n}

\* What is queued is the next attempt of its item.
PendingInv ==
    /\ phase \notin {"loop", "report"} => pending = {}
    /\ \A p \in pending : /\ p.item \in scope /\ p.attempt \in 1..MaxAttempts /\ p.ready \in Nat
                          /\ StateOf(p.item).kind \in Retries \cup {"DISCOVERED"}
                          /\ p.attempt = StateOf(p.item).attempt + 1
    /\ \A p, q \in pending : p.item = q.item => p = q

FlightSpace == [item : Work, attempt : 1..MaxAttempts, at : 0..(MaxTime + MaxElapsed),
                st : {"waits", "made", "marked", "expired", "failed", "exhaust"}]

\* A flight carries the started attempt of its item, knows whether its marker
\* is written, and has made the request it says it made.
FlightOK(f) ==
    /\ f \in FlightSpace /\ f.item \in scope
    /\ f.st # "exhaust" => StateOf(f.item).kind = "STARTED" /\ StateOf(f.item).attempt = f.attempt
    /\ f.st \in {"waits", "failed"} => StateOf(f.item).floor = f.at + Interval
    /\ f.st \in {"waits", "failed", "expired"} => RequestsOf(f.item, f.attempt) = {}
    /\ f.st \in {"waits", "failed", "expired", "made"} => ~Marked(journal, f.item, f.attempt)
    /\ f.st = "made" => f.at <= now /\ \A r \in RequestsOf(f.item, f.attempt) : r.at <= f.at
    /\ f.st = "marked" => Marked(journal, f.item, f.attempt)
    /\ f.st = "exhaust" => /\ StateOf(f.item).kind \in {"RETRYABLE", "ADMISSION"}
                           /\ StateOf(f.item).attempt = f.attempt /\ f.attempt = MaxAttempts
    /\ f.st = "expired" => now >= MaxElapsed

FlightsInv ==
    /\ phase # "loop" => flights = {}
    /\ IsFiniteSet(flights)
    /\ \A f \in flights : FlightOK(f)
    /\ \A f, g \in flights : f.item = g.item => f = g

\* The attempts whose start has no outcome, and all that are debited.
OpenStarts == {<<i, StateOf(i).attempt>> : i \in {j \in Work : Known(j) /\ StateOf(j).kind = "STARTED"}}
Debits == Charged(journal) \cup OpenStarts
Bodies == {e \in Entries(journal) : e.kind = "CAPTURED"}

RequestSpace == [item : Work, attempt : 1..MaxAttempts, at : 0..MaxTime]

\* Every request is debited, one for a debit, and the debits are within the
\* budget however many processes made them.
DebitsHold ==
    /\ IsFiniteSet(Debits) /\ Cardinality(Debits) <= MaxStarts
    /\ \A r \in requests : <<r.item, r.attempt>> \in Debits
    /\ \A q, r \in requests : q.item = r.item /\ q.attempt = r.attempt => q = r

\* There is room for the bodies that are on their way.
BodiesHold == IsFiniteSet(Bodies) /\ Cardinality(Bodies) + Cardinality(flights) <= MaxRetained

\* The loop counts what is charged, and while there is time every open start is
\* that of a flight.
StartsHold ==
    /\ starts \in 0..MaxStarts
    /\ phase = "loop" => starts = Cardinality(Charged(journal))
    /\ phase = "loop" /\ now < MaxElapsed =>
           \A d \in OpenStarts : \E f \in flights : d = <<f.item, f.attempt>>

\* An entry that keeps the host of a request closed for the interval.
Covers(e, r) ==
    /\ e.kind \in {"TRANSPORT", "INTERRUPTED"} /\ Host[e.item] = Host[r.item]
    /\ e.floor >= r.at + Interval

\* A request keeps its host closed: by an entry, or because its start is still
\* to be accounted for.
Covered(r) ==
    \/ \E e \in Entries(journal) : Covers(e, r)
    \/ /\ Known(r.item) /\ StateOf(r.item).kind = "STARTED" /\ StateOf(r.item).attempt = r.attempt
       /\ ~Marked(journal, r.item, r.attempt)

RequestsPaced ==
    /\ requests \subseteq RequestSpace
    /\ \A r \in requests : r.at <= now /\ Covered(r)
    /\ HostsArePaced

\* In the loop the gate of a host is closed until the interval has passed.
GateInv ==
    /\ gate \in [Hosts -> Nat] /\ nextStart \in [Hosts -> Nat]
    /\ phase = "loop" => \A r \in requests : gate[Host[r.item]] >= r.at + Interval

Stops == {"clean", "budget", "elapsed", "contract", "evidence", "authorization"}
StatusInv ==
    /\ stop \subseteq Stops
    /\ torn \in BOOLEAN /\ pass \in BOOLEAN /\ now \in 0..MaxTime
    /\ ~refused

CycleInv ==
    /\ JournalOK(journal) /\ ScopeInv /\ BatchInv /\ PhaseInv /\ PendingInv /\ FlightsInv
    /\ DebitsHold /\ BodiesHold /\ StartsHold /\ RequestsPaced /\ GateInv /\ StatusInv
-----------------------------------------------------------------------------
(* Appending to a journal. *)

\* The state of an item is the entry of its last index.
LEMMA LatestIs ==
  ASSUME NEW log \in Seq(EntrySpace), NEW i, NEW k, IsLast(log, i, k)
  PROVE  Latest(log, i) = log[k]
<1> DEFINE m == CHOOSE x \in DOMAIN log :
                  /\ log[x].item = i /\ log[x].kind \notin Markers
                  /\ \A j \in DOMAIN log : j > x => log[j].item # i \/ log[j].kind \in Markers
<1>1. /\ m \in DOMAIN log /\ log[m].item = i /\ log[m].kind \notin Markers
      /\ \A j \in DOMAIN log : j > m => log[j].item # i \/ log[j].kind \in Markers
  <2>1. \E x \in DOMAIN log :
           /\ log[x].item = i /\ log[x].kind \notin Markers
           /\ \A j \in DOMAIN log : j > x => log[j].item # i \/ log[j].kind \in Markers
    BY DEF IsLast
  <2>2. QED
    BY <2>1
<1>2. Latest(log, i) = log[m]
  BY DEF Latest
<1> HIDE DEF m
<1>3. DOMAIN log \subseteq Nat
  BY DEF EntrySpace
<1>4. m = k
  BY <1>1, <1>3 DEF IsLast
<1>5. QED
  BY <1>2, <1>4

\* The state of a known item is one of its entries.
LEMMA LatestType ==
  ASSUME NEW log, JournalOK(log), NEW i, Discovered(log, i)
  PROVE  /\ Latest(log, i) \in Of(log, i) /\ Latest(log, i) \in Entries(log)
         /\ Latest(log, i) \in EntrySpace /\ Latest(log, i).item = i
         /\ Latest(log, i).kind \notin Markers
<1>1. log \in Seq(EntrySpace)
  BY DEF JournalOK
<1>2. PICK k : IsLast(log, i, k)
  BY DEF JournalOK
<1>3. Latest(log, i) = log[k]
  BY <1>1, <1>2, LatestIs
<1>4. k \in DOMAIN log /\ log[k].item = i /\ log[k].kind \notin Markers
  BY <1>2 DEF IsLast
<1>5. log[k] \in EntrySpace
  BY <1>1, <1>4
<1>6. QED
  BY <1>3, <1>4, <1>5 DEF Of, Entries

\* An entry makes its item known.
LEMMA EntryType ==
  ASSUME NEW log, JournalOK(log), NEW x \in Entries(log)
  PROVE  /\ x \in EntrySpace /\ x.attempt \in Nat /\ x.floor \in Nat
         /\ Discovered(log, x.item) /\ x \in Of(log, x.item)
<1>1. log \in Seq(EntrySpace)
  BY DEF JournalOK
<1>2. PICK k \in DOMAIN log : x = log[k]
  BY DEF Entries
<1>3. x \in EntrySpace
  BY <1>1, <1>2
<1>4. x \in Of(log, x.item)
  BY DEF Of
<1>5. x.attempt \in Nat /\ x.floor \in Nat
  BY <1>3, BudgetAssumption, TimeAssumption DEF EntrySpace, Horizon
<1>6. QED
  BY <1>3, <1>4, <1>5 DEF Discovered

\* What an append does to what is read off a journal.
Extends(old, new, e) ==
    /\ Entries(new) = Entries(old) \cup {e}
    /\ \A i : Discovered(new, i) <=> Discovered(old, i) \/ i = e.item
    /\ \A i : Discovered(old, i) /\ (i # e.item \/ e.kind \in Markers) => Latest(new, i) = Latest(old, i)
    /\ e.kind \notin Markers => Latest(new, e.item) = e

LEMMA AppendExtends ==
  ASSUME NEW log, JournalOK(log), NEW e \in EntrySpace,
         e.kind \in Markers => Discovered(log, e.item)
  PROVE  /\ Append(log, e) \in Seq(EntrySpace)
         /\ Extends(log, Append(log, e), e)
         /\ \A i : Discovered(Append(log, e), i) => \E k : IsLast(Append(log, e), i, k)
<1> DEFINE new == Append(log, e)
<1>1. log \in Seq(EntrySpace) /\ Len(log) \in Nat /\ DOMAIN log = 1..Len(log)
  BY DEF JournalOK
<1>2. new \in Seq(EntrySpace) /\ DOMAIN new = 1..(Len(log) + 1)
  BY <1>1
<1>3. new[Len(log) + 1] = e /\ \A k \in 1..Len(log) : new[k] = log[k]
  BY <1>1
<1> HIDE DEF new
<1>4. Entries(new) = Entries(log) \cup {e}
  <2>1. ASSUME NEW x \in Entries(new) PROVE x \in Entries(log) \cup {e}
    <3>1. PICK k \in DOMAIN new : x = new[k]
      BY <2>1 DEF Entries
    <3>2. CASE k = Len(log) + 1
      BY <1>3, <3>1, <3>2
    <3>3. CASE k # Len(log) + 1
      <4>1. k \in DOMAIN log /\ x = log[k]
        BY <1>1, <1>2, <1>3, <3>1, <3>3
      <4>2. QED
        BY <4>1 DEF Entries
    <3>4. QED
      BY <3>2, <3>3
  <2>2. ASSUME NEW x \in Entries(log) PROVE x \in Entries(new)
    <3>1. PICK k \in DOMAIN log : x = log[k]
      BY <2>2 DEF Entries
    <3>2. k \in DOMAIN new /\ x = new[k]
      BY <1>1, <1>2, <1>3, <3>1
    <3>3. QED
      BY <3>2 DEF Entries
  <2>3. e \in Entries(new)
    <3>1. Len(log) + 1 \in DOMAIN new
      BY <1>1, <1>2
    <3>2. QED
      BY <1>3, <3>1 DEF Entries
  <2>4. QED
    BY <2>1, <2>2, <2>3
<1>5. \A i : Discovered(new, i) <=> Discovered(log, i) \/ i = e.item
  BY <1>4 DEF Discovered, Of
<1>6. ASSUME NEW i, Discovered(log, i), i # e.item \/ e.kind \in Markers
      PROVE  Latest(new, i) = Latest(log, i) /\ \E k : IsLast(new, i, k)
  <2>1. PICK k : IsLast(log, i, k)
    BY <1>6 DEF JournalOK
  <2>2. IsLast(new, i, k)
    BY <1>1, <1>2, <1>3, <1>6, <2>1 DEF IsLast
  <2>3. Latest(log, i) = log[k] /\ Latest(new, i) = new[k]
    BY <1>1, <1>2, <2>1, <2>2, LatestIs
  <2>4. QED
    BY <1>3, <1>1, <2>1, <2>2, <2>3 DEF IsLast
<1>7. ASSUME e.kind \notin Markers
      PROVE  Latest(new, e.item) = e /\ \E k : IsLast(new, e.item, k)
  <2>1. IsLast(new, e.item, Len(log) + 1)
    BY <1>1, <1>2, <1>3, <1>7 DEF IsLast
  <2>2. QED
    BY <1>2, <1>3, <2>1, LatestIs
<1>8. \A i : Discovered(new, i) => \E k : IsLast(new, i, k)
  BY <1>5, <1>6, <1>7
<1>9. QED
  BY <1>2, <1>4, <1>5, <1>6, <1>7, <1>8 DEF Extends, new

\* Entries without an attempt have attempt 0.
Fits(e) ==
    /\ e \in EntrySpace
    /\ e.kind \in {"DISCOVERED", "PROFILE", "ELAPSED", "IMPORTED", "EXCLUDED"} => e.attempt = 0

Outcomes == {"CAPTURED", "RETRYABLE", "INTERRUPTED", "ADMISSION", "CONTRACT", "AUTHORIZATION",
             "UNAVAILABLE", "EVIDENCE"}

\* What the lifecycle demands of an entry, kind by kind.
LEMMA AcceptMeans ==
  ASSUME NEW log, NEW e, e.kind \in Kinds, Accepts(log, e)
  PROVE  /\ e.kind = "DISCOVERED" <=> ~Discovered(log, e.item)
         /\ e.kind = "TRANSPORT" => /\ Latest(log, e.item).kind = "STARTED"
                                    /\ Latest(log, e.item).attempt = e.attempt
                                    /\ ~Marked(log, e.item, e.attempt)
         /\ e.kind \in {"IMPORTED", "EXCLUDED"} => Latest(log, e.item).kind = "DISCOVERED"
         /\ e.kind = "STARTED" => /\ Latest(log, e.item).kind \in Retries \cup {"DISCOVERED"}
                                  /\ e.attempt = Latest(log, e.item).attempt + 1
                                  /\ Has(log, "PROFILE")
         /\ e.kind = "EXHAUSTED" => /\ Latest(log, e.item).kind \in Retries
                                    /\ Latest(log, e.item).attempt = e.attempt
         /\ e.kind \in Outcomes => Closes(log, e)
  BY DEF Accepts, Kinds, Markers, Retries, Terminal, Good, Outcomes

\* An outcome other than an interruption or a failed admission is marked.
LEMMA OutcomeMarked ==
  ASSUME NEW log, NEW e, Closes(log, e), e.kind \notin {"INTERRUPTED", "ADMISSION"}
  PROVE  Marked(log, e.item, e.attempt)
  BY DEF Closes

\* An entry the lifecycle allows keeps the journal in order.
LEMMA AppendKeeps ==
  ASSUME NEW log, JournalOK(log), NEW e, Fits(e), Accepts(log, e)
  PROVE  JournalOK(Append(log, e)) /\ Extends(log, Append(log, e), e)
<1> DEFINE new == Append(log, e)
           last == Latest(log, e.item)
<1>1. e \in EntrySpace /\ e.kind \in Kinds /\ e.attempt \in Nat
  BY BudgetAssumption DEF Fits, EntrySpace
<1>2. e.kind # "DISCOVERED" =>
          /\ Discovered(log, e.item) /\ last \in EntrySpace /\ last.attempt \in Nat
          /\ last \in Entries(log) /\ last.item = e.item
  <2>1. e.kind # "DISCOVERED" => Discovered(log, e.item)
    BY <1>1, AcceptMeans
  <2>2. QED
    BY <2>1, LatestType, BudgetAssumption DEF EntrySpace
<1>3. /\ new \in Seq(EntrySpace) /\ Extends(log, new, e)
      /\ \A i : Discovered(new, i) => \E k : IsLast(new, i, k)
  <2>1. e.kind \in Markers => Discovered(log, e.item)
    BY <1>2 DEF Markers
  <2>2. QED
    BY <1>1, <2>1, AppendExtends
<1>4. \A i, n : Marked(log, i, n) => Marked(new, i, n)
  BY <1>3 DEF Marked, Of, Extends
<1>5. e.kind \notin Markers /\ e.kind # "DISCOVERED" => e.attempt >= last.attempt
  <2>1. CASE e.kind \in {"IMPORTED", "EXCLUDED"}
    <3>1. last.kind = "DISCOVERED" /\ last \in Entries(log)
      BY <1>1, <1>2, <2>1, AcceptMeans
    <3>2. last.attempt = 0 /\ e.attempt = 0
      BY <2>1, <3>1 DEF JournalOK, Fits
    <3>3. QED
      BY <3>2
  <2>2. CASE e.kind \in Outcomes
    <3>1. last.attempt = e.attempt
      BY <1>1, <2>2, AcceptMeans DEF Closes
    <3>2. QED
      BY <1>1, <3>1
  <2>3. CASE e.kind \in {"STARTED", "EXHAUSTED"}
    <3>1. e.attempt = last.attempt + 1 \/ e.attempt = last.attempt
      BY <1>1, <2>3, AcceptMeans
    <3>2. QED
      BY <1>1, <1>2, <2>3, <3>1
  <2>4. QED
    BY <1>1, <2>1, <2>2, <2>3 DEF Kinds, Markers, Retries, Terminal, Good, Outcomes
<1>6. e.kind \in Markers => e.attempt <= last.attempt /\ (e.kind # "TRANSPORT" => e.attempt = 0)
  <2>1. CASE e.kind = "TRANSPORT"
    BY <1>1, <1>2, <2>1, AcceptMeans
  <2>2. CASE e.kind \in {"PROFILE", "ELAPSED"}
    BY <1>1, <1>2, <2>2 DEF Fits
  <2>3. QED
    BY <2>1, <2>2 DEF Markers
<1>7. ASSUME NEW x \in Entries(log) PROVE Discovered(log, x.item) /\ x \in Of(log, x.item) /\ x \in EntrySpace /\ x.attempt \in Nat
  BY EntryType
<1> HIDE DEF new, last
<1>8. ASSUME NEW x \in Entries(new)
      PROVE  /\ x.attempt <= Latest(new, x.item).attempt
             /\ x.kind = "DISCOVERED" => x.attempt = 0
             /\ x.kind = "STARTED" => x.attempt >= 1
  <2>1. CASE x \in Entries(log)
    <3>1. /\ x.attempt <= Latest(log, x.item).attempt /\ Discovered(log, x.item)
          /\ x.kind = "DISCOVERED" => x.attempt = 0
          /\ x.kind = "STARTED" => x.attempt >= 1
      BY <1>7, <2>1 DEF JournalOK
    <3>2. CASE x.item # e.item \/ e.kind \in Markers
      BY <1>3, <3>1, <3>2 DEF Extends
    <3>3. CASE x.item = e.item /\ e.kind \notin Markers
      <4>1. e.kind # "DISCOVERED"
        BY <1>1, <3>1, <3>3, AcceptMeans
      <4>2. Latest(new, x.item) = e /\ x.attempt <= last.attempt /\ last.attempt <= e.attempt
        BY <1>1, <1>2, <1>3, <1>5, <3>1, <3>3, <4>1 DEF Extends, last
      <4>3. QED
        BY <1>1, <1>2, <1>7, <2>1, <3>1, <4>1, <4>2
    <3>4. QED
      BY <3>2, <3>3
  <2>2. CASE x = e
    <3>1. x.attempt <= Latest(new, x.item).attempt
      <4>1. CASE e.kind \in Markers
        <5>1. Latest(new, e.item) = last
          BY <1>2, <1>3, <4>1 DEF Extends, last, Markers
        <5>2. QED
          BY <1>6, <2>2, <4>1, <5>1
      <4>2. CASE e.kind \notin Markers
        BY <1>1, <1>3, <2>2, <4>2 DEF Extends
      <4>3. QED
        BY <4>1, <4>2
    <3>2. e.kind = "STARTED" => e.attempt >= 1
      <4>1. e.kind = "STARTED" => e.attempt = last.attempt + 1
        BY <1>1, AcceptMeans DEF last
      <4>2. QED
        BY <1>2, <4>1
    <3>3. QED
      BY <2>2, <3>1, <3>2 DEF Fits
  <2>3. QED
    BY <1>3, <2>1, <2>2 DEF Extends
<1>9. ASSUME NEW i, Discovered(new, i), Latest(new, i).kind = "RETRYABLE"
      PROVE  Marked(new, i, Latest(new, i).attempt)
  <2>1. CASE i = e.item /\ e.kind \notin Markers
    <3>1. Latest(new, i) = e /\ e.kind = "RETRYABLE"
      BY <1>3, <1>9, <2>1 DEF Extends
    <3>2. Closes(log, e)
      BY <1>1, <3>1, AcceptMeans DEF Outcomes
    <3>3. Marked(log, i, e.attempt)
      BY <2>1, <3>1, <3>2, OutcomeMarked
    <3>4. QED
      BY <1>4, <3>1, <3>3
  <2>2. CASE i # e.item \/ e.kind \in Markers
    <3>1. Discovered(log, i)
      BY <1>2, <1>3, <1>9, <2>2 DEF Extends, Markers
    <3>2. Latest(new, i) = Latest(log, i)
      BY <1>3, <2>2, <3>1 DEF Extends
    <3>3. QED
      BY <1>4, <1>9, <3>1, <3>2 DEF JournalOK
  <2>3. QED
    BY <2>1, <2>2
<1>10. ASSUME NEW i, Discovered(new, i), Latest(new, i).kind = "STARTED",
              NEW g \in Of(new, i), g.attempt = Latest(new, i).attempt
       PROVE  g.kind \in {"STARTED", "TRANSPORT"}
  <2>1. g = e \/ g \in Of(log, i)
    BY <1>3, <1>10 DEF Extends, Of
  <2>2. CASE i = e.item /\ e.kind \notin Markers
    <3>1. Latest(new, i) = e /\ e.kind = "STARTED"
      BY <1>3, <1>10, <2>2 DEF Extends
    <3>2. e.attempt = last.attempt + 1 /\ last.attempt \in Nat
      BY <1>1, <1>2, <3>1, AcceptMeans DEF last
    <3>3. g \in Of(log, i) => g.attempt <= last.attempt
      BY <2>2 DEF JournalOK, Of, last
    <3>4. g \notin Of(log, i)
      BY <1>10, <3>1, <3>2, <3>3
    <3>5. QED
      BY <2>1, <3>1, <3>4
  <2>3. CASE i # e.item \/ e.kind \in Markers
    <3>1. Discovered(log, i)
      BY <1>2, <1>3, <1>10, <2>3 DEF Extends, Markers
    <3>2. Latest(new, i) = Latest(log, i) /\ Latest(log, i) \in Entries(log)
      BY <1>3, <2>3, <3>1, LatestType DEF Extends
    <3>3. CASE g \in Of(log, i)
      BY <1>10, <3>1, <3>2, <3>3 DEF JournalOK
    <3>4. CASE g = e
      <4>1. i = e.item /\ e.kind \in Markers
        BY <1>10, <2>3, <3>4 DEF Of
      <4>2. Latest(log, i).attempt >= 1
        BY <1>10, <3>2 DEF JournalOK
      <4>3. e.kind = "TRANSPORT"
        BY <1>6, <1>10, <3>2, <3>4, <4>1, <4>2
      <4>4. QED
        BY <3>4, <4>3
    <3>5. QED
      BY <2>1, <3>3, <3>4
  <2>4. QED
    BY <2>2, <2>3
<1>11. Has(new, "STARTED") => Has(new, "PROFILE")
  <2>1. e.kind = "STARTED" => Has(log, "PROFILE")
    BY <1>1, AcceptMeans
  <2>2. QED
    BY <1>3, <2>1 DEF Has, Extends, JournalOK
<1>12. JournalOK(new)
  BY <1>3, <1>8, <1>9, <1>10, <1>11 DEF JournalOK
<1>13. QED
  BY <1>3, <1>12 DEF new

\* An append that the lifecycle allows, seen from the next state.
Appends(e) ==
    /\ JournalOK(journal) /\ JournalOK(journal') /\ Extends(journal, journal', e)
    /\ Fits(e) /\ Accepts(journal, e)

\* The runner's append of such an entry is not refused.
LEMMA Recorded ==
  ASSUME JournalOK(journal), NEW e, Fits(e), Accepts(journal, e), Record(e), ~refused
  PROVE  Appends(e) /\ ~refused'
  BY AppendKeeps DEF Record, Appends

-----------------------------------------------------------------------------
(* What an append does to the debits. *)

Charging == Outcomes \ {"ADMISSION"}
Begun(log, i, n) == \E s \in Entries(log) : s.kind = "STARTED" /\ s.item = i /\ s.attempt = n
Closed(log, i, n) == \E g \in Of(log, i) : g.attempt = n /\ g.kind \in Charging

\* A start is charged when it was begun, and marked or closed.
LEMMA ChargedIs ==
  ASSUME NEW log
  PROVE  /\ \A i, n : <<i, n>> \in Charged(log) <=>
                          Begun(log, i, n) /\ (Marked(log, i, n) \/ Closed(log, i, n))
         /\ \A d \in Charged(log) : \E i, n : d = <<i, n>>
<1>1. Charging = {"CAPTURED", "RETRYABLE", "INTERRUPTED", "CONTRACT", "AUTHORIZATION",
                  "UNAVAILABLE", "EVIDENCE"}
  BY DEF Charging, Outcomes
<1>2. Charged(log) = {<<e.item, e.attempt>> : e \in {f \in Entries(log) :
          f.kind = "STARTED" /\ (Marked(log, f.item, f.attempt) \/ Closed(log, f.item, f.attempt))}}
  BY <1>1 DEF Charged, Closed
<1>3. QED
  BY <1>2 DEF Begun

LEMMA OpenIs ==
  /\ \A i, n : <<i, n>> \in OpenStarts <=>
                   i \in Work /\ Known(i) /\ StateOf(i).kind = "STARTED" /\ StateOf(i).attempt = n
  /\ \A d \in OpenStarts : \E i, n : d = <<i, n>>
  BY DEF OpenStarts

\* Without the marker and the outcome a start stays open, and with one of them
\* it is charged: an append takes a debit away only when an admission failed.
LEMMA DebitsMove ==
  ASSUME NEW e, Appends(e)
  PROVE  LET d == <<e.item, e.attempt>> IN
         /\ e.kind \in Charging \cup {"TRANSPORT"} => Charged(journal') = Charged(journal) \cup {d}
         /\ e.kind \notin Charging \cup {"TRANSPORT"} => Charged(journal') = Charged(journal)
         /\ e.kind = "TRANSPORT" => d \in OpenStarts /\ d \notin Charged(journal)
         /\ e.kind \in Outcomes => d \in OpenStarts /\ OpenStarts' = OpenStarts \ {d}
         /\ e.kind \in Charging /\ Marked(journal, e.item, e.attempt) => d \in Charged(journal)
         /\ e.kind = "STARTED" => OpenStarts' = OpenStarts \cup {d}
         /\ e.kind \notin Outcomes \cup {"STARTED"} => OpenStarts' = OpenStarts
<1> DEFINE d == <<e.item, e.attempt>>
<1>1. /\ JournalOK(journal) /\ JournalOK(journal') /\ Extends(journal, journal', e)
      /\ e \in EntrySpace /\ e.kind \in Kinds /\ e.item \in Work /\ Accepts(journal, e)
  BY DEF Appends, Fits, EntrySpace
<1>2. e.kind # "DISCOVERED" => /\ Known(e.item) /\ StateOf(e.item) \in Entries(journal)
                               /\ StateOf(e.item).item = e.item /\ StateOf(e.item).attempt \in Nat
  <2>1. e.kind # "DISCOVERED" => Known(e.item)
    BY <1>1, AcceptMeans DEF Known
  <2>2. QED
    BY <1>1, <2>1, LatestType, EntryType DEF StateOf, Known
<1>3. e.kind \in Outcomes \cup {"TRANSPORT"} => StateOf(e.item).kind = "STARTED" /\ StateOf(e.item).attempt = e.attempt
  BY <1>1, AcceptMeans DEF StateOf, Closes
<1>4. e.kind \in Outcomes \cup {"TRANSPORT"} => Begun(journal, e.item, e.attempt) /\ d \in OpenStarts
  <2>1. e.kind \in Outcomes \cup {"TRANSPORT"} => e.kind # "DISCOVERED"
    BY DEF Outcomes
  <2>2. QED
    BY <1>1, <1>2, <1>3, <2>1, OpenIs DEF Begun
<1>5. \A i, n : Marked(journal', i, n) <=> Marked(journal, i, n) \/ (e.kind = "TRANSPORT" /\ i = e.item /\ n = e.attempt)
  BY <1>1 DEF Extends, Marked, Of
<1>6. \A i, n : Closed(journal', i, n) <=> Closed(journal, i, n) \/ (e.kind \in Charging /\ i = e.item /\ n = e.attempt)
  BY <1>1 DEF Extends, Closed, Of
<1>7. \A i, n : Begun(journal', i, n) <=> Begun(journal, i, n) \/ (e.kind = "STARTED" /\ i = e.item /\ n = e.attempt)
  BY <1>1 DEF Extends, Begun
<1>8. ASSUME e.kind = "STARTED"
      PROVE  ~Marked(journal, e.item, e.attempt) /\ ~Closed(journal, e.item, e.attempt)
  <2>1. e.attempt = StateOf(e.item).attempt + 1
    BY <1>1, <1>8, AcceptMeans DEF StateOf
  <2>2. \A g \in Of(journal, e.item) : g.attempt <= StateOf(e.item).attempt
    BY <1>1 DEF JournalOK, Of, StateOf
  <2>3. \A g \in Of(journal, e.item) : g.attempt # e.attempt
    BY <1>2, <1>8, <2>1, <2>2
  <2>4. QED
    BY <2>3 DEF Marked, Closed
<1>9. ASSUME e.kind \in Charging \cup {"TRANSPORT"}
      PROVE  Charged(journal') = Charged(journal) \cup {d}
  <2>1. e.kind # "STARTED" /\ e.kind \in Outcomes \cup {"TRANSPORT"}
    BY <1>9 DEF Charging, Outcomes
  <2>2. \A i, n : <<i, n>> \in Charged(journal') <=> <<i, n>> \in Charged(journal) \/ <<i, n>> = d
    BY <1>4, <1>5, <1>6, <1>7, <1>9, <2>1, ChargedIs
  <2>3. \A x \in Charged(journal') \cup Charged(journal) : \E i, n : x = <<i, n>>
    BY ChargedIs
  <2>4. QED
    BY <2>2, <2>3
<1>10. ASSUME e.kind \notin Charging \cup {"TRANSPORT"}
       PROVE  Charged(journal') = Charged(journal)
  <2>1. \A i, n : <<i, n>> \in Charged(journal') <=> <<i, n>> \in Charged(journal)
    BY <1>5, <1>6, <1>7, <1>8, <1>10, ChargedIs
  <2>2. \A x \in Charged(journal') \cup Charged(journal) : \E i, n : x = <<i, n>>
    BY ChargedIs
  <2>3. QED
    BY <2>1, <2>2
<1>11. ASSUME e.kind = "TRANSPORT" PROVE d \in OpenStarts /\ d \notin Charged(journal)
  <2>1. ~Marked(journal, e.item, e.attempt)
    BY <1>1, <1>11, AcceptMeans
  <2>2. ~Closed(journal, e.item, e.attempt)
    <3>1. \A g \in Of(journal, e.item) : g.attempt = e.attempt => g.kind \in {"STARTED", "TRANSPORT"}
      BY <1>1, <1>2, <1>3, <1>11 DEF JournalOK, StateOf, Known
    <3>2. QED
      BY <3>1 DEF Closed, Charging, Outcomes
  <2>3. QED
    BY <1>4, <1>11, <2>1, <2>2, ChargedIs
<1>12. \A i, n : <<i, n>> \in OpenStarts' <=>
           i \in Work /\ Known(i)' /\ StateOf(i)'.kind = "STARTED" /\ StateOf(i)'.attempt = n
  BY DEF OpenStarts
<1>13. \A x \in OpenStarts' : \E i, n : x = <<i, n>>
  BY DEF OpenStarts
<1>14. \A i : i # e.item => (Known(i)' <=> Known(i)) /\ (Known(i) => StateOf(i)' = StateOf(i))
  BY <1>1 DEF Extends, Known, StateOf
<1>15. Known(e.item)' /\ (e.kind \notin Markers => StateOf(e.item)' = e)
  BY <1>1 DEF Extends, Known, StateOf
<1>16. e.kind \in Markers => StateOf(e.item)' = StateOf(e.item) /\ Known(e.item)
  BY <1>1, <1>2 DEF Extends, Known, StateOf, Markers
<1>17. ASSUME e.kind \in Outcomes PROVE OpenStarts' = OpenStarts \ {d}
  <2>1. e.kind \notin Markers /\ e.kind # "STARTED"
    BY <1>17 DEF Outcomes, Markers
  <2>2. ASSUME NEW i, NEW n PROVE <<i, n>> \in OpenStarts' <=> <<i, n>> \in OpenStarts /\ <<i, n>> # d
    <3>1. CASE i = e.item
      BY <3>1, <1>3, <1>12, <1>15, <1>17, <2>1, OpenIs
    <3>2. CASE i # e.item
      BY <3>2, <1>12, <1>14, OpenIs
    <3>3. QED
      BY <3>1, <3>2
  <2>3. QED
    BY <1>13, <2>2, OpenIs
<1>18. ASSUME e.kind = "STARTED" PROVE OpenStarts' = OpenStarts \cup {d}
  <2>1. e.kind \notin Markers /\ StateOf(e.item).kind # "STARTED"
    BY <1>1, <1>18, AcceptMeans DEF Markers, Retries, StateOf
  <2>2. ASSUME NEW i, NEW n PROVE <<i, n>> \in OpenStarts' <=> <<i, n>> \in OpenStarts \/ <<i, n>> = d
    <3>1. CASE i = e.item
      BY <3>1, <1>1, <1>12, <1>15, <1>18, <2>1, OpenIs
    <3>2. CASE i # e.item
      BY <3>2, <1>12, <1>14, OpenIs
    <3>3. QED
      BY <3>1, <3>2
  <2>3. QED
    BY <1>13, <2>2, OpenIs
<1>19. ASSUME e.kind \notin Outcomes \cup {"STARTED"} PROVE OpenStarts' = OpenStarts
  <2>1. Known(e.item) /\ StateOf(e.item).kind = "STARTED" <=> StateOf(e.item)'.kind = "STARTED"
    <3>1. CASE e.kind \in Markers
      BY <1>16, <3>1
    <3>2. CASE e.kind \in {"DISCOVERED", "IMPORTED", "EXCLUDED", "EXHAUSTED"}
      <4>1. e.kind \notin Markers
        BY <3>2 DEF Markers
      <4>2. Known(e.item) => StateOf(e.item).kind # "STARTED"
        BY <1>1, <3>2, AcceptMeans DEF Known, StateOf, Retries
      <4>3. QED
        BY <1>15, <1>19, <4>1, <4>2
    <3>3. QED
      BY <1>1, <1>19, <3>1, <3>2 DEF Kinds, Markers, Retries, Terminal, Good, Outcomes
  <2>2. Known(e.item) /\ StateOf(e.item).kind = "STARTED" => StateOf(e.item)' = StateOf(e.item)
    <3>1. e.kind \notin Markers => StateOf(e.item)'.kind # "STARTED"
      BY <1>15, <1>19
    <3>2. QED
      BY <1>16, <2>1, <3>1
  <2>3. ASSUME NEW i, NEW n PROVE <<i, n>> \in OpenStarts' <=> <<i, n>> \in OpenStarts
    <3>1. CASE i = e.item
      BY <3>1, <1>12, <1>15, <2>1, <2>2, OpenIs
    <3>2. CASE i # e.item
      BY <3>2, <1>12, <1>14, OpenIs
    <3>3. QED
      BY <3>1, <3>2
  <2>4. QED
    BY <1>13, <2>3, OpenIs
<1>20. e.kind \in Charging /\ Marked(journal, e.item, e.attempt) => d \in Charged(journal)
  BY <1>4, ChargedIs DEF Charging
<1>21. QED
  BY <1>4, <1>9, <1>10, <1>11, <1>17, <1>18, <1>19, <1>20

-----------------------------------------------------------------------------
(* What an append does to the requests that were made. *)

\* The state of an item and its markers after an append.
LEMMA StateMoves ==
  ASSUME NEW e, Appends(e)
  PROVE  /\ e \in EntrySpace /\ e.item \in Work /\ e.kind \in Kinds
         /\ e.attempt \in 0..MaxAttempts /\ e.attempt \in Nat
         /\ Entries(journal') = Entries(journal) \cup {e}
         /\ \A i : Known(i)' <=> Known(i) \/ i = e.item
         /\ \A i : Known(i) /\ (i # e.item \/ e.kind \in Markers) => StateOf(i)' = StateOf(i)
         /\ e.kind \notin Markers => StateOf(e.item)' = e
         /\ \A i, n : Marked(journal', i, n) <=>
                Marked(journal, i, n) \/ (e.kind = "TRANSPORT" /\ i = e.item /\ n = e.attempt)
         /\ \A k : Has(journal', k) <=> Has(journal, k) \/ k = e.kind
         /\ e.kind = "DISCOVERED" <=> ~Known(e.item)
<1>1. /\ e \in EntrySpace /\ e.item \in Work /\ e.kind \in Kinds
      /\ e.attempt \in 0..MaxAttempts /\ e.attempt \in Nat
  BY BudgetAssumption DEF Appends, Fits, EntrySpace
<1>2. Extends(journal, journal', e)
  BY DEF Appends
<1>3. \A i, n : Marked(journal', i, n) <=>
          Marked(journal, i, n) \/ (e.kind = "TRANSPORT" /\ i = e.item /\ n = e.attempt)
  BY <1>2 DEF Extends, Marked, Of
<1>4. \A k : Has(journal', k) <=> Has(journal, k) \/ k = e.kind
  BY <1>2 DEF Extends, Has
<1>5. e.kind = "DISCOVERED" <=> ~Known(e.item)
  BY <1>1, AcceptMeans DEF Appends, Known
<1>6. QED
  BY <1>1, <1>2, <1>3, <1>4, <1>5 DEF Extends, Known, StateOf

\* A request stays covered: the start of an unmarked one is closed only by an
\* entry that covers it, or by a failed admission that made no request.
LEMMA CoverKeeps ==
  ASSUME NEW e, Appends(e), NEW r, Covered(r),
         e.kind \in {"TRANSPORT", "INTERRUPTED"} /\ r.item = e.item /\ r.attempt = e.attempt =>
             e.floor >= r.at + Interval,
         e.kind = "ADMISSION" => ~(r.item = e.item /\ r.attempt = e.attempt)
  PROVE  Covered(r)'
<1>1. /\ Entries(journal') = Entries(journal) \cup {e} /\ e.kind \in Kinds
      /\ \A i : Known(i) => Known(i)'
      /\ \A i : Known(i) /\ (i # e.item \/ e.kind \in Markers) => StateOf(i)' = StateOf(i)
      /\ \A i, n : Marked(journal', i, n) <=>
             Marked(journal, i, n) \/ (e.kind = "TRANSPORT" /\ i = e.item /\ n = e.attempt)
  BY StateMoves
<1>2. CASE \E x \in Entries(journal) : Covers(x, r)
  BY <1>1, <1>2 DEF Covered, Covers
<1>3. CASE /\ Known(r.item) /\ StateOf(r.item).kind = "STARTED" /\ StateOf(r.item).attempt = r.attempt
           /\ ~Marked(journal, r.item, r.attempt)
  <2>1. CASE r.item # e.item
    BY <1>1, <1>3, <2>1 DEF Covered
  <2>2. CASE r.item = e.item /\ e.kind \in {"PROFILE", "ELAPSED"}
    BY <1>1, <1>3, <2>2 DEF Covered, Markers
  <2>3. CASE r.item = e.item /\ e.kind \in {"TRANSPORT", "INTERRUPTED"}
    <3>1. e.attempt = r.attempt
      BY <1>1, <1>3, <2>3, AcceptMeans DEF Appends, Outcomes, Closes, StateOf
    <3>2. Covers(e, r)
      BY <2>3, <3>1 DEF Covers
    <3>3. QED
      BY <1>1, <3>2 DEF Covered, Covers
  <2>4. CASE r.item = e.item /\ e.kind \in Outcomes \ {"INTERRUPTED"}
    <3>1. Closes(journal, e)
      BY <1>1, <2>4, AcceptMeans DEF Appends
    <3>2. e.attempt = r.attempt
      BY <1>3, <2>4, <3>1 DEF Closes, StateOf
    <3>3. Marked(journal, r.item, r.attempt)
      BY <2>4, <3>1, <3>2, OutcomeMarked
    <3>4. QED
      BY <1>3, <3>3
  <2>5. CASE r.item = e.item /\ e.kind \in {"DISCOVERED", "IMPORTED", "EXCLUDED", "STARTED", "EXHAUSTED"}
    <3>1. Known(e.item) => StateOf(e.item).kind # "STARTED"
      BY <1>1, <2>5, AcceptMeans DEF Appends, StateOf, Known, Retries
    <3>2. QED
      BY <1>3, <2>5, <3>1
  <2>6. QED
    BY <1>1, <2>1, <2>2, <2>3, <2>4, <2>5 DEF Kinds, Markers, Retries, Terminal, Good, Outcomes
<1>4. QED
  BY <1>2, <1>3 DEF Covered

\* The requests stay debited and covered.
LEMMA HistoryKeeps ==
  ASSUME NEW e, Appends(e), e.kind # "STARTED", DebitsHold, RequestsPaced,
         UNCHANGED requests, now' \in Nat, now \in Nat, now <= now',
         e.kind = "ADMISSION" => RequestsOf(e.item, e.attempt) = {},
         e.kind \in {"TRANSPORT", "INTERRUPTED"} =>
             \A r \in RequestsOf(e.item, e.attempt) : e.floor >= r.at + Interval
  PROVE  DebitsHold' /\ RequestsPaced'
<1> DEFINE d == <<e.item, e.attempt>>
<1>1. e.kind \in Kinds
  BY StateMoves
<1>2. Debits' \subseteq Debits /\ \A x \in Debits \ Debits' : x = d /\ e.kind = "ADMISSION"
  <2>1. CASE e.kind \in Outcomes
    BY <2>1, DebitsMove DEF Debits, Charging, Outcomes
  <2>2. CASE e.kind \notin Outcomes
    <3>1. e.kind \notin Charging
      BY <2>2 DEF Charging
    <3>2. OpenStarts' = OpenStarts
      BY <2>2, DebitsMove
    <3>3. CASE e.kind = "TRANSPORT"
      BY <3>2, <3>3, DebitsMove DEF Debits
    <3>4. CASE e.kind # "TRANSPORT"
      BY <3>1, <3>2, <3>4, DebitsMove DEF Debits
    <3>5. QED
      BY <3>3, <3>4
  <2>3. QED
    BY <2>1, <2>2
<1>3. IsFiniteSet(Debits') /\ Cardinality(Debits') <= MaxStarts
  <2>1. IsFiniteSet(Debits) /\ Cardinality(Debits) <= MaxStarts /\ Cardinality(Debits) \in Nat
    BY FS_CardinalityType DEF DebitsHold
  <2>2. IsFiniteSet(Debits') /\ Cardinality(Debits') <= Cardinality(Debits) /\ Cardinality(Debits') \in Nat
    BY <1>2, <2>1, FS_Subset, FS_CardinalityType
  <2>3. QED
    BY <2>1, <2>2, BudgetAssumption
<1>4. \A r \in requests : <<r.item, r.attempt>> \in Debits'
  <2> SUFFICES ASSUME NEW r \in requests, <<r.item, r.attempt>> \notin Debits' PROVE FALSE
    OBVIOUS
  <2>1. <<r.item, r.attempt>> = d /\ e.kind = "ADMISSION"
    BY <1>2 DEF DebitsHold
  <2>2. r \in RequestsOf(e.item, e.attempt)
    BY <2>1 DEF RequestsOf
  <2>3. QED
    BY <2>1, <2>2
<1>5. DebitsHold'
  BY <1>3, <1>4 DEF DebitsHold
<1>6. ASSUME NEW r \in requests PROVE r.at <= now' /\ Covered(r)'
  <2>1. r.at \in Nat /\ r.at <= now /\ Covered(r)
    BY TimeAssumption DEF RequestsPaced, RequestSpace
  <2>2. Covered(r)'
    BY <2>1, CoverKeeps DEF RequestsOf
  <2>3. QED
    BY <2>1, <2>2
<1>7. RequestsPaced'
  BY <1>6 DEF RequestsPaced, HostsArePaced
<1>8. QED
  BY <1>5, <1>7

\* Without an append they stay so too.
LEMMA HistoryStays ==
  ASSUME DebitsHold, RequestsPaced, UNCHANGED <<journal, requests>>,
         now' \in Nat, now \in Nat, now <= now'
  PROVE  DebitsHold' /\ RequestsPaced'
<1>1. DebitsHold'
  BY DEF DebitsHold, Debits, OpenStarts, Known, StateOf
<1>2. \A r \in requests : r.at \in Nat /\ r.at <= now /\ Covered(r)
  BY TimeAssumption DEF RequestsPaced, RequestSpace
<1>3. \A r : Covered(r)' <=> Covered(r)
  BY DEF Covered, Covers, Known, StateOf
<1>4. \A r \in requests : r.at <= now'
  BY <1>2
<1>5. RequestsPaced'
  BY <1>2, <1>3, <1>4 DEF RequestsPaced, HostsArePaced
<1>6. QED
  BY <1>1, <1>5

-----------------------------------------------------------------------------
(* What an append does to the scope and the phases. *)

\* Retained evidence stays retained.
LEMMA GoodStays ==
  ASSUME NEW e, Appends(e), NEW i, Known(i), StateOf(i).kind \in Good
  PROVE  Known(i)' /\ StateOf(i)' = StateOf(i)
<1>1. CASE i # e.item \/ e.kind \in Markers
  BY <1>1, StateMoves
<1>2. CASE i = e.item /\ e.kind \notin Markers
  <2>1. Known(e.item) /\ StateOf(e.item).kind \notin Retries \cup {"DISCOVERED", "STARTED"}
    BY <1>2 DEF Good, Retries
  <2>2. e.kind \in Kinds /\ e.kind # "DISCOVERED"
    BY <2>1, StateMoves
  <2>3. e.kind \in Outcomes => StateOf(e.item).kind = "STARTED"
    BY <2>2, AcceptMeans DEF Appends, Closes, StateOf
  <2>4. e.kind \in {"IMPORTED", "EXCLUDED", "STARTED", "EXHAUSTED"} =>
            StateOf(e.item).kind \in Retries \cup {"DISCOVERED"}
    BY <2>2, AcceptMeans DEF Appends, StateOf
  <2>5. QED
    BY <1>2, <2>1, <2>2, <2>3, <2>4 DEF Kinds, Markers, Retries, Terminal, Good, Outcomes
<1>3. QED
  BY <1>1, <1>2

LEMMA CapturedStays ==
  ASSUME NEW e, Appends(e)
  PROVE  Captured(journal) \subseteq Captured(journal')
  BY GoodStays DEF Captured, Known, StateOf

\* What is appended is in the graph of the invocation.
LEMMA ScopeKeeps ==
  ASSUME NEW e, Appends(e), ScopeInv, e.item \in scope, UNCHANGED scope,
         phase' = phase \/ (phase = "loop" /\ phase' = "report")
  PROVE  ScopeInv'
<1>1. \A i : Known(i)' <=> Known(i) \/ i = e.item
  BY StateMoves
<1>2. Captured(journal) \subseteq Captured(journal')
  BY CapturedStays
<1>3. e.item \in Relations => scope # Items
  BY ItemsAssumption
<1>4. (scope # Items \/ \E i \in Relations : Known(i)') => Items \subseteq Captured(journal')
  BY <1>1, <1>2, <1>3 DEF ScopeInv
<1>5. phase' \notin {"down", "done"} => \A i \in Work : Known(i)' => i \in scope
  BY <1>1 DEF ScopeInv
<1>6. phase' \notin {"down", "done", "account", "discover"} => \A i \in scope : Known(i)'
  BY <1>1 DEF ScopeInv
<1>7. QED
  BY <1>4, <1>5, <1>6 DEF ScopeInv

\* The phases in which every import is in place.
InPlace == {"judge", "orphans", "exhausted", "enter", "loop"}

\* An append keeps what the earlier steps have made sure of.
LEMMA PhaseKeeps ==
  ASSUME NEW e, Appends(e), ScopeInv, PhaseInv,
         phase' = phase \/ (phase = "loop" /\ phase' = "report"), UNCHANGED scope,
         phase # "enter",
         e.kind = "ELAPSED" => phase' = "report",
         e.kind = "STARTED" => phase = "loop",
         e.kind \in Markers \cup {"DISCOVERED", "IMPORTED"} \/ e.item \notin Imports \/ phase \in InPlace
  PROVE  PhaseInv'
<1>1. /\ \A i : Known(i)' <=> Known(i) \/ i = e.item
      /\ \A i : Known(i) /\ (i # e.item \/ e.kind \in Markers) => StateOf(i)' = StateOf(i)
      /\ e.kind \notin Markers => StateOf(e.item)' = e
      /\ \A k : Has(journal', k) <=> Has(journal, k) \/ k = e.kind
      /\ e.kind = "DISCOVERED" <=> ~Known(e.item)
  BY StateMoves
<1>2. phase' \in {"import", "judge", "orphans", "exhausted", "enter", "loop"} => Has(journal', "PROFILE")
  BY <1>1 DEF PhaseInv
<1>3. phase' \in {"orphans", "exhausted", "enter", "loop"} => ~Has(journal', "ELAPSED")
  BY <1>1 DEF PhaseInv
<1>4. phase \in InPlace => \A i \in Imports : Known(i) /\ StateOf(i).kind = "IMPORTED"
  BY ItemsAssumption DEF PhaseInv, ScopeInv, InPlace
<1>5. phase \in InPlace => \A i \in Imports : Known(i)' /\ StateOf(i)'.kind = "IMPORTED"
  BY <1>4, GoodStays DEF Good
<1>6. \A i \in Imports : Known(i)' => StateOf(i)'.kind \in {"DISCOVERED", "IMPORTED"}
  <2> SUFFICES ASSUME NEW i \in Imports, Known(i)', phase \notin InPlace
               PROVE  StateOf(i)'.kind \in {"DISCOVERED", "IMPORTED"}
    BY <1>5
  <2>1. CASE i = e.item /\ e.kind \notin Markers
    BY <1>1, <2>1
  <2>2. CASE i # e.item \/ e.kind \in Markers
    <3>1. Known(i)
      BY <1>1, <2>2 DEF Markers
    <3>2. QED
      BY <1>1, <2>2, <3>1 DEF PhaseInv
  <2>3. QED
    BY <2>1, <2>2
<1>7. phase' \in {"exhausted", "enter"} => \A i \in scope : StateOf(i)'.kind # "STARTED"
  <2> SUFFICES ASSUME NEW i \in scope, phase = "exhausted" PROVE StateOf(i)'.kind # "STARTED"
    OBVIOUS
  <2>1. Known(i) /\ StateOf(i).kind # "STARTED"
    BY DEF PhaseInv, ScopeInv
  <2>2. QED
    BY <1>1, <2>1
<1>8. phase' # "enter"
  OBVIOUS
<1>9. QED
  BY <1>2, <1>3, <1>5, <1>6, <1>7, <1>8 DEF PhaseInv, InPlace

-----------------------------------------------------------------------------
(* The opening. *)

\* One entry of the opening.
LEMMA OpeningKeeps ==
  ASSUME CycleInv, NEW e, Fits(e), Accepts(journal, e), Record(e), e.item \in scope,
         phase \in {"account", "discover", "profile", "import", "orphans", "exhausted"}, UNCHANGED phase,
         UNCHANGED <<torn, scope, pending, flights, starts, stop, pass, nextStart, gate, now, requests>>,
         e.kind \notin {"STARTED", "ELAPSED", "TRANSPORT", "CAPTURED", "ADMISSION"},
         e.kind \in {"DISCOVERED", "PROFILE", "IMPORTED"} \/ e.item \notin Imports \/ phase \in InPlace,
         e.kind = "INTERRUPTED" => e.floor >= now + Interval,
         BatchInv'
  PROVE  CycleInv'
<1>1. Appends(e) /\ ~refused'
  BY Recorded DEF CycleInv, StatusInv
<1>2. ScopeInv'
  BY <1>1, ScopeKeeps DEF CycleInv
<1>3. PhaseInv'
  BY <1>1, PhaseKeeps DEF CycleInv, Markers
<1>4. pending = {} /\ flights = {} /\ now \in Nat
  BY TimeAssumption DEF CycleInv, PendingInv, FlightsInv, StatusInv
<1>5. PendingInv' /\ FlightsInv'
  BY <1>4, FS_EmptySet DEF PendingInv, FlightsInv
<1>6. e.kind = "INTERRUPTED" => \A r \in RequestsOf(e.item, e.attempt) : e.floor >= r.at + Interval
  <2>1. \A r \in requests : r.at \in Nat /\ r.at <= now
    BY TimeAssumption DEF CycleInv, RequestsPaced, RequestSpace
  <2>2. e.floor \in Nat
    BY TimeAssumption DEF Fits, EntrySpace, Horizon
  <2>3. QED
    BY <1>4, <2>1, <2>2, TimeAssumption DEF RequestsOf
<1>7. DebitsHold' /\ RequestsPaced'
  BY <1>1, <1>4, <1>6, HistoryKeeps DEF CycleInv
<1>8. BodiesHold'
  <2>1. Bodies' = Bodies
    BY <1>1, StateMoves DEF Bodies
  <2>2. QED
    BY <2>1 DEF CycleInv, BodiesHold
<1>9. StartsHold' /\ GateInv' /\ StatusInv' /\ JournalOK(journal')
  BY <1>1 DEF CycleInv, StartsHold, GateInv, StatusInv, Appends
<1>10. QED
  BY <1>2, <1>3, <1>5, <1>7, <1>8, <1>9 DEF CycleInv

\* A step of the opening that is over.
LEMMA OpeningMoves ==
  ASSUME CycleInv, phase \notin {"loop", "report"}, phase' \notin {"down", "done", "account", "loop"},
         UNCHANGED <<journal, torn, scope, batch, pending, flights, starts, pass, nextStart, gate, now,
                     requests, refused>>,
         batch = <<>>, stop' \subseteq Stops, ScopeInv', PhaseInv'
  PROVE  CycleInv'
<1>1. pending = {} /\ flights = {} /\ now \in Nat
  BY TimeAssumption DEF CycleInv, PendingInv, FlightsInv, StatusInv
<1>2. PendingInv' /\ FlightsInv'
  BY <1>1, FS_EmptySet DEF PendingInv, FlightsInv
<1>3. DebitsHold' /\ RequestsPaced'
  BY <1>1, HistoryStays DEF CycleInv
<1>4. BodiesHold' /\ StartsHold' /\ GateInv' /\ StatusInv' /\ JournalOK(journal')
  BY DEF CycleInv, BodiesHold, Bodies, StartsHold, GateInv, StatusInv
<1>5. BatchInv'
  BY DEF CycleInv, BatchInv
<1>6. QED
  BY <1>2, <1>3, <1>4, <1>5 DEF CycleInv

\* The entries the runner makes.
LEMMA EntryIs ==
  ASSUME NEW i \in Work, NEW kind \in Kinds, NEW n \in 0..MaxAttempts, NEW floor \in 0..Horizon
  PROVE  /\ Entry(i, kind, n, floor) \in EntrySpace
         /\ Entry(i, kind, n, floor).item = i /\ Entry(i, kind, n, floor).kind = kind
         /\ Entry(i, kind, n, floor).attempt = n /\ Entry(i, kind, n, floor).floor = floor
  BY DEF Entry, EntrySpace

LEMMA Zero == 0 \in 0..MaxAttempts /\ 0 \in 0..Horizon /\ Horizon \in Nat /\ MaxAttempts \in Nat
  BY BudgetAssumption, TimeAssumption DEF Horizon

\* A known item's state has its type.
LEMMA LastType ==
  ASSUME JournalOK(journal), NEW i, Known(i)
  PROVE  /\ StateOf(i) \in EntrySpace /\ StateOf(i) \in Entries(journal) /\ StateOf(i).item = i
         /\ StateOf(i).attempt \in 0..MaxAttempts /\ StateOf(i).attempt \in Nat
         /\ StateOf(i).floor \in 0..Horizon /\ StateOf(i).floor \in Nat
         /\ StateOf(i).kind \in Kinds \ Markers /\ i \in Work
<1>1. StateOf(i) \in EntrySpace /\ StateOf(i) \in Entries(journal) /\ StateOf(i).item = i /\ StateOf(i).kind \notin Markers
  BY LatestType DEF Known, StateOf
<1>2. QED
  BY <1>1, BudgetAssumption, TimeAssumption DEF EntrySpace, Horizon

\* The first entry is about a known item.
LEMMA FirstKnown ==
  ASSUME JournalOK(journal), NEW i, Known(i)
  PROVE  Known(journal[1].item) /\ journal[1].item \in Work
<1>1. journal \in Seq(EntrySpace)
  BY DEF JournalOK
<1>2. PICK x : x \in Entries(journal)
  BY DEF Known, Discovered, Of
<1>3. PICK k \in DOMAIN journal : x = journal[k]
  BY <1>2 DEF Entries
<1>4. 1 \in DOMAIN journal
  BY <1>1, <1>3
<1>5. journal[1] \in Entries(journal)
  BY <1>4 DEF Entries
<1>6. QED
  BY <1>5, EntryType DEF Known, EntrySpace

\* The items are known once they are discovered.
LEMMA ScopeKnown ==
  ASSUME CycleInv, phase \notin {"down", "done", "account", "discover"}
  PROVE  /\ \A i \in scope : Known(i) /\ i \in Work
         /\ \A i \in Imports : Known(i) /\ i \in Work
         /\ Known(journal[1].item) /\ journal[1].item \in scope
<1>1. \A i \in scope : Known(i) /\ i \in Work
  BY DEF CycleInv, ScopeInv
<1>2. PICK i \in Items : i \in scope
  BY ItemsAssumption DEF CycleInv, ScopeInv
<1>3. Known(journal[1].item) /\ journal[1].item \in Work
  BY <1>1, <1>2, FirstKnown DEF CycleInv
<1>4. QED
  BY <1>1, <1>3, ItemsAssumption DEF CycleInv, ScopeInv

\* The entries of a step of the opening leave the batch empty.
LEMMA NoBatch ==
  ASSUME CycleInv, phase # "account", UNCHANGED <<phase, batch>>
  PROVE  batch = <<>> /\ BatchInv'
  BY DEF CycleInv, BatchInv

LEMMA DiscoverStep ==
  ASSUME CycleInv, Discover
  PROVE  CycleInv'
<1> DEFINE S == {Entry(i, "DISCOVERED", 0, 0) : i \in {j \in scope : ~Discovered(journal, j)}}
<1>1. /\ phase = "discover"
      /\ UNCHANGED <<torn, scope, batch, pending, flights, starts, stop, pass, nextStart, gate, now, requests>>
  BY DEF Discover, ForEach, memory
<1>2. CASE S = {} /\ phase' = "profile" /\ UNCHANGED <<journal, refused>>
  <2>1. \A i \in scope : Known(i)
    BY <1>2 DEF Known
  <2>2. ScopeInv'
    BY <1>1, <1>2, <2>1 DEF CycleInv, ScopeInv, Known
  <2>3. PhaseInv'
    BY <1>1, <1>2 DEF CycleInv, PhaseInv, Known, StateOf
  <2>4. batch = <<>> /\ stop \subseteq Stops
    BY <1>1 DEF CycleInv, BatchInv, StatusInv
  <2>5. QED
    BY <1>1, <1>2, <2>2, <2>3, <2>4, OpeningMoves
<1>3. CASE \E e \in S : Record(e) /\ UNCHANGED phase
  <2>1. PICK i \in scope : ~Discovered(journal, i) /\ Record(Entry(i, "DISCOVERED", 0, 0)) /\ UNCHANGED phase
    BY <1>3
  <2> DEFINE e == Entry(i, "DISCOVERED", 0, 0)
  <2>2. i \in Work /\ "DISCOVERED" \in Kinds
    BY DEF CycleInv, ScopeInv, Kinds
  <2>3. e \in EntrySpace /\ e.item = i /\ e.kind = "DISCOVERED" /\ e.attempt = 0
    BY <2>2, EntryIs, Zero
  <2> HIDE DEF e
  <2>4. Fits(e) /\ Accepts(journal, e)
    BY <2>1, <2>3 DEF Fits, Accepts
  <2>5. BatchInv'
    BY <1>1, <2>1, NoBatch
  <2>6. QED
    BY <1>1, <2>1, <2>3, <2>4, <2>5, OpeningKeeps DEF e
<1>4. QED
  BY <1>2, <1>3 DEF Discover, ForEach

LEMMA BindStep ==
  ASSUME CycleInv, Bind
  PROVE  CycleInv'
<1>1. /\ phase = "profile"
      /\ UNCHANGED <<torn, scope, batch, pending, flights, starts, stop, pass, nextStart, gate, now, requests>>
  BY DEF Bind, ForEach, memory
<1>2. CASE Has(journal, "PROFILE") /\ phase' = "import" /\ UNCHANGED <<journal, refused>>
  <2>1. ScopeInv'
    BY <1>1, <1>2 DEF CycleInv, ScopeInv, Known
  <2>2. PhaseInv'
    BY <1>1, <1>2 DEF CycleInv, PhaseInv, Known, StateOf
  <2>3. batch = <<>> /\ stop \subseteq Stops
    BY <1>1 DEF CycleInv, BatchInv, StatusInv
  <2>4. QED
    BY <1>1, <1>2, <2>1, <2>2, <2>3, OpeningMoves
<1>3. CASE ~Has(journal, "PROFILE") /\ Record(Entry(journal[1].item, "PROFILE", 0, 0)) /\ UNCHANGED phase
  <2> DEFINE e == Entry(journal[1].item, "PROFILE", 0, 0)
  <2>1. Known(journal[1].item) /\ journal[1].item \in scope /\ journal[1].item \in Work
    BY <1>1, ScopeKnown
  <2>2. e \in EntrySpace /\ e.item = journal[1].item /\ e.kind = "PROFILE" /\ e.attempt = 0
    BY <2>1, EntryIs, Zero DEF Kinds, Markers
  <2> HIDE DEF e
  <2>3. ~Has(journal, "STARTED")
    BY <1>3 DEF CycleInv, JournalOK
  <2>4. Fits(e) /\ Accepts(journal, e)
    BY <1>3, <2>1, <2>2, <2>3 DEF Fits, Accepts, Known
  <2>5. BatchInv'
    BY <1>1, <1>3, NoBatch
  <2>6. QED
    BY <1>1, <1>3, <2>1, <2>2, <2>4, <2>5, OpeningKeeps DEF e
<1>4. QED
  BY <1>2, <1>3 DEF Bind, ForEach

LEMMA ImportStep ==
  ASSUME CycleInv, Import
  PROVE  CycleInv'
<1> DEFINE S == {Entry(i, "IMPORTED", 0, 0) : i \in {j \in Imports : Latest(journal, j).kind # "IMPORTED"}}
<1>1. /\ phase = "import"
      /\ UNCHANGED <<torn, scope, batch, pending, flights, starts, stop, pass, nextStart, gate, now, requests>>
  BY DEF Import, ForEach, memory
<1>2. CASE S = {} /\ phase' = "judge" /\ UNCHANGED <<journal, refused>>
  <2>1. \A i \in Imports : StateOf(i).kind = "IMPORTED"
    BY <1>2 DEF StateOf
  <2>2. ScopeInv'
    BY <1>1, <1>2 DEF CycleInv, ScopeInv, Known
  <2>3. PhaseInv'
    BY <1>1, <1>2, <2>1 DEF CycleInv, PhaseInv, Known, StateOf
  <2>4. batch = <<>> /\ stop \subseteq Stops
    BY <1>1 DEF CycleInv, BatchInv, StatusInv
  <2>5. QED
    BY <1>1, <1>2, <2>2, <2>3, <2>4, OpeningMoves
<1>3. CASE \E e \in S : Record(e) /\ UNCHANGED phase
  <2>1. PICK i \in Imports : Latest(journal, i).kind # "IMPORTED" /\ Record(Entry(i, "IMPORTED", 0, 0)) /\ UNCHANGED phase
    BY <1>3
  <2> DEFINE e == Entry(i, "IMPORTED", 0, 0)
  <2>2. Known(i) /\ i \in Work /\ i \in scope
    BY <1>1, ScopeKnown, ItemsAssumption DEF CycleInv, ScopeInv
  <2>3. e \in EntrySpace /\ e.item = i /\ e.kind = "IMPORTED" /\ e.attempt = 0
    BY <2>2, EntryIs, Zero DEF Kinds, Terminal, Good
  <2>4. StateOf(i).kind = "DISCOVERED" /\ Has(journal, "PROFILE")
    BY <1>1, <2>1, <2>2 DEF CycleInv, PhaseInv, StateOf
  <2> HIDE DEF e
  <2>5. Fits(e) /\ Accepts(journal, e)
    BY <2>2, <2>3, <2>4 DEF Fits, Accepts, Known, StateOf
  <2>6. BatchInv'
    BY <1>1, <2>1, NoBatch
  <2>7. QED
    BY <1>1, <2>1, <2>2, <2>3, <2>5, <2>6, OpeningKeeps DEF e
<1>4. QED
  BY <1>2, <1>3 DEF Import, ForEach

LEMMA JudgeStep ==
  ASSUME CycleInv, Judge
  PROVE  CycleInv'
<1>1. /\ phase = "judge" /\ phase' = IF stop' = {} THEN "orphans" ELSE "report"
      /\ UNCHANGED <<journal, torn, scope, batch, pending, flights, starts, pass, nextStart, gate, now,
                     requests, refused>>
  BY DEF Judge
<1>2. stop' \subseteq Stops
  BY DEF Judge, StopsOf, Stops
<1>3. stop' = {} => ~Has(journal, "ELAPSED")
  BY DEF Judge, StopsOf
<1>4. ScopeInv'
  BY <1>1 DEF CycleInv, ScopeInv, Known
<1>5. PhaseInv'
  BY <1>1, <1>3 DEF CycleInv, PhaseInv, Known, StateOf
<1>6. batch = <<>>
  BY <1>1 DEF CycleInv, BatchInv
<1>7. QED
  BY <1>1, <1>2, <1>4, <1>5, <1>6, OpeningMoves

LEMMA OrphansStep ==
  ASSUME CycleInv, Orphans
  PROVE  CycleInv'
<1> DEFINE E(i) == Entry(i, "INTERRUPTED", Latest(journal, i).attempt,
                         Larger(now + Interval, Latest(journal, i).floor))
           S == {E(i) : i \in Started}
<1>1. /\ phase = "orphans"
      /\ UNCHANGED <<torn, scope, batch, pending, flights, starts, stop, pass, nextStart, gate, now, requests>>
  BY DEF Orphans, ForEach, memory
<1>2. CASE S = {} /\ phase' = "exhausted" /\ UNCHANGED <<journal, refused>>
  <2>1. \A i \in scope : StateOf(i).kind # "STARTED"
    BY <1>2 DEF StateOf, Started
  <2>2. ScopeInv'
    BY <1>1, <1>2 DEF CycleInv, ScopeInv, Known
  <2>3. PhaseInv'
    BY <1>1, <1>2, <2>1 DEF CycleInv, PhaseInv, Known, StateOf
  <2>4. batch = <<>> /\ stop \subseteq Stops
    BY <1>1 DEF CycleInv, BatchInv, StatusInv
  <2>5. QED
    BY <1>1, <1>2, <2>2, <2>3, <2>4, OpeningMoves
<1>3. CASE \E e \in S : Record(e) /\ UNCHANGED phase
  <2>1. PICK i \in Started : Record(E(i)) /\ UNCHANGED phase
    BY <1>3
  <2> DEFINE e == E(i)
  <2>2. Known(i) /\ i \in Work /\ i \in scope /\ StateOf(i).kind = "STARTED"
    BY <1>1, <2>1, ScopeKnown DEF Started, StateOf
  <2>3. StateOf(i).attempt \in 0..MaxAttempts /\ StateOf(i).floor \in 0..Horizon /\ now \in 0..MaxTime
    BY <2>2, LastType DEF CycleInv, StatusInv
  <2>4. /\ Larger(now + Interval, StateOf(i).floor) \in 0..Horizon
        /\ Larger(now + Interval, StateOf(i).floor) >= now + Interval
        /\ Larger(now + Interval, StateOf(i).floor) >= StateOf(i).floor
    BY <2>3, TimeAssumption DEF Larger, Horizon
  <2>5. /\ e \in EntrySpace /\ e.item = i /\ e.kind = "INTERRUPTED" /\ e.attempt = StateOf(i).attempt
        /\ e.floor >= now + Interval /\ e.floor >= StateOf(i).floor
    BY <2>2, <2>3, <2>4, EntryIs DEF Kinds, Retries, StateOf
  <2> HIDE DEF e
  <2>6. Closes(journal, e)
    BY <2>2, <2>5 DEF Closes, StateOf
  <2>7. Fits(e) /\ Accepts(journal, e)
    BY <2>2, <2>5, <2>6 DEF Fits, Accepts, Known
  <2>8. BatchInv'
    BY <1>1, <2>1, NoBatch
  <2>9. QED
    BY <1>1, <2>1, <2>2, <2>5, <2>7, <2>8, OpeningKeeps DEF e, InPlace
<1>4. QED
  BY <1>2, <1>3 DEF Orphans, ForEach

LEMMA ExhaustedStep ==
  ASSUME CycleInv, Exhausted
  PROVE  CycleInv'
<1> DEFINE E(i) == Entry(i, "EXHAUSTED", Latest(journal, i).attempt, 0)
           S == {E(i) : i \in Spent(MaxAttempts)}
<1>1. /\ phase = "exhausted"
      /\ UNCHANGED <<torn, scope, batch, pending, flights, starts, stop, pass, nextStart, gate, now, requests>>
  BY DEF Exhausted, ForEach, memory
<1>2. CASE S = {} /\ phase' = "enter" /\ UNCHANGED <<journal, refused>>
  <2>1. \A i \in scope : StateOf(i).kind \in Retries => ~(StateOf(i).attempt >= MaxAttempts)
    BY <1>2 DEF StateOf, Spent
  <2>2. \A i \in scope : StateOf(i).kind \in Retries => StateOf(i).attempt < MaxAttempts
    BY <1>1, <2>1, ScopeKnown, LastType, Zero DEF CycleInv
  <2>3. ScopeInv'
    BY <1>1, <1>2 DEF CycleInv, ScopeInv, Known
  <2>4. PhaseInv'
    BY <1>1, <1>2, <2>2 DEF CycleInv, PhaseInv, Known, StateOf
  <2>5. batch = <<>> /\ stop \subseteq Stops
    BY <1>1 DEF CycleInv, BatchInv, StatusInv
  <2>6. QED
    BY <1>1, <1>2, <2>3, <2>4, <2>5, OpeningMoves
<1>3. CASE \E e \in S : Record(e) /\ UNCHANGED phase
  <2>1. PICK i \in Spent(MaxAttempts) : Record(E(i)) /\ UNCHANGED phase
    BY <1>3
  <2> DEFINE e == E(i)
  <2>2. Known(i) /\ i \in Work /\ i \in scope /\ StateOf(i).kind \in Retries
    BY <1>1, <2>1, ScopeKnown DEF Spent, StateOf
  <2>3. StateOf(i).attempt \in 0..MaxAttempts
    BY <2>2, LastType DEF CycleInv
  <2>4. e \in EntrySpace /\ e.item = i /\ e.kind = "EXHAUSTED" /\ e.attempt = StateOf(i).attempt
    <3>1. "EXHAUSTED" \in Kinds
      BY DEF Kinds, Terminal
    <3>2. QED
      BY <2>2, <2>3, <3>1, EntryIs, Zero DEF StateOf
  <2>5. Marked(journal, i, StateOf(i).attempt) \/ StateOf(i).kind \in {"INTERRUPTED", "ADMISSION"}
    BY <2>2 DEF CycleInv, JournalOK, Known, StateOf, Retries
  <2> HIDE DEF e
  <2>6. Fits(e) /\ Accepts(journal, e)
    BY <2>2, <2>4, <2>5 DEF Fits, Accepts, Known, StateOf
  <2>7. BatchInv'
    BY <1>1, <2>1, NoBatch
  <2>8. QED
    BY <1>1, <2>1, <2>2, <2>4, <2>6, <2>7, OpeningKeeps DEF e, InPlace
<1>4. QED
  BY <1>2, <1>3 DEF Exhausted, ForEach

\* A finite set in some order.
LEMMA InOrder ==
  ASSUME NEW S, IsFiniteSet(S)
  PROVE  /\ SetToSeq(S) \in Seq(S)
         /\ \A j, k \in 1..Len(SetToSeq(S)) : SetToSeq(S)[j] = SetToSeq(S)[k] => j = k
<1>1. PICK f : f \in Bijection(1..Cardinality(S), S)
  <2>1. ExistsBijection(1..Cardinality(S), S)
    BY FS_CardinalityType
  <2>2. QED
    BY <2>1 DEF ExistsBijection
<1>2. f \in [1..Cardinality(S) -> S] /\ IsInjective(f)
  BY <1>1 DEF Bijection, Injection
<1>3. SetToSeq(S) \in [1..Cardinality(S) -> S] /\ IsInjective(SetToSeq(S))
  <2>1. \E g \in [1..Cardinality(S) -> S] : IsInjective(g)
    BY <1>2
  <2>2. QED
    BY <2>1 DEF SetToSeq
<1>4. Cardinality(S) \in Nat
  BY FS_CardinalityType
<1>5. SetToSeq(S) \in Seq(S) /\ Len(SetToSeq(S)) = Cardinality(S)
  BY <1>3, <1>4
<1>6. QED
  BY <1>3, <1>5 DEF IsInjective

\* The batch of an invocation discovers and excludes the relationships that are
\* not known.
LEMMA BatchIs ==
  ASSUME NEW k \in DOMAIN Relationships
  PROVE  /\ Relationships \in Seq(EntrySpace)
         /\ Relationships[k].item \in Relations /\ ~Known(Relationships[k].item)
         /\ Relationships[k].attempt = 0
         /\ \/ /\ Relationships[k].kind = "DISCOVERED"
               /\ \A j \in 1..(k - 1) : Relationships[j].item # Relationships[k].item
            \/ /\ Relationships[k].kind = "EXCLUDED" /\ k # 1
               /\ Relationships[k - 1].kind = "DISCOVERED"
               /\ Relationships[k - 1].item = Relationships[k].item
<1> DEFINE S == {i \in Relations : ~Discovered(journal, i)}
           s == SetToSeq(S)
           n == 2 * Len(s)
           item(x) == s[(x + 1) \div 2]
           kind(x) == IF x % 2 = 1 THEN "DISCOVERED" ELSE "EXCLUDED"
<1>1. IsFiniteSet(S)
  BY RelationsAssumption, FS_Subset
<1>2. s \in Seq(S) /\ \A x, y \in 1..Len(s) : s[x] = s[y] => x = y
  BY <1>1, InOrder
<1>3. Relationships = [x \in 1..n |-> Entry(item(x), kind(x), 0, 0)]
  BY DEF Relationships
<1> HIDE DEF s
<1>4. Len(s) \in Nat /\ n \in Nat
  BY <1>2
<1>5. \A x \in 1..n : (x + 1) \div 2 \in 1..Len(s)
  BY <1>4
<1>6. \A x \in 1..n : item(x) \in S
  BY <1>2, <1>5
<1> HIDE DEF n
<1>7. \A x \in 1..n : /\ Relationships[x] \in EntrySpace /\ Relationships[x].item = item(x)
                      /\ Relationships[x].kind = kind(x) /\ Relationships[x].attempt = 0
  <2> SUFFICES ASSUME NEW x \in 1..n
               PROVE  /\ Relationships[x] \in EntrySpace /\ Relationships[x].item = item(x)
                      /\ Relationships[x].kind = kind(x) /\ Relationships[x].attempt = 0
    OBVIOUS
  <2>1. item(x) \in Work
    BY <1>6 DEF Work
  <2>2. kind(x) \in Kinds
    BY DEF Kinds, Terminal, Good
  <2>3. Relationships[x] = Entry(item(x), kind(x), 0, 0)
    BY <1>3
  <2> HIDE DEF item, kind
  <2>4. QED
    BY <2>1, <2>2, <2>3, EntryIs, Zero
<1>8. DOMAIN Relationships = 1..n /\ k \in 1..n
  BY <1>3
<1>9. Relationships \in Seq(EntrySpace)
  <2>1. Relationships \in [1..n -> EntrySpace]
    BY <1>3, <1>7
  <2>2. QED
    BY <1>4, <2>1
<1>10. item(k) \in Relations /\ ~Known(item(k))
  BY <1>6, <1>8 DEF Known
<1>11. CASE k % 2 = 1
  <2>1. ASSUME NEW j \in 1..(k - 1) PROVE item(j) # item(k)
    <3>1. j \in 1..n /\ (j + 1) \div 2 # (k + 1) \div 2
      BY <1>4, <1>8, <1>11, <2>1
    <3>2. (j + 1) \div 2 \in 1..Len(s) /\ (k + 1) \div 2 \in 1..Len(s)
      BY <1>5, <1>8, <3>1
    <3>3. QED
      BY <1>2, <3>1, <3>2
  <2>2. \A j \in 1..(k - 1) : j \in 1..n
    BY <1>4, <1>8
  <2>3. QED
    BY <1>7, <1>8, <1>9, <1>10, <1>11, <2>1, <2>2
<1>12. CASE k % 2 # 1
  <2>1. k # 1 /\ k - 1 \in 1..n /\ (k - 1) % 2 = 1 /\ ((k - 1) + 1) \div 2 = (k + 1) \div 2
    <3>1. k \in Nat /\ k % 2 = 0
      BY <1>8, <1>12
    <3>2. k = 2 * (k \div 2)
      BY <3>1
    <3>3. PICK m \in Nat : k = 2 * m
      BY <3>1, <3>2
    <3>4. k # 1 /\ k - 1 \in 1..n
      BY <1>4, <1>8, <3>3
    <3>5. (k - 1) % 2 = 1 /\ ((k - 1) + 1) \div 2 = m /\ (k + 1) \div 2 = m
      BY <3>3, <3>4
    <3>6. QED
      BY <3>4, <3>5
  <2>2. Relationships[k - 1].item = item(k) /\ Relationships[k - 1].kind = "DISCOVERED"
    BY <1>7, <2>1
  <2>3. Relationships[k].item = item(k) /\ Relationships[k].kind = "EXCLUDED" /\ Relationships[k].attempt = 0
    BY <1>7, <1>8, <1>12
  <2>4. QED
    BY <1>9, <1>10, <2>1, <2>2, <2>3
<1>13. QED
  BY <1>11, <1>12

LEMMA OpenStep ==
  ASSUME CycleInv, Open
  PROVE  CycleInv'
<1>1. /\ phase \in {"down", "done"} /\ phase' = "account"
      /\ UNCHANGED <<journal, torn, pending, flights, starts, stop, pass, nextStart, gate, now, requests, refused>>
  BY DEF Open
<1>2. \/ Items \subseteq Captured(journal) /\ scope' = Work /\ batch' = Relationships
      \/ ~(Items \subseteq Captured(journal)) /\ scope' = Items /\ batch' = <<>>
  BY DEF Open
<1>3. pending = {} /\ flights = {} /\ now \in Nat
  BY <1>1, TimeAssumption DEF CycleInv, PendingInv, FlightsInv, StatusInv
<1>4. PendingInv' /\ FlightsInv'
  BY <1>1, <1>3, FS_EmptySet DEF PendingInv, FlightsInv
<1>5. DebitsHold' /\ RequestsPaced'
  BY <1>1, <1>3, HistoryStays DEF CycleInv
<1>6. BodiesHold' /\ StartsHold' /\ GateInv' /\ StatusInv' /\ JournalOK(journal')
  BY <1>1 DEF CycleInv, BodiesHold, Bodies, StartsHold, GateInv, StatusInv
<1>7. PhaseInv'
  BY <1>1 DEF CycleInv, PhaseInv, Known, StateOf
<1>8. ScopeInv'
  <2>1. \A i : Known(i)' <=> Known(i)
    BY <1>1 DEF Known
  <2>2. (\E i \in Relations : Known(i)) => Items \subseteq Captured(journal)
    BY DEF CycleInv, ScopeInv
  <2>3. QED
    BY <1>1, <1>2, <2>1, <2>2 DEF ScopeInv, Work
<1>9. BatchInv'
  <2>1. CASE batch' = <<>>
    BY <1>1, <2>1 DEF BatchInv
  <2>2. CASE batch' = Relationships /\ scope' = Work
    <3>1. Relationships \in Seq(EntrySpace)
      <4>1. CASE DOMAIN Relationships = {}
        <5>1. Relationships = <<>>
          BY <4>1 DEF Relationships
        <5>2. QED
          BY <5>1
      <4>2. CASE DOMAIN Relationships # {}
        BY <4>2, BatchIs
      <4>3. QED
        BY <4>1, <4>2
    <3>2. \A i : Known(i)' <=> Known(i)
      BY <1>1 DEF Known
    <3>3. \A i \in Relations : i \in Relations \cap scope'
      BY <2>2 DEF Work
    <3>4. QED
      BY <1>1, <2>2, <3>1, <3>2, <3>3, BatchIs DEF BatchInv
  <2>3. QED
    BY <1>2, <2>1, <2>2
<1>10. QED
  BY <1>4, <1>5, <1>6, <1>7, <1>8, <1>9 DEF CycleInv

LEMMA AccountStep ==
  ASSUME CycleInv, Account
  PROVE  CycleInv'
<1>1. /\ phase = "account"
      /\ UNCHANGED <<torn, scope, pending, flights, starts, stop, pass, nextStart, gate, now, requests>>
  BY DEF Account
<1>2. CASE batch = <<>> /\ phase' = "discover" /\ UNCHANGED <<journal, batch, refused>>
  <2>1. ScopeInv'
    BY <1>1, <1>2 DEF CycleInv, ScopeInv, Known
  <2>2. PhaseInv'
    BY <1>1, <1>2 DEF CycleInv, PhaseInv, Known, StateOf
  <2>3. stop \subseteq Stops
    BY DEF CycleInv, StatusInv
  <2>4. QED
    BY <1>1, <1>2, <2>1, <2>2, <2>3, OpeningMoves
<1>3. CASE batch # <<>> /\ Record(Head(batch)) /\ batch' = Tail(batch) /\ UNCHANGED phase
  <2>0. PICK e : e = Head(batch)
    OBVIOUS
  <2>1. batch \in Seq(EntrySpace) /\ 1 \in DOMAIN batch /\ e = batch[1] /\ Record(e)
    BY <1>3, <2>0 DEF CycleInv, BatchInv
  <2>2. /\ batch' \in Seq(EntrySpace) /\ Len(batch) \in Nat /\ DOMAIN batch = 1..Len(batch)
        /\ DOMAIN batch' = 1..(Len(batch) - 1)
        /\ \A k \in 1..(Len(batch) - 1) : batch'[k] = batch[k + 1]
    BY <1>3, <2>1
  <2>3. /\ e \in EntrySpace /\ e.item \in Relations \cap scope /\ e.attempt = 0
        /\ \/ e.kind = "DISCOVERED" /\ ~Known(e.item)
           \/ e.kind = "EXCLUDED" /\ Known(e.item) /\ StateOf(e.item).kind = "DISCOVERED"
    <3>1. e \in EntrySpace
      BY <2>1
    <3>2. \A k \in DOMAIN batch :
            /\ batch[k].item \in Relations \cap scope /\ batch[k].attempt = 0
            /\ \/ batch[k].kind = "DISCOVERED" /\ ~Known(batch[k].item)
               \/ /\ batch[k].kind = "EXCLUDED"
                  /\ k = 1 => Known(batch[k].item) /\ StateOf(batch[k].item).kind = "DISCOVERED"
      BY DEF CycleInv, BatchInv
    <3>3. /\ batch[1].item \in Relations \cap scope /\ batch[1].attempt = 0
          /\ \/ batch[1].kind = "DISCOVERED" /\ ~Known(batch[1].item)
             \/ batch[1].kind = "EXCLUDED" /\ Known(batch[1].item) /\ StateOf(batch[1].item).kind = "DISCOVERED"
      BY <2>1, <3>2
    <3>4. QED
      BY <2>1, <3>1, <3>3
  <2>4. Fits(e) /\ Accepts(journal, e)
    BY <2>3 DEF Fits, Accepts, Known, StateOf
  <2>5. Appends(e)
    BY <2>1, <2>4, Recorded DEF CycleInv, StatusInv
  <2>6. /\ \A i : Known(i)' <=> Known(i) \/ i = e.item
        /\ e.kind \notin Markers => StateOf(e.item)' = e
    BY <2>5, StateMoves
  <2>7. e.kind \notin Markers
    BY <2>3 DEF Markers
  <2>8. ASSUME NEW k \in 1..(Len(batch) - 1)
        PROVE  /\ batch'[k].item \in Relations \cap scope /\ batch'[k].attempt = 0
               /\ \/ /\ batch'[k].kind = "DISCOVERED" /\ ~Discovered(journal', batch'[k].item)
                     /\ \A j \in 1..(k - 1) : batch'[j].item # batch'[k].item
                  \/ /\ batch'[k].kind = "EXCLUDED"
                     /\ IF k = 1 THEN Discovered(journal', batch'[k].item) /\ Latest(journal', batch'[k].item).kind = "DISCOVERED"
                        ELSE batch'[k - 1].kind = "DISCOVERED" /\ batch'[k - 1].item = batch'[k].item
    <3>1. k + 1 \in DOMAIN batch /\ batch'[k] = batch[k + 1] /\ k + 1 # 1
      BY <2>2
    <3>2. /\ batch[k + 1].item \in Relations \cap scope /\ batch[k + 1].attempt = 0
          /\ \/ /\ batch[k + 1].kind = "DISCOVERED" /\ ~Known(batch[k + 1].item)
                /\ \A j \in 1..((k + 1) - 1) : batch[j].item # batch[k + 1].item
             \/ /\ batch[k + 1].kind = "EXCLUDED"
                /\ batch[(k + 1) - 1].kind = "DISCOVERED" /\ batch[(k + 1) - 1].item = batch[k + 1].item
      BY <3>1 DEF CycleInv, BatchInv
    <3>3. CASE /\ batch[k + 1].kind = "DISCOVERED" /\ ~Known(batch[k + 1].item)
               /\ \A j \in 1..((k + 1) - 1) : batch[j].item # batch[k + 1].item
      <4>1. 1 \in 1..((k + 1) - 1)
        OBVIOUS
      <4>2. ~Discovered(journal', batch[k + 1].item)
        BY <2>1, <2>6, <3>3, <4>1 DEF Known
      <4>3. ASSUME NEW j \in 1..(k - 1) PROVE batch'[j].item # batch'[k].item
        <5>1. j + 1 \in 1..((k + 1) - 1) /\ batch'[j] = batch[j + 1]
          BY <2>2, <4>3
        <5>2. QED
          BY <3>1, <3>3, <5>1
      <4>4. QED
        BY <3>1, <3>2, <3>3, <4>2, <4>3
    <3>4. CASE /\ batch[k + 1].kind = "EXCLUDED"
               /\ batch[(k + 1) - 1].kind = "DISCOVERED" /\ batch[(k + 1) - 1].item = batch[k + 1].item
      <4>1. CASE k = 1
        <5>1. e.kind = "DISCOVERED" /\ batch'[k].item = e.item
          BY <2>1, <3>1, <3>4, <4>1
        <5>2. Discovered(journal', batch'[k].item) /\ Latest(journal', batch'[k].item).kind = "DISCOVERED"
          BY <2>6, <2>7, <5>1 DEF Known, StateOf
        <5>3. QED
          BY <3>1, <3>2, <3>4, <4>1, <5>2
      <4>2. CASE k # 1
        <5>1. k - 1 \in 1..(Len(batch) - 1) /\ (k - 1) + 1 = (k + 1) - 1
          BY <2>2, <4>2
        <5>2. batch'[k - 1] = batch[(k + 1) - 1]
          BY <2>2, <5>1
        <5>3. QED
          BY <3>1, <3>2, <3>4, <4>2, <5>2
      <4>3. QED
        BY <4>1, <4>2
    <3>5. QED
      BY <3>2, <3>3, <3>4
  <2>9. BatchInv'
    BY <1>1, <1>3, <2>2, <2>8 DEF BatchInv, Known, StateOf
  <2>10. e.item \notin Imports /\ e.kind \in {"DISCOVERED", "EXCLUDED"}
    BY <2>3, ItemsAssumption
  <2>11. QED
    BY <1>1, <1>3, <2>1, <2>3, <2>4, <2>9, <2>10, OpeningKeeps
<1>4. QED
  BY <1>2, <1>3 DEF Account

\* A set of numbers with a bound has a greatest one.
LEMMA GreatestNumber ==
  ASSUME NEW n \in Nat, NEW S \in SUBSET (0..n), S # {}
  PROVE  \E x \in S : \A y \in S : x >= y
<1> DEFINE T == {n - x : x \in S}
<1>1. T \subseteq Nat /\ T # {}
  <2>1. \A x \in S : x \in Nat /\ x <= n
    OBVIOUS
  <2>2. \A x \in S : n - x \in Nat
    BY <2>1
  <2>3. PICK x : x \in S
    OBVIOUS
  <2>4. n - x \in T
    BY <2>3
  <2>5. QED
    BY <2>2, <2>4
<1>2. IsWellFoundedOn(OpToRel(<, Nat), Nat)
  BY NatLessThanWellFounded
<1>3. PICK t \in T : \A y \in T : ~(<<y, t>> \in OpToRel(<, Nat))
  BY <1>1, <1>2, WFMin
<1>4. \A y \in T : ~(y < t)
  BY <1>1, <1>3 DEF OpToRel
<1>5. PICK x \in S : t = n - x
  BY <1>3
<1>6. \A y \in S : x >= y
  BY <1>4, <1>5
<1>7. QED
  BY <1>6

LEMMA HighestIs ==
  ASSUME NEW n \in Nat, NEW S \in SUBSET (0..n)
  PROVE  Highest(S) \in Nat /\ \A y \in S : Highest(S) >= y
<1>1. CASE S = {}
  BY <1>1 DEF Highest
<1>2. CASE S # {}
  <2>1. \E x \in S : \A y \in S : x >= y
    BY <1>2, GreatestNumber
  <2>2. Highest(S) \in S /\ \A y \in S : Highest(S) >= y
    BY <1>2, <2>1 DEF Highest
  <2>3. \A y \in S : y \in Nat
    OBVIOUS
  <2>4. QED
    BY <2>2, <2>3
<1>3. QED
  BY <1>1, <1>2

\* The deadline of a host is past every instant the journal has for it.
LEMMA FloorsAre ==
  ASSUME JournalOK(journal)
  PROVE  /\ Floors(journal) \in [Hosts -> Nat]
         /\ \A e \in Entries(journal) : e.kind \in {"TRANSPORT", "INTERRUPTED", "ADMISSION"} =>
                Floors(journal)[Host[e.item]] >= e.floor
<1> DEFINE F(h) == {e.floor : e \in {f \in Entries(journal) :
                       Host[f.item] = h /\ f.kind \in {"TRANSPORT", "INTERRUPTED", "ADMISSION"}}}
<1>1. \A e \in Entries(journal) : e.floor \in 0..Horizon /\ e.item \in Work
  BY EntryType DEF EntrySpace
<1>2. \A h : F(h) \in SUBSET (0..Horizon)
  BY <1>1
<1>3. Horizon \in Nat
  BY Zero
<1>4. \A h : Highest(F(h)) \in Nat /\ \A y \in F(h) : Highest(F(h)) >= y
  BY <1>2, <1>3, HighestIs
<1>5. Floors(journal) = [h \in Hosts |-> Highest(F(h))]
  BY DEF Floors
<1>6. \A e \in Entries(journal) : Host[e.item] \in Hosts
  BY <1>1 DEF Hosts
<1>7. \A e \in Entries(journal) : e.kind \in {"TRANSPORT", "INTERRUPTED", "ADMISSION"} => e.floor \in F(Host[e.item])
  OBVIOUS
<1> HIDE DEF F
<1>8. QED
  BY <1>4, <1>5, <1>6, <1>7

\* What is charged is within what is debited.
LEMMA ChargedHolds ==
  ASSUME DebitsHold
  PROVE  /\ IsFiniteSet(Charged(journal)) /\ IsFiniteSet(OpenStarts)
         /\ Cardinality(Charged(journal)) \in 0..MaxStarts
<1>1. /\ IsFiniteSet(Debits) /\ Cardinality(Debits) <= MaxStarts
      /\ Charged(journal) \in SUBSET Debits /\ OpenStarts \in SUBSET Debits
  BY DEF DebitsHold, Debits
<1>2. /\ IsFiniteSet(Charged(journal)) /\ IsFiniteSet(OpenStarts)
      /\ Cardinality(Charged(journal)) <= Cardinality(Debits)
  BY <1>1, FS_Subset
<1>3. Cardinality(Charged(journal)) \in Nat /\ Cardinality(Debits) \in Nat
  BY <1>1, <1>2, FS_CardinalityType
<1>4. QED
  BY <1>1, <1>2, <1>3, BudgetAssumption

\* The queue that is rebuilt from the journal.
LEMMA WaitingIs ==
  ASSUME CycleInv, phase = "enter"
  PROVE  /\ \A p \in Waiting(journal) :
                /\ p.item \in scope /\ p.attempt \in 1..MaxAttempts /\ p.ready \in Nat
                /\ StateOf(p.item).kind \in Retries \cup {"DISCOVERED"}
                /\ p.attempt = StateOf(p.item).attempt + 1
         /\ \A p, q \in Waiting(journal) : p.item = q.item => p = q
<1> DEFINE R(i) == IF StateOf(i).kind = "DISCOVERED" THEN now ELSE Larger(now, StateOf(i).floor)
           P(i) == [item |-> i, attempt |-> StateOf(i).attempt + 1, ready |-> R(i)]
<1>1. \A p \in Waiting(journal) :
          p.item \in scope /\ p = P(p.item) /\ StateOf(p.item).kind \in Retries \cup {"DISCOVERED"}
  BY DEF Waiting, StateOf
<1>2. ASSUME NEW i \in scope, StateOf(i).kind \in Retries \cup {"DISCOVERED"}
      PROVE  StateOf(i).attempt + 1 \in 1..MaxAttempts /\ R(i) \in Nat
  <2>1. Known(i)
    BY ScopeKnown
  <2>2. /\ StateOf(i).attempt \in Nat /\ StateOf(i).floor \in Nat /\ StateOf(i) \in Entries(journal)
        /\ now \in Nat
    BY <2>1, LastType, TimeAssumption DEF CycleInv, StatusInv
  <2>3. StateOf(i).kind = "DISCOVERED" => StateOf(i).attempt = 0
    BY <2>2 DEF CycleInv, JournalOK
  <2>4. StateOf(i).kind \in Retries => StateOf(i).attempt < MaxAttempts
    BY DEF CycleInv, PhaseInv
  <2>5. StateOf(i).attempt + 1 \in 1..MaxAttempts
    BY <1>2, <2>2, <2>3, <2>4, BudgetAssumption
  <2>6. R(i) \in Nat
    BY <2>2 DEF Larger
  <2>7. QED
    BY <2>5, <2>6
<1>3. ASSUME NEW p \in Waiting(journal)
      PROVE  p.attempt = StateOf(p.item).attempt + 1 /\ p.ready = R(p.item)
  <2>1. p = P(p.item)
    BY <1>1
  <2> HIDE DEF R
  <2>2. QED
    BY <2>1
<1> HIDE DEF R, P
<1>4. QED
  BY <1>1, <1>2, <1>3

LEMMA EnterStep ==
  ASSUME CycleInv, Enter
  PROVE  CycleInv'
<1>1. /\ phase = "enter" /\ phase' = "loop" /\ pending' = Waiting(journal)
      /\ starts' = Cardinality(Charged(journal)) /\ stop' \subseteq Stops
      /\ nextStart' = Floors(journal) /\ gate' = Floors(journal)
      /\ UNCHANGED <<journal, torn, scope, batch, flights, pass, now, requests, refused>>
  BY DEF Enter, Stops
<1>2. flights = {} /\ now \in Nat /\ now' \in Nat /\ now <= now' /\ batch = <<>>
  BY <1>1, TimeAssumption DEF CycleInv, FlightsInv, StatusInv, BatchInv
<1>3. \A i : (Known(i)' <=> Known(i)) /\ StateOf(i)' = StateOf(i)
  BY <1>1 DEF Known, StateOf
<1>4. JournalOK(journal') /\ BatchInv' /\ FlightsInv' /\ StatusInv' /\ BodiesHold'
  BY <1>1, <1>2, FS_EmptySet DEF CycleInv, BatchInv, FlightsInv, StatusInv, BodiesHold, Bodies
<1>5. ScopeInv'
  BY <1>1, <1>3 DEF CycleInv, ScopeInv
<1>6. PhaseInv'
  BY <1>1, <1>3 DEF CycleInv, PhaseInv
<1>7. PendingInv'
  <2>1. /\ \A p \in pending' : /\ p.item \in scope' /\ p.attempt \in 1..MaxAttempts /\ p.ready \in Nat
                               /\ StateOf(p.item).kind \in Retries \cup {"DISCOVERED"}
                               /\ p.attempt = StateOf(p.item).attempt + 1
        /\ \A p, q \in pending' : p.item = q.item => p = q
    BY <1>1, WaitingIs
  <2>2. QED
    BY <1>1, <1>3, <2>1 DEF PendingInv
<1>8. DebitsHold' /\ RequestsPaced'
  BY <1>1, <1>2, HistoryStays DEF CycleInv
<1>9. \A i : Known(i) => StateOf(i).kind # "STARTED"
  BY <1>1, LastType DEF CycleInv, PhaseInv, ScopeInv
<1>10. StartsHold'
  <2>1. OpenStarts' = {}
    BY <1>3, <1>9 DEF OpenStarts
  <2>2. starts' \in 0..MaxStarts
    BY <1>1, ChargedHolds DEF CycleInv
  <2>3. QED
    BY <1>1, <2>1, <2>2 DEF StartsHold
<1>11. GateInv'
  <2>1. ASSUME NEW r \in requests PROVE gate'[Host[r.item]] >= r.at + Interval
    <3>1. PICK e \in Entries(journal) : Covers(e, r)
      BY <1>9 DEF CycleInv, RequestsPaced, Covered
    <3>2. Floors(journal)[Host[r.item]] >= e.floor /\ e.floor >= r.at + Interval
      BY <3>1, FloorsAre DEF Covers, CycleInv
    <3>3. Host[r.item] \in Hosts /\ r.at \in Nat
      BY TimeAssumption DEF CycleInv, RequestsPaced, RequestSpace, Hosts
    <3>4. Floors(journal)[Host[r.item]] \in Nat
      BY <3>3, FloorsAre DEF CycleInv
    <3>5. e.floor \in Nat
      BY EntryType DEF CycleInv
    <3>6. QED
      BY <1>1, <3>2, <3>3, <3>4, <3>5, TimeAssumption
  <2>2. Floors(journal) \in [Hosts -> Nat]
    BY FloorsAre DEF CycleInv
  <2>3. QED
    BY <1>1, <2>1, <2>2 DEF GateInv
<1>12. QED
  BY <1>4, <1>5, <1>6, <1>7, <1>8, <1>10, <1>11 DEF CycleInv

-----------------------------------------------------------------------------
(* The loop. *)

\* The fields of a flight.
LEMMA FlightType ==
  ASSUME CycleInv, NEW f \in flights
  PROVE  /\ FlightOK(f) /\ f \in FlightSpace /\ f.item \in scope /\ f.item \in Work /\ Known(f.item)
         /\ f.attempt \in 1..MaxAttempts /\ f.attempt \in 0..MaxAttempts
         /\ f.at \in 0..(MaxTime + MaxElapsed) /\ f.at \in Nat
         /\ phase = "loop"
<1>1. FlightOK(f) /\ phase = "loop"
  BY DEF CycleInv, FlightsInv
<1>2. f \in FlightSpace /\ f.item \in scope
  BY <1>1 DEF FlightOK
<1>3. f.item \in Work /\ Known(f.item)
  BY <1>1, <1>2, ScopeKnown
<1>4. f.attempt \in 1..MaxAttempts /\ f.at \in 0..(MaxTime + MaxElapsed)
  BY <1>2 DEF FlightSpace
<1>5. QED
  BY <1>1, <1>2, <1>3, <1>4, BudgetAssumption, TimeAssumption

\* No item is queued while an attempt of it is on its way.
LEMMA Apart ==
  ASSUME CycleInv, NEW p \in pending, NEW f \in flights
  PROVE  p.item # f.item
<1> SUFFICES ASSUME p.item = f.item PROVE FALSE
  OBVIOUS
<1>1. /\ StateOf(p.item).kind \in Retries \cup {"DISCOVERED"} /\ p.attempt = StateOf(p.item).attempt + 1
      /\ p.attempt \in 1..MaxAttempts
  BY DEF CycleInv, PendingInv
<1>2. FlightOK(f)
  BY FlightType
<1>3. f.st = "exhaust"
  BY <1>1, <1>2 DEF FlightOK, Retries
<1>4. StateOf(f.item).attempt = MaxAttempts
  BY <1>2, <1>3 DEF FlightOK
<1>5. QED
  BY <1>1, <1>4, BudgetAssumption

\* An append of the loop leaves the journal, the scope and the batch in order.
LEMMA LoopKeeps ==
  ASSUME CycleInv, NEW e, Fits(e), Accepts(journal, e), Record(e), e.item \in scope,
         phase = "loop", phase' \in {"loop", "report"},
         e.kind = "ELAPSED" => phase' = "report",
         UNCHANGED <<torn, scope, batch>>
  PROVE  /\ Appends(e) /\ ~refused' /\ JournalOK(journal')
         /\ ScopeInv' /\ PhaseInv' /\ BatchInv'
<1>1. Appends(e) /\ ~refused'
  BY Recorded DEF CycleInv, StatusInv
<1>2. ScopeInv'
  BY <1>1, ScopeKeeps DEF CycleInv
<1>3. PhaseInv'
  BY <1>1, PhaseKeeps DEF CycleInv, InPlace
<1>4. BatchInv'
  BY DEF CycleInv, BatchInv
<1>5. QED
  BY <1>1, <1>2, <1>3, <1>4 DEF Appends

\* It leaves the attempts of other items alone.
LEMMA FlightStays ==
  ASSUME NEW e, Appends(e), NEW f, FlightOK(f), Known(f.item), f.item # e.item,
         UNCHANGED <<scope, requests, now>>
  PROVE  FlightOK(f)'
<1>1. /\ StateOf(f.item)' = StateOf(f.item)
      /\ \A n : Marked(journal', f.item, n) <=> Marked(journal, f.item, n)
  BY StateMoves
<1>2. RequestsOf(f.item, f.attempt)' = RequestsOf(f.item, f.attempt)
  BY DEF RequestsOf
<1>3. QED
  BY <1>1, <1>2 DEF FlightOK

LEMMA PendingStays ==
  ASSUME CycleInv, NEW e, Appends(e), phase = "loop", phase' \in {"loop", "report"}, UNCHANGED scope,
         pending' \subseteq pending, \A p \in pending' : p.item # e.item \/ e.kind \in Markers
  PROVE  PendingInv'
<1>1. ASSUME NEW p \in pending'
      PROVE  /\ p.item \in scope' /\ p.attempt \in 1..MaxAttempts /\ p.ready \in Nat
             /\ Latest(journal', p.item).kind \in Retries \cup {"DISCOVERED"}
             /\ p.attempt = Latest(journal', p.item).attempt + 1
  <2>1. p \in pending
    OBVIOUS
  <2>2. /\ p.item \in scope /\ p.attempt \in 1..MaxAttempts /\ p.ready \in Nat
        /\ StateOf(p.item).kind \in Retries \cup {"DISCOVERED"}
        /\ p.attempt = StateOf(p.item).attempt + 1
    BY <2>1 DEF CycleInv, PendingInv
  <2>3. Known(p.item)
    BY <2>2, ScopeKnown
  <2>4. Latest(journal', p.item) = StateOf(p.item)
    BY <2>3, StateMoves DEF StateOf
  <2>5. QED
    BY <2>2, <2>4
<1>2. \A p, q \in pending' : p.item = q.item => p = q
  BY DEF CycleInv, PendingInv
<1>3. QED
  BY <1>1, <1>2 DEF PendingInv, StateOf

\* An attempt on its way goes on, or is over.
LEMMA FlightReplaced ==
  ASSUME FlightsInv, NEW f \in flights, NEW g, g.item = f.item, FlightOK(g)',
         flights' = (flights \ {f}) \cup {g}, phase' = "loop",
         \A x \in flights \ {f} : FlightOK(x)'
  PROVE  FlightsInv' /\ Cardinality(flights') = Cardinality(flights) /\ Cardinality(flights') \in Nat
<1>1. \A x \in flights' : FlightOK(x)'
  OBVIOUS
<1>2. \A x, y \in flights' : x.item = y.item => x = y
  BY DEF FlightsInv
<1>3. IsFiniteSet(flights) /\ IsFiniteSet(flights \ {f}) /\ IsFiniteSet(flights')
  BY FS_RemoveElement, FS_AddElement DEF FlightsInv
<1>4. g \notin flights \ {f}
  BY DEF FlightsInv
<1>5. Cardinality(flights') = Cardinality(flights)
  <2>1. Cardinality(flights) \in Nat
    BY <1>3, FS_CardinalityType
  <2>2. Cardinality(flights \ {f}) = Cardinality(flights) - 1
    BY <1>3, FS_RemoveElement
  <2>3. Cardinality(flights') = Cardinality(flights \ {f}) + 1
    BY <1>3, <1>4, FS_AddElement
  <2>4. QED
    BY <2>1, <2>2, <2>3
<1>6. QED
  BY <1>1, <1>2, <1>3, <1>5, FS_CardinalityType DEF FlightsInv

LEMMA FlightGone ==
  ASSUME FlightsInv, NEW f \in flights,
         flights' = flights \ {f}, phase' = "loop",
         \A x \in flights \ {f} : FlightOK(x)'
  PROVE  FlightsInv' /\ Cardinality(flights') = Cardinality(flights) - 1 /\ Cardinality(flights') \in Nat
<1>1. IsFiniteSet(flights) /\ IsFiniteSet(flights')
  BY FS_RemoveElement DEF FlightsInv
<1>2. Cardinality(flights') = Cardinality(flights) - 1
  BY <1>1, FS_RemoveElement
<1>3. QED
  BY <1>1, <1>2, FS_CardinalityType DEF FlightsInv

\* The open starts are no more than the attempts on their way.
LEMMA OpenAreFlights ==
  ASSUME DebitsHold, IsFiniteSet(flights),
         \A d \in OpenStarts : \E f \in flights : d = <<f.item, f.attempt>>
  PROVE  Cardinality(OpenStarts) <= Cardinality(flights)
<1> DEFINE m == [d \in OpenStarts |-> CHOOSE f \in flights : d = <<f.item, f.attempt>>]
<1>1. \A d \in OpenStarts : m[d] \in flights /\ d = <<m[d].item, m[d].attempt>>
  OBVIOUS
<1>2. m \in [OpenStarts -> flights]
  BY <1>1
<1> HIDE DEF m
<1>3. \A d, x \in OpenStarts : m[d] = m[x] => d = x
  BY <1>1
<1>4. m \in Injection(OpenStarts, flights)
  BY <1>2, <1>3 DEF Injection, IsInjective
<1>5. QED
  BY <1>4, FS_Injection

\* A request is of an attempt that was started, and so is a marker.
LEMMA RequestsAreOld ==
  ASSUME JournalOK(journal), DebitsHold, NEW r \in requests
  PROVE  Known(r.item) /\ r.attempt <= StateOf(r.item).attempt
<1>1. <<r.item, r.attempt>> \in Charged(journal) \/ <<r.item, r.attempt>> \in OpenStarts
  BY DEF DebitsHold, Debits
<1>2. CASE <<r.item, r.attempt>> \in Charged(journal)
  <2>1. PICK s \in Entries(journal) : s.item = r.item /\ s.attempt = r.attempt
    BY <1>2, ChargedIs DEF Begun
  <2>2. s.attempt <= StateOf(s.item).attempt
    BY DEF JournalOK, StateOf
  <2>3. Known(s.item)
    BY EntryType DEF Known
  <2>4. QED
    BY <2>1, <2>2, <2>3
<1>3. CASE <<r.item, r.attempt>> \in OpenStarts
  <2>1. Known(r.item) /\ StateOf(r.item).attempt = r.attempt
    BY <1>3, OpenIs
  <2>2. StateOf(r.item).attempt \in Nat
    BY <2>1, LastType
  <2>3. QED
    BY <2>1, <2>2
<1>4. QED
  BY <1>1, <1>2, <1>3

LEMMA MarkedIsOld ==
  ASSUME JournalOK(journal), NEW i, NEW n, Marked(journal, i, n)
  PROVE  n <= StateOf(i).attempt
<1>1. PICK x \in Entries(journal) : x.item = i /\ x.attempt = n
  BY DEF Marked, Of
<1>2. QED
  BY <1>1 DEF JournalOK, StateOf

\* What follows from a candidate that can be dispatched.
LEMMA Candidate ==
  ASSUME CycleInv, phase = "loop", NEW p \in pending
  PROVE  /\ p.item \in scope /\ p.item \in Work /\ Known(p.item) /\ Host[p.item] \in Hosts
         /\ p.attempt \in 1..MaxAttempts /\ p.attempt \in 0..MaxAttempts
         /\ StateOf(p.item).kind \in Retries \cup {"DISCOVERED"}
         /\ p.attempt = StateOf(p.item).attempt + 1 /\ StateOf(p.item).attempt \in Nat
         /\ At(p) \in Nat /\ At(p) >= now /\ now \in Nat
<1>1. /\ p.item \in scope /\ p.attempt \in 1..MaxAttempts /\ p.ready \in Nat
      /\ StateOf(p.item).kind \in Retries \cup {"DISCOVERED"}
      /\ p.attempt = StateOf(p.item).attempt + 1
  BY DEF CycleInv, PendingInv
<1>2. p.item \in Work /\ Known(p.item)
  BY <1>1, ScopeKnown
<1>3. StateOf(p.item).attempt \in Nat
  BY <1>2, LastType DEF CycleInv
<1>4. Host[p.item] \in Hosts
  BY <1>2 DEF Hosts
<1>5. nextStart[Host[p.item]] \in Nat
  BY <1>4 DEF CycleInv, GateInv
<1>6. now \in Nat
  BY TimeAssumption DEF CycleInv, StatusInv
<1>7. At(p) \in Nat /\ At(p) >= now
  BY <1>1, <1>5, <1>6 DEF At, Larger
<1>8. QED
  BY <1>1, <1>2, <1>3, <1>4, <1>6, <1>7, BudgetAssumption

LEMMA DispatchStep ==
  ASSUME CycleInv, Dispatch
  PROVE  CycleInv'
<1>1. /\ phase = "loop" /\ ~Busy
      /\ UNCHANGED <<torn, phase, scope, batch, starts, stop, pass, gate, now, requests>>
  BY DEF Dispatch, Looping
<1>2. PICK p \in pending :
        /\ At(p) < MaxElapsed /\ Affordable
        /\ Record(Entry(p.item, "STARTED", p.attempt, At(p) + Interval))
        /\ pending' = pending \ {p}
        /\ flights' = flights \cup
               {[item |-> p.item, attempt |-> p.attempt, at |-> At(p), st |-> "waits"]}
        /\ nextStart' = [nextStart EXCEPT ![Host[p.item]] = At(p) + Interval]
  BY DEF Dispatch
<1>3. /\ p.item \in scope /\ p.item \in Work /\ Known(p.item) /\ Host[p.item] \in Hosts
      /\ p.attempt \in 1..MaxAttempts /\ p.attempt \in 0..MaxAttempts
      /\ StateOf(p.item).kind \in Retries \cup {"DISCOVERED"}
      /\ p.attempt = StateOf(p.item).attempt + 1 /\ StateOf(p.item).attempt \in Nat
      /\ At(p) \in Nat /\ At(p) >= now /\ now \in Nat
  BY <1>1, Candidate
<1>4. PICK t : t = At(p)
  OBVIOUS
<1>5. t + Interval \in 0..Horizon /\ t \in 0..(MaxTime + MaxElapsed) /\ t \in Nat /\ now < MaxElapsed
  BY <1>2, <1>3, <1>4, TimeAssumption DEF Horizon
<1>6. PICK e : e = Entry(p.item, "STARTED", p.attempt, t + Interval)
  OBVIOUS
<1>7. /\ e \in EntrySpace /\ e.item = p.item /\ e.kind = "STARTED" /\ e.attempt = p.attempt
      /\ e.floor = t + Interval
  <2>1. "STARTED" \in Kinds
    BY DEF Kinds
  <2>2. QED
    BY <1>3, <1>5, <1>6, <2>1, EntryIs
<1>8. Fits(e) /\ Accepts(journal, e)
  <2>1. Has(journal, "PROFILE")
    BY <1>1 DEF CycleInv, PhaseInv
  <2>2. QED
    BY <1>3, <1>7, <2>1 DEF Fits, Accepts, Known, StateOf
<1>9. /\ Appends(e) /\ ~refused' /\ JournalOK(journal') /\ ScopeInv' /\ PhaseInv' /\ BatchInv'
  BY <1>1, <1>2, <1>3, <1>4, <1>6, <1>7, <1>8, LoopKeeps
<1>10. PendingInv'
  <2>1. \A q \in pending' : q.item # e.item
    BY <1>2, <1>7 DEF CycleInv, PendingInv
  <2>2. QED
    BY <1>1, <1>2, <1>9, <2>1, PendingStays
<1>11. PICK g : g = [item |-> p.item, attempt |-> p.attempt, at |-> t, st |-> "waits"]
  OBVIOUS
<1>12. flights' = flights \cup {g} /\ g.item = p.item /\ g.attempt = p.attempt
  BY <1>2, <1>4, <1>11
<1>13. FlightOK(g)'
  <2>1. g \in FlightSpace /\ g.at = t /\ g.st = "waits"
    BY <1>3, <1>5, <1>11 DEF FlightSpace
  <2>2. StateOf(g.item)' = e
    BY <1>7, <1>9, <1>12, StateMoves DEF Markers
  <2>3. RequestsOf(g.item, g.attempt)' = {}
    <3>1. \A r \in requests : r.item = p.item => r.attempt # p.attempt
      <4> SUFFICES ASSUME NEW r \in requests, r.item = p.item, r.attempt = p.attempt PROVE FALSE
        OBVIOUS
      <4>1. p.attempt <= StateOf(p.item).attempt
        BY RequestsAreOld DEF CycleInv
      <4>2. QED
        BY <1>3, <4>1
    <3>2. QED
      BY <1>1, <1>12, <3>1 DEF RequestsOf
  <2>4. ~Marked(journal', g.item, g.attempt)
    <3>1. ~Marked(journal, p.item, p.attempt)
      <4> SUFFICES ASSUME Marked(journal, p.item, p.attempt) PROVE FALSE
        OBVIOUS
      <4>1. p.attempt <= StateOf(p.item).attempt
        BY MarkedIsOld DEF CycleInv
      <4>2. QED
        BY <1>3, <4>1
    <3>2. QED
      BY <1>7, <1>9, <1>12, <3>1, StateMoves
  <2>5. g.item \in scope'
    BY <1>1, <1>3, <1>12
  <2>6. QED
    BY <1>7, <1>12, <2>1, <2>2, <2>3, <2>4, <2>5 DEF FlightOK
<1>14. /\ FlightsInv' /\ IsFiniteSet(flights) /\ Cardinality(flights) \in Nat
       /\ Cardinality(flights') = Cardinality(flights) + 1
  <2>1. ASSUME NEW f \in flights PROVE f.item # p.item /\ FlightOK(f)'
    <3>1. FlightOK(f) /\ Known(f.item) /\ p.item # f.item
      BY FlightType, Apart
    <3>2. QED
      BY <1>1, <1>7, <1>9, <3>1, FlightStays
  <2>2. IsFiniteSet(flights) /\ Cardinality(flights) \in Nat
    BY FS_CardinalityType DEF CycleInv, FlightsInv
  <2>3. g \notin flights
    BY <1>12, <2>1
  <2>4. IsFiniteSet(flights') /\ Cardinality(flights') = Cardinality(flights) + 1
    BY <1>12, <2>2, <2>3, FS_AddElement
  <2>5. \A f, h \in flights' : f.item = h.item => f = h
    BY <1>12, <2>1 DEF CycleInv, FlightsInv
  <2>6. QED
    BY <1>1, <1>12, <1>13, <2>1, <2>2, <2>4, <2>5 DEF FlightsInv
<1>15. PICK d : d = <<e.item, e.attempt>>
  OBVIOUS
<1>16. Charged(journal') = Charged(journal) /\ OpenStarts' = OpenStarts \cup {d}
  <2>1. e.kind \notin Charging \cup {"TRANSPORT"}
    BY <1>7 DEF Charging, Outcomes
  <2>2. QED
    BY <1>7, <1>9, <1>15, <2>1, DebitsMove
<1>17. StartsHold'
  <2>1. \A x \in OpenStarts' : \E f \in flights' : x = <<f.item, f.attempt>>
    <3>1. \A x \in OpenStarts : \E f \in flights : x = <<f.item, f.attempt>>
      BY <1>1, <1>5 DEF CycleInv, StartsHold
    <3>2. d = <<g.item, g.attempt>>
      BY <1>7, <1>12, <1>15
    <3>3. QED
      BY <1>12, <1>16, <3>1, <3>2
  <2>2. QED
    BY <1>1, <1>16, <2>1 DEF CycleInv, StartsHold
<1>18. DebitsHold'
  <2>1. /\ IsFiniteSet(Charged(journal)) /\ IsFiniteSet(OpenStarts)
        /\ starts = Cardinality(Charged(journal)) /\ starts \in Nat
    BY <1>1, ChargedHolds DEF CycleInv, StartsHold
  <2>2. Cardinality(OpenStarts) <= Cardinality(flights)
    BY <1>1, <1>5, <1>14, OpenAreFlights DEF CycleInv, StartsHold
  <2>3. /\ IsFiniteSet(Debits) /\ Cardinality(Debits) <= starts + Cardinality(OpenStarts)
    <3>1. Cardinality(Charged(journal) \cap OpenStarts) \in Nat
      BY <2>1, FS_Intersection, FS_CardinalityType
    <3>2. /\ IsFiniteSet(Debits)
          /\ Cardinality(Debits) = Cardinality(Charged(journal)) + Cardinality(OpenStarts)
                                   - Cardinality(Charged(journal) \cap OpenStarts)
      BY <2>1, FS_Union DEF Debits
    <3>3. Cardinality(OpenStarts) \in Nat
      BY <2>1, FS_CardinalityType
    <3>4. QED
      BY <2>1, <3>1, <3>2, <3>3
  <2>4. Debits' = Debits \cup {d}
    BY <1>16 DEF Debits
  <2>5. IsFiniteSet(Debits') /\ Cardinality(Debits') <= Cardinality(Debits) + 1
    <3>1. Cardinality(Debits) \in Nat
      BY <2>3, FS_CardinalityType
    <3>2. QED
      BY <2>3, <2>4, <3>1, FS_AddElement
  <2>6. starts + Cardinality(flights) + 1 <= MaxStarts
    BY <1>2 DEF Affordable
  <2>7. Cardinality(Debits') <= MaxStarts
    <3>1. /\ Cardinality(Debits) \in Nat /\ Cardinality(OpenStarts) \in Nat /\ Cardinality(Debits') \in Nat
      BY <2>1, <2>3, <2>5, FS_CardinalityType
    <3>2. QED
      BY <1>14, <2>1, <2>2, <2>3, <2>5, <2>6, <3>1, BudgetAssumption
  <2>8. QED
    BY <1>1, <2>4, <2>5, <2>7 DEF CycleInv, DebitsHold
<1>19. RequestsPaced'
  <2>1. ASSUME NEW r \in requests PROVE Covered(r)'
    BY <1>7, <1>9, CoverKeeps DEF CycleInv, RequestsPaced
  <2>2. QED
    BY <1>1, <2>1 DEF CycleInv, RequestsPaced, HostsArePaced
<1>20. BodiesHold'
  <2>1. Bodies' = Bodies
    BY <1>7, <1>9, StateMoves DEF Bodies
  <2>2. IsFiniteSet(Bodies) /\ Cardinality(Bodies) \in Nat
    BY FS_CardinalityType DEF CycleInv, BodiesHold
  <2>3. Cardinality(Bodies) + Cardinality(flights) + 1 <= MaxRetained
    BY <1>2 DEF Affordable, Bodies
  <2>4. QED
    BY <1>14, <2>1, <2>2, <2>3, BudgetAssumption DEF BodiesHold
<1>21. GateInv' /\ StatusInv'
  <2>1. At(p) + Interval \in Nat
    BY <1>3, TimeAssumption
  <2>2. nextStart' \in [Hosts -> Nat]
    BY <1>2, <1>3, <2>1 DEF CycleInv, GateInv
  <2>3. QED
    BY <1>1, <1>9, <2>2 DEF CycleInv, GateInv, StatusInv
<1>22. QED
  BY <1>9, <1>10, <1>14, <1>17, <1>18, <1>19, <1>20, <1>21 DEF CycleInv

\* Another worker's flight does not notice a request.
LEMMA FlightUnmoved ==
  ASSUME NEW f, FlightOK(f), UNCHANGED <<journal, scope, now>>,
         RequestsOf(f.item, f.attempt)' = RequestsOf(f.item, f.attempt)
  PROVE  FlightOK(f)'
  BY DEF FlightOK, StateOf

\* What a worker's step leaves as it is.
LEMMA WorkerKeeps ==
  ASSUME CycleInv, phase = "loop", NEW f \in flights, NEW g, g.item = f.item, g.attempt = f.attempt,
         flights' = (flights \ {f}) \cup {g}, FlightOK(g)',
         UNCHANGED <<journal, torn, phase, scope, batch, pending, starts, stop, pass, nextStart, now, refused>>,
         \A n, i : i # f.item => RequestsOf(i, n)' = RequestsOf(i, n)
  PROVE  /\ JournalOK(journal') /\ ScopeInv' /\ BatchInv' /\ PhaseInv' /\ PendingInv' /\ FlightsInv'
         /\ BodiesHold' /\ StartsHold' /\ StatusInv'
<1>1. \A i : (Known(i)' <=> Known(i)) /\ StateOf(i)' = StateOf(i)
  BY DEF Known, StateOf
<1>2. JournalOK(journal') /\ BatchInv' /\ StatusInv'
  BY <1>1 DEF CycleInv, BatchInv, StatusInv
<1>3. ScopeInv' /\ PhaseInv' /\ PendingInv'
  BY <1>1 DEF CycleInv, ScopeInv, PhaseInv, PendingInv
<1>4. ASSUME NEW x \in flights \ {f} PROVE FlightOK(x)'
  <2>1. x.item # f.item /\ FlightOK(x)
    BY DEF CycleInv, FlightsInv
  <2>2. QED
    BY <2>1, FlightUnmoved
<1>5. FlightsInv' /\ Cardinality(flights') = Cardinality(flights)
  BY <1>4, FlightReplaced DEF CycleInv
<1>6. BodiesHold'
  BY <1>5 DEF CycleInv, BodiesHold, Bodies
<1>7. StartsHold'
  <2>1. OpenStarts' = OpenStarts
    BY <1>1 DEF OpenStarts
  <2>2. \A d : (\E x \in flights : d = <<x.item, x.attempt>>) => \E x \in flights' : d = <<x.item, x.attempt>>
    OBVIOUS
  <2>3. QED
    BY <2>1, <2>2 DEF CycleInv, StartsHold
<1>8. QED
  BY <1>2, <1>3, <1>5, <1>6, <1>7

LEMMA RequestStep ==
  ASSUME CycleInv, Request
  PROVE  CycleInv'
<1>1. /\ phase = "loop"
      /\ UNCHANGED <<journal, torn, phase, scope, batch, pending, starts, stop, pass, nextStart, now, refused>>
  BY DEF Request
<1>2. PICK f \in flights :
        /\ f.st = "waits"
        /\ \/ /\ now >= f.at /\ now >= gate[Host[f.item]]
              /\ IF now >= MaxElapsed
                 THEN /\ flights' = (flights \ {f}) \cup {[f EXCEPT !.st = "expired", !.at = now]}
                      /\ UNCHANGED <<gate, requests>>
                 ELSE /\ flights' = (flights \ {f}) \cup {[f EXCEPT !.st = "made", !.at = now]}
                      /\ gate' = [gate EXCEPT ![Host[f.item]] = now + Interval]
                      /\ requests' = requests \cup
                             {[item |-> f.item, attempt |-> f.attempt, at |-> now]}
           \/ /\ flights' = (flights \ {f}) \cup {[f EXCEPT !.st = "failed"]}
              /\ UNCHANGED <<gate, requests>>
  BY DEF Request
<1>3. /\ FlightOK(f) /\ f \in FlightSpace /\ f.item \in scope /\ f.item \in Work /\ Known(f.item)
      /\ f.attempt \in 1..MaxAttempts
  BY FlightType
<1>4. now \in 0..MaxTime /\ now \in Nat /\ now \in 0..(MaxTime + MaxElapsed)
  BY TimeAssumption DEF CycleInv, StatusInv
<1>5. /\ StateOf(f.item).kind = "STARTED" /\ StateOf(f.item).attempt = f.attempt
      /\ StateOf(f.item).floor = f.at + Interval
      /\ RequestsOf(f.item, f.attempt) = {} /\ ~Marked(journal, f.item, f.attempt)
  BY <1>2, <1>3 DEF FlightOK
<1>6. \A i : (Known(i)' <=> Known(i)) /\ StateOf(i)' = StateOf(i)
  BY <1>1 DEF Known, StateOf
<1>7. CASE UNCHANGED <<gate, requests>>
  <2>1. \A i, n : RequestsOf(i, n)' = RequestsOf(i, n)
    BY <1>7 DEF RequestsOf
  <2>2. DebitsHold' /\ RequestsPaced'
    BY <1>1, <1>4, <1>7, HistoryStays DEF CycleInv
  <2>3. GateInv'
    BY <1>1, <1>7 DEF CycleInv, GateInv
  <2>4. CASE now >= MaxElapsed /\ flights' = (flights \ {f}) \cup {[f EXCEPT !.st = "expired", !.at = now]}
    <3>1. PICK g : g = [f EXCEPT !.st = "expired", !.at = now]
      OBVIOUS
    <3>2. g \in FlightSpace /\ g.item = f.item /\ g.attempt = f.attempt /\ g.st = "expired" /\ g.at = now
      BY <1>3, <1>4, <3>1 DEF FlightSpace
    <3>3. FlightOK(g)'
      BY <1>1, <1>3, <1>5, <1>6, <2>1, <2>4, <3>2 DEF FlightOK
    <3>4. flights' = (flights \ {f}) \cup {g}
      BY <2>4, <3>1
    <3>5. QED
      BY <1>1, <2>1, <2>2, <2>3, <3>2, <3>3, <3>4, WorkerKeeps DEF CycleInv
  <2>5. CASE flights' = (flights \ {f}) \cup {[f EXCEPT !.st = "failed"]}
    <3>1. PICK g : g = [f EXCEPT !.st = "failed"]
      OBVIOUS
    <3>2. g \in FlightSpace /\ g.item = f.item /\ g.attempt = f.attempt /\ g.st = "failed" /\ g.at = f.at
      BY <1>3, <3>1 DEF FlightSpace
    <3>3. FlightOK(g)'
      BY <1>1, <1>3, <1>5, <1>6, <2>1, <3>2 DEF FlightOK
    <3>4. flights' = (flights \ {f}) \cup {g}
      BY <2>5, <3>1
    <3>5. QED
      BY <1>1, <2>1, <2>2, <2>3, <3>2, <3>3, <3>4, WorkerKeeps DEF CycleInv
  <2>6. CASE /\ now >= gate[Host[f.item]] /\ ~(now >= MaxElapsed)
             /\ flights' = (flights \ {f}) \cup {[f EXCEPT !.st = "made", !.at = now]}
             /\ requests' = requests \cup {[item |-> f.item, attempt |-> f.attempt, at |-> now]}
    <3>1. PICK r : r = [item |-> f.item, attempt |-> f.attempt, at |-> now]
      OBVIOUS
    <3>2. r \in RequestsOf(f.item, f.attempt)
      BY <1>7, <2>6, <3>1 DEF RequestsOf
    <3>3. QED
      BY <1>5, <3>2
  <2>7. QED
    BY <1>2, <2>4, <2>5, <2>6
<1>8. CASE /\ now >= gate[Host[f.item]] /\ ~(now >= MaxElapsed)
           /\ flights' = (flights \ {f}) \cup {[f EXCEPT !.st = "made", !.at = now]}
           /\ gate' = [gate EXCEPT ![Host[f.item]] = now + Interval]
           /\ requests' = requests \cup {[item |-> f.item, attempt |-> f.attempt, at |-> now]}
  <2>1. PICK g : g = [f EXCEPT !.st = "made", !.at = now]
    OBVIOUS
  <2>2. PICK r : r = [item |-> f.item, attempt |-> f.attempt, at |-> now]
    OBVIOUS
  <2>3. /\ flights' = (flights \ {f}) \cup {g} /\ requests' = requests \cup {r}
        /\ r.item = f.item /\ r.attempt = f.attempt /\ r.at = now /\ r \in RequestSpace
    BY <1>3, <1>4, <1>8, <2>1, <2>2 DEF RequestSpace
  <2>4. g \in FlightSpace /\ g.item = f.item /\ g.attempt = f.attempt /\ g.st = "made" /\ g.at = now
    BY <1>3, <1>4, <2>1 DEF FlightSpace
  <2>5. \A n, i : i # f.item => RequestsOf(i, n)' = RequestsOf(i, n)
    BY <2>3 DEF RequestsOf
  <2>6. RequestsOf(f.item, f.attempt)' = {r}
    BY <1>5, <2>3 DEF RequestsOf
  <2>7. FlightOK(g)'
    BY <1>1, <1>3, <1>4, <1>5, <1>6, <2>3, <2>4, <2>6 DEF FlightOK
  <2>8. DebitsHold'
    <3>1. Debits' = Debits
      BY <1>1, <1>6 DEF Debits, OpenStarts
    <3>2. <<r.item, r.attempt>> \in Debits
      BY <1>3, <1>5, <2>3, OpenIs DEF Debits
    <3>3. \A q \in requests : ~(q.item = r.item /\ q.attempt = r.attempt)
      BY <1>5, <2>3 DEF RequestsOf
    <3>4. QED
      BY <2>3, <3>1, <3>2, <3>3 DEF CycleInv, DebitsHold
  <2>9. \A q \in requests : q.at \in Nat /\ q.at <= now /\ Host[q.item] \in Hosts /\ Covered(q)
    BY TimeAssumption DEF CycleInv, RequestsPaced, RequestSpace, Hosts
  <2>10. \A q \in requests : Host[q.item] = Host[r.item] => q.at + Interval <= r.at
    <3> SUFFICES ASSUME NEW q \in requests, Host[q.item] = Host[r.item] PROVE q.at + Interval <= r.at
      OBVIOUS
    <3>1. gate[Host[q.item]] >= q.at + Interval
      BY <1>1 DEF CycleInv, GateInv
    <3>2. gate[Host[q.item]] \in Nat
      BY <2>9 DEF CycleInv, GateInv
    <3>3. QED
      BY <1>4, <1>8, <2>3, <2>9, <3>1, <3>2, TimeAssumption
  <2>11. RequestsPaced'
    <3>1. \A q : Covered(q)' <=> Covered(q)
      BY <1>1, <1>6 DEF Covered, Covers
    <3>2. Covered(r)
      BY <1>3, <1>5, <2>3 DEF Covered
    <3>3. \A q \in requests' : q.at <= now' /\ Covered(q)'
      BY <1>1, <1>4, <2>3, <2>9, <3>1, <3>2
    <3>4. HostsArePaced'
      BY <2>3, <2>10 DEF CycleInv, RequestsPaced, HostsArePaced
    <3>5. QED
      BY <2>3, <3>3, <3>4 DEF CycleInv, RequestsPaced
  <2>12. GateInv'
    <3>1. now + Interval \in Nat /\ Host[f.item] \in Hosts
      BY <1>3, <1>4, TimeAssumption DEF Hosts
    <3>2. gate' \in [Hosts -> Nat] /\ nextStart' \in [Hosts -> Nat]
      BY <1>1, <1>8, <3>1 DEF CycleInv, GateInv
    <3>3. gate'[Host[r.item]] >= r.at + Interval
      BY <1>4, <1>8, <2>3, <3>1, TimeAssumption DEF CycleInv, GateInv
    <3>4. ASSUME NEW q \in requests PROVE gate'[Host[q.item]] >= q.at + Interval
      <4>1. CASE Host[q.item] = Host[f.item]
        BY <1>4, <1>8, <2>9, <3>1, <4>1, TimeAssumption DEF CycleInv, GateInv
      <4>2. CASE Host[q.item] # Host[f.item]
        <5>1. gate'[Host[q.item]] = gate[Host[q.item]]
          BY <1>8, <2>9, <4>2 DEF CycleInv, GateInv
        <5>2. QED
          BY <1>1, <5>1 DEF CycleInv, GateInv
      <4>3. QED
        BY <4>1, <4>2
    <3>5. QED
      BY <2>3, <3>2, <3>3, <3>4 DEF GateInv
  <2>13. QED
    BY <1>1, <2>3, <2>4, <2>5, <2>7, <2>8, <2>11, <2>12, WorkerKeeps DEF CycleInv
<1>9. QED
  BY <1>2, <1>7, <1>8

\* An append about an attempt that is on its way.
LEMMA FlightAppends ==
  ASSUME CycleInv, NEW f \in flights, NEW e, Fits(e), Accepts(journal, e), Record(e),
         e.item = f.item, e.kind # "ELAPSED",
         UNCHANGED <<torn, phase, scope, batch, nextStart, gate, now, requests>>
  PROVE  /\ Appends(e) /\ ~refused' /\ JournalOK(journal')
         /\ ScopeInv' /\ PhaseInv' /\ BatchInv' /\ GateInv'
         /\ \A x \in flights \ {f} : FlightOK(x)'
         /\ \A p \in pending : p.item # e.item
<1>1. phase = "loop" /\ f.item \in scope
  BY FlightType
<1>2. Appends(e) /\ ~refused' /\ JournalOK(journal') /\ ScopeInv' /\ PhaseInv' /\ BatchInv'
  BY <1>1, LoopKeeps
<1>3. ASSUME NEW x \in flights \ {f} PROVE FlightOK(x)'
  <2>1. FlightOK(x) /\ Known(x.item)
    BY FlightType
  <2>2. x.item # e.item
    BY DEF CycleInv, FlightsInv
  <2>3. QED
    BY <1>2, <2>1, <2>2, FlightStays
<1>4. GateInv'
  BY DEF CycleInv, GateInv
<1>5. \A p \in pending : p.item # e.item
  BY Apart
<1>6. QED
  BY <1>2, <1>3, <1>4, <1>5

\* A part of what is within the budget is within it.
LEMMA PartHolds ==
  ASSUME NEW D, NEW C \in SUBSET D, IsFiniteSet(D), Cardinality(D) <= MaxStarts
  PROVE  IsFiniteSet(C) /\ Cardinality(C) \in 0..MaxStarts
<1>1. IsFiniteSet(C) /\ Cardinality(C) <= Cardinality(D)
  BY FS_Subset
<1>2. Cardinality(C) \in Nat /\ Cardinality(D) \in Nat
  BY <1>1, FS_CardinalityType
<1>3. QED
  BY <1>1, <1>2, BudgetAssumption

\* The start of an attempt that is over is closed, the others are still open.
LEMMA OthersOpen ==
  ASSUME CycleInv, NEW f \in flights, now < MaxElapsed, NEW d \in OpenStarts,
         d # <<f.item, f.attempt>>
  PROVE  \E x \in flights \ {f} : d = <<x.item, x.attempt>>
<1>1. PICK x \in flights : d = <<x.item, x.attempt>>
  BY FlightType DEF CycleInv, StartsHold
<1>2. x # f
  BY <1>1
<1>3. QED
  BY <1>1, <1>2

LEMMA MarkStep ==
  ASSUME CycleInv, Mark
  PROVE  CycleInv'
<1>1. /\ phase = "loop" /\ starts' = starts + 1 /\ pass' = FALSE
      /\ UNCHANGED <<torn, phase, scope, batch, pending, stop, nextStart, gate, now, requests>>
  BY DEF Mark, Looping
<1>2. PICK f \in flights :
        /\ f.st = "made" /\ Record(Entry(f.item, "TRANSPORT", f.attempt, f.at + Interval))
        /\ flights' = (flights \ {f}) \cup {[f EXCEPT !.st = "marked"]}
  BY DEF Mark
<1>3. /\ FlightOK(f) /\ f \in FlightSpace /\ f.item \in scope /\ f.item \in Work /\ Known(f.item)
      /\ f.attempt \in 1..MaxAttempts /\ f.attempt \in 0..MaxAttempts
      /\ f.at \in 0..(MaxTime + MaxElapsed) /\ f.at \in Nat
  BY FlightType
<1>4. /\ StateOf(f.item).kind = "STARTED" /\ StateOf(f.item).attempt = f.attempt
      /\ ~Marked(journal, f.item, f.attempt)
      /\ \A r \in RequestsOf(f.item, f.attempt) : r.at <= f.at
  BY <1>2, <1>3 DEF FlightOK
<1>5. PICK e : e = Entry(f.item, "TRANSPORT", f.attempt, f.at + Interval)
  OBVIOUS
<1>6. /\ e \in EntrySpace /\ e.item = f.item /\ e.kind = "TRANSPORT" /\ e.attempt = f.attempt
      /\ e.floor = f.at + Interval
  <2>1. "TRANSPORT" \in Kinds
    BY DEF Kinds, Markers
  <2>2. f.at + Interval \in 0..Horizon
    BY <1>3, TimeAssumption DEF Horizon
  <2>3. QED
    BY <1>3, <1>5, <2>1, <2>2, EntryIs
<1>7. Fits(e) /\ Accepts(journal, e)
  BY <1>3, <1>4, <1>6 DEF Fits, Accepts, Known, StateOf
<1>8. /\ Appends(e) /\ ~refused' /\ JournalOK(journal') /\ ScopeInv' /\ PhaseInv' /\ BatchInv' /\ GateInv'
      /\ \A x \in flights \ {f} : FlightOK(x)'
      /\ \A p \in pending : p.item # e.item
  BY <1>1, <1>2, <1>5, <1>6, <1>7, FlightAppends
<1>9. PendingInv'
  BY <1>1, <1>8, PendingStays
<1>10. PICK g : g = [f EXCEPT !.st = "marked"]
  OBVIOUS
<1>11. /\ flights' = (flights \ {f}) \cup {g} /\ g \in FlightSpace
       /\ g.item = f.item /\ g.attempt = f.attempt /\ g.st = "marked"
  BY <1>2, <1>3, <1>10 DEF FlightSpace
<1>12. FlightOK(g)'
  <2>1. StateOf(f.item)' = StateOf(f.item) /\ Marked(journal', f.item, f.attempt)
    BY <1>3, <1>6, <1>8, StateMoves DEF Markers
  <2>2. QED
    BY <1>1, <1>3, <1>4, <1>11, <2>1 DEF FlightOK
<1>13. FlightsInv' /\ Cardinality(flights') = Cardinality(flights)
  BY <1>1, <1>8, <1>11, <1>12, FlightReplaced DEF CycleInv
<1>14. DebitsHold' /\ RequestsPaced'
  <2>1. \A r \in RequestsOf(e.item, e.attempt) : e.floor >= r.at + Interval
    <3>1. \A r \in requests : r.at \in Nat
      BY TimeAssumption DEF CycleInv, RequestsPaced, RequestSpace
    <3>2. QED
      BY <1>3, <1>4, <1>6, <3>1, TimeAssumption DEF RequestsOf
  <2>2. now \in Nat
    BY TimeAssumption DEF CycleInv, StatusInv
  <2>3. QED
    BY <1>1, <1>6, <1>8, <2>1, <2>2, HistoryKeeps DEF CycleInv
<1>15. StartsHold'
  <2>1. PICK d : d = <<e.item, e.attempt>>
    OBVIOUS
  <2>2. Charged(journal') = Charged(journal) \cup {d} /\ d \notin Charged(journal)
    BY <1>6, <1>8, <2>1, DebitsMove
  <2>3. OpenStarts' = OpenStarts
    BY <1>6, <1>8, DebitsMove DEF Outcomes
  <2>4. /\ IsFiniteSet(Charged(journal)) /\ starts = Cardinality(Charged(journal))
        /\ starts \in Nat
    BY <1>1, ChargedHolds DEF CycleInv, StartsHold
  <2>5. starts' = Cardinality(Charged(journal'))
    BY <1>1, <2>2, <2>4, FS_AddElement
  <2>6. Cardinality(Charged(journal')) \in 0..MaxStarts
    BY <1>14, PartHolds DEF DebitsHold, Debits
  <2>7. \A x : (\E y \in flights : x = <<y.item, y.attempt>>) => \E y \in flights' : x = <<y.item, y.attempt>>
    BY <1>11
  <2>8. QED
    BY <1>1, <2>3, <2>5, <2>6, <2>7 DEF CycleInv, StartsHold
<1>16. BodiesHold'
  <2>1. Bodies' = Bodies
    BY <1>6, <1>8, StateMoves DEF Bodies
  <2>2. QED
    BY <1>13, <2>1 DEF CycleInv, BodiesHold
<1>17. StatusInv'
  BY <1>1, <1>8 DEF CycleInv, StatusInv
<1>18. QED
  BY <1>8, <1>9, <1>13, <1>14, <1>15, <1>16, <1>17 DEF CycleInv

LEMMA ExhaustStep ==
  ASSUME CycleInv, Exhaust
  PROVE  CycleInv'
<1>1. /\ phase = "loop"
      /\ UNCHANGED <<torn, phase, scope, batch, pending, starts, stop, pass, nextStart, gate, now, requests>>
  BY DEF Exhaust
<1>2. PICK f \in flights :
        f.st = "exhaust" /\ Record(Entry(f.item, "EXHAUSTED", f.attempt, 0)) /\ flights' = flights \ {f}
  BY DEF Exhaust
<1>3. /\ FlightOK(f) /\ f.item \in scope /\ f.item \in Work /\ Known(f.item)
      /\ f.attempt \in 0..MaxAttempts
  BY FlightType
<1>4. StateOf(f.item).kind \in {"RETRYABLE", "ADMISSION"} /\ StateOf(f.item).attempt = f.attempt
  BY <1>2, <1>3 DEF FlightOK
<1>5. PICK e : e = Entry(f.item, "EXHAUSTED", f.attempt, 0)
  OBVIOUS
<1>6. e \in EntrySpace /\ e.item = f.item /\ e.kind = "EXHAUSTED" /\ e.attempt = f.attempt
  <2>1. "EXHAUSTED" \in Kinds
    BY DEF Kinds, Terminal
  <2>2. QED
    BY <1>3, <1>5, <2>1, EntryIs, Zero
<1>7. Fits(e) /\ Accepts(journal, e)
  <2>1. StateOf(f.item).kind = "RETRYABLE" => Marked(journal, f.item, f.attempt)
    BY <1>3, <1>4 DEF CycleInv, JournalOK, Known, StateOf
  <2>2. QED
    BY <1>3, <1>4, <1>6, <2>1 DEF Fits, Accepts, Known, StateOf, Retries
<1>8. /\ Appends(e) /\ ~refused' /\ JournalOK(journal') /\ ScopeInv' /\ PhaseInv' /\ BatchInv' /\ GateInv'
      /\ \A x \in flights \ {f} : FlightOK(x)'
      /\ \A p \in pending : p.item # e.item
  BY <1>1, <1>2, <1>5, <1>6, <1>7, FlightAppends
<1>9. PendingInv'
  BY <1>1, <1>8, PendingStays
<1>10. FlightsInv' /\ Cardinality(flights') = Cardinality(flights) - 1 /\ Cardinality(flights') \in Nat
  BY <1>1, <1>2, <1>8, FlightGone DEF CycleInv
<1>11. now \in Nat
  BY TimeAssumption DEF CycleInv, StatusInv
<1>12. DebitsHold' /\ RequestsPaced'
  BY <1>1, <1>6, <1>8, <1>11, HistoryKeeps DEF CycleInv
<1>13. StartsHold'
  <2>1. e.kind \notin Charging \cup {"TRANSPORT"} /\ e.kind \notin Outcomes \cup {"STARTED"}
    BY <1>6 DEF Charging, Outcomes
  <2>2. Charged(journal') = Charged(journal) /\ OpenStarts' = OpenStarts
    BY <1>8, <2>1, DebitsMove
  <2>3. <<f.item, f.attempt>> \notin OpenStarts
    BY <1>4, OpenIs
  <2>4. now < MaxElapsed => \A d \in OpenStarts : \E x \in flights' : d = <<x.item, x.attempt>>
    BY <1>2, <2>3, OthersOpen
  <2>5. QED
    BY <1>1, <2>2, <2>4 DEF CycleInv, StartsHold
<1>14. BodiesHold'
  <2>1. Bodies' = Bodies
    BY <1>6, <1>8, StateMoves DEF Bodies
  <2>2. IsFiniteSet(Bodies) /\ Cardinality(Bodies) \in Nat /\ Cardinality(flights) \in Nat
    BY FS_CardinalityType DEF CycleInv, BodiesHold, FlightsInv
  <2>3. QED
    BY <1>10, <2>1, <2>2, BudgetAssumption DEF CycleInv, BodiesHold
<1>15. StatusInv'
  BY <1>1, <1>8 DEF CycleInv, StatusInv
<1>16. QED
  BY <1>8, <1>9, <1>10, <1>12, <1>13, <1>14, <1>15 DEF CycleInv

\* An outcome closes the start of its attempt and changes no debit but that of
\* a failed admission.
LEMMA OutcomeKeeps ==
  ASSUME CycleInv, NEW f \in flights, NEW e, Appends(e), e.item = f.item, e.attempt = f.attempt,
         e.kind \in Outcomes \ {"INTERRUPTED"},
         IF e.kind = "ADMISSION" THEN RequestsOf(f.item, f.attempt) = {}
         ELSE Marked(journal, f.item, f.attempt),
         UNCHANGED <<phase, starts, now, requests>>, flights \ {f} \subseteq flights'
  PROVE  DebitsHold' /\ RequestsPaced' /\ StartsHold'
<1>1. PICK d : d = <<e.item, e.attempt>>
  OBVIOUS
<1>2. OpenStarts' = OpenStarts \ {d}
  BY <1>1, DebitsMove
<1>3. Charged(journal') = Charged(journal)
  <2>1. CASE e.kind = "ADMISSION"
    BY <2>1, DebitsMove DEF Charging
  <2>2. CASE e.kind # "ADMISSION"
    <3>1. e.kind \in Charging
      BY <2>2 DEF Charging
    <3>2. Charged(journal') = Charged(journal) \cup {d} /\ d \in Charged(journal)
      BY <1>1, <2>2, <3>1, DebitsMove
    <3>3. QED
      BY <3>2
  <2>3. QED
    BY <2>1, <2>2
<1>4. now < MaxElapsed => \A x \in OpenStarts' : \E y \in flights' : x = <<y.item, y.attempt>>
  <2> SUFFICES ASSUME now < MaxElapsed, NEW x \in OpenStarts'
               PROVE  \E y \in flights' : x = <<y.item, y.attempt>>
    OBVIOUS
  <2>1. x \in OpenStarts /\ x # <<f.item, f.attempt>>
    BY <1>1, <1>2
  <2>2. \E y \in flights \ {f} : x = <<y.item, y.attempt>>
    BY <2>1, OthersOpen
  <2>3. QED
    BY <2>2
<1>5. StartsHold'
  BY <1>3, <1>4 DEF CycleInv, StartsHold
<1>6. now \in Nat
  BY TimeAssumption DEF CycleInv, StatusInv
<1>7. e.kind \notin {"STARTED", "TRANSPORT", "INTERRUPTED"}
  BY DEF Outcomes
<1>8. DebitsHold' /\ RequestsPaced'
  BY <1>6, <1>7, HistoryKeeps DEF CycleInv
<1>9. QED
  BY <1>5, <1>8

\* The last attempt of an item has failed.
LEMMA ExhaustOK ==
  ASSUME CycleInv, NEW f \in flights, NEW e, Appends(e), e.item = f.item, e.attempt = f.attempt,
         e.kind \in {"RETRYABLE", "ADMISSION"}, f.attempt >= MaxAttempts,
         NEW g, g = [f EXCEPT !.st = "exhaust"], UNCHANGED scope
  PROVE  g.item = f.item /\ FlightOK(g)'
<1>1. f \in FlightSpace /\ f.item \in scope /\ f.attempt \in 1..MaxAttempts
  BY FlightType
<1>2. g \in FlightSpace /\ g.item = f.item /\ g.attempt = f.attempt /\ g.st = "exhaust"
  BY <1>1 DEF FlightSpace
<1>3. StateOf(f.item)' = e
  BY StateMoves DEF Markers
<1>4. f.attempt = MaxAttempts
  BY <1>1, BudgetAssumption
<1>5. QED
  BY <1>1, <1>2, <1>3, <1>4 DEF FlightOK

LEMMA CancelStep ==
  ASSUME CycleInv, Cancel
  PROVE  CycleInv'
<1>1. /\ phase = "loop" /\ pass' = FALSE
      /\ UNCHANGED <<torn, phase, scope, batch, pending, starts, nextStart, gate, now, requests>>
  BY DEF Cancel, Looping
<1>2. PICK f \in flights :
        \/ /\ f.st = "expired" /\ flights' = flights \ {f} /\ stop' = stop \cup {"elapsed"}
           /\ UNCHANGED <<journal, refused>>
        \/ /\ f.st = "failed" /\ Record(Entry(f.item, "ADMISSION", f.attempt, f.at + Interval))
           /\ flights' = (flights \ {f}) \cup
                  (IF f.attempt >= MaxAttempts THEN {[f EXCEPT !.st = "exhaust"]} ELSE {})
           /\ stop' = stop \cup Elapsed \cup {"clean"}
  BY DEF Cancel
<1>3. /\ FlightOK(f) /\ f \in FlightSpace /\ f.item \in scope /\ f.item \in Work /\ Known(f.item)
      /\ f.attempt \in 1..MaxAttempts /\ f.attempt \in 0..MaxAttempts
      /\ f.at \in 0..(MaxTime + MaxElapsed) /\ f.at \in Nat
  BY FlightType
<1>4. now \in Nat /\ stop' \subseteq Stops
  BY <1>2, TimeAssumption DEF CycleInv, StatusInv, Stops, Elapsed
<1>5. Cardinality(flights) \in Nat /\ Cardinality(Bodies) \in Nat
  BY FS_CardinalityType DEF CycleInv, BodiesHold, FlightsInv
<1>6. CASE f.st = "expired" /\ flights' = flights \ {f} /\ UNCHANGED <<journal, refused>>
  <2>1. \A i : (Known(i)' <=> Known(i)) /\ StateOf(i)' = StateOf(i)
    BY <1>6 DEF Known, StateOf
  <2>2. JournalOK(journal') /\ BatchInv' /\ GateInv' /\ StatusInv'
    BY <1>1, <1>4, <1>6, <2>1 DEF CycleInv, BatchInv, GateInv, StatusInv
  <2>3. ScopeInv' /\ PhaseInv' /\ PendingInv'
    BY <1>1, <1>6, <2>1 DEF CycleInv, ScopeInv, PhaseInv, PendingInv
  <2>4. \A i, n : RequestsOf(i, n)' = RequestsOf(i, n)
    BY <1>1 DEF RequestsOf
  <2>5. \A x \in flights \ {f} : FlightOK(x)'
    BY <1>1, <1>6, <2>4, FlightType, FlightUnmoved
  <2>6. FlightsInv' /\ Cardinality(flights') = Cardinality(flights) - 1
    BY <1>1, <1>6, <2>5, FlightGone DEF CycleInv
  <2>7. DebitsHold' /\ RequestsPaced'
    BY <1>1, <1>4, <1>6, HistoryStays DEF CycleInv
  <2>8. StartsHold'
    <3>1. now >= MaxElapsed
      BY <1>3, <1>6 DEF FlightOK
    <3>2. QED
      BY <1>1, <1>4, <1>6, <3>1, TimeAssumption DEF CycleInv, StartsHold
  <2>9. BodiesHold'
    BY <1>5, <1>6, <2>6, BudgetAssumption DEF CycleInv, BodiesHold, Bodies
  <2>10. QED
    BY <2>2, <2>3, <2>6, <2>7, <2>8, <2>9 DEF CycleInv
<1>7. CASE /\ f.st = "failed" /\ Record(Entry(f.item, "ADMISSION", f.attempt, f.at + Interval))
           /\ flights' = (flights \ {f}) \cup
                  (IF f.attempt >= MaxAttempts THEN {[f EXCEPT !.st = "exhaust"]} ELSE {})
  <2>1. /\ StateOf(f.item).kind = "STARTED" /\ StateOf(f.item).attempt = f.attempt
        /\ StateOf(f.item).floor = f.at + Interval
        /\ ~Marked(journal, f.item, f.attempt) /\ RequestsOf(f.item, f.attempt) = {}
    BY <1>3, <1>7 DEF FlightOK
  <2>2. PICK e : e = Entry(f.item, "ADMISSION", f.attempt, f.at + Interval)
    OBVIOUS
  <2>3. /\ e \in EntrySpace /\ e.item = f.item /\ e.kind = "ADMISSION" /\ e.attempt = f.attempt
        /\ e.floor = f.at + Interval /\ f.at + Interval \in Nat
    <3>1. "ADMISSION" \in Kinds
      BY DEF Kinds, Retries
    <3>2. f.at + Interval \in 0..Horizon /\ f.at + Interval \in Nat
      BY <1>3, TimeAssumption DEF Horizon
    <3>3. QED
      BY <1>3, <2>2, <3>1, <3>2, EntryIs
  <2>4. Closes(journal, e)
    BY <2>1, <2>3 DEF Closes, StateOf
  <2>5. Fits(e) /\ Accepts(journal, e)
    BY <1>3, <2>3, <2>4 DEF Fits, Accepts, Known
  <2>6. /\ Appends(e) /\ ~refused' /\ JournalOK(journal') /\ ScopeInv' /\ PhaseInv' /\ BatchInv' /\ GateInv'
        /\ \A x \in flights \ {f} : FlightOK(x)'
        /\ \A p \in pending : p.item # e.item
    BY <1>1, <1>7, <2>2, <2>3, <2>5, FlightAppends
  <2>7. PendingInv'
    BY <1>1, <2>6, PendingStays
  <2>8. FlightsInv' /\ Cardinality(flights') <= Cardinality(flights) /\ Cardinality(flights') \in Nat
    <3>1. CASE f.attempt >= MaxAttempts
      <4>1. PICK g : g = [f EXCEPT !.st = "exhaust"]
        OBVIOUS
      <4>2. g.item = f.item /\ FlightOK(g)'
        BY <1>1, <2>3, <2>6, <3>1, <4>1, ExhaustOK
      <4>3. flights' = (flights \ {f}) \cup {g}
        BY <1>7, <3>1, <4>1
      <4>4. QED
        BY <1>1, <1>5, <2>6, <4>2, <4>3, FlightReplaced DEF CycleInv
    <3>2. CASE ~(f.attempt >= MaxAttempts)
      <4>1. flights' = flights \ {f}
        BY <1>7, <3>2
      <4>2. FlightsInv' /\ Cardinality(flights') = Cardinality(flights) - 1 /\ Cardinality(flights') \in Nat
        BY <1>1, <2>6, <4>1, FlightGone DEF CycleInv
      <4>3. QED
        BY <1>5, <4>2
    <3>3. QED
      BY <3>1, <3>2
  <2>9. DebitsHold' /\ RequestsPaced' /\ StartsHold'
    <3>1. e.kind \in Outcomes \ {"INTERRUPTED"}
      BY <2>3 DEF Outcomes
    <3>2. QED
      BY <1>1, <1>7, <2>1, <2>3, <2>6, <3>1, OutcomeKeeps
  <2>10. BodiesHold'
    <3>1. Bodies' = Bodies
      BY <2>3, <2>6, StateMoves DEF Bodies
    <3>2. QED
      BY <1>5, <2>8, <3>1, BudgetAssumption DEF CycleInv, BodiesHold
  <2>11. StatusInv'
    BY <1>1, <1>4, <2>6 DEF CycleInv, StatusInv
  <2>12. QED
    BY <2>6, <2>7, <2>8, <2>9, <2>10, <2>11 DEF CycleInv
<1>8. QED
  BY <1>2, <1>6, <1>7

LEMMA SettleStep ==
  ASSUME CycleInv, Settle
  PROVE  CycleInv'
<1>1. /\ phase = "loop"
      /\ UNCHANGED <<torn, phase, scope, batch, starts, pass, nextStart, gate, now, requests>>
  BY DEF Settle
<1>2. PICK f \in flights, kind \in {"CAPTURED", "RETRYABLE", "CONTRACT", "AUTHORIZATION",
                                    "UNAVAILABLE", "EVIDENCE"} :
        /\ f.st = "marked"
        /\ Record(Entry(f.item, kind, f.attempt, IF kind = "RETRYABLE" THEN now ELSE 0))
        /\ flights' = (flights \ {f}) \cup
               (IF kind = "RETRYABLE" /\ f.attempt >= MaxAttempts
                THEN {[f EXCEPT !.st = "exhaust"]} ELSE {})
        /\ pending' = pending \cup
               (IF kind = "RETRYABLE" /\ f.attempt < MaxAttempts
                THEN {[item |-> f.item, attempt |-> f.attempt + 1, ready |-> now]} ELSE {})
        /\ stop' = stop \cup Elapsed \cup StopFor(kind)
  BY DEF Settle
<1>3. /\ FlightOK(f) /\ f \in FlightSpace /\ f.item \in scope /\ f.item \in Work /\ Known(f.item)
      /\ f.attempt \in 1..MaxAttempts /\ f.attempt \in 0..MaxAttempts
  BY FlightType
<1>4. now \in Nat /\ now \in 0..Horizon
  BY TimeAssumption DEF CycleInv, StatusInv, Horizon
<1>5. stop' \subseteq Stops
  BY <1>2 DEF CycleInv, StatusInv, Stops, Elapsed, StopFor
<1>6. Cardinality(flights) \in Nat /\ Cardinality(Bodies) \in Nat /\ IsFiniteSet(Bodies)
  BY FS_CardinalityType DEF CycleInv, BodiesHold, FlightsInv
<1>7. /\ StateOf(f.item).kind = "STARTED" /\ StateOf(f.item).attempt = f.attempt
      /\ Marked(journal, f.item, f.attempt)
  BY <1>2, <1>3 DEF FlightOK
<1>8. PICK e : e = Entry(f.item, kind, f.attempt, IF kind = "RETRYABLE" THEN now ELSE 0)
  OBVIOUS
<1>9. e \in EntrySpace /\ e.item = f.item /\ e.kind = kind /\ e.attempt = f.attempt
  <2>1. kind \in Kinds
    BY DEF Kinds, Retries, Terminal, Good
  <2>2. (IF kind = "RETRYABLE" THEN now ELSE 0) \in 0..Horizon
    BY <1>4, Zero
  <2>3. QED
    BY <1>3, <1>8, <2>1, <2>2, EntryIs
<1>10. Closes(journal, e)
  BY <1>7, <1>9 DEF Closes, StateOf
<1>11. Fits(e) /\ Accepts(journal, e)
  BY <1>3, <1>9, <1>10 DEF Fits, Accepts, Known
<1>12. /\ Appends(e) /\ ~refused' /\ JournalOK(journal') /\ ScopeInv' /\ PhaseInv' /\ BatchInv' /\ GateInv'
       /\ \A x \in flights \ {f} : FlightOK(x)'
       /\ \A p \in pending : p.item # e.item
  BY <1>1, <1>2, <1>8, <1>9, <1>11, FlightAppends
<1>13. StateOf(f.item)' = e
  BY <1>9, <1>12, StateMoves DEF Markers
<1>14. PendingInv'
  <2>1. CASE pending' = pending
    BY <1>1, <1>12, <2>1, PendingStays
  <2>2. CASE /\ kind = "RETRYABLE" /\ f.attempt < MaxAttempts
             /\ pending' = pending \cup {[item |-> f.item, attempt |-> f.attempt + 1, ready |-> now]}
    <3>1. PICK q : q = [item |-> f.item, attempt |-> f.attempt + 1, ready |-> now]
      OBVIOUS
    <3>2. /\ pending' = pending \cup {q} /\ q.item = f.item /\ q.attempt = f.attempt + 1 /\ q.ready = now
      BY <2>2, <3>1
    <3>3. f.attempt + 1 \in 1..MaxAttempts
      BY <1>3, <2>2, BudgetAssumption
    <3>4. /\ q.item \in scope' /\ q.attempt \in 1..MaxAttempts /\ q.ready \in Nat
          /\ Latest(journal', q.item).kind \in Retries \cup {"DISCOVERED"}
          /\ q.attempt = Latest(journal', q.item).attempt + 1
      BY <1>1, <1>3, <1>4, <1>9, <1>13, <2>2, <3>2, <3>3 DEF StateOf, Retries
    <3>5. ASSUME NEW p \in pending
          PROVE  /\ p.item # f.item /\ p.item \in scope' /\ p.attempt \in 1..MaxAttempts /\ p.ready \in Nat
                 /\ Latest(journal', p.item).kind \in Retries \cup {"DISCOVERED"}
                 /\ p.attempt = Latest(journal', p.item).attempt + 1
      <4>1. /\ p.item \in scope /\ p.attempt \in 1..MaxAttempts /\ p.ready \in Nat
            /\ StateOf(p.item).kind \in Retries \cup {"DISCOVERED"}
            /\ p.attempt = StateOf(p.item).attempt + 1 /\ Known(p.item)
        BY <1>1, Candidate DEF CycleInv, PendingInv
      <4>2. Latest(journal', p.item) = StateOf(p.item)
        BY <1>12, <4>1, StateMoves DEF StateOf
      <4>3. QED
        BY <1>1, <1>9, <1>12, <4>1, <4>2
    <3>6. \A p, r \in pending' : p.item = r.item => p = r
      BY <3>2, <3>5 DEF CycleInv, PendingInv
    <3>7. QED
      BY <1>1, <3>2, <3>4, <3>5, <3>6 DEF PendingInv, StateOf
  <2>3. QED
    BY <1>2, <2>1, <2>2
<1>15. /\ FlightsInv' /\ Cardinality(flights') \in Nat
       /\ \/ kind = "RETRYABLE" /\ Cardinality(flights') <= Cardinality(flights)
          \/ Cardinality(flights') = Cardinality(flights) - 1
  <2>1. CASE kind = "RETRYABLE" /\ f.attempt >= MaxAttempts
    <3>1. PICK g : g = [f EXCEPT !.st = "exhaust"]
      OBVIOUS
    <3>2. g.item = f.item /\ FlightOK(g)'
      BY <1>1, <1>9, <1>12, <2>1, <3>1, ExhaustOK
    <3>3. flights' = (flights \ {f}) \cup {g}
      BY <1>2, <2>1, <3>1
    <3>4. QED
      BY <1>1, <1>6, <1>12, <2>1, <3>2, <3>3, FlightReplaced DEF CycleInv
  <2>2. CASE ~(kind = "RETRYABLE" /\ f.attempt >= MaxAttempts)
    <3>1. flights' = flights \ {f}
      BY <1>2, <2>2
    <3>2. QED
      BY <1>1, <1>12, <3>1, FlightGone DEF CycleInv
  <2>3. QED
    BY <2>1, <2>2
<1>16. DebitsHold' /\ RequestsPaced' /\ StartsHold'
  <2>1. e.kind \in Outcomes \ {"INTERRUPTED"} /\ e.kind # "ADMISSION"
    BY <1>9 DEF Outcomes
  <2>2. QED
    BY <1>1, <1>2, <1>7, <1>9, <1>12, <2>1, OutcomeKeeps
<1>17. BodiesHold'
  <2>1. Entries(journal') = Entries(journal) \cup {e}
    BY <1>12, StateMoves
  <2>2. CASE kind = "CAPTURED"
    <3>1. Bodies' = Bodies \cup {e}
      BY <1>9, <2>1, <2>2 DEF Bodies
    <3>2. IsFiniteSet(Bodies') /\ Cardinality(Bodies') <= Cardinality(Bodies) + 1
      BY <1>6, <3>1, FS_AddElement
    <3>3. Cardinality(Bodies') \in Nat
      BY <3>2, FS_CardinalityType
    <3>4. QED
      BY <1>6, <1>15, <2>2, <3>2, <3>3, BudgetAssumption DEF CycleInv, BodiesHold
  <2>3. CASE kind # "CAPTURED"
    <3>1. Bodies' = Bodies
      BY <1>9, <2>1, <2>3 DEF Bodies
    <3>2. QED
      BY <1>6, <1>15, <3>1, BudgetAssumption DEF CycleInv, BodiesHold
  <2>4. QED
    BY <2>2, <2>3
<1>18. StatusInv'
  BY <1>1, <1>5, <1>12 DEF CycleInv, StatusInv
<1>19. QED
  BY <1>12, <1>14, <1>15, <1>16, <1>17, <1>18 DEF CycleInv

LEMMA LeaveStep ==
  ASSUME CycleInv, Leave
  PROVE  CycleInv'
<1>1. /\ phase = "loop" /\ phase' = "report" /\ flights = {}
      /\ UNCHANGED <<torn, scope, batch, pending, flights, starts, stop, pass, nextStart, gate, now, requests>>
  BY DEF Leave, Looping, memory
<1>2. now \in Nat
  BY TimeAssumption DEF CycleInv, StatusInv
<1>3. FlightsInv' /\ StartsHold' /\ GateInv'
  BY <1>1 DEF CycleInv, FlightsInv, StartsHold, GateInv
<1>4. CASE UNCHANGED <<journal, refused>>
  <2>1. \A i : (Known(i)' <=> Known(i)) /\ StateOf(i)' = StateOf(i)
    BY <1>4 DEF Known, StateOf
  <2>2. JournalOK(journal') /\ BatchInv' /\ StatusInv' /\ BodiesHold'
    BY <1>1, <1>4, <2>1 DEF CycleInv, BatchInv, StatusInv, BodiesHold, Bodies
  <2>3. ScopeInv' /\ PhaseInv' /\ PendingInv'
    BY <1>1, <1>4, <2>1 DEF CycleInv, ScopeInv, PhaseInv, PendingInv
  <2>4. DebitsHold' /\ RequestsPaced'
    BY <1>1, <1>2, <1>4, HistoryStays DEF CycleInv
  <2>5. QED
    BY <1>3, <2>2, <2>3, <2>4 DEF CycleInv
<1>5. CASE Record(Entry(journal[1].item, "ELAPSED", 0, 0))
  <2>1. PICK e : e = Entry(journal[1].item, "ELAPSED", 0, 0)
    OBVIOUS
  <2>2. Known(journal[1].item) /\ journal[1].item \in scope /\ journal[1].item \in Work
    BY <1>1, ScopeKnown
  <2>3. e \in EntrySpace /\ e.item = journal[1].item /\ e.kind = "ELAPSED" /\ e.attempt = 0
    <3>1. "ELAPSED" \in Kinds
      BY DEF Kinds, Markers
    <3>2. PICK i : i = journal[1].item
      OBVIOUS
    <3>3. i \in Work /\ e = Entry(i, "ELAPSED", 0, 0)
      BY <2>1, <2>2, <3>2
    <3>4. e \in EntrySpace /\ e.item = i /\ e.kind = "ELAPSED" /\ e.attempt = 0
      BY <3>1, <3>3, EntryIs, Zero
    <3>5. QED
      BY <3>2, <3>4
  <2>4. \A x \in Of(journal, e.item) : x.kind # "ELAPSED"
    BY <1>1 DEF CycleInv, PhaseInv, Has, Of
  <2>5. Fits(e) /\ Accepts(journal, e)
    BY <2>2, <2>3, <2>4 DEF Fits, Accepts, Known
  <2>6. Appends(e) /\ ~refused' /\ JournalOK(journal') /\ ScopeInv' /\ PhaseInv' /\ BatchInv'
    BY <1>1, <1>5, <2>1, <2>2, <2>3, <2>5, LoopKeeps
  <2>7. PendingInv'
    <3>1. e.kind \in Markers
      BY <2>3 DEF Markers
    <3>2. QED
      BY <1>1, <2>6, <3>1, PendingStays
  <2>8. DebitsHold' /\ RequestsPaced'
    BY <1>1, <1>2, <2>3, <2>6, HistoryKeeps DEF CycleInv
  <2>9. BodiesHold'
    <3>1. Bodies' = Bodies
      BY <2>3, <2>6, StateMoves DEF Bodies
    <3>2. QED
      BY <1>1, <3>1 DEF CycleInv, BodiesHold
  <2>10. StatusInv'
    BY <1>1, <2>6 DEF CycleInv, StatusInv
  <2>11. QED
    BY <1>3, <2>6, <2>7, <2>8, <2>9, <2>10 DEF CycleInv
<1>6. QED
  BY <1>4, <1>5 DEF Leave

\* A step that only looks at the clock or the request to stop.
LEMMA MemoryStep ==
  ASSUME CycleInv, phase = "loop", stop' \subseteq Stops, pass' \in BOOLEAN,
         UNCHANGED <<journal, torn, phase, scope, batch, pending, flights, starts, nextStart, gate, now,
                     requests, refused>>
  PROVE  CycleInv'
<1>1. \A i : (Known(i)' <=> Known(i)) /\ StateOf(i)' = StateOf(i)
  BY DEF Known, StateOf
<1>2. JournalOK(journal') /\ BatchInv' /\ StatusInv' /\ BodiesHold' /\ GateInv'
  BY <1>1 DEF CycleInv, BatchInv, StatusInv, BodiesHold, Bodies, GateInv
<1>3. ScopeInv' /\ PhaseInv' /\ PendingInv'
  BY <1>1 DEF CycleInv, ScopeInv, PhaseInv, PendingInv
<1>4. now \in Nat
  BY TimeAssumption DEF CycleInv, StatusInv
<1>5. DebitsHold' /\ RequestsPaced'
  BY <1>4, HistoryStays DEF CycleInv
<1>6. StartsHold'
  BY <1>1 DEF CycleInv, StartsHold, OpenStarts
<1>7. FlightsInv'
  <2>1. \A i, n : RequestsOf(i, n)' = RequestsOf(i, n)
    BY DEF RequestsOf
  <2>2. \A f \in flights : FlightOK(f)'
    BY <2>1, FlightType, FlightUnmoved
  <2>3. QED
    BY <2>2 DEF CycleInv, FlightsInv
<1>8. QED
  BY <1>2, <1>3, <1>5, <1>6, <1>7 DEF CycleInv

LEMMA RunOutStep ==
  ASSUME CycleInv, RunOut
  PROVE  CycleInv'
<1>1. /\ phase = "loop" /\ pass' = TRUE
      /\ UNCHANGED <<journal, torn, phase, scope, batch, pending, flights, starts, nextStart, gate, now,
                     requests, refused>>
  BY DEF RunOut, Looping
<1>2. stop' \subseteq Stops
  BY DEF RunOut, CycleInv, StatusInv, Stops
<1>3. QED
  BY <1>1, <1>2, MemoryStep

LEMMA InterruptStep ==
  ASSUME CycleInv, Interrupt
  PROVE  CycleInv'
<1>1. /\ phase = "loop" /\ pass' = FALSE /\ stop' = stop \cup {"clean"}
      /\ UNCHANGED <<journal, torn, phase, scope, batch, pending, flights, starts, nextStart, gate, now,
                     requests, refused>>
  BY DEF Interrupt, Looping
<1>2. stop' \subseteq Stops
  BY <1>1 DEF CycleInv, StatusInv, Stops
<1>3. QED
  BY <1>1, <1>2, MemoryStep

\* The process is gone, with all it kept in memory.
LEMMA EndStep ==
  ASSUME CycleInv, Report \/ Crash
  PROVE  CycleInv'
<1>1. /\ phase' \in {"down", "done"} /\ torn' \in BOOLEAN
      /\ batch' = <<>> /\ pending' = {} /\ flights' = {} /\ starts' = 0 /\ stop' = {} /\ pass' = FALSE
      /\ nextStart' = [h \in Hosts |-> 0] /\ gate' = [h \in Hosts |-> 0]
      /\ UNCHANGED <<journal, scope, now, requests, refused>>
  <2>1. torn \in BOOLEAN
    BY DEF CycleInv, StatusInv
  <2>2. CASE Report
    BY <2>1, <2>2 DEF Report
  <2>3. CASE Crash
    <3>1. torn' \in BOOLEAN
      <4>1. torn' = FALSE \/ torn' = ("tear" \in Faults)
        BY <2>3 DEF Crash
      <4>2. ("tear" \in Faults) \in BOOLEAN
        OBVIOUS
      <4>3. QED
        BY <4>1, <4>2
    <3>2. QED
      BY <2>3, <3>1 DEF Crash
  <2>4. QED
    BY <2>2, <2>3
<1>2. \A i : (Known(i)' <=> Known(i)) /\ StateOf(i)' = StateOf(i)
  BY <1>1 DEF Known, StateOf
<1>3. JournalOK(journal') /\ BatchInv' /\ PendingInv'
  BY <1>1 DEF CycleInv, BatchInv, PendingInv
<1>11. StatusInv'
  BY <1>1 DEF CycleInv, StatusInv
<1>4. ScopeInv' /\ PhaseInv'
  BY <1>1, <1>2 DEF CycleInv, ScopeInv, PhaseInv
<1>5. now \in Nat
  BY TimeAssumption DEF CycleInv, StatusInv
<1>6. DebitsHold' /\ RequestsPaced'
  BY <1>1, <1>5, HistoryStays DEF CycleInv
<1>7. StartsHold' /\ GateInv'
  BY <1>1, BudgetAssumption DEF StartsHold, GateInv
<1>8. FlightsInv'
  BY <1>1, FS_EmptySet DEF FlightsInv
<1>9. BodiesHold'
  <2>1. Cardinality(flights) \in Nat /\ Cardinality(Bodies) \in Nat
    BY FS_CardinalityType DEF CycleInv, BodiesHold, FlightsInv
  <2>2. Bodies' = Bodies /\ Cardinality(flights') = 0
    BY <1>1, FS_EmptySet DEF Bodies
  <2>3. QED
    BY <2>1, <2>2, BudgetAssumption DEF CycleInv, BodiesHold
<1>10. QED
  BY <1>3, <1>4, <1>6, <1>7, <1>8, <1>9, <1>11 DEF CycleInv

LEMMA TickStep ==
  ASSUME CycleInv, Tick
  PROVE  CycleInv'
<1>1. /\ now < MaxTime /\ now' = now + 1
      /\ UNCHANGED <<journal, torn, phase, scope, batch, pending, flights, starts, stop, pass, nextStart,
                     gate, requests, refused>>
  BY DEF Tick, memory
<1>2. now \in Nat /\ now' \in Nat /\ now <= now' /\ now' \in 0..MaxTime
  BY <1>1, TimeAssumption DEF CycleInv, StatusInv
<1>3. \A i : (Known(i)' <=> Known(i)) /\ StateOf(i)' = StateOf(i)
  BY <1>1 DEF Known, StateOf
<1>4. JournalOK(journal') /\ BatchInv' /\ StatusInv' /\ BodiesHold' /\ GateInv'
  BY <1>1, <1>2, <1>3 DEF CycleInv, BatchInv, StatusInv, BodiesHold, Bodies, GateInv
<1>5. ScopeInv' /\ PhaseInv' /\ PendingInv'
  BY <1>1, <1>3 DEF CycleInv, ScopeInv, PhaseInv, PendingInv
<1>6. DebitsHold' /\ RequestsPaced'
  BY <1>1, <1>2, HistoryStays DEF CycleInv
<1>7. StartsHold'
  <2>1. now' < MaxElapsed => now < MaxElapsed
    BY <1>1, <1>2, TimeAssumption
  <2>2. QED
    BY <1>1, <1>3, <2>1 DEF CycleInv, StartsHold, OpenStarts
<1>8. FlightsInv'
  <2>1. ASSUME NEW f \in flights PROVE FlightOK(f)'
    <3>1. FlightOK(f) /\ f.at \in Nat
      BY FlightType
    <3>2. RequestsOf(f.item, f.attempt)' = RequestsOf(f.item, f.attempt)
      BY <1>1 DEF RequestsOf
    <3>3. (f.at <= now => f.at <= now') /\ (now >= MaxElapsed => now' >= MaxElapsed)
      BY <1>1, <1>2, <3>1, TimeAssumption
    <3>4. QED
      BY <1>1, <1>3, <3>1, <3>2, <3>3 DEF FlightOK
  <2>2. QED
    BY <1>1, <2>1 DEF CycleInv, FlightsInv
<1>9. QED
  BY <1>4, <1>5, <1>6, <1>7, <1>8 DEF CycleInv

\* A step that changes nothing.
LEMMA StutterStep ==
  ASSUME CycleInv, UNCHANGED vars
  PROVE  CycleInv'
<1>1. UNCHANGED <<journal, torn, phase, scope, batch, pending, flights, starts, stop, pass, nextStart,
                  gate, now, requests, refused>>
  BY DEF vars
<1>2. \A i : (Known(i)' <=> Known(i)) /\ StateOf(i)' = StateOf(i)
  BY <1>1 DEF Known, StateOf
<1>3. JournalOK(journal') /\ BatchInv' /\ StatusInv' /\ BodiesHold' /\ GateInv'
  BY <1>1, <1>2 DEF CycleInv, BatchInv, StatusInv, BodiesHold, Bodies, GateInv
<1>4. ScopeInv' /\ PhaseInv' /\ PendingInv'
  BY <1>1, <1>2 DEF CycleInv, ScopeInv, PhaseInv, PendingInv
<1>5. now \in Nat
  BY TimeAssumption DEF CycleInv, StatusInv
<1>6. DebitsHold' /\ RequestsPaced'
  BY <1>1, <1>5, HistoryStays DEF CycleInv
<1>7. StartsHold'
  BY <1>1, <1>2 DEF CycleInv, StartsHold, OpenStarts
<1>8. FlightsInv'
  <2>1. \A i, n : RequestsOf(i, n)' = RequestsOf(i, n)
    BY <1>1 DEF RequestsOf
  <2>2. \A f \in flights : FlightOK(f)'
    BY <1>1, <2>1, FlightType, FlightUnmoved
  <2>3. QED
    BY <1>1, <2>2 DEF CycleInv, FlightsInv
<1>9. QED
  BY <1>3, <1>4, <1>6, <1>7, <1>8 DEF CycleInv

LEMMA InitStep ==
  ASSUME Init
  PROVE  CycleInv
<1>1. /\ journal = <<>> /\ torn = FALSE /\ phase = "down" /\ scope = Items
      /\ batch = <<>> /\ pending = {} /\ flights = {} /\ starts = 0 /\ stop = {} /\ pass = FALSE
      /\ nextStart = [h \in Hosts |-> 0] /\ gate = [h \in Hosts |-> 0]
      /\ now = 0 /\ requests = {} /\ refused = FALSE
  BY DEF Init
<1>2. Entries(journal) = {} /\ journal \in Seq(EntrySpace)
  BY <1>1 DEF Entries
<1>3. \A i : ~Known(i)
  BY <1>2 DEF Known, Discovered, Of
<1>4. JournalOK(journal)
  BY <1>2, <1>3 DEF JournalOK, Known, Has
<1>5. ScopeInv /\ PhaseInv
  BY <1>1, <1>3 DEF ScopeInv, PhaseInv, Work
<1>6. BatchInv /\ PendingInv /\ GateInv /\ FlightsInv
  BY <1>1, FS_EmptySet DEF BatchInv, PendingInv, GateInv, FlightsInv
<1>7. StatusInv /\ StartsHold /\ RequestsPaced
  <2>1. 0 \in 0..MaxTime /\ 0 \in 0..MaxStarts
    BY BudgetAssumption, TimeAssumption
  <2>2. StatusInv
    BY <1>1, <2>1 DEF StatusInv
  <2>3. StartsHold
    BY <1>1, <2>1 DEF StartsHold
  <2>4. RequestsPaced
    BY <1>1 DEF RequestsPaced, HostsArePaced
  <2>5. QED
    BY <2>2, <2>3, <2>4
<1>8. DebitsHold
  <2>1. Debits = {}
    BY <1>2, <1>3 DEF Debits, Charged, OpenStarts
  <2>2. QED
    BY <1>1, <2>1, FS_EmptySet, BudgetAssumption DEF DebitsHold
<1>9. BodiesHold
  <2>1. Bodies = {}
    BY <1>2 DEF Bodies
  <2>2. QED
    BY <1>1, <2>1, FS_EmptySet, BudgetAssumption DEF BodiesHold
<1>10. QED
  BY <1>4, <1>5, <1>6, <1>7, <1>8, <1>9 DEF CycleInv

LEMMA NextStep ==
  ASSUME CycleInv, [Next]_vars
  PROVE  CycleInv'
<1>1. CASE Opening
  BY <1>1, OpenStep, AccountStep, DiscoverStep, BindStep, ImportStep, JudgeStep, OrphansStep,
     ExhaustedStep, EnterStep DEF Opening
<1>2. CASE Loop
  BY <1>2, DispatchStep, RunOutStep, RequestStep, MarkStep, SettleStep, CancelStep, ExhaustStep,
     LeaveStep DEF Loop
<1>3. CASE Interrupt
  BY <1>3, InterruptStep
<1>4. CASE Report \/ Crash
  BY <1>4, EndStep
<1>5. CASE Tick
  BY <1>5, TickStep
<1>6. CASE UNCHANGED vars
  BY <1>6, StutterStep
<1>7. QED
  BY <1>1, <1>2, <1>3, <1>4, <1>5, <1>6 DEF Next

-----------------------------------------------------------------------------
(* The theorems. *)

\* The inductive invariant holds in every state of every cycle.
THEOREM CycleSafe == Spec => []CycleInv
<1>1. Init => CycleInv
  BY InitStep
<1>2. CycleInv /\ [Next]_vars => CycleInv'
  BY NextStep
<1>3. QED
  BY <1>1, <1>2, PTL DEF Spec

\* What it says of the types.
LEMMA TypesFollow ==
  ASSUME CycleInv
  PROVE  TypeOK
<1>1. \A e \in Entries(journal) : e.item \in Work /\ e.kind \in Kinds /\ e.attempt \in 0..MaxAttempts
  BY EntryType DEF CycleInv, EntrySpace
<1>2. \A p \in pending : p.item \in scope /\ p.attempt \in 1..MaxAttempts
  BY DEF CycleInv, PendingInv
<1>3. ASSUME NEW f \in flights
      PROVE  /\ f.item \in scope /\ f.attempt \in 1..MaxAttempts
             /\ f.st \in {"waits", "made", "marked", "expired", "failed", "exhaust"}
  BY FlightType DEF FlightSpace
<1>4. QED
  BY <1>1, <1>2, <1>3 DEF TypeOK, CycleInv, StartsHold, StatusInv, Stops

\* The journal, the queue, the flights and the budget keep their types through
\* every step of run() and every death.
THEOREM CycleTypes == Spec => []TypeOK
<1>1. CycleInv => TypeOK
  BY TypesFollow
<1>2. QED
  BY <1>1, CycleSafe, PTL

\* The journal refuses no append of the runner: whatever a death left behind,
\* the resumed run writes only what _apply_transition allows.
THEOREM AppendsLegal == Spec => []AppendsAreLegal
<1>1. CycleInv => AppendsAreLegal
  BY DEF CycleInv, StatusInv, AppendsAreLegal
<1>2. QED
  BY <1>1, CycleSafe, PTL

\* No two requests share a debit.
LEMMA BudgetFollows ==
  ASSUME CycleInv
  PROVE  BudgetHolds
<1>1. Cardinality(requests) <= MaxStarts
  <2> DEFINE m == [r \in requests |-> <<r.item, r.attempt>>]
  <2>1. m \in [requests -> Debits]
    BY DEF CycleInv, DebitsHold
  <2>2. \A q, r \in requests : m[q] = m[r] => q = r
    BY DEF CycleInv, DebitsHold
  <2> HIDE DEF m
  <2>3. m \in Injection(requests, Debits)
    BY <2>1, <2>2 DEF Injection, IsInjective
  <2>4. IsFiniteSet(Debits) /\ Cardinality(Debits) <= MaxStarts
    BY DEF CycleInv, DebitsHold
  <2>5. IsFiniteSet(requests) /\ Cardinality(requests) <= Cardinality(Debits)
    BY <2>3, <2>4, FS_Injection
  <2>6. Cardinality(requests) \in Nat /\ Cardinality(Debits) \in Nat
    BY <2>4, <2>5, FS_CardinalityType
  <2>7. QED
    BY <2>4, <2>5, <2>6, BudgetAssumption
<1>2. Cardinality(Bodies) <= MaxRetained
  <2>1. Cardinality(flights) \in Nat /\ Cardinality(Bodies) \in Nat
    BY FS_CardinalityType DEF CycleInv, BodiesHold, FlightsInv
  <2>2. QED
    BY <2>1, BudgetAssumption DEF CycleInv, BodiesHold
<1>3. QED
  BY <1>1, <1>2 DEF BudgetHolds, Bodies

\* Over all the runs of a cycle no more requests are made than maximum_starts
\* allows, and no more bodies retained than there is room for.
THEOREM BudgetsHold == Spec => []BudgetHolds
<1>1. CycleInv => BudgetHolds
  BY BudgetFollows
<1>2. QED
  BY <1>1, CycleSafe, PTL

\* The requests to one host are the minimum interval apart, whichever process
\* made them and whether or not it lived to write their markers.
THEOREM HostsPaced == Spec => []HostsArePaced
<1>1. CycleInv => HostsArePaced
  BY DEF CycleInv, RequestsPaced
<1>2. QED
  BY <1>1, CycleSafe, PTL

\* A worker makes no request for retained evidence and no attempt twice.
LEMMA RequestIsNew ==
  ASSUME CycleInv, [Next]_vars, NEW r \in requests' \ requests
  PROVE  /\ r.item \notin Captured(journal)
         /\ \A q \in requests : q.item = r.item => q.attempt < r.attempt
<1>1. Request
  <2> SUFFICES ASSUME ~Request PROVE UNCHANGED requests
    OBVIOUS
  <2>1. CASE Opening
    BY <2>1 DEF Opening, Open, Account, Discover, Bind, Import, Judge, Orphans, Exhausted, Enter, ForEach
  <2>2. CASE Loop
    BY <2>2 DEF Loop, Dispatch, RunOut, Mark, Settle, Cancel, Exhaust, Leave
  <2>3. CASE Interrupt \/ Report \/ Crash \/ Tick
    BY <2>3 DEF Interrupt, Report, Crash, Tick
  <2>4. CASE UNCHANGED vars
    BY <2>4 DEF vars
  <2>5. QED
    BY <2>1, <2>2, <2>3, <2>4 DEF Next
<1>2. PICK f \in flights :
        f.st = "waits" /\ r = [item |-> f.item, attempt |-> f.attempt, at |-> now]
  BY <1>1 DEF Request
<1>3. r.item = f.item /\ r.attempt = f.attempt
  BY <1>2
<1>4. /\ StateOf(f.item).kind = "STARTED" /\ StateOf(f.item).attempt = f.attempt
      /\ RequestsOf(f.item, f.attempt) = {} /\ f.attempt \in Nat
  BY <1>2, FlightType, BudgetAssumption DEF FlightOK
<1>5. r.item \notin Captured(journal)
  BY <1>3, <1>4 DEF Captured, StateOf, Good
<1>6. ASSUME NEW q \in requests, q.item = r.item PROVE q.attempt < r.attempt
  <2>1. q.attempt <= f.attempt
    BY <1>3, <1>4, <1>6, RequestsAreOld DEF CycleInv
  <2>2. q.attempt # f.attempt
    BY <1>3, <1>4, <1>6 DEF RequestsOf
  <2>3. q.attempt \in Nat
    BY BudgetAssumption DEF CycleInv, RequestsPaced, RequestSpace
  <2>4. QED
    BY <1>3, <1>4, <2>1, <2>2, <2>3
<1>7. QED
  BY <1>5, <1>6

\* No request is repeated: not for an item whose evidence is retained, and not
\* for an attempt that an earlier run of the cycle made.
THEOREM NothingRepeated == Spec => NothingIsRepeated
<1> DEFINE New == \A r \in requests' \ requests :
                    /\ r.item \notin Captured(journal)
                    /\ \A q \in requests : q.item = r.item => q.attempt < r.attempt
<1>1. CycleInv /\ [Next]_vars => [New]_vars
  BY RequestIsNew
<1>2. QED
  BY <1>1, CycleSafe, PTL DEF Spec, NothingIsRepeated
=============================================================================
