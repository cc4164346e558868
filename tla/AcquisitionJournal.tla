------------------------- MODULE AcquisitionJournal -------------------------
(***************************************************************************)
(* The journal of one acquisition cycle (apps/acquisition-worker           *)
(* acquisition_journal.py): a hash-chained sequence of entries, each about *)
(* one work item, and the lifecycle that every append and every replay     *)
(* checks (_replay_states, _apply_transition).                             *)
(*                                                                         *)
(* An entry is [item, kind, attempt, floor].  Its floor is the instant the *)
(* payload carries, host_not_before of a start or retry_not_before of a    *)
(* failure, and 0 where there is none.  INTERRUPTED is a retryable failure *)
(* with the code WORKER_INTERRUPTED, and EVIDENCE a terminal one with the  *)
(* code EVIDENCE_INTEGRITY_FAILURE.                                        *)
(***************************************************************************)
EXTENDS Naturals, Sequences

Entry(i, kind, n, floor) == [item |-> i, kind |-> kind, attempt |-> n, floor |-> floor]
Entries(log) == {log[k] : k \in DOMAIN log}
Has(log, kind) == \E e \in Entries(log) : e.kind = kind
Of(log, i) == {e \in Entries(log) : e.item = i}

\* Entries that mark a fact beside the state of their item (_latest_entries).
Markers == {"PROFILE", "TRANSPORT", "ELAPSED"}
Retries == {"RETRYABLE", "INTERRUPTED", "ADMISSION"}
Good == {"CAPTURED", "IMPORTED", "EXCLUDED"}
Terminal == Good \cup {"CONTRACT", "AUTHORIZATION", "UNAVAILABLE", "EVIDENCE", "EXHAUSTED"}
Kinds == Markers \cup Retries \cup Terminal \cup {"DISCOVERED", "STARTED"}

Discovered(log, i) == Of(log, i) # {}

\* The last entry that gave item i a state.
Latest(log, i) ==
    log[CHOOSE k \in DOMAIN log :
        /\ log[k].item = i /\ log[k].kind \notin Markers
        /\ \A j \in DOMAIN log : j > k => log[j].item # i \/ log[j].kind \in Markers]

Marked(log, i, n) == \E e \in Of(log, i) : e.kind = "TRANSPORT" /\ e.attempt = n

\* An outcome closes the attempt that was started.  Without the marker of a
\* physical start only an interruption, or an admission that failed before it,
\* may, and neither may allow a retry before the host is free.
Closes(log, e) ==
    LET last == Latest(log, e.item) IN
    /\ last.kind = "STARTED"
    /\ last.attempt = e.attempt
    /\ CASE e.kind = "INTERRUPTED" -> Marked(log, e.item, e.attempt) \/ e.floor >= last.floor
         [] e.kind = "ADMISSION" -> ~Marked(log, e.item, e.attempt) /\ e.floor >= last.floor
         [] OTHER -> Marked(log, e.item, e.attempt)

\* What the lifecycle allows after a log.
Accepts(log, e) ==
    LET last == Latest(log, e.item) IN
    CASE e.kind = "DISCOVERED" -> ~Discovered(log, e.item)
      [] e.kind = "PROFILE" -> /\ Discovered(log, e.item)
                               /\ ~Has(log, "PROFILE") /\ ~Has(log, "STARTED")
      [] e.kind = "ELAPSED" -> /\ Discovered(log, e.item)
                               /\ \A f \in Of(log, e.item) : f.kind # "ELAPSED"
      [] e.kind = "TRANSPORT" -> /\ Discovered(log, e.item)
                                 /\ last.kind = "STARTED" /\ last.attempt = e.attempt
                                 /\ ~Marked(log, e.item, e.attempt)
      [] e.kind = "IMPORTED" -> /\ Discovered(log, e.item) /\ Has(log, "PROFILE")
                                /\ last.kind = "DISCOVERED"
      [] e.kind = "EXCLUDED" -> Discovered(log, e.item) /\ last.kind = "DISCOVERED"
      [] e.kind = "STARTED" -> /\ Discovered(log, e.item) /\ Has(log, "PROFILE")
                               /\ last.kind \in Retries \cup {"DISCOVERED"}
                               /\ e.attempt = last.attempt + 1
      [] e.kind = "EXHAUSTED" -> /\ Discovered(log, e.item)
                                 /\ last.kind \in Retries /\ last.attempt = e.attempt
                                 /\ \/ Marked(log, e.item, e.attempt)
                                    \/ last.kind \in {"INTERRUPTED", "ADMISSION"}
      [] OTHER -> Discovered(log, e.item) /\ Closes(log, e)

\* Mutant of Charged: only a start whose marker was written is charged.
ChargedMarked(log) ==
    {<<e.item, e.attempt>> : e \in {f \in Entries(log) :
        f.kind = "STARTED" /\ Marked(log, f.item, f.attempt)}}

\* _budget_state: the starts that a resumed cycle counts against its budget,
\* those with a physical marker and those closed by an outcome.
Charged(log) ==
    {<<e.item, e.attempt>> : e \in {f \in Entries(log) :
        /\ f.kind = "STARTED"
        /\ \/ Marked(log, f.item, f.attempt)
           \/ \E g \in Of(log, f.item) :
                /\ g.attempt = f.attempt
                /\ g.kind \in {"CAPTURED", "RETRYABLE", "INTERRUPTED", "CONTRACT",
                               "AUTHORIZATION", "UNAVAILABLE", "EVIDENCE"}}}

\* Mutant of StopsOf: an elapsed budget is forgotten.
StopsOfOutcomes(log) ==
    {s \in {"contract", "authorization", "evidence"} :
        \/ s = "contract" /\ Has(log, "CONTRACT")
        \/ s = "authorization" /\ Has(log, "AUTHORIZATION")
        \/ s = "evidence" /\ Has(log, "EVIDENCE")}

\* _stop_from_entries: what an earlier run of the cycle found that ends it.
StopsOf(log) ==
    {s \in {"contract", "authorization", "elapsed", "evidence"} :
        \/ s = "contract" /\ Has(log, "CONTRACT")
        \/ s = "authorization" /\ Has(log, "AUTHORIZATION")
        \/ s = "elapsed" /\ Has(log, "ELAPSED")
        \/ s = "evidence" /\ Has(log, "EVIDENCE")}
=============================================================================
