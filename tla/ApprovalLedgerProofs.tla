------------------------ MODULE ApprovalLedgerProofs ------------------------
(***************************************************************************)
(* Proofs about ApprovalLedger, for any set of proposals and review        *)
(* processes and any number of deaths and failed writes.                   *)
(*                                                                         *)
(* The safety of the shared file rests on one comparison: a process writes *)
(* only over the file it remembers.  So each write is made from the        *)
(* current ledger, and moves the entry of one proposal forward (Moves).    *)
(* What a process has in memory may be behind, but never ahead.            *)
(***************************************************************************)
EXTENDS ApprovalLedger, TLAPS

\* What a process remembers is what it has in memory, and its approvals are in
\* the file.
MemoryIsBehind ==
    \A r \in Reviewers : mem[r] = loaded[r] /\ Approvals(mem[r]) \subseteq Approvals(file)

\* An approval under way is undecided in memory until the ledger is replaced,
\* which comes after its archive, and in the ledger from then on.
CallsAreBacked ==
    \A r \in Reviewers :
        /\ doing[r].step \in {"archive", "persist"} => mem[r][doing[r].p].state = "NONE"
        /\ doing[r].step = "persist" => doing[r].p \in archive
        /\ doing[r].step = "trigger" => doing[r].p \in Approvals(file)

\* A process that is down has no call under way.
DownRests == \A r \in Reviewers : up[r] = "down" => doing[r] = Nothing

LedgerInv ==
    /\ TypeOK
    /\ DownRests
    /\ MemoryIsBehind
    /\ CallsAreBacked
    /\ AcknowledgedIsKept
    /\ TriggerIsBacked
    /\ AnsweredIsTriggered

\* How the entry of a proposal may change in one step.
Moves(p) ==
    \/ file'[p] = file[p]
    \/ /\ file'[p].lineage = file[p].lineage
       /\ \/ file[p].state = "NONE" /\ file'[p].state \in {"REJECTED", "APPROVED"}
          \/ file[p].state \in {"APPROVED", "CONSUMED"} /\ file'[p].state = "REVOKED"
    \/ file[p].state = "APPROVED" /\ file'[p].state = "CONSUMED" /\ file'[p].lineage

\* The fields of an entry after one of them is replaced.
LEMMA EntryReplaced ==
    ASSUME NEW l \in Ledgers, NEW p \in Proposals,
           NEW s \in {"REJECTED", "APPROVED", "CONSUMED", "REVOKED"}
    PROVE  LET n == [l EXCEPT ![p].state = s]
           IN  /\ n \in Ledgers
               /\ n[p].state = s /\ n[p].lineage = l[p].lineage
               /\ \A q \in Proposals : q # p => n[q] = l[q]
BY DEF Ledgers, Entries

\* _retain_approved_package takes no archive away, and adds only that of its
\* own proposal, right or wrong.
LEMMA Retained ==
    ASSUME NEW p \in Proposals, Retain(p)
    PROVE  /\ archive \subseteq archive' /\ archive' \subseteq archive \cup {p}
           /\ spoiled' \subseteq spoiled \cup {p}
BY DEF Retain

\* No step takes an archive away.
LEMMA ArchiveGrows ==
    ASSUME TypeOK, [Next]_vars
    PROVE  archive \subseteq archive'
<1>1. ASSUME NEW r \in Reviewers, Archive(r) PROVE archive \subseteq archive'
    BY <1>1, Retained DEF Archive, TypeOK
<1>2. ASSUME NEW r \in Reviewers, NEW p \in Proposals, Repeat(r, p) PROVE archive \subseteq archive'
    BY <1>2, Retained DEF Repeat
<1>3. ASSUME NEW r \in Reviewers, Repair(r) PROVE archive \subseteq archive'
    BY <1>3, Retained DEF Repair, Approvals
<1> QED
    BY <1>1, <1>2, <1>3
       DEF Next, vars, packages, Reject, Approve, Persist, Trigger, Revoke, Adopt, Start, Halt,
           Publish, Consume

\* The initial state satisfies the invariant.
LEMMA InitLedger == Init => LedgerInv
<1> SUFFICES ASSUME Init PROVE LedgerInv
    OBVIOUS
<1>1. Blank \in Ledgers
    BY DEF Blank, Ledgers, Entries
<1>2. Nothing \in [step : {"rest", "archive", "persist", "trigger"}, p : Proposals]
    BY ProposalsAssumption DEF Nothing
<1>3. TypeOK
    BY <1>1, <1>2, BoundsAssumption DEF Init, TypeOK, Packages
<1>4. Approvals(Blank) = {}
    BY DEF Approvals, Blank
<1>5. MemoryIsBehind /\ TriggerIsBacked
    BY <1>4 DEF Init, MemoryIsBehind, TriggerIsBacked
<1>6. CallsAreBacked /\ DownRests
    BY DEF Init, CallsAreBacked, DownRests, Nothing
<1>7. AcknowledgedIsKept /\ AnsweredIsTriggered
    BY DEF Init, AcknowledgedIsKept, AnsweredIsTriggered
<1> QED
    BY <1>3, <1>5, <1>6, <1>7 DEF LedgerInv

\* Every step keeps the types.
LEMMA TypeStep ==
    ASSUME LedgerInv, [Next]_vars
    PROVE  TypeOK'
<1> USE DEF LedgerInv
<1>1. ASSUME NEW r \in Reviewers, NEW p \in Proposals, Reject(r, p) PROVE TypeOK'
    <2>1. file' \in Ledgers
        BY <1>1, EntryReplaced DEF Reject, TypeOK
    <2> QED
        BY <1>1, <2>1 DEF Reject, TypeOK, Tell, packages
<1>2. ASSUME NEW r \in Reviewers, NEW p \in Proposals, Approve(r, p) PROVE TypeOK'
    BY <1>2 DEF Approve, TypeOK, Goto, packages
<1>3. ASSUME NEW r \in Reviewers, Persist(r) PROVE TypeOK'
    <2>1. doing[r].p \in Proposals
        BY DEF TypeOK
    <2>2. CASE Unchanged(r)
        <3>1. /\ file' = [mem[r] EXCEPT ![doing[r].p].state = "APPROVED"]
              /\ mem' = [mem EXCEPT ![r] = file']
              /\ loaded' = [loaded EXCEPT ![r] = file']
              /\ doing' = [doing EXCEPT ![r] = [step |-> "trigger", p |-> doing[r].p]]
              /\ UNCHANGED <<current, archive, spoiled, trigger, up, held, told, stops, faults>>
            BY <1>3, <2>2 DEF Persist, Goto, packages
        <3>2. mem[r] \in Ledgers
            BY DEF TypeOK
        <3>3. file' \in Ledgers
            BY <2>1, <3>1, <3>2, EntryReplaced
        <3> QED
            BY <2>1, <3>1, <3>3 DEF TypeOK
    <2>3. CASE ~Unchanged(r)
        BY <1>3, <2>3, ProposalsAssumption DEF Persist, TypeOK, Rest, Nothing, packages
    <2> QED BY <2>2, <2>3
<1>4. ASSUME NEW r \in Reviewers, Trigger(r) PROVE TypeOK'
    <2>1. doing[r].p \in Proposals
        BY DEF TypeOK
    <2>2. faults' \in 0..MaxFaults
        BY <1>4, BoundsAssumption DEF Trigger, TypeOK
    <2>3. told' \in [Proposals -> SUBSET {"REJECTED", "APPROVED", "CONSUMED", "REVOKED"}]
        BY <1>4, <2>1 DEF Trigger, TypeOK, Tell
    <2>4. doing' \in [Reviewers -> [step : {"rest", "archive", "persist", "trigger"}, p : Proposals]]
        BY <1>4, ProposalsAssumption DEF Trigger, TypeOK, Rest, Nothing
    <2> QED
        BY <1>4, <2>1, <2>2, <2>3, <2>4 DEF Trigger, TypeOK, packages
<1>5. ASSUME NEW r \in Reviewers, NEW p \in Proposals, Repeat(r, p) PROVE TypeOK'
    BY <1>5, Retained DEF Repeat, TypeOK, Tell, process
<1>6. ASSUME NEW r \in Reviewers, NEW p \in Proposals, Revoke(r, p) PROVE TypeOK'
    <2>1. file' \in Ledgers
        BY <1>6, EntryReplaced DEF Revoke, TypeOK
    <2> QED
        BY <1>6, <2>1 DEF Revoke, TypeOK, Tell, packages
<1>7. ASSUME NEW r \in Reviewers, Start(r) PROVE TypeOK'
    BY <1>7 DEF Start, TypeOK, packages
<1>8. ASSUME NEW r \in Reviewers, Repair(r) PROVE TypeOK'
    <2>1. archive' \subseteq Proposals /\ spoiled' \subseteq Proposals /\ trigger' \subseteq Proposals
        BY <1>8, Retained DEF Repair, TypeOK, Approvals
    <2> QED
        BY <1>8, <2>1 DEF Repair, TypeOK
<1>9. ASSUME NEW r \in Reviewers, Halt(r) PROVE TypeOK'
    BY <1>9, ProposalsAssumption, BoundsAssumption
       DEF Halt, TypeOK, Rest, Nothing, packages, Packages
<1>10. ASSUME NEW p \in Proposals, Consume(p) PROVE TypeOK'
    <2>1. file' \in Ledgers
        BY <1>10 DEF Consume, TypeOK, Ledgers, Entries
    <2> QED
        BY <1>10, <2>1 DEF Consume, TypeOK, Tell, process, packages
<1>11. ASSUME UNCHANGED vars PROVE TypeOK'
    BY <1>11 DEF vars, TypeOK
<1>12. ASSUME NEW r \in Reviewers, Archive(r) PROVE TypeOK'
    <2>1. doing[r].p \in Proposals
        BY DEF TypeOK
    <2>2. archive' \subseteq Proposals /\ spoiled' \subseteq Proposals
        BY <1>12, <2>1, Retained DEF Archive, TypeOK
    <2>3. doing' \in [Reviewers -> [step : {"rest", "archive", "persist", "trigger"}, p : Proposals]]
        BY <1>12, <2>1, ProposalsAssumption DEF Archive, TypeOK, Rest, Goto, Nothing
    <2> QED
        BY <1>12, <2>2, <2>3 DEF Archive, TypeOK
<1>13. ASSUME NEW r \in Reviewers, Adopt(r) PROVE TypeOK'
    BY <1>13 DEF Adopt, TypeOK, packages
<1>14. ASSUME NEW p \in Proposals, Publish(p) PROVE TypeOK'
    BY <1>14 DEF Publish, TypeOK, process, Packages
<1> QED
    BY <1>1, <1>2, <1>3, <1>4, <1>5, <1>6, <1>7, <1>8, <1>9, <1>10, <1>11, <1>12, <1>13, <1>14
       DEF Next

\* A write replaces one entry of the current ledger.
LEMMA Writes ==
    ASSUME LedgerInv, NEW r \in Reviewers, NEW p \in Proposals,
           NEW s \in {"REJECTED", "APPROVED", "CONSUMED", "REVOKED"},
           Unchanged(r), file' = [mem[r] EXCEPT ![p].state = s],
           \/ file[p].state = "NONE" /\ s \in {"REJECTED", "APPROVED"}
           \/ file[p].state \in {"APPROVED", "CONSUMED"} /\ s = "REVOKED"
    PROVE  \A q \in Proposals : Moves(q)
<1>1. mem[r] = file
    BY DEF LedgerInv, MemoryIsBehind, Unchanged
<1>2. file \in Ledgers
    BY DEF LedgerInv, TypeOK
<1>3. /\ file'[p].state = s /\ file'[p].lineage = file[p].lineage
      /\ \A q \in Proposals : q # p => file'[q] = file[q]
    BY <1>1, <1>2, EntryReplaced
<1> QED
    BY <1>3 DEF Moves

\* What a call of record_event or revoke under way is about is undecided, or
\* approved, in the file too when the file is unchanged.
LEMMA PersistWrites ==
    ASSUME LedgerInv, NEW r \in Reviewers, Persist(r), Unchanged(r)
    PROVE  /\ doing[r].p \in Proposals
           /\ file' = [mem[r] EXCEPT ![doing[r].p].state = "APPROVED"]
           /\ mem' = [mem EXCEPT ![r] = file']
           /\ loaded' = [loaded EXCEPT ![r] = file']
           /\ doing' = [doing EXCEPT ![r] = [step |-> "trigger", p |-> doing[r].p]]
           /\ doing[r].p \in archive
           /\ file[doing[r].p].state = "NONE"
           /\ file'[doing[r].p].state = "APPROVED"
<1>1. doing[r].p \in Proposals /\ mem[r] \in Ledgers
    BY DEF LedgerInv, TypeOK
<1>2. mem[r] = file
    BY DEF LedgerInv, MemoryIsBehind, Unchanged
<1>3. /\ file' = [mem[r] EXCEPT ![doing[r].p].state = "APPROVED"]
      /\ mem' = [mem EXCEPT ![r] = file']
      /\ loaded' = [loaded EXCEPT ![r] = file']
      /\ doing' = [doing EXCEPT ![r] = [step |-> "trigger", p |-> doing[r].p]]
    BY DEF Persist, Goto
<1>4. doing[r].p \in archive /\ mem[r][doing[r].p].state = "NONE"
    BY DEF LedgerInv, CallsAreBacked, Persist
<1>5. file'[doing[r].p].state = "APPROVED"
    BY <1>1, <1>3, EntryReplaced
<1> QED
    BY <1>1, <1>2, <1>3, <1>4, <1>5

\* Every step moves every entry of the ledger forward, or leaves it.
LEMMA LedgerMoves ==
    ASSUME LedgerInv, [Next]_vars
    PROVE  \A q \in Proposals : Moves(q)
<1>1. ASSUME UNCHANGED file PROVE \A q \in Proposals : Moves(q)
    BY <1>1 DEF Moves
<1>2. ASSUME NEW r \in Reviewers, NEW p \in Proposals, Reject(r, p)
      PROVE  \A q \in Proposals : Moves(q)
    <2>1. file[p].state = "NONE" /\ Unchanged(r)
        BY <1>2 DEF Reject, Decided, Unchanged, LedgerInv, MemoryIsBehind
    <2>2. file' = [mem[r] EXCEPT ![p].state = "REJECTED"]
        BY <1>2 DEF Reject
    <2> QED
        BY <2>1, <2>2, Writes
<1>3. ASSUME NEW r \in Reviewers, NEW p \in Proposals, Revoke(r, p)
      PROVE  \A q \in Proposals : Moves(q)
    <2>1. file[p].state \in {"APPROVED", "CONSUMED"} /\ Unchanged(r)
        BY <1>3 DEF Revoke, Unchanged, LedgerInv, MemoryIsBehind
    <2>2. file' = [mem[r] EXCEPT ![p].state = "REVOKED"]
        BY <1>3 DEF Revoke
    <2> QED
        BY <2>1, <2>2, Writes
<1>4. ASSUME NEW r \in Reviewers, Persist(r) PROVE \A q \in Proposals : Moves(q)
    <2>1. CASE Unchanged(r)
        <3>1. /\ doing[r].p \in Proposals /\ file[doing[r].p].state = "NONE"
              /\ file' = [mem[r] EXCEPT ![doing[r].p].state = "APPROVED"]
            BY <1>4, <2>1, PersistWrites
        <3> QED
            BY <2>1, <3>1, Writes
    <2>2. CASE ~Unchanged(r)
        BY <1>1, <1>4, <2>2 DEF Persist
    <2> QED BY <2>1, <2>2
<1>5. ASSUME NEW p \in Proposals, Consume(p) PROVE \A q \in Proposals : Moves(q)
    BY <1>5 DEF Consume, Moves, LedgerInv, TypeOK, Ledgers, Entries
<1>6. ASSUME NEW r \in Reviewers,
             \/ Archive(r) \/ Trigger(r) \/ Adopt(r) \/ Start(r) \/ Repair(r) \/ Halt(r)
             \/ \E p \in Proposals : Approve(r, p) \/ Repeat(r, p)
      PROVE  UNCHANGED file
    BY <1>6 DEF Archive, Trigger, Adopt, Start, Repair, Halt, Approve, Repeat
<1>7. ASSUME (\E p \in Proposals : Publish(p)) \/ UNCHANGED vars PROVE UNCHANGED file
    BY <1>7 DEF Publish, vars
<1> QED
    BY <1>1, <1>2, <1>3, <1>4, <1>5, <1>6, <1>7 DEF Next

\* So approvals stay in the ledger, rejections and revocations stay as they
\* are, and a lineage is never taken off.
LEMMA MovesKeep ==
    ASSUME LedgerInv, \A q \in Proposals : Moves(q)
    PROVE  /\ Approvals(file) \subseteq Approvals(file')
           /\ \A q \in Proposals :
                  /\ file[q].state \in {"REJECTED", "REVOKED"} => file'[q].state = file[q].state
                  /\ file[q].lineage => file'[q].lineage
BY DEF Moves, Approvals

\* Memory stays behind the file.
LEMMA MemoryStep ==
    ASSUME LedgerInv, [Next]_vars
    PROVE  MemoryIsBehind'
<1> DEFINE Same(r) == mem'[r] = mem[r] /\ loaded'[r] = loaded[r]
           Fresh(r) == mem'[r] = file' /\ loaded'[r] = file'
<1>1. SUFFICES ASSUME NEW r \in Reviewers PROVE Same(r) \/ Fresh(r)
    BY <1>1, LedgerMoves, MovesKeep DEF LedgerInv, MemoryIsBehind
<1>2. mem \in [Reviewers -> Ledgers] /\ loaded \in [Reviewers -> Ledgers]
    BY DEF LedgerInv, TypeOK
<1>3. ASSUME NEW q \in Reviewers, NEW p \in Proposals, Reject(q, p) \/ Revoke(q, p)
      PROVE  Same(r) \/ Fresh(r)
    BY <1>2, <1>3 DEF Reject, Revoke
<1>4. ASSUME NEW q \in Reviewers, Persist(q) PROVE Same(r) \/ Fresh(r)
    BY <1>2, <1>4 DEF Persist
<1>5. ASSUME NEW q \in Reviewers, Start(q) PROVE Same(r) \/ Fresh(r)
    BY <1>2, <1>5 DEF Start
<1>6. ASSUME NEW q \in Reviewers,
             \/ Archive(q) \/ Trigger(q) \/ Adopt(q) \/ Repair(q) \/ Halt(q)
             \/ \E p \in Proposals : Approve(q, p) \/ Repeat(q, p)
      PROVE  Same(r)
    BY <1>6 DEF Archive, Trigger, Adopt, Repair, Halt, Approve, Repeat, process
<1>7. ASSUME NEW p \in Proposals, Publish(p) \/ Consume(p) PROVE Same(r)
    BY <1>7 DEF Publish, Consume, process
<1>8. ASSUME UNCHANGED vars PROVE Same(r)
    BY <1>8 DEF vars
<1> QED
    BY <1>3, <1>4, <1>5, <1>6, <1>7, <1>8 DEF Next

\* A call under way stays backed.
LEMMA CallsStep ==
    ASSUME LedgerInv, [Next]_vars
    PROVE  CallsAreBacked'
<1>1. Approvals(file) \subseteq Approvals(file')
    BY LedgerMoves, MovesKeep
<1>2. /\ mem \in [Reviewers -> Ledgers] /\ Nothing.step = "rest"
      /\ doing \in [Reviewers -> [step : {"rest", "archive", "persist", "trigger"}, p : Proposals]]
    BY DEF LedgerInv, TypeOK, Nothing
<1>3. archive \subseteq archive'
    BY ArchiveGrows DEF LedgerInv
<1> DEFINE Backed(r) ==
        /\ doing'[r].step \in {"archive", "persist"} => mem'[r][doing'[r].p].state = "NONE"
        /\ doing'[r].step = "persist" => doing'[r].p \in archive'
        /\ doing'[r].step = "trigger" => doing'[r].p \in Approvals(file')
<1>4. SUFFICES ASSUME NEW r \in Reviewers PROVE Backed(r)
    BY <1>4 DEF CallsAreBacked
<1>5. ASSUME doing'[r] = doing[r], mem'[r] = mem[r] PROVE Backed(r)
    BY <1>1, <1>3, <1>5 DEF LedgerInv, CallsAreBacked
<1>6. ASSUME doing'[r] = Nothing PROVE Backed(r)
    BY <1>2, <1>6
<1>7. ASSUME NEW q \in Reviewers, NEW p \in Proposals, Reject(q, p) \/ Revoke(q, p)
      PROVE  Backed(r)
    <2>1. doing'[r] = doing[r] /\ (r # q => mem'[r] = mem[r]) /\ doing[q] = Nothing
        BY <1>2, <1>7 DEF Reject, Revoke, Resting
    <2> QED
        BY <1>5, <1>6, <2>1
<1>8. ASSUME NEW q \in Reviewers, NEW p \in Proposals, Approve(q, p)
      PROVE  Backed(r)
    <2>1. CASE r = q
        <3>1. doing'[r].step = "archive" /\ doing'[r].p = p
            BY <1>2, <1>8, <2>1 DEF Approve, Goto
        <3> QED
            BY <1>8, <2>1, <3>1 DEF Approve, Decided
    <2>2. CASE r # q
        BY <1>2, <1>5, <1>8, <2>2 DEF Approve, Goto
    <2> QED BY <2>1, <2>2
<1>9. ASSUME NEW q \in Reviewers, Persist(q) PROVE Backed(r)
    <2>1. CASE r # q
        <3>1. doing'[r] = doing[r] /\ mem'[r] = mem[r]
            BY <1>2, <1>9, <2>1 DEF Persist, Goto, Rest
        <3> QED
            BY <1>5, <3>1
    <2>2. CASE r = q /\ Unchanged(q)
        <3>1. doing' = [doing EXCEPT ![q] = [step |-> "trigger", p |-> doing[q].p]]
            BY <1>9, <2>2, PersistWrites
        <3>2. doing'[r].step = "trigger" /\ doing'[r].p = doing[q].p
            BY <1>2, <2>2, <3>1
        <3>3. doing[q].p \in Proposals /\ file'[doing[q].p].state = "APPROVED"
            BY <1>9, <2>2, PersistWrites
        <3> QED
            BY <3>2, <3>3 DEF Approvals
    <2>3. CASE r = q /\ ~Unchanged(q)
        BY <1>2, <1>6, <1>9, <2>3 DEF Persist, Rest
    <2> QED BY <2>1, <2>2, <2>3
<1>10. ASSUME NEW q \in Reviewers, Trigger(q) PROVE Backed(r)
    <2>1. mem'[r] = mem[r] /\ (doing'[r] = doing[r] \/ doing'[r] = Nothing)
        BY <1>2, <1>10 DEF Trigger, Rest
    <2> QED
        BY <1>5, <1>6, <2>1
<1>11. ASSUME NEW q \in Reviewers, Halt(q) PROVE Backed(r)
    BY <1>2, <1>5, <1>6, <1>11 DEF Halt, Rest
<1>12. ASSUME NEW q \in Reviewers, Start(q) PROVE Backed(r)
    <2>1. CASE r # q
        BY <1>2, <1>5, <1>12, <2>1 DEF Start
    <2>2. CASE r = q
        BY <1>6, <1>12, <2>2 DEF Start, LedgerInv, DownRests
    <2> QED BY <2>1, <2>2
<1>13. ASSUME NEW q \in Reviewers, Repair(q) \/ \E p \in Proposals : Repeat(q, p)
       PROVE  Backed(r)
    BY <1>5, <1>13 DEF Repair, Repeat, process
<1>14. ASSUME NEW p \in Proposals, Publish(p) \/ Consume(p) PROVE Backed(r)
    BY <1>5, <1>14 DEF Publish, Consume, process
<1>15. ASSUME UNCHANGED vars PROVE Backed(r)
    BY <1>5, <1>15 DEF vars
<1>16. ASSUME NEW q \in Reviewers, Archive(q) PROVE Backed(r)
    <2>1. mem'[r] = mem[r] /\ (r # q => doing'[r] = doing[r])
        BY <1>2, <1>16 DEF Archive, Goto, Rest
    <2>2. CASE r = q /\ doing[q].p \in archive'
        <3>1. doing'[r].step = "persist" /\ doing'[r].p = doing[q].p
            BY <1>2, <1>16, <2>2 DEF Archive, Goto
        <3>2. mem[q][doing[q].p].state = "NONE"
            BY <1>16 DEF Archive, LedgerInv, CallsAreBacked
        <3> QED
            BY <2>1, <2>2, <3>1, <3>2
    <2>3. CASE r = q /\ doing[q].p \notin archive'
        BY <1>2, <1>6, <1>16, <2>3 DEF Archive, Rest
    <2> QED
        BY <1>5, <2>1, <2>2, <2>3
<1>17. ASSUME NEW q \in Reviewers, Adopt(q) PROVE Backed(r)
    BY <1>5, <1>17 DEF Adopt
<1> QED
    BY <1>7, <1>8, <1>9, <1>10, <1>11, <1>12, <1>13, <1>14, <1>15, <1>16, <1>17 DEF Next

\* A process that is down has no call under way.
LEMMA DownStep ==
    ASSUME LedgerInv, [Next]_vars
    PROVE  DownRests'
<1>1. /\ up \in [Reviewers -> {"down", "repair", "ready"}]
      /\ doing \in [Reviewers -> [step : {"rest", "archive", "persist", "trigger"}, p : Proposals]]
    BY DEF LedgerInv, TypeOK
<1>2. SUFFICES ASSUME NEW r \in Reviewers, up'[r] = "down" PROVE doing'[r] = Nothing
    BY <1>2 DEF DownRests
<1>3. ASSUME up[r] = "down", doing'[r] = doing[r] PROVE doing'[r] = Nothing
    BY <1>3 DEF LedgerInv, DownRests
<1>4. ASSUME NEW q \in Reviewers, NEW p \in Proposals,
             Reject(q, p) \/ Repeat(q, p) \/ Revoke(q, p)
      PROVE  doing'[r] = Nothing
    BY <1>2, <1>3, <1>4 DEF Reject, Repeat, Revoke, process
<1>5. ASSUME NEW q \in Reviewers, NEW p \in Proposals, Approve(q, p) PROVE doing'[r] = Nothing
    BY <1>1, <1>2, <1>3, <1>5 DEF Approve, Goto, Resting
<1>6. ASSUME NEW q \in Reviewers, Persist(q) PROVE doing'[r] = Nothing
    <2>1. CASE r = q
        BY <1>2, <1>6, <2>1 DEF Persist, LedgerInv, DownRests, Nothing
    <2>2. CASE r # q
        BY <1>1, <1>2, <1>3, <1>6, <2>2 DEF Persist, Goto, Rest
    <2> QED BY <2>1, <2>2
<1>7. ASSUME NEW q \in Reviewers, Trigger(q) \/ Halt(q) PROVE doing'[r] = Nothing
    BY <1>1, <1>2, <1>3, <1>7 DEF Trigger, Halt, Rest
<1>8. ASSUME NEW q \in Reviewers, Adopt(q) \/ Start(q) \/ Repair(q) PROVE doing'[r] = Nothing
    BY <1>1, <1>2, <1>3, <1>8 DEF Adopt, Start, Repair
<1>9. ASSUME (\E p \in Proposals : Publish(p) \/ Consume(p)) \/ UNCHANGED vars
      PROVE  doing'[r] = Nothing
    BY <1>2, <1>3, <1>9 DEF Publish, Consume, process, vars
<1>10. ASSUME NEW q \in Reviewers, Archive(q) PROVE doing'[r] = Nothing
    <2>1. CASE r = q
        BY <1>2, <1>10, <2>1 DEF Archive, LedgerInv, DownRests, Nothing
    <2>2. CASE r # q
        BY <1>1, <1>2, <1>3, <1>10, <2>2 DEF Archive, Goto, Rest
    <2> QED BY <2>1, <2>2
<1> QED
    BY <1>4, <1>5, <1>6, <1>7, <1>8, <1>9, <1>10 DEF Next

\* What was acknowledged stays in the ledger.
LEMMA AcknowledgedStep ==
    ASSUME LedgerInv, [Next]_vars
    PROVE  AcknowledgedIsKept'
<1> DEFINE Kept(p, what) ==
        /\ what = "REJECTED" => file'[p].state = "REJECTED"
        /\ what = "APPROVED" => p \in Approvals(file')
        /\ what = "CONSUMED" => file'[p].lineage
        /\ what = "REVOKED" => file'[p].state = "REVOKED"
<1>1. SUFFICES ASSUME NEW p \in Proposals, NEW what \in told'[p] PROVE Kept(p, what)
    BY <1>1 DEF AcknowledgedIsKept, Approvals
<1>2. ASSUME what \in told[p] PROVE Kept(p, what)
    BY <1>2, LedgerMoves, MovesKeep DEF LedgerInv, AcknowledgedIsKept, Approvals
<1>3. told \in [Proposals -> SUBSET {"REJECTED", "APPROVED", "CONSUMED", "REVOKED"}]
    BY DEF LedgerInv, TypeOK
<1>4. ASSUME NEW q \in Reviewers, NEW d \in Proposals, Reject(q, d) PROVE Kept(p, what)
    <2>0. mem[q] \in Ledgers /\ file' = [mem[q] EXCEPT ![d].state = "REJECTED"]
        BY <1>4 DEF Reject, LedgerInv, TypeOK
    <2>1. file'[d].state = "REJECTED"
        BY <2>0, EntryReplaced
    <2>2. what \in told[p] \/ (p = d /\ what = "REJECTED")
        BY <1>1, <1>3, <1>4 DEF Reject, Tell
    <2> QED
        BY <1>2, <2>1, <2>2
<1>5. ASSUME NEW q \in Reviewers, NEW d \in Proposals, Revoke(q, d) PROVE Kept(p, what)
    <2>0. mem[q] \in Ledgers /\ file' = [mem[q] EXCEPT ![d].state = "REVOKED"]
        BY <1>5 DEF Revoke, LedgerInv, TypeOK
    <2>1. file'[d].state = "REVOKED"
        BY <2>0, EntryReplaced
    <2>2. what \in told[p] \/ (p = d /\ what = "REVOKED")
        BY <1>1, <1>3, <1>5 DEF Revoke, Tell
    <2> QED
        BY <1>2, <2>1, <2>2
<1>6. ASSUME NEW q \in Reviewers, Trigger(q) PROVE Kept(p, what)
    <2>1. what \in told[p] \/ (p = doing[q].p /\ what = "APPROVED")
        BY <1>1, <1>3, <1>6 DEF Trigger, Tell
    <2>2. doing[q].p \in Approvals(file')
        BY <1>6 DEF Trigger, LedgerInv, CallsAreBacked
    <2> QED
        BY <1>2, <2>1, <2>2
<1>7. ASSUME NEW q \in Reviewers, NEW d \in Proposals, Repeat(q, d) PROVE Kept(p, what)
    <2>1. what \in told[p] \/ (p = d /\ what = "APPROVED")
        BY <1>1, <1>3, <1>7 DEF Repeat, Tell
    <2>2. d \in Approvals(file')
        BY <1>7 DEF Repeat, LedgerInv, MemoryIsBehind
    <2> QED
        BY <1>2, <2>1, <2>2
<1>8. ASSUME NEW d \in Proposals, Consume(d) PROVE Kept(p, what)
    <2>1. what \in told[p] \/ (p = d /\ what = "CONSUMED")
        BY <1>1, <1>3, <1>8 DEF Consume, Tell
    <2>2. file'[d].lineage
        BY <1>8 DEF Consume, LedgerInv, TypeOK, Ledgers
    <2> QED
        BY <1>2, <2>1, <2>2
<1>9. ASSUME UNCHANGED told PROVE Kept(p, what)
    BY <1>1, <1>2, <1>9
<1> QED
    BY <1>4, <1>5, <1>6, <1>7, <1>8, <1>9
       DEF Next, vars, Approve, Archive, Persist, Adopt, Start, Repair, Halt, Publish

\* Triggers stay those of approvals, and approvals stay archived.
LEMMA BackedStep ==
    ASSUME LedgerInv, [Next]_vars
    PROVE  TriggerIsBacked'
<1>1. Approvals(file) \subseteq Approvals(file')
    BY LedgerMoves, MovesKeep
<1>2. archive \subseteq archive'
    BY ArchiveGrows DEF LedgerInv
<1>3. trigger' \subseteq Approvals(file')
    <2>1. ASSUME NEW r \in Reviewers, Trigger(r) PROVE trigger' \subseteq Approvals(file')
        BY <1>1, <2>1 DEF Trigger, LedgerInv, CallsAreBacked, TriggerIsBacked
    <2>2. ASSUME NEW r \in Reviewers, NEW p \in Proposals, Repeat(r, p)
          PROVE  trigger' \subseteq Approvals(file')
        BY <1>1, <2>2 DEF Repeat, LedgerInv, MemoryIsBehind, TriggerIsBacked
    <2>3. ASSUME NEW r \in Reviewers, Repair(r) PROVE trigger' \subseteq Approvals(file')
        BY <1>1, <2>3 DEF Repair, LedgerInv, MemoryIsBehind, TriggerIsBacked
    <2>4. ASSUME UNCHANGED trigger PROVE trigger' \subseteq Approvals(file')
        BY <1>1, <2>4 DEF LedgerInv, TriggerIsBacked
    <2> QED
        BY <2>1, <2>2, <2>3, <2>4
           DEF Next, vars, Reject, Approve, Archive, Persist, Revoke, Adopt, Start, Halt, Publish, Consume
<1>4. Approvals(file') \subseteq archive'
    <2>1. ASSUME Approvals(file') \subseteq Approvals(file) PROVE Approvals(file') \subseteq archive'
        BY <1>2, <2>1 DEF LedgerInv, TriggerIsBacked
    <2>2. ASSUME NEW r \in Reviewers, Persist(r) PROVE Approvals(file') \subseteq archive'
        <3>1. CASE Unchanged(r)
            <4>1. /\ doing[r].p \in Proposals /\ doing[r].p \in archive
                  /\ file' = [mem[r] EXCEPT ![doing[r].p].state = "APPROVED"]
                BY <2>2, <3>1, PersistWrites
            <4>2. mem[r] = file /\ file \in Ledgers
                BY <3>1 DEF LedgerInv, MemoryIsBehind, Unchanged, TypeOK
            <4>3. \A q \in Proposals : q # doing[r].p => file'[q] = file[q]
                BY <4>1, <4>2, EntryReplaced
            <4> QED
                BY <1>2, <4>1, <4>3 DEF Approvals, LedgerInv, TriggerIsBacked
        <3>2. CASE ~Unchanged(r)
            BY <2>1, <2>2, <3>2 DEF Persist
        <3> QED BY <3>1, <3>2
    <2>3. ASSUME NEW r \in Reviewers, NEW p \in Proposals, Reject(r, p)
          PROVE  Approvals(file') \subseteq archive'
        <3>1. file' = [mem[r] EXCEPT ![p].state = "REJECTED"] /\ mem[r] = file /\ file \in Ledgers
            BY <2>3 DEF Reject, Unchanged, LedgerInv, MemoryIsBehind, TypeOK
        <3>2. file'[p].state = "REJECTED" /\ \A q \in Proposals : q # p => file'[q] = file[q]
            BY <3>1, EntryReplaced
        <3> QED
            BY <2>1, <3>2 DEF Approvals
    <2>4. ASSUME NEW r \in Reviewers, NEW p \in Proposals, Revoke(r, p)
          PROVE  Approvals(file') \subseteq archive'
        <3>1. /\ file' = [mem[r] EXCEPT ![p].state = "REVOKED"] /\ mem[r] = file /\ file \in Ledgers
              /\ file[p].state \in {"APPROVED", "CONSUMED"}
            BY <2>4 DEF Revoke, Unchanged, LedgerInv, MemoryIsBehind, TypeOK
        <3>2. \A q \in Proposals : q # p => file'[q] = file[q]
            BY <3>1, EntryReplaced
        <3> QED
            BY <2>1, <3>1, <3>2 DEF Approvals
    <2>5. ASSUME NEW p \in Proposals, Consume(p) PROVE Approvals(file') \subseteq archive'
        BY <2>1, <2>5 DEF Consume, Approvals, LedgerInv, TypeOK, Ledgers
    <2>6. ASSUME UNCHANGED file PROVE Approvals(file') \subseteq archive'
        BY <2>1, <2>6
    <2> QED
        BY <2>2, <2>3, <2>4, <2>5, <2>6
           DEF Next, vars, Approve, Archive, Trigger, Repeat, Adopt, Start, Repair, Halt, Publish
<1> QED
    BY <1>3, <1>4 DEF TriggerIsBacked

\* Who was told of an approval has its trigger.
LEMMA AnsweredStep ==
    ASSUME LedgerInv, [Next]_vars
    PROVE  AnsweredIsTriggered'
<1>1. told \in [Proposals -> SUBSET {"REJECTED", "APPROVED", "CONSUMED", "REVOKED"}]
    BY DEF LedgerInv, TypeOK
<1>2. trigger \subseteq trigger'
    BY DEF Next, vars, Reject, Approve, Archive, Persist, Trigger, Repeat, Revoke, Adopt, Start,
           Repair, Halt, Publish, Consume
<1>3. SUFFICES ASSUME NEW p \in Proposals, "APPROVED" \in told'[p] PROVE p \in trigger'
    BY <1>3 DEF AnsweredIsTriggered
<1>4. ASSUME "APPROVED" \in told[p] PROVE p \in trigger'
    BY <1>2, <1>4 DEF LedgerInv, AnsweredIsTriggered
<1>5. ASSUME NEW r \in Reviewers, Trigger(r) PROVE p \in trigger'
    BY <1>1, <1>3, <1>4, <1>5 DEF Trigger, Tell
<1>6. ASSUME NEW r \in Reviewers, NEW d \in Proposals, Repeat(r, d) PROVE p \in trigger'
    BY <1>1, <1>3, <1>4, <1>6 DEF Repeat, Tell
<1>7. ASSUME NEW r \in Reviewers, NEW d \in Proposals, Reject(r, d) \/ Revoke(r, d)
      PROVE  p \in trigger'
    BY <1>1, <1>3, <1>4, <1>7 DEF Reject, Revoke, Tell
<1>8. ASSUME NEW d \in Proposals, Consume(d) PROVE p \in trigger'
    BY <1>1, <1>3, <1>4, <1>8 DEF Consume, Tell
<1>9. ASSUME UNCHANGED told PROVE p \in trigger'
    BY <1>3, <1>4, <1>9
<1> QED
    BY <1>5, <1>6, <1>7, <1>8, <1>9
       DEF Next, vars, Approve, Archive, Persist, Adopt, Start, Repair, Halt, Publish

-----------------------------------------------------------------------------
\* The invariant of the ledger holds in every reachable state of
\* ApprovalLedger, for any proposals, processes and bounds.
THEOREM LedgerSafe == Spec => []LedgerInv
<1>1. LedgerInv /\ [Next]_vars => LedgerInv'
    BY TypeStep, DownStep, MemoryStep, CallsStep, AcknowledgedStep, BackedStep, AnsweredStep
       DEF LedgerInv
<1> QED
    BY <1>1, InitLedger, PTL DEF Spec

\* Every variable of the ledger, the processes and the callers keeps its type.
THEOREM LedgerTypeCorrect == Spec => []TypeOK
<1>1. LedgerInv => TypeOK
    BY DEF LedgerInv
<1> QED
    BY <1>1, LedgerSafe, PTL

\* _persist: nothing that was acknowledged, a rejection, an approval, a
\* consumption or a revocation, is ever undone by a process that is behind.
THEOREM AcknowledgedKept == Spec => []AcknowledgedIsKept
<1>1. LedgerInv => AcknowledgedIsKept
    BY DEF LedgerInv
<1> QED
    BY <1>1, LedgerSafe, PTL

\* record_event: every trigger is that of an approval in the ledger, whose
\* package is archived.
THEOREM TriggersBacked == Spec => []TriggerIsBacked
<1>1. LedgerInv => TriggerIsBacked
    BY DEF LedgerInv
<1> QED
    BY <1>1, LedgerSafe, PTL

\* record_event: a caller who was told of an approval has its trigger.
THEOREM AnsweredTriggered == Spec => []AnsweredIsTriggered
<1>1. LedgerInv => AnsweredIsTriggered
    BY DEF LedgerInv
<1> QED
    BY <1>1, LedgerSafe, PTL
=============================================================================
