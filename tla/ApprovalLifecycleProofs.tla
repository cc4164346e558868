----------------------- MODULE ApprovalLifecycleProofs -----------------------
(***************************************************************************)
(* Proofs about the command register and the approval lifecycle built on   *)
(* it.                                                                     *)
(*                                                                         *)
(* The first part is about CommandRegister alone, for every set of         *)
(* submissions and any number of applications, commands and aggregates: it *)
(* uses no definition and no assumption of ApprovalLifecycle.  The second  *)
(* shows that the lifecycle implements the register, so that its           *)
(* properties follow from the register's, for any proposals, lineages and  *)
(* workers.                                                                *)
(***************************************************************************)
EXTENDS ApprovalLifecycle, FiniteSetTheorems, SequenceTheorems, TLAPS

-----------------------------------------------------------------------------
(* The command register. *)

\* The typing facts of one submission.
LEMMA SubmissionTypes ==
    ASSUME NEW c \in Submissions
    PROVE  /\ Agg(c) \in Aggregates
           /\ Key(c) \in Keys
           /\ Key(c) # NoKey
           /\ c.winner # None => c.winner \in WinnerKeys
BY KeysAssumption DEF Aggregates, Keys, WinnerKeys, NoKey

\* The result of a well-formed command is one of the closed codes.
LEMMA ResultCodeType ==
    ASSUME NEW c, NEW caller, WellFormed(c)
    PROVE  ResultCode(c, caller) \in Codes
BY DEF ResultCode, WellFormed, Codes, Guards

LEMMA RegisterInitInv == RegisterInit => RegisterInv
<1>. SUFFICES ASSUME RegisterInit PROVE RegisterInv
    OBVIOUS
<1>1. RegisterTypeOK
    BY MaxTimeAssumption DEF RegisterInit, RegisterTypeOK, NoRow, Row, NoRebuild, Codes
<1>2. EventsNumbered /\ rebuild.count <= Cardinality(events) /\ CheckpointCovered
    BY FS_EmptySet DEF RegisterInit, EventsNumbered, NoRebuild, CheckpointCovered
<1>3. VersionsDense
    BY DEF RegisterInit, VersionsDense, EventsOf
<1>4. FactsMatchInbox
    BY DEF RegisterInit, FactsMatchInbox, NoRow
<1>5. AnswersAreFinal
    BY DEF RegisterInit, AnswersAreFinal
<1>6. \A c \in Submissions : ~Won(c)
    BY SubmissionTypes DEF RegisterInit, Won, NoRow
<1>7. PendingRows
    BY DEF RegisterInit, PendingRows
<1>. QED BY <1>1, <1>2, <1>3, <1>4, <1>5, <1>6, <1>7 DEF RegisterInv

\* An applied command: what its transaction writes.
LEMMA AppliedStep ==
    ASSUME RegisterInv, NEW c \in Submissions, NEW caller,
           Commit(c, caller), ResultCode(c, caller) = "APPLIED"
    PROVE  /\ Apply(c)
           /\ ~Lost(c)
           /\ c.event \in EventIds
           /\ inbox' = [inbox EXCEPT ![Key(c)] =
                  [bytes |-> c.bytes, code |-> "APPLIED", version |-> version[Agg(c)] + 1]]
           /\ version' = [version EXCEPT ![Agg(c)] = version[Agg(c)] + 1]
           /\ version[Agg(c)] \in Nat
<1>1. Agg(c) \in Aggregates /\ version \in [Aggregates -> Nat]
    BY SubmissionTypes DEF RegisterInv, RegisterTypeOK
<1>2. Apply(c)
    BY DEF Commit
<1>3. version' = [version EXCEPT ![Agg(c)] = version[Agg(c)] + 1]
    BY <1>2 DEF Apply
<1>4. version'[Agg(c)] = version[Agg(c)] + 1
    BY <1>1, <1>3
<1>5. ~Lost(c) /\ c.guard = "APPLIED"
    BY DEF ResultCode
<1>6. c.event \in EventIds
    BY <1>5 DEF Commit, WellFormed, EventIds
<1>. QED BY <1>1, <1>2, <1>3, <1>4, <1>5, <1>6 DEF Commit

\* A rejected command: only its row is written.
LEMMA RejectedStep ==
    ASSUME RegisterInv, NEW c \in Submissions, NEW caller,
           Commit(c, caller), ResultCode(c, caller) # "APPLIED"
    PROVE  /\ UNCHANGED <<version, events, winner, intents>>
           /\ inbox' = [inbox EXCEPT ![Key(c)] =
                  [bytes |-> c.bytes, code |-> ResultCode(c, caller),
                   version |-> version[Agg(c)]]]
           /\ ResultCode(c, caller) \in Codes
           /\ version[Agg(c)] \in Nat
<1>1. Agg(c) \in Aggregates /\ version \in [Aggregates -> Nat]
    BY SubmissionTypes DEF RegisterInv, RegisterTypeOK
<1>2. UNCHANGED <<version, events, winner, intents>>
    BY DEF Commit, Reject
<1>3. ResultCode(c, caller) \in Codes
    BY ResultCodeType DEF Commit
<1>. QED BY <1>1, <1>2, <1>3 DEF Commit

\* The row a commit writes.
LEMMA CommitRow ==
    ASSUME RegisterInv, NEW c \in Submissions, NEW caller, Commit(c, caller)
    PROVE  /\ ~Recorded(Key(c))
           /\ \E row \in Row : row.bytes = c.bytes /\ row.code \in Codes
                               /\ inbox' = [inbox EXCEPT ![Key(c)] = row]
<1>1. ~Recorded(Key(c))
    BY DEF Commit
<1>2. CASE ResultCode(c, caller) = "APPLIED"
    <2>. DEFINE row == [bytes |-> c.bytes, code |-> "APPLIED",
                        version |-> version[Agg(c)] + 1]
    <2>1. inbox' = [inbox EXCEPT ![Key(c)] = row] /\ version[Agg(c)] \in Nat
        BY <1>2, AppliedStep
    <2>2. row \in Row /\ row.bytes = c.bytes /\ row.code \in Codes
        BY <2>1 DEF Row, Codes, Guards
    <2>. QED BY <1>1, <2>1, <2>2
<1>3. CASE ResultCode(c, caller) # "APPLIED"
    <2>. DEFINE row == [bytes |-> c.bytes, code |-> ResultCode(c, caller),
                        version |-> version[Agg(c)]]
    <2>1. /\ inbox' = [inbox EXCEPT ![Key(c)] = row]
          /\ version[Agg(c)] \in Nat
          /\ ResultCode(c, caller) \in Codes
        BY <1>3, RejectedStep
    <2>2. row \in Row /\ row.bytes = c.bytes /\ row.code \in Codes
        BY <2>1 DEF Row
    <2>. QED BY <1>1, <2>1, <2>2
<1>. QED BY <1>2, <1>3

LEMMA SubmitTypeOK ==
    ASSUME RegisterInv, NEW c \in Submissions, NEW caller, Submit(c, caller)
    PROVE  RegisterTypeOK' /\ EventsNumbered' /\ Cardinality(events) <= Cardinality(events')
<1>. USE SubmissionTypes
<1>1. Commit(c, caller) /\ Acknowledge(c) /\ UNCHANGED <<now, projection>>
    BY DEF Submit
<1>2. RegisterTypeOK /\ EventsNumbered /\ IsFiniteSet(events)
    BY DEF RegisterInv, EventsNumbered
<1>n. Cardinality(events) \in Nat
    BY <1>2, FS_CardinalityType
<1>3. PICK row \in Row : row.code \in Codes /\ inbox' = [inbox EXCEPT ![Key(c)] = row]
    BY <1>1, CommitRow
<1>4. inbox' \in [Keys -> Row] /\ inbox'[Key(c)] = row
    BY <1>2, <1>3 DEF RegisterTypeOK
<1>5. (answers \subseteq (Keys \X Codes \X Nat))'
    <2>1. row.version \in Nat
        BY DEF Row
    <2>2. <<Key(c), row.code, row.version>> \in Keys \X Codes \X Nat
        BY <1>3, <2>1
    <2>. QED BY <1>1, <1>2, <1>4, <2>2 DEF Acknowledge, Answer, RegisterTypeOK
<1>6. /\ version' \in [Aggregates -> Nat]
      /\ events' \subseteq Event /\ EventsNumbered'
      /\ Cardinality(events) <= Cardinality(events')
      /\ winner' \in [WinnerKeys -> Keys \cup {NoKey}]
      /\ intents' \subseteq Intent
    <2>1. CASE ResultCode(c, caller) = "APPLIED"
        <3>1. /\ Apply(c) /\ c.event \in EventIds
              /\ version' = [version EXCEPT ![Agg(c)] = version[Agg(c)] + 1]
              /\ version[Agg(c)] \in Nat
            BY <1>1, <2>1, AppliedStep
        <3>. DEFINE new == version[Agg(c)] + 1
                    e == [event |-> c.event, key |-> Key(c), aggregate |-> Agg(c),
                          type |-> c.type, prior |-> new - 1, new |-> new,
                          at |-> Cardinality(events) + 1]
        <3>2. events' = events \cup {e}
            BY <3>1 DEF Apply
        <3>3. e.at = Cardinality(events) + 1 /\ e \notin events
            <4>1. \A f \in events : f.at \in 1..Cardinality(events)
                BY <1>2 DEF EventsNumbered
            <4>2. \A f \in events : f.at # Cardinality(events) + 1
                BY <1>n, <4>1
            <4>3. e.at = Cardinality(events) + 1
                OBVIOUS
            <4>. HIDE DEF e
            <4>. QED BY <4>2, <4>3
        <3>4. e \in Event
            BY <1>n, <3>1 DEF Event
        <3>5. EventsNumbered' /\ Cardinality(events') = Cardinality(events) + 1
            <4>1. IsFiniteSet(events') /\ Cardinality(events') = Cardinality(events) + 1
                BY <1>2, <3>2, <3>3, FS_AddElement
            <4>2. {f.at : f \in events'} = {f.at : f \in events} \cup {Cardinality(events) + 1}
                BY <3>2, <3>3
            <4>3. 1..(Cardinality(events) + 1) = 1..Cardinality(events) \cup {Cardinality(events) + 1}
                BY <1>n
            <4>4. {f.at : f \in events} = 1..Cardinality(events)
                BY <1>2 DEF EventsNumbered
            <4>5. {f.at : f \in events'} = 1..Cardinality(events')
                BY <4>1, <4>2, <4>3, <4>4
            <4>. QED BY <4>1, <4>5 DEF EventsNumbered
        <3>6. winner' \in [WinnerKeys -> Keys \cup {NoKey}]
            BY <1>2, <3>1 DEF Apply, RegisterTypeOK
        <3>7. intents' \subseteq Intent
            BY <1>2, <3>1 DEF Apply, RegisterTypeOK, Intent
        <3>8. version' \in [Aggregates -> Nat]
            BY <1>2, <3>1 DEF RegisterTypeOK
        <3>. QED BY <1>2, <1>n, <3>2, <3>4, <3>5, <3>6, <3>7, <3>8 DEF RegisterTypeOK
    <2>2. CASE ResultCode(c, caller) # "APPLIED"
        BY <1>1, <1>2, <1>n, <2>2, RejectedStep DEF RegisterTypeOK, EventsNumbered
    <2>. QED BY <2>1, <2>2
<1>. QED BY <1>1, <1>2, <1>4, <1>5, <1>6 DEF RegisterTypeOK, projection

LEMMA SubmitPendingRows ==
    ASSUME RegisterInv, NEW c \in Submissions, NEW caller, Submit(c, caller)
    PROVE  PendingRows'
<1>. USE SubmissionTypes
<1>1. PICK row \in Row : row.code \in Codes /\ inbox' = [inbox EXCEPT ![Key(c)] = row]
    BY CommitRow DEF Submit
<1>2. PendingRows /\ inbox \in [Keys -> Row]
    BY DEF RegisterInv, RegisterTypeOK
<1>3. row.code # "none"
    BY <1>1 DEF Codes, Guards
<1>4. \A k \in Keys : inbox'[k] = IF k = Key(c) THEN row ELSE inbox[k]
    BY <1>1, <1>2
<1>. QED BY <1>2, <1>3, <1>4 DEF PendingRows, NoRow

LEMMA SubmitVersionsDense ==
    ASSUME RegisterInv, NEW c \in Submissions, NEW caller, Submit(c, caller)
    PROVE  VersionsDense'
<1>. USE SubmissionTypes
<1>1. Commit(c, caller)
    BY DEF Submit
<1>2. VersionsDense /\ RegisterTypeOK
    BY DEF RegisterInv
<1>3. CASE ResultCode(c, caller) = "APPLIED"
    <2>1. /\ Apply(c)
          /\ version' = [version EXCEPT ![Agg(c)] = version[Agg(c)] + 1]
          /\ version[Agg(c)] \in Nat
        BY <1>1, <1>3, AppliedStep
    <2>. DEFINE new == version[Agg(c)] + 1
                e == [event |-> c.event, key |-> Key(c), aggregate |-> Agg(c),
                      type |-> c.type, prior |-> new - 1, new |-> new,
                      at |-> Cardinality(events) + 1]
    <2>2. events' = events \cup {e}
        BY <2>1 DEF Apply
    <2>3. e.aggregate = Agg(c) /\ e.new = new
        OBVIOUS
    <2>. HIDE DEF e
    <2>4. \A f \in events : f.aggregate = Agg(c) => f.new \in 1..version[Agg(c)]
        BY <1>2 DEF VersionsDense, EventsOf
    <2>5. \A f, g \in events' : f.aggregate = g.aggregate /\ f.new = g.new => f = g
        BY <1>2, <2>1, <2>2, <2>3, <2>4 DEF VersionsDense
    <2>6. ASSUME NEW a \in Aggregates
          PROVE  {f.new : f \in EventsOf(a)'} = 1..version'[a]
        <3>1. CASE a = Agg(c)
            <4>1. EventsOf(a)' = EventsOf(a) \cup {e}
                BY <2>2, <2>3, <3>1 DEF EventsOf
            <4>2. {f.new : f \in EventsOf(a)'} = {f.new : f \in EventsOf(a)} \cup {new}
                BY <2>3, <4>1
            <4>3. version'[a] = version[a] + 1 /\ new = version[a] + 1 /\ version[a] \in Nat
                BY <1>2, <2>1, <3>1 DEF RegisterTypeOK
            <4>. QED BY <1>2, <4>2, <4>3 DEF VersionsDense
        <3>2. CASE a # Agg(c)
            <4>1. EventsOf(a)' = EventsOf(a)
                BY <2>2, <2>3, <3>2 DEF EventsOf
            <4>2. version'[a] = version[a]
                BY <1>2, <2>1, <3>2 DEF RegisterTypeOK
            <4>. QED BY <1>2, <4>1, <4>2 DEF VersionsDense
        <3>. QED BY <3>1, <3>2
    <2>. QED BY <2>5, <2>6 DEF VersionsDense
<1>4. CASE ResultCode(c, caller) # "APPLIED"
    BY <1>1, <1>2, <1>4, RejectedStep DEF VersionsDense, EventsOf
<1>. QED BY <1>3, <1>4

LEMMA SubmitFactsMatchInbox ==
    ASSUME RegisterInv, NEW c \in Submissions, NEW caller, Submit(c, caller)
    PROVE  FactsMatchInbox'
<1>. USE SubmissionTypes
<1>1. Commit(c, caller) /\ ~Recorded(Key(c))
    BY DEF Submit, Commit
<1>2. FactsMatchInbox /\ RegisterTypeOK
    BY DEF RegisterInv
<1>3. /\ \A f \in events : f.key \in Keys /\ f.key # Key(c)
      /\ \A w \in WinnerKeys : winner[w] # NoKey => winner[w] \in Keys /\ winner[w] # Key(c)
      /\ \A i \in intents : i.key \in Keys /\ i.key # Key(c)
    BY <1>1, <1>2 DEF FactsMatchInbox, RegisterTypeOK, Recorded, Event, Intent
<1>4. CASE ResultCode(c, caller) = "APPLIED"
    <2>. DEFINE new == version[Agg(c)] + 1
                e == [event |-> c.event, key |-> Key(c), aggregate |-> Agg(c),
                      type |-> c.type, prior |-> new - 1, new |-> new,
                      at |-> Cardinality(events) + 1]
                row == [bytes |-> c.bytes, code |-> "APPLIED", version |-> new]
    <2>1. /\ Apply(c) /\ inbox' = [inbox EXCEPT ![Key(c)] = row]
        BY <1>1, <1>4, AppliedStep
    <2>2. events' = events \cup {e} /\ e.key = Key(c) /\ e.new = new
        BY <2>1 DEF Apply
    <2>3. inbox'[Key(c)] = row /\ row.code = "APPLIED" /\ row.version = new
        BY <1>2, <2>1 DEF RegisterTypeOK
    <2>4. \A k \in Keys : k # Key(c) => inbox'[k] = inbox[k]
        BY <1>2, <2>1 DEF RegisterTypeOK
    <2>. HIDE DEF e, row, new
    <2>5. \A k \in Keys : inbox'[k].code = "APPLIED" <=> \E f \in events' : f.key = k
        BY <1>2, <1>3, <2>2, <2>3, <2>4 DEF FactsMatchInbox
    <2>6. \A f \in events' : inbox'[f.key].version = f.new
        BY <1>2, <1>3, <2>2, <2>3, <2>4 DEF FactsMatchInbox
    <2>7. \A w \in WinnerKeys : winner'[w] # NoKey => inbox'[winner'[w]].code = "APPLIED"
        <3>1. \A w \in WinnerKeys : winner'[w] = winner[w] \/ winner'[w] = Key(c)
            BY <1>2, <2>1 DEF Apply, RegisterTypeOK
        <3>. QED BY <1>2, <1>3, <2>3, <2>4, <3>1 DEF FactsMatchInbox
    <2>8. \A i \in intents' : inbox'[i.key].code = "APPLIED"
        <3>1. \A i \in intents' : i \in intents \/ i.key = Key(c)
            BY <2>1 DEF Apply
        <3>. QED BY <1>2, <1>3, <2>3, <2>4, <3>1 DEF FactsMatchInbox
    <2>. QED BY <2>5, <2>6, <2>7, <2>8 DEF FactsMatchInbox
<1>5. CASE ResultCode(c, caller) # "APPLIED"
    <2>. DEFINE row == [bytes |-> c.bytes, code |-> ResultCode(c, caller),
                        version |-> version[Agg(c)]]
    <2>1. /\ UNCHANGED <<version, events, winner, intents>>
          /\ inbox' = [inbox EXCEPT ![Key(c)] = row]
        BY <1>1, <1>5, RejectedStep
    <2>2. inbox'[Key(c)].code # "APPLIED"
        BY <1>2, <1>5, <2>1 DEF RegisterTypeOK
    <2>3. \A k \in Keys : k # Key(c) => inbox'[k] = inbox[k]
        BY <1>2, <2>1 DEF RegisterTypeOK
    <2>. QED BY <1>2, <1>3, <2>1, <2>2, <2>3 DEF FactsMatchInbox
<1>. QED BY <1>4, <1>5

LEMMA SubmitAnswersAreFinal ==
    ASSUME RegisterInv, NEW c \in Submissions, NEW caller, Submit(c, caller)
    PROVE  AnswersAreFinal'
<1>. USE SubmissionTypes
<1>1. Commit(c, caller) /\ Acknowledge(c)
    BY DEF Submit
<1>2. AnswersAreFinal /\ RegisterTypeOK
    BY DEF RegisterInv
<1>3. PICK row \in Row : inbox' = [inbox EXCEPT ![Key(c)] = row]
    BY <1>1, CommitRow
<1>4. ~Recorded(Key(c))
    BY <1>1, CommitRow
<1>5. ASSUME NEW a \in answers PROVE a = Answer(a[1], inbox'[a[1]])
    <2>1. a[1] \in Keys /\ a[2] \in Codes /\ a = Answer(a[1], inbox[a[1]])
        BY <1>2 DEF AnswersAreFinal, RegisterTypeOK
    <2>2. inbox[a[1]].code \in Codes
        BY <2>1 DEF Answer
    <2>3. a[1] # Key(c)
        BY <1>4, <2>2 DEF Recorded, Codes, Guards
    <2>4. inbox'[a[1]] = inbox[a[1]]
        BY <1>2, <1>3, <2>1, <2>3 DEF RegisterTypeOK
    <2>. QED BY <2>1, <2>4
<1>6. ASSUME NEW a, a = Answer(Key(c), inbox'[Key(c)])
      PROVE  a = Answer(a[1], inbox'[a[1]])
    BY <1>6 DEF Answer
<1>. QED BY <1>1, <1>5, <1>6 DEF AnswersAreFinal, Acknowledge

LEMMA SubmitWinners ==
    ASSUME RegisterInv, NEW c \in Submissions, NEW caller, Submit(c, caller),
           NEW d \in Submissions, Won(d)'
    PROVE  winner'[d.winner] = Key(d)
<1>. USE SubmissionTypes
<1>1. Commit(c, caller)
    BY DEF Submit
<1>2. RegisterTypeOK /\ (Won(d) => winner[d.winner] = Key(d))
    BY DEF RegisterInv
<1>3. CASE ResultCode(c, caller) = "APPLIED"
    <2>. DEFINE row == [bytes |-> c.bytes, code |-> "APPLIED",
                        version |-> version[Agg(c)] + 1]
    <2>1. Apply(c) /\ ~Lost(c) /\ inbox' = [inbox EXCEPT ![Key(c)] = row]
        BY <1>1, <1>3, AppliedStep
    <2>2. inbox'[Key(c)] = row /\ row.bytes = c.bytes
        BY <1>2, <2>1 DEF RegisterTypeOK
    <2>3. winner' = IF c.winner = None THEN winner
                    ELSE [winner EXCEPT ![c.winner] = Key(c)]
        BY <2>1 DEF Apply
    <2>4. CASE Key(d) = Key(c)
        <3>1. d.winner = c.winner /\ c.winner # None
            BY <2>2, <2>4, SubmissionsAssumption DEF Won
        <3>. QED BY <1>2, <2>3, <2>4, <3>1 DEF RegisterTypeOK
    <2>5. CASE Key(d) # Key(c)
        <3>1. Won(d)
            BY <1>2, <2>1, <2>5 DEF Won, RegisterTypeOK
        <3>2. winner[d.winner] = Key(d) /\ d.winner \in WinnerKeys
            BY <1>2, <3>1 DEF Won
        <3>3. c.winner # d.winner
            BY <2>1, <3>2 DEF Lost, WinnerKeys
        <3>. QED BY <1>2, <2>3, <3>2, <3>3 DEF RegisterTypeOK
    <2>. QED BY <2>4, <2>5
<1>4. CASE ResultCode(c, caller) # "APPLIED"
    <2>. DEFINE row == [bytes |-> c.bytes, code |-> ResultCode(c, caller),
                        version |-> version[Agg(c)]]
    <2>1. winner' = winner /\ inbox' = [inbox EXCEPT ![Key(c)] = row]
        BY <1>1, <1>4, RejectedStep
    <2>2. Key(d) # Key(c)
        BY <1>2, <1>4, <2>1 DEF Won, RegisterTypeOK
    <2>3. Won(d)
        BY <1>2, <2>1, <2>2 DEF Won, RegisterTypeOK
    <2>. QED BY <1>2, <2>1, <2>3
<1>. QED BY <1>3, <1>4

LEMMA SubmitCheckpoint ==
    ASSUME RegisterInv, NEW c \in Submissions, NEW caller, Submit(c, caller)
    PROVE  CheckpointCovered' /\ rebuild'.count <= Cardinality(events')
<1>1. Cardinality(events) <= Cardinality(events') /\ EventsNumbered'
    BY SubmitTypeOK
<1>2. Cardinality(events) \in Nat /\ Cardinality(events') \in Nat
    BY <1>1, FS_CardinalityType DEF RegisterInv, EventsNumbered
<1>3. events \subseteq events'
    BY DEF Submit, Commit, Apply, Reject
<1>4. UNCHANGED <<rebuild, checkpoint>> /\ rebuild.count \in Nat
    BY DEF Submit, projection, RegisterInv, RegisterTypeOK
<1>. QED BY <1>1, <1>2, <1>3, <1>4 DEF RegisterInv, CheckpointCovered

\* The last event recorded exists once there is one, and its number is the count.
LEMMA SourceEventLast ==
    ASSUME EventsNumbered, events # {}
    PROVE  SourceEvent \in events /\ SourceEvent.at = Cardinality(events)
<1>. DEFINE n == Cardinality(events)
<1>1. n \in Nat
    BY FS_CardinalityType DEF EventsNumbered
<1>2. \A f \in events : f.at \in 1..n
    BY DEF EventsNumbered
<1>3. n >= 1
    BY <1>1, <1>2
<1>4. PICK e \in events : e.at = n
    BY <1>1, <1>3 DEF EventsNumbered
<1>5. \A f \in events : f.at <= e.at
    BY <1>1, <1>2, <1>4
<1>6. SourceEvent \in events /\ \A f \in events : f.at <= SourceEvent.at
    BY <1>5 DEF SourceEvent
<1>. QED BY <1>1, <1>2, <1>4, <1>6

LEMMA RegisterStep == RegisterInv /\ [RegisterNext]_registerVars => RegisterInv'
<1>. SUFFICES ASSUME RegisterInv, [RegisterNext]_registerVars PROVE RegisterInv'
    OBVIOUS
<1>. USE SubmissionTypes
<1>0. /\ RegisterTypeOK /\ PendingRows /\ VersionsDense /\ FactsMatchInbox /\ AnswersAreFinal
      /\ \A d \in Submissions : Won(d) => winner[d.winner] = Key(d)
      /\ EventsNumbered /\ rebuild.count <= Cardinality(events) /\ CheckpointCovered
    BY DEF RegisterInv
<1>n. Cardinality(events) \in Nat
    BY <1>0, FS_CardinalityType DEF EventsNumbered
<1>1. ASSUME NEW c \in Submissions, NEW caller \in Applications, Submit(c, caller)
      PROVE  RegisterInv'
    BY <1>1, SubmitTypeOK, SubmitPendingRows, SubmitVersionsDense, SubmitFactsMatchInbox,
       SubmitAnswersAreFinal, SubmitWinners, SubmitCheckpoint DEF RegisterInv
<1>2. ASSUME UNCHANGED facts, RegisterTypeOK', AnswersAreFinal', CheckpointCovered',
             rebuild'.count <= Cardinality(events)
      PROVE  RegisterInv'
    BY <1>0, <1>2 DEF facts, RegisterInv, PendingRows, VersionsDense, EventsOf,
                      FactsMatchInbox, EventsNumbered, Won
<1>3. ASSUME UNCHANGED facts, UNCHANGED answers PROVE AnswersAreFinal'
    BY <1>0, <1>3 DEF facts, AnswersAreFinal
<1>c. ASSUME UNCHANGED facts, UNCHANGED checkpoint PROVE CheckpointCovered'
    BY <1>0, <1>c DEF facts, CheckpointCovered
<1>4. ASSUME NEW c \in Submissions, Replay(c) PROVE RegisterInv'
    <2>. DEFINE a == Answer(Key(c), inbox[Key(c)])
    <2>1. /\ UNCHANGED facts /\ answers' = answers \cup {a}
          /\ UNCHANGED <<now, rebuild, checkpoint>> /\ Recorded(Key(c))
        BY <1>4 DEF Replay, projection
    <2>2. a \in Keys \X Codes \X Nat
        <3>1. inbox[Key(c)] \in Row
            BY <1>0 DEF RegisterTypeOK
        <3>2. inbox[Key(c)].code \in Codes /\ inbox[Key(c)].version \in Nat
            BY <2>1, <3>1 DEF Row, Recorded
        <3>. QED BY <3>2 DEF Answer
    <2>3. RegisterTypeOK'
        BY <1>0, <2>1, <2>2 DEF RegisterTypeOK, facts
    <2>4. a = Answer(a[1], inbox'[a[1]])
        BY <2>1 DEF Answer, facts
    <2>5. AnswersAreFinal'
        BY <1>0, <2>1, <2>4 DEF AnswersAreFinal, facts
    <2>. QED BY <1>0, <1>2, <1>c, <2>1, <2>3, <2>5
<1>5. CASE RebuildCount
    <2>1. RegisterTypeOK' /\ rebuild'.count <= Cardinality(events)
        BY <1>0, <1>n, <1>5 DEF RebuildCount, RegisterTypeOK, facts
    <2>. QED BY <1>2, <1>3, <1>c, <1>5, <2>1 DEF RebuildCount
<1>6. CASE RebuildInsert
    <2>1. /\ UNCHANGED facts /\ UNCHANGED <<now, answers>>
          /\ checkpoint'.event = IF events = {} THEN None ELSE SourceEvent.event
          /\ checkpoint'.sequence = rebuild.count
          /\ checkpoint' = [event |-> checkpoint'.event, sequence |-> checkpoint'.sequence]
          /\ rebuild' = [running |-> FALSE, count |-> 0]
        BY <1>6 DEF RebuildInsert, NoRebuild
    <2>2. rebuild.count \in Nat
        BY <1>0 DEF RegisterTypeOK
    <2>3. CASE events = {}
        <3>1. checkpoint'.event = None /\ checkpoint'.sequence = 0
            BY <1>0, <2>1, <2>2, <2>3, FS_EmptySet
        <3>2. CheckpointCovered' /\ RegisterTypeOK'
            BY <1>0, <2>1, <3>1 DEF CheckpointCovered, RegisterTypeOK, facts
        <3>. QED BY <1>2, <1>3, <1>n, <2>1, <3>2
    <2>4. CASE events # {}
        <3>1. SourceEvent \in events /\ rebuild.count <= SourceEvent.at
            BY <1>0, <2>4, SourceEventLast
        <3>2. SourceEvent.event \in EventIds
            BY <1>0, <3>1 DEF RegisterTypeOK, Event
        <3>3. RegisterTypeOK'
            BY <1>0, <2>1, <2>2, <2>4, <3>2 DEF RegisterTypeOK, facts
        <3>4. CheckpointCovered'
            BY <2>1, <2>4, <3>1, <3>2 DEF CheckpointCovered, facts, EventIds
        <3>. QED BY <1>2, <1>3, <1>n, <2>1, <3>3, <3>4
    <2>. QED BY <2>3, <2>4
<1>7. CASE Tick
    <2>1. RegisterTypeOK'
        BY <1>0, <1>7, MaxTimeAssumption DEF Tick, RegisterTypeOK, facts, projection
    <2>. QED BY <1>0, <1>2, <1>3, <1>c, <1>7, <2>1 DEF Tick, projection
<1>8. CASE UNCHANGED registerVars
    <2>1. RegisterTypeOK'
        BY <1>0, <1>8 DEF registerVars, RegisterTypeOK, facts, projection
    <2>. QED BY <1>0, <1>2, <1>3, <1>c, <1>8, <2>1 DEF registerVars, projection
<1>. QED BY <1>1, <1>4, <1>5, <1>6, <1>7, <1>8 DEF RegisterNext

\* The command register keeps its invariant, for any submissions and callers.
THEOREM RegisterSafety == RegisterSpec => []RegisterInv
<1>. QED BY RegisterInitInv, RegisterStep, PTL DEF RegisterSpec

\* Every table of the command protocol keeps its type.
THEOREM RegisterTypeCorrect == RegisterSpec => []RegisterTypeOK
<1>1. RegisterInv => RegisterTypeOK
    BY DEF RegisterInv
<1>. QED BY <1>1, RegisterSafety, PTL

\* commit_command_v1 gives each aggregate a dense version history.
THEOREM VersionsAreDense == RegisterSpec => []VersionsDense
<1>1. RegisterInv => VersionsDense
    BY DEF RegisterInv
<1>. QED BY <1>1, RegisterSafety, PTL

\* commit_command_v1 writes a command's row, event, winner and intent together.
THEOREM CommandsAreAtomic == RegisterSpec => []FactsMatchInbox
<1>1. RegisterInv => FactsMatchInbox
    BY DEF RegisterInv
<1>. QED BY <1>1, RegisterSafety, PTL

\* A command has one result, however often it is submitted or resolved.
THEOREM ResultsAreFinal == RegisterSpec => []AnswersAreFinal
<1>1. RegisterInv => AnswersAreFinal
    BY DEF RegisterInv
<1>. QED BY <1>1, RegisterSafety, PTL

\* single_winner_current admits one applied command per key.
THEOREM WinnersAreUnique == RegisterSpec => []OneWinnerPerKey
<1>1. RegisterInv => OneWinnerPerKey
    BY DEF RegisterInv, OneWinnerPerKey
<1>. QED BY <1>1, RegisterSafety, PTL

\* rebuild_projection_v1 never claims more than its source event covers.
THEOREM CheckpointsAreCovered == RegisterSpec => []CheckpointCovered
<1>1. RegisterInv => CheckpointCovered
    BY DEF RegisterInv
<1>. QED BY <1>1, RegisterSafety, PTL
-----------------------------------------------------------------------------
(***************************************************************************)
(* The refinement of VersionedLog.                                         *)
(***************************************************************************)
logs == [a \in Aggregates |-> LogOf(a)]
outcomes == [k \in Keys |-> [code |-> inbox[k].code, version |-> inbox[k].version]]

\* A set of events numbers the aggregate's versions 1..v without a repetition.
Numbers(E, a, v) ==
    /\ {e.new : e \in {x \in E : x.aggregate = a}} = 1..v
    /\ \A e, f \in E : e.aggregate = a /\ f.aggregate = a /\ e.new = f.new => e = f

\* The entry of a log is the command of the event with that version.
LEMMA LogEntry ==
    ASSUME NEW E, NEW a, NEW v, Numbers(E, a, v), NEW n \in 1..v
    PROVE  /\ \E e \in E : e.aggregate = a /\ e.new = n
           /\ \A e \in E : e.aggregate = a /\ e.new = n => LogFrom(E, a, v)[n] = e.key
<1>1. PICK e \in E : e.aggregate = a /\ e.new = n
    BY DEF Numbers
<1>2. ASSUME NEW f \in E, f.aggregate = a, f.new = n PROVE LogFrom(E, a, v)[n] = f.key
    <2>. DEFINE g == CHOOSE x \in E : x.aggregate = a /\ x.new = n
    <2>1. g \in E /\ g.aggregate = a /\ g.new = n
        BY <1>1
    <2>2. g = f
        BY <1>2, <2>1 DEF Numbers
    <2>. QED BY <2>2 DEF LogFrom
<1>. QED BY <1>1, <1>2

LEMMA LogType ==
    ASSUME NEW E, NEW a, NEW v \in Nat, Numbers(E, a, v), E \subseteq Event
    PROVE  LogFrom(E, a, v) \in Seq(Keys) /\ Len(LogFrom(E, a, v)) = v
<1>1. ASSUME NEW n \in 1..v PROVE LogFrom(E, a, v)[n] \in Keys
    BY LogEntry DEF Event
<1>2. LogFrom(E, a, v) = [n \in 1..v |-> LogFrom(E, a, v)[n]]
    BY DEF LogFrom
<1>3. LogFrom(E, a, v) \in [1..v -> Keys]
    BY <1>1, <1>2
<1>. HIDE DEF LogFrom
<1>4. LogFrom(E, a, v) \in Seq(Keys)
    BY <1>3, SeqDef
<1>5. DOMAIN LogFrom(E, a, v) = 1..v
    BY <1>3
<1>. QED BY <1>4, <1>5, LenProperties

\* An applied command extends one log by itself and leaves the others alone.
LEMMA AppliedExtendsLog ==
    ASSUME RegisterInv, RegisterInv', NEW c \in Submissions, NEW caller,
           Commit(c, caller), ResultCode(c, caller) = "APPLIED"
    PROVE  logs' = [logs EXCEPT ![Agg(c)] = Append(@, Key(c))]
<1>. USE SubmissionTypes
<1>. DEFINE a0 == Agg(c)
            new == version[a0] + 1
            e == [event |-> c.event, key |-> Key(c), aggregate |-> a0,
                  type |-> c.type, prior |-> new - 1, new |-> new,
                  at |-> Cardinality(events) + 1]
<1>1. /\ Apply(c)
      /\ version' = [version EXCEPT ![a0] = new]
      /\ version[a0] \in Nat
    BY AppliedStep
<1>2. events' = events \cup {e} /\ e.aggregate = a0 /\ e.new = new /\ e.key = Key(c)
    BY <1>1 DEF Apply
<1>. HIDE DEF e
<1>3. version \in [Aggregates -> Nat] /\ version' \in [Aggregates -> Nat]
    BY DEF RegisterInv, RegisterTypeOK
<1>n. ASSUME NEW a \in Aggregates
      PROVE  Numbers(events, a, version[a]) /\ Numbers(events', a, version'[a])
    BY DEF RegisterInv, VersionsDense, EventsOf, Numbers
<1>4. ASSUME NEW a \in Aggregates, NEW n \in 1..version[a]
      PROVE  LogFrom(events', a, version'[a])[n] = LogFrom(events, a, version[a])[n]
    <2>1. PICK f \in events : f.aggregate = a /\ f.new = n
        BY <1>n, LogEntry
    <2>2. LogFrom(events, a, version[a])[n] = f.key
        BY <1>n, <2>1, LogEntry
    <2>3. f \in events' /\ n \in 1..version'[a]
        BY <1>1, <1>2, <1>3, <2>1
    <2>4. LogFrom(events', a, version'[a])[n] = f.key
        BY <1>n, <2>1, <2>3, LogEntry
    <2>. QED BY <2>2, <2>4
<1>5. LogFrom(events', a0, version'[a0])[new] = Key(c)
    <2>1. e \in events' /\ new \in 1..version'[a0]
        BY <1>1, <1>2, <1>3
    <2>2. Numbers(events', a0, version'[a0])
        BY <1>n
    <2>. HIDE DEF new, a0
    <2>. QED BY <1>2, <2>1, <2>2, LogEntry
<1>6. LogFrom(events', a0, version'[a0]) = Append(LogFrom(events, a0, version[a0]), Key(c))
    <2>. DEFINE l == LogFrom(events, a0, version[a0])
                m == LogFrom(events', a0, version'[a0])
    <2>0. version'[a0] = new /\ new \in Nat
        BY <1>1, <1>3
    <2>1. l \in Seq(Keys) /\ Len(l) = version[a0]
        BY <1>1, <1>n, LogType DEF RegisterInv, RegisterTypeOK
    <2>2. m \in Seq(Keys) /\ Len(m) = new
        BY <2>0, <1>n, LogType DEF RegisterInv, RegisterTypeOK
    <2>3. \A n \in 1..version[a0] : m[n] = l[n]
        BY <1>4
    <2>4. m[new] = Key(c)
        BY <1>5
    <2>. HIDE DEF l, m
    <2>5. /\ Append(l, Key(c)) \in Seq(Keys)
          /\ Len(Append(l, Key(c))) = new
          /\ \A n \in 1..version[a0] : Append(l, Key(c))[n] = l[n]
          /\ Append(l, Key(c))[new] = Key(c)
        BY <2>1, AppendProperties
    <2>6. \A n \in 1..new : m[n] = Append(l, Key(c))[n]
        BY <1>1, <2>3, <2>4, <2>5
    <2>7. m = Append(l, Key(c))
        BY <2>2, <2>5, <2>6
    <2>. QED BY <2>7 DEF l, m
<1>7. ASSUME NEW a \in Aggregates, a # a0
      PROVE  LogFrom(events', a, version'[a]) = LogFrom(events, a, version[a])
    <2>1. version'[a] = version[a]
        BY <1>1, <1>3, <1>7
    <2>2. /\ LogFrom(events, a, version[a]) = [n \in 1..version[a] |-> LogFrom(events, a, version[a])[n]]
          /\ LogFrom(events', a, version[a]) = [n \in 1..version[a] |-> LogFrom(events', a, version[a])[n]]
        BY DEF LogFrom
    <2>. QED BY <1>4, <2>1, <2>2
<1>. QED BY <1>6, <1>7 DEF logs, LogOf

\* Writing one row changes one outcome.
LEMMA OutcomeOfRow ==
    ASSUME NEW S, NEW I, DOMAIN I = S, NEW k \in S, NEW row, NEW J,
           J = [I EXCEPT ![k] = row]
    PROVE  [x \in S |-> [code |-> J[x].code, version |-> J[x].version]] =
           [[x \in S |-> [code |-> I[x].code, version |-> I[x].version]] EXCEPT
               ![k] = [code |-> row.code, version |-> row.version]]
<1>1. \A x \in S : J[x] = IF x = k THEN row ELSE I[x]
    OBVIOUS
<1>. QED BY <1>1

\* Every step of the protocol is a step of the log or leaves it alone.
LEMMA StepImplementsLog ==
    ASSUME RegisterInv, RegisterInv', [RegisterNext]_registerVars
    PROVE  [Log!Next]_<<logs, outcomes>>
<1>. USE SubmissionTypes
<1>1. ASSUME NEW c \in Submissions, NEW caller \in Applications, Submit(c, caller)
      PROVE  Log!Next
    <2>0. Commit(c, caller) /\ inbox \in [Keys -> Row] /\ version \in [Aggregates -> Nat]
        BY <1>1 DEF Submit, RegisterInv, RegisterTypeOK
    <2>1. outcomes[Key(c)] = [code |-> "none", version |-> 0]
        BY <2>0 DEF outcomes, Commit, Recorded, RegisterInv, PendingRows, NoRow
    <2>2. Len(logs[Agg(c)]) = version[Agg(c)]
        <3>1. Numbers(events, Agg(c), version[Agg(c)])
            BY DEF RegisterInv, VersionsDense, EventsOf, Numbers
        <3>. QED BY <2>0, <3>1, LogType DEF logs, LogOf, RegisterInv, RegisterTypeOK
    <2>3. CASE ResultCode(c, caller) = "APPLIED"
        <3>1. logs' = [logs EXCEPT ![Agg(c)] = Append(@, Key(c))]
            BY <2>0, <2>3, AppliedExtendsLog
        <3>2. outcomes' = [outcomes EXCEPT ![Key(c)] =
                               [code |-> "APPLIED", version |-> Len(logs[Agg(c)]) + 1]]
            <4>. DEFINE row == [bytes |-> c.bytes, code |-> "APPLIED",
                                version |-> version[Agg(c)] + 1]
            <4>1. inbox' = [inbox EXCEPT ![Key(c)] = row]
                BY <2>0, <2>3, AppliedStep
            <4>2. row.code = "APPLIED" /\ row.version = Len(logs[Agg(c)]) + 1
                BY <2>2
            <4>3. DOMAIN inbox = Keys /\ Key(c) \in Keys
                BY <2>0
            <4>. HIDE DEF row
            <4>4. outcomes' = [outcomes EXCEPT ![Key(c)] =
                                   [code |-> row.code, version |-> row.version]]
                BY <4>1, <4>3, OutcomeOfRow DEF outcomes
            <4>. QED BY <4>2, <4>4
        <3>3. Log!Applied(Key(c), Agg(c))
            BY <2>1, <3>1, <3>2 DEF Log!Applied, Log!Pending, logs, outcomes
        <3>. QED BY <3>3 DEF Log!Next
    <2>4. CASE ResultCode(c, caller) # "APPLIED"
        <3>1. UNCHANGED <<version, events>> /\ ResultCode(c, caller) \in Codes \ {"APPLIED"}
            BY <2>0, <2>4, RejectedStep
        <3>2. logs' = logs
            BY <3>1 DEF logs, LogOf
        <3>3. outcomes' = [outcomes EXCEPT ![Key(c)] =
                  [code |-> ResultCode(c, caller), version |-> Len(logs[Agg(c)])]]
            <4>. DEFINE row == [bytes |-> c.bytes, code |-> ResultCode(c, caller),
                                version |-> version[Agg(c)]]
            <4>1. inbox' = [inbox EXCEPT ![Key(c)] = row]
                BY <2>0, <2>4, RejectedStep
            <4>2. row.code = ResultCode(c, caller) /\ row.version = Len(logs[Agg(c)])
                BY <2>2
            <4>3. DOMAIN inbox = Keys /\ Key(c) \in Keys
                BY <2>0
            <4>. HIDE DEF row
            <4>4. outcomes' = [outcomes EXCEPT ![Key(c)] =
                                   [code |-> row.code, version |-> row.version]]
                BY <4>1, <4>3, OutcomeOfRow DEF outcomes
            <4>. QED BY <4>2, <4>4
        <3>4. PICK code \in Codes \ {"APPLIED"} : code = ResultCode(c, caller)
            BY <3>1
        <3>5. Log!Refused(Key(c), Agg(c), code)
            BY <2>1, <3>2, <3>3, <3>4 DEF Log!Refused, Log!Pending, logs, outcomes
        <3>6. Key(c) \in Keys /\ Agg(c) \in Aggregates
            OBVIOUS
        <3>. QED BY <3>5, <3>6, Zenon DEF Log!Next
    <2>. QED BY <2>3, <2>4
<1>2. ASSUME UNCHANGED facts PROVE UNCHANGED <<logs, outcomes>>
    BY <1>2 DEF facts, logs, outcomes, LogOf
<1>3. CASE \E c \in Submissions : Replay(c)
    BY <1>2, <1>3 DEF Replay
<1>4. CASE RebuildCount \/ RebuildInsert \/ Tick \/ UNCHANGED registerVars
    BY <1>2, <1>4 DEF RebuildCount, RebuildInsert, Tick, registerVars
<1>. QED BY <1>1, <1>3, <1>4 DEF RegisterNext

\* commit_command_v1 and its tables implement VersionedLog: an append-only log
\* per aggregate and one outcome per command, decided in one step.
THEOREM RegisterImplementsLog == RegisterSpec => ImplementsLog
<1>1. RegisterInit => Log!Init
    <2>1. ASSUME RegisterInit PROVE logs = [a \in Aggregates |-> <<>>]
        BY <2>1 DEF RegisterInit, logs, LogOf, LogFrom
    <2>2. ASSUME RegisterInit PROVE outcomes = [k \in Keys |-> [code |-> "none", version |-> 0]]
        BY <2>2 DEF RegisterInit, outcomes, NoRow
    <2>. QED BY <2>1, <2>2 DEF Log!Init, Log!Pending, logs, outcomes
<1>2. RegisterInv /\ RegisterInv' /\ [RegisterNext]_registerVars
          => [Log!Next]_<<logs, outcomes>>
    BY StepImplementsLog
<1>. QED BY <1>1, <1>2, RegisterSafety, PTL DEF RegisterSpec, ImplementsLog, Log!Spec,
            logs, outcomes

-----------------------------------------------------------------------------
(* The approval lifecycle. *)

\* What a command's document says about the command.
Shape(c) ==
    /\ c.id = c.bytes
    /\ c.bytes = Document(c.bytes.action, c.bytes.proposal, c.bytes.subject)
    /\ c.bytes.proposal \in Proposals
    /\ \/ /\ c.type = "PROPOSAL_REVIEW_READY" /\ c.bytes.action = "READY"
          /\ c.app = "CONTROL_PLANE" /\ c.target = c.bytes.proposal /\ c.intent = None
       \/ /\ c.type \in Decisions /\ c.bytes.action = "DECIDE" /\ c.bytes.subject = c.type
          /\ c.app = "REVIEW_APPLICATION" /\ c.target = c.bytes.proposal /\ c.intent = None
          /\ c.winner = <<"proposal-decision", ManifestOf[c.bytes.proposal]>>
       \/ /\ c.type = "APPROVAL_REVOKED" /\ c.bytes.action = "REVOKE"
          /\ c.app = "REVIEW_APPLICATION" /\ c.target = c.bytes.proposal /\ c.intent = None
          /\ c.winner = TerminalKey(c.bytes.proposal)
       \/ /\ c.type = "APPROVAL_CONSUMED" /\ c.bytes.action = "CONSUME"
          /\ c.app = "PROMOTION_WORKER" /\ c.target = ApprovalOf(c.bytes.proposal)
          /\ c.intent = None /\ c.winner = TerminalKey(c.bytes.proposal)
       \/ /\ c.type = "APPROVAL_INVALIDATED" /\ c.bytes.action = "INVALIDATE"
          /\ c.app = "PROMOTION_WORKER" /\ c.target = ApprovalOf(c.bytes.proposal)
          /\ c.intent = None /\ c.winner = TerminalKey(c.bytes.proposal)
       \/ /\ c.type = "PROMOTION_EXECUTION_AUTHORIZED" /\ c.bytes.action = "AUTHORIZE"
          /\ c.app = "PROMOTION_WORKER" /\ c.target = c.bytes.subject /\ c.intent = None
       \/ /\ c.type = "PROMOTION_EXECUTION_BEGAN" /\ c.bytes.action = "BEGIN"
          /\ c.app = "PROMOTION_WORKER" /\ c.target = c.bytes.subject
          /\ c.bytes.subject \in Lineages

LEMMA CommandShapes ==
    ASSUME NEW c \in Submissions
    PROVE  Shape(c)
<1>. USE DEF Shape, Command, Document
<1>0. c \in LifecycleCommands
    BY CommandsAssumption
<1>1. ASSUME NEW p \in Proposals, c = ReadyCommand(p) PROVE Shape(c)
    BY <1>1 DEF ReadyCommand
<1>2. ASSUME NEW p \in Proposals, NEW type \in Decisions, c = DecisionCommand(p, type)
      PROVE  Shape(c)
    BY <1>2 DEF DecisionCommand
<1>3. ASSUME NEW p \in Proposals, c = RevokeCommand(p) PROVE Shape(c)
    BY <1>3 DEF RevokeCommand
<1>4. ASSUME NEW p \in Proposals, NEW l \in Lineages, c = ConsumeCommand(p, l) PROVE Shape(c)
    BY <1>4 DEF ConsumeCommand
<1>5. ASSUME NEW p \in Proposals, c = InvalidateCommand(p) PROVE Shape(c)
    BY <1>5 DEF InvalidateCommand
<1>6. ASSUME NEW p \in Proposals, NEW l \in Lineages, c = AuthorizeCommand(p, l) PROVE Shape(c)
    BY <1>6 DEF AuthorizeCommand
<1>7. ASSUME NEW p \in Proposals, NEW l \in Lineages, c = BeginCommand(p, l) PROVE Shape(c)
    BY <1>7 DEF BeginCommand
<1>. HIDE DEF Shape, Command, Document
<1>8. \/ \E p \in Proposals : c = ReadyCommand(p) \/ c = RevokeCommand(p) \/ c = InvalidateCommand(p)
      \/ \E p \in Proposals, type \in Decisions : c = DecisionCommand(p, type)
      \/ \E p \in Proposals, l \in Lineages :
             c = ConsumeCommand(p, l) \/ c = AuthorizeCommand(p, l) \/ c = BeginCommand(p, l)
    BY <1>0 DEF LifecycleCommands
<1>. QED BY <1>1, <1>2, <1>3, <1>4, <1>5, <1>6, <1>7, <1>8

\* The commands of the actions are submissions of their applications.
LEMMA CommandsAreSubmissions ==
    ASSUME NEW p \in Proposals, NEW l \in Lineages, NEW type \in Decisions
    PROVE  {ReadyCommand(p), DecisionCommand(p, type), RevokeCommand(p), ConsumeCommand(p, l),
            InvalidateCommand(p), AuthorizeCommand(p, l), BeginCommand(p, l)} \subseteq Submissions
BY CommandsAssumption DEF LifecycleCommands

LEMMA CommandApplications ==
    ASSUME NEW c \in Submissions
    PROVE  c.app \in Applications
BY CommandShapes, LifecycleAssumption DEF Shape

\* Two submissions with one document have one aggregate and one type.
LEMMA DocumentDecides ==
    ASSUME NEW c \in Submissions, NEW d \in Submissions, c.bytes = d.bytes
    PROVE  Agg(c) = Agg(d) /\ c.type = d.type /\ Key(c) = Key(d)
<1>1. Shape(c) /\ Shape(d)
    BY CommandShapes
<1>2. c.app = d.app /\ c.target = d.target /\ c.type = d.type
    BY <1>1 DEF Shape
<1>. QED BY <1>1, <1>2 DEF Agg, Key, Shape

-----------------------------------------------------------------------------
\* An issued command is a submission of the register, whose answer was lost.
LEMMA IssueIsSubmit ==
    ASSUME NEW c \in Submissions, Issue(c)
    PROVE  Submit(c, c.app) /\ c.app \in Applications
BY CommandApplications DEF Issue, Submit, Acknowledge

\* What a command writes: it adds facts of its own and changes no other.
LEMMA IssueWrites ==
    ASSUME RegisterInv, NEW c \in Submissions, Issue(c)
    PROVE  /\ events \subseteq events'
           /\ \A e \in events : inbox'[e.key] = inbox[e.key]
           /\ \A e \in events' : e \in events \/
                  /\ e.key = Key(c) /\ e.aggregate = Agg(c) /\ e.type = c.type
                  /\ inbox'[e.key].bytes = c.bytes
           /\ \A i \in intents' : i \in intents \/
                  /\ c.intent # None /\ i.key = Key(c)
                  /\ \E e \in events' : e.key = Key(c) /\ e.type = c.type
<1>. USE SubmissionTypes
<1>1. Commit(c, c.app)
    BY DEF Issue
<1>2. PICK row \in Row : row.bytes = c.bytes /\ inbox' = [inbox EXCEPT ![Key(c)] = row]
    BY <1>1, CommitRow
<1>3. ~Recorded(Key(c)) /\ inbox \in [Keys -> Row] /\ events \subseteq Event /\ FactsMatchInbox
    BY <1>1, CommitRow DEF RegisterInv, RegisterTypeOK
<1>4. \A e \in events : e.key \in Keys /\ e.key # Key(c)
    BY <1>3 DEF FactsMatchInbox, Recorded, Event
<1>5. \A e \in events : inbox'[e.key] = inbox[e.key]
    BY <1>2, <1>3, <1>4
<1>6. inbox'[Key(c)].bytes = c.bytes
    BY <1>2, <1>3
<1>7. CASE ResultCode(c, c.app) = "APPLIED"
    <2>. DEFINE new == version[Agg(c)] + 1
                e0 == [event |-> c.event, key |-> Key(c), aggregate |-> Agg(c), type |-> c.type,
                       prior |-> new - 1, new |-> new, at |-> Cardinality(events) + 1]
    <2>1. Apply(c)
        BY <1>1, <1>7, AppliedStep
    <2>2. events' = events \cup {e0}
        BY <2>1 DEF Apply
    <2>3. e0.key = Key(c) /\ e0.aggregate = Agg(c) /\ e0.type = c.type
        OBVIOUS
    <2>4. \A i \in intents' : i \in intents \/ (c.intent # None /\ i.key = Key(c))
        BY <2>1 DEF Apply
    <2>. HIDE DEF e0
    <2>. QED BY <1>5, <1>6, <2>2, <2>3, <2>4
<1>8. CASE ResultCode(c, c.app) # "APPLIED"
    <2>1. events' = events /\ intents' = intents
        BY <1>1, <1>8, RejectedStep
    <2>. QED BY <1>5, <2>1
<1>. QED BY <1>7, <1>8

\* The checks of the procedures, once true, stay true.
LEMMA ChecksAreStable ==
    ASSUME events \subseteq events', \A e \in events : inbox'[e.key] = inbox[e.key],
           NEW p, NEW l
    PROVE  /\ Approved(p) => Approved(p)'
           /\ ConsumedFor(p, l) => ConsumedFor(p, l)'
           /\ AuthorizedFor(p, l) => AuthorizedFor(p, l)'
<1>1. Ready(p) => Ready(p)'
    BY DEF Ready, EventsAt
<1>2. Approved(p) => Approved(p)'
    BY <1>1 DEF Approved, Approvings, EventsAt
<1>3. ConsumedFor(p, l) => ConsumedFor(p, l)'
    BY DEF ConsumedFor, EventsAt
<1>4. AuthorizedFor(p, l) => AuthorizedFor(p, l)'
    BY DEF AuthorizedFor, EventsAt
<1>. QED BY <1>2, <1>3, <1>4

\* A command issued after its checks keeps the invariant.
LEMMA IssueKeepsInv ==
    ASSUME LifecycleInv, NEW c \in Submissions, Issue(c), Checked(c)
    PROVE  LifecycleInv'
<1>1. RegisterInv /\ EventsAreIssued /\ IntentsAreBegun
    BY DEF LifecycleInv
<1>2. RegisterInv'
    BY <1>1, IssueIsSubmit, RegisterStep DEF RegisterNext
<1>3. /\ events \subseteq events'
      /\ \A e \in events : inbox'[e.key] = inbox[e.key]
      /\ \A e \in events' : e \in events \/
             /\ e.key = Key(c) /\ e.aggregate = Agg(c) /\ e.type = c.type
             /\ inbox'[e.key].bytes = c.bytes
      /\ \A i \in intents' : i \in intents \/
             /\ c.intent # None /\ i.key = Key(c)
             /\ \E e \in events' : e.key = Key(c) /\ e.type = c.type
    BY <1>1, IssueWrites
<1>4. ASSUME NEW d \in Submissions, Checked(d) PROVE Checked(d)'
    BY <1>3, <1>4, ChecksAreStable DEF Checked
<1>5. EventsAreIssued'
    <2>. SUFFICES ASSUME NEW e \in events'
                  PROVE  \E d \in Submissions :
                             /\ Key(d) = e.key /\ Agg(d) = e.aggregate /\ d.type = e.type
                             /\ d.bytes = inbox'[e.key].bytes
                             /\ Checked(d)'
        BY DEF EventsAreIssued
    <2>1. CASE e \in events
        <3>1. PICK d \in Submissions :
                  /\ Key(d) = e.key /\ Agg(d) = e.aggregate /\ d.type = e.type
                  /\ d.bytes = inbox[e.key].bytes
                  /\ Checked(d)
            BY <1>1, <2>1 DEF EventsAreIssued
        <3>2. Checked(d)' /\ inbox'[e.key] = inbox[e.key]
            BY <1>3, <1>4, <2>1, <3>1
        <3>. QED BY <3>1, <3>2
    <2>2. CASE e \notin events
        BY <1>3, <1>4, <2>2
    <2>. QED BY <2>1, <2>2
<1>6. IntentsAreBegun'
    <2>1. c.intent # None => c.type = "PROMOTION_EXECUTION_BEGAN"
        BY CommandShapes DEF Shape
    <2>. QED BY <1>1, <1>3, <2>1 DEF IntentsAreBegun, Begun
<1>. QED BY <1>2, <1>5, <1>6 DEF LifecycleInv

-----------------------------------------------------------------------------
\* Every action of the lifecycle that writes the register issues one command,
\* after the checks of its procedure.
LEMMA PromotionIssues ==
    ASSUME NEW p \in Proposals, Review(p) \/ Promotion(p)
    PROVE  \E c \in Submissions : Issue(c) /\ Checked(c)
<1>. USE CommandsAreSubmissions DEF Checked, TerminalTypes, Decisions, Command, Document
<1>1. CASE RegisterReviewReady(p)
    <2>1. ReadyCommand(p) \in Submissions
        BY CommandsAssumption DEF LifecycleCommands
    <2>2. Issue(ReadyCommand(p)) /\ Checked(ReadyCommand(p))
        BY <1>1 DEF RegisterReviewReady, ReadyCommand
    <2>. QED BY <2>1, <2>2
<1>2. ASSUME NEW type \in Decisions, Decide(p, type)
      PROVE  \E c \in Submissions : Issue(c) /\ Checked(c)
    <2>1. DecisionCommand(p, type) \in Submissions
        BY CommandsAssumption DEF LifecycleCommands
    <2>2. Issue(DecisionCommand(p, type)) /\ Checked(DecisionCommand(p, type))
        BY <1>2 DEF Decide, DecisionCommand
    <2>. QED BY <2>1, <2>2
<1>3. CASE Revoke(p)
    <2>1. RevokeCommand(p) \in Submissions
        BY CommandsAssumption DEF LifecycleCommands
    <2>2. Issue(RevokeCommand(p)) /\ Checked(RevokeCommand(p))
        BY <1>3 DEF Revoke, RevokeCommand
    <2>. QED BY <2>1, <2>2
<1>4. CASE Invalidate(p)
    <2>1. InvalidateCommand(p) \in Submissions
        BY CommandsAssumption DEF LifecycleCommands
    <2>2. Issue(InvalidateCommand(p)) /\ Checked(InvalidateCommand(p))
        BY <1>4 DEF Invalidate, InvalidateCommand
    <2>. QED BY <2>1, <2>2
<1>5. ASSUME NEW l \in Lineages, Consume(p, l)
      PROVE  \E c \in Submissions : Issue(c) /\ Checked(c)
    <2>1. ConsumeCommand(p, l) \in Submissions
        BY CommandsAssumption DEF LifecycleCommands
    <2>2. Issue(ConsumeCommand(p, l)) /\ Checked(ConsumeCommand(p, l))
        BY <1>5 DEF Consume, ConsumeCommand
    <2>. QED BY <2>1, <2>2
<1>6. ASSUME NEW l \in Lineages, Authorize(p, l)
      PROVE  \E c \in Submissions : Issue(c) /\ Checked(c)
    <2>1. AuthorizeCommand(p, l) \in Submissions
        BY CommandsAssumption DEF LifecycleCommands
    <2>2. Issue(AuthorizeCommand(p, l)) /\ Checked(AuthorizeCommand(p, l))
        BY <1>6 DEF Authorize, AuthorizeCommand
    <2>. QED BY <2>1, <2>2
<1>7. ASSUME NEW l \in Lineages, Begin(p, l)
      PROVE  \E c \in Submissions : Issue(c) /\ Checked(c)
    <2>1. BeginCommand(p, l) \in Submissions
        BY CommandsAssumption DEF LifecycleCommands
    <2>2. Issue(BeginCommand(p, l)) /\ Checked(BeginCommand(p, l))
        BY <1>7 DEF Begin, BeginCommand
    <2>. QED BY <2>1, <2>2
<1>. QED BY <1>1, <1>2, <1>3, <1>4, <1>5, <1>6, <1>7 DEF Review, Promotion

\* A step of the lifecycle issues one checked command, or moves the clock and
\* leaves the facts alone, or leaves the whole register alone.
LEMMA LifecycleStepKinds ==
    ASSUME [LifecycleNext]_lifecycleVars
    PROVE  \/ \E c \in Submissions : Issue(c) /\ Checked(c)
           \/ Tick
           \/ UNCHANGED registerVars
<1>1. CASE UNCHANGED lifecycleVars
    BY <1>1 DEF lifecycleVars
<1>2. ASSUME NEW p \in Proposals, Review(p) \/ Promotion(p)
      PROVE  \E c \in Submissions : Issue(c) /\ Checked(c)
    BY <1>2, PromotionIssues
<1>3. ASSUME NEW w \in Workers, Claiming(w) \/ (\E l \in Lineages : AcknowledgeStarted(w, l)) \/ Crash(w)
      PROVE  UNCHANGED registerVars
    BY <1>3 DEF Claiming, ClaimNext, AcknowledgeStarted, Crash
<1>. QED BY <1>1, <1>2, <1>3 DEF LifecycleNext

LEMMA LifecycleInitInv == LifecycleInit => LifecycleInv
<1>. SUFFICES ASSUME LifecycleInit PROVE LifecycleInv
    OBVIOUS
<1>1. RegisterInit /\ RegisterInv
    BY RegisterInitInv DEF LifecycleInit
<1>. QED BY <1>1 DEF RegisterInit, LifecycleInv, EventsAreIssued, IntentsAreBegun

LEMMA LifecycleStep == LifecycleInv /\ [LifecycleNext]_lifecycleVars => LifecycleInv'
<1>. SUFFICES ASSUME LifecycleInv, [LifecycleNext]_lifecycleVars PROVE LifecycleInv'
    OBVIOUS
<1>1. ASSUME NEW c \in Submissions, Issue(c), Checked(c) PROVE LifecycleInv'
    BY <1>1, IssueKeepsInv
<1>2. CASE Tick \/ UNCHANGED registerVars
    <2>1. RegisterInv'
        BY <1>2, RegisterStep DEF RegisterNext, LifecycleInv
    <2>2. UNCHANGED <<inbox, events, intents>>
        BY <1>2 DEF Tick, registerVars, facts
    <2>3. ASSUME NEW d \in Submissions, Checked(d) PROVE Checked(d)'
        BY <2>2, <2>3, ChecksAreStable DEF Checked
    <2>5. EventsAreIssued'
        BY <2>2, <2>3 DEF LifecycleInv, EventsAreIssued
    <2>4. IntentsAreBegun'
        BY <2>2 DEF LifecycleInv, IntentsAreBegun, Begun
    <2>. QED BY <2>1, <2>4, <2>5 DEF LifecycleInv
<1>. QED BY <1>1, <1>2, LifecycleStepKinds

\* The inductive invariant of the lifecycle holds in every reachable state.
THEOREM LifecycleSafety == LifecycleSpec => []LifecycleInv
BY LifecycleInitInv, LifecycleStep, PTL DEF LifecycleSpec

\* The lifecycle writes the register through commit_command_v1 alone: each of
\* its behaviours is a behaviour of the command protocol.
THEOREM LifecycleUsesRegister == LifecycleSpec => RegisterSpec
<1>1. LifecycleInit => RegisterInit
    BY DEF LifecycleInit
<1>2. [LifecycleNext]_lifecycleVars => [RegisterNext]_registerVars
    <2>. SUFFICES ASSUME [LifecycleNext]_lifecycleVars PROVE RegisterNext \/ UNCHANGED registerVars
        OBVIOUS
    <2>1. ASSUME NEW c \in Submissions, Issue(c) PROVE RegisterNext
        BY <2>1, IssueIsSubmit DEF RegisterNext
    <2>. QED BY <2>1, LifecycleStepKinds DEF RegisterNext
<1>. QED BY <1>1, <1>2, PTL DEF LifecycleSpec, RegisterSpec
-----------------------------------------------------------------------------
\* The command an event was recorded for.
LEMMA EventCommand ==
    ASSUME LifecycleInv, NEW e \in events
    PROVE  \E c \in Submissions :
               /\ Key(c) = e.key /\ Agg(c) = e.aggregate /\ c.type = e.type
               /\ c.bytes = inbox[e.key].bytes
               /\ Shape(c) /\ Checked(c)
               /\ c.winner # None => Won(c)
<1>1. PICK c \in Submissions :
          /\ Key(c) = e.key /\ Agg(c) = e.aggregate /\ c.type = e.type
          /\ c.bytes = inbox[e.key].bytes
          /\ Checked(c)
    BY DEF LifecycleInv, EventsAreIssued
<1>2. inbox[e.key].code = "APPLIED"
    BY <1>1, SubmissionTypes DEF LifecycleInv, RegisterInv, FactsMatchInbox
<1>. QED BY <1>1, <1>2, CommandShapes DEF Won

\* A command has one event.
LEMMA OneEventPerCommand ==
    ASSUME LifecycleInv, NEW e \in events, NEW f \in events,
           inbox[e.key].bytes = inbox[f.key].bytes
    PROVE  e = f
<1>1. PICK c \in Submissions : Key(c) = e.key /\ Agg(c) = e.aggregate
                                /\ c.bytes = inbox[e.key].bytes
    BY EventCommand
<1>2. PICK d \in Submissions : Key(d) = f.key /\ Agg(d) = f.aggregate
                                /\ d.bytes = inbox[f.key].bytes
    BY EventCommand
<1>3. e.aggregate = f.aggregate /\ e.key = f.key
    BY <1>1, <1>2, DocumentDecides
<1>4. e.new = f.new
    BY <1>3 DEF LifecycleInv, RegisterInv, FactsMatchInbox
<1>. QED BY <1>3, <1>4 DEF LifecycleInv, RegisterInv, VersionsDense

\* Two events whose commands compete for one winner key are one event.
LEMMA OneEventPerWinner ==
    ASSUME LifecycleInv, NEW e \in events, NEW f \in events,
           NEW c \in Submissions, NEW d \in Submissions,
           Key(c) = e.key, Key(d) = f.key, Won(c), Won(d), c.winner = d.winner
    PROVE  e = f
<1>1. Key(c) = Key(d)
    BY DEF LifecycleInv, RegisterInv
<1>. QED BY <1>1, OneEventPerCommand

LEMMA TerminalEventsAreOne ==
    ASSUME LifecycleInv
    PROVE  OneTerminalEvent
<1>. SUFFICES ASSUME NEW a \in Approvals, NEW e \in TerminalEvents(a), NEW f \in TerminalEvents(a)
              PROVE  e = f
    BY DEF OneTerminalEvent
<1>1. /\ e \in events /\ e.type \in TerminalTypes /\ ApprovalOf(inbox[e.key].bytes.proposal) = a
      /\ f \in events /\ f.type \in TerminalTypes /\ ApprovalOf(inbox[f.key].bytes.proposal) = a
    BY DEF TerminalEvents
<1>2. ASSUME NEW g \in events, g.type \in TerminalTypes,
             ApprovalOf(inbox[g.key].bytes.proposal) = a
      PROVE  \E c \in Submissions :
                 Key(c) = g.key /\ Won(c) /\ c.winner = <<"approval-terminal", a>>
    <2>1. PICK c \in Submissions :
              /\ Key(c) = g.key /\ c.type = g.type /\ c.bytes = inbox[g.key].bytes
              /\ Shape(c) /\ (c.winner # None => Won(c))
        BY <1>2, EventCommand
    <2>2. c.winner = TerminalKey(c.bytes.proposal) /\ c.bytes.proposal \in Proposals
        BY <1>2, <2>1 DEF Shape, TerminalTypes, Decisions
    <2>3. c.winner # None
        BY <2>2, LifecycleAssumption DEF TerminalKey, ApprovalOf, Approval
    <2>. QED BY <1>2, <2>1, <2>2, <2>3 DEF TerminalKey
<1>. QED BY <1>1, <1>2, OneEventPerWinner

LEMMA DecisionsAreOne ==
    ASSUME LifecycleInv
    PROVE  OneDecisionPerManifest
<1>. SUFFICES ASSUME NEW m \in Manifests, NEW e \in DecisionEvents(m), NEW f \in DecisionEvents(m)
              PROVE  e = f
    BY DEF OneDecisionPerManifest
<1>1. /\ e \in events /\ e.type \in Decisions /\ ManifestOf[inbox[e.key].bytes.proposal] = m
      /\ f \in events /\ f.type \in Decisions /\ ManifestOf[inbox[f.key].bytes.proposal] = m
    BY DEF DecisionEvents
<1>2. ASSUME NEW g \in events, g.type \in Decisions, ManifestOf[inbox[g.key].bytes.proposal] = m
      PROVE  \E c \in Submissions :
                 Key(c) = g.key /\ Won(c) /\ c.winner = <<"proposal-decision", m>>
    <2>1. PICK c \in Submissions :
              /\ Key(c) = g.key /\ c.type = g.type /\ c.bytes = inbox[g.key].bytes
              /\ Shape(c) /\ (c.winner # None => Won(c))
        BY <1>2, EventCommand
    <2>2. c.winner = <<"proposal-decision", m>>
        BY <1>2, <2>1 DEF Shape, Decisions
    <2>. QED BY <2>1, <2>2, LifecycleAssumption
<1>. QED BY <1>1, <1>2, OneEventPerWinner

\* What must be behind an execution that began for proposal p on lineage l.
Backed(p, l) == Approved(p) /\ ConsumedFor(p, l) /\ AuthorizedFor(p, l)

LEMMA BegunIsBacked ==
    ASSUME LifecycleInv, NEW e \in Begun
    PROVE  \E p \in Proposals, l \in Lineages :
               inbox[e.key].bytes = Document("BEGIN", p, l) /\ Backed(p, l)
<1>. USE DEF Document
<1>1. PICK c \in Submissions : c.type = e.type /\ c.bytes = inbox[e.key].bytes
                                /\ Shape(c) /\ Checked(c)
    BY EventCommand DEF Begun
<1>2. PICK p, l : p = c.bytes.proposal /\ l = c.bytes.subject
    OBVIOUS
<1>3. c.bytes = Document("BEGIN", p, l) /\ p \in Proposals /\ l \in Lineages
    BY <1>1, <1>2 DEF Shape, Begun, Decisions
<1>4. AuthorizedFor(p, l)
    BY <1>1, <1>2 DEF Checked, Begun
<1>5. PICK g \in events : g.type = "PROMOTION_EXECUTION_AUTHORIZED"
                           /\ inbox[g.key].bytes = Document("AUTHORIZE", p, l)
    BY <1>4 DEF AuthorizedFor, EventsAt
<1>6. PICK d \in Submissions : d.type = g.type /\ d.bytes = inbox[g.key].bytes /\ Checked(d)
    BY EventCommand
<1>7. ConsumedFor(p, l)
    BY <1>5, <1>6 DEF Checked
<1>8. PICK k \in events : k.type = "APPROVAL_CONSUMED"
                           /\ inbox[k.key].bytes = Document("CONSUME", p, l)
    BY <1>7 DEF ConsumedFor, EventsAt
<1>9. PICK b \in Submissions : b.type = k.type /\ b.bytes = inbox[k.key].bytes /\ Checked(b)
    BY EventCommand
<1>10. Approved(p)
    BY <1>8, <1>9 DEF Checked, TerminalTypes
<1>. QED BY <1>1, <1>3, <1>4, <1>7, <1>10 DEF Backed

\* The event that consumed an Approval is its only terminal event, so the
\* Approval was not withdrawn.
LEMMA ConsumedIsNotWithdrawn ==
    ASSUME LifecycleInv, NEW p \in Proposals, NEW l, ConsumedFor(p, l)
    PROVE  ~Withdrawn(p)
<1>. USE DEF EventsAt
<1>1. PICK k \in events : k.type = "APPROVAL_CONSUMED"
                           /\ inbox[k.key].bytes = Document("CONSUME", p, l)
    BY DEF ConsumedFor
<1>2. ApprovalOf(p) \in Approvals /\ k \in TerminalEvents(ApprovalOf(p))
    BY <1>1, LifecycleAssumption DEF Document, TerminalEvents, TerminalTypes, Approvals, ApprovalOf
<1>3. ASSUME NEW x \in events, x.type \in {"APPROVAL_REVOKED", "APPROVAL_INVALIDATED"},
             \/ x.aggregate = <<"REVIEW_APPLICATION", p>>
             \/ x.aggregate = <<"PROMOTION_WORKER", ApprovalOf(p)>>
                /\ x.type = "APPROVAL_INVALIDATED"
      PROVE  FALSE
    <2>1. PICK y \in Submissions : Agg(y) = x.aggregate /\ y.type = x.type
                                    /\ y.bytes = inbox[x.key].bytes /\ Shape(y)
        BY EventCommand
    <2>2. \/ y.app = "REVIEW_APPLICATION" /\ y.target = p
          \/ y.app = "PROMOTION_WORKER" /\ y.target = ApprovalOf(p) /\ x.type = "APPROVAL_INVALIDATED"
        BY <1>3, <2>1 DEF Agg
    <2>3. ApprovalOf(y.bytes.proposal) = ApprovalOf(p)
        BY <1>3, <2>1, <2>2 DEF Shape, Decisions
    <2>4. x \in TerminalEvents(ApprovalOf(p))
        BY <1>3, <2>1, <2>3 DEF TerminalEvents, TerminalTypes
    <2>5. x = k
        BY <1>2, <2>4, TerminalEventsAreOne DEF OneTerminalEvent
    <2>. QED BY <1>1, <1>3, <2>5
<1>. QED BY <1>3 DEF Withdrawn

\* Two executions of one Approval, or on one lineage, are one execution.
LEMMA OneExecution ==
    ASSUME LifecycleInv, NEW e \in Begun, NEW f \in Begun,
           NEW p \in Proposals, NEW l, NEW q \in Proposals, NEW m,
           inbox[e.key].bytes = Document("BEGIN", p, l), Backed(p, l),
           inbox[f.key].bytes = Document("BEGIN", q, m), Backed(q, m),
           ApprovalOf(p) = ApprovalOf(q) \/ l = m
    PROVE  e = f
<1>. USE DEF EventsAt
<1>1. p = q /\ l = m
    <2>1. CASE ApprovalOf(p) = ApprovalOf(q)
        <3>1. PICK j \in events : j.type = "APPROVAL_CONSUMED"
                                   /\ inbox[j.key].bytes = Document("CONSUME", p, l)
            BY DEF Backed, ConsumedFor
        <3>2. PICK k \in events : k.type = "APPROVAL_CONSUMED"
                                   /\ inbox[k.key].bytes = Document("CONSUME", q, m)
            BY DEF Backed, ConsumedFor
        <3>3. /\ ApprovalOf(p) \in Approvals
              /\ j \in TerminalEvents(ApprovalOf(p)) /\ k \in TerminalEvents(ApprovalOf(p))
            BY <2>1, <3>1, <3>2, LifecycleAssumption
            DEF Document, TerminalEvents, TerminalTypes, Approvals, ApprovalOf
        <3>4. j = k
            BY <3>3, TerminalEventsAreOne DEF OneTerminalEvent
        <3>. QED BY <3>1, <3>2, <3>4 DEF Document
    <2>2. CASE l = m
        <3>1. PICK j \in events : j.aggregate = <<"PROMOTION_WORKER", l>> /\ j.new = 1
                                   /\ inbox[j.key].bytes = Document("AUTHORIZE", p, l)
            BY DEF Backed, AuthorizedFor
        <3>2. PICK k \in events : k.aggregate = <<"PROMOTION_WORKER", m>> /\ k.new = 1
                                   /\ inbox[k.key].bytes = Document("AUTHORIZE", q, m)
            BY DEF Backed, AuthorizedFor
        <3>3. j = k
            BY <2>2, <3>1, <3>2 DEF LifecycleInv, RegisterInv, VersionsDense
        <3>. QED BY <2>2, <3>1, <3>2, <3>3 DEF Document
    <2>. QED BY <2>1, <2>2
<1>. QED BY <1>1, OneEventPerCommand DEF Begun

LEMMA BegunExecutionsAreApproved ==
    ASSUME LifecycleInv
    PROVE  ExecutionsAreApproved
<1>1. ASSUME NEW e \in Begun
      PROVE  /\ Approved(inbox[e.key].bytes.proposal)
             /\ ConsumedFor(inbox[e.key].bytes.proposal, inbox[e.key].bytes.subject)
             /\ AuthorizedFor(inbox[e.key].bytes.proposal, inbox[e.key].bytes.subject)
             /\ ~Withdrawn(inbox[e.key].bytes.proposal)
    <2>1. PICK p \in Proposals, l \in Lineages :
              inbox[e.key].bytes = Document("BEGIN", p, l) /\ Backed(p, l)
        BY BegunIsBacked
    <2>2. inbox[e.key].bytes.proposal = p /\ inbox[e.key].bytes.subject = l
        BY <2>1 DEF Document
    <2>3. ~Withdrawn(p)
        BY <2>1, ConsumedIsNotWithdrawn DEF Backed
    <2>. QED BY <2>1, <2>2, <2>3 DEF Backed
<1>2. ASSUME NEW e \in Begun, NEW f \in Begun,
             \/ ApprovalOf(inbox[e.key].bytes.proposal) = ApprovalOf(inbox[f.key].bytes.proposal)
             \/ inbox[e.key].bytes.subject = inbox[f.key].bytes.subject
      PROVE  e = f
    <2>1. PICK p \in Proposals, l \in Lineages :
              inbox[e.key].bytes = Document("BEGIN", p, l) /\ Backed(p, l)
        BY BegunIsBacked
    <2>2. PICK q \in Proposals, m \in Lineages :
              inbox[f.key].bytes = Document("BEGIN", q, m) /\ Backed(q, m)
        BY BegunIsBacked
    <2>3. ApprovalOf(p) = ApprovalOf(q) \/ l = m
        BY <1>2, <2>1, <2>2 DEF Document
    <2>. QED BY <2>1, <2>2, <2>3, OneExecution
<1>. QED BY <1>1, <1>2 DEF ExecutionsAreApproved, LifecycleInv, IntentsAreBegun
-----------------------------------------------------------------------------
\* Revocation, consumption and invalidation exclude each other.
THEOREM ApprovalsEndOnce == LifecycleSpec => []OneTerminalEvent
BY LifecycleSafety, TerminalEventsAreOne, PTL

\* A manifest is decided at most once, whatever proposals carry it.
THEOREM ManifestsAreDecidedOnce == LifecycleSpec => []OneDecisionPerManifest
BY LifecycleSafety, DecisionsAreOne, PTL

\* Nothing is executed that was not approved, consumed and authorized for it,
\* nothing withdrawn is executed, and no Approval is executed twice.
THEOREM OnlyApprovedExecutions == LifecycleSpec => []ExecutionsAreApproved
BY LifecycleSafety, BegunExecutionsAreApproved, PTL
-----------------------------------------------------------------------------
\* The queue.  A claim is a record with a positive token, which NoClaim lacks.
LEMMA ClaimTypes ==
    ASSUME NEW x \in Claim \cup {NoClaim}
    PROVE  /\ x.token \in Nat /\ x.until \in Nat
           /\ x # NoClaim => x \in Claim /\ x.token \in 1..MaxToken /\ x.proposal \in Proposals
           /\ x = NoClaim => x.token = 0 /\ x.until = 0
BY MaxTimeAssumption, LifecycleAssumption DEF Claim, NoClaim

LEMMA ApprovalsOfProposals ==
    ASSUME NEW p \in Proposals
    PROVE  ApprovalOf(p) \in Approvals
BY LifecycleAssumption DEF ApprovalOf, Approvals

\* The row a claim leaves: of the same Approval, the row there was or, when that
\* has lapsed, its next generation.
LEMMA ClaimRows ==
    ASSUME QueueInv, now \in Nat, NEW w \in Workers, NEW p \in Proposals,
           NEW until \in 1..(MaxTime + 1), ClaimNext(w, p, until)
    PROVE  LET old == claims[ApprovalOf(p)]
               row == ClaimRow(w, p, until)
           IN  /\ row \in Claim /\ row.worker = w /\ ApprovalOf(row.proposal) = ApprovalOf(p)
               /\ \/ row = old
                  \/ ~Live(old) /\ row.token = old.token + 1
<1>. DEFINE old == claims[ApprovalOf(p)]
            row == ClaimRow(w, p, until)
<1>1. old \in Claim \cup {NoClaim} /\ ApprovalOf(p) \in Approvals
    BY ApprovalsOfProposals DEF QueueInv, QueueTypeOK
<1>2. row.token <= MaxToken /\ Offered(w, p)
    BY DEF ClaimNext, First
<1>3. CASE Live(old)
    <2>1. row = old /\ old.worker = w
        BY <1>2, <1>3 DEF ClaimRow, Offered
    <2>2. old # NoClaim
        BY <1>1, <1>3, ClaimTypes DEF Live
    <2>. QED BY <1>1, <2>1, <2>2 DEF QueueInv
<1>4. CASE ~Live(old)
    <2>1. row = [proposal |-> p, worker |-> w, until |-> until, token |-> old.token + 1]
        BY <1>4 DEF ClaimRow
    <2>2. old.token \in Nat
        BY <1>1, ClaimTypes
    <2>3. old.token + 1 \in 1..MaxToken
        BY <1>2, <2>1, <2>2, LifecycleAssumption
    <2>. QED BY <1>4, <2>1, <2>3 DEF Claim
<1>. QED BY <1>3, <1>4

LEMMA ClaimKeepsQueue ==
    ASSUME QueueInv, now \in Nat, NEW w \in Workers, NEW p \in Proposals,
           NEW until \in 1..(MaxTime + 1), ClaimNext(w, p, until)
    PROVE  QueueInv'
<1>. DEFINE a == ApprovalOf(p)
            old == claims[a]
            row == ClaimRow(w, p, until)
<1>1. /\ row \in Claim /\ row.worker = w /\ ApprovalOf(row.proposal) = a
      /\ \/ row = old
         \/ ~Live(old) /\ row.token = old.token + 1
    BY ClaimRows
<1>2. /\ claims' = [claims EXCEPT ![a] = row]
      /\ held' = [held EXCEPT ![w] = row] \/ held' = held
      /\ UNCHANGED <<registerVars, acks>>
      /\ acks[a] = NoAck
    BY DEF ClaimNext, First, Offered
<1>3. a \in Approvals /\ QueueTypeOK /\ old \in Claim \cup {NoClaim}
    BY ApprovalsOfProposals DEF QueueInv, QueueTypeOK
<1>. HIDE DEF row
<1>4. QueueTypeOK'
    BY <1>1, <1>2, <1>3 DEF QueueTypeOK
<1>5. \A b \in Approvals : claims'[b] # NoClaim => ApprovalOf(claims'[b].proposal) = b
    BY <1>1, <1>2, <1>3 DEF QueueInv, QueueTypeOK
<1>6. UNCHANGED now
    BY <1>2 DEF registerVars
<1>7. HeldAreBehind'
    <2>. SUFFICES ASSUME NEW v \in Workers, held'[v] # NoClaim
                  PROVE  LET r == claims'[ApprovalOf(held'[v].proposal)] IN
                         /\ held'[v].worker = v
                         /\ held'[v].token <= r.token
                         /\ held'[v].token = r.token => held'[v] = r
                         /\ held'[v].token < r.token => ~(held'[v].until > now)
        BY <1>6 DEF HeldAreBehind, Live
    <2>1. row.token \in Nat /\ old.token \in Nat /\ claims'[a] = row
        BY <1>1, <1>2, <1>3, ClaimTypes DEF QueueTypeOK
    <2>2. CASE held'[v] = row /\ v = w
        BY <1>1, <2>1, <2>2
    <2>3. CASE held'[v] = held[v]
        <3>. DEFINE b == ApprovalOf(held[v].proposal)
        <3>1. held[v] \in Claim /\ held[v].token \in Nat /\ held[v].proposal \in Proposals
            BY <1>3, <2>3, ClaimTypes DEF QueueTypeOK
        <3>2. b \in Approvals
            BY <3>1, ApprovalsOfProposals
        <3>3. /\ held[v].worker = v
              /\ held[v].token <= claims[b].token
              /\ held[v].token = claims[b].token => held[v] = claims[b]
              /\ held[v].token < claims[b].token => ~(held[v].until > now)
            BY <2>3 DEF QueueInv, HeldAreBehind, Live
        <3>4. CASE b # a
            <4>1. claims'[b] = claims[b]
                BY <1>2, <1>3, <3>2, <3>4 DEF QueueTypeOK
            <4>. QED BY <2>3, <3>3, <4>1
        <3>5. CASE b = a /\ row = old
            <4>1. claims'[b] = claims[b]
                BY <2>1, <3>5
            <4>. QED BY <2>3, <3>3, <4>1
        <3>6. CASE b = a /\ ~Live(old) /\ row.token = old.token + 1
            <4>1. held[v].token < row.token /\ ~(held[v].until > now)
                BY <2>1, <3>1, <3>3, <3>6 DEF Live
            <4>. QED BY <2>1, <2>3, <3>1, <3>3, <3>6, <4>1
        <3>. QED BY <1>1, <3>4, <3>5, <3>6
    <2>. QED BY <1>2, <1>3, <2>2, <2>3 DEF QueueTypeOK
<1>8. AcknowledgedUnderNewestFence'
    <2>. SUFFICES ASSUME NEW b \in Approvals, acks'[b] # NoAck
                  PROVE  /\ acks'[b].token = claims'[b].token
                         /\ ConsumedFor(claims[b].proposal, acks[b].lineage)'
        BY DEF AcknowledgedUnderNewestFence
    <2>1. claims'[b] = claims[b] /\ acks' = acks /\ events' = events /\ inbox' = inbox
        BY <1>2, <1>3 DEF QueueTypeOK, registerVars, facts
    <2>2. acks[b].token = claims[b].token /\ ConsumedFor(claims[b].proposal, acks[b].lineage)
        BY <2>1 DEF QueueInv, AcknowledgedUnderNewestFence
    <2>. QED BY <2>1, <2>2 DEF ConsumedFor, EventsAt
<1>. QED BY <1>4, <1>5, <1>7, <1>8 DEF QueueInv

LEMMA AcknowledgementKeepsQueue ==
    ASSUME QueueInv, NEW w \in Workers, NEW l \in Lineages, AcknowledgeStarted(w, l)
    PROVE  QueueInv'
<1>. DEFINE a == ApprovalOf(held[w].proposal)
<1>1. held[w] \in Claim /\ held[w].token \in 1..MaxToken /\ a \in Approvals
    BY ClaimTypes, ApprovalsOfProposals DEF AcknowledgeStarted, QueueInv, QueueTypeOK
<1>2. /\ claims[a] = held[w] /\ ConsumedFor(held[w].proposal, l)
      /\ acks' = [acks EXCEPT ![a] = [lineage |-> l, token |-> held[w].token]]
      /\ UNCHANGED <<registerVars, claims, held>>
    BY DEF AcknowledgeStarted, Current
<1>3. UNCHANGED <<now, events, inbox>>
    BY <1>2 DEF registerVars, facts
<1>4. QueueTypeOK'
    BY <1>1, <1>2 DEF QueueInv, QueueTypeOK
<1>5. HeldAreBehind'
    BY <1>2, <1>3 DEF QueueInv, HeldAreBehind, Live
<1>6. AcknowledgedUnderNewestFence'
    <2>. SUFFICES ASSUME NEW b \in Approvals, acks'[b] # NoAck
                  PROVE  /\ acks'[b].token = claims'[b].token
                         /\ ConsumedFor(claims[b].proposal, acks[b].lineage)'
        BY DEF AcknowledgedUnderNewestFence
    <2>1. CASE b = a
        <3>1. acks'[b] = [lineage |-> l, token |-> held[w].token] /\ claims'[b] = held[w]
            BY <1>1, <1>2, <2>1 DEF QueueInv, QueueTypeOK
        <3>. QED BY <1>2, <1>3, <3>1 DEF ConsumedFor, EventsAt
    <2>2. CASE b # a
        <3>1. acks'[b] = acks[b] /\ claims'[b] = claims[b]
            BY <1>1, <1>2, <2>2 DEF QueueInv, QueueTypeOK
        <3>2. acks[b].token = claims[b].token /\ ConsumedFor(claims[b].proposal, acks[b].lineage)
            BY <3>1 DEF QueueInv, AcknowledgedUnderNewestFence
        <3>. QED BY <1>3, <3>1, <3>2 DEF ConsumedFor, EventsAt
    <2>. QED BY <2>1, <2>2
<1>. QED BY <1>2, <1>4, <1>5, <1>6 DEF QueueInv

LEMMA CrashKeepsQueue ==
    ASSUME QueueInv, NEW w \in Workers, Crash(w)
    PROVE  QueueInv'
<1>1. held' = [held EXCEPT ![w] = NoClaim] /\ UNCHANGED <<registerVars, claims, acks>>
    BY DEF Crash
<1>2. UNCHANGED <<now, events, inbox>>
    BY <1>1 DEF registerVars, facts
<1>3. QueueTypeOK'
    BY <1>1 DEF QueueInv, QueueTypeOK
<1>4. HeldAreBehind'
    <2>1. \A v \in Workers : held'[v] # NoClaim => held'[v] = held[v]
        BY <1>1 DEF QueueInv, QueueTypeOK
    <2>. QED BY <1>1, <1>2, <2>1 DEF QueueInv, HeldAreBehind, Live
<1>5. AcknowledgedUnderNewestFence'
    BY <1>1, <1>2 DEF QueueInv, AcknowledgedUnderNewestFence, ConsumedFor, EventsAt
<1>. QED BY <1>1, <1>3, <1>4, <1>5 DEF QueueInv

\* A step that leaves the queue alone, lets time pass and only adds events.
LEMMA RestKeepsQueue ==
    ASSUME QueueInv, UNCHANGED queue, now \in Nat, now' \in Nat, now <= now',
           events \subseteq events', \A e \in events : inbox'[e.key] = inbox[e.key]
    PROVE  QueueInv'
<1>1. UNCHANGED <<claims, acks, held>>
    BY DEF queue
<1>2. QueueTypeOK'
    BY <1>1 DEF QueueInv, QueueTypeOK
<1>3. HeldAreBehind'
    <2>. SUFFICES ASSUME NEW w \in Workers, held[w] # NoClaim
                  PROVE  LET row == claims[ApprovalOf(held[w].proposal)] IN
                         /\ held[w].worker = w
                         /\ held[w].token <= row.token
                         /\ held[w].token = row.token => held[w] = row
                         /\ held[w].token < row.token => ~(held[w].until > now')
        BY <1>1 DEF HeldAreBehind, Live
    <2>1. held[w].until \in Nat
        BY ClaimTypes DEF QueueInv, QueueTypeOK
    <2>. QED BY <2>1 DEF QueueInv, HeldAreBehind, Live
<1>4. AcknowledgedUnderNewestFence'
    BY <1>1, ChecksAreStable DEF QueueInv, AcknowledgedUnderNewestFence
<1>. QED BY <1>1, <1>2, <1>3, <1>4 DEF QueueInv

LEMMA QueueStep == LifecycleInv /\ QueueInv /\ [LifecycleNext]_lifecycleVars => QueueInv'
<1>. SUFFICES ASSUME LifecycleInv, QueueInv, [LifecycleNext]_lifecycleVars PROVE QueueInv'
    OBVIOUS
<1>0. now \in Nat /\ RegisterInv
    BY MaxTimeAssumption DEF LifecycleInv, RegisterInv, RegisterTypeOK
<1>1. ASSUME NEW p \in Proposals, Review(p) \/ Promotion(p) PROVE QueueInv'
    <2>1. PICK c \in Submissions : Issue(c)
        BY <1>1, PromotionIssues
    <2>2. UNCHANGED <<now, queue>>
        BY <2>1 DEF Issue
    <2>3. events \subseteq events' /\ \A e \in events : inbox'[e.key] = inbox[e.key]
        BY <1>0, <2>1, IssueWrites
    <2>. QED BY <1>0, <2>2, <2>3, RestKeepsQueue
<1>2. ASSUME NEW w \in Workers, Claiming(w) PROVE QueueInv'
    BY <1>0, <1>2, ClaimKeepsQueue DEF Claiming
<1>3. ASSUME NEW w \in Workers, NEW l \in Lineages, AcknowledgeStarted(w, l) PROVE QueueInv'
    BY <1>3, AcknowledgementKeepsQueue
<1>4. ASSUME NEW w \in Workers, Crash(w) PROVE QueueInv'
    BY <1>4, CrashKeepsQueue
<1>5. CASE Tick /\ UNCHANGED queue
    <2>1. now' = now + 1 /\ UNCHANGED <<events, inbox>>
        BY <1>5 DEF Tick, facts
    <2>. QED BY <1>0, <1>5, <2>1, RestKeepsQueue
<1>6. CASE UNCHANGED lifecycleVars
    <2>1. UNCHANGED <<now, queue, events, inbox>>
        BY <1>6 DEF lifecycleVars, registerVars, facts
    <2>. QED BY <1>0, <2>1, RestKeepsQueue
<1>. QED BY <1>1, <1>2, <1>3, <1>4, <1>5, <1>6 DEF LifecycleNext

LEMMA QueueInitInv == LifecycleInit => QueueInv
BY DEF LifecycleInit, QueueInv, QueueTypeOK, HeldAreBehind, AcknowledgedUnderNewestFence

\* The inductive invariant of the queue holds in every reachable state.
THEOREM QueueSafety == LifecycleSpec => []QueueInv
BY QueueInitInv, QueueStep, LifecycleSafety, PTL DEF LifecycleSpec

\* Register, queue and the workers' claims keep their types.
THEOREM LifecycleTypeCorrect == LifecycleSpec => []LifecycleTypeOK
<1>1. LifecycleInv /\ QueueInv => LifecycleTypeOK
    BY DEF LifecycleInv, RegisterInv, QueueInv, LifecycleTypeOK
<1>. QED BY <1>1, LifecycleSafety, QueueSafety, PTL

\* claim_next_approved_promotion_v1: two live claims of one Approval would both
\* be its row, and a row has one worker.
THEOREM LiveClaimsAreOne == LifecycleSpec => []OneLiveClaim
<1>1. ASSUME QueueInv PROVE OneLiveClaim
    <2>. SUFFICES ASSUME NEW v \in Workers, NEW w \in Workers, v # w,
                         held[v] # NoClaim, held[w] # NoClaim,
                         ApprovalOf(held[v].proposal) = ApprovalOf(held[w].proposal),
                         Live(held[v]), Live(held[w])
                  PROVE  FALSE
        BY DEF OneLiveClaim
    <2>. DEFINE row == claims[ApprovalOf(held[v].proposal)]
    <2>1. /\ held[v].worker = v /\ held[w].worker = w
          /\ held[v].token = row.token => held[v] = row
          /\ held[w].token = row.token => held[w] = row
          /\ ~(held[v].token < row.token) /\ ~(held[w].token < row.token)
          /\ held[v].token <= row.token /\ held[w].token <= row.token
        BY <1>1 DEF QueueInv, HeldAreBehind
    <2>2. held[v].proposal \in Proposals /\ held[v].token \in Nat /\ held[w].token \in Nat
        BY <1>1, ClaimTypes DEF QueueInv, QueueTypeOK
    <2>3. row.token \in Nat
        BY <1>1, <2>2, ClaimTypes, ApprovalsOfProposals DEF QueueInv, QueueTypeOK
    <2>. QED BY <2>1, <2>2, <2>3
<1>. QED BY <1>1, QueueSafety, PTL

\* acknowledge_approved_promotion_started_v1: the fence of an acknowledgement
\* stays the newest, and its lineage is the one that consumed the Approval.
THEOREM AcknowledgementsAreFenced == LifecycleSpec => []AcknowledgedUnderNewestFence
BY QueueSafety, PTL DEF QueueInv
=============================================================================
