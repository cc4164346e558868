--------------------------- MODULE CommandRegister ---------------------------
(***************************************************************************)
(* The command protocol of the management register (migration 000002):     *)
(* commit_command_v1, resolve_command_v1 and rebuild_projection_v1.        *)
(*                                                                         *)
(* commit_command_v1 is one SERIALIZABLE transaction and therefore one     *)
(* action.  A transaction that throws, is a deadlock victim or times out   *)
(* on its lock changes nothing and is not an action.                       *)
(* rebuild_projection_v1 is not SERIALIZABLE: commits may fall between its *)
(* COUNT and its SELECT TOP (1), so it is two actions.  An event's         *)
(* recorded_at is its place in the order of recording, "at".               *)
(*                                                                         *)
(* A submission is the argument list of one call.  The bytes of a command  *)
(* stand for its fingerprint as well; a NULL argument is None.             *)
(***************************************************************************)
EXTENDS Naturals, FiniteSets

CONSTANTS
    Applications,  \* owning_application values
    Submissions,   \* the argument lists of commit_command_v1 in use
    MaxTime,       \* bound: the last reading of the clock
    None           \* NULL

Agg(c) == <<c.app, c.target>>      \* the key of aggregate_current
Key(c) == <<c.app, c.id>>          \* ux_command_v1_identity

Guards == {"APPLIED", "REJECTED_INVALID_STATE", "REJECTED_INVALID_INPUT",
           "REJECTED_UNAUTHORIZED", "REJECTED_CAPABILITY"}
Codes == Guards \cup {"REJECTED_STALE_VERSION", "REJECTED_EXPIRED", "REJECTED_CONFLICT"}

\* The argument checks of commit_command_v1 that precede its transaction: a
\* rejected command has no facts, an applied one has an event.
WellFormed(c) ==
    /\ c.guard \in Guards
    /\ c.guard # "APPLIED" =>
           c.winner = None /\ c.event = None /\ c.intent = None
    /\ c.guard = "APPLIED" => c.event # None

Aggregates == {Agg(c) : c \in Submissions}
Keys == {Key(c) : c \in Submissions}
WinnerKeys == {c.winner : c \in Submissions} \ {None}
EventIds == {c.event : c \in Submissions} \ {None}

\* The winner key of a command is computed from what its bytes say, so calls
\* with the same bytes name the same key; None is no application.
ASSUME SubmissionsAssumption ==
    \A c, d \in Submissions :
        Key(c) = Key(d) /\ c.bytes = d.bytes => c.winner = d.winner
ASSUME KeysAssumption == <<None, None>> \notin Keys
ASSUME MaxTimeAssumption == MaxTime \in Nat

VARIABLES
    inbox,         \* command_v1_fact, by key; code "none" means no row
    version,       \* aggregate_current.aggregate_version; 0 means no row
    events,        \* event_v1_fact
    winner,        \* single_winner_current: the command of each key
    intents,       \* effect_intent_fact
    now,           \* SYSUTCDATETIME()
    answers,       \* every <<key, code, version>> returned to a caller so far
    rebuild,       \* rebuild_projection_v1 in progress: its @checkpoint
    checkpoint     \* projection_checkpoint_current

facts == <<inbox, version, events, winner, intents>>
projection == <<rebuild, checkpoint>>
registerVars == <<facts, now, answers, projection>>

NoRow == [bytes |-> None, code |-> "none", version |-> 0]
NoKey == <<None, None>>
NoRebuild == [running |-> FALSE, count |-> 0]

Row == [bytes : {c.bytes : c \in Submissions} \cup {None},
        code : Codes \cup {"none"}, version : Nat]
Event == [event : EventIds, key : Keys, aggregate : Aggregates,
          type : {c.type : c \in Submissions}, prior : Nat, new : Nat, at : Nat]
Intent == [intent : {c.intent : c \in Submissions}, key : Keys, aggregate : Aggregates]

RegisterTypeOK ==
    /\ inbox \in [Keys -> Row]
    /\ version \in [Aggregates -> Nat]
    /\ events \subseteq Event
    /\ winner \in [WinnerKeys -> Keys \cup {NoKey}]
    /\ intents \subseteq Intent
    /\ now \in 0..MaxTime
    /\ answers \subseteq (Keys \X Codes \X Nat)
    /\ rebuild \in [running : BOOLEAN, count : Nat]
    /\ checkpoint \in [event : EventIds \cup {None}, sequence : Nat]

RegisterInit ==
    /\ inbox = [k \in Keys |-> NoRow]
    /\ version = [a \in Aggregates |-> 0]
    /\ events = {}
    /\ winner = [w \in WinnerKeys |-> NoKey]
    /\ intents = {}
    /\ now = 0
    /\ answers = {}
    /\ rebuild = NoRebuild
    /\ checkpoint = [event |-> None, sequence |-> 0]
-----------------------------------------------------------------------------
RecordedNever(k) == FALSE

\* The replay check on command_v1_fact.
Recorded(k) == inbox[k].code # "none"

\* expected_absent or expected_version against the locked aggregate row.
Stale(c) ==
    IF c.absent THEN version[Agg(c)] # 0
    ELSE version[Agg(c)] = 0 \/ version[Agg(c)] # c.expected

LostUnchecked(c) == FALSE

\* Another command already won this command's single-winner key.
Lost(c) == c.winner # None /\ winner[c.winner] # NoKey

\* The closed result, in the order the procedure tests it.
ResultCode(c, caller) ==
    IF caller # c.app THEN "REJECTED_UNAUTHORIZED"
    ELSE IF now >= c.expires THEN "REJECTED_EXPIRED"
    ELSE IF Stale(c) THEN "REJECTED_STALE_VERSION"
    ELSE IF Lost(c) THEN "REJECTED_CONFLICT"
    ELSE c.guard

\* The unique indexes ux_event_v1_identity and ux_effect_intent_identity:
\* a duplicate throws and rolls the whole command back.
Insertable(c) ==
    /\ \A e \in events : e.event # c.event
    /\ c.intent = None \/ \A i \in intents : i.intent # c.intent

\* The writes of an applied command.
Apply(c) ==
    LET new == version[Agg(c)] + 1 IN
    /\ Insertable(c)
    /\ version' = [version EXCEPT ![Agg(c)] = new]
    /\ events' = events \cup
           {[event |-> c.event, key |-> Key(c), aggregate |-> Agg(c), type |-> c.type,
             prior |-> new - 1, new |-> new, at |-> Cardinality(events) + 1]}
    /\ winner' = IF c.winner = None THEN winner
                 ELSE [winner EXCEPT ![c.winner] = Key(c)]
    /\ intents' = IF c.intent = None THEN intents
                  ELSE intents \cup
                      {[intent |-> c.intent, key |-> Key(c), aggregate |-> Agg(c)]}

\* A rejected command writes nothing but its result.
Reject(c) == UNCHANGED <<version, events, winner, intents>>

\* commit_command_v1 of a command that has no row yet.
Commit(c, caller) ==
    LET code == ResultCode(c, caller) IN
    /\ WellFormed(c)
    /\ ~Recorded(Key(c))
    /\ \/ code = "APPLIED" /\ Apply(c)
       \/ code # "APPLIED" /\ Reject(c)
    /\ inbox' = [inbox EXCEPT ![Key(c)] =
           [bytes |-> c.bytes, code |-> code, version |-> version'[Agg(c)]]]

\* What the caller is given for the row of a command.
Answer(k, row) == <<k, row.code, row.version>>

\* The acknowledgement of a committed transaction reaches its caller or is lost.
Acknowledge(c) ==
    \/ answers' = answers \cup {Answer(Key(c), inbox'[Key(c)])}
    \/ UNCHANGED answers

Submit(c, caller) ==
    /\ Commit(c, caller)
    /\ Acknowledge(c)
    /\ UNCHANGED <<now, projection>>

\* The same command again, through commit_command_v1 or resolve_command_v1:
\* the recorded result.  Other bytes under the same id throw.
Replay(c) ==
    /\ Recorded(Key(c))
    /\ inbox[Key(c)].bytes = c.bytes
    /\ answers' = answers \cup {Answer(Key(c), inbox[Key(c)])}
    /\ UNCHANGED <<facts, now, projection>>

\* rebuild_projection_v1, DELETE and COUNT(*).
RebuildCount ==
    /\ ~rebuild.running
    /\ rebuild' = [running |-> TRUE, count |-> Cardinality(events)]
    /\ UNCHANGED <<facts, now, answers, checkpoint>>

SourceEventAscending == CHOOSE e \in events : \A f \in events : e.at <= f.at

\* SELECT TOP (1) ... ORDER BY recorded_at DESC.
SourceEvent == CHOOSE e \in events : \A f \in events : f.at <= e.at

\* rebuild_projection_v1, SELECT TOP (1), INSERT and COMMIT.
RebuildInsert ==
    /\ rebuild.running
    /\ checkpoint' = [event |-> IF events = {} THEN None ELSE SourceEvent.event,
                      sequence |-> rebuild.count]
    /\ rebuild' = NoRebuild
    /\ UNCHANGED <<facts, now, answers>>

Tick ==
    /\ now < MaxTime
    /\ now' = now + 1
    /\ UNCHANGED <<facts, answers, projection>>

RegisterNext ==
    \/ \E c \in Submissions : (\E caller \in Applications : Submit(c, caller)) \/ Replay(c)
    \/ RebuildCount \/ RebuildInsert \/ Tick

RegisterSpec == RegisterInit /\ [][RegisterNext]_registerVars
-----------------------------------------------------------------------------
EventsOf(a) == {e \in events : e.aggregate = a}

\* "Every aggregate increments a monotonic integer version exactly once per
\* applied command": an aggregate at version n has exactly the events 1..n, and
\* no two events share a version.
VersionsDense ==
    /\ \A a \in Aggregates : {e.new : e \in EventsOf(a)} = 1..version[a]
    /\ \A e, f \in events : e.aggregate = f.aggregate /\ e.new = f.new => e = f

\* One transaction or nothing: a command's row says APPLIED exactly when its
\* event is there, under the version the row reports; winners and intents
\* belong to applied commands only.
FactsMatchInbox ==
    /\ \A k \in Keys : inbox[k].code = "APPLIED" <=> \E e \in events : e.key = k
    /\ \A e \in events : inbox[e.key].version = e.new
    /\ \A w \in WinnerKeys : winner[w] # NoKey => inbox[winner[w]].code = "APPLIED"
    /\ \A i \in intents : inbox[i.key].code = "APPLIED"

\* "EXACT_REPLAY returns the original result": whatever is lost, resubmitted or
\* resolved, no caller ever sees two results for one command, and each result
\* seen is the recorded one.
AnswersAreFinal ==
    \A a \in answers : a = Answer(a[1], inbox[a[1]])

\* The command was applied and competed for its winner key.
Won(c) ==
    /\ c.winner # None
    /\ inbox[Key(c)].code = "APPLIED"
    /\ inbox[Key(c)].bytes = c.bytes

\* Two applied commands never share a single-winner key.
OneWinnerPerKey ==
    \A c, d \in Submissions :
        Won(c) /\ Won(d) /\ c.winner = d.winner => Key(c) = Key(d)

\* A projection checkpoint never claims more events than its source event
\* covers, although commits fall between the two reads of the rebuild.
CheckpointCovered ==
    IF checkpoint.event = None THEN checkpoint.sequence = 0
    ELSE \E e \in events : e.event = checkpoint.event /\ checkpoint.sequence <= e.at
-----------------------------------------------------------------------------
\* The log of an aggregate at version v, read off a set of events.
LogFrom(E, a, v) ==
    [n \in 1..v |-> (CHOOSE e \in E : e.aggregate = a /\ e.new = n).key]

LogOf(a) == LogFrom(events, a, version[a])

Log == INSTANCE VersionedLog WITH
    Commands <- Keys,
    Rejections <- Codes \ {"APPLIED"},
    log <- [a \in Aggregates |-> LogOf(a)],
    outcome <- [k \in Keys |-> [code |-> inbox[k].code, version |-> inbox[k].version]]

\* The six tables of the protocol implement the abstract log: every transaction
\* appends one command to one log and decides it, or decides it and leaves every
\* log alone, or changes neither.
ImplementsLog == Log!Spec
-----------------------------------------------------------------------------
\* The events are numbered in the order they were recorded.
EventsNumbered ==
    /\ IsFiniteSet(events)
    /\ {e.at : e \in events} = 1..Cardinality(events)

\* A command without a result has no row at all.
PendingRows == \A k \in Keys : inbox[k].code = "none" => inbox[k] = NoRow

\* The inductive strengthening: an applied command holds its winner key, the
\* events are numbered, and a rebuild has counted no more than there are.
RegisterInv ==
    /\ RegisterTypeOK
    /\ PendingRows
    /\ VersionsDense
    /\ FactsMatchInbox
    /\ AnswersAreFinal
    /\ \A c \in Submissions : Won(c) => winner[c.winner] = Key(c)
    /\ EventsNumbered
    /\ rebuild.count <= Cardinality(events)
    /\ CheckpointCovered
=============================================================================
