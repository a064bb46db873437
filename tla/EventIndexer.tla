---------------------------- MODULE EventIndexer ----------------------------
(***************************************************************************)
(* The event indexer (indexer/index.js, indexer/db.js): how the events of  *)
(* the chain become rows of the events table.  It reads each event type    *)
(* from its cursor, page after page (a backfill); then follows the stream  *)
(* of checkpoints until it breaks, and backfills again.  A backfill is     *)
(* answered from one state of the chain; between it and the subscription   *)
(* the chain goes on.  A transaction is a checkpoint, and its events are   *)
(* of one type.  The table has its constraint on transaction and type      *)
(* (fix_unique_constraint.js); what is computed from rows is left out.     *)
(***************************************************************************)
EXTENDS Integers, Sequences, FiniteSets, Ordered

CONSTANTS
    TypeOrder,         \* EVENT_NAMES
    PageSize,          \* events in a page of a backfill (50)
    CheckpointSize,    \* events of a type read from a checkpoint (50)
    MaxFailures        \* bound of the model: calls that fail, crashes

ASSUME IndexerAssumption ==
    /\ PageSize \in Nat \ {0} /\ CheckpointSize \in Nat \ {0} /\ MaxFailures \in Nat

VARIABLES
    events,            \* all events in order: type, transaction tx, and data
    rows,              \* the events table, by id: positions of events
    cursor,            \* by type, the position of the last event read, 0 if none
    phase,             \* of the process: first backfill, later ones, between, streaming
    todo,              \* types the backfill has not given up
    streamed,          \* the stream has delivered the events up to here
    lost,              \* events whose insert failed in a backfill (history)
    failures

indexerVars == <<events, rows, cursor, phase, todo, streamed, lost, failures>>

Types == {TypeOrder[i] : i \in DOMAIN TypeOrder}

IndexerInit ==
    /\ events = <<>> /\ rows = <<>>
    /\ cursor = [type \in Types |-> 0]
    /\ phase = "boot" /\ todo = Types /\ streamed = 0
    /\ lost = {} /\ failures = 0

IndexerFails == /\ failures < MaxFailures
                /\ failures' = failures + 1

---------------------------------------------------------------------------
(* The chain *)

Backfilling == phase \in {"boot", "sync"}

\* The next transaction, with a checkpoint of its own.
NextTx == Len(events) + 1

\* It emits these events.
Emits(fresh) == ~Backfilling /\ events' = events \o fresh

---------------------------------------------------------------------------
(* processEvent and insertEvent *)

\* Of the same transaction and type: ON CONFLICT (tx_digest, event_type).
Same(m, n) == events[m].tx = events[n].tx /\ events[m].type = events[n].type

\* There is a row for it, or for another that is the same.
Stored(n) == \E r \in DOMAIN rows : Same(rows[r], n)

\* The table once these events are processed, in their order.
Inserted(nodes) ==
    LET new(n) == ~Stored(n) /\ \A m \in nodes : Same(m, n) => n <= m
    IN  rows \o InOrder({n \in nodes : new(n)})

FirstOf(nodes, size) == {n \in nodes : Cardinality(Below(nodes, n)) < size}

Latest(nodes) == CHOOSE n \in nodes : \A m \in nodes : m <= n

---------------------------------------------------------------------------
(* The backfill: graphqlBackfill, syncEventType *)

\* What syncEventType has not read of a type, and its next page.
Ahead(type) == {n \in cursor[type] + 1 .. Len(events) : events[n].type = type}
Page(type)  == FirstOf(Ahead(type), PageSize)

\* The first type in TypeOrder that has something to read and is not given up.
Reads(i) ==
    /\ TypeOrder[i] \in todo /\ Ahead(TypeOrder[i]) # {}
    /\ \A h \in 1 .. i - 1 : TypeOrder[h] \in todo => Ahead(TypeOrder[h]) = {}

\* A page of it is processed, and its cursor saved.
ReadPage(i) ==
    /\ Backfilling /\ Reads(i)
    /\ LET page == Page(TypeOrder[i])
       IN  /\ rows' = Inserted(page)
           /\ cursor' = [cursor EXCEPT ![TypeOrder[i]] = Latest(page)]
    /\ UNCHANGED <<events, phase, todo, streamed, lost, failures>>

\* The insert of one event fails, which insertEvent logs.
LoseEvent(i) ==
    /\ Backfilling /\ IndexerFails /\ Reads(i)
    /\ LET page == Page(TypeOrder[i])
       IN  /\ \E n \in page : rows' = Inserted(page \ {n}) /\ lost' = lost \cup {n}
           /\ cursor' = [cursor EXCEPT ![TypeOrder[i]] = Latest(page)]
    /\ UNCHANGED <<events, phase, todo, streamed>>

\* Some of a page is processed, up to an event or nothing.
InsertedInPart(page) ==
    \/ UNCHANGED rows
    \/ \E n \in page : rows' = Inserted({m \in page : m <= n})

\* The page's cursor is saved before the page is processed.
CursorOnThrow_mut(type) == [cursor EXCEPT ![type] = Latest(Page(type))]

CursorOnThrow(type) == cursor

\* The query, the processing of an event or the saving throws: the type is
\* left to the next backfill.
ReadThrows(i) ==
    /\ Backfilling /\ IndexerFails /\ Reads(i)
    /\ InsertedInPart(Page(TypeOrder[i]))
    /\ cursor' = CursorOnThrow(TypeOrder[i])
    /\ todo' = todo \ {TypeOrder[i]}
    /\ UNCHANGED <<events, phase, streamed, lost>>

\* The process dies, whatever it is doing, and starts again with a backfill.
IndexerCrash ==
    /\ IndexerFails
    /\ \/ UNCHANGED rows
       \/ /\ Backfilling
          /\ \E i \in DOMAIN TypeOrder : Reads(i) /\ InsertedInPart(Page(TypeOrder[i]))
    /\ phase' = "boot" /\ todo' = Types /\ streamed' = 0
    /\ UNCHANGED <<events, cursor, lost>>

BackfillDone ==
    /\ Backfilling /\ \A type \in todo : Ahead(type) = {}
    /\ phase' = "sleep" /\ todo' = {}
    /\ UNCHANGED <<events, rows, cursor, streamed, lost, failures>>

---------------------------------------------------------------------------
(* The stream: startStreaming, processCheckpoint *)

\* The subscription starts with the next checkpoint.
StreamOpens ==
    /\ phase = "sleep"
    /\ phase' = "stream" /\ streamed' = Len(events)
    /\ UNCHANGED <<events, rows, cursor, todo, lost, failures>>

Checkpoint == {n \in DOMAIN events : events[n].tx = streamed + 1}

\* No more of its events than one query returns.
StreamDelivers ==
    /\ phase = "stream" /\ streamed < Len(events)
    /\ rows' = Inserted(FirstOf(Checkpoint, CheckpointSize))
    /\ streamed' = Latest(Checkpoint)
    /\ UNCHANGED <<events, cursor, phase, todo, lost, failures>>

\* GraphQL has nothing after five attempts, or the processing throws, or inserts fail.
StreamMisses ==
    /\ phase = "stream" /\ streamed < Len(events) /\ IndexerFails
    /\ InsertedInPart(FirstOf(Checkpoint, CheckpointSize))
    /\ streamed' = Latest(Checkpoint)
    /\ UNCHANGED <<events, cursor, phase, todo, lost>>

\* The next subscription comes at once, and nobody looks back.
AfterStream_mut == "sleep"

\* The gap is backfilled before the next subscription.
AfterStream == "sync"

\* It ends or throws.
StreamEnds ==
    /\ phase = "stream"
    /\ phase' = AfterStream /\ todo' = Types /\ streamed' = 0
    /\ UNCHANGED <<events, rows, cursor, lost, failures>>

---------------------------------------------------------------------------

\* What the event loop brings about; that the stream ends is not its doing.
IndexerStep ==
    \/ \E i \in DOMAIN TypeOrder : ReadPage(i)
    \/ BackfillDone \/ StreamOpens \/ StreamDelivers

IndexerFault ==
    \/ \E i \in DOMAIN TypeOrder : LoseEvent(i) \/ ReadThrows(i)
    \/ StreamMisses

---------------------------------------------------------------------------
(* Properties *)

\* The cursor of a type never passes an event that is not in the table, but
\* for an insert that failed: a crash, a failed query or projection, events
\* that arrive meanwhile or that the stream stored first lose nothing.
NothingBehindCursor ==
    \A n \in DOMAIN events : n <= cursor[events[n].type] => Stored(n) \/ n \in lost
=============================================================================
