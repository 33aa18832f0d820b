------------------------------ MODULE EventStore ------------------------------
(***************************************************************************)
(* The event store.  The strategy engine and the backend append events to  *)
(* the stream events:stream and do not look back; EventIngestionService    *)
(* reads it as the one consumer of a group and saves each event as a row   *)
(* of trading_events, which lets no two rows have the same aggregate and   *)
(* sequence number; ArchivalService moves old rows to a second table.      *)
(*                                                                         *)
(* An event whose row cannot be saved is not acknowledged, and is tried    *)
(* again when the backend starts, once, with the first PendingCount such   *)
(* events.  Entries the stream has dropped meanwhile come back without     *)
(* their fields, and end that pass (handleMessage raises outside its try). *)
(***************************************************************************)
EXTENDS Naturals, Sequences, FiniteSets

CONSTANTS Events,        \* [type, source, aggregate, sequence]
          EventTypes,    \* the types of the enumeration TradingEventType
          IntegerMax,    \* the largest INTEGER of PostgreSQL: the width of sequence_number
          StreamLength,  \* MAXLEN of the stream
          PendingCount,  \* COUNT of the read of what is pending
          PollCount,     \* COUNT of a poll
          EventsSent,    \* bound: events that reach the stream
          EventFaults,   \* bound: calls of Redis or PostgreSQL that fail
          EventDeaths    \* bound: deaths of the backend

VARIABLES evEntries,  \* the event of each entry ever added to the stream, in the order of ids
          evKept,     \* the oldest entry the stream still holds
          evRead,     \* the entries the group has been given
          evPending,  \* those of them that are not acknowledged
          evUp,       \* the backend runs
          evBatch,    \* the entries its ingestion has in hand
          evRows,     \* the entry each row was made from, in the order of created_at
          evLive,     \* the rows in trading_events
          evArchive,  \* the rows in trading_events_archive
          evOld,      \* how many rows are older than EVENT_RETENTION_DAYS
          evOlder,    \* how many are older than EVENT_ARCHIVE_RETENTION_DAYS
          evJob,      \* the next statement of handleArchival
          evGuarded,  \* the append-only trigger of trading_events is enabled
          evFaults, evDeaths,
          evExcused,  \* history: pending entries a failed call concerned, or not retried at start
          evCopied,   \* history: how many rows were old when the running job copied
          evMissed    \* history: rows that became old between the copy and the delete

evLog == <<evEntries, evKept, evRead>>
evReader == <<evPending, evUp, evBatch, evExcused>>
evTables == <<evRows, evLive, evArchive, evOld, evOlder>>
evArchiving == <<evJob, evGuarded, evCopied, evMissed>>
evBounds == <<evFaults, evDeaths>>
evVars == <<evLog, evReader, evTables, evArchiving, evBounds>>

Added == 1..Len(evEntries)
OldRows == 1..evOld

\* The n oldest entries of a set.
Oldest(n, entries) == {i \in entries : Cardinality({j \in entries : j < i}) < n}

Known(i) == evEntries[i].type \in EventTypes
TooWide(i) == evEntries[i].sequence > IntegerMax
SameKey(i, j) == /\ evEntries[i].aggregate = evEntries[j].aggregate
                 /\ evEntries[i].sequence = evEntries[j].sequence
Storable(i) == ~TooWide(i) /\ ~\E r \in evLive : SameKey(evRows[r], i)

EventStoreInit ==
  /\ evEntries = <<>> /\ evKept = 1 /\ evRead = {}
  /\ evPending = {} /\ evUp = FALSE /\ evBatch = {} /\ evExcused = {}
  /\ evRows = <<>> /\ evLive = {} /\ evArchive = {} /\ evOld = 0 /\ evOlder = 0
  /\ evJob = "copy" /\ evGuarded = TRUE /\ evCopied = 0 /\ evMissed = {}
  /\ evFaults = 0 /\ evDeaths = 0

\* A call is answered as it should be, or it is not.
EventSucceeds == UNCHANGED evFaults
EventFails == evFaults < EventFaults /\ evFaults' = evFaults + 1

-----------------------------------------------------------------------------
(* The publishers.  A call that fails is logged and forgotten, as if the   *)
(* event had never been; the backend drops its own invalid events itself.  *)

\* What the strategy runner says of a signal, and the agent registry of an agent; and what the
\* backend says of its two controls: it numbers them by the time.  (The signal publisher and
\* the execution engine have events of their own, but nothing gives them a publisher.)
Event(type, source, aggregate, sequence) ==
  [type |-> type, source |-> source, aggregate |-> aggregate, sequence |-> sequence]
SignalGenerated(signal) == Event("SignalGenerated", "strategy-engine", signal, 1)
AgentLifecycleChanged(agent) == Event("Agent:LifecycleChanged", "strategy-engine", agent, 0)
KillSwitchActivated(now) == Event("KillSwitchActivated", "backend", "kill_switch:1", now)
AutopilotStateChanged(scope, now) == Event("AutopilotStateChanged", "backend", scope, now)

\* XADD with MAXLEN ~: a stream that is long enough may drop its oldest entry.
AddEntry(e) ==
  /\ Len(evEntries) < EventsSent
  /\ evEntries' = Append(evEntries, e)
  /\ \/ UNCHANGED evKept
     \/ Len(evEntries) >= evKept + StreamLength - 1 /\ evKept' = evKept + 1
  /\ UNCHANGED <<evRead, evReader, evTables, evArchiving, evBounds>>

\* A signal is generated once; agents use one number for all their events.
StrategyPublishes(e) ==
  /\ e.source = "strategy-engine"
  /\ e.sequence # 0 => \A i \in Added : evEntries[i] # e
  /\ AddEntry(e)
BackendPublishes(e) ==
  e.source = "backend" /\ evUp /\ e.type \in EventTypes /\ AddEntry(e)

-----------------------------------------------------------------------------
(* EventIngestionService.                                                  *)

\* processPendingMessages: what is pending is read once, and an entry without fields ends
\* the pass where it stands.
Retried ==
  LET read == Oldest(PendingCount, evPending)
  IN  {i \in read : \A j \in read : j <= i => j >= evKept}

\* The group starts at 0, so that a late start misses nothing.
BackendStarts ==
  /\ ~evUp /\ evUp' = TRUE
  /\ \/ EventSucceeds /\ evBatch' = Retried
     \/ EventFails /\ evBatch' = {}
  /\ evExcused' = evPending \ evBatch'
  /\ UNCHANGED <<evLog, evPending, evTables, evArchiving, evDeaths>>

\* poll: XREADGROUP with >, whose answer may be lost
Poll ==
  LET fresh == Oldest(PollCount, {i \in Added : i >= evKept} \ evRead)
  IN  /\ evUp /\ evBatch = {} /\ fresh # {}
      /\ evRead' = evRead \union fresh
      /\ evPending' = evPending \union fresh
      /\ \/ EventSucceeds /\ evBatch' = fresh /\ UNCHANGED evExcused
         \/ EventFails /\ evExcused' = evExcused \union fresh /\ UNCHANGED evBatch
      /\ UNCHANGED <<evEntries, evKept, evUp, evTables, evArchiving, evDeaths>>

\* ack: an acknowledgement that fails is logged, and the event stays pending.
AcknowledgeEvent(i) ==
  \/ EventSucceeds /\ evPending' = evPending \ {i} /\ UNCHANGED evExcused
  \/ EventFails /\ evExcused' = evExcused \union {i} /\ UNCHANGED evPending

\* handleMessage of an event that does not validate, of one whose row is saved (when the
\* answer of the save is lost it is not acknowledged), and of one whose row is not
HandleInvalid(i) == ~Known(i) /\ AcknowledgeEvent(i) /\ UNCHANGED <<evRows, evLive>>

PersistEvent(i) ==
  /\ Known(i) /\ Storable(i)
  /\ evRows' = Append(evRows, i) /\ evLive' = evLive \union {Len(evRows) + 1}
  /\ AcknowledgeEvent(i)

\* Fault: an event that could not be saved is acknowledged like one that does not validate.
AcknowledgedUnsaved(i) ==
  /\ Known(i)
  /\ (~Storable(i) /\ EventSucceeds) \/ EventFails
  /\ evPending' = evPending \ {i} /\ UNCHANGED <<evExcused, evRows, evLive>>

PersistFails(i) ==
  /\ Known(i)
  /\ \/ ~Storable(i) /\ EventSucceeds /\ UNCHANGED evExcused
     \/ EventFails /\ evExcused' = evExcused \union {i}
  /\ UNCHANGED <<evPending, evRows, evLive>>

HandleMessage(i) ==
  /\ \A j \in evBatch : i <= j
  /\ evBatch' = evBatch \ {i}
  /\ HandleInvalid(i) \/ PersistEvent(i) \/ PersistFails(i)
  /\ UNCHANGED <<evLog, evUp, evArchive, evOld, evOlder, evArchiving, evDeaths>>

BackendDies ==
  /\ evUp /\ evDeaths < EventDeaths
  /\ evUp' = FALSE /\ evBatch' = {} /\ evJob' = "copy" /\ evCopied' = 0
  /\ evDeaths' = evDeaths + 1
  /\ UNCHANGED <<evLog, evPending, evExcused, evTables, evGuarded, evMissed, evFaults>>

-----------------------------------------------------------------------------
(* ArchivalService.handleArchival, a statement at a time: each is a        *)
(* transaction of its own, with a NOW() of its own.  A statement that      *)
(* fails ends the job until the next night.                                *)

RowGetsOld ==
  /\ evOld < Len(evRows) /\ evOld' = evOld + 1
  /\ UNCHANGED <<evLog, evReader, evRows, evLive, evArchive, evOlder, evArchiving, evBounds>>
RowGetsOlder ==
  /\ evOlder < evOld /\ evOlder' = evOlder + 1
  /\ UNCHANGED <<evLog, evReader, evRows, evLive, evArchive, evOld, evArchiving, evBounds>>

Statement(now) ==
  /\ evUp /\ evJob = now
  /\ UNCHANGED <<evLog, evReader, evRows, evOld, evOlder, evDeaths>>

\* ON CONFLICT (id) DO NOTHING: a row of the archive with the same aggregate and sequence
\* number, under another id, makes the statement fail.
CopyOld ==
  /\ Statement("copy")
  /\ ~\E r \in (evLive \intersect OldRows) \ evArchive, q \in evArchive :
        SameKey(evRows[r], evRows[q])
  /\ evArchive' = evArchive \union (evLive \intersect OldRows)
  /\ evJob' = "disable" /\ evCopied' = evOld
  /\ UNCHANGED <<evLive, evGuarded, evMissed, evFaults>>

DisableTrigger ==
  /\ Statement("disable")
  /\ \/ EventSucceeds /\ evGuarded' = FALSE /\ evJob' = "delete"
     \/ EventFails /\ evJob' = "copy" /\ UNCHANGED evGuarded
  /\ UNCHANGED <<evLive, evArchive, evCopied, evMissed>>

\* The rows that are old by now, copied or not.
DeleteOld ==
  /\ Statement("delete")
  /\ \/ /\ EventSucceeds /\ evJob' = "enable"
        /\ evLive' = evLive \ OldRows
        /\ evMissed' = evMissed \union {r \in evLive \intersect OldRows : r > evCopied}
     \/ EventFails /\ evJob' = "enable and end" /\ UNCHANGED <<evLive, evMissed>>
  /\ evCopied' = 0
  /\ UNCHANGED <<evArchive, evGuarded>>

EnableTrigger ==
  /\ Statement(evJob) /\ evJob \in {"enable", "enable and end"}
  /\ \/ EventSucceeds /\ evGuarded' = TRUE /\ evJob' = IF evJob = "enable" THEN "expire" ELSE "copy"
     \/ EventFails /\ evJob' = "copy" /\ UNCHANGED evGuarded
  /\ UNCHANGED <<evLive, evArchive, evCopied, evMissed>>

DeleteExpired ==
  /\ Statement("expire") /\ evJob' = "copy"
  /\ \/ EventSucceeds /\ evArchive' = evArchive \ (1..evOlder)
     \/ EventFails /\ UNCHANGED evArchive
  /\ UNCHANGED <<evLive, evGuarded, evCopied, evMissed>>

HandleArchival == CopyOld \/ DisableTrigger \/ DeleteOld \/ EnableTrigger \/ DeleteExpired

EventStoreNext ==
  \/ \E e \in Events : StrategyPublishes(e) \/ BackendPublishes(e)
  \/ BackendStarts \/ BackendDies \/ Poll
  \/ \E i \in evBatch : HandleMessage(i)
  \/ RowGetsOld \/ RowGetsOlder \/ HandleArchival

EventStoreSpec == EventStoreInit /\ [][EventStoreNext]_evVars

-----------------------------------------------------------------------------
(* Properties.                                                             *)

\* An event of a known type that reached the stream waits there or is pending, is in one of
\* the tables, or is gone for a reason: the stream dropped it before it was read, its row
\* expired in the archive, or the row became old between the copy and the delete of a job.
NothingVanishes ==
  \A i \in evRead :
    \/ ~Known(i) \/ i \in evPending
    \/ \E r \in evLive \union evArchive \union evMissed \union 1..evOlder : evRows[r] = i

\* Once the ingestion is at rest, what is still pending is an event no table could take (its
\* sequence number is too wide, or was used before in its aggregate), one that a failed call
\* concerns, or one the pass at the start did not reach.
PendingIsUnstorable ==
  evUp /\ evBatch = {} =>
    \A i \in evPending \ evExcused :
      TooWide(i) \/ \E r \in 1..Len(evRows) : SameKey(evRows[r], i)

\* "Persistence failure -- do NOT XACK, message stays pending for retry" (handleMessage), and
\* "Moves events older than EVENT_RETENTION_DAYS" (handleArchival): neither the reader, with
\* its failures and restarts, nor the archival loses an event or leaves one behind that it
\* could have stored.
EventsAreKept == NothingVanishes /\ PendingIsUnstorable
=============================================================================
