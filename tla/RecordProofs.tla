----------------------------- MODULE RecordProofs -----------------------------
(***************************************************************************)
(* Proofs about what is recorded, live and of a backtest.                  *)
(*                                                                         *)
(* EventStore loses no event it could have stored, for any events,         *)
(* lengths, counts and numbers of failures and deaths.  The argument goes  *)
(* from entries to rows: an entry leaves the pending ones only when its    *)
(* row is saved or its event does not validate, and a row leaves the live  *)
(* table only after it was copied, unless it became old after the copy.    *)
(*                                                                         *)
(* TradeBook implements Ledger, for any number of restarts and sweeps.     *)
(* BookInv says where an exit may be on its way from the broker to the     *)
(* table; BookStep, what a step does to contract and row, is all that the  *)
(* ledger can tell.                                                        *)
(*                                                                         *)
(* Backtest opens no trade beyond the limits of its risk settings, for any *)
(* candles, signals, rules, settings and charges.  BacktestInv says that   *)
(* equity, peak and day of the engine are those its closed trades tell.    *)
(* Its stops only tighten where break-even and structural trailing are not *)
(* put together: a trailing stop alone is never beyond break-even's level  *)
(* before break-even comes (Firm).                                         *)
(***************************************************************************)
EXTENDS EventStore, TradeBook, Backtest, SequenceTheorems, FiniteSetTheorems, TLAPS

(* EventStore. *)

Rows == 1..Len(evRows)
Held == evLive \union evArchive \union evMissed \union 1..evOlder

StoreTypes ==
  /\ evEntries \in Seq(Events) /\ evRead \subseteq Added
  /\ evPending \subseteq evRead /\ evBatch \subseteq evPending
  /\ evRows \in Seq(Nat) /\ \A r \in Rows : evRows[r] \in evRead
  /\ evLive \subseteq Rows /\ evArchive \subseteq Rows /\ evMissed \subseteq Rows
  /\ evOld \in 0..Len(evRows) /\ evOlder \in 0..evOld /\ evCopied \in 0..Len(evRows)

(* What a running job has copied is in the archive. *)
CopyInv == evJob \in {"disable", "delete"} => \A r \in evLive : r <= evCopied => r \in evArchive

(* What is pending and neither in hand nor excused could not be stored. *)
Unstorable(i) == TooWide(i) \/ \E r \in Rows : SameKey(evRows[r], i)
RestInv == evUp => \A i \in (evPending \ evExcused) \ evBatch : Unstorable(i)

LEMMA OldestAreSome ==
    ASSUME NEW n, NEW S PROVE Oldest(n, S) \subseteq S
  BY DEF Oldest

(* The steps of the stream, the reader and the archival, by what they leave alone. *)
ReaderStep == BackendStarts \/ BackendDies \/ Poll
ArchivalStep == RowGetsOld \/ RowGetsOlder \/ HandleArchival

LEMMA NextSteps ==
    ASSUME [EventStoreNext]_evVars
    PROVE  \/ \E e \in Events : AddEntry(e)
           \/ ReaderStep \/ ArchivalStep
           \/ \E i \in evBatch : HandleMessage(i)
           \/ UNCHANGED evVars
  BY DEF EventStoreNext, StrategyPublishes, BackendPublishes, ReaderStep,
         ArchivalStep

LEMMA EntriesStay ==
    ASSUME StoreTypes, NEW e \in Events, AddEntry(e)
    PROVE  /\ evEntries' \in Seq(Events) /\ Added \subseteq Added'
           /\ \A i \in Added : evEntries'[i] = evEntries[i]
           /\ UNCHANGED <<evRead, evReader, evTables, evArchiving>>
  BY DEF StoreTypes, AddEntry, Added

(* A message: its entry leaves the batch, and at most one row is added. *)
LEMMA MessageStep ==
    ASSUME StoreTypes, NEW i \in evBatch, HandleMessage(i)
    PROVE  /\ evBatch' = evBatch \ {i} /\ UNCHANGED <<evLog, evUp, evArchive, evOld, evOlder,
                                                     evArchiving>>
           /\ evPending' \in {evPending, evPending \ {i}}
           /\ \/ UNCHANGED <<evRows, evLive>>
              \/ evRows' = Append(evRows, i) /\ evLive' = evLive \union {Len(evRows) + 1}
           /\ evExcused \subseteq evExcused' /\ evExcused' \subseteq evExcused \union {i}
  BY DEF HandleMessage, HandleInvalid, PersistEvent, PersistFails, AcknowledgeEvent

LEMMA RowsGrow ==
    ASSUME StoreTypes, NEW i \in evRead, evRows' = Append(evRows, i)
    PROVE  /\ evRows' \in Seq(Nat) /\ Len(evRows') = Len(evRows) + 1
           /\ \A r \in Rows : evRows'[r] = evRows[r]
           /\ evRows'[Len(evRows) + 1] = i
  <1>1. i \in Nat
    BY DEF StoreTypes, Added
  <1> QED
    BY <1>1 DEF StoreTypes, Rows

-----------------------------------------------------------------------------
LEMMA NextKeepsTypes == StoreTypes /\ [EventStoreNext]_evVars => StoreTypes'
  <1> SUFFICES ASSUME StoreTypes, [EventStoreNext]_evVars PROVE StoreTypes'
    OBVIOUS
  <1>1. ASSUME NEW e \in Events, AddEntry(e) PROVE StoreTypes'
    BY <1>1, EntriesStay DEF StoreTypes, Rows, evReader, evTables, evArchiving
  <1>2. CASE BackendStarts
    <2>1. evBatch' \subseteq evPending
      BY <1>2, OldestAreSome DEF BackendStarts, Retried
    <2> QED
      BY <1>2, <2>1 DEF BackendStarts, StoreTypes, Rows, Added, evLog, evTables, evArchiving
  <1>3. CASE BackendDies
    BY <1>3 DEF BackendDies, StoreTypes, Rows, Added, evLog, evTables
  <1>4. CASE Poll
    <2> DEFINE fresh == Oldest(PollCount, {i \in Added : i >= evKept} \ evRead)
    <2>1. fresh \subseteq Added
      BY OldestAreSome
    <2> HIDE DEF fresh
    <2>2. /\ evRead' = evRead \union fresh /\ evPending' = evPending \union fresh
          /\ evBatch' \in {fresh, evBatch} /\ UNCHANGED <<evEntries, evTables, evArchiving>>
      BY <1>4 DEF Poll, fresh
    <2> QED
      BY <2>1, <2>2 DEF StoreTypes, Rows, Added, evTables, evArchiving
  <1>5. ASSUME NEW i \in evBatch, HandleMessage(i) PROVE StoreTypes'
    <2>1. /\ evPending' \subseteq evRead' /\ evBatch' \subseteq evPending'
          /\ evEntries' \in Seq(Events) /\ evRead' \subseteq Added'
      BY <1>5, MessageStep DEF StoreTypes, Added, evLog
    <2>2. CASE UNCHANGED <<evRows, evLive>>
      BY <1>5, <2>1, <2>2, MessageStep DEF StoreTypes, Rows, evLog, evArchiving
    <2>3. CASE evRows' = Append(evRows, i) /\ evLive' = evLive \union {Len(evRows) + 1}
      <3>1. i \in evRead
        BY DEF StoreTypes
      <3>2. Len(evRows) \in Nat /\ Rows' = Rows \union {Len(evRows) + 1}
        BY <2>3, <3>1, RowsGrow DEF StoreTypes, Rows
      <3>3. \A r \in Rows' : evRows'[r] \in evRead'
        <4>1. evRead' = evRead
          BY <1>5, MessageStep DEF evLog
        <4>2. /\ \A r \in Rows : evRows'[r] = evRows[r]
              /\ evRows'[Len(evRows) + 1] = i
          BY <2>3, <3>1, RowsGrow
        <4>3. \A r \in Rows : evRows[r] \in evRead
          BY DEF StoreTypes
        <4> QED
          BY <3>1, <3>2, <4>1, <4>2, <4>3
      <3>4. evLive' \subseteq Rows' /\ evArchive' \subseteq Rows' /\ evMissed' \subseteq Rows'
        BY <1>5, <2>3, <3>2, MessageStep DEF StoreTypes, evArchiving
      <3>5. /\ evOld' \in 0..Len(evRows') /\ evOlder' \in 0..evOld'
            /\ evCopied' \in 0..Len(evRows')
        BY <1>5, <2>3, <3>1, <3>2, RowsGrow, MessageStep DEF StoreTypes, evArchiving
      <3>6. evRows' \in Seq(Nat)
        BY <2>3, <3>1, RowsGrow
      <3> QED
        BY <2>1, <3>3, <3>4, <3>5, <3>6, Zenon DEF StoreTypes
    <2> QED
      BY <1>5, <2>2, <2>3, MessageStep
  <1>6. CASE RowGetsOld \/ RowGetsOlder
    <2>1. UNCHANGED <<evEntries, evRead, evPending, evBatch, evRows, evLive, evArchive,
                      evMissed, evCopied>>
      BY <1>6 DEF RowGetsOld, RowGetsOlder, evLog, evReader, evArchiving
    <2>2. evOld' \in 0..Len(evRows) /\ evOlder' \in 0..evOld'
      <3>1. Len(evRows) \in Nat
        BY DEF StoreTypes
      <3> QED
        BY <1>6, <3>1 DEF RowGetsOld, RowGetsOlder, StoreTypes
    <2> QED
      BY <2>1, <2>2 DEF StoreTypes, Rows, Added
  <1>7. CASE HandleArchival
    <2>1. /\ UNCHANGED <<evLog, evReader, evRows, evOld, evOlder>>
          /\ evLive' \subseteq evLive /\ evArchive' \subseteq evArchive \union evLive
          /\ evMissed' \subseteq evMissed \union evLive
          /\ evCopied' \in {evCopied, evOld, 0}
      BY <1>7 DEF HandleArchival, Statement, CopyOld, DisableTrigger, DeleteOld, EnableTrigger,
                  DeleteExpired
    <2> QED
      BY <2>1 DEF StoreTypes, Rows, Added, evLog, evReader
  <1>8. CASE UNCHANGED evVars
    BY <1>8 DEF evVars, evLog, evReader, evTables, evArchiving, StoreTypes, Rows, Added
  <1> QED
    BY <1>1, <1>2, <1>3, <1>4, <1>5, <1>6, <1>7, <1>8, NextSteps DEF ReaderStep, ArchivalStep

LEMMA NextKeepsCopies == StoreTypes /\ CopyInv /\ [EventStoreNext]_evVars => CopyInv'
  <1> SUFFICES ASSUME StoreTypes, CopyInv, [EventStoreNext]_evVars PROVE CopyInv'
    OBVIOUS
  <1> USE DEF CopyInv
  <1>1. ASSUME NEW e \in Events, AddEntry(e) PROVE CopyInv'
    BY <1>1 DEF AddEntry, evTables, evArchiving
  <1>2. CASE ReaderStep
    BY <1>2 DEF ReaderStep, BackendStarts, BackendDies, Poll, evTables, evArchiving
  <1>3. ASSUME NEW i \in evBatch, HandleMessage(i) PROVE CopyInv'
    <2>1. /\ UNCHANGED <<evArchive, evJob, evCopied>>
          /\ evLive' \subseteq evLive \union {Len(evRows) + 1}
      BY <1>3, MessageStep DEF evArchiving
    <2>2. ~(Len(evRows) + 1 <= evCopied)
      BY DEF StoreTypes
    <2> QED
      BY <2>1, <2>2
  <1>4. CASE RowGetsOld \/ RowGetsOlder
    BY <1>4 DEF RowGetsOld, RowGetsOlder, evArchiving
  <1>5. CASE CopyOld
    <2>1. /\ UNCHANGED evLive /\ evCopied' = evOld
          /\ evArchive' = evArchive \union (evLive \intersect OldRows)
      BY <1>5 DEF CopyOld
    <2>2. \A r \in evLive : r <= evOld => r \in OldRows
      BY DEF StoreTypes, Rows, OldRows
    <2> QED
      BY <2>1, <2>2
  <1>6. CASE DisableTrigger \/ DeleteOld \/ EnableTrigger \/ DeleteExpired
    BY <1>6 DEF DisableTrigger, DeleteOld, EnableTrigger, DeleteExpired, Statement
  <1>7. CASE UNCHANGED evVars
    BY <1>7 DEF evVars, evTables, evArchiving
  <1> QED
    BY <1>1, <1>2, <1>3, <1>4, <1>5, <1>6, <1>7, NextSteps DEF ArchivalStep, HandleArchival

(* An event whose rows are where they were, or in another table, is still held. *)
LEMMA HeldStays ==
    ASSUME StoreTypes, NothingVanishes,
           \A r \in Held : r \in Held' /\ evRows'[r] = evRows[r],
           \A i \in Added : evEntries'[i] = evEntries[i],
           evRead' \subseteq evRead \union evPending',
           \A i \in evPending \ evPending' : ~Known(i) \/ \E r \in Held' : evRows'[r] = i
    PROVE  NothingVanishes'
  <1> SUFFICES ASSUME NEW i \in evRead', Known(i)', i \notin evPending'
               PROVE  \E r \in Held' : evRows'[r] = i
    BY DEF NothingVanishes, Held
  <1>1. i \in evRead
    OBVIOUS
  <1>2. Known(i)
    BY <1>1 DEF Known, StoreTypes
  <1>3. CASE i \in evPending
    BY <1>2, <1>3
  <1>4. CASE i \notin evPending
    <2>1. PICK r \in Held : evRows[r] = i
      BY <1>1, <1>2, <1>4 DEF NothingVanishes, Held
    <2> QED
      BY <2>1
  <1> QED
    BY <1>3, <1>4

LEMMA NextKeepsEvents ==
    StoreTypes /\ CopyInv /\ NothingVanishes /\ [EventStoreNext]_evVars => NothingVanishes'
  <1> SUFFICES ASSUME StoreTypes, CopyInv, NothingVanishes, [EventStoreNext]_evVars
               PROVE  NothingVanishes'
    OBVIOUS
  <1>1. ASSUME NEW e \in Events, AddEntry(e) PROVE NothingVanishes'
    <2>1. UNCHANGED <<evRead, evPending, evRows, Held>>
      BY <1>1 DEF AddEntry, evReader, evTables, evArchiving, Held
    <2> QED
      BY <1>1, <2>1, EntriesStay, HeldStays
  <1>2. CASE ReaderStep
    <2>1. UNCHANGED <<evEntries, evRows, Held>> /\ evPending \subseteq evPending'
      BY <1>2 DEF ReaderStep, BackendStarts, BackendDies, Poll, evLog, evTables, evArchiving, Held
    <2>2. evRead' \subseteq evRead \union evPending'
      BY <1>2 DEF ReaderStep, BackendStarts, BackendDies, Poll, evLog
    <2> QED
      BY <2>1, <2>2, HeldStays
  <1>3. ASSUME NEW i \in evBatch, HandleMessage(i) PROVE NothingVanishes'
    <2>1. UNCHANGED <<evEntries, evRead, evArchive, evOlder, evMissed>>
      BY <1>3, MessageStep DEF evLog, evArchiving
    <2>2. i \in evRead /\ evPending \ evPending' \subseteq {i}
      BY <1>3, MessageStep DEF StoreTypes
    <2>3. CASE UNCHANGED <<evRows, evLive>>
      <3>1. UNCHANGED Held
        BY <2>1, <2>3 DEF Held
      <3>2. evPending' # evPending => ~Known(i)
        <4>1. evRows' # Append(evRows, i)
          BY <2>2, <2>3, RowsGrow DEF StoreTypes
        <4> QED
          BY <1>3, <4>1 DEF HandleMessage, HandleInvalid, PersistEvent, PersistFails
      <3> QED
        BY <2>1, <2>2, <2>3, <3>1, <3>2, HeldStays
    <2>4. CASE evRows' = Append(evRows, i) /\ evLive' = evLive \union {Len(evRows) + 1}
      <3>1. Held \subseteq Rows /\ Held' = Held \union {Len(evRows) + 1}
        BY <2>1, <2>4 DEF Held, StoreTypes, Rows
      <3>2. (\A r \in Rows : evRows'[r] = evRows[r]) /\ evRows'[Len(evRows) + 1] = i
        BY <2>2, <2>4, RowsGrow
      <3> QED
        BY <2>1, <2>2, <3>1, <3>2, HeldStays
    <2> QED
      BY <1>3, <2>3, <2>4, MessageStep
  <1>4. CASE RowGetsOld \/ RowGetsOlder
    <2>1. UNCHANGED <<evEntries, evRead, evPending, evRows, evLive, evArchive, evMissed>>
      BY <1>4 DEF RowGetsOld, RowGetsOlder, evLog, evReader, evArchiving
    <2>2. 1..evOlder \subseteq 1..evOlder'
      BY <1>4 DEF RowGetsOld, RowGetsOlder, StoreTypes
    <2>3. Held \subseteq Held'
      BY <2>1, <2>2 DEF Held
    <2> QED
      BY <2>1, <2>3, HeldStays
  <1>5. CASE HandleArchival
    <2>1. UNCHANGED <<evEntries, evRead, evPending, evRows, evOlder>>
      BY <1>5 DEF HandleArchival, Statement, CopyOld, DisableTrigger, DeleteOld, EnableTrigger,
                  DeleteExpired, evLog, evReader
    <2>2. Held \subseteq Held'
      <3>1. CASE CopyOld \/ DisableTrigger \/ EnableTrigger
        BY <2>1, <3>1 DEF CopyOld, DisableTrigger, EnableTrigger, Held
      <3>2. CASE DeleteOld
        <4>1. \A r \in evLive : r <= evCopied => r \in evArchive
          BY <3>2 DEF DeleteOld, Statement, CopyInv
        <4>2. \A r \in evLive : r \in evLive' \/ r <= evCopied \/ r \in evMissed'
          <5>1. \/ UNCHANGED evLive
                \/ /\ evLive' = evLive \ OldRows
                   /\ evMissed' = evMissed \union {r \in evLive \intersect OldRows : r > evCopied}
            BY <3>2 DEF DeleteOld
          <5>2. \A r \in evLive : r <= evCopied \/ r > evCopied
            BY DEF StoreTypes, Rows
          <5> QED
            BY <5>1, <5>2
        <4>3. evArchive' = evArchive /\ evMissed \subseteq evMissed'
          BY <3>2 DEF DeleteOld
        <4> QED
          BY <2>1, <4>1, <4>2, <4>3 DEF Held
      <3>3. CASE DeleteExpired
        BY <2>1, <3>3 DEF DeleteExpired, Held
      <3> QED
        BY <1>5, <3>1, <3>2, <3>3 DEF HandleArchival
    <2> QED
      BY <2>1, <2>2, HeldStays
  <1>6. CASE UNCHANGED evVars
    <2>1. UNCHANGED <<evEntries, evRead, evPending, evRows, Held>>
      BY <1>6 DEF evVars, evLog, evReader, evTables, evArchiving, Held
    <2> QED
      BY <2>1, HeldStays
  <1> QED
    BY <1>1, <1>2, <1>3, <1>4, <1>5, <1>6, NextSteps DEF ArchivalStep

LEMMA NextKeepsRest == StoreTypes /\ RestInv /\ [EventStoreNext]_evVars => RestInv'
  <1> SUFFICES ASSUME StoreTypes, RestInv, [EventStoreNext]_evVars, evUp',
                      NEW i \in (evPending' \ evExcused') \ evBatch'
               PROVE  Unstorable(i)'
    BY DEF RestInv
  <1>1. ASSUME NEW e \in Events, AddEntry(e) PROVE Unstorable(i)'
    <2>1. UNCHANGED <<evPending, evExcused, evBatch, evUp, evRows>>
      BY <1>1 DEF AddEntry, evReader, evTables
    <2>2. Unstorable(i)
      BY <2>1 DEF RestInv
    <2>3. i \in Added /\ \A r \in Rows : evRows[r] \in Added
      BY <2>1 DEF StoreTypes
    <2>4. evEntries'[i] = evEntries[i] /\ \A r \in Rows : evEntries'[evRows[r]] = evEntries[evRows[r]]
      BY <1>1, <2>3, EntriesStay
    <2> QED
      BY <2>1, <2>2, <2>4 DEF Unstorable, TooWide, SameKey, Rows
  <1>2. CASE ReaderStep
    <2>1. CASE BackendDies
      BY <2>1 DEF BackendDies
    <2>2. CASE BackendStarts
      BY <2>2 DEF BackendStarts
    <2>3. CASE Poll
      <3>1. /\ i \in (evPending \ evExcused) \ evBatch
            /\ UNCHANGED <<evEntries, evRows, evUp>>
        BY <2>3 DEF Poll, evTables
      <3> QED
        BY <3>1 DEF RestInv, Unstorable, TooWide, SameKey, Rows
    <2> QED
      BY <1>2, <2>1, <2>2, <2>3 DEF ReaderStep
  <1>3. ASSUME NEW m \in evBatch, HandleMessage(m) PROVE Unstorable(i)'
    <2>1. UNCHANGED <<evEntries, evUp>> /\ i \in evPending /\ i \notin evExcused
      BY <1>3, MessageStep DEF evLog
    <2>2. m \in evRead
      BY DEF StoreTypes
    <2>3. CASE i # m
      <3>1. Unstorable(i)
        BY <1>3, <2>1, <2>3, MessageStep DEF RestInv
      <3>2. \A r \in Rows : r \in Rows' /\ evRows'[r] = evRows[r]
        <4>1. CASE UNCHANGED evRows
          BY <4>1 DEF Rows
        <4>2. CASE evRows' = Append(evRows, m)
          <5>1. Len(evRows) \in Nat /\ Len(evRows') = Len(evRows) + 1
            BY <2>2, <4>2, RowsGrow DEF StoreTypes
          <5>2. \A r \in Rows : evRows'[r] = evRows[r]
            BY <2>2, <4>2, RowsGrow
          <5> QED
            BY <5>1, <5>2 DEF Rows
        <4> QED
          BY <1>3, <4>1, <4>2, MessageStep
      <3> QED
        BY <2>1, <3>1, <3>2 DEF Unstorable, TooWide, SameKey
    <2>4. CASE i = m
      <3>1. ~Storable(i) /\ UNCHANGED evRows
        BY <1>3, <2>4 DEF HandleMessage, HandleInvalid, PersistEvent, PersistFails, AcknowledgeEvent
      <3>2. Unstorable(i)
        BY <3>1 DEF Storable, Unstorable, StoreTypes
      <3> QED
        BY <2>1, <3>1, <3>2 DEF Unstorable, TooWide, SameKey, Rows
    <2> QED
      BY <2>3, <2>4
  <1>4. CASE ArchivalStep \/ UNCHANGED evVars
    <2>1. UNCHANGED <<evEntries, evPending, evExcused, evBatch, evUp, evRows>>
      BY <1>4 DEF ArchivalStep, RowGetsOld, RowGetsOlder, HandleArchival, Statement, CopyOld,
                  DisableTrigger, DeleteOld, EnableTrigger, DeleteExpired, evVars, evLog,
                  evReader, evTables
    <2> QED
      BY <2>1 DEF RestInv, Unstorable, TooWide, SameKey, Rows
  <1> QED
    BY <1>1, <1>2, <1>3, <1>4, NextSteps

-----------------------------------------------------------------------------
(* EventIngestionService and ArchivalService lose no event of a known type    *)
(* that the group was given, and leave none behind that they could have       *)
(* stored, but for the reasons EventsAreKept names: for any events, counts    *)
(* and bounds, whatever calls fail and however often the backend dies.        *)
THEOREM EventsStayKept == EventStoreSpec => []EventsAreKept
  <1> DEFINE EInv == StoreTypes /\ CopyInv /\ NothingVanishes /\ RestInv
  <1>1. EventStoreInit => EInv
    <2> SUFFICES ASSUME EventStoreInit PROVE EInv
      OBVIOUS
    <2> USE DEF EventStoreInit
    <2>1. StoreTypes
      BY DEF StoreTypes, Rows, Added
    <2>2. CopyInv /\ NothingVanishes /\ RestInv
      BY DEF CopyInv, NothingVanishes, RestInv
    <2> QED
      BY <2>1, <2>2
  <1>2. EInv /\ [EventStoreNext]_evVars => EInv'
    BY NextKeepsTypes, NextKeepsCopies, NextKeepsEvents, NextKeepsRest
  <1>3. EInv => EventsAreKept
    BY DEF RestInv, Unstorable, Rows, EventsAreKept, PendingIsUnstorable
  <1> QED
    BY <1>1, <1>2, <1>3, PTL DEF EventStoreSpec

-----------------------------------------------------------------------------
(* TradeBook. *)

TradeEvents == {EntryEvent, ExitEvent, ExternalCloseEvent}
Statuses == {"none", "filled", "closed", "sold"}
Profits == {"none", "local", "broker"}
BookRows == [there : BOOLEAN, signal : BOOLEAN, closed : BOOLEAN, status : Statuses, profit : Profits]
BookHandlers == [event : TradeEvents, read : BOOLEAN, found : BookRows]

BookTyped ==
    /\ bkContract \in {"open", "sold"} /\ bkSaved \in BOOLEAN /\ bkRow \in BookRows
    /\ bkChannel \in Seq(TradeEvents) /\ bkHandlers \subseteq BookHandlers
    /\ bkFigure \in Profits

\* An exit is on its way to the table, in the monitor, a sweep, a message or a handler of
\* the backend, only for a sold contract.
ExitUnderWay ==
    \/ bkMonitor \in {"publish", "fetch", "record", "recordExternal", "publishExternal"}
    \/ bkSweep = "record"
    \/ \E i \in 1 .. Len(bkChannel) : bkChannel[i].kind = "exit"
    \/ \E h \in bkHandlers : h.event.kind = "exit"

\* A handler that goes on with an exit has found a row, and rows are never deleted.
BookInv ==
    /\ BookTyped
    /\ ExitUnderWay => bkContract = "sold"
    /\ bkRow.closed => bkRow.there
    /\ \A h \in bkHandlers : h.read /\ h.event.kind = "exit" => bkRow.there

\* What a step does to contract and row.
BookStep ==
    \/ bkContract' = "sold" /\ UNCHANGED bkRow
    \/ UNCHANGED <<bkContract, bkRow>>
    \/ /\ UNCHANGED bkContract /\ bkRow' \in BookRows
       /\ bkRow.there => bkRow'.there /\ (bkRow.closed => bkRow'.closed)
       /\ bkRow'.closed => bkRow.there /\ (bkRow.closed \/ bkContract = "sold")

LEMMA BookKinds == /\ EntryEvent \in TradeEvents /\ ExitEvent \in TradeEvents /\ ExternalCloseEvent \in TradeEvents
                   /\ EntryEvent.kind = "entry" /\ ExitEvent.kind = "exit" /\ ExternalCloseEvent.kind = "exit"
                   /\ \A e \in TradeEvents : e.kind \in {"entry", "exit"} /\ e.status \in Statuses /\ e.profit \in Profits
  BY DEF TradeEvents, EntryEvent, ExitEvent, ExternalCloseEvent, Statuses, Profits

LEMMA BookSteps ==
    ASSUME BookInv, BookNext
    PROVE  BookStep
  <1>1. ASSUME NEW profit \in Profits, NEW works \in BOOLEAN, RecordExit(profit, works), bkContract = "sold",
               UNCHANGED bkContract
        PROVE  BookStep
    <2>1. CASE works /\ bkRow.there
      <3> DEFINE r == [bkRow EXCEPT !.closed = TRUE, !.status = "closed", !.profit = profit]
      <3>1. r \in BookRows /\ r.there = bkRow.there /\ r.closed = TRUE
        BY DEF BookInv, BookTyped, BookRows, Statuses
      <3>2. bkRow' = r
        BY <1>1, <2>1 DEF RecordExit
      <3> QED
        BY <1>1, <2>1, <3>1, <3>2 DEF BookStep
    <2>2. CASE ~(works /\ bkRow.there)
      BY <1>1, <2>2 DEF RecordExit, BookStep
    <2> QED
      BY <2>1, <2>2
  <1>2. ASSUME NEW works \in BOOLEAN, NEW h \in bkHandlers, SaveRow(h, works) PROVE BookStep
    <2>1. UNCHANGED bkContract /\ h \in BookHandlers /\ h.read /\ bkRow \in BookRows
      BY <1>2 DEF SaveRow, Backend, BookInv, BookTyped
    <2>2. CASE ~works \/ (h.event.kind # "exit" /\ ~bkSaved)
      BY <1>2, <2>1, <2>2 DEF SaveRow, BookStep
    <2>3. CASE works /\ h.event.kind = "exit"
      <3>1. bkRow' = ExitSaved(h) /\ bkRow.there /\ bkContract = "sold"
        BY <1>2, <2>1, <2>3 DEF SaveRow, BookInv, ExitUnderWay
      <3>2. ExitSaved(h) \in BookRows /\ ExitSaved(h).there = bkRow.there /\ ExitSaved(h).closed = TRUE
        BY <2>1, BookKinds DEF ExitSaved, BookRows, BookHandlers
      <3> QED
        BY <2>1, <3>1, <3>2 DEF BookStep
    <2>4. CASE works /\ h.event.kind # "exit" /\ bkSaved
      <3>1. bkRow' = EntrySaved
        BY <1>2, <2>4 DEF SaveRow
      <3>2. /\ EntrySaved \in BookRows /\ EntrySaved.there
            /\ EntrySaved.closed = (IF bkRow.there THEN bkRow.closed ELSE FALSE)
        BY <2>1 DEF EntrySaved, Filled, NoTrade, BookRows, Statuses, Profits
      <3> QED
        BY <2>1, <3>1, <3>2 DEF BookStep, BookInv
    <2> QED
      BY <2>2, <2>3, <2>4
  <1>3. ASSUME NEW works \in BOOLEAN, RecordEntry(works) PROVE BookStep
    <2>1. Filled(bkSaved) \in BookRows /\ ~Filled(bkSaved).closed
      BY DEF Filled, NoTrade, BookRows, Statuses, Profits, BookInv, BookTyped
    <2> QED
      BY <1>3, <2>1 DEF RecordEntry, BookStep
  <1>4. CASE BrokerSells \/ SignalLands \/ Track \/ EngineRestarts \/ FetchOpen \/ Rehydrate \/ BackendRestarts
    BY <1>4 DEF BrokerSells, SignalLands, Track, EngineRestarts, FetchOpen, Rehydrate, BackendRestarts, BookStep
  <1>5. ASSUME NEW works \in BOOLEAN,
               \/ PublishEntry(works) \/ CloseOnTime(works) \/ PublishExit(works) \/ FetchProfit(works)
               \/ MissesPosition(works) \/ FetchClosed(works) \/ PublishExternalClose(works) \/ Deliver(works)
               \/ ListOpenTrades(works) \/ GetPositions(works) \/ FetchExit(works)
        PROVE  BookStep
    BY <1>5 DEF PublishEntry, CloseOnTime, PublishExit, FetchProfit, MissesPosition, FetchClosed, Sweep,
                PublishExternalClose, Deliver, Backend, ListOpenTrades, GetPositions, FetchExit, BookStep
  <1>6. ASSUME NEW works \in BOOLEAN,
               RecordOwnExit(works) \/ RecordExternalExit(works) \/ RecordSweptExit(works)
        PROVE  BookStep
    <2>1. bkContract = "sold" /\ UNCHANGED bkContract
      BY <1>6 DEF RecordOwnExit, RecordExternalExit, RecordSweptExit, Loop, Sweep, BookInv, ExitUnderWay
    <2>2. \E profit \in Profits : RecordExit(profit, works)
      BY <1>6 DEF RecordOwnExit, RecordExternalExit, RecordSweptExit, BookInv, BookTyped, Profits
    <2> QED
      BY <1>1, <2>1, <2>2
  <1>7. ASSUME NEW h \in bkHandlers, FindRow(h) PROVE BookStep
    BY <1>7 DEF FindRow, Backend, BookStep
  <1> QED
    BY <1>2, <1>3, <1>4, <1>5, <1>6, <1>7 DEF BookNext
\* The rest of the state: what a step may do to the messages and to their handlers.
LEMMA BookFrame ==
    ASSUME BookInv, BookStep, bkChannel' \in Seq(TradeEvents), bkHandlers' \subseteq BookHandlers, bkFigure' \in Profits,
           bkSaved' \in BOOLEAN, bkContract' = "sold" \/ ~ExitUnderWay',
           \A h \in bkHandlers' \ bkHandlers : h.read /\ h.event.kind = "exit" => bkRow.there
    PROVE  BookInv'
  <1>1. bkContract' \in {"open", "sold"} /\ bkRow' \in BookRows /\ (bkRow.there => bkRow'.there)
    BY DEF BookStep, BookInv, BookTyped
  <1>2. bkRow'.closed => bkRow'.there
    BY DEF BookStep, BookInv
  <1>3. BookTyped'
    BY <1>1 DEF BookTyped
  <1>4. \A h \in bkHandlers' : h.read /\ h.event.kind = "exit" => bkRow'.there
    BY <1>1 DEF BookInv
  <1> QED
    BY <1>2, <1>3, <1>4 DEF BookInv

LEMMA Published ==
    ASSUME BookInv, NEW e \in TradeEvents, NEW works \in BOOLEAN, Publish(e, works)
    PROVE  /\ bkChannel' \in Seq(TradeEvents)
           /\ \A i \in 1 .. Len(bkChannel') :
                 bkChannel'[i] = e \/ \E j \in 1 .. Len(bkChannel) : bkChannel'[i] = bkChannel[j]
  <1>1. bkChannel \in Seq(TradeEvents)
    BY DEF BookInv, BookTyped
  <1>2. CASE works
    <2>1. bkChannel' = Append(bkChannel, e)
      BY <1>2 DEF Publish
    <2>2. /\ bkChannel' \in Seq(TradeEvents) /\ Len(bkChannel') = Len(bkChannel) + 1 /\ Len(bkChannel) \in Nat
          /\ bkChannel'[Len(bkChannel) + 1] = e
          /\ \A i \in 1 .. Len(bkChannel) : bkChannel'[i] = bkChannel[i]
      BY <1>1, <2>1, AppendProperties, LenProperties
    <2>3. ASSUME NEW i \in 1 .. Len(bkChannel')
          PROVE  bkChannel'[i] = e \/ \E j \in 1 .. Len(bkChannel) : bkChannel'[i] = bkChannel[j]
      <3>1. i \in 1 .. Len(bkChannel) \/ i = Len(bkChannel) + 1
        BY <2>2
      <3> QED
        BY <2>2, <3>1
    <2> QED
      BY <2>2, <2>3
  <1>3. CASE ~works
    BY <1>1, <1>3 DEF Publish
  <1> QED
    BY <1>2, <1>3

LEMMA BookKeeps ==
    ASSUME BookInv, BookNext
    PROVE  BookInv'
  <1>1. BookStep
    BY BookSteps
  <1>2. /\ bkChannel \in Seq(TradeEvents) /\ bkHandlers \subseteq BookHandlers /\ bkFigure \in Profits
        /\ bkSaved \in BOOLEAN /\ bkContract \in {"open", "sold"}
        /\ bkContract' = bkContract \/ bkContract' = "sold"
    BY <1>1 DEF BookInv, BookTyped, BookStep
  <1> DEFINE Rest == UNCHANGED <<bkChannel, bkHandlers>>
  <1>3. ASSUME NEW works \in BOOLEAN,
               PublishEntry(works) \/ PublishExit(works) \/ PublishExternalClose(works)
        PROVE  BookInv'
    <2>1. UNCHANGED <<bkHandlers, bkFigure, bkSaved, bkSweep, bkContract>>
      BY <1>3 DEF PublishEntry, PublishExit, PublishExternalClose, Loop, bkSweepVars
    <2>2. CASE PublishEntry(works)
      <3>1. Publish(EntryEvent, works) /\ UNCHANGED bkMonitor
        BY <2>2 DEF PublishEntry
      <3>2. bkContract' = "sold" \/ ~ExitUnderWay'
        BY <1>2, <2>1, <3>1, Published, BookKinds DEF BookInv, ExitUnderWay
      <3> QED
        BY <1>1, <1>2, <2>1, <3>1, <3>2, Published, BookKinds, BookFrame
    <2>3. CASE PublishExit(works) \/ PublishExternalClose(works)
      <3>1. (Publish(ExitEvent, works) \/ Publish(ExternalCloseEvent, works)) /\ bkContract' = "sold"
        BY <2>1, <2>3 DEF PublishExit, PublishExternalClose, Loop, BookInv, ExitUnderWay
      <3>2. bkChannel' \in Seq(TradeEvents)
        BY <3>1, Published, BookKinds
      <3> QED
        BY <1>1, <1>2, <2>1, <3>1, <3>2, BookFrame
    <2> QED
      BY <1>3, <2>2, <2>3
  <1>4. ASSUME NEW works \in BOOLEAN, Deliver(works) PROVE BookInv'
    <2> DEFINE new == [event |-> Head(bkChannel), read |-> FALSE, found |-> NoTrade]
    <2>1. /\ bkChannel # <<>> /\ bkChannel' = Tail(bkChannel)
          /\ bkHandlers' = (IF works THEN bkHandlers \cup {new} ELSE bkHandlers)
          /\ UNCHANGED <<bkFigure, bkSaved, bkSweep, bkContract, bkMonitor>>
      BY <1>4 DEF Deliver, Backend, bkEngineVars, bkSweepVars
    <2>2. /\ Head(bkChannel) \in TradeEvents /\ bkChannel' \in Seq(TradeEvents) /\ Len(bkChannel) \in Nat \ {0}
          /\ Len(bkChannel') = Len(bkChannel) - 1 /\ Head(bkChannel) = bkChannel[1]
          /\ \A i \in 1 .. Len(bkChannel') : bkChannel'[i] = bkChannel[i + 1]
      BY <1>2, <2>1, HeadTailProperties, EmptySeq
    <2>3. new \in BookHandlers /\ new.read = FALSE /\ new.event = Head(bkChannel)
      BY <2>2 DEF BookHandlers, NoTrade, BookRows, Statuses, Profits
    <2> HIDE DEF new
    <2>4. ExitUnderWay' => ExitUnderWay
      <3>1. \A i \in 1 .. Len(bkChannel') : i + 1 \in 1 .. Len(bkChannel)
        BY <2>2
      <3>2. 1 \in 1 .. Len(bkChannel)
        BY <2>2
      <3> QED
        BY <2>1, <2>2, <2>3, <3>1, <3>2 DEF ExitUnderWay
    <2> QED
      BY <1>1, <1>2, <2>1, <2>2, <2>3, <2>4, BookFrame DEF BookInv
  <1>5. ASSUME NEW h \in bkHandlers, FindRow(h) PROVE BookInv'
    <2> DEFINE found == [h EXCEPT !.read = TRUE, !.found = bkRow]
    <2>1. /\ bkHandlers' = (bkHandlers \ {h}) \cup
                (IF bkRow.there = (h.event.kind = "exit") THEN {found} ELSE {})
          /\ UNCHANGED <<bkChannel, bkFigure, bkSaved, bkSweep, bkContract, bkMonitor>>
      BY <1>5 DEF FindRow, Backend, bkEngineVars, bkSweepVars
    <2>2. found \in BookHandlers /\ found.event = h.event
      BY <1>2 DEF BookHandlers, BookInv, BookTyped
    <2>3. bkRow.there \in BOOLEAN
      BY DEF BookInv, BookTyped, BookRows
    <2> HIDE DEF found
    <2>4. ExitUnderWay' => ExitUnderWay
      BY <2>1, <2>2 DEF ExitUnderWay
    <2> QED
      BY <1>1, <1>2, <2>1, <2>2, <2>3, <2>4, BookFrame DEF BookInv
  <1>6. ASSUME NEW h \in bkHandlers, NEW works \in BOOLEAN, SaveRow(h, works) PROVE BookInv'
    <2>1. /\ bkHandlers' \subseteq bkHandlers
          /\ UNCHANGED <<bkChannel, bkFigure, bkSaved, bkSweep, bkContract, bkMonitor>>
      BY <1>6 DEF SaveRow, Backend, bkEngineVars, bkSweepVars
    <2>2. ExitUnderWay' => ExitUnderWay
      BY <2>1 DEF ExitUnderWay
    <2> QED
      BY <1>1, <1>2, <2>1, <2>2, BookFrame DEF BookInv
  <1>7. CASE BackendRestarts
    <2>1. bkChannel' = <<>> /\ bkHandlers' = {} /\ UNCHANGED <<bkFigure, bkSaved, bkSweep, bkContract, bkMonitor>>
      BY <1>7 DEF BackendRestarts, bkEngineVars, bkSweepVars
    <2>2. ExitUnderWay' => ExitUnderWay
      BY <2>1 DEF ExitUnderWay
    <2> QED
      BY <1>1, <1>2, <2>1, <2>2, EmptySeq, BookFrame DEF BookInv
  <1>8. ASSUME Rest, bkFigure' \in Profits, bkSaved' \in BOOLEAN,
               bkContract' = "sold" \/
                 (/\ bkMonitor' = bkMonitor \/ bkMonitor' \in {"idle", "details"}
                  /\ bkSweep' = bkSweep \/ bkSweep' # "record")
        PROVE  BookInv'
    <2>1. bkContract' = "sold" \/ (ExitUnderWay' => ExitUnderWay)
      BY <1>8 DEF ExitUnderWay
    <2> QED
      BY <1>1, <1>2, <1>8, <2>1, BookFrame DEF BookInv
  <1>9. CASE BrokerSells \/ SignalLands \/ Track \/ EngineRestarts \/ FetchOpen \/ Rehydrate
    BY <1>2, <1>8, <1>9 DEF BrokerSells, SignalLands, Track, EngineRestarts, FetchOpen, Rehydrate, bkEngineVars,
                            bkBackendVars, bkSweepVars, Profits
  <1>10. ASSUME NEW works \in BOOLEAN, RecordEntry(works) \/ CloseOnTime(works) \/ MissesPosition(works)
         PROVE  BookInv'
    BY <1>2, <1>8, <1>10 DEF RecordEntry, CloseOnTime, MissesPosition, Loop, bkBackendVars, bkSweepVars
  <1>11. ASSUME NEW works \in BOOLEAN,
                FetchProfit(works) \/ RecordOwnExit(works) \/ FetchClosed(works) \/ RecordExternalExit(works)
         PROVE  BookInv'
    BY <1>2, <1>8, <1>11 DEF FetchProfit, RecordOwnExit, FetchClosed, RecordExternalExit, HasDetails, Loop,
                             bkBackendVars, bkSweepVars, Profits, BookInv, ExitUnderWay
  <1>12. ASSUME NEW works \in BOOLEAN,
                ListOpenTrades(works) \/ GetPositions(works) \/ FetchExit(works) \/ RecordSweptExit(works)
         PROVE  BookInv'
    BY <1>2, <1>8, <1>12 DEF ListOpenTrades, GetPositions, FetchExit, RecordSweptExit, HasDetails, Sweep,
                             bkBackendVars, bkEngineVars
  <1> QED
    BY <1>3, <1>4, <1>5, <1>6, <1>7, <1>9, <1>10, <1>11, <1>12 DEF BookNext

LEMMA BookInvariant == BookInit /\ [][BookNext]_bkVars => []BookInv
  <1>1. ASSUME BookInit PROVE BookInv
    <2>1. NoTrade \in BookRows /\ NoTrade.closed = FALSE
      BY DEF NoTrade, BookRows, Statuses, Profits
    <2>2. BookTyped
      BY <1>1, <2>1, EmptySeq DEF BookInit, BookTyped, Profits
    <2>3. ~ExitUnderWay
      BY <1>1 DEF BookInit, ExitUnderWay
    <2> QED
      BY <1>1, <2>1, <2>2, <2>3 DEF BookInit, BookInv
  <1>2. ASSUME BookInv, UNCHANGED bkVars PROVE BookInv'
    BY <1>2 DEF bkVars, bkEngineVars, bkBackendVars, bkSweepVars, BookInv, BookTyped, ExitUnderWay
  <1> QED
    BY <1>1, <1>2, BookKeeps, PTL

\* The trades row of a contract implements the ledger (record_entry, record_exit, the
\* handlers of trades:results and the sweep): whoever writes, in whatever order, from
\* whatever they read before, an exit is booked for a sold contract only, and stays.
THEOREM BooksImplementLedger == BookSpec => BooksAreLedger
  <1>1. BookInit => Abstract!LedgerInit
    BY DEF BookInit, NoTrade, Abstract!LedgerInit
  <1>2. ASSUME BookInv, [BookNext]_bkVars PROVE [Abstract!LedgerNext]_(Abstract!ledgerVars)
    <2>1. CASE BookNext
      <3>1. BookStep
        BY <1>2, <2>1, BookSteps
      <3>2. /\ bkContract \in {"open", "sold"} /\ bkRow.closed \in BOOLEAN /\ bkRow.there \in BOOLEAN
            /\ bkRow.closed => bkRow.there
        BY <1>2 DEF BookInv, BookTyped, BookRows
      <3>3. CASE UNCHANGED bkRow /\ bkContract' \in {bkContract, "sold"}
        BY <3>2, <3>3 DEF Abstract!LedgerNext, Abstract!Sell, Abstract!ledgerVars
      <3>4. CASE UNCHANGED bkContract /\ ~bkRow.there
        BY <3>1, <3>2, <3>4 DEF BookStep, BookRows, Abstract!LedgerNext, Abstract!Enter, Abstract!ledgerVars
      <3>5. CASE UNCHANGED bkContract /\ bkRow.there
        BY <3>1, <3>2, <3>5 DEF BookStep, BookRows, Abstract!LedgerNext, Abstract!Book, Abstract!ledgerVars
      <3> QED
        BY <3>1, <3>2, <3>3, <3>4, <3>5 DEF BookStep
    <2>2. CASE UNCHANGED bkVars
      BY <2>2 DEF bkVars, Abstract!ledgerVars
    <2> QED
      BY <1>2, <2>1, <2>2
  <1> QED
    BY <1>1, <1>2, BookInvariant, PTL DEF BookSpec, BooksAreLedger, Abstract!LedgerSpec

(* Backtest: what the rules make of a trade. *)
Trade == [direction : {"BUY", "SELL"}, entry : Int, stop : Int, initial : Int, target : Int,
          size : Int, zone : Blocks, opened : Int, swings : SUBSET Int, partial : BOOLEAN,
          trailing : BOOLEAN, evened : BOOLEAN, exit : Seq(Int)]

Settings == [limits : Limits, rules : Rules, minutes : BOOLEAN]

(* A rule leaves of a trade its opening; SameTrade(t, u) is what all of them keep. *)
SameTrade(t, u) ==
  /\ u \in Trade /\ u.opened = t.opened /\ u.entry = t.entry /\ u.initial = t.initial
  /\ u.direction = t.direction /\ u.zone = t.zone

LEMMA PricesAreInts ==
    ASSUME NEW t \in Trade, NEW c \in Candles
    PROVE  /\ Worst(t.direction, c) \in Int /\ Best(t.direction, c) \in Int
           /\ BestPrice(t, c) \in Int /\ Sign(t.direction) * c.close \in Int
<1>1. t.direction \in {"BUY", "SELL"} /\ c.low \in Int /\ c.high \in Int /\ c.close \in Int
      /\ Charges.spread \in Int
  <2>1. t.direction \in {"BUY", "SELL"}
    BY DEF Trade
  <2>2. c \in [open : Int, low : Int, high : Int, close : Int]
    BY BacktestAssumption
  <2>3. Charges.spread \in Nat
    BY BacktestAssumption
  <2> QED  BY <2>1, <2>2, <2>3
<1>2. Worst(t.direction, c) \in Int /\ Best(t.direction, c) \in Int
  BY <1>1 DEF Worst, Best
<1>3. Sign(t.direction) \in {1, -1}
  BY DEF Sign
<1> QED  BY <1>1, <1>2, <1>3 DEF BestPrice

LEMMA RulesAreNumbers ==
    ASSUME btSettings \in Settings
    PROVE  ExitRules \in [time : Nat, breakEven : Nat, buffer : Nat, activation : Nat,
                          distance : Nat, partial : Nat, structural : BOOLEAN]
  BY BacktestAssumption DEF Settings, ExitRules

LEMMA BreakEvenKeeps ==
    ASSUME btSettings \in Settings, NEW t \in Trade, NEW c \in Candles
    PROVE  SameTrade(t, BreakEvenStop(t, c)) /\ BreakEvenStop(t, c).exit = t.exit
<1>1. t.entry + ExitRules.buffer \in Int
  BY RulesAreNumbers DEF Trade
<1> QED  BY <1>1 DEF SameTrade, BreakEvenStop, Trade

LEMMA TightenedKeeps ==
    ASSUME NEW t \in Trade, NEW p \in Int
    PROVE  SameTrade(t, Tightened(t, p)) /\ Tightened(t, p).exit = t.exit
  BY DEF SameTrade, Tightened, Trade, Higher

LEMMA TrailingKeeps ==
    ASSUME btSettings \in Settings, NEW t \in Trade, NEW c \in Candles
    PROVE  SameTrade(t, TrailingStop(t, c)) /\ TrailingStop(t, c).exit = t.exit
<1> DEFINE active == t.trailing \/ BestPrice(t, c) - t.entry >= ExitRules.activation
           u == [t EXCEPT !.trailing = active]
<1>1. SameTrade(t, t) /\ SameTrade(t, u) /\ u.exit = t.exit /\ u \in Trade
  BY RulesAreNumbers, PricesAreInts DEF SameTrade, Trade
<1>2. BestPrice(t, c) - ExitRules.distance \in Int
  BY RulesAreNumbers, PricesAreInts
<1>3. SameTrade(u, Tightened(u, BestPrice(t, c) - ExitRules.distance))
      /\ Tightened(u, BestPrice(t, c) - ExitRules.distance).exit = u.exit
  BY <1>1, <1>2, TightenedKeeps
<1> QED  BY <1>1, <1>3 DEF TrailingStop, SameTrade

LEMMA PartialKeeps ==
    ASSUME btSettings \in Settings, NEW t \in Trade, NEW c \in Candles
    PROVE  SameTrade(t, PartialClose(t, c)) /\ PartialClose(t, c).exit = t.exit
<1>1. t.size \div 2 \in Int
  BY DEF Trade
<1> QED  BY <1>1 DEF SameTrade, PartialClose, Trade

LEMMA StructuralKeeps ==
    ASSUME btSettings \in Settings, NEW t \in Trade, NEW swing \in Seq(Int)
    PROVE  SameTrade(t, StructuralStop(t, swing)) /\ StructuralStop(t, swing).exit = t.exit
<1>1. swing # <<>> => swing[1] - ExitRules.buffer \in Int
  BY RulesAreNumbers, HeadTailProperties
<1>2. SameTrade(t, t)
  BY DEF SameTrade
<1> QED  BY <1>1, <1>2, TightenedKeeps DEF StructuralStop

LEMMA SeenKeeps ==
    ASSUME btSettings \in Settings, NEW t \in Trade, NEW c \in Candles
    PROVE  SameTrade(t, Seen(t, c)) /\ Seen(t, c).exit = t.exit
  BY PricesAreInts DEF SameTrade, Seen, Trade

LEMMA ExitKeeps ==
    ASSUME NEW t \in Trade, NEW p \in Int
    PROVE  SameTrade(t, Exit(t, p)) /\ Exit(t, p).exit = <<p>>
<1>1. <<p>> \in Seq(Int)
  OBVIOUS
<1> QED  BY <1>1 DEF SameTrade, Exit, Trade

(* CheckExit, After and Walk, from the rules. *)
LEMMA CheckExitKeeps ==
    ASSUME btSettings \in Settings, NEW t \in Trade, t.exit = <<>>, NEW c \in Candles,
           NEW age, NEW swing \in Seq(Int)
    PROVE  SameTrade(t, CheckExit(t, c, age, swing))
<1> DEFINE a == BreakEvenStop(t, c)
           b == TrailingStop(a, c)
           d == PartialClose(b, c)
           e == StructuralStop(d, swing)
<1>1. SameTrade(t, a)
  BY BreakEvenKeeps
<1>2. SameTrade(a, b)
  BY <1>1, TrailingKeeps DEF SameTrade
<1>3. SameTrade(b, d)
  BY <1>2, PartialKeeps DEF SameTrade
<1>4. SameTrade(d, e)
  BY <1>3, StructuralKeeps DEF SameTrade
<1>5. SameTrade(e, Seen(e, c))
  BY <1>4, SeenKeeps DEF SameTrade
<1>6. \A p \in {t.stop, t.target, Sign(t.direction) * c.close} : SameTrade(t, Exit(t, p))
  BY ExitKeeps, PricesAreInts DEF Trade
<1>7. CheckExit(t, c, age, swing) \in
        {Exit(t, p) : p \in {t.stop, t.target, Sign(t.direction) * c.close}} \cup {Seen(e, c)}
  BY DEF CheckExit
<1> HIDE DEF a, b, d, e
<1>8. SameTrade(t, Seen(e, c))
  BY <1>1, <1>2, <1>3, <1>4, <1>5 DEF SameTrade
<1> QED  BY <1>6, <1>7, <1>8

LEMMA SameTradeFollows ==
    ASSUME NEW t, NEW u, NEW v, SameTrade(t, u), SameTrade(u, v)
    PROVE  SameTrade(t, v)
  BY DEF SameTrade

LEMMA SwingsArePrices ==
    ASSUME NEW t \in Trade PROVE Swings(t) \subseteq Seq(Int) /\ <<>> \in Seq(Int)
<1>1. \A p \in Int : <<p>> \in Seq(Int)
  OBVIOUS
<1>2. t.swings \subseteq Int
  BY DEF Trade
<1>3. <<>> \in Seq(Int)
  OBVIOUS
<1>4. ASSUME NEW x \in Swings(t) PROVE x \in Seq(Int)
  <2>1. CASE x = <<>>
    BY <1>3, <2>1
  <2>2. ASSUME NEW p \in t.swings, x = <<p>> PROVE x \in Seq(Int)
    BY <1>1, <1>2, <2>2
  <2> QED  BY <2>1, <2>2 DEF Swings
<1> QED  BY <1>3, <1>4

LEMMA AfterKeeps ==
    ASSUME btSettings \in Settings, NEW t \in Trade, NEW c \in Candles, NEW age,
           NEW u \in After(t, c, age)
    PROVE  SameTrade(t, u)
<1>1. CASE t.exit # <<>>
  BY <1>1 DEF After, SameTrade
<1>2. CASE t.exit = <<>>
  <2>1. PICK s \in Seq(Int) : u = CheckExit(t, c, age, s)
    BY <1>2, SwingsArePrices DEF After
  <2> QED  BY <1>2, <2>1, CheckExitKeeps
<1> QED  BY <1>1, <1>2

LEMMA WalkKeeps ==
    ASSUME btSettings \in Settings, NEW t \in Trade, NEW c \in Candles, NEW u \in Walk(t, c)
    PROVE  SameTrade(t, u)
<1> DEFINE age == btBar - t.opened
<1> HIDE DEF age
<1>1. u \in {t} \cup After(t, c, age)
           \cup UNION {After(v, c, age) : v \in UNION {After(t, b, age - 1) : b \in Candles}}
  BY DEF Walk, age
<1>2. SameTrade(t, t)
  BY DEF SameTrade
<1>3. CASE u \in After(t, c, age)
  BY <1>3, AfterKeeps
<1>4. ASSUME NEW b \in Candles, NEW v \in After(t, b, age - 1), u \in After(v, c, age)
      PROVE  SameTrade(t, u)
  <2>1. SameTrade(t, v)
    BY AfterKeeps
  <2>2. SameTrade(v, u)
    BY <1>4, <2>1, AfterKeeps DEF SameTrade
  <2> QED  BY <2>1, <2>2, SameTradeFollows
<1> QED  BY <1>1, <1>2, <1>3, <1>4

(* The numbers of the limits. *)
LEMMA NextDay ==
    ASSUME NEW b \in Nat PROVE Day(b) \in Int /\ Day(b) <= Day(b + 1)
<1> DEFINE p == BarsPerDay  q == b \div p  r == (b + 1) \div p
<1>1. q \in Int /\ r \in Int /\ b < p * q + p /\ p * q <= b /\ b + 1 < p * r + p /\ p * r <= b + 1 /\ p \in Nat
  BY BacktestAssumption
<1>2. ASSUME r < q PROVE FALSE
  <2>1. p * (r + 1) <= p * q
    BY <1>1, <1>2
  <2>2. p * (r + 1) = p * r + p
    BY <1>1
  <2> QED  BY <1>1, <2>1, <2>2
<1> QED  BY <1>1, <1>2 DEF Day

(* What keeps to the drawdown limit from a peak keeps to it from whatever is lower. *)
LEMMA DrawdownOfLower ==
    ASSUME NEW dd \in 1..100, NEW p \in Int, NEW a \in Int, NEW e \in Int,
           a <= p, (p - e) * 100 < dd * p
    PROVE  (a - e) * 100 < dd * a
<1>1. (100 - dd) * (p - a) >= 0
  <2>1. 100 - dd \in Nat /\ p - a \in Nat
    OBVIOUS
  <2> QED  BY <2>1
<1>2. (100 - dd) * (p - a) = 100 * p - dd * p - 100 * a + dd * a
  OBVIOUS
<1>3. dd * p \in Int /\ dd * a \in Int
  OBVIOUS
<1> QED  BY <1>1, <1>2, <1>3

(***************************************************************************)
(* The accounts of a backtest, told by its closed trades alone: the equity *)
(* after j of them, and the equity at the beginning of a day of which the  *)
(* first n were closed by then or later.                                   *)
(***************************************************************************)
ClosedTrade == [opened : Int, closed : Nat, after : Int]
LimitSet == [capital : Nat \ {0}, floor : Nat, drawdown : 1..100, daily : Nat \ {0}, risk : Nat]

EquityAfter(l, s, j) == IF j = 0 THEN l.capital ELSE s[j].after
ClosedBefore(s, n, d) == {i \in 1..n : Day(s[i].closed) < d}
DayBegan(l, s, n, d) == EquityAfter(l, s, Cardinality(ClosedBefore(s, n, d)))

(* A trade that was opened at bar b after n others kept to the limits. *)
OpenedWithin(l, s, n, b) ==
  /\ \A j \in 0..n :
       /\ EquityAfter(l, s, j) > l.floor
       /\ \A i \in 0..j :
            (EquityAfter(l, s, i) - EquityAfter(l, s, j)) * 100 < l.drawdown * EquityAfter(l, s, i)
  /\ (DayBegan(l, s, n, Day(b)) - EquityAfter(l, s, n)) * 100 < DayBegan(l, s, n, Day(b)) * l.daily

BacktestTyped ==
  /\ btBar \in Nat /\ btSettings \in Settings /\ btLast \in Int
  /\ btTrade = <<>> \/ \E t \in Trade : btTrade = <<t>>
  /\ btTrades \in Seq(ClosedTrade)
  /\ btEquity \in Int /\ btHwm \in Int
  /\ btBreached \in BOOLEAN /\ btBlown \in BOOLEAN
  /\ btDay \in [day : Int, start : Int, pnl : Int]

(* Until the trade open at the end of the data is closed, the engine's figures are those *)
(* the closed trades tell. *)
Running == btBar <= Bars \/ btTrade # <<>>
Total == Len(btTrades)

FiguresInv == Running =>
  /\ btEquity = EquityAfter(Limit, btTrades, Total)
  /\ \A i \in 0..Total : EquityAfter(Limit, btTrades, i) <= btHwm
  /\ btDay.day <= Day(btBar)
  /\ \A i \in 1..Total : Day(btTrades[i].closed) <= btDay.day
  /\ btDay.start = DayBegan(Limit, btTrades, Total, btDay.day)
  /\ btEquity = btDay.start + btDay.pnl

LimitsInv ==
  /\ \A k \in 1..Total : OpenedWithin(Limit, btTrades, k - 1, btTrades[k].opened)
  /\ btTrade # <<>> => OpenedWithin(Limit, btTrades, Total, btTrade[1].opened)

BacktestInv == BacktestTyped /\ FiguresInv /\ LimitsInv

LEMMA DaysAreInts ==
    ASSUME NEW b \in Int PROVE Day(b) \in Int
  BY BacktestAssumption DEF Day

LEMMA LimitIsTyped ==
    ASSUME btSettings \in Settings PROVE Limit \in LimitSet
  BY BacktestAssumption DEF Settings, Limit, LimitSet

LEMMA ClosedAreFinite ==
    ASSUME NEW n \in Nat, NEW s, NEW d
    PROVE  /\ Cardinality(ClosedBefore(s, n, d)) \in 0..n
           /\ (\A i \in 1..n : Day(s[i].closed) < d) => Cardinality(ClosedBefore(s, n, d)) = n
<1>1. IsFiniteSet(1..n) /\ Cardinality(1..n) = n
  <2>1. IsFiniteSet(1..n) /\ Cardinality(1..n) = IF 1 > n THEN 0 ELSE n - 1 + 1
    BY FS_Interval, 1 \in Int, n \in Int
  <2>2. (IF 1 > n THEN 0 ELSE n - 1 + 1) = n
    OBVIOUS
  <2> QED  BY <2>1, <2>2
<1>2. ClosedBefore(s, n, d) \subseteq 1..n
  BY DEF ClosedBefore
<1>3. /\ IsFiniteSet(ClosedBefore(s, n, d))
      /\ Cardinality(ClosedBefore(s, n, d)) <= n
  BY <1>1, <1>2, FS_Subset
<1>4. Cardinality(ClosedBefore(s, n, d)) \in Nat
  BY <1>3, FS_CardinalityType
<1>5. (\A i \in 1..n : Day(s[i].closed) < d) => ClosedBefore(s, n, d) = 1..n
  BY DEF ClosedBefore
<1> QED  BY <1>1, <1>3, <1>4, <1>5

LEMMA EquitiesAreInts ==
    ASSUME NEW l \in LimitSet, NEW s \in Seq(ClosedTrade), NEW j \in 0..Len(s)
    PROVE  EquityAfter(l, s, j) \in Int
<1>1. ASSUME j # 0 PROVE s[j] \in ClosedTrade
  <2>1. j \in 1..Len(s)
    BY <1>1, LenProperties
  <2> QED  BY <2>1, ElementOfSeq
<1> QED  BY <1>1 DEF EquityAfter, LimitSet, ClosedTrade

(* What the first trades tell does not change when another one is closed. *)
LEMMA PastStays ==
    ASSUME NEW l \in LimitSet, NEW s \in Seq(ClosedTrade), NEW e \in ClosedTrade,
           NEW n \in 0..Len(s)
    PROVE  /\ \A j \in 0..n : EquityAfter(l, Append(s, e), j) = EquityAfter(l, s, j)
           /\ \A d : DayBegan(l, Append(s, e), n, d) = DayBegan(l, s, n, d)
           /\ \A b : OpenedWithin(l, Append(s, e), n, b) <=> OpenedWithin(l, s, n, b)
<1> DEFINE r == Append(s, e)
<1>1. \A i \in 1..n : r[i] = s[i]
  BY AppendProperties, LenProperties
<1> HIDE DEF r
<1>2. \A j \in 0..n : EquityAfter(l, r, j) = EquityAfter(l, s, j)
  BY <1>1, LenProperties DEF EquityAfter
<1>3. ASSUME NEW d PROVE DayBegan(l, r, n, d) = DayBegan(l, s, n, d)
  <2>1. ClosedBefore(r, n, d) = ClosedBefore(s, n, d)
    BY <1>1 DEF ClosedBefore
  <2>2. Cardinality(ClosedBefore(s, n, d)) \in 0..n
    BY ClosedAreFinite, LenProperties
  <2> QED  BY <1>2, <2>1, <2>2 DEF DayBegan
<1>4. ASSUME NEW b PROVE OpenedWithin(l, r, n, b) <=> OpenedWithin(l, s, n, b)
  <2>1. n \in 0..n /\ \A j \in 0..n : \A i \in 0..j : i \in 0..n
    BY LenProperties
  <2> QED  BY <1>2, <1>3, <2>1 DEF OpenedWithin
<1> QED  BY <1>2, <1>3, <1>4 DEF r

(* Where a bar begins: the accounts of its day, and the peak. *)
LEMMA BarAccounts ==
    ASSUME BacktestTyped, FiguresInv, btBar <= Bars
    PROVE  /\ Total \in Nat /\ Limit \in LimitSet
           /\ Today \in [day : Int, start : Int, pnl : Int] /\ Today.day = Day(btBar)
           /\ Today.start = DayBegan(Limit, btTrades, Total, Day(btBar))
           /\ btEquity = Today.start + Today.pnl /\ btEquity = EquityAfter(Limit, btTrades, Total)
           /\ Peak \in Int
           /\ \A i \in 0..Total : EquityAfter(Limit, btTrades, i) <= Peak
           /\ \A i \in 1..Total : Day(btTrades[i].closed) <= Day(btBar)
<1>1. /\ btEquity = EquityAfter(Limit, btTrades, Total)
      /\ \A i \in 0..Total : EquityAfter(Limit, btTrades, i) <= btHwm
      /\ btDay.day <= Day(btBar)
      /\ \A i \in 1..Total : Day(btTrades[i].closed) <= btDay.day
      /\ btDay.start = DayBegan(Limit, btTrades, Total, btDay.day)
      /\ btEquity = btDay.start + btDay.pnl
  BY DEF FiguresInv, Running
<1>2. Total \in Nat /\ Limit \in LimitSet /\ Day(btBar) \in Int
  BY LenProperties, LimitIsTyped, DaysAreInts DEF BacktestTyped, Total
<1>3. Today \in [day : Int, start : Int, pnl : Int] /\ Today.day = Day(btBar)
  BY <1>2 DEF BacktestTyped, Today
<1>4. \A i \in 0..Total : EquityAfter(Limit, btTrades, i) \in Int
  BY <1>2, EquitiesAreInts DEF BacktestTyped, Total
<1>5. Peak \in Int /\ Peak >= btHwm
  BY DEF BacktestTyped, Peak, Higher
<1>6. \A i \in 0..Total : EquityAfter(Limit, btTrades, i) <= Peak
  BY <1>1, <1>4, <1>5 DEF BacktestTyped
<1>7. \A i \in 1..Total : Day(btTrades[i].closed) \in Int
  <2> TAKE i \in 1..Total
  <2>1. btTrades[i] \in ClosedTrade
    BY ElementOfSeq DEF BacktestTyped, Total
  <2> QED  BY <2>1, DaysAreInts DEF ClosedTrade
<1>8. \A i \in 1..Total : Day(btTrades[i].closed) <= Day(btBar)
  BY <1>1, <1>2, <1>7 DEF BacktestTyped
<1>9. /\ Today.start = DayBegan(Limit, btTrades, Total, Day(btBar))
      /\ btEquity = Today.start + Today.pnl
  <2>1. CASE Day(btBar) = btDay.day
    BY <1>1, <2>1 DEF Today
  <2>2. CASE Day(btBar) # btDay.day
    <3>1. ASSUME NEW i \in 1..Total PROVE Day(btTrades[i].closed) < Day(btBar)
      <4>1. btDay.day \in Int /\ btDay.day < Day(btBar)
        BY <1>1, <1>2, <2>2 DEF BacktestTyped
      <4> QED  BY <1>1, <1>2, <1>7, <4>1
    <3>2. Cardinality(ClosedBefore(btTrades, Total, Day(btBar))) = Total
      BY <1>2, <3>1, ClosedAreFinite
    <3>3. Today.start = btEquity /\ Today.pnl = 0
      BY <2>2 DEF Today
    <3>4. btEquity = btEquity + 0
      BY DEF BacktestTyped
    <3> QED  BY <1>1, <3>2, <3>3, <3>4 DEF DayBegan
  <2> QED  BY <2>1, <2>2
<1> QED  BY <1>1, <1>2, <1>3, <1>5, <1>6, <1>8, <1>9

(* A bar that neither opens nor closes keeps the engine's figures. *)
LEMMA FiguresGoOn ==
    ASSUME BacktestInv, btBar <= Bars, btBar' = btBar + 1, UNCHANGED <<btSettings, btTrades, btEquity>>,
           btHwm' = Peak, btDay' = Today
    PROVE  FiguresInv'
<1>1. /\ Today.day = Day(btBar) /\ Today.start = DayBegan(Limit, btTrades, Total, Day(btBar))
      /\ btEquity = Today.start + Today.pnl /\ btEquity = EquityAfter(Limit, btTrades, Total)
      /\ \A i \in 0..Total : EquityAfter(Limit, btTrades, i) <= Peak
      /\ \A i \in 1..Total : Day(btTrades[i].closed) <= Day(btBar)
  BY BarAccounts DEF BacktestInv
<1>2. Day(btBar) <= Day(btBar + 1)
  BY NextDay DEF BacktestInv, BacktestTyped
<1>3. Limit' = Limit /\ Total' = Total
  BY DEF Limit, Total
<1> QED  BY <1>1, <1>2, <1>3 DEF FiguresInv

(* A trade that begins keeps to the limits: the halts and the day's losses were looked at. *)
LEMMA BeginsWithin ==
    ASSUME BacktestInv, btBar <= Bars, btTrade = <<>>, ~Halted, ~DayIsLost,
           \A k \in 1..Total : OpenedWithin(Limit, btTrades, k - 1, btTrades[k].opened)
    PROVE  OpenedWithin(Limit, btTrades, Total, btBar)
<1> DEFINE eq(j) == EquityAfter(Limit, btTrades, j)
<1>1. /\ Total \in Nat /\ Limit \in LimitSet
      /\ Today \in [day : Int, start : Int, pnl : Int]
      /\ Today.start = DayBegan(Limit, btTrades, Total, Day(btBar))
      /\ btEquity = Today.start + Today.pnl /\ btEquity = eq(Total) /\ Peak \in Int
      /\ \A i \in 0..Total : eq(i) <= Peak
  BY BarAccounts DEF BacktestInv
<1>2. \A i \in 0..Total : eq(i) \in Int
  BY <1>1, EquitiesAreInts DEF BacktestInv, BacktestTyped, Total
<1>3. btEquity > Limit.floor /\ (Peak - btEquity) * 100 < Limit.drawdown * Peak
  <2>1. ~(btEquity <= Limit.floor) /\ ~((Peak - btEquity) * 100 >= Limit.drawdown * Peak)
    <3>1. ~Breached /\ ~Blown
      BY DEF Halted
    <3>2. ~(btEquity <= Limit.floor)
      BY <3>1 DEF Blown
    <3>3. ~((Peak - btEquity) * 100 >= Limit.drawdown * Peak)
      BY <3>1 DEF Breached
    <3> QED  BY <3>2, <3>3
  <2>2. btEquity \in Int /\ Limit.floor \in Int /\ Limit.drawdown \in Int
    <3>1. Limit.floor \in Nat /\ Limit.drawdown \in 1..100
      BY <1>1 DEF LimitSet
    <3>2. btEquity \in Int
      BY DEF BacktestInv, BacktestTyped
    <3>3. Nat \subseteq Int /\ 1..100 \subseteq Int
      OBVIOUS
    <3> QED  BY <3>1, <3>2, <3>3
  <2>3. Limit.drawdown * Peak \in Int /\ (Peak - btEquity) * 100 \in Int
    BY <1>1, <2>2
  <2>4. \A x, y \in Int : (~(x <= y) => x > y) /\ (~(x >= y) => x < y)
    OBVIOUS
  <2> QED  BY <2>1, <2>2, <2>3, <2>4, Zenon
<1>4. ASSUME NEW j \in 0..Total
      PROVE  eq(j) > Limit.floor /\ \A i \in 0..j : (eq(i) - eq(j)) * 100 < Limit.drawdown * eq(i)
  <2>1. CASE j = Total
    <3>1. eq(j) = btEquity
      BY <1>1, <2>1
    <3>2. ASSUME NEW i \in 0..j PROVE (eq(i) - eq(j)) * 100 < Limit.drawdown * eq(i)
      <4>1. eq(i) \in Int /\ eq(j) \in Int /\ eq(i) <= Peak /\ Limit.drawdown \in 1..100
        BY <1>1, <1>2, <2>1 DEF LimitSet
      <4> HIDE DEF eq
      <4> QED  BY <1>1, <1>3, <3>1, <4>1, DrawdownOfLower
    <3> QED  BY <1>3, <3>1, <3>2
  <2>2. CASE j < Total
    <3>1. Total \in 1..Total /\ j \in 0..(Total - 1)
      BY <1>1, <2>2
    <3> QED  BY <3>1 DEF OpenedWithin
  <2> QED  BY <1>1, <2>1, <2>2
<1>5. Today.start > 0
  <2>1. PICK j \in 0..Total : Today.start = eq(j)
    BY <1>1, ClosedAreFinite DEF DayBegan
  <2>2. eq(j) > Limit.floor /\ Limit.floor \in Nat
    BY <1>1, <1>4 DEF LimitSet
  <2> QED  BY <1>2, <2>1, <2>2
<1>6. (Today.start - btEquity) * 100 < Today.start * Limit.daily
  <2>1. Limit.daily \in Nat \ {0} /\ Today.start \in Int /\ Today.pnl \in Int
    BY <1>1 DEF LimitSet
  <2>2. Today.start * Limit.daily \in Int /\ Today.start * Limit.daily > 0
    BY <1>5, <2>1
  <2>3. Today.start - btEquity = -Today.pnl
    BY <1>1, <2>1
  <2>4. CASE Today.pnl >= 0
    BY <2>1, <2>2, <2>3, <2>4
  <2>5. CASE Today.pnl < 0
    <3>1. ~(-Today.pnl * 100 >= Today.start * Limit.daily)
      BY <2>5 DEF DayIsLost
    <3> QED  BY <2>1, <2>2, <2>3, <3>1
  <2> QED  BY <2>1, <2>4, <2>5
<1> QED  BY <1>1, <1>4, <1>6 DEF OpenedWithin

LEMMA PnlIsInt ==
    ASSUME NEW t \in Trade, NEW p \in Int PROVE Pnl(t, p) \in Int
<1>1. t.entry \in Int /\ t.size \in Int /\ Charges.commission \in Int
  BY BacktestAssumption DEF Trade
<1>2. (p - t.entry) * t.size \in Int
  BY <1>1
<1> QED  BY <1>1, <1>2 DEF Pnl

LEMMA TradeOpened ==
    ASSUME BacktestTyped, NEW c \in Candles, NEW s \in Proposals
    PROVE  Opened(s, c) \in Trade /\ Opened(s, c).opened = btBar
<1>1. /\ s.direction \in {"BUY", "SELL"} /\ s.entry \in Int /\ s.stop \in Int /\ s.target \in Int
      /\ s.zone \in Blocks /\ c.low \in Int /\ c.high \in Int
      /\ Charges.slippage \in Int /\ Charges.spread \in Int
      /\ Charges.minLot \in Int /\ Charges.maxLot \in Int
  BY BacktestAssumption
<1>2. Sign(s.direction) \in {1, -1}
  BY DEF Sign
<1>3. Worst(s.direction, c) \in Int /\ Best(s.direction, c) \in Int
  BY <1>1 DEF Worst, Best
<1>4. Sign(s.direction) * s.entry \in Int /\ Sign(s.direction) * s.stop \in Int
      /\ Sign(s.direction) * s.target \in Int
  BY <1>1, <1>2
<1> DEFINE asked == Sign(s.direction) * s.entry + Charges.slippage + Charges.spread
           entry == Higher(Worst(s.direction, c), Lower(Best(s.direction, c), asked))
<1>5. entry \in Int
  BY <1>1, <1>3, <1>4 DEF Higher, Lower
<1>6. \A e, p \in Int : PositionSize(e, p) \in Int
  <2> TAKE e, p \in Int
  <2> DEFINE distance == Magnitude(e - p)
             lots == IF distance = 0 THEN 0 ELSE (btEquity * Limit.risk) \div (100 * 2 * distance)
  <2>1. distance \in Nat
    BY DEF Magnitude
  <2>2. btEquity * Limit.risk \in Int
    <3>1. \A l \in LimitSet : l.risk \in Int
      BY DEF LimitSet
    <3> QED  BY <3>1, LimitIsTyped DEF BacktestTyped
  <2>3. \A m \in Nat \ {0} : (btEquity * Limit.risk) \div m \in Int
    BY <2>2
  <2>4. distance # 0 => 100 * 2 * distance \in Nat \ {0}
    BY <2>1
  <2> HIDE DEF distance
  <2>5. lots \in Int
    BY <2>3, <2>4
  <2> HIDE DEF lots
  <2>6. Lower(Higher(Charges.minLot, lots), Charges.maxLot) \in Int
    BY <1>1, <2>5 DEF Higher, Lower
  <2>7. PositionSize(e, p) = 2 * Lower(Higher(Charges.minLot, lots), Charges.maxLot)
    BY DEF PositionSize, lots, distance
  <2> QED  BY <2>6, <2>7
<1>7. PositionSize(entry, Sign(s.direction) * s.stop) \in Int
  BY <1>4, <1>5, <1>6
<1>8. btBar \in Int /\ <<>> \in Seq(Int)
  BY DEF BacktestTyped
<1> HIDE DEF entry
<1>9. Opened(s, c) =
        [direction |-> s.direction, entry |-> entry, stop |-> Sign(s.direction) * s.stop,
         initial |-> Sign(s.direction) * s.stop, target |-> Sign(s.direction) * s.target,
         size |-> PositionSize(entry, Sign(s.direction) * s.stop),
         zone |-> s.zone, opened |-> btBar, swings |-> {}, partial |-> FALSE,
         trailing |-> FALSE, evened |-> FALSE, exit |-> <<>>]
  BY DEF Opened, entry
<1> QED  BY <1>1, <1>4, <1>5, <1>7, <1>8, <1>9 DEF Trade

(* Closing: what Ended adds to the closed trades. *)
LEMMA ClosesWithin ==
    ASSUME BacktestInv, NEW t \in Trade, btTrade = <<t>>, NEW u \in Trade, u.opened = t.opened,
           NEW p \in Int, btTrades' = Append(btTrades, Ended(u, p)), btTrade' = <<>>,
           UNCHANGED btSettings
    PROVE  /\ Ended(u, p) \in ClosedTrade /\ btTrades' \in Seq(ClosedTrade)
           /\ Total' = Total + 1 /\ btTrades'[Total + 1] = Ended(u, p)
           /\ \A i \in 1..Total : btTrades'[i] = btTrades[i]
           /\ LimitsInv'
<1>1. Ended(u, p) \in ClosedTrade
  <2>1. Pnl(u, p) \in Int
    BY PnlIsInt
  <2>2. btBar \in Nat /\ btEquity \in Int
    BY DEF BacktestInv, BacktestTyped
  <2>3. u.opened \in Int
    BY DEF Trade
  <2>4. btEquity + Pnl(u, p) \in Int
    BY <2>1, <2>2
  <2> QED  BY <2>2, <2>3, <2>4, Zenon DEF Ended, ClosedTrade
<1>2. Total \in Nat /\ btTrades \in Seq(ClosedTrade) /\ Limit \in LimitSet /\ Limit' = Limit
  BY LenProperties, LimitIsTyped DEF BacktestInv, BacktestTyped, Total, Limit
<1>3. /\ btTrades' \in Seq(ClosedTrade) /\ Total' = Total + 1
      /\ btTrades'[Total + 1] = Ended(u, p)
      /\ \A i \in 1..Total : btTrades'[i] = btTrades[i]
  BY <1>1, <1>2, AppendProperties, LenProperties DEF Total
<1>4. ASSUME NEW k \in 1..(Total + 1)
      PROVE  OpenedWithin(Limit, btTrades', k - 1, btTrades'[k].opened)
  <2>1. \A b : OpenedWithin(Limit, btTrades', k - 1, b) <=> OpenedWithin(Limit, btTrades, k - 1, b)
    <3>1. k - 1 \in 0..Len(btTrades)
      BY <1>2 DEF Total
    <3> QED  BY <1>1, <1>2, <3>1, PastStays
  <2>2. CASE k = Total + 1
    <3>1. btTrades'[k].opened = t.opened
      <4>1. Ended(u, p).opened = u.opened
        BY DEF Ended
      <4> QED  BY <1>3, <2>2, <4>1
    <3>2. OpenedWithin(Limit, btTrades, Total, t.opened)
      <4>1. btTrade # <<>> /\ btTrade[1] = t
        OBVIOUS
      <4> QED  BY <4>1 DEF BacktestInv, LimitsInv
    <3>3. k - 1 = Total
      BY <1>2, <2>2
    <3> QED  BY <2>1, <3>1, <3>2, <3>3
  <2>3. CASE k \in 1..Total
    BY <1>3, <2>1, <2>3 DEF BacktestInv, LimitsInv
  <2>4. k = Total + 1 \/ k \in 1..Total
    BY <1>2
  <2> QED  BY <2>2, <2>3, <2>4
<1>5. LimitsInv'
  BY <1>2, <1>3, <1>4 DEF LimitsInv
<1> QED  BY <1>1, <1>3, <1>5

LEMMA FiguresEnd ==
    ASSUME BacktestInv, btBar <= Bars, NEW t \in Trade, btTrade = <<t>>, NEW u \in Trade,
           u.opened = t.opened, NEW p \in Int, btBar' = btBar + 1,
           btTrades' = Append(btTrades, Ended(u, p)), btTrade' = <<>>,
           btEquity' = btEquity + Pnl(u, p), btHwm' = Higher(Peak, btEquity'),
           btDay' = [Today EXCEPT !.pnl = @ + Pnl(u, p)], UNCHANGED btSettings
    PROVE  FiguresInv'
<1> DEFINE d == Day(btBar)
<1>1. /\ Total \in Nat /\ Limit \in LimitSet /\ Peak \in Int
      /\ Today \in [day : Int, start : Int, pnl : Int] /\ Today.day = d
      /\ Today.start = DayBegan(Limit, btTrades, Total, d)
      /\ btEquity = Today.start + Today.pnl
      /\ \A i \in 0..Total : EquityAfter(Limit, btTrades, i) <= Peak
      /\ \A i \in 1..Total : Day(btTrades[i].closed) <= d
  BY BarAccounts DEF BacktestInv
<1>2. /\ Ended(u, p) \in ClosedTrade /\ btTrades' \in Seq(ClosedTrade)
      /\ Total' = Total + 1 /\ btTrades'[Total + 1] = Ended(u, p)
      /\ \A i \in 1..Total : btTrades'[i] = btTrades[i]
  BY ClosesWithin
<1>3. /\ \A j \in 0..Total : EquityAfter(Limit, btTrades', j) = EquityAfter(Limit, btTrades, j)
      /\ DayBegan(Limit, btTrades', Total, d) = DayBegan(Limit, btTrades, Total, d)
  <2>1. btTrades \in Seq(ClosedTrade)
    BY DEF BacktestInv, BacktestTyped
  <2>2. Total \in 0..Len(btTrades)
    BY <1>1 DEF Total
  <2> QED  BY <1>1, <1>2, <2>1, <2>2, PastStays
<1>4. d \in Int /\ d <= Day(btBar + 1)
  BY NextDay DEF BacktestInv, BacktestTyped
<1>5. Pnl(u, p) \in Int /\ btEquity \in Int
  BY PnlIsInt DEF BacktestInv, BacktestTyped
<1>6. EquityAfter(Limit, btTrades', Total + 1) = btEquity + Pnl(u, p)
  <2>1. Total + 1 # 0
    BY <1>1
  <2>2. EquityAfter(Limit, btTrades', Total + 1) = btTrades'[Total + 1].after
    BY <2>1 DEF EquityAfter
  <2>3. Ended(u, p).after = btEquity + Pnl(u, p)
    BY DEF Ended
  <2> QED  BY <1>2, <2>2, <2>3
<1>7. ASSUME NEW i \in 0..(Total + 1) PROVE EquityAfter(Limit, btTrades', i) <= btHwm'
  <2>1. btHwm' \in Int /\ btHwm' >= Peak /\ btHwm' >= btEquity + Pnl(u, p)
    BY <1>1, <1>5 DEF Higher
  <2>2. CASE i = Total + 1
    BY <1>5, <1>6, <2>1, <2>2
  <2>3. CASE i \in 0..Total
    <3>1. EquityAfter(Limit, btTrades, i) \in Int
      BY <1>1, <2>3, EquitiesAreInts DEF BacktestInv, BacktestTyped, Total
    <3> QED  BY <1>1, <1>3, <2>1, <2>3, <3>1
  <2>4. i = Total + 1 \/ i \in 0..Total
    BY <1>1
  <2> QED  BY <2>2, <2>3, <2>4
<1>8. ASSUME NEW i \in 1..(Total + 1) PROVE Day(btTrades'[i].closed) <= d
  <2>1. Ended(u, p).closed = btBar
    BY DEF Ended
  <2>2. CASE i = Total + 1
    <3>1. Day(btTrades'[i].closed) = d
      BY <1>2, <2>1, <2>2
    <3> QED  BY <1>4, <3>1
  <2>3. CASE i \in 1..Total
    BY <1>1, <1>2, <2>3
  <2>4. i = Total + 1 \/ i \in 1..Total
    BY <1>1
  <2> QED  BY <2>2, <2>3, <2>4
<1>9. DayBegan(Limit, btTrades', Total + 1, d) = Today.start
  <2>1. ClosedBefore(btTrades', Total + 1, d) = ClosedBefore(btTrades', Total, d)
    <3>1. ~(Day(btTrades'[Total + 1].closed) < d)
      <4>1. Day(btTrades'[Total + 1].closed) = d
        <5>1. Ended(u, p).closed = btBar
          BY DEF Ended
        <5> QED  BY <1>2, <5>1
      <4> QED  BY <1>4, <4>1
    <3>2. 1..(Total + 1) = (1..Total) \cup {Total + 1}
      BY <1>1
    <3> QED  BY <3>1, <3>2 DEF ClosedBefore
  <2> QED  BY <1>1, <1>3, <2>1 DEF DayBegan
<1>10. btDay'.day = d /\ btDay'.start = Today.start /\ btDay'.pnl = Today.pnl + Pnl(u, p)
  BY <1>1
<1>11. btEquity' = btDay'.start + btDay'.pnl
  <2>1. Today.start \in Int /\ Today.pnl \in Int
    BY <1>1
  <2> QED  BY <1>1, <1>5, <1>10, <2>1
<1>12. Limit' = Limit
  BY DEF Limit
<1> HIDE DEF d
<1>13. /\ btEquity' = EquityAfter(Limit, btTrades', Total + 1)
       /\ btDay'.day <= Day(btBar + 1)
       /\ \A i \in 1..(Total + 1) : Day(btTrades'[i].closed) <= btDay'.day
       /\ btDay'.start = DayBegan(Limit, btTrades', Total + 1, btDay'.day)
  BY <1>4, <1>6, <1>8, <1>9, <1>10
<1> QED  BY <1>2, <1>7, <1>11, <1>12, <1>13 DEF FiguresInv

LEMMA BacktestStarts ==
    ASSUME BacktestInit PROVE BacktestInv
<1>1. btSettings \in Settings /\ Limit \in LimitSet
  BY LimitIsTyped DEF BacktestInit, Settings
<1>2. Total = 0 /\ btTrades \in Seq(ClosedTrade)
  BY EmptySeq DEF BacktestInit, Total
<1>3. BacktestTyped
  <2>1. Limit.capital \in Int
    BY <1>1 DEF LimitSet
  <2>2. btDay \in [day : Int, start : Int, pnl : Int]
    BY <2>1 DEF BacktestInit
  <2> QED  BY <1>1, <1>2, <2>1, <2>2 DEF BacktestInit, BacktestTyped
<1>4. \A d : DayBegan(Limit, btTrades, 0, d) = Limit.capital
  <2> TAKE d
  <2>1. Cardinality(ClosedBefore(btTrades, 0, d)) \in 0..0
    BY ClosedAreFinite
  <2> QED  BY <2>1 DEF DayBegan, EquityAfter
<1>5. FiguresInv
  <2>1. 0 <= Day(1)
    <3>1. Day(0) <= Day(1) /\ Day(0) \in Int
      BY NextDay
    <3>2. Day(0) = 0
      BY BacktestAssumption DEF Day
    <3> QED  BY <3>1, <3>2
  <2>2. Limit.capital \in Int
    BY <1>1 DEF LimitSet
  <2> QED  BY <1>2, <1>4, <2>1, <2>2 DEF BacktestInit, FiguresInv, EquityAfter
<1>6. LimitsInv
  BY <1>2 DEF BacktestInit, LimitsInv
<1> QED  BY <1>3, <1>5, <1>6 DEF BacktestInv

LEMMA BarIsTyped ==
    ASSUME BacktestInv, NEW c \in Candles, BarBegins(c)
    PROVE  /\ btBar <= Bars /\ btBar' = btBar + 1 /\ btBar' \in Nat
           /\ btSettings' = btSettings /\ btSettings' \in Settings /\ btLast' \in Int
           /\ btBreached' \in BOOLEAN /\ btBlown' \in BOOLEAN
           /\ Peak \in Int /\ Today \in [day : Int, start : Int, pnl : Int]
<1>1. btBar <= Bars /\ btBar' = btBar + 1 /\ btSettings' = btSettings /\ btLast' = c.close
      /\ btBreached' = Breached /\ btBlown' = Blown
  BY DEF BarBegins
<1>2. c.close \in Int
  BY BacktestAssumption
<1>3. btBar \in Nat /\ btSettings \in Settings /\ btBreached \in BOOLEAN /\ btBlown \in BOOLEAN
  BY DEF BacktestInv, BacktestTyped
<1>4. Breached \in BOOLEAN /\ Blown \in BOOLEAN
  BY DEF Breached, Blown
<1>5. Peak \in Int /\ Today \in [day : Int, start : Int, pnl : Int]
  BY <1>1, BarAccounts DEF BacktestInv
<1> QED  BY <1>1, <1>2, <1>3, <1>4, <1>5

LEMMA BacktestEnds ==
    ASSUME BacktestInv, TradeEnds PROVE BacktestInv'
<1>1. PICK t \in Trade : btTrade = <<t>>
  BY DEF TradeEnds, BacktestInv, BacktestTyped
<1>2. PICK c \in Candles : \E u \in Walk(t, c) :
        /\ u.exit # <<>>
        /\ BarBegins(c)
        /\ btTrades' = Append(btTrades, Ended(u, u.exit[1]))
        /\ btEquity' = btEquity + Pnl(u, u.exit[1])
        /\ btHwm' = Higher(Peak, btEquity')
        /\ btDay' = [Today EXCEPT !.pnl = @ + Pnl(u, u.exit[1])]
  <2>1. btTrade[1] = t
    BY <1>1
  <2> QED  BY <2>1 DEF TradeEnds
<1>3. PICK u \in Walk(t, c) :
        /\ u.exit # <<>>
        /\ BarBegins(c)
        /\ btTrades' = Append(btTrades, Ended(u, u.exit[1]))
        /\ btEquity' = btEquity + Pnl(u, u.exit[1])
        /\ btHwm' = Higher(Peak, btEquity')
        /\ btDay' = [Today EXCEPT !.pnl = @ + Pnl(u, u.exit[1])]
        /\ btTrade' = <<>>
  BY <1>2 DEF TradeEnds
<1>4. u \in Trade /\ u.opened = t.opened
  BY WalkKeeps DEF SameTrade, BacktestInv, BacktestTyped
<1>5. PICK p \in Int : p = u.exit[1]
  BY <1>3, <1>4, HeadTailProperties DEF Trade
<1>6. /\ btBar <= Bars /\ btBar' = btBar + 1 /\ btBar' \in Nat
      /\ btSettings' = btSettings /\ btSettings' \in Settings /\ btLast' \in Int
      /\ btBreached' \in BOOLEAN /\ btBlown' \in BOOLEAN
      /\ Peak \in Int /\ Today \in [day : Int, start : Int, pnl : Int]
  BY <1>3, BarIsTyped
<1>7. /\ btTrades' = Append(btTrades, Ended(u, p)) /\ btEquity' = btEquity + Pnl(u, p)
      /\ btHwm' = Higher(Peak, btEquity') /\ btDay' = [Today EXCEPT !.pnl = @ + Pnl(u, p)]
  BY <1>3, <1>5
<1>8. btTrades' \in Seq(ClosedTrade) /\ LimitsInv'
  BY <1>1, <1>3, <1>4, <1>6, <1>7, ClosesWithin
<1>9. FiguresInv'
  BY <1>1, <1>3, <1>4, <1>6, <1>7, FiguresEnd
<1>10. BacktestTyped'
  <2>1. Pnl(u, p) \in Int /\ btEquity \in Int
    BY <1>4, PnlIsInt DEF BacktestInv, BacktestTyped
  <2>2. btEquity' \in Int /\ btHwm' \in Int
    BY <1>6, <1>7, <2>1 DEF Higher
  <2>3. btDay' \in [day : Int, start : Int, pnl : Int]
    BY <1>6, <1>7, <2>1
  <2> QED  BY <1>3, <1>6, <1>8, <2>2, <2>3 DEF BacktestTyped
<1> QED  BY <1>8, <1>9, <1>10 DEF BacktestInv

(* A bar at which no trade closes: the trade after it is known and keeps to the limits. *)
LEMMA BacktestGoesOn ==
    ASSUME BacktestInv, NEW c \in Candles, BarBegins(c), btHwm' = Peak, btDay' = Today,
           UNCHANGED <<btTrades, btEquity>>, btTrade' = <<>> \/ \E t \in Trade : btTrade' = <<t>>,
           btTrade' # <<>> => OpenedWithin(Limit, btTrades, Total, btTrade'[1].opened)
    PROVE  BacktestInv'
<1>1. /\ btBar <= Bars /\ btBar' = btBar + 1 /\ btBar' \in Nat
      /\ btSettings' = btSettings /\ btSettings' \in Settings /\ btLast' \in Int
      /\ btBreached' \in BOOLEAN /\ btBlown' \in BOOLEAN
      /\ Peak \in Int /\ Today \in [day : Int, start : Int, pnl : Int]
  BY BarIsTyped
<1>2. BacktestTyped'
  <2>1. btTrades' \in Seq(ClosedTrade) /\ btEquity' \in Int
    BY DEF BacktestInv, BacktestTyped
  <2> QED  BY <1>1, <2>1 DEF BacktestTyped
<1>3. FiguresInv'
  BY <1>1, FiguresGoOn
<1>4. LimitsInv'
  <2>1. Limit' = Limit /\ Total' = Total
    BY <1>1 DEF Limit, Total
  <2>2. \A k \in 1..Total : OpenedWithin(Limit, btTrades, k - 1, btTrades[k].opened)
    BY DEF BacktestInv, LimitsInv
  <2> QED  BY <2>1, <2>2 DEF LimitsInv
<1> QED  BY <1>2, <1>3, <1>4 DEF BacktestInv

LEMMA BacktestSteps ==
    ASSUME BacktestInv, [BacktestNext]_btVars PROVE BacktestInv'
<1>1. CASE TradeEnds
  BY <1>1, BacktestEnds
<1>2. CASE TradeGoesOn
  <2>1. PICK t \in Trade : btTrade = <<t>>
    BY <1>2 DEF TradeGoesOn, BacktestInv, BacktestTyped
  <2>2. PICK c \in Candles : \E u \in Walk(t, c) : BarBegins(c) /\ btTrade' = <<u>>
    <3>1. btTrade[1] = t
      BY <2>1
    <3> QED  BY <1>2, <3>1 DEF TradeGoesOn
  <2>3. PICK u \in Walk(t, c) : BarBegins(c) /\ btTrade' = <<u>>
    BY <2>2
  <2>4. u \in Trade /\ u.opened = t.opened
    BY WalkKeeps DEF SameTrade, BacktestInv, BacktestTyped
  <2>5. OpenedWithin(Limit, btTrades, Total, t.opened)
    <3>1. btTrade # <<>> /\ btTrade[1] = t
      BY <2>1
    <3> QED  BY <3>1 DEF BacktestInv, LimitsInv
  <2>6. btTrade'[1] = u
    BY <2>3
  <2>7. btHwm' = Peak /\ btDay' = Today /\ UNCHANGED <<btTrades, btEquity>>
    BY <1>2 DEF TradeGoesOn
  <2> QED  BY <2>3, <2>4, <2>5, <2>6, <2>7, BacktestGoesOn
<1>3. CASE TradeBegins
  <2>1. PICK c \in Candles, s \in Proposals : BarBegins(c) /\ btTrade' = <<Opened(s, c)>>
    BY <1>3 DEF TradeBegins
  <2>2. btTrade = <<>> /\ ~Halted /\ ~DayIsLost /\ btHwm' = Peak /\ btDay' = Today
        /\ UNCHANGED <<btTrades, btEquity>>
    BY <1>3 DEF TradeBegins
  <2>3. OpenedWithin(Limit, btTrades, Total, btBar)
    <3>1. btBar <= Bars
      BY <2>1 DEF BarBegins
    <3> QED  BY <2>2, <3>1, BeginsWithin DEF BacktestInv, LimitsInv
  <2>4. Opened(s, c) \in Trade /\ Opened(s, c).opened = btBar
    BY TradeOpened DEF BacktestInv
  <2>5. btTrade'[1] = Opened(s, c)
    BY <2>1
  <2> QED  BY <2>1, <2>2, <2>3, <2>4, <2>5, BacktestGoesOn
<1>4. CASE NothingBegins
  <2>1. PICK c \in Candles : BarBegins(c)
    BY <1>4 DEF NothingBegins
  <2>2. btTrade' = <<>> /\ btHwm' = Peak /\ btDay' = Today /\ UNCHANGED <<btTrades, btEquity>>
    BY <1>4 DEF NothingBegins
  <2> QED  BY <2>1, <2>2, BacktestGoesOn
<1>5. CASE DataEnd
  <2>1. PICK t \in Trade : btTrade = <<t>>
    BY <1>5 DEF DataEnd, BacktestInv, BacktestTyped
  <2>2. PICK p \in Int : p = Sign(t.direction) * btLast
    BY DEF Sign, BacktestInv, BacktestTyped
  <2>3. /\ btBar > Bars /\ btTrade' = <<>>
        /\ btTrades' = Append(btTrades, Ended(t, p)) /\ btEquity' = btEquity + Pnl(t, p)
        /\ UNCHANGED <<btBar, btSettings, btHwm, btBreached, btBlown, btDay, btLast>>
    <3>1. btTrade[1] = t
      BY <2>1
    <3> QED  BY <1>5, <2>2, <3>1 DEF DataEnd
  <2>4. btTrades' \in Seq(ClosedTrade) /\ LimitsInv'
    BY <2>1, <2>3, ClosesWithin
  <2>5. FiguresInv'
    <3>1. ~(btBar <= Bars)
      BY <2>3, BacktestAssumption DEF BacktestInv, BacktestTyped
    <3> QED  BY <2>3, <3>1 DEF FiguresInv, Running
  <2>6. BacktestTyped'
    <3>1. btEquity' \in Int
      BY <2>3, PnlIsInt DEF BacktestInv, BacktestTyped
    <3> QED  BY <2>3, <2>4, <3>1 DEF BacktestInv, BacktestTyped
  <2> QED  BY <2>4, <2>5, <2>6 DEF BacktestInv
<1>6. CASE UNCHANGED btVars
  <2>1. Limit' = Limit /\ Total' = Total
    BY <1>6 DEF btVars, Limit, Total
  <2> QED  BY <1>6, <2>1 DEF BacktestInv, BacktestTyped, FiguresInv, LimitsInv, Running, btVars
<1> QED  BY <1>1, <1>2, <1>3, <1>4, <1>5, <1>6 DEF BacktestNext

(* The invariant says of each trade what LimitsHold asks. *)
LEMMA LimitsTold ==
    ASSUME BacktestTyped, LimitsInv PROVE LimitsHold
<1> DEFINE closed == [k \in DOMAIN btTrades |-> btTrades[k].opened]
           open == IF btTrade = <<>> THEN <<>> ELSE <<btTrade[1].opened>>
<1>1. Total \in Nat /\ DOMAIN btTrades = 1..Total /\ btTrades \in Seq(ClosedTrade)
  BY LenProperties DEF BacktestTyped, Total
<1>2. \A k \in 1..Total : btTrades[k].opened \in Int
  <2> TAKE k \in 1..Total
  <2>1. btTrades[k] \in ClosedTrade
    BY <1>1, ElementOfSeq DEF Total
  <2> QED  BY <2>1 DEF ClosedTrade
<1>3. closed \in Seq(Int) /\ Len(closed) = Total /\ \A k \in 1..Total : closed[k] = btTrades[k].opened
  <2>1. closed \in [1..Total -> Int]
    BY <1>1, <1>2
  <2> QED  BY <1>1, <2>1, IsASeq, LenProperties
<1>4. open \in Seq(Int) /\ Len(open) = IF btTrade = <<>> THEN 0 ELSE 1
  <2>1. btTrade # <<>> => btTrade[1].opened \in Int
    <3>1. \A t \in Trade : t.opened \in Int
      BY DEF Trade
    <3> QED  BY <3>1 DEF BacktestTyped
  <2> QED  BY <2>1
<1> HIDE DEF closed
<1>5. /\ DOMAIN Openings = 1..(Total + Len(open))
      /\ \A k \in 1..Total : Openings[k] = btTrades[k].opened
      /\ btTrade # <<>> => Openings[Total + 1] = btTrade[1].opened
  <2>1. Openings = closed \o open
    BY DEF Openings, closed
  <2>2. /\ closed \o open \in Seq(Int) /\ Len(closed \o open) = Total + Len(open)
        /\ \A i \in 1..(Total + Len(open)) :
             (closed \o open)[i] = IF i <= Total THEN closed[i] ELSE open[i - Total]
    BY <1>3, <1>4, ConcatProperties
  <2>3. DOMAIN Openings = 1..(Total + Len(open))
    BY <2>1, <2>2, LenProperties
  <2>4. \A k \in 1..Total : Openings[k] = btTrades[k].opened
    BY <1>1, <1>3, <1>4, <2>1, <2>2
  <2>5. ASSUME btTrade # <<>> PROVE Openings[Total + 1] = btTrade[1].opened
    <3>1. PICK m \in 1..(Total + Len(open)) : m = Total + 1
      BY <1>1, <1>4, <2>5
    <3>2. ~(m <= Total) /\ m - Total = 1
      BY <1>1, <3>1
    <3>3. (closed \o open)[m] = open[1]
      BY <2>2, <3>2
    <3> QED  BY <2>1, <2>5, <3>1, <3>3
  <2> QED  BY <2>3, <2>4, <2>5
<1>6. ASSUME NEW k \in DOMAIN Openings PROVE OpenedWithin(Limit, btTrades, k - 1, Openings[k])
  <2>1. CASE k \in 1..Total
    BY <1>5, <2>1 DEF LimitsInv
  <2>2. CASE k \notin 1..Total
    <3>1. k = Total + 1 /\ btTrade # <<>> /\ k - 1 = Total
      BY <1>1, <1>4, <1>5, <2>2
    <3> QED  BY <1>5, <3>1 DEF LimitsInv
  <2> QED  BY <2>1, <2>2
<1>7. ASSUME NEW k \in DOMAIN Openings
      PROVE  DayStart(k) = DayBegan(Limit, btTrades, k - 1, Day(Openings[k]))
  BY DEF DayStart, DayBegan, ClosedBefore, Equity, EquityAfter
<1>8. \A j : Equity(j) = EquityAfter(Limit, btTrades, j)
  BY DEF Equity, EquityAfter
<1> QED  BY <1>6, <1>7, <1>8 DEF LimitsHold, OpenedWithin

(* No trade is opened beyond the limits of the risk settings (run): neither once the    *)
(* equity had fallen to the floor or by the drawdown limit from one of its highs, nor   *)
(* after the losses of its day had reached the daily limit, for any candles, signals,   *)
(* rules, settings and charges.                                                         *)
THEOREM LimitsAreKept == BacktestSpec => []LimitsHold
<1>1. BacktestInit => BacktestInv
  BY BacktestStarts
<1>2. BacktestInv /\ [BacktestNext]_btVars => BacktestInv'
  BY BacktestSteps
<1>3. BacktestInv => LimitsHold
  BY LimitsTold DEF BacktestInv
<1> QED  BY <1>1, <1>2, <1>3, PTL DEF BacktestSpec

(***************************************************************************)
(* The stop.  Break-even moves it to the entry whatever it was, so that it *)
(* could move it back.  It does not where only the trailing stop went      *)
(* before: until break-even comes, that one has not seen a price at which  *)
(* it would come, and when it comes, the trailing stop is moved, too.      *)
(***************************************************************************)
Firm(t) ==
  /\ t.trailing => ExitRules.activation > 0
  /\ ExitRules.breakEven > 0 /\ ~t.evened =>
       \/ t.stop = t.initial
       \/ t.trailing /\ t.stop < t.entry + ExitRules.breakEven - ExitRules.distance

Tighter(t, u) == Firm(u) /\ (t.initial < t.entry => t.stop <= u.stop)

RulesAreApart == ExitRules.structural => ExitRules.breakEven = 0

LEMMA BreakEvenMoves ==
    ASSUME NEW t \in Trade, NEW c \in Candles
    PROVE  LET a == BreakEvenStop(t, c)
               due == ExitRules.breakEven > 0 /\ ~t.evened
                        /\ BestPrice(t, c) - t.entry >= ExitRules.breakEven
           IN  /\ due => a.stop = t.entry + ExitRules.buffer /\ a.evened
               /\ ~due => a = t
               /\ a.trailing = t.trailing
  BY DEF Trade, BreakEvenStop

LEMMA TrailingMoves ==
    ASSUME NEW t \in Trade, NEW c \in Candles
    PROVE  LET b == TrailingStop(t, c)
               active == t.trailing \/ BestPrice(t, c) - t.entry >= ExitRules.activation
           IN  /\ b.evened = t.evened
               /\ ExitRules.activation = 0 => b = t
               /\ ExitRules.activation # 0 /\ active =>
                    b.trailing /\ b.stop = Higher(t.stop, BestPrice(t, c) - ExitRules.distance)
               /\ ExitRules.activation # 0 /\ ~active => b.stop = t.stop /\ ~b.trailing
  BY DEF Trade, TrailingStop, Tightened

LEMMA OthersMove ==
    ASSUME NEW t \in Trade, NEW c \in Candles, NEW swing
    PROVE  /\ PartialClose(t, c).stop = t.stop /\ PartialClose(t, c).evened = t.evened
           /\ PartialClose(t, c).trailing = t.trailing
           /\ Seen(t, c).stop = t.stop /\ Seen(t, c).evened = t.evened
           /\ Seen(t, c).trailing = t.trailing
           /\ ~ExitRules.structural => StructuralStop(t, swing) = t
           /\ ExitRules.structural /\ swing # <<>> =>
                StructuralStop(t, swing).stop = Higher(t.stop, swing[1] - ExitRules.buffer)
           /\ ExitRules.structural /\ swing = <<>> => StructuralStop(t, swing) = t
           /\ StructuralStop(t, swing).trailing = t.trailing
           /\ StructuralStop(t, swing).evened = t.evened
  BY DEF Trade, PartialClose, Seen, StructuralStop, Tightened

LEMMA CheckExitTightens ==
    ASSUME btSettings \in Settings, RulesAreApart, NEW t \in Trade, t.exit = <<>>, Firm(t),
           NEW c \in Candles, NEW age, NEW swing \in Seq(Int)
    PROVE  Tighter(t, CheckExit(t, c, age, swing))
<1> DEFINE a == BreakEvenStop(t, c)
           b == TrailingStop(a, c)
           d == PartialClose(b, c)
           e == StructuralStop(d, swing)
           f == Seen(e, c)
           due == ExitRules.breakEven > 0 /\ ~t.evened
                    /\ BestPrice(t, c) - t.entry >= ExitRules.breakEven
           active == a.trailing \/ BestPrice(a, c) - a.entry >= ExitRules.activation
<1>1. /\ ExitRules.breakEven \in Nat /\ ExitRules.buffer \in Nat /\ ExitRules.activation \in Nat
      /\ ExitRules.distance \in Nat /\ ExitRules.structural \in BOOLEAN
  BY RulesAreNumbers
<1>2. SameTrade(t, a) /\ SameTrade(a, b) /\ SameTrade(b, d) /\ SameTrade(d, e)
  <2>1. SameTrade(t, a)
    BY BreakEvenKeeps
  <2>2. SameTrade(a, b)
    BY <2>1, TrailingKeeps DEF SameTrade
  <2>3. SameTrade(b, d)
    BY <2>2, PartialKeeps DEF SameTrade
  <2>4. SameTrade(d, e)
    BY <2>3, StructuralKeeps DEF SameTrade
  <2> QED  BY <2>1, <2>2, <2>3, <2>4
<1>3. /\ due => a.stop = t.entry + ExitRules.buffer /\ a.evened
      /\ ~due => a = t
      /\ a.trailing = t.trailing
  BY BreakEvenMoves
<1>4. /\ b.evened = a.evened
      /\ ExitRules.activation = 0 => b = a
      /\ ExitRules.activation # 0 /\ active =>
           b.trailing /\ b.stop = Higher(a.stop, BestPrice(a, c) - ExitRules.distance)
      /\ ExitRules.activation # 0 /\ ~active => b.stop = a.stop /\ ~b.trailing
  BY <1>2, TrailingMoves DEF SameTrade
<1>5. /\ d.stop = b.stop /\ d.evened = b.evened /\ d.trailing = b.trailing
      /\ e.trailing = d.trailing /\ e.evened = d.evened
      /\ f.stop = e.stop /\ f.evened = e.evened /\ f.trailing = e.trailing
      /\ ~ExitRules.structural => e = d
      /\ ExitRules.structural /\ swing # <<>> => e.stop = Higher(d.stop, swing[1] - ExitRules.buffer)
      /\ ExitRules.structural /\ swing = <<>> => e = d
  BY <1>2, OthersMove DEF SameTrade
<1>6. f.entry = t.entry /\ f.initial = t.initial /\ a.entry = t.entry
      /\ BestPrice(a, c) = BestPrice(t, c)
  <2>1. SameTrade(e, f)
    BY <1>2, SeenKeeps DEF SameTrade
  <2> QED  BY <1>2, <2>1 DEF SameTrade, BestPrice
<1>7. /\ t.stop \in Int /\ t.entry \in Int /\ t.initial \in Int /\ t.evened \in BOOLEAN
      /\ t.trailing \in BOOLEAN /\ BestPrice(t, c) \in Int
      /\ a.stop \in Int /\ b.stop \in Int /\ a.evened \in BOOLEAN /\ b.trailing \in BOOLEAN
      /\ f.trailing \in BOOLEAN /\ f.evened \in BOOLEAN
      /\ swing # <<>> => swing[1] \in Int
  <2>1. \A u \in Trade : u.stop \in Int /\ u.entry \in Int /\ u.initial \in Int
                           /\ u.evened \in BOOLEAN /\ u.trailing \in BOOLEAN
    BY DEF Trade
  <2>2. a \in Trade /\ b \in Trade /\ f \in Trade
    BY <1>2, SeenKeeps DEF SameTrade
  <2>3. swing # <<>> => swing[1] \in Int
    BY HeadTailProperties
  <2> QED  BY <2>1, <2>2, <2>3, PricesAreInts
<1> HIDE DEF a, b, d, e, f
<1>8. f.stop >= b.stop /\ (~ExitRules.structural => f.stop = b.stop)
  BY <1>1, <1>5, <1>7 DEF Higher
<1>9. Firm(f) /\ (t.initial < t.entry => t.stop <= f.stop)
  <2>1. f.trailing => ExitRules.activation > 0
    <3>1. CASE ExitRules.activation = 0
      <4>1. b = a /\ f.trailing = b.trailing
        BY <1>4, <1>5, <3>1
      <4>2. f.trailing = t.trailing
        BY <1>3, <4>1
      <4> QED  BY <4>2 DEF Firm
    <3>2. CASE ExitRules.activation # 0
      BY <1>1, <3>2
    <3> QED  BY <3>1, <3>2
  <2>2. CASE ExitRules.breakEven = 0
    <3>1. a = t
      BY <1>3, <2>2
    <3>2. b.stop >= t.stop
      BY <1>1, <1>4, <1>7, <3>1 DEF Higher
    <3>3. f.stop \in Int
      BY <1>1, <1>5, <1>7 DEF Higher
    <3> QED  BY <1>7, <1>8, <2>1, <2>2, <3>2, <3>3 DEF Firm
  <2>3. CASE ExitRules.breakEven > 0 /\ due
    <3>1. f.stop = b.stop /\ f.evened
      BY <1>1, <1>3, <1>4, <1>5, <1>8, <2>3 DEF RulesAreApart
    <3>2. ASSUME t.initial < t.entry PROVE t.stop <= b.stop
      <4>1. CASE t.stop = t.initial
        BY <1>1, <1>3, <1>4, <1>7, <2>3, <3>2, <4>1 DEF Higher
      <4>2. CASE t.trailing /\ t.stop < t.entry + ExitRules.breakEven - ExitRules.distance
        <5>1. b.stop = Higher(a.stop, BestPrice(t, c) - ExitRules.distance)
          BY <1>1, <1>3, <1>4, <1>6, <4>2 DEF Firm
        <5>2. a.stop \in Int /\ BestPrice(t, c) - ExitRules.distance \in Int
          BY <1>1, <1>7
        <5>3. b.stop >= BestPrice(t, c) - ExitRules.distance
          BY <1>7, <5>1, <5>2 DEF Higher
        <5>4. BestPrice(t, c) - t.entry >= ExitRules.breakEven
          BY <2>3
        <5> HIDE DEF due, active
        <5> QED  BY <1>1, <1>7, <4>2, <5>3, <5>4
      <4> QED  BY <2>3, <4>1, <4>2 DEF Firm
    <3> QED  BY <2>1, <3>1, <3>2 DEF Firm
  <2>4. CASE ExitRules.breakEven > 0 /\ ~due
    <3>1. a = t /\ f.stop = b.stop /\ f.evened = t.evened /\ f.trailing = b.trailing
      BY <1>1, <1>3, <1>4, <1>5, <1>8, <2>4 DEF RulesAreApart
    <3>2. t.stop <= b.stop
      BY <1>1, <1>4, <1>7, <3>1 DEF Higher
    <3>3. ASSUME ~t.evened
          PROVE  \/ b.stop = t.initial
                 \/ b.trailing /\ b.stop < t.entry + ExitRules.breakEven - ExitRules.distance
      <4>1. BestPrice(t, c) - t.entry < ExitRules.breakEven
        BY <1>1, <1>7, <2>4, <3>3
      <4>2. CASE b.stop = t.stop /\ (t.trailing => b.trailing)
        BY <2>4, <3>3, <4>2 DEF Firm
      <4>3. CASE b.trailing /\ b.stop = BestPrice(t, c) - ExitRules.distance
        BY <1>1, <1>7, <4>1, <4>3
      <4>4. \/ b.stop = t.stop /\ (t.trailing => b.trailing)
            \/ b.trailing /\ b.stop = BestPrice(t, c) - ExitRules.distance
        BY <1>1, <1>4, <3>1 DEF Higher
      <4> QED  BY <4>2, <4>3, <4>4
    <3> QED  BY <1>6, <2>1, <3>1, <3>2, <3>3 DEF Firm
  <2> QED  BY <1>1, <2>2, <2>3, <2>4
<1>10. \A p : Tighter(t, Exit(t, p))
  <2> TAKE p
  <2>1. LET u == Exit(t, p)
        IN  /\ u.stop = t.stop /\ u.entry = t.entry /\ u.initial = t.initial
            /\ u.trailing = t.trailing /\ u.evened = t.evened
    BY DEF Exit, Trade
  <2> QED  BY <1>7, <2>1 DEF Tighter, Firm
<1>11. CheckExit(t, c, age, swing) \in
         {Exit(t, p) : p \in {t.stop, t.target, Sign(t.direction) * c.close}} \cup {f}
  BY DEF CheckExit, a, b, d, e, f
<1> QED  BY <1>9, <1>10, <1>11 DEF Tighter

LEMMA TighterFollows ==
    ASSUME NEW t \in Trade, NEW u, SameTrade(t, u), Tighter(t, u),
           NEW v, SameTrade(u, v), Tighter(u, v)
    PROVE  Tighter(t, v)
<1>1. t.stop \in Int /\ u.stop \in Int /\ v.stop \in Int
  BY DEF SameTrade, Trade
<1> QED  BY <1>1 DEF Tighter, SameTrade

LEMMA AfterTightens ==
    ASSUME btSettings \in Settings, RulesAreApart, NEW t \in Trade, Firm(t), NEW c \in Candles,
           NEW age, NEW u \in After(t, c, age)
    PROVE  Tighter(t, u)
<1>1. CASE t.exit # <<>>
  <2>1. u = t /\ t.stop \in Int
    BY <1>1 DEF After, Trade
  <2> QED  BY <2>1 DEF Tighter
<1>2. CASE t.exit = <<>>
  <2>1. PICK s \in Seq(Int) : u = CheckExit(t, c, age, s)
    BY <1>2, SwingsArePrices DEF After
  <2> QED  BY <1>2, <2>1, CheckExitTightens
<1> QED  BY <1>1, <1>2

LEMMA WalkTightens ==
    ASSUME btSettings \in Settings, RulesAreApart, NEW t \in Trade, Firm(t), NEW c \in Candles,
           NEW u \in Walk(t, c)
    PROVE  Tighter(t, u)
<1> DEFINE age == btBar - t.opened
<1> HIDE DEF age
<1>1. u \in {t} \cup After(t, c, age)
           \cup UNION {After(v, c, age) : v \in UNION {After(t, b, age - 1) : b \in Candles}}
  BY DEF Walk, age
<1>2. Tighter(t, t)
  BY DEF Tighter, Trade
<1>3. CASE u \in After(t, c, age)
  BY <1>3, AfterTightens
<1>4. ASSUME NEW b \in Candles, NEW v \in After(t, b, age - 1), u \in After(v, c, age)
      PROVE  Tighter(t, u)
  <2>1. SameTrade(t, v) /\ Tighter(t, v)
    BY AfterKeeps, AfterTightens
  <2>2. v \in Trade /\ Firm(v)
    BY <2>1 DEF SameTrade, Tighter
  <2>3. SameTrade(v, u) /\ Tighter(v, u)
    BY <1>4, <2>2, AfterKeeps, AfterTightens
  <2> QED  BY <2>1, <2>3, TighterFollows
<1> QED  BY <1>1, <1>2, <1>3, <1>4

StopInv == btTrade # <<>> => Firm(btTrade[1])

TightStep ==
  btTrade # <<>> /\ btTrade' # <<>> /\ btTrade[1].initial < btTrade[1].entry
    => btTrade'[1].stop >= btTrade[1].stop

LEMMA StopStep ==
    ASSUME \A r \in Rules : r.structural => r.breakEven = 0, BacktestInv, StopInv,
           [BacktestNext]_btVars
    PROVE  StopInv' /\ TightStep
<1>1. btSettings \in Settings /\ RulesAreApart
  <2>1. btSettings \in Settings
    BY DEF BacktestInv, BacktestTyped
  <2>2. ExitRules \in Rules
    BY <2>1 DEF Settings, ExitRules
  <2> QED  BY <2>1, <2>2 DEF RulesAreApart
<1>2. UNCHANGED btSettings
  BY DEF BacktestNext, TradeEnds, TradeGoesOn, TradeBegins, NothingBegins, DataEnd, BarBegins, btVars
<1>3. ASSUME NEW t PROVE Firm(t) => Firm(t)'
  BY <1>2 DEF Firm, ExitRules
<1>4. CASE TradeGoesOn
  <2>1. PICK t \in Trade : btTrade = <<t>>
    BY <1>4 DEF TradeGoesOn, BacktestInv, BacktestTyped
  <2>2. PICK c \in Candles : \E u \in Walk(t, c) : btTrade' = <<u>>
    <3>1. btTrade[1] = t
      BY <2>1
    <3> QED  BY <1>4, <3>1 DEF TradeGoesOn
  <2>3. PICK u \in Walk(t, c) : btTrade' = <<u>>
    BY <2>2
  <2>4. Firm(t)
    <3>1. btTrade # <<>> /\ btTrade[1] = t
      BY <2>1
    <3> QED  BY <3>1 DEF StopInv
  <2>5. Tighter(t, u) /\ u \in Trade
    BY <1>1, <2>4, WalkTightens, WalkKeeps DEF SameTrade
  <2>6. btTrade[1] = t /\ btTrade'[1] = u
    BY <2>1, <2>3
  <2>7. t.stop \in Int /\ u.stop \in Int
    BY <2>5 DEF Trade
  <2>8. Firm(u)'
    BY <1>3, <2>5 DEF Tighter
  <2>9. StopInv'
    BY <2>6, <2>8 DEF StopInv, Firm
  <2>10. TightStep
    BY <2>5, <2>6, <2>7 DEF TightStep, Tighter
  <2> QED  BY <2>9, <2>10
<1>5. CASE TradeBegins
  <2>1. PICK c \in Candles, s \in Proposals : btTrade' = <<Opened(s, c)>>
    BY <1>5 DEF TradeBegins
  <2>2. LET u == Opened(s, c) IN ~u.trailing /\ u.stop = u.initial
    BY DEF Opened
  <2>3. btTrade'[1] = Opened(s, c) /\ btTrade = <<>>
    BY <1>5, <2>1 DEF TradeBegins
  <2>4. StopInv'
    BY <2>2, <2>3 DEF StopInv, Firm
  <2> QED  BY <2>3, <2>4 DEF TightStep
<1>6. CASE TradeEnds \/ DataEnd
  BY <1>6 DEF TradeEnds, DataEnd, StopInv, TightStep
<1>7. CASE NothingBegins \/ UNCHANGED btVars
  <2>1. UNCHANGED btTrade
    BY <1>7 DEF NothingBegins, btVars
  <2>2. btTrade # <<>> => btTrade[1].stop \in Int
    BY DEF BacktestInv, BacktestTyped, Trade
  <2>3. StopInv'
    BY <1>2, <2>1 DEF StopInv, Firm, ExitRules
  <2> QED  BY <2>1, <2>2, <2>3 DEF TightStep
<1> QED  BY <1>4, <1>5, <1>6, <1>7 DEF BacktestNext

(* From bar to bar the stop of an open trade only moves towards profit (_check_exit),   *)
(* for all exit rules but those that put break-even and structural trailing together:   *)
(* with both, break-even may bring the stop back from where a swing had put it.         *)
THEOREM StopsTighten ==
    ASSUME \A r \in Rules : r.structural => r.breakEven = 0
    PROVE  BacktestSpec => StopOnlyTightens
<1>1. BacktestInit => BacktestInv /\ StopInv
  BY BacktestStarts DEF BacktestInit, StopInv
<1>2. BacktestInv /\ StopInv /\ [BacktestNext]_btVars => BacktestInv' /\ StopInv'
  BY BacktestSteps, StopStep
<1>3. BacktestInv /\ StopInv /\ [BacktestNext]_btVars
        => [(btTrade # <<>> /\ btTrade' # <<>> /\ btTrade[1].initial < btTrade[1].entry)
              => btTrade'[1].stop >= btTrade[1].stop]_btVars
  BY StopStep DEF TightStep
<1> QED  BY <1>1, <1>2, <1>3, PTL DEF BacktestSpec, StopOnlyTightens

=============================================================================
