------------------------ MODULE ReconciliationConfig ------------------------
(***************************************************************************)
(* ReconciliationConfigService: the configuration rows in PostgreSQL, one  *)
(* global and one per account, and the effective configurations cached in  *)
(* Redis without expiry.  A read fills the cache on a miss, an update      *)
(* saves a row and then deletes what it made stale.  Every await is a step *)
(* of its own, so that reads and updates interleave.                       *)
(***************************************************************************)
EXTENDS Naturals, FiniteSets

CONSTANTS Accounts,     \* trading accounts
          Corrections,  \* discrepancy types that can be corrected automatically
          Configs,      \* configurations an update may ask for: types corrected
          MaxUpdates,   \* bound: configuration updates
          MaxFaults     \* bound: Redis, database and broker failures

ASSUME ConfigsAreTypes == Configs \subseteq SUBSET Corrections
ASSUME AccountsAreKeys == "global" \notin Accounts

VARIABLES
    cfgRow,   \* rows of reconciliation_configs, by account; "global" is accountId NULL
    cache,    \* the Redis keys reconciliation:config:*
    reader,   \* getEffectiveConfig of each account
    updater,  \* the one update in progress
    updates,  \* updates so far
    faults,   \* failures so far
    overlap   \* history: accounts with a read that an update overlapped

configVars == <<cfgRow, cache, reader, updater, updates, overlap>>

Scopes == Accounts \cup {"global"}
\* No row or no key: no configuration has this type.
None == {"none"}

\* DEFAULT_CONFIG corrects nothing.
DefaultConfig == {}

NoRead == [pc |-> "idle", global |-> {}, value |-> {}]
NoUpdate == [pc |-> "idle", route |-> "global", row |-> "global", to |-> {}]

ConfigInit ==
    /\ cfgRow = [s \in Scopes |-> None]
    /\ cache = [s \in Scopes |-> None]
    /\ reader = [a \in Accounts |-> NoRead]
    /\ updater = NoUpdate
    /\ updates = 0 /\ faults = 0 /\ overlap = {}

Fault == /\ faults < MaxFaults
         /\ faults' = faults + 1

\* Rows that findOne may return for the global configuration.  A where clause of
\* NULL is no condition to TypeORM: with rows in the table it returns one of them.
GlobalRows == LET rows == {s \in Scopes : cfgRow[s] # None}
              IN  IF rows = {} THEN {"global"} ELSE rows

OrDefault(row) == IF row = None THEN DefaultConfig ELSE row

-----------------------------------------------------------------------------
\* getEffectiveConfig and loadGlobalConfig.

ReadUnchanged == UNCHANGED <<cfgRow, updater, updates>>

Goto(a, r) == /\ reader' = [reader EXCEPT ![a] = r]
              /\ overlap' = IF updater.pc = "idle" THEN overlap ELSE overlap \cup {a}

\* A cached configuration is the answer; a failed read of the cache is a miss.
GetCached(a) ==
    /\ reader[a].pc = "get"
    /\ \/ /\ cache[a] # None
          /\ Goto(a, [reader[a] EXCEPT !.pc = "done", !.value = cache[a]])
          /\ UNCHANGED faults
       \/ /\ cache[a] = None
          /\ Goto(a, [reader[a] EXCEPT !.pc = "globalGet"])
          /\ UNCHANGED faults
       \/ /\ Fault
          /\ Goto(a, [reader[a] EXCEPT !.pc = "globalGet"])
    /\ UNCHANGED cache /\ ReadUnchanged

GetGlobalCached(a) ==
    /\ reader[a].pc = "globalGet"
    /\ IF cache["global"] # None
       THEN Goto(a, [reader[a] EXCEPT !.pc = "row", !.global = cache["global"]])
       ELSE Goto(a, [reader[a] EXCEPT !.pc = "globalRow"])
    /\ UNCHANGED <<cache, faults>> /\ ReadUnchanged

\* A database error leaves the default configuration, which is then cached.
GetGlobalRow(a) ==
    /\ reader[a].pc = "globalRow"
    /\ \/ /\ \E s \in GlobalRows :
               Goto(a, [reader[a] EXCEPT !.pc = "globalSet", !.global = OrDefault(cfgRow[s])])
          /\ UNCHANGED faults
       \/ /\ Fault
          /\ Goto(a, [reader[a] EXCEPT !.pc = "globalSet", !.global = DefaultConfig])
    /\ UNCHANGED cache /\ ReadUnchanged

CacheGlobal(a) ==
    /\ reader[a].pc = "globalSet"
    /\ Goto(a, [reader[a] EXCEPT !.pc = "row"])
    /\ cache' = [cache EXCEPT !["global"] = reader[a].global]
    /\ UNCHANGED faults /\ ReadUnchanged

\* mergeConfigs: the row of the account replaces the global configuration whole.
Merge(global, row) == IF row = None THEN global ELSE row

GetRow(a) ==
    /\ reader[a].pc = "row"
    /\ Goto(a, [reader[a] EXCEPT !.pc = "set", !.value = Merge(reader[a].global, cfgRow[a])])
    /\ UNCHANGED <<cache, faults>> /\ ReadUnchanged

CacheEffective(a) ==
    /\ reader[a].pc = "set"
    /\ Goto(a, [reader[a] EXCEPT !.pc = "done"])
    /\ cache' = [cache EXCEPT ![a] = reader[a].value]
    /\ UNCHANGED faults /\ ReadUnchanged

-----------------------------------------------------------------------------
\* updateGlobalConfig and updateAccountConfig.  The row is found and saved in
\* two awaits; TypeORM saves the columns of the entity it found.

Reading == {a \in Accounts : reader[a].pc \notin {"idle", "done"}}

FindRow(route, to) ==
    /\ updater.pc = "idle" /\ updates < MaxUpdates
    /\ updates' = updates + 1
    /\ \E s \in IF route = "global" THEN GlobalRows ELSE {route} :
         updater' = [pc |-> "save", route |-> route, row |-> s, to |-> to]
    /\ overlap' = overlap \cup Reading
    /\ UNCHANGED <<cfgRow, cache, reader, faults>>

SaveRow ==
    /\ updater.pc = "save"
    /\ cfgRow' = [cfgRow EXCEPT ![updater.row] = updater.to]
    /\ updater' = [updater EXCEPT !.pc = "delete"]
    /\ UNCHANGED <<cache, reader, updates, faults, overlap>>

\* Fault: an update deletes the global key alone.
StaleGlobalKey == "global"

\* The key of the route; an update of the global configuration goes on to scan.
StaleKey == updater.route

DeleteKey ==
    /\ updater.pc = "delete"
    /\ cache' = [cache EXCEPT ![StaleKey] = None]
    /\ updater' = IF updater.route = "global" THEN [updater EXCEPT !.pc = "scan"] ELSE NoUpdate
    /\ overlap' = IF updater.route \in Reading THEN overlap ELSE overlap \ {updater.route}
    /\ UNCHANGED <<cfgRow, reader, updates, faults>>

ScanDelete ==
    /\ updater.pc = "scan"
    /\ cache' = [s \in Scopes |-> IF s = "global" THEN cache[s] ELSE None]
    /\ updater' = NoUpdate
    /\ overlap' = overlap \cap Reading
    /\ UNCHANGED <<cfgRow, reader, updates, faults>>

\* A failed deletion is logged and the update answers as if it had been done.
DeleteFails ==
    /\ updater.pc \in {"delete", "scan"}
    /\ Fault
    /\ updater' = NoUpdate
    /\ overlap' = Accounts
    /\ UNCHANGED <<cfgRow, cache, reader, updates>>

ReadStep(a) == GetCached(a) \/ GetGlobalCached(a) \/ GetGlobalRow(a) \/ CacheGlobal(a)
               \/ GetRow(a) \/ CacheEffective(a)
UpdateStep == SaveRow \/ DeleteKey \/ ScanDelete \/ DeleteFails

-----------------------------------------------------------------------------
\* When no update was under way during a read and no deletion failed, the cache
\* serves an account that has a row of its own nothing but that row.
OwnRowIsServed ==
    \A a \in Accounts :
        (updater.pc = "idle" /\ a \notin overlap /\ cfgRow[a] # None)
            => cache[a] \in {None, cfgRow[a]}

===============================================================================
