------------------------ MODULE ReconciliationProofs ------------------------
(***************************************************************************)
(* Proofs about Reconciliation and ReconciliationConfig, for any number of *)
(* accounts, positions, rows, updates and failures.                        *)
(***************************************************************************)
EXTENDS Reconciliation, TLAPS

-----------------------------------------------------------------------------
(* The configurations.  While an update is under way, an account without an overlap has  *)
(* no read that has begun; its key is as good as its row, but for the one row that the    *)
(* update has saved.                                                                     *)

Values == (SUBSET Corrections) \cup {None}

ReadTypes == [pc : {"idle", "get", "globalGet", "globalRow", "globalSet", "row", "set", "done"},
              global : Values, value : Values]

UpdateTypes == [pc : {"idle", "save", "delete", "scan"}, route : Scopes, row : Scopes, to : Values]

ConfigTypes ==
    /\ cfgRow \in [Scopes -> Values] /\ cache \in [Scopes -> Values]
    /\ reader \in [Accounts -> ReadTypes]
    /\ updater \in UpdateTypes
    /\ updater.route # "global" => updater.row = updater.route
    /\ updater.pc = "scan" => updater.route = "global"

Idle(a) == reader[a].pc \in {"idle", "get", "done"}

Saved(a) == updater.pc \in {"delete", "scan"} /\ (updater.row = a \/ updater.route = "global")

ReadsApart ==
    \A a \in Accounts : (updater.pc # "idle" /\ a \notin overlap) => Idle(a)

ReadIsFresh ==
    \A a \in Accounts :
        (a \notin overlap /\ reader[a].pc = "set" /\ cfgRow[a] # None) => reader[a].value = cfgRow[a]

CacheIsFresh ==
    \A a \in Accounts :
        (a \notin overlap /\ cfgRow[a] # None /\ ~Saved(a)) => cache[a] \in {None, cfgRow[a]}

ConfigInv == ConfigTypes /\ ReadsApart /\ ReadIsFresh /\ CacheIsFresh

LEMMA InitConfig == ConfigInit => ConfigInv
  <1> SUFFICES ASSUME ConfigInit PROVE ConfigInv
    OBVIOUS
  <1>1. NoRead \in ReadTypes /\ NoRead.pc = "idle"
    BY DEF NoRead, ReadTypes, Values
  <1>2. NoUpdate \in UpdateTypes /\ NoUpdate.route = "global" /\ NoUpdate.pc = "idle"
    BY DEF NoUpdate, UpdateTypes, Values, Scopes
  <1>3. ConfigTypes
    BY <1>1, <1>2 DEF ConfigInit, ConfigTypes, Values
  <1>4. ReadsApart /\ ReadIsFresh /\ CacheIsFresh
    BY <1>1, <1>2 DEF ConfigInit, ReadsApart, ReadIsFresh, CacheIsFresh, Scopes
  <1> QED
    BY <1>3, <1>4 DEF ConfigInv

(* A step of a read changes that read alone, and counts as overlapped while an update is *)
(* under way.                                                                            *)
LEMMA GotoSteps ==
    ASSUME ConfigInv, NEW a \in Accounts, NEW r \in ReadTypes, Goto(a, r), ReadUnchanged
    PROVE  /\ reader' \in [Accounts -> ReadTypes] /\ reader'[a] = r
           /\ \A b \in Accounts \ {a} : reader'[b] = reader[b]
           /\ updater.pc = "idle" => overlap' = overlap
           /\ updater.pc # "idle" => overlap' = overlap \cup {a}
           /\ UNCHANGED <<cfgRow, updater, updates>>
  BY DEF ConfigInv, ConfigTypes, Goto, ReadUnchanged

LEMMA ReadSteps ==
    ASSUME ConfigInv, NEW a \in Accounts, NEW r \in ReadTypes, Goto(a, r), ReadUnchanged,
           cache' \in [Scopes -> Values],
           \A b \in Accounts \ {a} : cache'[b] = cache[b],
           updater.pc = "idle" /\ a \notin overlap /\ cfgRow[a] # None
               => /\ cache'[a] \in {None, cfgRow[a]}
                  /\ r.pc = "set" => r.value = cfgRow[a]
    PROVE  ConfigInv'
  <1>1. /\ reader' \in [Accounts -> ReadTypes] /\ reader'[a] = r
        /\ \A b \in Accounts \ {a} : reader'[b] = reader[b]
        /\ updater.pc = "idle" => overlap' = overlap
        /\ updater.pc # "idle" => overlap' = overlap \cup {a}
        /\ UNCHANGED <<cfgRow, updater, updates>>
    BY GotoSteps
  <1>2. ConfigTypes'
    BY <1>1 DEF ConfigInv, ConfigTypes
  <1>3. ReadsApart'
    BY <1>1 DEF ConfigInv, ReadsApart, Idle
  <1>4. ReadIsFresh'
    BY <1>1 DEF ConfigInv, ReadIsFresh
  <1>5. CacheIsFresh'
    BY <1>1 DEF ConfigInv, CacheIsFresh, Saved
  <1> QED
    BY <1>2, <1>3, <1>4, <1>5 DEF ConfigInv

LEMMA ReadKeepsConfig == ASSUME ConfigInv, NEW a \in Accounts, ReadStep(a) PROVE ConfigInv'
  <1> DEFINE c == reader[a]
  <1>1. /\ c \in ReadTypes /\ cache \in [Scopes -> Values] /\ cfgRow \in [Scopes -> Values]
        /\ a \in Scopes /\ "global" \in Scopes /\ a # "global" /\ DefaultConfig \in Values
        /\ \A v \in Values : OrDefault(v) \in Values
        /\ \A v, w \in Values : Merge(v, w) \in Values
    BY AccountsAreKeys DEF ConfigInv, ConfigTypes, Scopes, DefaultConfig, OrDefault, Merge, Values
  <1>2. (updater.pc = "idle" /\ a \notin overlap /\ cfgRow[a] # None) => cache[a] \in {None, cfgRow[a]}
    BY DEF ConfigInv, CacheIsFresh, Saved
  <1>3. ASSUME NEW r \in ReadTypes, r.pc # "set", Goto(a, r), ReadUnchanged, UNCHANGED cache
        PROVE  ConfigInv'
    BY <1>1, <1>2, <1>3, ReadSteps
  <1> HIDE DEF c
  <1>4. CASE GetCached(a)
    <2>1. [c EXCEPT !.pc = "done", !.value = cache[a]] \in ReadTypes
          /\ [c EXCEPT !.pc = "done", !.value = cache[a]].pc = "done"
      BY <1>1 DEF ReadTypes
    <2>2. [c EXCEPT !.pc = "globalGet"] \in ReadTypes /\ [c EXCEPT !.pc = "globalGet"].pc = "globalGet"
      BY <1>1 DEF ReadTypes
    <2> QED
      BY <1>3, <1>4, <2>1, <2>2 DEF GetCached, c
  <1>5. CASE GetGlobalCached(a)
    <2>1. [c EXCEPT !.pc = "row", !.global = cache["global"]] \in ReadTypes
          /\ [c EXCEPT !.pc = "row", !.global = cache["global"]].pc = "row"
      BY <1>1 DEF ReadTypes
    <2>2. [c EXCEPT !.pc = "globalRow"] \in ReadTypes /\ [c EXCEPT !.pc = "globalRow"].pc = "globalRow"
      BY <1>1 DEF ReadTypes
    <2> QED
      BY <1>3, <1>5, <2>1, <2>2 DEF GetGlobalCached, c
  <1>6. CASE GetGlobalRow(a)
    <2>1. PICK v \in Values : Goto(a, [c EXCEPT !.pc = "globalSet", !.global = v])
      <3>1. GlobalRows \subseteq Scopes
        BY <1>1 DEF GlobalRows
      <3> QED
        BY <1>1, <1>6, <3>1 DEF GetGlobalRow, c
    <2>2. [c EXCEPT !.pc = "globalSet", !.global = v] \in ReadTypes
          /\ [c EXCEPT !.pc = "globalSet", !.global = v].pc = "globalSet"
      BY <1>1 DEF ReadTypes
    <2> QED
      BY <1>3, <1>6, <2>1, <2>2 DEF GetGlobalRow
  <1>7. CASE CacheGlobal(a)
    <2>1. [c EXCEPT !.pc = "row"] \in ReadTypes /\ [c EXCEPT !.pc = "row"].pc = "row"
      BY <1>1 DEF ReadTypes
    <2>2. cache' = [cache EXCEPT !["global"] = c.global] /\ c.global \in Values
      BY <1>1, <1>7 DEF CacheGlobal, c, ReadTypes
    <2>3. cache' \in [Scopes -> Values] /\ \A b \in Accounts : cache'[b] = cache[b]
      BY <1>1, <2>2, AccountsAreKeys DEF Scopes
    <2>4. Goto(a, [c EXCEPT !.pc = "row"]) /\ ReadUnchanged
      BY <1>7 DEF CacheGlobal, c
    <2> QED
      BY <1>2, <2>1, <2>3, <2>4, ReadSteps
  <1>8. CASE GetRow(a)
    <2> DEFINE r == [c EXCEPT !.pc = "set", !.value = Merge(c.global, cfgRow[a])]
    <2>1. c.global \in Values /\ cfgRow[a] \in Values
      BY <1>1 DEF ReadTypes
    <2>2. r \in ReadTypes /\ r.pc = "set" /\ r.value = Merge(c.global, cfgRow[a])
      BY <1>1, <2>1 DEF ReadTypes
    <2>3. cfgRow[a] # None => r.value = cfgRow[a]
      BY <2>2 DEF Merge
    <2>4. Goto(a, r) /\ ReadUnchanged /\ UNCHANGED cache
      BY <1>8 DEF GetRow, c
    <2> HIDE DEF r
    <2> QED
      BY <1>1, <1>2, <2>2, <2>3, <2>4, ReadSteps
  <1>9. CASE CacheEffective(a)
    <2>1. [c EXCEPT !.pc = "done"] \in ReadTypes /\ [c EXCEPT !.pc = "done"].pc = "done"
      BY <1>1 DEF ReadTypes
    <2>2. cache' = [cache EXCEPT ![a] = c.value] /\ c.value \in Values /\ c.pc = "set"
      BY <1>1, <1>9 DEF CacheEffective, c, ReadTypes
    <2>3. cache' \in [Scopes -> Values] /\ cache'[a] = c.value
          /\ \A b \in Accounts \ {a} : cache'[b] = cache[b]
      BY <1>1, <2>2 DEF Scopes
    <2>4. (a \notin overlap /\ cfgRow[a] # None) => c.value = cfgRow[a]
      BY <2>2 DEF ConfigInv, ReadIsFresh, c
    <2>5. Goto(a, [c EXCEPT !.pc = "done"]) /\ ReadUnchanged
      BY <1>9 DEF CacheEffective, c
    <2> QED
      BY <2>1, <2>3, <2>4, <2>5, ReadSteps
  <1> QED
    BY <1>4, <1>5, <1>6, <1>7, <1>8, <1>9 DEF ReadStep

(* A read that is asked for or taken away has seen nothing yet. *)
LEMMA AskKeepsConfig ==
    ASSUME ConfigInv, NEW a \in Accounts,
           \/ reader' = [reader EXCEPT ![a] = NoRead]
           \/ reader' = [reader EXCEPT ![a].pc = "get"],
           UNCHANGED <<cfgRow, cache, updater, overlap>>
    PROVE  ConfigInv'
  <1>1. /\ reader' \in [Accounts -> ReadTypes] /\ reader'[a].pc \in {"idle", "get"}
        /\ \A b \in Accounts \ {a} : reader'[b] = reader[b]
    <2>1. NoRead \in ReadTypes /\ NoRead.pc = "idle"
      BY DEF NoRead, ReadTypes, Values
    <2>2. reader \in [Accounts -> ReadTypes]
      BY DEF ConfigInv, ConfigTypes
    <2>3. CASE reader' = [reader EXCEPT ![a] = NoRead]
      BY <2>1, <2>2, <2>3
    <2>4. CASE reader' = [reader EXCEPT ![a].pc = "get"]
      <3>1. [reader[a] EXCEPT !.pc = "get"] \in ReadTypes /\ [reader[a] EXCEPT !.pc = "get"].pc = "get"
        BY <2>2 DEF ReadTypes
      <3>2. reader' = [reader EXCEPT ![a] = [reader[a] EXCEPT !.pc = "get"]]
        BY <2>4
      <3> HIDE <2>4
      <3> QED
        BY <2>2, <3>1, <3>2
    <2> QED
      BY <2>3, <2>4
  <1>2. ConfigTypes'
    BY <1>1 DEF ConfigInv, ConfigTypes
  <1>3. ReadsApart' /\ ReadIsFresh'
    BY <1>1 DEF ConfigInv, ReadsApart, ReadIsFresh, Idle
  <1>4. CacheIsFresh'
    BY DEF ConfigInv, CacheIsFresh, Saved
  <1> QED
    BY <1>2, <1>3, <1>4 DEF ConfigInv

LEMMA FindKeepsConfig ==
    ASSUME ConfigInv, NEW route \in Scopes, NEW to \in Configs, FindRow(route, to)
    PROVE  ConfigInv'
  <1>1. PICK s \in (IF route = "global" THEN GlobalRows ELSE {route}) :
            updater' = [pc |-> "save", route |-> route, row |-> s, to |-> to]
    BY DEF FindRow
  <1>2. /\ updater.pc = "idle" /\ overlap' = overlap \cup Reading
        /\ UNCHANGED <<cfgRow, cache, reader>>
    BY DEF FindRow
  <1>3. s \in Scopes /\ to \in Values /\ (route # "global" => s = route)
    <2>1. GlobalRows \subseteq Scopes
      BY DEF GlobalRows, Scopes
    <2> QED
      BY <2>1, ConfigsAreTypes DEF Values
  <1>4. updater' \in UpdateTypes /\ updater'.pc = "save" /\ updater'.route = route /\ updater'.row = s
    BY <1>1, <1>3 DEF UpdateTypes
  <1>5. ConfigTypes'
    BY <1>2, <1>3, <1>4 DEF ConfigInv, ConfigTypes
  <1>6. ReadsApart'
    BY <1>2 DEF ConfigInv, ConfigTypes, ReadTypes, ReadsApart, Reading, Idle
  <1>7. ReadIsFresh' /\ CacheIsFresh'
    BY <1>2, <1>4 DEF ConfigInv, ReadIsFresh, CacheIsFresh, Saved
  <1> QED
    BY <1>5, <1>6, <1>7 DEF ConfigInv

(* Until an update has deleted what it made stale, the row it saved is out of account. *)
LEMMA UpdateKeepsConfig == ASSUME ConfigInv, UpdateStep PROVE ConfigInv'
  <1>1. /\ updater \in UpdateTypes /\ cfgRow \in [Scopes -> Values] /\ cache \in [Scopes -> Values]
        /\ NoUpdate \in UpdateTypes /\ NoUpdate.route = "global" /\ NoUpdate.pc = "idle"
        /\ None \in Values /\ \A a \in Accounts : a \in Scopes
        /\ updater.row \in Scopes /\ updater.route \in Scopes /\ updater.to \in Values
    BY DEF ConfigInv, ConfigTypes, NoUpdate, UpdateTypes, Values, Scopes
  <1>2. CASE SaveRow
    <2>1. /\ updater.pc = "save" /\ cfgRow' = [cfgRow EXCEPT ![updater.row] = updater.to]
          /\ updater' = [updater EXCEPT !.pc = "delete"] /\ UNCHANGED <<cache, reader, overlap>>
      BY <1>2 DEF SaveRow
    <2>2. /\ updater' \in UpdateTypes /\ updater'.pc = "delete" /\ updater'.row = updater.row
          /\ updater'.route = updater.route
      BY <1>1, <2>1 DEF UpdateTypes
    <2>3. /\ cfgRow' \in [Scopes -> Values]
          /\ \A s \in Scopes \ {updater.row} : cfgRow'[s] = cfgRow[s]
      BY <1>1, <2>1
    <2>4. ConfigTypes'
      BY <2>1, <2>2, <2>3 DEF ConfigInv, ConfigTypes
    <2>5. ReadsApart'
      BY <2>1, <2>2 DEF ConfigInv, ReadsApart, Idle
    <2>6. ReadIsFresh'
      BY <2>1 DEF ConfigInv, ReadsApart, ReadIsFresh, Idle
    <2>7. CacheIsFresh'
      BY <1>1, <2>1, <2>2, <2>3 DEF ConfigInv, CacheIsFresh, Saved
    <2> QED
      BY <2>4, <2>5, <2>6, <2>7 DEF ConfigInv
  <1>3. CASE DeleteKey
    <2>1. /\ updater.pc = "delete" /\ cache' = [cache EXCEPT ![updater.route] = None]
          /\ updater' = IF updater.route = "global" THEN [updater EXCEPT !.pc = "scan"] ELSE NoUpdate
          /\ overlap' = IF updater.route \in Reading THEN overlap ELSE overlap \ {updater.route}
          /\ UNCHANGED <<cfgRow, reader>>
      BY <1>3 DEF DeleteKey, StaleKey
    <2>2. /\ cache' \in [Scopes -> Values] /\ cache'[updater.route] = None
          /\ \A s \in Scopes \ {updater.route} : cache'[s] = cache[s]
      BY <1>1, <2>1
    <2>3. ASSUME NEW a \in Accounts, a \notin overlap', reader[a].pc \notin {"idle", "get", "done"}
          PROVE  FALSE
      BY <2>1, <2>3 DEF ConfigInv, ReadsApart, Idle, Reading
    <2>4. CASE updater.route = "global"
      <3>1. /\ updater' \in UpdateTypes /\ updater'.pc = "scan" /\ updater'.row = updater.row
            /\ updater'.route = updater.route
        BY <1>1, <2>1, <2>4 DEF UpdateTypes
      <3>2. ConfigTypes'
        BY <2>1, <2>2, <2>4, <3>1 DEF ConfigInv, ConfigTypes
      <3>3. ReadsApart' /\ ReadIsFresh'
        BY <2>1, <2>3 DEF ReadsApart, ReadIsFresh, Idle
      <3>4. CacheIsFresh'
        BY <2>4, <3>1 DEF CacheIsFresh, Saved
      <3> QED
        BY <3>2, <3>3, <3>4 DEF ConfigInv
    <2>5. CASE updater.route # "global"
      <3>1. updater' = NoUpdate /\ updater.row = updater.route
        BY <2>1, <2>5 DEF ConfigInv, ConfigTypes
      <3>2. ConfigTypes'
        BY <1>1, <2>1, <2>2, <3>1 DEF ConfigInv, ConfigTypes
      <3>3. ReadsApart' /\ ReadIsFresh'
        BY <2>1, <2>3 DEF ReadsApart, ReadIsFresh, Idle
      <3>4. CacheIsFresh'
        BY <1>1, <2>1, <2>2, <2>5, <3>1 DEF ConfigInv, CacheIsFresh, Saved
      <3> QED
        BY <3>2, <3>3, <3>4 DEF ConfigInv
    <2> QED
      BY <2>4, <2>5
  <1>4. CASE ScanDelete
    <2>1. /\ updater.pc = "scan" /\ updater' = NoUpdate /\ overlap' = overlap \cap Reading
          /\ cache' = [s \in Scopes |-> IF s = "global" THEN cache[s] ELSE None]
          /\ UNCHANGED <<cfgRow, reader>>
      BY <1>4 DEF ScanDelete
    <2>2. cache' \in [Scopes -> Values] /\ \A a \in Accounts : cache'[a] = None
      BY <1>1, <2>1, AccountsAreKeys
    <2>3. ConfigTypes'
      BY <1>1, <2>1, <2>2 DEF ConfigInv, ConfigTypes
    <2>4. ASSUME NEW a \in Accounts, a \notin overlap', reader[a].pc \notin {"idle", "get", "done"}
          PROVE  FALSE
      BY <2>1, <2>4 DEF ConfigInv, ReadsApart, Idle, Reading
    <2>5. ReadsApart' /\ ReadIsFresh'
      BY <2>1, <2>4 DEF ReadsApart, ReadIsFresh, Idle
    <2>6. CacheIsFresh'
      BY <2>2 DEF CacheIsFresh
    <2> QED
      BY <2>3, <2>5, <2>6 DEF ConfigInv
  <1>5. CASE DeleteFails
    <2>1. updater' = NoUpdate /\ overlap' = Accounts /\ UNCHANGED <<cfgRow, cache, reader>>
      BY <1>5 DEF DeleteFails
    <2>2. ConfigTypes'
      BY <1>1, <2>1 DEF ConfigInv, ConfigTypes
    <2> QED
      BY <2>1, <2>2 DEF ConfigInv, ReadsApart, ReadIsFresh, CacheIsFresh
  <1> QED
    BY <1>2, <1>3, <1>4, <1>5 DEF UpdateStep

-----------------------------------------------------------------------------
(* The types.  The number of a new row is the least free one of some set. *)

NewIds == {CHOOSE i \in S : \A j \in S : i <= j : S \in SUBSET (1 .. MaxRows)}

RowTypes == [id : NewIds, symbol : DOMAIN LocalName, dir : {"buy", "sell"}, size : Nat]

Steps == {"idle", "fetch", "query", "compare", "check", "write", "report"}

Todos == [type : {"missing", "phantom", "balance"}, what : Positions \cup RowTypes \cup {0}]

Amounts == Balances \cup {0}

CycleTypes == [pc : Steps, held : SUBSET Positions, local : SUBSET RowTypes, balance : Amounts,
               snapshot : Amounts, stopped : BOOLEAN, todo : SUBSET Todos, found : BOOLEAN,
               critical : BOOLEAN]

StateTypes == [status : {"none", "error", "clean", "discrepancies_found"},
               failures : Nat, count : Nat]

WellTyped ==
    /\ broker \in [Accounts -> SUBSET Positions] /\ balance \in [Accounts -> Amounts]
    /\ rows \in [Accounts -> SUBSET RowTypes] /\ snapshot \in [Accounts -> Amounts]
    /\ kill \in BOOLEAN /\ enabled \subseteq Accounts
    /\ state \in [Accounts -> StateTypes] /\ cycle \in [Accounts -> CycleTypes]
    /\ drifted \in [Accounts -> Nat] /\ late \in [Accounts -> Nat]

-----------------------------------------------------------------------------
(* What holds of one account: c is its cycle, R its rows.                     *)

(* What is compared: one position of each key, and for each row one of its key. *)
Compared(c, R) ==
    /\ c.pc \in {"query", "compare"} =>
           \A p, q \in c.held : BrokerKey(p) = BrokerKey(q) => p = q
    /\ c.pc = "compare" => \A r \in R : \E l \in c.local : RowKey(l) = RowKey(r)

OwnName(p) == Local(p.symbol) = p.symbol

(* A missing position of its own name has no row while its correction is still to come,  *)
(* and no second correction.                                                             *)
Uncorrected(c, R) ==
    c.pc \in {"check", "write"} =>
        \A f \in c.todo : (f.type = "missing" /\ OwnName(f.what)) =>
            /\ \A r \in R : RowKey(r) # BrokerKey(f.what)
            /\ \A g \in c.todo :
                   (g.type = "missing" /\ BrokerKey(g.what) = BrokerKey(f.what)) => g = f

(* A missing position is one, whatever else can be missing. *)
Corrigible(c) == \A f \in c.todo : f.type = "missing" => f.what \in Positions

RowsOnce(R) == \A r, s \in R : (RowKey(r) = RowKey(s) /\ Local(r.symbol) = r.symbol) => r = s

(* A correction that is about to be written was checked since the switch went on. *)
Halted(c, n) == n <= 1 /\ (kill /\ c.pc = "write" => n = 0)

Persistent(c, n) == c.pc \in {"check", "write", "report"} => (c.critical <=> n >= EscalationCycleCount)

RowInv == \A a \in Accounts : /\ Compared(cycle[a], rows[a]) /\ Uncorrected(cycle[a], rows[a])
                              /\ Corrigible(cycle[a]) /\ RowsOnce(rows[a])

KillInv == \A a \in Accounts : Halted(cycle[a], late[a])

DriftInv == \A a \in Accounts : a \notin sloppy => /\ state[a].count = drifted[a]
                                                   /\ Persistent(cycle[a], drifted[a])

IInv == WellTyped /\ ConfigInv /\ RowInv /\ KillInv /\ DriftInv

(* The records the steps of a cycle build. *)
LEMMA CycleRecords ==
    ASSUME NEW c \in CycleTypes, NEW x \in Steps
    PROVE  /\ LET d == [c EXCEPT !.pc = x]
              IN  /\ d \in CycleTypes /\ d.pc = x /\ d.todo = c.todo /\ (d.critical <=> c.critical)
           /\ \A y \in SUBSET Todos :
                 LET d == [c EXCEPT !.todo = y, !.pc = x]
                 IN  d \in CycleTypes /\ d.pc = x /\ d.todo = y /\ (d.critical <=> c.critical)
  <1>1. LET d == [c EXCEPT !.pc = x]
        IN  d \in CycleTypes /\ d.pc = x /\ d.todo = c.todo /\ (d.critical <=> c.critical)
    BY DEF CycleTypes
  <1>2. ASSUME NEW y \in SUBSET Todos
        PROVE  LET d == [c EXCEPT !.todo = y, !.pc = x]
               IN  d \in CycleTypes /\ d.pc = x /\ d.todo = y /\ (d.critical <=> c.critical)
    BY DEF CycleTypes
  <1> QED
    BY <1>1, <1>2

LEMMA FreshRecords ==
    /\ NoCycle \in CycleTypes /\ NoCycle.pc = "idle" /\ NoCycle.todo = {}
    /\ LET d == [NoCycle EXCEPT !.pc = "fetch"]
       IN  d \in CycleTypes /\ d.pc = "fetch" /\ d.todo = {}
  BY DEF NoCycle, CycleTypes, Steps, Amounts

LEMMA InitIInv == ReconciliationInit => IInv
  <1> SUFFICES ASSUME ReconciliationInit PROVE IInv
    OBVIOUS
  <1>1. NoState \in StateTypes /\ NoState.count = 0
    BY DEF NoState, StateTypes
  <1>2. WellTyped
    BY <1>1, FreshRecords DEF ReconciliationInit, WellTyped, Amounts
  <1>3. RowInv
    BY FreshRecords DEF ReconciliationInit, RowInv, Compared, Uncorrected, Corrigible, RowsOnce
  <1>4. KillInv
    BY FreshRecords DEF ReconciliationInit, KillInv, Halted
  <1>5. DriftInv
    BY <1>1, FreshRecords DEF ReconciliationInit, DriftInv, Persistent
  <1> QED
    BY <1>2, <1>3, <1>4, <1>5, InitConfig DEF IInv, ReconciliationInit

-----------------------------------------------------------------------------
(* The steps.  Most leave the configurations alone, or everything but them. *)

LEMMA ConfigRests == ConfigInv /\ UNCHANGED configVars => ConfigInv'
  BY DEF configVars, ConfigInv, ConfigTypes, ReadsApart, ReadIsFresh, CacheIsFresh, Idle, Saved

LEMMA AccountsRest ==
    ASSUME IInv, UNCHANGED <<marketVars, tableVars, kill, enabled, state, cycle, historyVars>>
    PROVE  WellTyped' /\ RowInv' /\ KillInv' /\ DriftInv'
  BY DEF IInv, WellTyped, RowInv, KillInv, DriftInv, Halted, marketVars, tableVars, historyVars

LEMMA ConfigSteps ==
    ASSUME IInv,
           \/ \E a \in Accounts : ConfigStep(ReadStep(a))
           \/ ConfigStep(UpdateStep)
           \/ \E s \in Scopes, to \in Configs : PutConfig(s, to)
    PROVE  IInv'
  <1>1. UNCHANGED <<marketVars, tableVars, kill, enabled, state, cycle, historyVars>>
    BY DEF ConfigStep, PutConfig
  <1>2. ConfigInv'
    BY ReadKeepsConfig, UpdateKeepsConfig, FindKeepsConfig DEF IInv, ConfigStep, PutConfig
  <1> QED
    BY <1>1, <1>2, AccountsRest DEF IInv

(* The environment. *)
LEMMA OutsideSteps ==
    ASSUME IInv,
           \/ \E a \in Accounts : BrokerChanges(a) \/ SnapshotTaken(a) \/ ToggleAccount(a)
           \/ ToggleKill
    PROVE  IInv'
  <1>1. /\ UNCHANGED <<configVars, rows, state, cycle, drifted, sloppy>>
        /\ \/ UNCHANGED <<kill, late>>
           \/ kill' = ~kill /\ late' = [a \in Accounts |-> 0]
    BY DEF BrokerChanges, SnapshotTaken, ToggleAccount, ToggleKill, tableVars, historyVars
  <1> DEFINE Typed == /\ broker' \in [Accounts -> SUBSET Positions] /\ balance' \in [Accounts -> Amounts]
                      /\ snapshot' \in [Accounts -> Amounts] /\ enabled' \subseteq Accounts
  <1>2. Typed
    <2> USE DEF IInv, WellTyped
    <2>1. ASSUME NEW a \in Accounts, BrokerChanges(a) PROVE Typed
      BY <2>1 DEF BrokerChanges, tableVars, Amounts
    <2>2. ASSUME NEW a \in Accounts, SnapshotTaken(a) PROVE Typed
      BY <2>2 DEF SnapshotTaken, marketVars
    <2>3. ASSUME NEW a \in Accounts, ToggleAccount(a) PROVE Typed
      BY <2>3 DEF ToggleAccount, marketVars, tableVars
    <2>4. CASE ToggleKill
      BY <2>4 DEF ToggleKill, marketVars, tableVars
    <2> QED
      BY <2>1, <2>2, <2>3, <2>4
  <1>3. WellTyped'
    <2>1. kill \in BOOLEAN /\ late \in [Accounts -> Nat]
      BY DEF IInv, WellTyped
    <2>2. kill' \in BOOLEAN
      BY <1>1, <2>1
    <2>3. late' \in [Accounts -> Nat]
      BY <1>1, <2>1
    <2> QED
      BY <1>1, <1>2, <2>2, <2>3, Zenon DEF IInv, WellTyped
  <1>4. ConfigInv'
    BY <1>1, ConfigRests DEF IInv
  <1>5. RowInv' /\ DriftInv'
    BY <1>1 DEF IInv, RowInv, DriftInv
  <1>6. KillInv'
    <2>1. CASE UNCHANGED <<kill, late>>
      BY <1>1, <2>1 DEF IInv, KillInv, Halted
    <2>2. CASE late' = [a \in Accounts |-> 0]
      BY <2>2 DEF KillInv, Halted
    <2> QED
      BY <1>1, <2>1, <2>2
  <1> QED
    BY <1>3, <1>4, <1>5, <1>6 DEF IInv

(* A new job: no cycle has anything to correct, and a cleaned account counts from nought. *)
LEMMA StartSteps == ASSUME IInv, StartJob PROVE IInv'
  <1>1. PICK gone \in SUBSET Accounts :
            /\ state' = [a \in Accounts |-> IF a \in gone THEN NoState ELSE state[a]]
            /\ drifted' = [a \in Accounts |-> IF a \in gone THEN 0 ELSE drifted[a]]
            /\ sloppy' = sloppy \ gone
    BY DEF StartJob, Cleaned
  <1>2. /\ UNCHANGED <<configVars, marketVars, tableVars, kill, enabled, late>>
        /\ cycle' = [a \in Accounts |-> IF a \in enabled THEN [NoCycle EXCEPT !.pc = "fetch"]
                                         ELSE NoCycle]
    BY DEF StartJob
  <1>3. \A a \in Accounts : cycle'[a] \in CycleTypes /\ cycle'[a].pc \in {"fetch", "idle"}
                            /\ cycle'[a].todo = {}
    BY <1>2, FreshRecords
  <1>4. NoState \in StateTypes /\ NoState.count = 0
    BY DEF NoState, StateTypes
  <1>5. WellTyped'
    <2>1. cycle' \in [Accounts -> CycleTypes]
      BY <1>2, <1>3
    <2>2. state' \in [Accounts -> StateTypes] /\ drifted' \in [Accounts -> Nat]
      BY <1>1, <1>4 DEF IInv, WellTyped
    <2> QED
      BY <1>2, <2>1, <2>2 DEF IInv, WellTyped, marketVars, tableVars
  <1>6. RowInv'
    BY <1>2, <1>3 DEF IInv, RowInv, Compared, Uncorrected, Corrigible, tableVars
  <1>7. KillInv'
    BY <1>2, <1>3 DEF IInv, KillInv, Halted
  <1>8. DriftInv'
    <2>1. \A a \in Accounts \ gone : state'[a] = state[a] /\ drifted'[a] = drifted[a]
      BY <1>1
    <2>2. \A a \in Accounts \cap gone : state'[a].count = 0 /\ drifted'[a] = 0
      BY <1>1, <1>4
    <2>3. \A a \in Accounts : a \notin sloppy' => a \in gone \/ a \notin sloppy
      BY <1>1
    <2> QED
      BY <1>3, <2>1, <2>2, <2>3 DEF IInv, DriftInv, Persistent
  <1> QED
    BY <1>2, <1>5, <1>6, <1>7, <1>8, ConfigRests DEF IInv

(* A step of one account's cycle: what has to hold of that account and of the steps'     *)
(* common variables.                                                                     *)
LEMMA CycleSteps ==
    ASSUME IInv, NEW a \in Accounts, NEW c \in CycleTypes, NEW R \in SUBSET RowTypes,
           Step(a, c), rows' = [rows EXCEPT ![a] = R],
           Compared(c, R), Uncorrected(c, R), Corrigible(c), RowsOnce(R),
           UNCHANGED <<marketVars, kill, enabled>>,
           snapshot' \in [Accounts -> Amounts], state' \in [Accounts -> StateTypes],
           drifted' \in [Accounts -> Nat], late' \in [Accounts -> Nat],
           \A b \in Accounts \ {a} : /\ late'[b] = late[b] /\ drifted'[b] = drifted[b]
                                     /\ state'[b].count = state[b].count,
           Halted(c, late'[a]), sloppy \subseteq sloppy', sloppy' \subseteq sloppy \cup {a},
           a \notin sloppy' => state'[a].count = drifted'[a] /\ Persistent(c, drifted'[a]),
           ConfigInv'
    PROVE  IInv'
  <1>1. /\ cycle' \in [Accounts -> CycleTypes] /\ cycle'[a] = c
        /\ \A b \in Accounts \ {a} : cycle'[b] = cycle[b]
        /\ rows' \in [Accounts -> SUBSET RowTypes] /\ rows'[a] = R
        /\ \A b \in Accounts \ {a} : rows'[b] = rows[b]
    BY DEF IInv, WellTyped, Step
  <1>2. WellTyped'
    BY <1>1 DEF IInv, WellTyped, marketVars
  <1>3. RowInv'
    BY <1>1 DEF IInv, RowInv
  <1>4. KillInv'
    BY <1>1 DEF IInv, KillInv, Halted
  <1>5. DriftInv'
    <2> SUFFICES ASSUME NEW b \in Accounts, b \notin sloppy'
                 PROVE  state'[b].count = drifted'[b] /\ Persistent(cycle'[b], drifted'[b])
      BY DEF DriftInv
    <2>1. CASE b = a
      BY <1>1, <2>1
    <2>2. CASE b # a
      BY <1>1, <2>2 DEF IInv, DriftInv
    <2> QED
      BY <2>1, <2>2
  <1> QED
    BY <1>2, <1>3, <1>4, <1>5 DEF IInv

(* A step that neither writes a row nor counts. *)
LEMMA ReadingSteps ==
    ASSUME IInv, NEW a \in Accounts, NEW c \in CycleTypes, Step(a, c),
           Compared(c, rows[a]), Uncorrected(c, rows[a]), Corrigible(c),
           kill /\ c.pc = "write" => late[a] = 0,
           UNCHANGED <<marketVars, tableVars, kill, enabled, historyVars>>,
           state' \in [Accounts -> StateTypes],
           \A b \in Accounts : state'[b].count = state[b].count,
           c.pc \in {"check", "write", "report"} =>
               cycle[a].pc \in {"check", "write", "report"} /\ (c.critical <=> cycle[a].critical),
           ConfigInv'
    PROVE  IInv'
  <1>1. /\ rows[a] \in SUBSET RowTypes /\ rows' = [rows EXCEPT ![a] = rows[a]]
        /\ snapshot' \in [Accounts -> Amounts]
        /\ drifted' \in [Accounts -> Nat] /\ late' \in [Accounts -> Nat]
        /\ UNCHANGED <<drifted, late, sloppy>>
    BY DEF IInv, WellTyped, tableVars, historyVars
  <1>2. RowsOnce(rows[a]) /\ Halted(c, late[a])
    BY DEF IInv, RowInv, KillInv, Halted
  <1>3. a \notin sloppy => state'[a].count = drifted[a] /\ Persistent(c, drifted[a])
    BY DEF IInv, DriftInv, Persistent
  <1> QED
    BY <1>1, <1>2, <1>3, CycleSteps

LEMMA FetchSteps == ASSUME IInv, NEW a \in Accounts, Fetch(a) PROVE IInv'
  <1>1. PICK held \in OnePerKey(broker[a], BrokerKey) :
            Step(a, [cycle[a] EXCEPT !.pc = "query", !.held = held, !.balance = balance[a]])
    BY DEF Fetch
  <1> DEFINE c == [cycle[a] EXCEPT !.pc = "query", !.held = held, !.balance = balance[a]]
  <1>2. UNCHANGED <<configVars, marketVars, tableVars, kill, enabled, state, historyVars>>
    BY DEF Fetch
  <1>3. held \subseteq broker[a] /\ \A p, q \in held : BrokerKey(p) = BrokerKey(q) => p = q
    BY DEF OnePerKey
  <1>4. /\ cycle[a] \in CycleTypes /\ broker[a] \subseteq Positions /\ balance[a] \in Amounts
        /\ state \in [Accounts -> StateTypes]
    BY DEF IInv, WellTyped
  <1>5. /\ c \in CycleTypes /\ c.pc = "query" /\ c.held = held /\ c.todo = cycle[a].todo
    <2> DEFINE old == cycle[a]
               amount == balance[a]
    <2>1. old \in CycleTypes /\ held \in SUBSET Positions /\ amount \in Amounts
      BY <1>3, <1>4
    <2> HIDE DEF old, amount
    <2>2. LET d == [old EXCEPT !.pc = "query", !.held = held, !.balance = amount]
          IN  d \in CycleTypes /\ d.pc = "query" /\ d.held = held /\ d.todo = old.todo
      BY <2>1 DEF CycleTypes, Steps
    <2> QED
      BY <2>2 DEF old, amount
  <1> HIDE DEF c
  <1>6. Compared(c, rows[a]) /\ Uncorrected(c, rows[a]) /\ Corrigible(c)
    BY <1>3, <1>5 DEF Compared, Uncorrected, Corrigible, IInv, RowInv
  <1>7. Step(a, c)
    BY <1>1 DEF c
  <1> QED
    BY <1>2, <1>4, <1>5, <1>6, <1>7, ReadingSteps, ConfigRests DEF IInv

LEMMA QuerySteps == ASSUME IInv, NEW a \in Accounts, Query(a) PROVE IInv'
  <1>1. PICK local \in OnePerKey(rows[a], RowKey) :
            Step(a, [cycle[a] EXCEPT !.pc = "compare", !.local = local, !.snapshot = snapshot[a],
                                     !.stopped = kill])
    BY DEF Query
  <1> DEFINE c == [cycle[a] EXCEPT !.pc = "compare", !.local = local, !.snapshot = snapshot[a],
                                   !.stopped = kill]
  <1>2. /\ UNCHANGED <<marketVars, tableVars, kill, enabled, state, historyVars>>
        /\ cycle[a].pc = "query"
    BY DEF Query
  <1>3. local \subseteq rows[a] /\ \A r \in rows[a] : \E l \in local : RowKey(l) = RowKey(r)
    BY DEF OnePerKey
  <1>4. /\ cycle[a] \in CycleTypes /\ rows[a] \subseteq RowTypes /\ snapshot[a] \in Amounts
        /\ kill \in BOOLEAN /\ state \in [Accounts -> StateTypes]
    BY DEF IInv, WellTyped
  <1>5. /\ c \in CycleTypes /\ c.pc = "compare" /\ c.local = local /\ c.held = cycle[a].held
        /\ c.todo = cycle[a].todo
    <2> DEFINE old == cycle[a]
               amount == snapshot[a]
    <2>1. old \in CycleTypes /\ local \in SUBSET RowTypes /\ amount \in Amounts /\ kill \in BOOLEAN
      BY <1>3, <1>4
    <2> HIDE DEF old, amount
    <2>2. LET d == [old EXCEPT !.pc = "compare", !.local = local, !.snapshot = amount, !.stopped = kill]
          IN  /\ d \in CycleTypes /\ d.pc = "compare" /\ d.local = local /\ d.held = old.held
              /\ d.todo = old.todo
      BY <2>1 DEF CycleTypes, Steps
    <2> QED
      BY <2>2 DEF old, amount
  <1> HIDE DEF c
  <1>6. Compared(c, rows[a]) /\ Uncorrected(c, rows[a]) /\ Corrigible(c)
    BY <1>2, <1>3, <1>5 DEF Compared, Uncorrected, Corrigible, IInv, RowInv
  <1>7. Step(a, c)
    BY <1>1 DEF c
  <1>8. ConfigInv'
    BY AskKeepsConfig DEF IInv, Query
  <1> QED
    BY <1>2, <1>4, <1>5, <1>6, <1>7, <1>8, ReadingSteps

(* The end of a cycle, after which the state in Redis is that of before but for the count *)
(* of failures and the status.                                                           *)
LEMMA EndSteps == ASSUME IInv, NEW a \in Accounts, Unreachable(a) \/ Report(a) PROVE IInv'
  <1>1. /\ Ends(a) /\ UNCHANGED <<cfgRow, cache, updater, updates, overlap, marketVars, tableVars,
                                  kill, enabled, historyVars>>
    BY DEF Unreachable, Report
  <1>2. Step(a, NoCycle) /\ reader' = [reader EXCEPT ![a] = NoRead]
    BY <1>1 DEF Ends
  <1>3. state' \in [Accounts -> StateTypes] /\ \A b \in Accounts : state'[b].count = state[b].count
    <2> DEFINE s == state[a]
    <2>1. state \in [Accounts -> StateTypes] /\ s \in StateTypes
      BY DEF IInv, WellTyped
    <2>2. PICK d \in StateTypes : d.count = s.count /\ state' \in {state, [state EXCEPT ![a] = d]}
      <3>1. CASE Failed(a)
        <4> DEFINE d == [s EXCEPT !.status = "error", !.failures = @ + 1]
        <4>1. d \in StateTypes /\ d.count = s.count
          <5>1. s \in StateTypes
            BY <2>1
          <5> HIDE DEF s
          <5>2. s.failures + 1 \in Nat
            BY <5>1 DEF StateTypes
          <5> QED
            BY <5>1, <5>2 DEF StateTypes
        <4>2. state' \in {state, [state EXCEPT ![a] = d]}
          BY <2>1, <3>1 DEF Failed
        <4> QED
          BY <4>1, <4>2
      <3>2. CASE ~Failed(a)
        <4> DEFINE end == IF cycle[a].found THEN "discrepancies_found" ELSE "clean"
                   d == [s EXCEPT !.failures = 0, !.status = end]
        <4>1. d \in StateTypes /\ d.count = s.count
          BY <2>1 DEF StateTypes
        <4>2. state' = [state EXCEPT ![a] = d]
          BY <2>1, <3>2 DEF Unreachable, Report
        <4> QED
          BY <4>1, <4>2
      <3> QED
        BY <3>1, <3>2
    <2> QED
      BY <2>1, <2>2
  <1>4. Compared(NoCycle, rows[a]) /\ Uncorrected(NoCycle, rows[a]) /\ Corrigible(NoCycle)
    BY FreshRecords DEF Compared, Uncorrected, Corrigible
  <1>5. ConfigInv'
    BY <1>1, <1>2, AskKeepsConfig DEF IInv
  <1> QED
    BY <1>1, <1>2, <1>3, <1>4, <1>5, FreshRecords, ReadingSteps

(* The comparison leaves a correction for each missing position that has no row. *)
LEMMA CompareSteps == ASSUME IInv, NEW a \in Accounts, Compare(a) PROVE IInv'
  <1> DEFINE c == cycle[a]
             drift == c.balance # c.snapshot
             todo == Wanted(c, drift, reader[a].value)
             next == IF todo = {} THEN "report" ELSE "check"
             amount == IF drift /\ todo # {} THEN c.balance ELSE 0
             found == Types(c.held, c.local, drift) # {}
             Goes(n) == [NoCycle EXCEPT !.pc = next, !.todo = todo, !.balance = amount,
                                        !.found = found, !.critical = drift /\ n >= EscalationCycleCount]
  <1>1. /\ c.pc = "compare" /\ reader' = [reader EXCEPT ![a] = NoRead]
        /\ UNCHANGED <<cfgRow, cache, updater, overlap, marketVars, tableVars, kill, enabled, late>>
        /\ drifted' = [drifted EXCEPT ![a] = IF drift THEN Capped(@ + 1) ELSE 0]
        /\ \/ /\ state' = [state EXCEPT ![a].count = Counted(a, drift)]
              /\ Step(a, Goes(Counted(a, drift))) /\ UNCHANGED sloppy
           \/ /\ Step(a, Goes(state[a].count)) /\ sloppy' = sloppy \cup {a} /\ UNCHANGED state
    BY DEF Compare
  <1>2. /\ c \in CycleTypes /\ rows[a] \subseteq RowTypes /\ drifted \in [Accounts -> Nat]
        /\ late \in [Accounts -> Nat] /\ state \in [Accounts -> StateTypes]
        /\ state[a].count \in Nat /\ drifted[a] \in Nat /\ rows \in [Accounts -> SUBSET RowTypes]
        /\ snapshot \in [Accounts -> Amounts]
        /\ Compared(c, rows[a]) /\ RowsOnce(rows[a]) /\ late[a] <= 1
    BY DEF IInv, WellTyped, StateTypes, RowInv, KillInv, Halted
  <1>3. c.held \subseteq Positions /\ c.local \subseteq RowTypes /\ c.balance \in Amounts
    <2> HIDE DEF c
    <2> QED
      BY <1>2 DEF CycleTypes
  <1>4. ASSUME NEW f \in todo
        PROVE  /\ f \in Todos
               /\ f.type = "missing" =>
                      \E p \in c.held : /\ f = [type |-> "missing", what |-> p]
                                        /\ \A l \in c.local : RowKey(l) # BrokerKey(p)
    <2>1. f \in Findings(c.held, c.local, drift)
      BY <1>4 DEF Wanted
    <2> HIDE DEF c, drift, todo
    <2>2. CASE f \in {[type |-> "missing", what |-> p] : p \in Missing(c.held, c.local)}
      <3>1. PICK p \in Missing(c.held, c.local) : f = [type |-> "missing", what |-> p]
        BY <2>2
      <3>2. p \in c.held /\ p \in Positions /\ \A l \in c.local : RowKey(l) # BrokerKey(p)
        BY <1>3 DEF Missing
      <3> QED
        BY <3>1, <3>2 DEF Todos
    <2>3. CASE f \in {[type |-> "phantom", what |-> r] : r \in Phantom(c.held, c.local)}
      <3>1. PICK r \in Phantom(c.held, c.local) : f = [type |-> "phantom", what |-> r]
        BY <2>3
      <3>2. r \in RowTypes
        BY <1>3 DEF Phantom
      <3> QED
        BY <3>1, <3>2 DEF Todos
    <2>4. CASE f = [type |-> "balance", what |-> 0]
      BY <2>4 DEF Todos
    <2> QED
      BY <2>1, <2>2, <2>3, <2>4 DEF Findings
  <1>5. /\ next \in {"report", "check"} /\ todo \in SUBSET Todos /\ amount \in Amounts
        /\ found \in BOOLEAN /\ drift \in BOOLEAN
    BY <1>3, <1>4 DEF Amounts
  <1>6. ASSUME NEW n \in Nat
        PROVE  /\ Goes(n) \in CycleTypes /\ Goes(n).pc = next /\ Goes(n).todo = todo
               /\ Goes(n).critical <=> (drift /\ n >= EscalationCycleCount)
    <2> DEFINE v == drift /\ n >= EscalationCycleCount
    <2>1. v \in BOOLEAN
      OBVIOUS
    <2>2. NoCycle \in CycleTypes
      BY FreshRecords
    <2> HIDE DEF next, todo, amount, found, v
    <2>3. LET d == [NoCycle EXCEPT !.pc = next, !.todo = todo, !.balance = amount, !.found = found,
                                   !.critical = v]
          IN  d \in CycleTypes /\ d.pc = next /\ d.todo = todo /\ (d.critical <=> v)
      BY <1>5, <2>1, <2>2 DEF CycleTypes, Steps
    <2> QED
      BY <2>3 DEF v
  <1>7. ASSUME NEW d \in CycleTypes, d.pc = next, d.todo = todo
        PROVE  Compared(d, rows[a]) /\ Uncorrected(d, rows[a]) /\ Corrigible(d)
    <2>1. Compared(d, rows[a])
      BY <1>5, <1>7 DEF Compared
    <2>2. Corrigible(d)
      <3> SUFFICES ASSUME NEW f \in todo, f.type = "missing" PROVE f.what \in Positions
        BY <1>7 DEF Corrigible
      <3>1. PICK p \in c.held : f = [type |-> "missing", what |-> p]
        BY <1>4
      <3> QED
        BY <1>3, <3>1
    <2>3. Uncorrected(d, rows[a])
      <3> SUFFICES ASSUME NEW f \in todo, f.type = "missing"
                   PROVE  /\ \A r \in rows[a] : RowKey(r) # BrokerKey(f.what)
                          /\ \A g \in todo : (g.type = "missing" /\ BrokerKey(g.what) = BrokerKey(f.what))
                                                 => g = f
        BY <1>7 DEF Uncorrected
      <3>1. PICK p \in c.held : /\ f = [type |-> "missing", what |-> p]
                                /\ \A l \in c.local : RowKey(l) # BrokerKey(p)
        BY <1>4
      <3>2. f.what = p
        BY <3>1
      <3>3. \A r \in rows[a] : RowKey(r) # BrokerKey(p)
        BY <1>1, <1>2, <3>1 DEF Compared
      <3>4. ASSUME NEW g \in todo, g.type = "missing", BrokerKey(g.what) = BrokerKey(p) PROVE g = f
        <4>1. PICK q \in c.held : g = [type |-> "missing", what |-> q]
          BY <1>4, <3>4
        <4>2. g.what = q
          BY <4>1
        <4>3. q = p
          BY <1>1, <1>2, <3>4, <4>2 DEF Compared
        <4> QED
          BY <3>1, <4>1, <4>3
      <3> QED
        BY <3>2, <3>3, <3>4
    <2> QED
      BY <2>1, <2>2, <2>3
  <1>8. /\ Counted(a, drift) \in Nat /\ drifted' \in [Accounts -> Nat]
        /\ \A b \in Accounts \ {a} : drifted'[b] = drifted[b]
        /\ drifted'[a] = IF drift THEN Capped(drifted[a] + 1) ELSE 0
    <2>1. \A n \in Nat : Capped(n) \in Nat
      BY CountAssumption DEF Capped
    <2>2. drifted[a] + 1 \in Nat /\ state[a].count + 1 \in Nat
      BY <1>2
    <2> HIDE DEF drift
    <2> QED
      BY <1>1, <1>2, <2>1, <2>2 DEF Counted
  <1>9. UNCHANGED <<marketVars, kill, enabled, late, rows, snapshot>>
    BY <1>1 DEF tableVars
  <1>10. ConfigInv'
    BY <1>1, AskKeepsConfig DEF IInv
  <1>11. ASSUME NEW n \in Nat, Step(a, Goes(n)), state' \in [Accounts -> StateTypes],
                \A b \in Accounts \ {a} : state'[b].count = state[b].count,
                sloppy \subseteq sloppy', sloppy' \subseteq sloppy \cup {a},
                a \notin sloppy' => state'[a].count = drifted'[a] /\ n = drifted'[a]
         PROVE  IInv'
    <2> DEFINE d == Goes(n)
    <2>1. d \in CycleTypes /\ d.pc = next /\ d.todo = todo
          /\ (d.critical <=> (drift /\ n >= EscalationCycleCount))
      BY <1>6
    <2>2. Compared(d, rows[a]) /\ Uncorrected(d, rows[a]) /\ Corrigible(d)
      BY <1>7, <2>1
    <2>3. a \notin sloppy' => Persistent(d, drifted'[a])
      <3> HIDE DEF d, drift
      <3> QED
        BY <1>8, <1>11, <2>1, CountAssumption DEF Persistent
    <2>4. Halted(d, late'[a]) /\ late' \in [Accounts -> Nat] /\ \A b \in Accounts : late'[b] = late[b]
      BY <1>2, <1>5, <1>9, <2>1 DEF Halted
    <2>5. /\ Step(a, d) /\ rows' = [rows EXCEPT ![a] = rows[a]] /\ rows[a] \in SUBSET RowTypes
          /\ snapshot' \in [Accounts -> Amounts]
      BY <1>2, <1>9, <1>11
    <2> HIDE DEF d, drift, todo, next
    <2> QED
      BY <1>2, <1>8, <1>9, <1>10, <1>11, <2>1, <2>2, <2>3, <2>4, <2>5, CycleSteps
  <1>12. CASE /\ state' = [state EXCEPT ![a].count = Counted(a, drift)]
              /\ Step(a, Goes(Counted(a, drift))) /\ UNCHANGED sloppy
    <2> DEFINE m == Counted(a, drift)
               s == state[a]
    <2>1. m \in Nat /\ s \in StateTypes
      BY <1>2, <1>8
    <2>2. /\ state' = [state EXCEPT ![a] = [s EXCEPT !.count = m]]
      BY <1>2, <1>12
    <2>3. [s EXCEPT !.count = m] \in StateTypes /\ [s EXCEPT !.count = m].count = m
      <3> HIDE DEF m, s
      <3> QED
        BY <2>1 DEF StateTypes
    <2>4. /\ state' \in [Accounts -> StateTypes] /\ state'[a].count = m
          /\ \A b \in Accounts \ {a} : state'[b].count = state[b].count
      <3> HIDE DEF m, s
      <3> QED
        BY <1>2, <2>2, <2>3
    <2>5. a \notin sloppy' => m = drifted'[a]
      <3>1. a \notin sloppy' => state[a].count = drifted[a]
        BY <1>12 DEF IInv, DriftInv
      <3> HIDE DEF drift
      <3> QED
        BY <1>8, <3>1 DEF Counted
    <2>6. Step(a, Goes(m)) /\ sloppy' = sloppy
      BY <1>12
    <2> HIDE DEF m, s, Goes
    <2> QED
      BY <1>11, <2>1, <2>4, <2>5, <2>6
  <1>13. CASE Step(a, Goes(state[a].count)) /\ sloppy' = sloppy \cup {a} /\ UNCHANGED state
    <2> HIDE DEF Goes
    <2> QED
      BY <1>2, <1>11, <1>13
  <1> QED
    BY <1>1, <1>12, <1>13

(* What is left of a cycle when a correction is done with. *)
LEMMA RestsLeft ==
    ASSUME IInv, NEW a \in Accounts, NEW f
    PROVE  /\ Rest(a, f) \in CycleTypes /\ Rest(a, f).pc \in {"report", "check"}
           /\ Rest(a, f).todo = cycle[a].todo \ {f}
           /\ Rest(a, f).critical <=> cycle[a].critical
  <1> DEFINE c == cycle[a]
             todo == c.todo \ {f}
             next == IF todo = {} THEN "report" ELSE "check"
  <1>1. c \in CycleTypes
    BY DEF IInv, WellTyped
  <1>2. todo \in SUBSET Todos
    <2> HIDE DEF c
    <2> QED
      BY <1>1 DEF CycleTypes
  <1>3. next \in Steps
    BY DEF Steps
  <1>4. Rest(a, f) = [c EXCEPT !.todo = todo, !.pc = next]
    BY DEF Rest
  <1>5. next \in {"report", "check"}
    OBVIOUS
  <1> HIDE DEF c, next
  <1>6. LET d == [c EXCEPT !.todo = todo, !.pc = next]
        IN  d \in CycleTypes /\ d.pc = next /\ d.todo = todo /\ (d.critical <=> c.critical)
    <2> HIDE DEF todo
    <2> QED
      BY <1>1, <1>2, <1>3, CycleRecords
  <1>7. [c EXCEPT !.todo = todo, !.pc = next].critical <=> cycle[a].critical
    BY <1>6 DEF c
  <1> QED
    BY <1>4, <1>5, <1>6, <1>7 DEF c

(* Rows, when the correction f of a cycle c is written: the row of a missing position is *)
(* the first under its key, if the position is of its own name.                          *)
LEMMA CorrectedRows ==
    ASSUME IInv, NEW a \in Accounts, NEW f \in cycle[a].todo, cycle[a].pc = "write"
    PROVE  /\ Corrected(a, f) \in SUBSET RowTypes /\ RowsOnce(Corrected(a, f))
           /\ Uncorrected(Rest(a, f), Corrected(a, f))
  <1> DEFINE R == rows[a]
             todo == cycle[a].todo
             p == f.what
             new == NewRow(a, p)
  <1>1. /\ cycle[a] \in CycleTypes /\ R \subseteq RowTypes /\ RowsOnce(R)
        /\ Uncorrected(cycle[a], R) /\ Corrigible(cycle[a])
    BY DEF IInv, WellTyped, RowInv
  <1>2. f \in Todos
    BY <1>1 DEF CycleTypes
  <1>3. Rest(a, f).todo = todo \ {f}
    BY RestsLeft
  <1>4. ASSUME NEW S \in SUBSET R PROVE RowsOnce(S) /\ Uncorrected(Rest(a, f), S)
    BY <1>1, <1>3 DEF RowsOnce, Uncorrected
  <1>5. CASE f.type # "missing" \/ FreeIds(a) = {}
    <2>1. f.type \in {"missing", "phantom", "balance"}
      BY <1>2 DEF Todos
    <2>2. Corrected(a, f) \in SUBSET R
      BY <1>5, <2>1 DEF Corrected
    <2> QED
      BY <1>1, <1>4, <2>2
  <1>6. CASE f.type = "missing" /\ FreeIds(a) # {}
    <2>1. Corrected(a, f) = R \cup {new}
      BY <1>6 DEF Corrected
    <2>2. p \in Positions
      BY <1>1, <1>6 DEF Corrigible
    <2>3. p.symbol \in DOMAIN LocalName /\ p.dir \in {"buy", "sell"} /\ p.size \in Nat
      BY <2>2, PositionsAssumption
    <2>4. new \in RowTypes /\ new.symbol = p.symbol /\ new.dir = p.dir
      <3> DEFINE id == CHOOSE i \in FreeIds(a) : \A j \in FreeIds(a) : i <= j
      <3>1. FreeIds(a) \in SUBSET (1 .. MaxRows)
        BY DEF FreeIds
      <3>2. id \in NewIds
        BY <3>1 DEF NewIds
      <3>3. new = [id |-> id, symbol |-> p.symbol, dir |-> p.dir, size |-> p.size]
        BY DEF NewRow
      <3> HIDE DEF id, new
      <3> QED
        BY <2>3, <3>2, <3>3 DEF RowTypes
    <2>5. RowKey(new) = <<p.symbol, p.dir>> /\ BrokerKey(p) = <<Local(p.symbol), p.dir>>
      BY <2>4 DEF RowKey, BrokerKey
    <2>6. OwnName(p) => \A r \in R : RowKey(r) # RowKey(new)
      BY <1>1, <1>6, <2>5 DEF Uncorrected, OwnName
    <2>7. RowsOnce(R \cup {new})
      <3> SUFFICES ASSUME NEW r \in R \cup {new}, NEW s \in R \cup {new}, RowKey(r) = RowKey(s),
                          Local(r.symbol) = r.symbol
                   PROVE  r = s
        BY DEF RowsOnce
      <3>1. r.symbol = s.symbol
        BY DEF RowKey
      <3>2. CASE r = new \/ s = new
        <4>1. OwnName(p) /\ \A x \in R : RowKey(x) # RowKey(new)
          BY <2>4, <2>6, <3>1, <3>2 DEF OwnName
        <4> HIDE DEF new, R
        <4>2. CASE r = new
          BY <4>1, <4>2
        <4>3. CASE s = new
          BY <4>1, <4>3
        <4> QED
          BY <3>2, <4>2, <4>3
      <3>3. CASE r \in R /\ s \in R
        BY <1>1, <3>3 DEF RowsOnce
      <3> QED
        BY <3>2, <3>3
    <2>8. Uncorrected(Rest(a, f), R \cup {new})
      <3> SUFFICES ASSUME NEW g \in todo \ {f}, g.type = "missing", OwnName(g.what)
                   PROVE  /\ \A r \in R \cup {new} : RowKey(r) # BrokerKey(g.what)
                          /\ \A h \in todo \ {f} :
                                 (h.type = "missing" /\ BrokerKey(h.what) = BrokerKey(g.what)) => h = g
        BY <1>3 DEF Uncorrected
      <3>1. /\ \A r \in R : RowKey(r) # BrokerKey(g.what)
            /\ \A h \in todo :
                   (h.type = "missing" /\ BrokerKey(h.what) = BrokerKey(g.what)) => h = g
        BY <1>1 DEF Uncorrected
      <3>2. RowKey(new) # BrokerKey(g.what)
        <4> SUFFICES ASSUME RowKey(new) = BrokerKey(g.what) PROVE FALSE
          OBVIOUS
        <4>1. BrokerKey(g.what) = <<g.what.symbol, g.what.dir>>
          BY DEF BrokerKey, OwnName
        <4>2. p.symbol = g.what.symbol /\ p.dir = g.what.dir
          <5>1. <<p.symbol, p.dir>> = <<g.what.symbol, g.what.dir>>
            <6> HIDE DEF p, new
            <6> QED
              BY <2>5, <4>1
          <5> QED
            BY <5>1
        <4>3. BrokerKey(p) = BrokerKey(g.what)
          BY <4>2 DEF BrokerKey
        <4> QED
          BY <1>6, <3>1, <4>3
      <3> QED
        BY <3>1, <3>2
    <2> QED
      BY <1>1, <2>1, <2>4, <2>7, <2>8
  <1> QED
    BY <1>5, <1>6

(* The switch is off when a correction goes on to be written. *)
LEMMA CheckSteps ==
    ASSUME IInv, NEW a \in Accounts, NEW f \in cycle[a].todo, CheckKill(a, f)
    PROVE  IInv'
  <1>1. /\ cycle[a].pc = "check"
        /\ IF kill THEN Step(a, Rest(a, f)) ELSE Step(a, [cycle[a] EXCEPT !.pc = "write"])
        /\ UNCHANGED <<configVars, marketVars, tableVars, kill, enabled, state, historyVars>>
    BY DEF CheckKill
  <1>2. /\ cycle[a] \in CycleTypes /\ state \in [Accounts -> StateTypes]
        /\ Uncorrected(cycle[a], rows[a]) /\ Corrigible(cycle[a])
    BY DEF IInv, WellTyped, RowInv
  <1>3. ConfigInv'
    BY <1>1, ConfigRests DEF IInv
  <1>4. CASE kill
    <2>1. /\ Rest(a, f) \in CycleTypes /\ Rest(a, f).pc \in {"report", "check"}
          /\ Rest(a, f).todo = cycle[a].todo \ {f}
          /\ Rest(a, f).critical <=> cycle[a].critical
      BY RestsLeft
    <2>2. Compared(Rest(a, f), rows[a]) /\ Uncorrected(Rest(a, f), rows[a]) /\ Corrigible(Rest(a, f))
      BY <1>1, <1>2, <2>1 DEF Compared, Uncorrected, Corrigible
    <2>3. Step(a, Rest(a, f))
      BY <1>1, <1>4
    <2> QED
      BY <1>1, <1>2, <1>3, <2>1, <2>2, <2>3, ReadingSteps
  <1>5. CASE ~kill
    <2> DEFINE d == [cycle[a] EXCEPT !.pc = "write"]
    <2>1. /\ d \in CycleTypes /\ d.pc = "write" /\ d.todo = cycle[a].todo
          /\ d.critical <=> cycle[a].critical
      BY <1>2, CycleRecords DEF Steps
    <2>2. Step(a, d)
      BY <1>1, <1>5
    <2> HIDE DEF d
    <2>3. Compared(d, rows[a]) /\ Uncorrected(d, rows[a]) /\ Corrigible(d)
      BY <1>1, <1>2, <2>1 DEF Compared, Uncorrected, Corrigible
    <2> QED
      BY <1>1, <1>2, <1>3, <1>5, <2>1, <2>2, <2>3, ReadingSteps
  <1> QED
    BY <1>4, <1>5

(* The write, whether or not it or its audit entry fails. *)
LEMMA WriteSteps ==
    ASSUME IInv, NEW a \in Accounts, NEW f \in cycle[a].todo, Write(a, f) \/ WriteFails(a, f)
    PROVE  IInv'
  <1>1. /\ cycle[a].pc = "write" /\ Step(a, Rest(a, f))
        /\ UNCHANGED <<configVars, marketVars, kill, enabled, state, drifted, sloppy>>
        /\ \/ rows' = rows /\ late' = late
           \/ /\ rows' = [rows EXCEPT ![a] = Corrected(a, f)]
              /\ late' = IF kill THEN [late EXCEPT ![a] = @ + 1] ELSE late
        /\ snapshot' \in {snapshot, [snapshot EXCEPT ![a] = cycle[a].balance]}
    BY DEF Write, WriteFails
  <1>2. /\ cycle[a] \in CycleTypes /\ state \in [Accounts -> StateTypes]
        /\ rows \in [Accounts -> SUBSET RowTypes] /\ snapshot \in [Accounts -> Amounts]
        /\ drifted \in [Accounts -> Nat] /\ late \in [Accounts -> Nat]
        /\ Uncorrected(cycle[a], rows[a]) /\ Corrigible(cycle[a]) /\ RowsOnce(rows[a])
        /\ late[a] \in Nat /\ late[a] <= 1 /\ (kill => late[a] = 0)
    BY <1>1 DEF IInv, WellTyped, RowInv, KillInv, Halted
  <1>3. /\ Rest(a, f) \in CycleTypes /\ Rest(a, f).pc \in {"report", "check"}
        /\ Rest(a, f).todo = cycle[a].todo \ {f}
        /\ Rest(a, f).critical <=> cycle[a].critical
    BY RestsLeft
  <1>4. snapshot' \in [Accounts -> Amounts]
    <2>1. cycle[a].balance \in Amounts
      BY <1>2 DEF CycleTypes
    <2> QED
      BY <1>1, <1>2, <2>1
  <1>5. PICK R \in SUBSET RowTypes : /\ rows' = [rows EXCEPT ![a] = R]
                                     /\ RowsOnce(R) /\ Uncorrected(Rest(a, f), R)
    <2>1. CASE rows' = rows
      <3>1. Uncorrected(Rest(a, f), rows[a])
        BY <1>1, <1>2, <1>3 DEF Uncorrected
      <3>2. rows[a] \in SUBSET RowTypes /\ rows' = [rows EXCEPT ![a] = rows[a]]
        BY <1>2, <2>1
      <3> QED
        BY <1>2, <3>1, <3>2
    <2>2. CASE rows' = [rows EXCEPT ![a] = Corrected(a, f)]
      BY <1>1, <2>2, CorrectedRows
    <2> QED
      BY <1>1, <2>1, <2>2
  <1>6. Compared(Rest(a, f), R) /\ Corrigible(Rest(a, f))
    BY <1>2, <1>3 DEF Compared, Corrigible
  <1>7. /\ late' \in [Accounts -> Nat] /\ \A b \in Accounts \ {a} : late'[b] = late[b]
        /\ late'[a] <= 1
    BY <1>1, <1>2
  <1>8. Halted(Rest(a, f), late'[a])
    BY <1>3, <1>7 DEF Halted
  <1>9. a \notin sloppy => state[a].count = drifted[a] /\ Persistent(Rest(a, f), drifted[a])
    BY <1>1, <1>3 DEF IInv, DriftInv, Persistent
  <1>10. ConfigInv'
    BY <1>1, ConfigRests DEF IInv
  <1>11. UNCHANGED <<state, drifted, sloppy>>
    BY <1>1
  <1> QED
    BY <1>1, <1>2, <1>3, <1>4, <1>5, <1>6, <1>7, <1>8, <1>9, <1>10, <1>11, CycleSteps

LEMMA NextIInv == IInv /\ [ReconciliationNext]_vars => IInv'
  <1> SUFFICES ASSUME IInv, [ReconciliationNext]_vars PROVE IInv'
    OBVIOUS
  <1>1. CASE StartJob
    BY <1>1, StartSteps
  <1>2. ASSUME NEW a \in Accounts, CycleStep(a) PROVE IInv'
    BY <1>2, FetchSteps, EndSteps, QuerySteps, CompareSteps, CheckSteps, WriteSteps DEF CycleStep
  <1>3. CASE \/ \E a \in Accounts : ConfigStep(ReadStep(a))
             \/ ConfigStep(UpdateStep)
             \/ \E s \in Scopes, to \in Configs : PutConfig(s, to)
    BY <1>3, ConfigSteps
  <1>4. CASE \/ \E a \in Accounts : BrokerChanges(a) \/ SnapshotTaken(a) \/ ToggleAccount(a)
             \/ ToggleKill
    BY <1>4, OutsideSteps
  <1>5. CASE UNCHANGED vars
    <2>1. UNCHANGED <<configVars, marketVars, tableVars, kill, enabled, state, cycle, historyVars>>
      BY <1>5 DEF vars
    <2> QED
      BY <2>1, AccountsRest, ConfigRests DEF IInv
  <1> QED
    BY <1>1, <1>2, <1>3, <1>4, <1>5 DEF ReconciliationNext

LEMMA Invariant == ReconciliationSpec => []IInv
  BY InitIInv, NextIInv, PTL DEF ReconciliationSpec

-----------------------------------------------------------------------------
(* When the kill switch goes on in the middle of cycles, each account gets at most the   *)
(* one correction that had been checked before: applyCorrection asks for the switch      *)
(* before each of them.                                                                  *)
THEOREM CorrectionsStop == ReconciliationSpec => []KillStopsCorrections
  <1>1. IInv => KillStopsCorrections
    BY DEF IInv, KillInv, Halted, KillStopsCorrections
  <1> QED
    BY <1>1, Invariant, PTL

(* correctMissingPosition never inserts a second row of a position whose local symbol is *)
(* the broker's: it is looked for under the key it was inserted with.                    *)
THEOREM PositionsHaveOneRow == ReconciliationSpec => []OneRowPerPosition
  <1>1. IInv => OneRowPerPosition
    BY DEF IInv, RowInv, RowsOnce, OneRowPerPosition
  <1> QED
    BY <1>1, Invariant, PTL

(* trackAndEscalateDiscrepancies calls a balance drift critical exactly when enough      *)
(* comparisons in a row have found it, as long as Redis counts them.                     *)
THEOREM DriftIsEscalated == ReconciliationSpec => []EscalatesOnPersistence
  <1>1. IInv => EscalatesOnPersistence
    BY DEF IInv, DriftInv, Persistent, EscalatesOnPersistence
  <1> QED
    BY <1>1, Invariant, PTL

(* getEffectiveConfig and updateAccountConfig: an account with a configuration row is    *)
(* never served a cached configuration other than it, when no update overlapped a read   *)
(* and no key failed to be deleted.                                                      *)
THEOREM CacheServesTheRow == ReconciliationSpec => []OwnRowIsServed
  <1>1. IInv => OwnRowIsServed
    BY DEF IInv, ConfigInv, CacheIsFresh, Saved, OwnRowIsServed
  <1> QED
    BY <1>1, Invariant, PTL
=============================================================================
