--------------------------- MODULE Reconciliation ---------------------------
(***************************************************************************)
(* Position reconciliation of the backend: ReconciliationWorker runs       *)
(* ReconciliationService.reconcileAccount for the active accounts of a     *)
(* batch side by side.  An account's cycle takes the state of the broker,  *)
(* reads the local rows, loads its configuration, compares                 *)
(* (StateComparator), counts and escalates, corrects one discrepancy after *)
(* another (AutoCorrectionService) and records the result in Redis.  The   *)
(* broker, the kill switch and the accounts change meanwhile.              *)
(***************************************************************************)
EXTENDS ReconciliationConfig

CONSTANTS Positions,    \* positions that may be opened: their broker symbol, direction and
                        \* size; sizes differ by more than the threshold
          LocalName,    \* LocalName[s]: the local symbol account_instruments maps s to
          Balances,     \* balances that differ by more than the threshold
          EscalationCycleCount,
          MaxOpen,      \* bound: positions open at the broker
          MaxRows,      \* bound: rows of the positions table
          MaxChanges    \* bound: changes at the broker, of the kill switch, of accounts

ASSUME CorrectionsAssumption == Corrections = {"phantom", "missing", "balance"}
ASSUME PositionsAssumption == Positions \subseteq [symbol : DOMAIN LocalName, dir : {"buy", "sell"}, size : Nat]
ASSUME CountAssumption == EscalationCycleCount \in Nat \ {0}

VARIABLES
    broker,    \* positions open at the broker
    balance,   \* the balance at the broker
    rows,      \* rows of the positions table
    snapshot,  \* the balance of the latest portfolio snapshot
    kill,      \* KillSwitch.isActive in PostgreSQL
    enabled,   \* TradingAccount.isActive
    state,     \* the Redis hash reconciliation:state:<account>
    cycle,     \* reconcileAccount of each account
    worker,    \* the job of the queue: accounts of the batch still to finish
    changes,   \* changes of the environment so far
    drifted,   \* history: comparisons in a row that found a balance drift
    sloppy,    \* history: accounts with a count that Redis failed to write
    late       \* history: corrections written since the kill switch went on

marketVars == <<broker, balance>>
tableVars == <<rows, snapshot>>
historyVars == <<drifted, sloppy, late>>
vars == <<configVars, faults, marketVars, tableVars, kill, enabled, state, cycle, worker,
          changes, historyVars>>

NoState == [status |-> "none", failures |-> 0, count |-> 0]
NoCycle == [pc |-> "idle", held |-> {}, local |-> {}, balance |-> 0, snapshot |-> 0,
            stopped |-> FALSE, todo |-> {}, found |-> FALSE, critical |-> FALSE]

ReconciliationInit ==
    /\ ConfigInit
    /\ broker = [a \in Accounts |-> {}] /\ balance = [a \in Accounts |-> 0]
    /\ rows = [a \in Accounts |-> {}] /\ snapshot = [a \in Accounts |-> 0]
    /\ kill = FALSE /\ enabled = Accounts
    /\ state = [a \in Accounts |-> NoState]
    /\ cycle = [a \in Accounts |-> NoCycle]
    /\ worker = {} /\ changes = 0
    /\ drifted = [a \in Accounts |-> 0] /\ sloppy = {} /\ late = [a \in Accounts |-> 0]

-----------------------------------------------------------------------------
\* The environment.

Changes == /\ changes < MaxChanges
           /\ changes' = changes + 1

\* Positions are opened and closed at the broker, and the balance moves.
BrokerChanges(a) ==
    /\ Changes
    /\ \/ \E p \in Positions : /\ p \notin broker[a] /\ Cardinality(broker[a]) < MaxOpen
                               /\ broker' = [broker EXCEPT ![a] = @ \cup {p}]
                               /\ UNCHANGED balance
       \/ \E p \in broker[a] : /\ broker' = [broker EXCEPT ![a] = @ \ {p}]
                               /\ UNCHANGED balance
       \/ \E b \in Balances \ {balance[a]} : /\ balance' = [balance EXCEPT ![a] = b]
                                             /\ UNCHANGED broker
    /\ UNCHANGED <<configVars, faults, tableVars, kill, enabled, state, cycle, worker,
                   historyVars>>

\* PortfoliosService takes its own snapshot of the account.
SnapshotTaken(a) ==
    /\ snapshot[a] # balance[a]
    /\ snapshot' = [snapshot EXCEPT ![a] = balance[a]]
    /\ UNCHANGED <<configVars, faults, marketVars, rows, kill, enabled, state, cycle, worker,
                   changes, historyVars>>

ToggleKill ==
    /\ Changes
    /\ kill' = ~kill
    /\ late' = [a \in Accounts |-> 0]
    /\ UNCHANGED <<configVars, faults, marketVars, tableVars, enabled, state, cycle, worker,
                   drifted, sloppy>>

ToggleAccount(a) ==
    /\ Changes
    /\ enabled' = IF a \in enabled THEN enabled \ {a} ELSE enabled \cup {a}
    /\ UNCHANGED <<configVars, faults, marketVars, tableVars, kill, state, cycle, worker,
                   historyVars>>

PutConfig(scope, to) ==
    /\ FindRow(scope, to)
    /\ UNCHANGED <<marketVars, tableVars, kill, enabled, state, cycle, worker, changes,
                   historyVars>>

-----------------------------------------------------------------------------
\* StateComparator: positions are compared by local symbol and direction.

Local(s) == LocalName[s]
BrokerKey(p) == <<Local(p.symbol), p.dir>>
RowKey(r) == <<r.symbol, r.dir>>

\* Building a map by key keeps one entry of each key, the last in an order of no
\* meaning: the sets that may be left.
OnePerKey(S, Key(_)) == {R \in SUBSET S : \A x \in S : \E y \in R :
                            /\ Key(y) = Key(x)
                            /\ \A z \in R : Key(z) = Key(y) => z = y}

\* Fault: a row only matches a position of its size.
MissingBySize(held, local) ==
    {p \in held : \A r \in local : RowKey(r) # BrokerKey(p) \/ r.size # p.size}

Missing(held, local) == {p \in held : \A r \in local : RowKey(r) # BrokerKey(p)}
\* Fault: a row is matched by symbol, whatever its direction.
PhantomBySymbol(held, local) == {r \in local : \A p \in held : r.symbol # Local(p.symbol)}

Phantom(held, local) == {r \in local : \A p \in held : RowKey(r) # BrokerKey(p)}
SizeMismatch(held, local) ==
    \E p \in held, r \in local : RowKey(r) = BrokerKey(p) /\ r.size # p.size

\* A symbol held only in the other direction, where neither side is matched.
DirectionMismatch(held, local) ==
    \E r \in Phantom(held, local), p \in Missing(held, local) : r.symbol = Local(p.symbol)

\* What the comparison of a cycle finds, and its corrections in the order they are tried.
Findings(held, local, drift) ==
    {[type |-> "missing", what |-> p] : p \in Missing(held, local)}
    \cup {[type |-> "phantom", what |-> r] : r \in Phantom(held, local)}
    \cup (IF drift THEN {[type |-> "balance", what |-> 0]} ELSE {})

Types(held, local, drift) ==
    {f.type : f \in Findings(held, local, drift)}
    \cup (IF SizeMismatch(held, local) THEN {"size"} ELSE {})
    \cup (IF DirectionMismatch(held, local) THEN {"direction"} ELSE {})

Rank(f) == CASE f.type = "missing" -> 1 [] f.type = "phantom" -> 2 [] OTHER -> 3

-----------------------------------------------------------------------------
\* ReconciliationWorker.processReconciliationCycle: the accounts are read once, the
\* Redis state of inactive ones is deleted, the active ones are taken side by side.

Step(a, c) == cycle' = [cycle EXCEPT ![a] = c]
Ends(a) == /\ Step(a, NoCycle)
           /\ reader' = [reader EXCEPT ![a] = NoRead]
           /\ worker' = worker \ {a}

\* Deactivated accounts whose state is deleted; a failed deletion is logged.
Cleaned == Accounts \ enabled

StartJob ==
    /\ worker = {}
    /\ \E failing \in {{}} \cup {{a} : a \in Cleaned} :
         LET gone == Cleaned \ failing
         IN  /\ IF failing = {} THEN UNCHANGED faults ELSE Fault
             /\ state' = [a \in Accounts |-> IF a \in gone THEN NoState ELSE state[a]]
             /\ drifted' = [a \in Accounts |-> IF a \in gone THEN 0 ELSE drifted[a]]
             /\ sloppy' = sloppy \ gone
    /\ worker' = enabled
    /\ cycle' = [a \in Accounts |-> IF a \in enabled THEN [NoCycle EXCEPT !.pc = "fetch"]
                                     ELSE NoCycle]
    /\ UNCHANGED <<configVars, marketVars, tableVars, kill, enabled, changes, late>>

\* fetchBrokerPositions and fetchBrokerAccountInfo.
Fetch(a) ==
    /\ cycle[a].pc = "fetch"
    /\ \E held \in OnePerKey(broker[a], BrokerKey) :
         Step(a, [cycle[a] EXCEPT !.pc = "query", !.held = held, !.balance = balance[a]])
    /\ UNCHANGED <<configVars, faults, marketVars, tableVars, kill, enabled, state, worker,
                   changes, historyVars>>

\* incrementConsecutiveFailures, unless Redis fails as well.
Failed(a) == state' \in {state, [state EXCEPT ![a].status = "error", ![a].failures = @ + 1]}

Unreachable(a) ==
    /\ cycle[a].pc = "fetch"
    /\ Fault
    /\ Failed(a)
    /\ Ends(a)
    /\ UNCHANGED <<cfgRow, cache, updater, updates, overlap, marketVars, tableVars, kill,
                   enabled, changes, historyVars>>

\* The local rows, the snapshot and the kill switch; then the configuration is asked for.
Query(a) ==
    /\ cycle[a].pc = "query"
    /\ \E local \in OnePerKey(rows[a], RowKey) :
         Step(a, [cycle[a] EXCEPT !.pc = "compare", !.local = local, !.snapshot = snapshot[a],
                                  !.stopped = kill])
    /\ reader' = [reader EXCEPT ![a].pc = "get"]
    /\ UNCHANGED <<cfgRow, cache, updater, updates, overlap, faults, marketVars, tableVars, kill,
                   enabled, state, worker, changes, historyVars>>

Capped(n) == IF n > EscalationCycleCount THEN EscalationCycleCount ELSE n

\* Fault: the counter is not reset when the drift is gone.
CountedForGood(a, drift) == IF drift THEN Capped(state[a].count + 1) ELSE state[a].count

\* trackAndEscalateDiscrepancies for the one type that starts as a warning: the
\* counter of the type, increased while the type is found and reset when it is not.
Counted(a, drift) == IF drift THEN Capped(state[a].count + 1) ELSE 0

\* The corrections the configuration asks for, none when the switch was seen on.
Wanted(c, drift, corrected) ==
    IF c.stopped THEN {} ELSE {f \in Findings(c.held, c.local, drift) : f.type \in corrected}

Compare(a) ==
    /\ cycle[a].pc = "compare" /\ reader[a].pc = "done"
    /\ LET c == cycle[a]
           drift == c.balance # c.snapshot
           todo == Wanted(c, drift, reader[a].value)
           Goes(count) == Step(a, [NoCycle EXCEPT !.pc = IF todo = {} THEN "report" ELSE "check",
                                                  !.todo = todo,
                                                  !.balance = IF drift /\ todo # {} THEN c.balance ELSE 0,
                                                  !.found = Types(c.held, c.local, drift) # {},
                                                  !.critical = drift /\ count >= EscalationCycleCount])
       IN  /\ \/ /\ state' = [state EXCEPT ![a].count = Counted(a, drift)]
                 /\ Goes(Counted(a, drift))
                 /\ UNCHANGED <<faults, sloppy>>
              \/ /\ Fault
                 /\ Goes(state[a].count)
                 /\ sloppy' = sloppy \cup {a}
                 /\ UNCHANGED state
           /\ drifted' = [drifted EXCEPT ![a] = IF drift THEN Capped(@ + 1) ELSE 0]
    /\ reader' = [reader EXCEPT ![a] = NoRead]
    /\ UNCHANGED <<cfgRow, cache, updater, updates, overlap, marketVars, tableVars, kill, enabled, worker, changes, late>>

-----------------------------------------------------------------------------
\* AutoCorrectionService: every correction asks for the kill switch again, then
\* writes, then audits.

IsNext(a, f) == f \in cycle[a].todo /\ \A g \in cycle[a].todo : Rank(f) <= Rank(g)
Rest(a, f) == LET todo == cycle[a].todo \ {f}
              IN  [cycle[a] EXCEPT !.todo = todo, !.pc = IF todo = {} THEN "report" ELSE "check"]

\* Fault: the kill switch read at the start of the cycle decides.
CheckKillOfStart(a, f) ==
    /\ cycle[a].pc = "check" /\ IsNext(a, f)
    /\ Step(a, [cycle[a] EXCEPT !.pc = "write"])
    /\ UNCHANGED <<configVars, faults, marketVars, tableVars, kill, enabled, state, worker,
                   changes, historyVars>>

\* With the switch on the correction is skipped and counted as failed.
CheckKill(a, f) ==
    /\ cycle[a].pc = "check" /\ IsNext(a, f)
    /\ IF kill THEN Step(a, Rest(a, f)) ELSE Step(a, [cycle[a] EXCEPT !.pc = "write"])
    /\ UNCHANGED <<configVars, faults, marketVars, tableVars, kill, enabled, state, worker,
                   changes, historyVars>>

FreeIds(a) == {i \in 1 .. MaxRows : \A r \in rows[a] : r.id # i}

\* correctMissingPosition saves the symbol of the broker, not the local one.
NewRow(a, p) == [id |-> CHOOSE i \in FreeIds(a) : \A j \in FreeIds(a) : i <= j,
                 symbol |-> p.symbol, dir |-> p.dir, size |-> p.size]

Corrected(a, f) ==
    CASE f.type = "missing" -> IF FreeIds(a) = {} THEN rows[a] ELSE rows[a] \cup {NewRow(a, f.what)}
      [] f.type = "phantom" -> rows[a] \ {f.what}
      [] OTHER -> rows[a]

Write(a, f) ==
    /\ cycle[a].pc = "write" /\ IsNext(a, f)
    /\ rows' = [rows EXCEPT ![a] = Corrected(a, f)]
    /\ snapshot' = IF f.type = "balance" THEN [snapshot EXCEPT ![a] = cycle[a].balance] ELSE snapshot
    /\ late' = IF kill THEN [late EXCEPT ![a] = @ + 1] ELSE late
    /\ Step(a, Rest(a, f))
    /\ UNCHANGED <<configVars, faults, marketVars, kill, enabled, state, worker, changes,
                   drifted, sloppy>>

\* The write or the audit entry after it raises; the next correction goes on.
WriteFails(a, f) ==
    /\ cycle[a].pc = "write" /\ IsNext(a, f)
    /\ Fault
    /\ \/ rows' = rows /\ late' = late
       \/ rows' = [rows EXCEPT ![a] = Corrected(a, f)]
          /\ late' = IF kill THEN [late EXCEPT ![a] = @ + 1] ELSE late
    /\ Step(a, Rest(a, f))
    /\ UNCHANGED <<configVars, marketVars, snapshot, kill, enabled, state, worker, changes,
                   drifted, sloppy>>

\* persistReport, the alerts and updateRedisState; when the report cannot be saved
\* the cycle is counted as failed, when Redis fails the old state stays.
Report(a) ==
    /\ cycle[a].pc = "report"
    /\ \/ /\ state' = [state EXCEPT ![a].failures = 0, ![a].status =
                             IF cycle[a].found THEN "discrepancies_found" ELSE "clean"]
          /\ UNCHANGED faults
       \/ Fault /\ Failed(a)
    /\ Ends(a)
    /\ UNCHANGED <<cfgRow, cache, updater, updates, overlap, marketVars, tableVars, kill,
                   enabled, changes, historyVars>>

ConfigStep(step) ==
    /\ step
    /\ UNCHANGED <<marketVars, tableVars, kill, enabled, state, cycle, worker, changes,
                   historyVars>>

CycleStep(a) == \/ Fetch(a) \/ Unreachable(a) \/ Query(a) \/ Compare(a) \/ Report(a)
                \/ \E f \in cycle[a].todo : CheckKill(a, f) \/ Write(a, f) \/ WriteFails(a, f)

ReconciliationNext ==
    \/ StartJob
    \/ \E a \in Accounts : CycleStep(a) \/ ConfigStep(ReadStep(a))
    \/ ConfigStep(UpdateStep)
    \/ \E s \in Scopes, to \in Configs : PutConfig(s, to)
    \/ \E a \in Accounts : BrokerChanges(a) \/ SnapshotTaken(a) \/ ToggleAccount(a)
    \/ ToggleKill

\* The queue runs the repeatable job again and again, a cycle's awaits return
\* (requests have timeouts), and an update finishes.
ReconciliationSpec ==
    /\ ReconciliationInit /\ [][ReconciliationNext]_vars
    /\ WF_vars(StartJob)
    /\ \A a \in Accounts : WF_vars(CycleStep(a)) /\ WF_vars(ConfigStep(ReadStep(a)))
    /\ WF_vars(ConfigStep(UpdateStep))

-----------------------------------------------------------------------------
\* Once the kill switch is on, an account gets at most the one correction whose check
\* came before the activation: every correction asks again.
KillStopsCorrections == \A a \in Accounts : late[a] <= 1

\* A position of the broker under a symbol of its own name has one row, however often
\* cycles, failures and changes at the broker interleave.
OneRowPerPosition ==
    \A a \in Accounts : \A r, s \in rows[a] :
        (RowKey(r) = RowKey(s) /\ Local(r.symbol) = r.symbol) => r = s

\* A balance drift is critical exactly when the last EscalationCycleCount comparisons
\* of the account all found it, unless Redis failed to count one of them.
EscalatesOnPersistence ==
    \A a \in Accounts : (cycle[a].pc \in {"check", "write", "report"} /\ a \notin sloppy)
        => (cycle[a].critical <=> drifted[a] >= EscalationCycleCount)

\* With the corrections on, the kill switch off and the broker at rest, the rows of an
\* account come to be the positions the broker holds, key by key.
RowsFollowBroker ==
    \A a \in Accounts :
        <>[](a \in enabled /\ ~kill /\ cache[a] # None /\ {"phantom", "missing"} \subseteq cache[a])
            => <>[]({RowKey(r) : r \in rows[a]} = {BrokerKey(p) : p \in broker[a]})

===============================================================================
