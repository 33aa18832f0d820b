------------------------------- MODULE Accounts -------------------------------
(***************************************************************************)
(* The trading accounts of a user: AccountsService in the backend, the     *)
(* AccountProvisioner of the execution engine and the accounts at MetaApi. *)
(* Every request awaits the database, Redis and the engine in turn, with   *)
(* no transaction around it, so that requests interleave and stop half     *)
(* way.  An account at MetaApi costs money and trades, with a row or not.  *)
(*                                                                         *)
(* An account is known by its number: a MetaApi account gets it there, an  *)
(* account with Deriv, which MetaApi does not know, with its row.  The     *)
(* strategies of an account are in account_strategies and, for its worker, *)
(* under a key of Redis.                                                   *)
(***************************************************************************)
EXTENDS Naturals, Sequences, FiniteSets

CONSTANTS Requests,        \* requests the backend serves at once
          Logins,          \* [name, provider], provider "metaapi" or "deriv"
          Assignable,      \* strategies
          AccountCalls,    \* bound: requests
          AccountFaults,   \* bound: calls that fail or whose answer is lost
          AccountRestarts  \* bound: deaths of the backend

VARIABLES acAccounts,   \* [login, state]: state at MetaApi, "absent" when there is none
          acRows,       \* trading_accounts
          acReferred,   \* rows that trades, positions or portfolio_snapshots refer to
          acAssigned,   \* account_strategies, by account
          acKey,        \* the keys account:strategies:<id>, by account
          acRequest,    \* what each request does next
          acCalls, acFaults, acRestarts,
          acLost,       \* history: accounts whose creation failed after MetaApi made them
          acStranded,   \* history: rows whose removal got to MetaApi and no further
          acUnsynced    \* history: accounts whose strategies last changed in an overlap or a failure

acRowVars == <<acRows, acReferred>>
acStrategyVars == <<acAssigned, acKey, acUnsynced>>
acBounds == <<acCalls, acRestarts>>
acVars == <<acAccounts, acRowVars, acStrategyVars, acRequest, acBounds, acFaults, acLost,
            acStranded>>

Numbers == 1..Len(acAccounts)
Provider(i) == acAccounts[i].login.provider

\* UQ (userId, mt5Login, mt5Server): Deriv accounts have neither login nor server.
Taken(login) == login.provider = "metaapi" /\ \E i \in acRows : acAccounts[i].login = login

AccountsInit ==
  /\ acAccounts = <<>> /\ acRows = {} /\ acReferred = {}
  /\ acAssigned = <<>> /\ acKey = <<>> /\ acUnsynced = {}
  /\ acRequest = [r \in Requests |-> <<>>]
  /\ acCalls = 0 /\ acFaults = 0 /\ acRestarts = 0 /\ acLost = {} /\ acStranded = {}

CallSucceeds == UNCHANGED acFaults
CallFails == acFaults < AccountFaults /\ acFaults' = acFaults + 1

\* A new account: its number is the next one, and it has no strategies.
NewAccount(login, state) ==
  /\ acAccounts' = Append(acAccounts, [login |-> login, state |-> state])
  /\ acAssigned' = Append(acAssigned, {}) /\ acKey' = Append(acKey, {})
  /\ UNCHANGED acUnsynced

BeginRequest(r, request) ==
  /\ acRequest[r] = <<>> /\ acCalls < AccountCalls
  /\ acCalls' = acCalls + 1
  /\ acRequest' = [acRequest EXCEPT ![r] = <<request>>]
  /\ UNCHANGED <<acAccounts, acRowVars, acAssigned, acKey, acFaults, acRestarts, acLost,
                 acStranded>>

RequestAt(r, step) == acRequest[r] # <<>> /\ acRequest[r][1].step = step
Subject(r) == acRequest[r][1].account
RequestTo(r, step, i) ==
  acRequest' = [acRequest EXCEPT ![r] = <<[@[1] EXCEPT !.step = step, !.account = i]>>]
EndRequest(r) == acRequest' = [acRequest EXCEPT ![r] = <<>>]

-----------------------------------------------------------------------------
(* create.  Whatever fails after create_account leaves the account at      *)
(* MetaApi: nothing removes it, and a repeated request makes another one.  *)

Create(r, login) ==
  /\ ~\E i \in acRows : acAccounts[i].login = login
  /\ BeginRequest(r, [step |-> IF login.provider = "deriv" THEN "save" ELSE "provision",
               login |-> login, account |-> 0])
  /\ UNCHANGED acUnsynced

\* provision: create_account
Provision(r) ==
  /\ RequestAt(r, "provision")
  /\ \/ CallSucceeds /\ NewAccount(acRequest[r][1].login, "created")
                 /\ RequestTo(r, "deploy new", Len(acAccounts) + 1)
     \/ CallFails /\ EndRequest(r) /\ UNCHANGED <<acAccounts, acStrategyVars>>
  /\ UNCHANGED <<acRowVars, acBounds, acLost, acStranded>>

\* provision: deploy and wait_deployed
DeployNew(r) ==
  /\ RequestAt(r, "deploy new")
  /\ \/ /\ CallSucceeds /\ RequestTo(r, "save", Subject(r)) /\ UNCHANGED acLost
        /\ acAccounts' = [acAccounts EXCEPT ![Subject(r)].state = "deployed"]
     \/ /\ CallFails /\ EndRequest(r) /\ acLost' = acLost \union {Subject(r)}
        /\ UNCHANGED acAccounts
  /\ UNCHANGED <<acRowVars, acStrategyVars, acBounds, acStranded>>

\* The row; what follows it (instruments, symbols, backfill) may fail and leaves it.
SaveRow(r) ==
  LET login == acRequest[r][1].login
      i == IF login.provider = "deriv" THEN Len(acAccounts) + 1 ELSE Subject(r)
  IN  /\ RequestAt(r, "save") /\ EndRequest(r)
      /\ \/ /\ ~Taken(login) /\ (CallSucceeds \/ CallFails) /\ UNCHANGED acLost
            /\ acRows' = acRows \union {i}
            /\ IF login.provider = "deriv" THEN NewAccount(login, "absent")
               ELSE UNCHANGED <<acAccounts, acStrategyVars>>
         \/ /\ (Taken(login) /\ CallSucceeds) \/ CallFails
            /\ acLost' = acLost \union (IF login.provider = "deriv" THEN {} ELSE {i})
            /\ UNCHANGED <<acRows, acAccounts, acStrategyVars>>
      /\ UNCHANGED <<acReferred, acBounds, acStranded>>

-----------------------------------------------------------------------------
(* remove, deploy, undeploy and the updates of a row.                      *)

Ask(r, step, i) ==
  /\ i \in acRows
  /\ BeginRequest(r, [step |-> step, account |-> i, login |-> acAccounts[i].login])
  /\ UNCHANGED acUnsynced

RemoveAccount(r, i) == Ask(r, "remove", i)
Deploy(r, i) == Ask(r, "deploy", i)
Undeploy(r, i) == Ask(r, "undeploy", i)
UpdateRow(r, i) == Ask(r, "update", i)

Absent(i) == acAccounts[i].state = "absent"
InState(i, state) == acAccounts' = [acAccounts EXCEPT ![i].state = state]

\* Fault: whatever the engine answers, the removal goes on.
RemoveWhateverAnswer(r) ==
  LET i == Subject(r)
  IN  /\ RequestAt(r, "remove") /\ RequestTo(r, "nullify", i)
      /\ \/ CallSucceeds /\ InState(i, "absent")
         \/ CallFails /\ UNCHANGED acAccounts
      /\ UNCHANGED <<acRowVars, acStrategyVars, acBounds, acLost, acStranded>>

\* The engine undeploys and deletes the account; one MetaApi does not know is deleted already.
RemoveRemote(r) ==
  LET i == Subject(r)
  IN  /\ RequestAt(r, "remove")
      /\ \/ CallSucceeds /\ RequestTo(r, "nullify", i) /\ InState(i, "absent") /\ UNCHANGED acStranded
         \/ /\ CallFails /\ EndRequest(r)
            /\ \/ UNCHANGED <<acAccounts, acStranded>>
               \/ ~Absent(i) /\ InState(i, "undeployed") /\ UNCHANGED acStranded
               \/ InState(i, "absent") /\ acStranded' = acStranded \union {i}
      /\ UNCHANGED <<acRowVars, acStrategyVars, acBounds, acLost>>

\* The statements that clear what refers to the row
Nullify(r) ==
  /\ RequestAt(r, "nullify")
  /\ \/ /\ CallSucceeds /\ RequestTo(r, "delete", Subject(r)) /\ UNCHANGED acStranded
        /\ acReferred' = acReferred \ {Subject(r)}
     \/ /\ CallFails /\ EndRequest(r) /\ acStranded' = acStranded \union {Subject(r)}
        /\ UNCHANGED acReferred
  /\ UNCHANGED <<acAccounts, acRows, acStrategyVars, acBounds, acLost>>

\* A row that something refers to again stays (foreign keys without an action).
DeleteRow(r) ==
  LET i == Subject(r)
  IN  /\ RequestAt(r, "delete") /\ EndRequest(r)
      /\ \/ /\ i \notin acReferred /\ (CallSucceeds \/ CallFails) /\ UNCHANGED acStranded
            /\ acRows' = acRows \ {i} /\ acAssigned' = [acAssigned EXCEPT ![i] = {}]
         \/ /\ (i \in acReferred /\ CallSucceeds) \/ CallFails
            /\ acStranded' = acStranded \union {i}
            /\ UNCHANGED <<acRows, acAssigned>>
      /\ UNCHANGED <<acAccounts, acReferred, acKey, acUnsynced, acBounds, acLost>>

\* An account MetaApi does not know is an error.
DeployRemote(r, state) ==
  /\ RequestAt(r, IF state = "deployed" THEN "deploy" ELSE "undeploy") /\ EndRequest(r)
  /\ CallSucceeds \/ CallFails
  /\ IF Absent(Subject(r)) THEN UNCHANGED acAccounts
     ELSE InState(Subject(r), state) \/ (acFaults' # acFaults /\ UNCHANGED acAccounts)
  /\ UNCHANGED <<acRowVars, acStrategyVars, acBounds, acLost, acStranded>>

DeployAccount(r) == DeployRemote(r, "deployed")
UndeployAccount(r) == DeployRemote(r, "undeployed")

\* updateLabel and updateDerivToken save the row they read: when it was removed in between,
\* the save inserts it again.
SaveUpdate(r) ==
  LET i == Subject(r)
  IN  /\ RequestAt(r, "update") /\ EndRequest(r) /\ CallSucceeds
      /\ IF i \in acRows \/ Taken(acAccounts[i].login)
         THEN UNCHANGED <<acRows, acStranded, acUnsynced>>
         ELSE /\ acRows' = acRows \union {i}
              /\ acStranded' = acStranded \union {i}
              /\ acUnsynced' = acUnsynced \union {i}
      /\ UNCHANGED <<acAccounts, acReferred, acAssigned, acKey, acBounds, acLost>>

\* A worker or syncAccounts writes a row that refers to the account.
Refer(i) ==
  /\ i \in acRows \ acReferred /\ acReferred' = acReferred \union {i}
  /\ UNCHANGED <<acAccounts, acRows, acStrategyVars, acRequest, acBounds, acFaults, acLost,
                 acStranded>>

-----------------------------------------------------------------------------
(* setAccountStrategies, which overlaps with another one of the account    *)
(* when both have begun and neither has ended.                             *)

StrategySteps == {"clear", "insert", "key"}
Setting(r, i) == \E step \in StrategySteps : RequestAt(r, step) /\ Subject(r) = i

SetStrategies(r, i, strategies) ==
  /\ i \in acRows
  /\ BeginRequest(r, [step |-> "clear", account |-> i, strategies |-> strategies])
  /\ acUnsynced' = IF \E q \in Requests : Setting(q, i) THEN acUnsynced \union {i}
                   ELSE acUnsynced \ {i}

\* A failure ends the request, but for that of Redis at its end anyway.
Disturbed(r) == CallFails /\ EndRequest(r) /\ acUnsynced' = acUnsynced \union {Subject(r)}

ClearStrategies(r) ==
  LET i == Subject(r)
  IN  /\ RequestAt(r, "clear")
      /\ \/ /\ CallSucceeds /\ acAssigned' = [acAssigned EXCEPT ![i] = {}] /\ UNCHANGED acUnsynced
            /\ RequestTo(r, IF acRequest[r][1].strategies = {} THEN "key" ELSE "insert", i)
         \/ Disturbed(r) /\ UNCHANGED acAssigned
      /\ UNCHANGED <<acAccounts, acRowVars, acKey, acBounds, acLost, acStranded>>

\* One transaction; UQ (account, strategy), and a row to refer to.
InsertStrategies(r) ==
  LET i == Subject(r)
      wanted == acRequest[r][1].strategies
      possible == i \in acRows /\ acAssigned[i] \intersect wanted = {}
  IN  /\ RequestAt(r, "insert")
      /\ \/ /\ possible /\ CallSucceeds /\ RequestTo(r, "key", i) /\ UNCHANGED acUnsynced
            /\ acAssigned' = [acAssigned EXCEPT ![i] = @ \union wanted]
         \/ /\ ~possible /\ CallSucceeds /\ EndRequest(r) /\ UNCHANGED acAssigned
            /\ acUnsynced' = acUnsynced \union {i}
         \/ Disturbed(r) /\ UNCHANGED acAssigned
      /\ UNCHANGED <<acAccounts, acRowVars, acKey, acBounds, acLost, acStranded>>

SetKey(r) ==
  LET i == Subject(r)
  IN  /\ RequestAt(r, "key")
      /\ \/ /\ CallSucceeds /\ EndRequest(r) /\ UNCHANGED acUnsynced
            /\ acKey' = [acKey EXCEPT ![i] = acRequest[r][1].strategies]
         \/ Disturbed(r) /\ UNCHANGED acKey
      /\ UNCHANGED <<acAccounts, acRowVars, acAssigned, acBounds, acLost, acStranded>>

-----------------------------------------------------------------------------
\* The backend dies and starts again, which sets the key of each account that has
\* strategies: the key of one that has none stays what it was.
SubjectsAt(steps) == {Subject(r) : r \in {q \in Requests : \E step \in steps : RequestAt(q, step)}}
BackendRestarts ==
  LET synced == {i \in Numbers : acAssigned[i] # {}}
  IN  /\ acRestarts < AccountRestarts /\ acRestarts' = acRestarts + 1
      /\ acRequest' = [r \in Requests |-> <<>>]
      /\ acLost' = acLost \union (SubjectsAt({"deploy new", "save"}) \ {0})
      /\ acStranded' = acStranded \union SubjectsAt({"nullify", "delete"})
      /\ \/ /\ CallSucceeds
            /\ acKey' = [i \in Numbers |-> IF i \in synced THEN acAssigned[i] ELSE acKey[i]]
            /\ acUnsynced' = (acUnsynced \union SubjectsAt(StrategySteps)) \ synced
         \/ /\ CallFails /\ UNCHANGED acKey
            /\ acUnsynced' = acUnsynced \union SubjectsAt(StrategySteps)
      /\ UNCHANGED <<acAccounts, acRowVars, acAssigned, acCalls>>

AccountsNext ==
  \/ \E r \in Requests :
       \/ \E login \in Logins : Create(r, login)
       \/ Provision(r) \/ DeployNew(r) \/ SaveRow(r)
       \/ \E i \in acRows : RemoveAccount(r, i) \/ Deploy(r, i) \/ Undeploy(r, i) \/ UpdateRow(r, i)
       \/ RemoveRemote(r) \/ Nullify(r) \/ DeleteRow(r) \/ SaveUpdate(r)
       \/ DeployAccount(r) \/ UndeployAccount(r)
       \/ \E i \in acRows, strategies \in SUBSET Assignable : SetStrategies(r, i, strategies)
       \/ ClearStrategies(r) \/ InsertStrategies(r) \/ SetKey(r)
  \/ \E i \in acRows : Refer(i)
  \/ BackendRestarts

AccountsSpec == AccountsInit /\ [][AccountsNext]_acVars

-----------------------------------------------------------------------------
(* Properties.                                                             *)

\* An account at MetaApi has a row, is being created, or its creation failed.
NoStrayAccount ==
  \A i \in Numbers :
    ~Absent(i) => i \in acRows \union acLost \union SubjectsAt({"deploy new", "save"})

\* A row has its account at MetaApi, unless a removal is under way, or got no further, or an
\* update brought the row back.
NoStrayRow ==
  \A i \in acRows :
    (Provider(i) = "metaapi" /\ Absent(i))
      => i \in acStranded \union SubjectsAt({"nullify", "delete"})

\* "Sync to Redis for execution engine fast reads" (setAccountStrategies): the key an account's
\* worker reads says what the table says, unless the last change of the account's strategies
\* overlapped with another one or failed.
StrategiesFollow ==
  \A i \in acRows \ acUnsynced :
    i \notin SubjectsAt(StrategySteps) => acKey[i] = acAssigned[i]

\* AccountsService keeps its rows, the accounts at MetaApi and the keys in step through requests
\* that interleave, fail or are cut short.
AccountsAreKept == NoStrayAccount /\ NoStrayRow /\ StrategiesFollow
=============================================================================
