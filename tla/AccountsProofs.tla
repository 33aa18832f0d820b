---------------------------- MODULE AccountsProofs ----------------------------
(***************************************************************************)
(* The accounts of the backend and the connections of the engine, for any  *)
(* number of requests, logins, strategies and calls.                       *)
(*                                                                         *)
(* AccountsStayKept: AccountsAreKept is inductive together with what each  *)
(* request knows of its account.  A new account is no other request's and  *)
(* has no row yet, a removal goes on only when MetaApi has none any more   *)
(* (RequestsInv), and a request for strategies that nobody overlaps finds  *)
(* the table as it left it (StrategyInv).  A step touches one request and  *)
(* one account; StepKeeps reduces the rest to what becomes of these two.   *)
(*                                                                         *)
(* CacheStaysFit: ConnectionsAreKept is inductive once a call nobody       *)
(* overlapped still finds the cache as it left it: empty of anything       *)
(* usable while it connects, and with its own connection, or nothing,      *)
(* while it asks (Alone); and whatever is cached while the account leaves  *)
(* is recorded as late (LateIsKnown).                                      *)
(***************************************************************************)
EXTENDS Accounts, Connections, SequenceTheorems, TLAPS

-----------------------------------------------------------------------------
(* What a request is about: where it is, whether it is a creation at MetaApi, and the      *)
(* strategies it sets.                                                                     *)

StepOf(r) == IF acRequest[r] = <<>> THEN "rest" ELSE acRequest[r][1].step
Made(r) == acRequest[r][1].login.provider # "deriv"
StrategiesOf(r) == acRequest[r][1].strategies

CreateSteps == {"provision", "deploy new", "save"}
RowSteps == {"remove", "nullify", "delete", "deploy", "undeploy", "update"}
RequestTypes == [step : CreateSteps \cup RowSteps, login : Logins, account : Nat]
                \cup [step : StrategySteps, account : Nat, strategies : SUBSET Assignable]
AccountRecords == [login : Logins, state : {"absent", "created", "deployed", "undeployed"}]

AccountsTyped ==
    /\ acRequest \in [Requests -> {<<>>} \cup {<<q>> : q \in RequestTypes}]
    /\ acAccounts \in Seq(AccountRecords) /\ acRows \subseteq Numbers
    /\ acAssigned \in Seq(SUBSET Assignable) /\ acKey \in Seq(SUBSET Assignable)
    /\ Len(acAssigned) = Len(acAccounts) /\ Len(acKey) = Len(acAccounts)

\* The creation of an account at MetaApi between create_account and the row.
Pending(r) == StepOf(r) = "deploy new" \/ (StepOf(r) = "save" /\ Made(r))

\* No other request knows a new account, and a removal goes on when MetaApi has none any more.
RequestsInv ==
    \A r \in Requests : \A i : Subject(r) = i =>
        /\ Pending(r) => /\ i \in Numbers \ acRows /\ acKey[i] = acAssigned[i]
                         /\ \A q \in Requests :
                                (StepOf(q) \notin {"rest", "provision"} /\ Subject(q) = i) => q = r
        /\ StepOf(r) \in {"provision", "deploy new"} => Made(r)
        /\ StepOf(r) = "save" => IF Made(r) THEN ~Absent(i) ELSE i = 0
        /\ StepOf(r) \in RowSteps \cup StrategySteps => i \in Numbers
        /\ StepOf(r) \in {"nullify", "delete"} => Absent(i)

\* A request that nobody overlaps finds the table as it left it.
StrategyInv ==
    \A r \in Requests :
        (StepOf(r) \in StrategySteps /\ Subject(r) \in acRows \ acUnsynced) =>
            /\ \A q \in Requests : (StepOf(q) \in StrategySteps /\ Subject(q) = Subject(r)) => q = r
            /\ StepOf(r) = "insert" => acAssigned[Subject(r)] = {}
            /\ StepOf(r) = "key" => acAssigned[Subject(r)] = StrategiesOf(r)

\* AccountsAreKept, in these words.
StrayAccounts ==
    \A i \in Numbers : ~Absent(i) =>
        \/ i \in acRows \cup acLost
        \/ \E r \in Requests : StepOf(r) \in {"deploy new", "save"} /\ Subject(r) = i
StrayRows ==
    \A i \in acRows : (Provider(i) = "metaapi" /\ Absent(i)) =>
        \/ i \in acStranded
        \/ \E r \in Requests : StepOf(r) \in {"nullify", "delete"} /\ Subject(r) = i
KeysFollow ==
    \A i \in acRows \ acUnsynced :
        \/ acKey[i] = acAssigned[i]
        \/ \E r \in Requests : StepOf(r) \in StrategySteps /\ Subject(r) = i

AccountsInv == /\ AccountsTyped /\ RequestsInv /\ StrategyInv
               /\ StrayAccounts /\ StrayRows /\ KeysFollow

-----------------------------------------------------------------------------
(* Steps of a request. *)

LEMMA RequestBegins ==
    ASSUME AccountsTyped, NEW r \in Requests, NEW q \in RequestTypes,
           acRequest' = [acRequest EXCEPT ![r] = <<q>>]
    PROVE  /\ acRequest' \in [Requests -> {<<>>} \cup {<<x>> : x \in RequestTypes}]
           /\ StepOf(r)' = q.step /\ Subject(r)' = q.account
           /\ Made(r)' <=> q.login.provider # "deriv"
           /\ StrategiesOf(r)' = q.strategies
           /\ \A p \in Requests \ {r} : /\ StepOf(p)' = StepOf(p) /\ Subject(p)' = Subject(p)
                                        /\ Made(p)' <=> Made(p)
                                        /\ StrategiesOf(p)' = StrategiesOf(p)
  <1>1. /\ acRequest'[r] = <<q>> /\ \A p \in Requests \ {r} : acRequest'[p] = acRequest[p]
        /\ acRequest' \in [Requests -> {<<>>} \cup {<<x>> : x \in RequestTypes}]
    BY DEF AccountsTyped
  <1>2. <<q>> # <<>> /\ <<q>>[1] = q
    OBVIOUS
  <1> QED
    BY <1>1, <1>2 DEF StepOf, Subject, Made, StrategiesOf

LEMMA RequestEnds ==
    ASSUME AccountsTyped, NEW r \in Requests, EndRequest(r)
    PROVE  /\ acRequest' \in [Requests -> {<<>>} \cup {<<x>> : x \in RequestTypes}]
           /\ StepOf(r)' = "rest"
           /\ \A p \in Requests \ {r} : /\ StepOf(p)' = StepOf(p) /\ Subject(p)' = Subject(p)
                                        /\ Made(p)' <=> Made(p)
                                        /\ StrategiesOf(p)' = StrategiesOf(p)
  <1>1. /\ acRequest'[r] = <<>> /\ \A p \in Requests \ {r} : acRequest'[p] = acRequest[p]
        /\ acRequest' \in [Requests -> {<<>>} \cup {<<x>> : x \in RequestTypes}]
    BY DEF AccountsTyped, EndRequest
  <1> QED
    BY <1>1 DEF StepOf, Subject, Made, StrategiesOf

LEMMA RequestGoesOn ==
    ASSUME AccountsTyped, NEW r \in Requests, StepOf(r) # "rest", NEW i \in Nat, NEW t,
           \/ t \in CreateSteps \cup RowSteps /\ StepOf(r) \in CreateSteps \cup RowSteps
           \/ t \in StrategySteps /\ StepOf(r) \in StrategySteps,
           RequestTo(r, t, i)
    PROVE  /\ acRequest' \in [Requests -> {<<>>} \cup {<<x>> : x \in RequestTypes}]
           /\ StepOf(r)' = t /\ Subject(r)' = i
           /\ t \notin StrategySteps => (Made(r)' <=> Made(r))
           /\ t \in StrategySteps => StrategiesOf(r)' = StrategiesOf(r)
           /\ \A p \in Requests \ {r} : /\ StepOf(p)' = StepOf(p) /\ Subject(p)' = Subject(p)
                                        /\ Made(p)' <=> Made(p)
                                        /\ StrategiesOf(p)' = StrategiesOf(p)
  <1>1. PICK q \in RequestTypes : acRequest[r] = <<q>>
    BY DEF AccountsTyped, StepOf
  <1> DEFINE n == [q EXCEPT !.step = t, !.account = i]
  <1>2. StepOf(r) = q.step
    BY <1>1 DEF StepOf
  <1>3. /\ n \in RequestTypes /\ n.step = t /\ n.account = i
        /\ t \notin StrategySteps => n.login = q.login
        /\ t \in StrategySteps => n.strategies = q.strategies
    <2>1. CASE t \notin StrategySteps
      <3>1. q \in [step : CreateSteps \cup RowSteps, login : Logins, account : Nat]
        BY <1>2, <2>1 DEF RequestTypes, CreateSteps, RowSteps, StrategySteps
      <3>2. t \in CreateSteps \cup RowSteps
        BY <2>1
      <3>3. /\ n \in [step : CreateSteps \cup RowSteps, login : Logins, account : Nat]
            /\ n.step = t /\ n.account = i /\ n.login = q.login
        BY <3>1, <3>2
      <3> QED
        BY <2>1, <3>3 DEF RequestTypes
    <2>2. CASE t \in StrategySteps
      <3>1. StepOf(r) \in StrategySteps
        BY <2>2 DEF CreateSteps, RowSteps, StrategySteps
      <3>2. q \in [step : StrategySteps, account : Nat, strategies : SUBSET Assignable]
        BY <1>2, <3>1 DEF RequestTypes, CreateSteps, RowSteps, StrategySteps
      <3>3. /\ n \in [step : StrategySteps, account : Nat, strategies : SUBSET Assignable]
            /\ n.step = t /\ n.account = i /\ n.strategies = q.strategies
        BY <2>2, <3>2
      <3> QED
        BY <2>2, <3>3 DEF RequestTypes
    <2> QED
      BY <2>1, <2>2
  <1>4. acRequest' = [acRequest EXCEPT ![r] = <<n>>]
    BY <1>1 DEF RequestTo, AccountsTyped
  <1> HIDE DEF n
  <1>5. Made(r) <=> q.login.provider # "deriv"
    BY <1>1 DEF Made
  <1>6. StrategiesOf(r) = q.strategies
    BY <1>1 DEF StrategiesOf
  <1> QED
    BY <1>3, <1>4, <1>5, <1>6, RequestBegins

-----------------------------------------------------------------------------
(* Steps of the accounts. *)

LEMMA StateChanges ==
    ASSUME AccountsTyped, NEW i \in Numbers, NEW s \in {"absent", "created", "deployed", "undeployed"},
           InState(i, s)
    PROVE  /\ acAccounts' \in Seq(AccountRecords) /\ Len(acAccounts') = Len(acAccounts)
           /\ Numbers' = Numbers
           /\ \A j \in Numbers : Provider(j)' = Provider(j)
           /\ \A j \in Numbers \ {i} : Absent(j)' <=> Absent(j)
           /\ Absent(i)' <=> s = "absent"
  <1> DEFINE q == [acAccounts[i] EXCEPT !.state = s]
  <1>1. acAccounts[i] \in AccountRecords /\ acAccounts \in Seq(AccountRecords) /\ i \in 1..Len(acAccounts)
    BY DEF AccountsTyped, Numbers
  <1>2. q \in AccountRecords /\ q.state = s /\ q.login = acAccounts[i].login
    BY <1>1 DEF AccountRecords
  <1>3. acAccounts' = [acAccounts EXCEPT ![i] = q]
    BY <1>1 DEF InState
  <1> HIDE DEF q
  <1>4. /\ acAccounts' \in Seq(AccountRecords) /\ Len(acAccounts') = Len(acAccounts)
        /\ acAccounts'[i] = q
        /\ \A j \in 1..Len(acAccounts) : j # i => acAccounts'[j] = acAccounts[j]
    BY <1>1, <1>2, <1>3
  <1> QED
    BY <1>2, <1>4 DEF Numbers, Provider, Absent

LEMMA AccountMade ==
    ASSUME AccountsTyped, NEW login \in Logins, NEW n, n = Len(acAccounts) + 1,
           NEW s \in {"absent", "created", "deployed", "undeployed"}, NewAccount(login, s)
    PROVE  /\ acAccounts' \in Seq(AccountRecords) /\ Len(acAccounts') = n
           /\ n \in Nat \ Numbers /\ Numbers' = Numbers \cup {n}
           /\ \A j \in Numbers : Provider(j)' = Provider(j) /\ (Absent(j)' <=> Absent(j))
           /\ Provider(n)' = login.provider /\ (Absent(n)' <=> s = "absent")
           /\ acAssigned' \in Seq(SUBSET Assignable) /\ acKey' \in Seq(SUBSET Assignable)
           /\ Len(acAssigned') = n /\ Len(acKey') = n
           /\ \A j \in Numbers : acAssigned'[j] = acAssigned[j] /\ acKey'[j] = acKey[j]
           /\ acAssigned'[n] = {} /\ acKey'[n] = {}
           /\ UNCHANGED acUnsynced
  <1> DEFINE q == [login |-> login, state |-> s]
  <1>1. /\ acAccounts \in Seq(AccountRecords) /\ acAssigned \in Seq(SUBSET Assignable)
        /\ acKey \in Seq(SUBSET Assignable) /\ Len(acAccounts) \in Nat
        /\ Len(acAssigned) = Len(acAccounts) /\ Len(acKey) = Len(acAccounts)
    BY DEF AccountsTyped
  <1>2. /\ acAccounts' = Append(acAccounts, q) /\ acAssigned' = Append(acAssigned, {})
        /\ acKey' = Append(acKey, {}) /\ UNCHANGED acUnsynced
    BY DEF NewAccount
  <1>3. q \in AccountRecords /\ q.login = login /\ q.state = s
    BY DEF AccountRecords
  <1> HIDE DEF q
  <1>4. /\ acAccounts' \in Seq(AccountRecords) /\ Len(acAccounts') = n
        /\ \A j \in Numbers : acAccounts'[j] = acAccounts[j]
        /\ acAccounts'[n] = q
    BY <1>1, <1>2, <1>3 DEF Numbers
  <1>5. /\ acAssigned' \in Seq(SUBSET Assignable) /\ Len(acAssigned') = n
        /\ \A j \in Numbers : acAssigned'[j] = acAssigned[j]
        /\ acAssigned'[n] = {}
    BY <1>1, <1>2 DEF Numbers
  <1>6. /\ acKey' \in Seq(SUBSET Assignable) /\ Len(acKey') = n
        /\ \A j \in Numbers : acKey'[j] = acKey[j]
        /\ acKey'[n] = {}
    BY <1>1, <1>2 DEF Numbers
  <1>7. n \in Nat \ Numbers /\ Numbers' = Numbers \cup {n}
    BY <1>1, <1>4 DEF Numbers
  <1>8. \A j \in Numbers : Provider(j)' = Provider(j) /\ (Absent(j)' <=> Absent(j))
    BY <1>4 DEF Provider, Absent
  <1>9. Provider(n)' = login.provider /\ (Absent(n)' <=> s = "absent")
    BY <1>3, <1>4 DEF Provider, Absent
  <1> QED
    BY <1>2, <1>4, <1>5, <1>6, <1>7, <1>8, <1>9

-----------------------------------------------------------------------------
(* Requests that begin: with a row, or with a login that has none. *)

LEMMA BeginSteps ==
    ASSUME AccountsInv, NEW r \in Requests,
           \/ \E login \in Logins : Create(r, login)
           \/ \E i \in acRows : RemoveAccount(r, i) \/ Deploy(r, i) \/ Undeploy(r, i) \/ UpdateRow(r, i)
           \/ \E i \in acRows, strategies \in SUBSET Assignable : SetStrategies(r, i, strategies)
    PROVE  AccountsInv'
  <1>1. PICK q \in RequestTypes :
            /\ BeginRequest(r, q)
            /\ \/ /\ UNCHANGED acUnsynced /\ q.account = 0
                  /\ IF q.login.provider = "deriv" THEN q.step = "save" ELSE q.step = "provision"
               \/ UNCHANGED acUnsynced /\ q.account \in acRows
                  /\ q.step \in {"remove", "deploy", "undeploy", "update"}
               \/ /\ q.account \in acRows /\ q.step = "clear"
                  /\ acUnsynced' = IF \E p \in Requests : Setting(p, q.account)
                                   THEN acUnsynced \cup {q.account} ELSE acUnsynced \ {q.account}
    <2>1. ASSUME NEW login \in Logins, Create(r, login)
          PROVE  \E q \in RequestTypes :
                     /\ BeginRequest(r, q) /\ UNCHANGED acUnsynced /\ q.account = 0
                     /\ IF q.login.provider = "deriv" THEN q.step = "save" ELSE q.step = "provision"
      <3> DEFINE s == IF login.provider = "deriv" THEN "save" ELSE "provision"
                 q == [step |-> s, login |-> login, account |-> 0]
      <3>1. q \in RequestTypes /\ q.account = 0 /\ q.login = login /\ q.step = s
        BY DEF RequestTypes, CreateSteps
      <3>2. BeginRequest(r, q) /\ UNCHANGED acUnsynced
        BY <2>1 DEF Create
      <3> HIDE DEF q
      <3> QED
        BY <3>1, <3>2
    <2>2. ASSUME NEW i \in acRows, NEW s \in {"remove", "deploy", "undeploy", "update"}, Ask(r, s, i)
          PROVE  \E q \in RequestTypes :
                     /\ BeginRequest(r, q) /\ UNCHANGED acUnsynced /\ q.account \in acRows
                     /\ q.step \in {"remove", "deploy", "undeploy", "update"}
      <3> DEFINE q == [step |-> s, account |-> i, login |-> acAccounts[i].login]
      <3>1. i \in Nat /\ acAccounts[i].login \in Logins
        <4>1. i \in 1..Len(acAccounts) /\ acAccounts \in Seq(AccountRecords)
          BY DEF AccountsInv, AccountsTyped, Numbers
        <4>2. acAccounts[i] \in AccountRecords
          BY <4>1
        <4> QED
          BY <4>1, <4>2 DEF AccountRecords
      <3>2. q \in RequestTypes /\ q.account = i /\ q.step = s
        BY <3>1 DEF RequestTypes, RowSteps
      <3>3. BeginRequest(r, q) /\ UNCHANGED acUnsynced
        BY <2>2 DEF Ask
      <3> HIDE DEF q
      <3> QED
        BY <3>2, <3>3
    <2>3. ASSUME NEW i \in acRows, NEW strategies \in SUBSET Assignable, SetStrategies(r, i, strategies)
          PROVE  \E q \in RequestTypes :
                     /\ BeginRequest(r, q) /\ q.account \in acRows /\ q.step = "clear"
                     /\ acUnsynced' = IF \E p \in Requests : Setting(p, q.account)
                                      THEN acUnsynced \cup {q.account} ELSE acUnsynced \ {q.account}
      <3> DEFINE q == [step |-> "clear", account |-> i, strategies |-> strategies]
      <3>1. i \in Nat
        BY DEF AccountsInv, AccountsTyped, Numbers
      <3>2. q \in RequestTypes /\ q.account = i /\ q.step = "clear"
        BY <3>1 DEF RequestTypes, StrategySteps
      <3>3. /\ BeginRequest(r, q)
            /\ acUnsynced' = IF \E p \in Requests : Setting(p, i)
                             THEN acUnsynced \cup {i} ELSE acUnsynced \ {i}
        BY <2>3 DEF SetStrategies
      <3> HIDE DEF q
      <3> QED
        BY <3>2, <3>3
    <2> QED
      BY <2>1, <2>2, <2>3 DEF RemoveAccount, Deploy, Undeploy, UpdateRow
  <1>2. /\ acRequest[r] = <<>> /\ acRequest' = [acRequest EXCEPT ![r] = <<q>>]
        /\ UNCHANGED <<acAccounts, acRows, acAssigned, acKey, acLost, acStranded>>
    BY <1>1 DEF BeginRequest, acRowVars
  <1>3. StepOf(r) = "rest" /\ AccountsTyped
    BY <1>2 DEF StepOf, AccountsInv
  <1>4. /\ acRequest' \in [Requests -> {<<>>} \cup {<<x>> : x \in RequestTypes}]
        /\ StepOf(r)' = q.step /\ Subject(r)' = q.account
        /\ Made(r)' <=> q.login.provider # "deriv"
        /\ \A p \in Requests \ {r} : /\ StepOf(p)' = StepOf(p) /\ Subject(p)' = Subject(p)
                                     /\ Made(p)' <=> Made(p)
                                     /\ StrategiesOf(p)' = StrategiesOf(p)
    BY <1>2, <1>3, RequestBegins
  <1>5. \A i : /\ Absent(i)' <=> Absent(i)
               /\ Provider(i)' = Provider(i)
    BY <1>2 DEF Absent, Provider
  <1>6. Numbers' = Numbers /\ acRows \subseteq Numbers /\ 0 \notin Numbers
    BY <1>2, <1>3 DEF AccountsTyped, Numbers
  <1>7. AccountsTyped'
    BY <1>2, <1>3, <1>4, <1>6 DEF AccountsTyped
  <1>8. RequestsInv'
    <2> SUFFICES ASSUME NEW p \in Requests, NEW i, Subject(p)' = i
                 PROVE  /\ Pending(p)' =>
                               /\ i \in Numbers \ acRows /\ acKey[i] = acAssigned[i]
                               /\ \A x \in Requests :
                                      (StepOf(x)' \notin {"rest", "provision"} /\ Subject(x)' = i) => x = p
                        /\ StepOf(p)' \in {"provision", "deploy new"} => Made(p)'
                        /\ StepOf(p)' = "save" => IF Made(p)' THEN ~Absent(i) ELSE i = 0
                        /\ StepOf(p)' \in RowSteps \cup StrategySteps => i \in Numbers
                        /\ StepOf(p)' \in {"nullify", "delete"} => Absent(i)
      BY <1>2, <1>5, <1>6 DEF RequestsInv
    <2>1. CASE p = r
      BY <1>1, <1>2, <1>4, <1>6, <2>1 DEF Pending, RowSteps, StrategySteps
    <2>2. CASE p # r
      <3>1. ASSUME Pending(p)', NEW x \in Requests \ {r}, StepOf(x)' \notin {"rest", "provision"},
                   Subject(x)' = i
            PROVE  x = p
        <4>1. Pending(p) /\ Subject(p) = i
          BY <1>4, <2>2, <3>1 DEF Pending
        <4>2. StepOf(x) \notin {"rest", "provision"} /\ Subject(x) = i
          BY <1>4, <3>1
        <4> QED
          BY <4>1, <4>2 DEF AccountsInv, RequestsInv
      <3>2. Pending(p)' => i \in Numbers \ acRows
        BY <1>4, <2>2 DEF AccountsInv, RequestsInv, Pending
      <3>3. (Pending(p)' /\ StepOf(r)' # "provision") => Subject(r)' # i
        BY <1>1, <1>4, <1>6, <3>2
      <3>4. /\ Subject(p) = i /\ StepOf(p)' = StepOf(p) /\ (Made(p)' <=> Made(p))
            /\ (Pending(p)' <=> Pending(p))
        BY <1>4, <2>2 DEF Pending
      <3>5. Pending(p)' => acKey[i] = acAssigned[i]
        BY <3>4 DEF AccountsInv, RequestsInv
      <3>6. ASSUME Pending(p)', NEW x \in Requests, StepOf(x)' \notin {"rest", "provision"},
                   Subject(x)' = i
            PROVE  x = p
        BY <3>1, <3>3, <3>6
      <3>7. /\ StepOf(p)' \in {"provision", "deploy new"} => Made(p)'
            /\ StepOf(p)' = "save" => IF Made(p)' THEN ~Absent(i) ELSE i = 0
            /\ StepOf(p)' \in RowSteps \cup StrategySteps => i \in Numbers
            /\ StepOf(p)' \in {"nullify", "delete"} => Absent(i)
        BY <3>4 DEF AccountsInv, RequestsInv
      <3> QED
        BY <3>2, <3>5, <3>6, <3>7
    <2> QED
      BY <2>1, <2>2
  <1>9. \A p \in Requests : \A i : Setting(p, i) <=> (StepOf(p) \in StrategySteps /\ Subject(p) = i)
    BY DEF Setting, RequestAt, StepOf, StrategySteps
  <1>10. StrategyInv'
    BY <1>1, <1>2, <1>3, <1>4, <1>9 DEF AccountsInv, StrategyInv, StrategySteps
  <1>11. StrayAccounts'
    BY <1>1, <1>2, <1>3, <1>4, <1>5, <1>6 DEF AccountsInv, StrayAccounts
  <1>13. StrayRows'
    BY <1>1, <1>2, <1>3, <1>4, <1>5, <1>6 DEF AccountsInv, StrayRows
  <1>12. KeysFollow'
    BY <1>1, <1>2, <1>3, <1>4, <1>9 DEF AccountsInv, KeysFollow, StrategySteps
  <1> QED
    BY <1>7, <1>8, <1>10, <1>11, <1>12, <1>13 DEF AccountsInv

-----------------------------------------------------------------------------
(* A step of the request r about the account i, or one that makes the account i: what      *)
(* has to hold of the two for the others to be left as they were.                          *)

\* The accounts but i stay as they were.
OnlyAccount(i) ==
    /\ Numbers \subseteq Numbers' /\ Numbers' \subseteq Numbers \cup {i}
    /\ \A j \in Numbers \ {i} :
           /\ Absent(j)' <=> Absent(j)
           /\ Provider(j)' = Provider(j)
           /\ j \in acRows' <=> j \in acRows
           /\ acAssigned'[j] = acAssigned[j] /\ acKey'[j] = acKey[j]
    /\ acLost \subseteq acLost' /\ acStranded \subseteq acStranded'
    /\ acUnsynced \subseteq acUnsynced' /\ acUnsynced' \subseteq acUnsynced \cup {i}

OnlyRequest(r) ==
    \A p \in Requests \ {r} : /\ StepOf(p)' = StepOf(p) /\ Subject(p)' = Subject(p)
                              /\ Made(p)' <=> Made(p)
                              /\ StrategiesOf(p)' = StrategiesOf(p)

About(r, i) == \/ StepOf(r) \notin {"rest", "provision"} /\ Subject(r) = i
               \/ i \notin Numbers \cup {0} /\ StepOf(r) = "provision"
               \/ i \notin Numbers \cup {0} /\ StepOf(r) = "save" /\ Subject(r) = 0

\* What the step makes of the request itself.
OwnRequest(r, i) ==
    /\ StepOf(r)' # "rest" => Subject(r)' = i /\ StepOf(r)' # "provision"
    /\ Pending(r)' => /\ i \in Numbers' \ acRows' /\ acKey'[i] = acAssigned'[i]
                      /\ Pending(r) \/ i \notin Numbers \cup {0}
    /\ StepOf(r)' \in {"deploy new", "save"} => Made(r)'
    /\ StepOf(r)' = "save" => ~Absent(i)'
    /\ StepOf(r)' \in RowSteps \cup StrategySteps => i \in Numbers'
    /\ StepOf(r)' \in {"nullify", "delete"} => Absent(i)'
    /\ (Absent(i) => Absent(i)') \/ Pending(r) \/ i \notin Numbers \cup {0}

\* What the step makes of what the request is about.
OwnAccount(r, i) ==
    /\ (i \in Numbers' /\ ~Absent(i)') =>
           \/ i \in acRows' \cup acLost'
           \/ StepOf(r)' \in {"deploy new", "save"}
           \/ /\ i \in Numbers /\ ~Absent(i) /\ (i \in acRows => i \in acRows')
              /\ StepOf(r) \notin {"deploy new", "save"}
    /\ (i \in acRows' /\ Provider(i)' = "metaapi" /\ Absent(i)') =>
           \/ i \in acStranded'
           \/ StepOf(r)' \in {"nullify", "delete"}
           \/ /\ i \in acRows /\ Provider(i)' = Provider(i) /\ Absent(i)
              /\ StepOf(r) \notin {"nullify", "delete"}

OwnStrategies(r, i) ==
    /\ StepOf(r)' \in StrategySteps => StepOf(r) \in StrategySteps
    /\ i \in acRows' \ acUnsynced' =>
           /\ \/ i \in acRows /\ (acAssigned'[i] = acAssigned[i] \/ StepOf(r) \in StrategySteps)
              \/ Pending(r) \/ i \notin Numbers \cup {0}
           /\ \/ acKey'[i] = acAssigned'[i] \/ StepOf(r)' \in StrategySteps
              \/ /\ acKey'[i] = acKey[i] /\ acAssigned'[i] = acAssigned[i] /\ i \in acRows
                 /\ StepOf(r) \notin StrategySteps
           /\ StepOf(r)' = "insert" => acAssigned'[i] = {}
           /\ StepOf(r)' = "key" => acAssigned'[i] = StrategiesOf(r)'

\* A new account, and one that is being created, are no other request's.
LEMMA NobodyElse ==
    ASSUME AccountsInv, NEW r \in Requests, NEW i, About(r, i), Pending(r) \/ i \notin Numbers \cup {0},
           NEW p \in Requests \ {r}, StepOf(p) \notin {"rest", "provision"}
    PROVE  Subject(p) # i
  <1> SUFFICES ASSUME Subject(p) = i PROVE FALSE
    OBVIOUS
  <1>1. CASE Pending(r) /\ Subject(r) = i
    BY <1>1 DEF AccountsInv, RequestsInv
  <1>2. CASE i \notin Numbers \cup {0}
    <2>1. StepOf(p) \in CreateSteps \cup RowSteps \cup StrategySteps \cup {"rest"}
      BY DEF AccountsInv, AccountsTyped, RequestTypes, StepOf
    <2>2. /\ StepOf(p) = "save" /\ ~Made(p) => i = 0
          /\ Pending(p) => i \in Numbers
          /\ StepOf(p) \in RowSteps \cup StrategySteps => i \in Numbers
      BY DEF AccountsInv, RequestsInv
    <2> QED
      BY <1>2, <2>1, <2>2 DEF CreateSteps, Pending
  <1>3. Pending(r) => StepOf(r) \notin {"rest", "provision"}
    BY DEF Pending
  <1> QED
    BY <1>1, <1>2, <1>3 DEF About

LEMMA OthersKept ==
    ASSUME AccountsInv, NEW r \in Requests, NEW i, About(r, i), OnlyAccount(i), OnlyRequest(r),
           OwnRequest(r, i)
    PROVE  RequestsInv'
  <1>0. 0 \notin Numbers
    BY DEF Numbers
  <1>1. ASSUME NEW p \in Requests \ {r}, Pending(p), NEW j, Subject(p) = j
        PROVE  j \in Numbers \ {i}
    <2>1. j \in Numbers
      BY <1>1 DEF AccountsInv, RequestsInv
    <2>2. ASSUME StepOf(r) \notin {"rest", "provision"}, Subject(r) = j PROVE FALSE
      BY <1>1, <2>2 DEF AccountsInv, RequestsInv
    <2> QED
      BY <2>1, <2>2 DEF About
  <1>2. ASSUME NEW p \in Requests \ {r}, NEW j, Subject(p) = j, StepOf(p) \in RowSteps \cup StrategySteps
        PROVE  j \in Numbers
    BY <1>2 DEF AccountsInv, RequestsInv
  <1>3. ASSUME NEW p \in Requests \ {r}, Pending(r) \/ i \notin Numbers \cup {0},
               StepOf(p) \notin {"rest", "provision"}, Subject(p) = i
        PROVE  FALSE
    BY <1>3, NobodyElse
  <1> SUFFICES ASSUME NEW p \in Requests, NEW j, Subject(p)' = j
               PROVE  /\ Pending(p)' =>
                             /\ j \in Numbers' \ acRows' /\ acKey'[j] = acAssigned'[j]
                             /\ \A x \in Requests :
                                    (StepOf(x)' \notin {"rest", "provision"} /\ Subject(x)' = j) => x = p
                      /\ StepOf(p)' \in {"provision", "deploy new"} => Made(p)'
                      /\ StepOf(p)' = "save" => IF Made(p)' THEN ~Absent(j)' ELSE j = 0
                      /\ StepOf(p)' \in RowSteps \cup StrategySteps => j \in Numbers'
                      /\ StepOf(p)' \in {"nullify", "delete"} => Absent(j)'
    BY DEF RequestsInv
  <1>4. CASE p = r
    <2>1. StepOf(r)' \in {"provision", "deploy new"} => Made(r)'
      BY DEF OwnRequest
    <2>2. ASSUME StepOf(r)' # "rest" PROVE j = i
      BY <1>4, <2>2 DEF OwnRequest
    <2>3. ASSUME Pending(r)', NEW x \in Requests \ {r}, StepOf(x)' \notin {"rest", "provision"},
                 Subject(x)' = i
          PROVE  FALSE
      <3>1. StepOf(x) \notin {"rest", "provision"} /\ Subject(x) = i
        BY <2>3 DEF OnlyRequest
      <3>2. Pending(r) \/ i \notin Numbers \cup {0}
        BY <2>3 DEF OwnRequest
      <3> QED
        BY <1>3, <3>1, <3>2
    <2>4. Pending(r)' => StepOf(r)' # "rest"
      BY DEF Pending
    <2>5. Pending(r)' => \A x \in Requests :
                             (StepOf(x)' \notin {"rest", "provision"} /\ Subject(x)' = i) => x = r
      BY <2>3
    <2>6. \A s \in RowSteps \cup StrategySteps : s # "rest"
      BY DEF RowSteps, StrategySteps
    <2> QED
      BY <1>4, <2>1, <2>2, <2>4, <2>5, <2>6 DEF OwnRequest
  <1>5. CASE p # r
    <2>1. /\ StepOf(p)' = StepOf(p) /\ Subject(p) = j
          /\ Made(p)' <=> Made(p)
          /\ Pending(p)' <=> Pending(p)
      BY <1>5 DEF OnlyRequest, Pending
    <2>2. /\ Pending(p) => j \in Numbers \ {i}
          /\ StepOf(p) \in RowSteps \cup StrategySteps => j \in Numbers
      BY <1>1, <1>2, <1>5, <2>1
    <2>3. /\ Pending(p) => j \notin acRows /\ acKey[j] = acAssigned[j]
          /\ StepOf(p) \in {"provision", "deploy new"} => Made(p)
          /\ StepOf(p) = "save" => IF Made(p) THEN ~Absent(j) ELSE j = 0
          /\ StepOf(p) \in {"nullify", "delete"} => Absent(j)
      BY <2>1 DEF AccountsInv, RequestsInv
    <2>4. ASSUME Pending(p), NEW x \in Requests, StepOf(x)' \notin {"rest", "provision"}, Subject(x)' = j
          PROVE  x = p
      <3>1. CASE x = r
        BY <2>2, <2>4, <3>1 DEF OwnRequest
      <3>2. CASE x # r
        <4>1. StepOf(x) \notin {"rest", "provision"} /\ Subject(x) = j
          BY <2>4, <3>2 DEF OnlyRequest
        <4> QED
          BY <2>1, <2>4, <4>1 DEF AccountsInv, RequestsInv
      <3> QED
        BY <3>1, <3>2
    <2>5. Pending(p) => /\ j \in Numbers' \ acRows' /\ acKey'[j] = acAssigned'[j]
                        /\ Absent(j)' <=> Absent(j)
      BY <2>2, <2>3 DEF OnlyAccount
    <2>6. StepOf(p) \in RowSteps \cup StrategySteps => j \in Numbers'
      BY <2>2 DEF OnlyAccount
    <2>7. StepOf(p) \in {"nullify", "delete"} => Absent(j)'
      <3> SUFFICES ASSUME StepOf(p) \in {"nullify", "delete"} PROVE Absent(j)'
        OBVIOUS
      <3>1. j \in Numbers /\ Absent(j)
        BY <2>2, <2>3 DEF RowSteps
      <3>2. CASE j = i
        BY <1>3, <1>5, <2>1, <3>1, <3>2 DEF OwnRequest
      <3>3. CASE j # i
        BY <3>1, <3>3 DEF OnlyAccount
      <3> QED
        BY <3>2, <3>3
    <2>8. StepOf(p) = "save" => IF Made(p) THEN ~Absent(j)' ELSE j = 0
      BY <2>3, <2>5 DEF Pending
    <2> QED
      BY <2>1, <2>3, <2>4, <2>5, <2>6, <2>7, <2>8
  <1> QED
    BY <1>4, <1>5

LEMMA AccountsFollow ==
    ASSUME AccountsInv, NEW r \in Requests, NEW i, About(r, i), OnlyAccount(i), OnlyRequest(r),
           OwnRequest(r, i), OwnAccount(r, i), AccountsTyped'
    PROVE  StrayAccounts' /\ StrayRows'
  <1>0. 0 \notin Numbers /\ acRows \subseteq Numbers
    BY DEF Numbers, AccountsInv, AccountsTyped
  <1>1. ASSUME NEW p \in Requests, NEW j \in Numbers \ {i}, Subject(p) = j, StepOf(p) \notin {"rest", "provision"}
        PROVE  StepOf(p)' = StepOf(p) /\ Subject(p)' = j
    BY <1>0, <1>1 DEF About, OnlyRequest
  <1>2. ASSUME NEW p \in Requests \ {r}
        PROVE  StepOf(p)' = StepOf(p) /\ Subject(p)' = Subject(p)
    BY DEF OnlyRequest
  <1>3. StrayAccounts'
    <2> SUFFICES ASSUME NEW j \in Numbers', ~Absent(j)'
                 PROVE  \/ j \in acRows' \cup acLost'
                        \/ \E p \in Requests : StepOf(p)' \in {"deploy new", "save"} /\ Subject(p)' = j
      BY DEF StrayAccounts
    <2>1. CASE j # i
      <3>1. j \in Numbers \ {i} /\ ~Absent(j) /\ (j \in acRows' <=> j \in acRows) /\ acLost \subseteq acLost'
        BY <2>1 DEF OnlyAccount
      <3> QED
        BY <1>1, <3>1 DEF AccountsInv, StrayAccounts
    <2>2. CASE j = i
      BY <1>2, <2>2 DEF AccountsInv, StrayAccounts, OwnAccount, OwnRequest, OnlyAccount
    <2> QED
      BY <2>1, <2>2
  <1>4. StrayRows'
    <2> SUFFICES ASSUME NEW j \in acRows', Provider(j)' = "metaapi", Absent(j)', j \notin acStranded'
                 PROVE  \E p \in Requests : StepOf(p)' \in {"nullify", "delete"} /\ Subject(p)' = j
      BY DEF StrayRows
    <2>1. CASE j # i
      <3>1. j \in Numbers \ {i} /\ j \in acRows /\ Provider(j) = "metaapi" /\ Absent(j) /\ j \notin acStranded
        BY <2>1 DEF OnlyAccount, AccountsTyped
      <3> QED
        BY <1>1, <3>1 DEF AccountsInv, StrayRows
    <2>2. CASE j = i
      BY <1>2, <2>2 DEF AccountsInv, StrayRows, OwnAccount, OwnRequest, OnlyAccount
    <2> QED
      BY <2>1, <2>2
  <1> QED
    BY <1>3, <1>4

LEMMA StrategiesFollowed ==
    ASSUME AccountsInv, NEW r \in Requests, NEW i, About(r, i), OnlyAccount(i), OnlyRequest(r),
           OwnRequest(r, i), OwnStrategies(r, i), AccountsTyped'
    PROVE  StrategyInv' /\ KeysFollow'
  <1>0. /\ 0 \notin Numbers /\ "rest" \notin StrategySteps /\ "provision" \notin StrategySteps
        /\ "save" \notin StrategySteps
    BY DEF Numbers, StrategySteps
  <1>1. ASSUME NEW j \in acRows' \ acUnsynced', j # i
        PROVE  /\ j \in acRows \ acUnsynced /\ acAssigned'[j] = acAssigned[j] /\ acKey'[j] = acKey[j]
    BY <1>1 DEF OnlyAccount, AccountsTyped
  <1>2. ASSUME NEW p \in Requests \ {r}
        PROVE  /\ StepOf(p)' = StepOf(p) /\ Subject(p)' = Subject(p) /\ StrategiesOf(p)' = StrategiesOf(p)
    BY DEF OnlyRequest
  <1>3. StepOf(r) \in StrategySteps => Subject(r) = i
    BY <1>0 DEF About
  <1>4. StepOf(r)' \in StrategySteps => StepOf(r) \in StrategySteps /\ Subject(r)' = i
    BY <1>0 DEF OwnRequest, OwnStrategies
  <1>5. ASSUME NEW p \in Requests \ {r}, StepOf(p) \in StrategySteps, Subject(p) = i,
               i \in acRows' \ acUnsynced'
        PROVE  i \in acRows \ acUnsynced /\ acAssigned'[i] = acAssigned[i] /\ StepOf(r) \notin StrategySteps
    <2>1. i \notin acUnsynced
      BY <1>5 DEF OnlyAccount
    <2>2. i \in acRows /\ (acAssigned'[i] = acAssigned[i] \/ StepOf(r) \in StrategySteps)
      BY <1>0, <1>5, NobodyElse DEF OwnStrategies
    <2>3. StepOf(r) \notin StrategySteps
      BY <1>3, <1>5, <2>1, <2>2 DEF AccountsInv, StrategyInv
    <2> QED
      BY <2>1, <2>2, <2>3
  <1>6. StrategyInv'
    <2> SUFFICES ASSUME NEW p \in Requests, StepOf(p)' \in StrategySteps, NEW j, Subject(p)' = j,
                        j \in acRows' \ acUnsynced'
                 PROVE  /\ \A q \in Requests : (StepOf(q)' \in StrategySteps /\ Subject(q)' = j) => q = p
                        /\ StepOf(p)' = "insert" => acAssigned'[j] = {}
                        /\ StepOf(p)' = "key" => acAssigned'[j] = StrategiesOf(p)'
      BY DEF StrategyInv
    <2>1. CASE p = r
      <3>1. j = i /\ StepOf(r) \in StrategySteps
        BY <1>4, <2>1
      <3> QED
        BY <1>2, <1>5, <2>1, <3>1 DEF OwnStrategies
    <2>2. CASE p # r
      <3>1. /\ StepOf(p) \in StrategySteps /\ Subject(p) = j /\ StepOf(p)' = StepOf(p)
            /\ StrategiesOf(p)' = StrategiesOf(p)
        BY <1>2, <2>2
      <3>2. /\ j \in acRows \ acUnsynced /\ acAssigned'[j] = acAssigned[j]
            /\ j = i => StepOf(r) \notin StrategySteps
        BY <1>1, <1>5, <2>2, <3>1
      <3>3. /\ \A q \in Requests : (StepOf(q) \in StrategySteps /\ Subject(q) = j) => q = p
            /\ StepOf(p) = "insert" => acAssigned[j] = {}
            /\ StepOf(p) = "key" => acAssigned[j] = StrategiesOf(p)
        BY <3>1, <3>2 DEF AccountsInv, StrategyInv
      <3>4. ASSUME NEW q \in Requests, StepOf(q)' \in StrategySteps, Subject(q)' = j PROVE q = p
        <4>1. CASE q = r
          BY <1>4, <3>2, <3>4, <4>1
        <4>2. CASE q # r
          BY <1>2, <3>3, <3>4, <4>2
        <4> QED
          BY <4>1, <4>2
      <3> QED
        BY <3>1, <3>2, <3>3, <3>4
    <2> QED
      BY <2>1, <2>2
  <1>7. KeysFollow'
    <2> SUFFICES ASSUME NEW j \in acRows' \ acUnsynced', acKey'[j] # acAssigned'[j]
                 PROVE  \E p \in Requests : StepOf(p)' \in StrategySteps /\ Subject(p)' = j
      BY DEF KeysFollow
    <2>1. CASE j # i
      <3>1. PICK p \in Requests : StepOf(p) \in StrategySteps /\ Subject(p) = j
        BY <1>1, <2>1 DEF AccountsInv, KeysFollow
      <3> QED
        BY <1>2, <1>3, <2>1, <3>1
    <2>2. CASE j = i /\ StepOf(r)' \in StrategySteps
      BY <1>4, <2>2
    <2>3. CASE j = i /\ StepOf(r)' \notin StrategySteps
      <3>1. /\ acKey'[i] = acKey[i] /\ acAssigned'[i] = acAssigned[i] /\ i \in acRows \ acUnsynced
            /\ StepOf(r) \notin StrategySteps
        BY <2>3 DEF OwnStrategies, OnlyAccount
      <3>2. PICK p \in Requests : StepOf(p) \in StrategySteps /\ Subject(p) = i
        BY <2>3, <3>1 DEF AccountsInv, KeysFollow
      <3> QED
        BY <1>2, <2>3, <3>1, <3>2
    <2> QED
      BY <2>1, <2>2, <2>3
  <1> QED
    BY <1>6, <1>7

LEMMA StepKeeps ==
    ASSUME AccountsInv, NEW r \in Requests, NEW i, About(r, i), OnlyAccount(i), OnlyRequest(r),
           OwnRequest(r, i), OwnAccount(r, i), OwnStrategies(r, i), AccountsTyped'
    PROVE  AccountsInv'
  BY OthersKept, AccountsFollow, StrategiesFollowed DEF AccountsInv

-----------------------------------------------------------------------------
(* The creation of an account. *)

LEMMA AccountsSame ==
    ASSUME UNCHANGED acAccounts
    PROVE  /\ Numbers' = Numbers
           /\ \A j : Provider(j)' = Provider(j) /\ (Absent(j)' <=> Absent(j))
  BY DEF Numbers, Provider, Absent

LEMMA RowsAreNumbers ==
    ASSUME AccountsTyped
    PROVE  acRows \subseteq Numbers /\ Numbers \subseteq Nat /\ 0 \notin Numbers
  <1>1. Len(acAccounts) \in Nat /\ acRows \subseteq Numbers
    BY DEF AccountsTyped
  <1> QED
    BY <1>1 DEF Numbers

LEMMA AtStep ==
    ASSUME NEW r \in Requests, NEW step, RequestAt(r, step)
    PROVE  StepOf(r) = step
  BY DEF RequestAt, StepOf

LEMMA RequestKnown ==
    ASSUME AccountsTyped, NEW r \in Requests, StepOf(r) # "rest"
    PROVE  /\ StepOf(r) \notin StrategySteps => acRequest[r][1].login \in Logins
           /\ StepOf(r) \in StrategySteps => StrategiesOf(r) \in SUBSET Assignable
           /\ Subject(r) \in Nat
  <1>1. PICK q \in RequestTypes : acRequest[r] = <<q>>
    BY DEF AccountsTyped, StepOf
  <1>2. acRequest[r] # <<>> /\ acRequest[r][1] = q
    BY <1>1
  <1>3. StepOf(r) = q.step /\ Subject(r) = q.account /\ StrategiesOf(r) = q.strategies
    BY <1>2 DEF StepOf, Subject, StrategiesOf
  <1>4. q.step \notin StrategySteps => q.login \in Logins /\ q.account \in Nat
    BY DEF RequestTypes
  <1>5. q.step \in StrategySteps => q.strategies \in SUBSET Assignable /\ q.account \in Nat
    BY DEF RequestTypes, CreateSteps, RowSteps, StrategySteps
  <1> QED
    BY <1>2, <1>3, <1>4, <1>5

\* The three ways a request moves, seen by the others.
RequestsTyped == acRequest \in [Requests -> {<<>>} \cup {<<q>> : q \in RequestTypes}]

LEMMA Goes ==
    ASSUME AccountsTyped, NEW r \in Requests, NEW t \in CreateSteps \cup RowSteps, NEW i \in Nat,
           StepOf(r) \in CreateSteps \cup RowSteps, RequestTo(r, t, i)
    PROVE  /\ RequestsTyped' /\ OnlyRequest(r)
           /\ StepOf(r)' = t /\ Subject(r)' = i /\ (Made(r)' <=> Made(r))
  <1>1. t \notin StrategySteps /\ StepOf(r) # "rest"
    BY DEF CreateSteps, RowSteps, StrategySteps
  <1> QED
    BY <1>1, RequestGoesOn DEF OnlyRequest, RequestsTyped

LEMMA StrategiesGo ==
    ASSUME AccountsTyped, NEW r \in Requests, NEW t \in StrategySteps, NEW i \in Nat,
           StepOf(r) \in StrategySteps, RequestTo(r, t, i)
    PROVE  /\ RequestsTyped' /\ OnlyRequest(r)
           /\ StepOf(r)' = t /\ Subject(r)' = i /\ StrategiesOf(r)' = StrategiesOf(r)
  <1>1. StepOf(r) # "rest"
    BY DEF StrategySteps
  <1> QED
    BY <1>1, RequestGoesOn DEF OnlyRequest, RequestsTyped

LEMMA Ends ==
    ASSUME AccountsTyped, NEW r \in Requests, EndRequest(r)
    PROVE  RequestsTyped' /\ OnlyRequest(r) /\ StepOf(r)' = "rest"
  BY RequestEnds DEF OnlyRequest, RequestsTyped

LEMMA ProvisionStep ==
    ASSUME AccountsInv, NEW r \in Requests, Provision(r), NEW n, n = Len(acAccounts) + 1
    PROVE  AccountsInv'
  <1> DEFINE login == acRequest[r][1].login
  <1>1. AccountsTyped /\ StepOf(r) = "provision"
    BY AtStep DEF AccountsInv, Provision
  <1>2. login \in Logins /\ Made(r)
    BY <1>1, RequestKnown DEF AccountsInv, RequestsInv, StrategySteps
  <1>3. /\ UNCHANGED <<acRows, acLost, acStranded>>
        /\ acRows \subseteq Numbers /\ Len(acAccounts) \in Nat
    <2>1. UNCHANGED <<acRows, acLost, acStranded>>
      BY DEF Provision, acRowVars
    <2>2. acRows \subseteq Numbers /\ Len(acAccounts) \in Nat
      BY <1>1 DEF AccountsTyped
    <2> QED
      BY <2>1, <2>2
  <1>4. n \in Nat /\ n \notin Numbers \cup {0}
    BY <1>3 DEF Numbers
  <1>5. About(r, n)
    BY <1>1, <1>4 DEF About
  <1>6. CASE NewAccount(login, "created") /\ RequestTo(r, "deploy new", n)
    <2>1. /\ acAccounts' \in Seq(AccountRecords) /\ Len(acAccounts') = n
          /\ Numbers' = Numbers \cup {n}
          /\ \A j \in Numbers : Provider(j)' = Provider(j) /\ (Absent(j)' <=> Absent(j))
          /\ acAssigned' \in Seq(SUBSET Assignable) /\ acKey' \in Seq(SUBSET Assignable)
          /\ Len(acAssigned') = n /\ Len(acKey') = n
          /\ \A j \in Numbers : acAssigned'[j] = acAssigned[j] /\ acKey'[j] = acKey[j]
          /\ acAssigned'[n] = {} /\ acKey'[n] = {} /\ UNCHANGED acUnsynced
      <3> HIDE DEF login
      <3> QED
        BY <1>1, <1>2, <1>6, AccountMade
    <2>2. /\ RequestsTyped' /\ OnlyRequest(r)
          /\ StepOf(r)' = "deploy new" /\ Subject(r)' = n /\ (Made(r)' <=> Made(r))
      <3>1. /\ "deploy new" \in CreateSteps \cup RowSteps /\ StepOf(r) \in CreateSteps \cup RowSteps
        BY <1>1 DEF CreateSteps
      <3>2. RequestTo(r, "deploy new", n) /\ AccountsTyped /\ n \in Nat
        BY <1>1, <1>4, <1>6
      <3> QED
        BY <3>1, <3>2, Goes, Zenon
    <2>3. AccountsTyped'
      BY <1>3, <2>1, <2>2 DEF AccountsTyped, RequestsTyped
    <2>4. OnlyAccount(n)
      BY <1>3, <1>4, <2>1 DEF OnlyAccount
    <2>5. OwnRequest(r, n)
      BY <1>2, <1>3, <1>4, <2>1, <2>2 DEF OwnRequest, Pending, RowSteps, StrategySteps
    <2>6. OwnAccount(r, n)
      BY <1>3, <1>4, <2>2 DEF OwnAccount
    <2>7. OwnStrategies(r, n)
      BY <1>3, <1>4, <2>2 DEF OwnStrategies, StrategySteps
    <2> QED
      BY <1>5, <2>2, <2>3, <2>4, <2>5, <2>6, <2>7, StepKeeps
  <1>7. CASE EndRequest(r) /\ UNCHANGED <<acAccounts, acAssigned, acKey, acUnsynced>>
    <2>1. RequestsTyped' /\ OnlyRequest(r) /\ StepOf(r)' = "rest"
      BY <1>1, <1>7, Ends
    <2>2. /\ Numbers' = Numbers
          /\ \A j : Provider(j)' = Provider(j) /\ (Absent(j)' <=> Absent(j))
      BY <1>7, AccountsSame
    <2>3. AccountsTyped'
      BY <1>1, <1>3, <1>7, <2>1, <2>2 DEF AccountsTyped, RequestsTyped
    <2>4. OnlyAccount(n)
      BY <1>3, <1>7, <2>2 DEF OnlyAccount
    <2>5. OwnRequest(r, n)
      BY <1>4, <2>1 DEF OwnRequest, Pending, RowSteps, StrategySteps
    <2>6. OwnAccount(r, n) /\ OwnStrategies(r, n)
      BY <1>3, <1>4, <2>1, <2>2 DEF OwnAccount, OwnStrategies, StrategySteps
    <2> QED
      BY <1>5, <2>1, <2>3, <2>4, <2>5, <2>6, StepKeeps
  <1> QED
    BY <1>6, <1>7 DEF Provision, acStrategyVars

LEMMA DeployNewStep ==
    ASSUME AccountsInv, NEW r \in Requests, DeployNew(r), NEW i, i = Subject(r)
    PROVE  AccountsInv'
  <1>1. AccountsTyped /\ StepOf(r) = "deploy new" /\ About(r, i)
    BY AtStep DEF AccountsInv, DeployNew, About
  <1>2. /\ Pending(r) /\ Made(r) /\ i \in Numbers \ acRows /\ acKey[i] = acAssigned[i]
    BY <1>1 DEF AccountsInv, RequestsInv, Pending
  <1>3. acRows \subseteq Numbers /\ i \in Nat
    BY <1>1, <1>2, RowsAreNumbers
  <1>4. UNCHANGED <<acRows, acAssigned, acKey, acUnsynced, acStranded>>
    BY DEF DeployNew, acRowVars, acStrategyVars
  <1>5. CASE RequestTo(r, "save", i) /\ UNCHANGED acLost /\ InState(i, "deployed")
    <2>1. /\ RequestsTyped' /\ OnlyRequest(r)
          /\ StepOf(r)' = "save" /\ Subject(r)' = i /\ (Made(r)' <=> Made(r))
      <3>1. "save" \in CreateSteps \cup RowSteps /\ StepOf(r) \in CreateSteps \cup RowSteps
        BY <1>1 DEF CreateSteps
      <3> QED
        BY <1>1, <1>3, <1>5, <3>1, Goes, Zenon
    <2>2. /\ acAccounts' \in Seq(AccountRecords) /\ Len(acAccounts') = Len(acAccounts)
          /\ Numbers' = Numbers
          /\ \A j \in Numbers : Provider(j)' = Provider(j)
          /\ \A j \in Numbers \ {i} : Absent(j)' <=> Absent(j)
          /\ ~Absent(i)'
      BY <1>1, <1>2, <1>5, StateChanges
    <2>3. AccountsTyped'
      BY <1>1, <1>4, <2>1, <2>2 DEF AccountsTyped, RequestsTyped
    <2>4. OnlyAccount(i)
      BY <1>4, <1>5, <2>2 DEF OnlyAccount
    <2>5. OwnRequest(r, i)
      BY <1>2, <1>4, <2>1, <2>2 DEF OwnRequest, RowSteps, StrategySteps
    <2>6. OwnAccount(r, i) /\ OwnStrategies(r, i)
      BY <1>2, <1>4, <2>1, <2>2 DEF OwnAccount, OwnStrategies, StrategySteps
    <2> QED
      BY <1>1, <2>1, <2>3, <2>4, <2>5, <2>6, StepKeeps
  <1>6. CASE EndRequest(r) /\ acLost' = acLost \cup {i} /\ UNCHANGED acAccounts
    <2>1. RequestsTyped' /\ OnlyRequest(r) /\ StepOf(r)' = "rest"
      BY <1>1, <1>6, Ends
    <2>2. /\ Numbers' = Numbers
          /\ \A j : Provider(j)' = Provider(j) /\ (Absent(j)' <=> Absent(j))
      BY <1>6, AccountsSame
    <2>3. AccountsTyped'
      BY <1>1, <1>4, <1>6, <2>1, <2>2 DEF AccountsTyped, RequestsTyped
    <2>4. OnlyAccount(i)
      BY <1>4, <1>6, <2>2 DEF OnlyAccount
    <2>5. OwnRequest(r, i)
      BY <1>2, <2>1 DEF OwnRequest, Pending, RowSteps, StrategySteps
    <2>6. OwnAccount(r, i) /\ OwnStrategies(r, i)
      BY <1>2, <1>4, <1>6, <2>1, <2>2 DEF OwnAccount, OwnStrategies, StrategySteps
    <2> QED
      BY <1>1, <2>1, <2>3, <2>4, <2>5, <2>6, StepKeeps
  <1> QED
    BY <1>5, <1>6 DEF DeployNew, InState

LEMMA SaveRowStep ==
    ASSUME AccountsInv, NEW r \in Requests, SaveRow(r), NEW i,
           i = IF Made(r) THEN Subject(r) ELSE Len(acAccounts) + 1
    PROVE  AccountsInv'
  <1> DEFINE login == acRequest[r][1].login
  <1>1. AccountsTyped /\ StepOf(r) = "save"
    BY AtStep DEF AccountsInv, SaveRow
  <1>2. login \in Logins /\ (Made(r) <=> login.provider # "deriv")
    BY <1>1, RequestKnown DEF StrategySteps, Made
  <1>3. /\ Made(r) => /\ Pending(r) /\ i = Subject(r) /\ i \in Numbers \ acRows
                      /\ acKey[i] = acAssigned[i]
        /\ ~Made(r) => Subject(r) = 0 /\ i = Len(acAccounts) + 1 /\ i \notin Numbers \cup {0}
    <2>1. Len(acAccounts) \in Nat
      BY <1>1 DEF AccountsTyped
    <2>2. ~Made(r) => i = Len(acAccounts) + 1 /\ i \notin Numbers \cup {0}
      BY <2>1 DEF Numbers
    <2>3. Pending(r) <=> Made(r)
      BY <1>1 DEF Pending
    <2> QED
      BY <1>1, <2>2, <2>3 DEF AccountsInv, RequestsInv
  <1>4. acRows \subseteq Numbers /\ 0 \notin Numbers /\ About(r, i)
    BY <1>1, <1>3, RowsAreNumbers DEF About
  <1>5. RequestsTyped' /\ OnlyRequest(r) /\ StepOf(r)' = "rest"
    BY <1>1, Ends DEF SaveRow
  <1>6. UNCHANGED acStranded
    BY DEF SaveRow
  <1>7. OwnRequest(r, i)
    BY <1>3, <1>5 DEF OwnRequest, Pending, RowSteps, StrategySteps
  <1>8. CASE /\ UNCHANGED acLost /\ acRows' = acRows \cup {i} /\ ~Made(r)
             /\ NewAccount(login, "absent") /\ login.provider = "deriv"
    <2>1. /\ acAccounts' \in Seq(AccountRecords) /\ Len(acAccounts') = i
          /\ Numbers' = Numbers \cup {i}
          /\ \A j \in Numbers : Provider(j)' = Provider(j) /\ (Absent(j)' <=> Absent(j))
          /\ Provider(i)' = login.provider /\ Absent(i)'
          /\ acAssigned' \in Seq(SUBSET Assignable) /\ acKey' \in Seq(SUBSET Assignable)
          /\ Len(acAssigned') = i /\ Len(acKey') = i
          /\ \A j \in Numbers : acAssigned'[j] = acAssigned[j] /\ acKey'[j] = acKey[j]
          /\ acAssigned'[i] = {} /\ acKey'[i] = {} /\ UNCHANGED acUnsynced
      <3> HIDE DEF login
      <3> QED
        BY <1>1, <1>2, <1>3, <1>8, AccountMade
    <2>2. AccountsTyped'
      BY <1>4, <1>5, <1>8, <2>1 DEF AccountsTyped, RequestsTyped
    <2>3. OnlyAccount(i)
      BY <1>4, <1>6, <1>8, <2>1 DEF OnlyAccount
    <2>4. OwnAccount(r, i) /\ OwnStrategies(r, i)
      BY <1>3, <1>5, <1>8, <2>1 DEF OwnAccount, OwnStrategies, StrategySteps
    <2> QED
      BY <1>4, <1>5, <1>7, <2>2, <2>3, <2>4, StepKeeps
  <1>9. CASE /\ UNCHANGED <<acAccounts, acAssigned, acKey, acUnsynced>>
             /\ \/ UNCHANGED acLost /\ acRows' = acRows \cup {i} /\ Made(r)
                \/ acLost' = acLost \cup (IF Made(r) THEN {i} ELSE {}) /\ UNCHANGED acRows
    <2>1. /\ Numbers' = Numbers
          /\ \A j : Provider(j)' = Provider(j) /\ (Absent(j)' <=> Absent(j))
      BY <1>9, AccountsSame
    <2>2. AccountsTyped'
      BY <1>1, <1>3, <1>4, <1>5, <1>9, <2>1 DEF AccountsTyped, RequestsTyped
    <2>3. OnlyAccount(i)
      BY <1>6, <1>9, <2>1 DEF OnlyAccount
    <2>4. Made(r) => ~Absent(i)
      BY <1>1, <1>3 DEF AccountsInv, RequestsInv
    <2>5. OwnAccount(r, i)
      BY <1>3, <1>4, <1>9, <2>1, <2>4 DEF OwnAccount
    <2>6. OwnStrategies(r, i)
      BY <1>3, <1>4, <1>5, <1>9 DEF OwnStrategies, StrategySteps
    <2> QED
      BY <1>4, <1>5, <1>7, <2>2, <2>3, <2>5, <2>6, StepKeeps
  <1> QED
    BY <1>2, <1>3, <1>8, <1>9 DEF SaveRow, acStrategyVars

-----------------------------------------------------------------------------
(* Requests about a row. *)

\* What becomes of the account of the row and of its strategies.
Moved(i) ==
    /\ acAccounts' \in Seq(AccountRecords) /\ Len(acAccounts') = Len(acAccounts)
    /\ Numbers' = Numbers
    /\ \A j \in Numbers : Provider(j)' = Provider(j)
    /\ \A j \in Numbers \ {i} : Absent(j)' <=> Absent(j)
    /\ Absent(i) => Absent(i)'

LEMMA Stays ==
    ASSUME AccountsTyped, NEW i, UNCHANGED acAccounts
    PROVE  Moved(i) /\ (Absent(i)' <=> Absent(i))
  BY AccountsSame DEF Moved, AccountsTyped

LEMMA Moves ==
    ASSUME AccountsTyped, NEW i \in Numbers, NEW s \in {"absent", "created", "deployed", "undeployed"},
           InState(i, s), Absent(i) => s = "absent"
    PROVE  Moved(i) /\ (Absent(i)' <=> s = "absent")
  BY StateChanges DEF Moved

LEMMA AtRow ==
    ASSUME AccountsInv, NEW r \in Requests, NEW i, i = Subject(r), StepOf(r) \in RowSteps \cup StrategySteps
    PROVE  /\ i \in Numbers /\ i \in Nat /\ About(r, i) /\ ~Pending(r) /\ AccountsTyped
           /\ StepOf(r) \in {"nullify", "delete"} => Absent(i)
  <1>1. i \in Numbers /\ (StepOf(r) \in {"nullify", "delete"} => Absent(i)) /\ AccountsTyped
    BY DEF AccountsInv, RequestsInv
  <1>2. About(r, i) /\ ~Pending(r)
    BY DEF About, Pending, RowSteps, StrategySteps
  <1> QED
    BY <1>1, <1>2, RowsAreNumbers

LEMMA RowStep ==
    ASSUME AccountsInv, NEW r \in Requests, NEW i, i = Subject(r), StepOf(r) \in RowSteps,
           RequestsTyped', OnlyRequest(r), Moved(i),
           \/ StepOf(r)' = "rest"
           \/ StepOf(r)' \in RowSteps /\ Subject(r)' = i,
           StepOf(r)' \in {"nullify", "delete"} => Absent(i)',
           UNCHANGED <<acRows, acAssigned, acKey, acUnsynced, acLost>>, acStranded \subseteq acStranded',
           Absent(i)' => \/ i \in acStranded'
                         \/ StepOf(r)' \in {"nullify", "delete"}
                         \/ Absent(i) /\ StepOf(r) \notin {"nullify", "delete"}
    PROVE  AccountsInv'
  <1>1. i \in Numbers /\ About(r, i) /\ ~Pending(r) /\ AccountsTyped
    BY AtRow
  <1>2. StepOf(r)' \notin {"provision", "deploy new", "save"} \cup StrategySteps
    BY DEF RowSteps, StrategySteps
  <1>3. StepOf(r) \notin {"deploy new", "save"} \cup StrategySteps
    BY DEF RowSteps, StrategySteps
  <1>4. AccountsTyped'
    BY <1>1 DEF AccountsTyped, RequestsTyped, Moved
  <1>5. OnlyAccount(i)
    BY DEF OnlyAccount, Moved
  <1>6. OwnRequest(r, i)
    BY <1>1, <1>2 DEF OwnRequest, Pending, Moved
  <1>7. OwnAccount(r, i)
    BY <1>1, <1>3 DEF OwnAccount, Moved
  <1>8. OwnStrategies(r, i)
    BY <1>2, <1>3 DEF OwnStrategies, StrategySteps
  <1> QED
    BY <1>1, <1>4, <1>5, <1>6, <1>7, <1>8, StepKeeps

LEMMA RemoveRemoteStep ==
    ASSUME AccountsInv, NEW r \in Requests, RemoveRemote(r), NEW i, i = Subject(r)
    PROVE  AccountsInv'
  <1>1. StepOf(r) = "remove" /\ StepOf(r) \in RowSteps
    BY AtStep DEF RemoveRemote, RowSteps
  <1>2. i \in Numbers /\ i \in Nat /\ AccountsTyped
    BY <1>1, AtRow
  <1>3. UNCHANGED <<acRows, acAssigned, acKey, acUnsynced, acLost>>
    BY DEF RemoveRemote, acRowVars, acStrategyVars
  <1>4. CASE RequestTo(r, "nullify", i) /\ InState(i, "absent") /\ UNCHANGED acStranded
    <2>1. RequestsTyped' /\ OnlyRequest(r) /\ StepOf(r)' = "nullify" /\ Subject(r)' = i
      <3>1. "nullify" \in CreateSteps \cup RowSteps /\ StepOf(r) \in CreateSteps \cup RowSteps
        BY <1>1 DEF RowSteps
      <3> QED
        BY <1>2, <1>4, <3>1, Goes, Zenon
    <2>2. Moved(i) /\ Absent(i)'
      BY <1>2, <1>4, Moves
    <2> QED
      BY <1>1, <1>3, <1>4, <2>1, <2>2, RowStep DEF RowSteps
  <1>5. CASE /\ EndRequest(r)
             /\ \/ UNCHANGED <<acAccounts, acStranded>>
                \/ ~Absent(i) /\ InState(i, "undeployed") /\ UNCHANGED acStranded
                \/ InState(i, "absent") /\ acStranded' = acStranded \cup {i}
    <2>1. RequestsTyped' /\ OnlyRequest(r) /\ StepOf(r)' = "rest"
      BY <1>2, <1>5, Ends
    <2>2. /\ Moved(i) /\ acStranded \subseteq acStranded'
          /\ Absent(i)' => i \in acStranded' \/ Absent(i)
      BY <1>2, <1>5, Moves, Stays
    <2> QED
      BY <1>1, <1>3, <2>1, <2>2, RowStep
  <1> QED
    BY <1>4, <1>5 DEF RemoveRemote

LEMMA NullifyStep ==
    ASSUME AccountsInv, NEW r \in Requests, Nullify(r), NEW i, i = Subject(r)
    PROVE  AccountsInv'
  <1>1. StepOf(r) = "nullify" /\ StepOf(r) \in RowSteps
    BY AtStep DEF Nullify, RowSteps
  <1>2. i \in Numbers /\ i \in Nat /\ AccountsTyped /\ Absent(i)
    BY <1>1, AtRow
  <1>3. UNCHANGED <<acAccounts, acRows, acAssigned, acKey, acUnsynced, acLost>>
    BY DEF Nullify, acStrategyVars
  <1>4. Moved(i) /\ Absent(i)'
    BY <1>2, <1>3, Stays
  <1>5. CASE RequestTo(r, "delete", i) /\ UNCHANGED acStranded
    <2>1. RequestsTyped' /\ OnlyRequest(r) /\ StepOf(r)' = "delete" /\ Subject(r)' = i
      <3>1. "delete" \in CreateSteps \cup RowSteps /\ StepOf(r) \in CreateSteps \cup RowSteps
        BY <1>1 DEF RowSteps
      <3> QED
        BY <1>2, <1>5, <3>1, Goes, Zenon
    <2> QED
      BY <1>1, <1>3, <1>4, <1>5, <2>1, RowStep DEF RowSteps
  <1>6. CASE EndRequest(r) /\ acStranded' = acStranded \cup {i}
    <2>1. RequestsTyped' /\ OnlyRequest(r) /\ StepOf(r)' = "rest"
      BY <1>2, <1>6, Ends
    <2> QED
      BY <1>1, <1>3, <1>4, <1>6, <2>1, RowStep
  <1> QED
    BY <1>5, <1>6 DEF Nullify

LEMMA DeployRemoteStep ==
    ASSUME AccountsInv, NEW r \in Requests, NEW s \in {"deployed", "undeployed"}, DeployRemote(r, s),
           NEW i, i = Subject(r)
    PROVE  AccountsInv'
  <1>1. StepOf(r) \in {"deploy", "undeploy"}
    BY AtStep DEF DeployRemote
  <1>2. StepOf(r) \in RowSteps /\ StepOf(r) \notin {"nullify", "delete"}
    BY <1>1 DEF RowSteps
  <1>3. i \in Numbers /\ AccountsTyped
    BY <1>2, AtRow
  <1>4. UNCHANGED <<acRows, acAssigned, acKey, acUnsynced, acLost, acStranded>>
    BY DEF DeployRemote, acRowVars, acStrategyVars
  <1>5. RequestsTyped' /\ OnlyRequest(r) /\ StepOf(r)' = "rest"
    BY <1>3, Ends DEF DeployRemote
  <1>6. Moved(i) /\ (Absent(i)' => Absent(i))
    <2>1. UNCHANGED acAccounts \/ (~Absent(i) /\ InState(i, s))
      BY DEF DeployRemote
    <2> QED
      BY <1>3, <2>1, Moves, Stays
  <1> QED
    BY <1>2, <1>4, <1>5, <1>6, RowStep

\* What the assignments of one account are changed to.
LEMMA AssignedTo ==
    ASSUME AccountsTyped, NEW i \in Numbers, NEW f, f \in Seq(SUBSET Assignable), Len(f) = Len(acAccounts),
           NEW v \in SUBSET Assignable
    PROVE  /\ [f EXCEPT ![i] = v] \in Seq(SUBSET Assignable)
           /\ Len([f EXCEPT ![i] = v]) = Len(acAccounts)
           /\ [f EXCEPT ![i] = v][i] = v
           /\ \A j \in Numbers \ {i} : [f EXCEPT ![i] = v][j] = f[j]
  BY DEF Numbers

LEMMA DeleteRowStep ==
    ASSUME AccountsInv, NEW r \in Requests, DeleteRow(r), NEW i, i = Subject(r)
    PROVE  AccountsInv'
  <1>1. StepOf(r) = "delete" /\ StepOf(r) \in RowSteps
    BY AtStep DEF DeleteRow, RowSteps
  <1>2. i \in Numbers /\ About(r, i) /\ ~Pending(r) /\ AccountsTyped /\ Absent(i) /\ acRows \subseteq Numbers
    BY <1>1, AtRow, RowsAreNumbers
  <1>3. RequestsTyped' /\ OnlyRequest(r) /\ StepOf(r)' = "rest"
    BY <1>2, Ends DEF DeleteRow
  <1>4. UNCHANGED <<acAccounts, acKey, acUnsynced, acLost>>
    BY DEF DeleteRow
  <1>5. Moved(i) /\ Absent(i)'
    BY <1>2, <1>4, Stays
  <1>6. CASE /\ UNCHANGED acStranded /\ acRows' = acRows \ {i}
             /\ acAssigned' = [acAssigned EXCEPT ![i] = {}]
    <2>1. /\ acAssigned' \in Seq(SUBSET Assignable) /\ Len(acAssigned') = Len(acAccounts)
          /\ \A j \in Numbers \ {i} : acAssigned'[j] = acAssigned[j]
      <3>1. acAssigned \in Seq(SUBSET Assignable) /\ Len(acAssigned) = Len(acAccounts)
        BY <1>2 DEF AccountsTyped
      <3> QED
        BY <1>2, <1>6, <3>1, AssignedTo
    <2>2. AccountsTyped'
      BY <1>2, <1>3, <1>4, <1>5, <1>6, <2>1 DEF AccountsTyped, RequestsTyped, Moved
    <2>3. OnlyAccount(i)
      BY <1>4, <1>5, <1>6, <2>1 DEF OnlyAccount, Moved
    <2>4. OwnRequest(r, i)
      BY <1>3, <1>5 DEF OwnRequest, Pending, RowSteps, StrategySteps
    <2>5. OwnAccount(r, i) /\ OwnStrategies(r, i)
      BY <1>3, <1>5, <1>6 DEF OwnAccount, OwnStrategies, StrategySteps
    <2> QED
      BY <1>2, <1>3, <2>2, <2>3, <2>4, <2>5, StepKeeps
  <1>7. CASE acStranded' = acStranded \cup {i} /\ UNCHANGED <<acRows, acAssigned>>
    BY <1>1, <1>3, <1>4, <1>5, <1>7, RowStep
  <1> QED
    BY <1>6, <1>7 DEF DeleteRow

LEMMA SaveUpdateStep ==
    ASSUME AccountsInv, NEW r \in Requests, SaveUpdate(r), NEW i, i = Subject(r)
    PROVE  AccountsInv'
  <1>1. StepOf(r) = "update" /\ StepOf(r) \in RowSteps
    BY AtStep DEF SaveUpdate, RowSteps
  <1>2. i \in Numbers /\ About(r, i) /\ ~Pending(r) /\ AccountsTyped /\ acRows \subseteq Numbers
    BY <1>1, AtRow, RowsAreNumbers
  <1>3. RequestsTyped' /\ OnlyRequest(r) /\ StepOf(r)' = "rest"
    BY <1>2, Ends DEF SaveUpdate
  <1>4. UNCHANGED <<acAccounts, acAssigned, acKey, acLost>>
    BY DEF SaveUpdate
  <1>5. Moved(i) /\ (Absent(i)' <=> Absent(i))
    BY <1>2, <1>4, Stays
  <1>6. CASE UNCHANGED <<acRows, acStranded, acUnsynced>>
    BY <1>1, <1>3, <1>4, <1>5, <1>6, RowStep
  <1>7. CASE /\ acRows' = acRows \cup {i} /\ acStranded' = acStranded \cup {i}
             /\ acUnsynced' = acUnsynced \cup {i}
    <2>1. AccountsTyped'
      BY <1>2, <1>3, <1>4, <1>5, <1>7 DEF AccountsTyped, RequestsTyped, Moved
    <2>2. OnlyAccount(i)
      BY <1>2, <1>4, <1>5, <1>7 DEF OnlyAccount, Moved
    <2>3. OwnRequest(r, i)
      BY <1>3, <1>5 DEF OwnRequest, Pending, RowSteps, StrategySteps
    <2>4. OwnAccount(r, i) /\ OwnStrategies(r, i)
      BY <1>3, <1>7 DEF OwnAccount, OwnStrategies, StrategySteps
    <2> QED
      BY <1>2, <1>3, <2>1, <2>2, <2>3, <2>4, StepKeeps
  <1> QED
    BY <1>6, <1>7 DEF SaveUpdate

-----------------------------------------------------------------------------
(* setAccountStrategies. *)

LEMMA StrategyStep ==
    ASSUME AccountsInv, NEW r \in Requests, NEW i, i = Subject(r), StepOf(r) \in StrategySteps,
           RequestsTyped', OnlyRequest(r),
           UNCHANGED <<acAccounts, acRows, acLost, acStranded>>,
           \/ StepOf(r)' = "rest"
           \/ StepOf(r)' \in StrategySteps /\ Subject(r)' = i,
           acUnsynced' = acUnsynced \/ acUnsynced' = acUnsynced \cup {i},
           acAssigned' \in Seq(SUBSET Assignable), Len(acAssigned') = Len(acAccounts),
           acKey' \in Seq(SUBSET Assignable), Len(acKey') = Len(acAccounts),
           \A j \in Numbers \ {i} : acAssigned'[j] = acAssigned[j] /\ acKey'[j] = acKey[j],
           i \in acRows \ acUnsynced' =>
               \/ StepOf(r)' = "rest" /\ acKey'[i] = acAssigned'[i]
               \/ StepOf(r)' = "insert" /\ acAssigned'[i] = {}
               \/ StepOf(r)' = "key" /\ acAssigned'[i] = StrategiesOf(r)'
    PROVE  AccountsInv'
  <1>1. i \in Numbers /\ About(r, i) /\ ~Pending(r) /\ AccountsTyped /\ acRows \subseteq Numbers
    BY AtRow, RowsAreNumbers
  <1>2. Moved(i) /\ (Absent(i)' <=> Absent(i))
    BY <1>1, Stays
  <1>3. /\ StepOf(r)' \notin {"provision", "deploy new", "save", "nullify", "delete"}
        /\ StepOf(r) \notin {"deploy new", "save", "nullify", "delete"}
    BY DEF StrategySteps
  <1>4. AccountsTyped'
    BY <1>1, <1>2 DEF AccountsTyped, RequestsTyped, Moved
  <1>5. OnlyAccount(i)
    BY <1>2 DEF OnlyAccount, Moved
  <1>6. OwnRequest(r, i)
    BY <1>1, <1>2, <1>3 DEF OwnRequest, Pending, Moved
  <1>7. OwnAccount(r, i)
    BY <1>1, <1>2, <1>3 DEF OwnAccount, Moved
  <1>8. OwnStrategies(r, i)
    BY DEF OwnStrategies, StrategySteps
  <1> QED
    BY <1>1, <1>4, <1>5, <1>6, <1>7, <1>8, StepKeeps

LEMMA DisturbedStep ==
    ASSUME AccountsInv, NEW r \in Requests, Disturbed(r), StepOf(r) \in StrategySteps,
           UNCHANGED <<acAccounts, acRows, acAssigned, acKey, acLost, acStranded>>,
           NEW i, i = Subject(r)
    PROVE  AccountsInv'
  <1>1. AccountsTyped
    BY DEF AccountsInv
  <1>2. /\ RequestsTyped' /\ OnlyRequest(r) /\ StepOf(r)' = "rest"
        /\ acUnsynced' = acUnsynced \cup {i}
    BY <1>1, Ends DEF Disturbed
  <1>3. /\ acAssigned' \in Seq(SUBSET Assignable) /\ Len(acAssigned') = Len(acAccounts)
        /\ acKey' \in Seq(SUBSET Assignable) /\ Len(acKey') = Len(acAccounts)
    BY <1>1 DEF AccountsTyped
  <1> QED
    BY <1>2, <1>3, StrategyStep

LEMMA ClearStrategiesStep ==
    ASSUME AccountsInv, NEW r \in Requests, ClearStrategies(r), NEW i, i = Subject(r)
    PROVE  AccountsInv'
  <1>1. StepOf(r) = "clear" /\ StepOf(r) \in StrategySteps
    BY AtStep DEF ClearStrategies, StrategySteps
  <1>2. i \in Numbers /\ i \in Nat /\ AccountsTyped
    BY <1>1, AtRow
  <1>3. UNCHANGED <<acAccounts, acRows, acKey, acLost, acStranded>>
    BY DEF ClearStrategies, acRowVars
  <1>4. CASE Disturbed(r) /\ UNCHANGED acAssigned
    BY <1>1, <1>3, <1>4, DisturbedStep
  <1>5. ASSUME NEW t, t = IF StrategiesOf(r) = {} THEN "key" ELSE "insert",
               RequestTo(r, t, i), UNCHANGED acUnsynced,
               acAssigned' = [acAssigned EXCEPT ![i] = {}]
        PROVE  AccountsInv'
    <2>1. t \in StrategySteps
      BY <1>5 DEF StrategySteps
    <2>2. /\ RequestsTyped' /\ OnlyRequest(r)
          /\ StepOf(r)' = t /\ Subject(r)' = i /\ StrategiesOf(r)' = StrategiesOf(r)
      BY <1>1, <1>2, <1>5, <2>1, StrategiesGo, Zenon
    <2>3. /\ acAssigned \in Seq(SUBSET Assignable) /\ Len(acAssigned) = Len(acAccounts)
          /\ acKey' \in Seq(SUBSET Assignable) /\ Len(acKey') = Len(acAccounts)
      BY <1>2, <1>3 DEF AccountsTyped
    <2>4. /\ acAssigned' \in Seq(SUBSET Assignable) /\ Len(acAssigned') = Len(acAccounts)
          /\ acAssigned'[i] = {} /\ \A j \in Numbers \ {i} : acAssigned'[j] = acAssigned[j]
      BY <1>2, <1>5, <2>3, AssignedTo
    <2> QED
      BY <1>1, <1>3, <1>5, <2>1, <2>2, <2>3, <2>4, StrategyStep
  <1> QED
    BY <1>4, <1>5 DEF ClearStrategies, StrategiesOf

LEMMA InsertStrategiesStep ==
    ASSUME AccountsInv, NEW r \in Requests, InsertStrategies(r), NEW i, i = Subject(r)
    PROVE  AccountsInv'
  <1>1. StepOf(r) = "insert" /\ StepOf(r) \in StrategySteps
    BY AtStep DEF InsertStrategies, StrategySteps
  <1>2. i \in Numbers /\ i \in Nat /\ AccountsTyped
    BY <1>1, AtRow
  <1>3. UNCHANGED <<acAccounts, acRows, acKey, acLost, acStranded>>
    BY DEF InsertStrategies, acRowVars
  <1>4. /\ acAssigned \in Seq(SUBSET Assignable) /\ Len(acAssigned) = Len(acAccounts)
        /\ acKey' \in Seq(SUBSET Assignable) /\ Len(acKey') = Len(acAccounts)
        /\ acAssigned[i] \in SUBSET Assignable
    BY <1>2, <1>3 DEF AccountsTyped, Numbers
  <1>5. CASE Disturbed(r) /\ UNCHANGED acAssigned
    BY <1>1, <1>3, <1>5, DisturbedStep
  <1>6. CASE EndRequest(r) /\ UNCHANGED acAssigned /\ acUnsynced' = acUnsynced \cup {i}
    <2>1. RequestsTyped' /\ OnlyRequest(r) /\ StepOf(r)' = "rest"
      BY <1>2, <1>6, Ends
    <2> QED
      BY <1>1, <1>3, <1>4, <1>6, <2>1, StrategyStep
  <1>7. CASE /\ RequestTo(r, "key", i) /\ UNCHANGED acUnsynced
             /\ acAssigned' = [acAssigned EXCEPT ![i] = @ \cup StrategiesOf(r)]
    <2>1. RequestsTyped' /\ OnlyRequest(r) /\ StepOf(r)' = "key" /\ Subject(r)' = i /\ StrategiesOf(r)' = StrategiesOf(r)
      <3>1. "key" \in StrategySteps
        BY DEF StrategySteps
      <3> QED
        BY <1>1, <1>2, <1>7, <3>1, StrategiesGo, Zenon
    <2>2. StrategiesOf(r) \in SUBSET Assignable
      BY <1>1, <1>2, RequestKnown
    <2>3. acAssigned' = [acAssigned EXCEPT ![i] = acAssigned[i] \cup StrategiesOf(r)]
      BY <1>7
    <2>4. /\ acAssigned' \in Seq(SUBSET Assignable) /\ Len(acAssigned') = Len(acAccounts)
          /\ acAssigned'[i] = acAssigned[i] \cup StrategiesOf(r)
          /\ \A j \in Numbers \ {i} : acAssigned'[j] = acAssigned[j]
      <3> DEFINE v == acAssigned[i] \cup StrategiesOf(r)
      <3>1. v \in SUBSET Assignable
        BY <1>4, <2>2
      <3>2. acAssigned' = [acAssigned EXCEPT ![i] = v]
        BY <2>3
      <3> HIDE DEF v
      <3>3. /\ acAssigned' \in Seq(SUBSET Assignable) /\ Len(acAssigned') = Len(acAccounts)
            /\ acAssigned'[i] = v
            /\ \A j \in Numbers \ {i} : acAssigned'[j] = acAssigned[j]
        BY <1>2, <1>4, <3>1, <3>2, AssignedTo
      <3> QED
        BY <3>3 DEF v
    <2>5. i \in acRows \ acUnsynced => acAssigned[i] = {}
      BY <1>1 DEF AccountsInv, StrategyInv
    <2> QED
      BY <1>1, <1>3, <1>4, <1>7, <2>1, <2>4, <2>5, StrategyStep DEF StrategySteps
  <1> QED
    BY <1>5, <1>6, <1>7 DEF InsertStrategies, StrategiesOf

LEMMA SetKeyStep ==
    ASSUME AccountsInv, NEW r \in Requests, SetKey(r), NEW i, i = Subject(r)
    PROVE  AccountsInv'
  <1>1. StepOf(r) = "key" /\ StepOf(r) \in StrategySteps
    BY AtStep DEF SetKey, StrategySteps
  <1>2. i \in Numbers /\ AccountsTyped
    BY <1>1, AtRow
  <1>3. UNCHANGED <<acAccounts, acRows, acAssigned, acLost, acStranded>>
    BY DEF SetKey, acRowVars
  <1>4. CASE Disturbed(r) /\ UNCHANGED acKey
    BY <1>1, <1>3, <1>4, DisturbedStep
  <1>5. CASE EndRequest(r) /\ UNCHANGED acUnsynced /\ acKey' = [acKey EXCEPT ![i] = StrategiesOf(r)]
    <2>1. RequestsTyped' /\ OnlyRequest(r) /\ StepOf(r)' = "rest"
      BY <1>2, <1>5, Ends
    <2>2. StrategiesOf(r) \in SUBSET Assignable
      BY <1>1, <1>2, RequestKnown
    <2>3. /\ acKey \in Seq(SUBSET Assignable) /\ Len(acKey) = Len(acAccounts)
          /\ acAssigned' \in Seq(SUBSET Assignable) /\ Len(acAssigned') = Len(acAccounts)
      BY <1>2, <1>3 DEF AccountsTyped
    <2>4. /\ acKey' \in Seq(SUBSET Assignable) /\ Len(acKey') = Len(acAccounts)
          /\ acKey'[i] = StrategiesOf(r) /\ \A j \in Numbers \ {i} : acKey'[j] = acKey[j]
      BY <1>2, <1>5, <2>2, <2>3, AssignedTo
    <2>5. i \in acRows \ acUnsynced => acAssigned[i] = StrategiesOf(r)
      BY <1>1 DEF AccountsInv, StrategyInv
    <2> QED
      BY <1>1, <1>3, <1>5, <2>1, <2>3, <2>4, <2>5, StrategyStep
  <1> QED
    BY <1>4, <1>5 DEF SetKey, StrategiesOf

-----------------------------------------------------------------------------
(* The backend starts again; and the whole. *)

LEMMA SubjectsOf ==
    ASSUME NEW steps, "rest" \notin steps
    PROVE  SubjectsAt(steps) = {Subject(r) : r \in {q \in Requests : StepOf(q) \in steps}}
  <1>1. ASSUME NEW q \in Requests
        PROVE  (\E step \in steps : RequestAt(q, step)) <=> StepOf(q) \in steps
    BY DEF RequestAt, StepOf
  <1> QED
    BY <1>1 DEF SubjectsAt

LEMMA RestartStep ==
    ASSUME AccountsInv, BackendRestarts
    PROVE  AccountsInv'
  <1> DEFINE at(steps) == {Subject(r) : r \in {q \in Requests : StepOf(q) \in steps}}
             synced == {i \in Numbers : acAssigned[i] # {}}
  <1>1. /\ SubjectsAt({"deploy new", "save"}) = at({"deploy new", "save"})
        /\ SubjectsAt({"nullify", "delete"}) = at({"nullify", "delete"})
        /\ SubjectsAt(StrategySteps) = at(StrategySteps)
    <2>1. "rest" \notin {"deploy new", "save"} /\ "rest" \notin {"nullify", "delete"} /\ "rest" \notin StrategySteps
      BY DEF StrategySteps
    <2> QED
      BY <2>1, SubjectsOf
  <1>2. /\ UNCHANGED <<acAccounts, acRows, acAssigned>>
        /\ acRequest' = [r \in Requests |-> <<>>]
        /\ acLost' = acLost \cup (at({"deploy new", "save"}) \ {0})
        /\ acStranded' = acStranded \cup at({"nullify", "delete"})
        /\ \/ /\ acKey' = [i \in Numbers |-> IF i \in synced THEN acAssigned[i] ELSE acKey[i]]
              /\ acUnsynced' = (acUnsynced \cup at(StrategySteps)) \ synced
           \/ /\ UNCHANGED acKey
              /\ acUnsynced' = acUnsynced \cup at(StrategySteps)
    BY <1>1 DEF BackendRestarts, acRowVars
  <1>3. AccountsTyped /\ acRows \subseteq Numbers /\ 0 \notin Numbers
    BY RowsAreNumbers DEF AccountsInv
  <1>4. /\ Numbers' = Numbers
        /\ \A j : Provider(j)' = Provider(j) /\ (Absent(j)' <=> Absent(j))
    BY <1>2, AccountsSame
  <1>5. RequestsTyped' /\ \A r \in Requests : StepOf(r)' = "rest"
    BY <1>2 DEF RequestsTyped, StepOf
  <1>6. acKey' \in Seq(SUBSET Assignable) /\ Len(acKey') = Len(acAccounts)
    <2>1. /\ acKey \in Seq(SUBSET Assignable) /\ Len(acKey) = Len(acAccounts)
          /\ acAssigned \in Seq(SUBSET Assignable) /\ Len(acAssigned) = Len(acAccounts)
          /\ Len(acAccounts) \in Nat
      BY <1>3 DEF AccountsTyped
    <2>2. ASSUME acKey' = [i \in Numbers |-> IF i \in synced THEN acAssigned[i] ELSE acKey[i]]
          PROVE  acKey' \in Seq(SUBSET Assignable) /\ Len(acKey') = Len(acAccounts)
      <3>1. \A i \in 1..Len(acAccounts) : (IF i \in synced THEN acAssigned[i] ELSE acKey[i]) \in SUBSET Assignable
        BY <2>1
      <3>2. acKey' \in [1..Len(acAccounts) -> SUBSET Assignable]
        BY <2>2, <3>1 DEF Numbers
      <3>3. acKey' \in Seq(SUBSET Assignable)
        BY <2>1, <3>2
      <3>4. DOMAIN acKey' = 1..Len(acAccounts)
        BY <3>2
      <3> QED
        BY <2>1, <3>3, <3>4
    <2> QED
      BY <1>2, <2>1, <2>2
  <1>7. AccountsTyped'
    BY <1>2, <1>3, <1>4, <1>5, <1>6 DEF AccountsTyped, RequestsTyped
  <1>8. RequestsInv' /\ StrategyInv'
    BY <1>5 DEF RequestsInv, StrategyInv, Pending, RowSteps, StrategySteps
  <1>9. StrayAccounts'
    BY <1>2, <1>3, <1>4 DEF AccountsInv, StrayAccounts
  <1>10. StrayRows'
    BY <1>2, <1>3, <1>4 DEF AccountsInv, StrayRows
  <1>11. KeysFollow'
    <2>1. ASSUME NEW i \in acRows, i \notin acUnsynced, i \notin at(StrategySteps)
          PROVE  acKey[i] = acAssigned[i]
      BY <2>1 DEF AccountsInv, KeysFollow
    <2>2. ASSUME NEW i \in acRows, i \notin acUnsynced' PROVE acKey'[i] = acAssigned'[i]
      <3>1. i \in Numbers
        BY <1>3
      <3> QED
        BY <1>2, <2>1, <2>2, <3>1
    <2> QED
      BY <1>2, <2>2 DEF KeysFollow
  <1> QED
    BY <1>7, <1>8, <1>9, <1>10, <1>11 DEF AccountsInv

LEMMA Untouched ==
    ASSUME AccountsInv,
           UNCHANGED <<acAccounts, acRows, acAssigned, acKey, acRequest, acLost, acStranded, acUnsynced>>
    PROVE  AccountsInv'
  <1>1. /\ Numbers' = Numbers
        /\ \A j : Provider(j)' = Provider(j) /\ (Absent(j)' <=> Absent(j))
    BY AccountsSame
  <1>2. \A r : /\ StepOf(r)' = StepOf(r) /\ Subject(r)' = Subject(r)
               /\ Made(r)' <=> Made(r)
               /\ StrategiesOf(r)' = StrategiesOf(r)
    BY DEF StepOf, Subject, Made, StrategiesOf
  <1>3. AccountsTyped'
    BY <1>1 DEF AccountsInv, AccountsTyped
  <1>4. RequestsInv'
    BY <1>1, <1>2 DEF AccountsInv, RequestsInv, Pending
  <1>5. StrategyInv' /\ StrayAccounts' /\ StrayRows' /\ KeysFollow'
    BY <1>1, <1>2 DEF AccountsInv, StrategyInv, StrayAccounts, StrayRows, KeysFollow
  <1> QED
    BY <1>3, <1>4, <1>5 DEF AccountsInv

LEMMA AccountsBegin == AccountsInit => AccountsInv
  <1> SUFFICES ASSUME AccountsInit PROVE AccountsInv
    OBVIOUS
  <1>1. \A r \in Requests : StepOf(r) = "rest"
    BY DEF AccountsInit, StepOf
  <1>2. AccountsTyped /\ Numbers = {} /\ acRows = {}
    BY DEF AccountsInit, AccountsTyped, Numbers
  <1> QED
    BY <1>1, <1>2 DEF AccountsInv, RequestsInv, StrategyInv, StrayAccounts, StrayRows, KeysFollow, Pending, RowSteps, StrategySteps

LEMMA AccountsStep == AccountsInv /\ [AccountsNext]_acVars => AccountsInv'
  <1> SUFFICES ASSUME AccountsInv, [AccountsNext]_acVars PROVE AccountsInv'
    OBVIOUS
  <1>1. ASSUME NEW r \in Requests, Provision(r) PROVE AccountsInv'
    BY <1>1, ProvisionStep
  <1>2. ASSUME NEW r \in Requests, DeployNew(r) PROVE AccountsInv'
    BY <1>2, DeployNewStep
  <1>3. ASSUME NEW r \in Requests, SaveRow(r) PROVE AccountsInv'
    BY <1>3, SaveRowStep
  <1>4. ASSUME NEW r \in Requests, RemoveRemote(r) \/ Nullify(r) \/ DeleteRow(r) \/ SaveUpdate(r)
        PROVE  AccountsInv'
    BY <1>4, RemoveRemoteStep, NullifyStep, DeleteRowStep, SaveUpdateStep
  <1>5. ASSUME NEW r \in Requests, DeployAccount(r) \/ UndeployAccount(r) PROVE AccountsInv'
    BY <1>5, DeployRemoteStep DEF DeployAccount, UndeployAccount
  <1>6. ASSUME NEW r \in Requests, ClearStrategies(r) \/ InsertStrategies(r) \/ SetKey(r)
        PROVE  AccountsInv'
    BY <1>6, ClearStrategiesStep, InsertStrategiesStep, SetKeyStep
  <1>7. ASSUME NEW i \in acRows, Refer(i) PROVE AccountsInv'
    BY <1>7, Untouched DEF Refer, acStrategyVars
  <1>8. CASE UNCHANGED acVars
    BY <1>8, Untouched DEF acVars, acRowVars, acStrategyVars
  <1> QED
    BY <1>1, <1>2, <1>3, <1>4, <1>5, <1>6, <1>7, <1>8, BeginSteps, RestartStep DEF AccountsNext

(* AccountsService: whatever requests interleave, fail or are cut short, an account at       *)
(* MetaApi has a row or is known lost, a row has its account or its removal got no further,   *)
(* and the key of an account says what the table says.                                       *)
THEOREM AccountsStayKept == AccountsSpec => []AccountsAreKept
  <1>1. AccountsInv => AccountsAreKept
    <2> SUFFICES ASSUME AccountsInv PROVE AccountsAreKept
      OBVIOUS
    <2>1. /\ \A i : i \in SubjectsAt({"deploy new", "save"})
                        <=> \E r \in Requests : StepOf(r) \in {"deploy new", "save"} /\ Subject(r) = i
          /\ \A i : i \in SubjectsAt({"nullify", "delete"})
                        <=> \E r \in Requests : StepOf(r) \in {"nullify", "delete"} /\ Subject(r) = i
          /\ \A i : i \in SubjectsAt(StrategySteps)
                        <=> \E r \in Requests : StepOf(r) \in StrategySteps /\ Subject(r) = i
      <3>1. "rest" \notin {"deploy new", "save"} /\ "rest" \notin {"nullify", "delete"} /\ "rest" \notin StrategySteps
        BY DEF StrategySteps
      <3>2. /\ SubjectsAt({"deploy new", "save"})
                    = {Subject(r) : r \in {q \in Requests : StepOf(q) \in {"deploy new", "save"}}}
            /\ SubjectsAt({"nullify", "delete"})
                    = {Subject(r) : r \in {q \in Requests : StepOf(q) \in {"nullify", "delete"}}}
            /\ SubjectsAt(StrategySteps)
                    = {Subject(r) : r \in {q \in Requests : StepOf(q) \in StrategySteps}}
        BY <3>1, SubjectsOf
      <3> QED
        BY <3>2
    <2>2. NoStrayAccount
      BY <2>1 DEF AccountsInv, StrayAccounts, NoStrayAccount
    <2>3. NoStrayRow
      BY <2>1 DEF AccountsInv, StrayRows, NoStrayRow
    <2>4. StrategiesFollow
      BY <2>1 DEF AccountsInv, KeysFollow, StrategiesFollow
    <2> QED
      BY <2>2, <2>3, <2>4 DEF AccountsAreKept
  <1> QED
    BY <1>1, AccountsBegin, AccountsStep, PTL DEF AccountsSpec

-----------------------------------------------------------------------------
(* The cache of connections. *)

Places == {"rest", "look up", "take", "connect", "reconnect", "ask", "ask again",
           "deploy", "evict", "leave"}
Operations == {"none", "details", "positions", "symbols", "deploy", "undeploy", "remove"}
CallRecords == [op : Operations, at : Places, conn : Nat]
Readers == {"details", "positions", "symbols"}
Waits == {"connect", "reconnect"}

CallsOK ==
  /\ cnCall \in [ConnectionCalls -> CallRecords] /\ cnMade \in Nat
  /\ \A c \in ConnectionCalls : ~Under(c) => cnCall[c] = Resting
  /\ \A c \in ConnectionCalls : cnCall[c].at \in Waits => cnCall[c].conn # 0

\* A call that is alone finds the cache as it left it.
AsLeft(call) ==
  /\ (call.at = "ask" /\ cnCache # 0) => cnCache = call.conn
  /\ (call.at \in Waits /\ call.op # "deploy") => cnCache \notin cnOpen

Alone ==
  \A c \in cnAlone :
    /\ c \in ConnectionCalls
    /\ \A d \in ConnectionCalls : Under(d) => d = c
    /\ AsLeft(cnCall[c])

LateIsKnown == (Leaving /\ cnCache # 0) => cnCache \in cnLate

ConnectionsInv ==
  /\ CallsOK /\ Alone /\ LateIsKnown
  /\ CachedIsOpen /\ OpenIsOwned /\ 0 \notin cnOpen /\ cnCache \in Nat

-----------------------------------------------------------------------------
\* A call under way or a new one becomes r: the calls stay what they may be, and whether one
\* is alone is a question about that call only.
LEMMA CallMoves ==
  ASSUME ConnectionsInv, NEW c \in ConnectionCalls, NEW r \in CallRecords,
         cnCall' = [cnCall EXCEPT ![c] = r], cnMade' \in Nat,
         \/ r.op = cnCall[c].op /\ Under(c) /\ cnAlone' = cnAlone
         \/ r = Resting /\ Under(c) /\ cnAlone' = cnAlone \ {c}
         \/ /\ r.op # "none"
            /\ cnAlone' = IF \E d \in ConnectionCalls : Under(d) THEN {} ELSE {c},
         r.at \in Waits => r.conn # 0,
         c \in cnAlone' => AsLeft(r)'
  PROVE  CallsOK' /\ Alone'
<1> USE DEF ConnectionsInv, Under
<1>1. CallsOK'
  BY DEF CallsOK, Resting
<1>2. Alone'
  <2> SUFFICES ASSUME NEW d \in cnAlone'
               PROVE  /\ d \in ConnectionCalls
                      /\ \A e \in ConnectionCalls : Under(e)' => e = d
                      /\ AsLeft(cnCall[d])'
    BY DEF Alone
  <2>1. d = c
    BY DEF Alone, CallsOK, Resting
  <2>2. cnCall'[d] = r
    BY <2>1 DEF CallsOK
  <2>3. \A e \in ConnectionCalls : Under(e)' => e = d
    BY <2>1 DEF Alone, CallsOK, Resting
  <2> QED
    BY <2>1, <2>2, <2>3
<1> QED BY <1>1, <1>2

\* A step that only moves a call, to another place than "leave", or to rest.
LEMMA CallOnlyMoves ==
  ASSUME ConnectionsInv, NEW c \in ConnectionCalls, NEW r \in CallRecords,
         cnCall' = [cnCall EXCEPT ![c] = r], cnMade' \in Nat,
         UNCHANGED <<cnCache, cnOpen, cnLate>>, cnState' \in {cnState, "DEPLOYED"},
         cnStray \subseteq cnStray',
         \/ r.op = cnCall[c].op /\ Under(c) /\ cnAlone' = cnAlone
         \/ r = Resting /\ Under(c) /\ cnAlone' = cnAlone \ {c}
         \/ /\ r.op # "none"
            /\ cnAlone' = IF \E d \in ConnectionCalls : Under(d) THEN {} ELSE {c},
         r.at # "leave", r.at \in Waits => r.conn # 0,
         c \in cnAlone' => AsLeft(r)
  PROVE  ConnectionsInv'
<1>1. CallsOK' /\ Alone'
  BY CallMoves DEF AsLeft
<1>2. LateIsKnown'
  BY DEF ConnectionsInv, LateIsKnown, Leaving, CallAt, CallsOK
<1> QED
  BY <1>1, <1>2 DEF ConnectionsInv, CachedIsOpen, Usable, OpenIsOwned

LEMMA RestIsARecord == Resting \in CallRecords
BY DEF Resting, CallRecords, Operations, Places

\* A call begins.
LEMMA CallBegins ==
  ASSUME ConnectionsInv, NEW c \in ConnectionCalls, NEW op \in Operations \ {"none"},
         NEW at \in {"look up", "deploy", "evict"}, BeginCall(c, op, at)
  PROVE  ConnectionsInv'
<1> DEFINE r == [op |-> op, at |-> at, conn |-> 0]
<1>1. /\ r \in CallRecords /\ r.op # "none" /\ r.at \notin Waits /\ r.at # "leave"
      /\ AsLeft(r)
  BY DEF CallRecords, Operations, Places, Waits, AsLeft
<1>2. cnCall' = [cnCall EXCEPT ![c] = r] /\ cnMade' \in Nat
  BY DEF BeginCall, ConnectionsInv, CallsOK
<1> HIDE DEF r
<1> QED
  BY <1>1, <1>2, CallOnlyMoves DEF BeginCall

\* A call returns, and changes nothing but what is known to be given up.
LEMMA CallReturns ==
  ASSUME ConnectionsInv, NEW c \in ConnectionCalls, Under(c), Return(c),
         UNCHANGED <<cnState, cnCache, cnOpen, cnMade, cnLate>>,
         cnStray \subseteq cnStray'
  PROVE  ConnectionsInv'
<1>1. c \notin cnAlone' /\ Resting.at = "rest" /\ cnMade' \in Nat
  BY DEF Return, Resting, ConnectionsInv, CallsOK
<1> QED
  BY <1>1, CallOnlyMoves, RestIsARecord DEF Return, Waits

\* A call goes on to a place and changes nothing else.
LEMMA CallGoesOn ==
  ASSUME ConnectionsInv, NEW c \in ConnectionCalls, Under(c),
         NEW at \in Places \ {"leave"}, NEW conn \in Nat, GoOn(c, at, conn),
         cnMade' \in Nat, UNCHANGED <<cnCache, cnOpen, cnStray, cnLate>>,
         cnState' \in {cnState, "DEPLOYED"},
         at \in Waits => conn # 0,
         c \in cnAlone => /\ at = "ask" => conn = cnCache
                          /\ (at \in Waits /\ cnCall[c].op # "deploy") => cnCache \notin cnOpen
  PROVE  ConnectionsInv'
<1> DEFINE r == [op |-> cnCall[c].op, at |-> at, conn |-> conn]
<1>1. cnCall[c].op \in Operations
  BY DEF ConnectionsInv, CallsOK, CallRecords
<1>2. r \in CallRecords /\ r.op = cnCall[c].op /\ r.at = at /\ r.conn = conn
  BY <1>1 DEF CallRecords
<1>3. c \in cnAlone => AsLeft(r)
  BY <1>2 DEF AsLeft
<1>4. cnCall' = [cnCall EXCEPT ![c] = r] /\ cnAlone' = cnAlone
  BY DEF GoOn
<1> HIDE DEF r
<1> QED
  BY <1>2, <1>3, <1>4, CallOnlyMoves

\* The same for a call that is given a new connection.
LEMMA CallConnects ==
  ASSUME ConnectionsInv, NEW c \in ConnectionCalls, Under(c), NEW at \in Waits,
         Connecting(c, at), UNCHANGED <<cnCache, cnOpen, cnStray, cnLate>>,
         cnState' \in {cnState, "DEPLOYED"},
         (c \in cnAlone /\ cnCall[c].op # "deploy") => cnCache \notin cnOpen
  PROVE  ConnectionsInv'
<1>1. cnMade \in Nat
  BY DEF ConnectionsInv, CallsOK
<1>2. cnMade + 1 \in Nat /\ cnMade + 1 # 0
  BY <1>1
<1>3. at \in Places \ {"leave"} /\ at # "ask"
  BY DEF Waits, Places
<1> QED
  BY <1>2, <1>3, CallGoesOn DEF Connecting

-----------------------------------------------------------------------------
\* A connection was made: the call that opened it caches it, and asks with it or returns.
LEMMA CallHasConnected ==
  ASSUME ConnectionsInv, NEW c \in ConnectionCalls, NEW op \in Operations \ {"none"},
         NEW at \in Waits, Connect(c, op, at),
         \/ op # "deploy" /\ \E to \in {"ask", "ask again"} : CallTo(c, to)
         \/ Return(c)
  PROVE  ConnectionsInv'
<1> USE DEF Connect
<1>1. /\ Under(c) /\ Held(c) \in Nat \ {0} /\ cnCall[c].op = op /\ cnCall[c].at = at
      /\ cnMade' \in Nat
  BY DEF ConnectionsInv, CallsOK, CallRecords, CallAt, Under, Held
<1>2. PICK r \in CallRecords :
        /\ cnCall' = [cnCall EXCEPT ![c] = r]
        /\ \/ /\ r.op = cnCall[c].op /\ cnAlone' = cnAlone
              /\ r.conn = Held(c) /\ r.at \in {"ask", "ask again"}
           \/ r = Resting /\ cnAlone' = cnAlone \ {c} /\ r.at = "rest"
  <2>1. CASE Return(c)
    BY <2>1, RestIsARecord DEF Return, Resting
  <2>2. CASE op # "deploy" /\ \E to \in {"ask", "ask again"} : CallTo(c, to)
    <3> PICK to \in {"ask", "ask again"} : CallTo(c, to)
      BY <2>2
    <3> DEFINE r == [op |-> cnCall[c].op, at |-> to, conn |-> Held(c)]
    <3>1. /\ r \in CallRecords /\ r.op = cnCall[c].op /\ r.conn = Held(c)
          /\ r.at \in {"ask", "ask again"}
      BY <1>1 DEF CallRecords, Places
    <3>2. cnCall' = [cnCall EXCEPT ![c] = r] /\ cnAlone' = cnAlone
      BY DEF CallTo, GoOn
    <3> HIDE DEF r
    <3> QED BY <3>1, <3>2
  <2> QED BY <2>1, <2>2
<1>3. CallsOK' /\ Alone'
  <2>1. c \in cnAlone' => AsLeft(r)'
    BY <1>1, <1>2 DEF AsLeft, Waits
  <2> QED
    BY <1>1, <1>2, <2>1, CallMoves DEF Waits
<1>4. LateIsKnown'
  BY <1>1, <1>2 DEF ConnectionsInv, CallsOK, LateIsKnown, Leaving, CallAt
<1>5. OpenIsOwned'
  <2> SUFFICES ASSUME NEW n \in cnOpen, n # Held(c)
               PROVE  n \in cnStray'
    BY DEF OpenIsOwned
  <2>1. CASE n \in cnStray
    BY <2>1 DEF Displaces
  <2>2. CASE n = cnCache
    <3>1. ~(c \in cnAlone /\ cnCall[c].op # "deploy")
      BY <1>1, <2>2 DEF ConnectionsInv, Alone, AsLeft
    <3> QED BY <2>2, <3>1 DEF Displaces
  <2> QED BY <2>1, <2>2 DEF ConnectionsInv, OpenIsOwned
<1>6. CachedIsOpen' /\ (0 \notin cnOpen)'
  BY <1>1 DEF CachedIsOpen, Usable, ConnectionsInv
<1> QED
  BY <1>1, <1>3, <1>4, <1>5, <1>6 DEF ConnectionsInv

\* A connection was not made, and stays open or was never opened.
LEMMA CallHasNotConnected ==
  ASSUME ConnectionsInv, NEW c \in ConnectionCalls, NEW op \in Operations \ {"none"},
         NEW at \in Waits, ConnectFails(c, op, at)
  PROVE  ConnectionsInv'
<1> USE DEF ConnectFails
<1>1. /\ Under(c) /\ Held(c) # 0 /\ c \notin cnAlone' /\ cnMade' \in Nat
      /\ Resting.at = "rest"
  BY DEF ConnectionsInv, CallsOK, CallAt, Under, Held, Return, Resting
<1>2. CallsOK' /\ Alone'
  BY <1>1, CallMoves, RestIsARecord DEF Return, Waits
<1>3. LateIsKnown'
  BY <1>1 DEF ConnectionsInv, CallsOK, LateIsKnown, Leaving, CallAt, Return
<1> QED
  BY <1>1, <1>2, <1>3 DEF ConnectionsInv, OpenIsOwned, CachedIsOpen, Usable

\* A request failed: the cache is empty, and what was in it is stray unless the call is alone.
LEMMA CallIsRefused ==
  ASSUME ConnectionsInv, NEW c \in ConnectionCalls, NEW op \in Readers, Refused(c, op)
  PROVE  ConnectionsInv'
<1> USE DEF Refused
<1> DEFINE r == [op |-> cnCall[c].op, at |-> "reconnect", conn |-> cnMade + 1]
<1>1. /\ Under(c) /\ cnCall[c].op \in Operations \ {"deploy"} /\ cnCall[c].at = "ask"
      /\ cnMade \in Nat
  BY DEF ConnectionsInv, CallsOK, CallRecords, CallAt, Under, Readers
<1>2. /\ r \in CallRecords /\ r.op = cnCall[c].op /\ r.at = "reconnect" /\ r.conn # 0
      /\ cnMade' \in Nat
  BY <1>1 DEF CallRecords, Places, Connecting
<1>3. cnCall' = [cnCall EXCEPT ![c] = r] /\ cnAlone' = cnAlone
  BY DEF Connecting, GoOn
<1> HIDE DEF r
<1> PICK s : s = r
  OBVIOUS
<1>4. CallsOK' /\ Alone'
  <2>1. AsLeft(s)'
    BY <1>2 DEF AsLeft, ConnectionsInv
  <2> QED
    BY <1>1, <1>2, <1>3, <2>1, CallMoves
<1>5. OpenIsOwned'
  <2> SUFFICES ASSUME NEW n \in cnOpen, n # Held(c), n = cnCache
               PROVE  n \in cnStray'
    BY DEF ConnectionsInv, OpenIsOwned, Displaces
  <2>1. n # 0
    BY DEF ConnectionsInv
  <2>2. c \notin cnAlone
    BY <1>1, <2>1 DEF ConnectionsInv, Alone, AsLeft, Held
  <2> QED BY <2>1, <2>2 DEF Displaces
<1> QED
  BY <1>4, <1>5 DEF ConnectionsInv, LateIsKnown, CachedIsOpen

\* undeploy and remove empty the cache before the account leaves.
LEMMA CallEvicts ==
  ASSUME ConnectionsInv, NEW c \in ConnectionCalls, NEW op \in {"undeploy", "remove"},
         Evict(c, op)
  PROVE  ConnectionsInv'
<1> USE DEF Evict
<1> DEFINE r == [op |-> cnCall[c].op, at |-> "leave", conn |-> Held(c)]
<1>1. /\ Under(c) /\ cnCall[c].op \in Operations /\ Held(c) \in Nat /\ cnMade' \in Nat
  BY DEF ConnectionsInv, CallsOK, CallRecords, CallAt, Under, Held
<1>2. r \in CallRecords /\ r.op = cnCall[c].op /\ r.at = "leave"
  BY <1>1 DEF CallRecords, Places
<1>3. cnCall' = [cnCall EXCEPT ![c] = r] /\ cnAlone' = cnAlone
  BY DEF CallTo, GoOn
<1> HIDE DEF r
<1>4. CallsOK' /\ Alone'
  BY <1>1, <1>2, <1>3, CallMoves DEF AsLeft, Waits
<1> QED
  BY <1>4 DEF ConnectionsInv, OpenIsOwned, LateIsKnown, CachedIsOpen

\* The account leaves, while it was known to be leaving.
LEMMA CallLeaves ==
  ASSUME ConnectionsInv, NEW c \in ConnectionCalls, NEW op \in {"undeploy", "remove"},
         NEW states, Leave(c, op, states)
  PROVE  ConnectionsInv'
<1> USE DEF Leave
<1>1. /\ Under(c) /\ c \notin cnAlone' /\ cnMade' \in Nat /\ Resting.at = "rest"
      /\ Leaving
  BY DEF ConnectionsInv, CallsOK, CallAt, Under, Return, Resting, Leaving
<1>2. CallsOK' /\ Alone'
  BY <1>1, CallMoves, RestIsARecord DEF Return, Waits
<1> QED
  BY <1>1, <1>2 DEF ConnectionsInv, LateIsKnown, OpenIsOwned, CachedIsOpen, Usable

-----------------------------------------------------------------------------
\* A call that asks the account something
LEMMA ReadsKeepInv ==
  ASSUME ConnectionsInv, NEW c \in ConnectionCalls, NEW op \in Readers,
         NEW connecting \in Waits, Reads(c, op, connecting)
  PROVE  ConnectionsInv'
<1>1. op \in Operations \ {"none"} /\ op # "deploy"
  BY DEF Readers, Operations
<1>2. ASSUME NEW at, CallAt(c, op, at)
      PROVE  /\ Under(c) /\ cnCall[c].op = op /\ cnCall[c].at = at
             /\ Held(c) \in Nat /\ cnMade \in Nat
  BY <1>1, <1>2 DEF CallAt, Under, Held, ConnectionsInv, CallsOK, CallRecords
<1>3. CASE BeginCall(c, op, "look up")
  BY <1>1, <1>3, CallBegins
<1>4. CASE LookUp(c, op)
  <2>1. Under(c) /\ Held(c) \in Nat /\ cnMade' \in Nat
    BY <1>2, <1>4 DEF LookUp
  <2>2. CASE Return(c)
    BY <1>4, <2>1, <2>2, CallReturns DEF LookUp
  <2>3. CASE CallTo(c, "take")
    BY <1>4, <2>1, <2>3, CallGoesOn DEF LookUp, CallTo, Places, Waits
  <2> QED BY <1>4, <2>2, <2>3 DEF LookUp
<1>5. CASE Take(c, op, connecting)
  <2>1. Under(c) /\ cnMade \in Nat
    BY <1>2, <1>5 DEF Take
  <2>2. CASE ~Usable /\ Connecting(c, connecting)
    BY <1>5, <2>1, <2>2, CallConnects DEF Take, Usable
  <2>3. CASE Usable /\ GoOn(c, "ask", cnCache) /\ UNCHANGED cnMade
    <3>1. cnCache \in Nat
      BY DEF ConnectionsInv
    <3> QED
      BY <1>5, <2>1, <2>3, <3>1, CallGoesOn DEF Take, Places, Waits
  <2> QED BY <1>5, <2>2, <2>3 DEF Take
<1>6. CASE \E at \in Waits : Connect(c, op, at) /\ \E to \in {"ask", "ask again"} : CallTo(c, to)
  BY <1>1, <1>6, CallHasConnected
<1>7. CASE \E at \in Waits : ConnectFails(c, op, at)
  BY <1>1, <1>7, CallHasNotConnected
<1>8. CASE \E at \in {"ask", "ask again"} : CallAnswered(c, op, at)
  BY <1>2, <1>8, CallReturns DEF CallAnswered
<1>9. CASE Refused(c, op)
  BY <1>9, CallIsRefused
<1>10. CASE RefusedAgain(c, op)
  BY <1>2, <1>10, CallReturns DEF RefusedAgain
<1> QED
  BY <1>3, <1>4, <1>5, <1>6, <1>7, <1>8, <1>9, <1>10 DEF Reads, Waits

LEMMA DeployKeepsInv ==
  ASSUME ConnectionsInv, NEW c \in ConnectionCalls, DeployAgain(c)
  PROVE  ConnectionsInv'
<1>1. "deploy" \in Operations \ {"none"} /\ "connect" \in Waits
  BY DEF Operations, Waits
<1>2. CASE BeginCall(c, "deploy", "deploy")
  BY <1>1, <1>2, CallBegins
<1>3. CASE /\ CallAt(c, "deploy", "deploy")
           /\ \/ cnState # "absent" /\ cnState' = "DEPLOYED" /\ Connecting(c, "connect")
              \/ Return(c) /\ UNCHANGED <<cnState, cnMade>>
           /\ UNCHANGED <<cnCache, cnOpen, cnCalls, cnStray, cnLate>>
  <2>1. Under(c) /\ cnCall[c].op = "deploy"
    BY <1>3 DEF CallAt, Under
  <2>2. CASE cnState' = "DEPLOYED" /\ Connecting(c, "connect")
    BY <1>1, <1>3, <2>1, <2>2, CallConnects
  <2>3. CASE Return(c) /\ UNCHANGED <<cnState, cnMade>>
    BY <1>3, <2>1, <2>3, CallReturns
  <2> QED BY <1>3, <2>2, <2>3
<1>4. CASE Connect(c, "deploy", "connect") /\ Return(c)
  BY <1>1, <1>4, CallHasConnected
<1>5. CASE ConnectFails(c, "deploy", "connect")
  BY <1>1, <1>5, CallHasNotConnected
<1> QED
  BY <1>2, <1>3, <1>4, <1>5 DEF DeployAgain

LEMMA NextKeepsInv ==
  ASSUME ConnectionsInv, ConnectionsNext
  PROVE  ConnectionsInv'
<1> PICK c \in ConnectionCalls :
      GetDetails(c) \/ GetPositions(c) \/ GetSymbols(c)
      \/ DeployAgain(c) \/ UndeployAgain(c) \/ RemoveForGood(c)
  BY DEF ConnectionsNext
<1>1. CASE GetDetails(c)
  BY <1>1, ReadsKeepInv DEF GetDetails, Readers, Waits
<1>2. CASE GetPositions(c)
  BY <1>2, ReadsKeepInv DEF GetPositions, Readers, Waits
<1>3. CASE GetSymbols(c)
  <2>1. CASE Reads(c, "symbols", "reconnect")
    BY <2>1, ReadsKeepInv DEF Readers, Waits
  <2>2. CASE /\ CallAt(c, "symbols", "reconnect") /\ Connecting(c, "reconnect")
             /\ UNCHANGED <<cnState, cnCache, cnOpen, cnCalls, cnStray, cnLate>>
    <3>1. Under(c) /\ "reconnect" \in Waits /\ (c \in cnAlone => cnCache \notin cnOpen)
      BY <2>2 DEF ConnectionsInv, Alone, AsLeft, CallAt, Under, Waits
    <3> QED BY <2>2, <3>1, CallConnects
  <2> QED BY <1>3, <2>1, <2>2 DEF GetSymbols
<1>4. CASE DeployAgain(c)
  BY <1>4, DeployKeepsInv
<1>5. CASE UndeployAgain(c)
  BY <1>5, CallBegins, CallEvicts, CallLeaves DEF UndeployAgain, Operations
<1>6. CASE RemoveForGood(c)
  BY <1>6, CallBegins, CallEvicts, CallLeaves DEF RemoveForGood, Operations
<1> QED
  BY <1>1, <1>2, <1>3, <1>4, <1>5, <1>6

\* The cache of account_provisioner.py stays fit for the next call however many calls overlap,
\* fail and replace each other's connection: what it holds is open, what is open and not in it
\* was given up or belongs to an overlap, and nothing is kept of an account that left but what
\* a call under way put there.
THEOREM CacheStaysFit == ConnectionsSpec => []ConnectionsAreKept
<1>1. ConnectionsInit => ConnectionsInv
  BY DEF ConnectionsInit, ConnectionsInv, CallsOK, CallRecords, Operations, Places, Waits,
         Alone, AsLeft, LateIsKnown, CachedIsOpen, OpenIsOwned, Under, Resting
<1>2. ConnectionsInv /\ [ConnectionsNext]_cnVars => ConnectionsInv'
  <2> SUFFICES ASSUME ConnectionsInv, UNCHANGED cnVars
               PROVE  ConnectionsInv'
    BY NextKeepsInv
  <2> QED
    BY DEF cnVars, ConnectionsInv, CallsOK, Alone, AsLeft, LateIsKnown, Leaving, CallAt,
           CachedIsOpen, Usable, OpenIsOwned, Under
<1>3. ConnectionsInv => ConnectionsAreKept
  BY DEF ConnectionsInv, ConnectionsAreKept, GoneIsForgotten, LateIsKnown, Leaving
<1> QED
  BY <1>1, <1>2, <1>3, PTL DEF ConnectionsSpec
=============================================================================
