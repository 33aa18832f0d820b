-------------------------- MODULE AlgorithmManager --------------------------
(***************************************************************************)
(* The algorithms of the strategy engine: a directory of Python files, the *)
(* registry of the algorithms they define, the HTTP routes that upload,    *)
(* replace and delete algorithms, and the watcher thread that polls the    *)
(* directory.  A version stands for the content of a write and for the     *)
(* modification time it leaves; a file of no algorithm does not load.      *)
(***************************************************************************)
EXTENDS Naturals

CONSTANTS Files,
          Algs,           \* algorithm names; the file f"{name}.py" is the name itself
          Clients,        \* requests of the routes that may be in flight
          Ways,           \* who may change the directory: sets of "editor" and "routes"
          MaxWrites,      \* bound: versions written, the ones found at startup included
          MaxCalls        \* bound: requests

ASSUME AlgorithmsAssumption == Algs \subseteq Files /\ "broken" \notin Algs /\ "none" \notin Algs
ASSUME WritesAssumption == MaxWrites \in Nat \ {0} /\ MaxCalls \in Nat

VARIABLES
    by,          \* who changes the directory in this behaviour
    disk,        \* the directory: algorithm and version of each file
    written,     \* last version written
    registry,    \* version of each registered algorithm, 0 for none
    mtimes,      \* _file_mtimes, 0 for none
    watcher,     \* _check_for_changes
    call,        \* request of each client
    calls        \* requests so far

algVars == <<by, disk, written, registry, mtimes, watcher, call, calls>>

Missing == [alg |-> "none", ver |-> 0]
Broken(v) == [alg |-> "broken", ver |-> v]
Asleep == [pc |-> "asleep", seen |-> {}, todo |-> {}, at |-> "none", mtime |-> 0, got |-> Missing]
NoCall == [pc |-> "none", alg |-> "none", file |-> "none", put |-> Missing, got |-> Missing]

Contents == [alg : Algs \cup {"broken", "none"}, ver : 0 .. MaxWrites]
Present == {f \in Files : disk[f] # Missing}
Registered == {a \in Algs : registry[a] # 0}

AlgTypeOK ==
    /\ disk \in [Files -> Contents] /\ written \in 0 .. MaxWrites
    /\ registry \in [Algs -> 0 .. MaxWrites] /\ mtimes \in [Files -> 0 .. MaxWrites]
    /\ watcher.pc \in {"asleep", "list", "new", "modified", "load", "reload"}
    /\ watcher.seen \subseteq Files /\ watcher.todo \subseteq watcher.seen
    /\ watcher.got \in Contents
    /\ \A c \in Clients : /\ call[c].pc \in {"none", "remove", "write", "import", "register", "ok", "bad"}
                          /\ call[c].put \in Contents /\ call[c].got \in Contents
    /\ calls \in 0 .. MaxCalls

\* scan_and_load at startup: the files found are loaded, each with its own algorithm.
AlgInit ==
    /\ \E found \in SUBSET Algs :
         /\ disk = [f \in Files |-> IF f \in found THEN [alg |-> f, ver |-> 1] ELSE Missing]
         /\ registry = [a \in Algs |-> IF a \in found THEN 1 ELSE 0]
         /\ mtimes = [f \in Files |-> IF f \in found THEN 1 ELSE 0]
    /\ by \in Ways /\ written = 1 /\ watcher = Asleep /\ call = [c \in Clients |-> NoCall] /\ calls = 0

\* What importing a file of this content gives: an algorithm, or none.
Loads(content) == content.alg \in Algs

-----------------------------------------------------------------------------
\* Someone edits a file of the directory, always with the algorithm of its name.
Edit(f) ==
    /\ "editor" \in by /\ f \in Algs /\ written < MaxWrites
    /\ written' = written + 1
    /\ \E content \in {[alg |-> f, ver |-> written'], Broken(written')} :
         disk' = [disk EXCEPT ![f] = content]
    /\ UNCHANGED <<by, registry, mtimes, watcher, call, calls>>

-----------------------------------------------------------------------------
\* _check_for_changes, on the watcher thread.

StartPass ==
    /\ watcher.pc = "asleep"
    /\ watcher' = [Asleep EXCEPT !.pc = "list", !.seen = Present, !.todo = Present]
    /\ UNCHANGED <<by, disk, written, registry, mtimes, call, calls>>

ToNext(w) == [w EXCEPT !.pc = "list", !.at = "none", !.mtime = 0, !.got = Missing]

\* stat raises for a file that has gone since it was listed, and the pass ends there.
LookAt(f) ==
    /\ watcher.pc = "list" /\ f \in watcher.todo
    /\ LET m == disk[f].ver
           rest == [watcher EXCEPT !.todo = @ \ {f}] IN
       watcher' = CASE m = 0 -> Asleep
                    [] m > mtimes[f] -> [rest EXCEPT !.pc = IF mtimes[f] = 0 THEN "new" ELSE "modified",
                                                     !.at = f, !.mtime = m]
                    [] OTHER -> rest
    /\ UNCHANGED <<by, disk, written, registry, mtimes, call, calls>>

\* The module is executed; a new file is then loaded, a known one reloaded.
WatcherImports ==
    /\ watcher.pc \in {"new", "modified"}
    /\ LET content == disk[watcher.at]
           known == watcher.pc = "modified" IN
       IF Loads(content)
       THEN /\ watcher' = [watcher EXCEPT !.pc = IF known THEN "reload" ELSE "load", !.got = content]
            /\ UNCHANGED mtimes
       ELSE /\ watcher' = ToNext(watcher)
            /\ mtimes' = IF known THEN [mtimes EXCEPT ![watcher.at] = watcher.mtime] ELSE mtimes
    /\ UNCHANGED <<by, disk, written, registry, call, calls>>

\* Under the lock: only an algorithm that is not registered is registered.
Register(content) ==
    registry' = IF content.alg \in Registered THEN registry
                ELSE [registry EXCEPT ![content.alg] = content.ver]

\* The modification time of the file is recorded as it is now; without the file that raises.
Recorded(f) == [mtimes EXCEPT ![f] = IF disk[f] = Missing THEN @ ELSE disk[f].ver]

\* _load_algorithm_from_file under the lock, and the earlier time for a loaded file.
WatcherLoads ==
    /\ watcher.pc = "load"
    /\ Register(watcher.got)
    /\ mtimes' = IF watcher.got.alg \notin Registered /\ disk[watcher.at] # Missing
                 THEN [mtimes EXCEPT ![watcher.at] = watcher.mtime]
                 ELSE Recorded(watcher.at)
    /\ watcher' = ToNext(watcher)
    /\ UNCHANGED <<by, disk, written, call, calls>>

\* Fault: a reload records the time of the file as it is now, not as it was looked at.
SeenNow(f) == Recorded(f)

SeenAs(f) == [mtimes EXCEPT ![f] = watcher.mtime]

WatcherReloads ==
    /\ watcher.pc = "reload"
    /\ registry' = [registry EXCEPT ![watcher.got.alg] = watcher.got.ver]
    /\ mtimes' = SeenAs(watcher.at)
    /\ watcher' = ToNext(watcher)
    /\ UNCHANGED <<by, disk, written, call, calls>>

\* Files that were not listed are forgotten; their algorithms stay registered.
EndPass ==
    /\ watcher.pc = "list" /\ watcher.todo = {}
    /\ mtimes' = [f \in Files |-> IF f \in watcher.seen THEN mtimes[f] ELSE 0]
    /\ watcher' = Asleep
    /\ UNCHANGED <<by, disk, written, registry, call, calls>>

-----------------------------------------------------------------------------
\* The routes.

Begin(c, request) ==
    /\ "routes" \in by /\ call[c].pc \in {"none", "ok", "bad"} /\ calls < MaxCalls
    /\ calls' = calls + 1
    /\ call' = [call EXCEPT ![c] = request]

\* _find_file_for_algorithm: some file whose text has the quoted name.
FilesOf(a) == {f \in Files : disk[f].alg = a}
FileFor(a) == IF FilesOf(a) = {} THEN a ELSE CHOOSE f \in FilesOf(a) : TRUE

\* POST: a new file, or one more content for a file that is there.
Upload(c, f, a) ==
    /\ Begin(c, [NoCall EXCEPT !.pc = "write", !.file = f, !.put = [alg |-> a, ver |-> 0]])
    /\ UNCHANGED <<by, disk, written, registry, mtimes, watcher>>

\* PUT and PATCH of a registered algorithm: its file is found before it is removed.
Replace(c, a, b) ==
    /\ a \in Registered
    /\ Begin(c, [NoCall EXCEPT !.pc = "remove", !.alg = a, !.file = FileFor(a),
                             !.put = [alg |-> b, ver |-> 0]])
    /\ UNCHANGED <<by, disk, written, registry, mtimes, watcher>>

Delete(c, a) ==
    /\ a \in Registered
    /\ Begin(c, [NoCall EXCEPT !.pc = "remove", !.alg = a])
    /\ UNCHANGED <<by, disk, written, registry, mtimes, watcher>>

\* remove_algorithm under the lock: the file, its time, then the registration.
Remove(c) ==
    /\ call[c].pc = "remove"
    /\ LET a == call[c].alg
           gone == IF a \in Registered /\ FilesOf(a) # {} THEN {FileFor(a)} ELSE {} IN
       /\ disk' = [f \in Files |-> IF f \in gone THEN Missing ELSE disk[f]]
       /\ mtimes' = [f \in Files |-> IF f \in gone THEN 0 ELSE mtimes[f]]
       /\ registry' = [registry EXCEPT ![a] = 0]
       /\ call' = [call EXCEPT ![c].pc = CASE call[c].file # "none" -> "write"
                                           [] a \in Registered -> "ok"
                                           [] OTHER -> "bad"]
    /\ UNCHANGED <<by, written, watcher, calls>>

\* save_algorithm_file writes the file ...
Write(c) ==
    /\ call[c].pc = "write" /\ written < MaxWrites
    /\ written' = written + 1
    /\ disk' = [disk EXCEPT ![call[c].file] = [call[c].put EXCEPT !.ver = written']]
    /\ call' = [call EXCEPT ![c].pc = "import", ![c].put.ver = written']
    /\ UNCHANGED <<by, registry, mtimes, watcher, calls>>

\* ... loads it as the watcher would load a new one ...
Import(c) ==
    /\ call[c].pc = "import"
    /\ call' = [call EXCEPT ![c].pc = "register", ![c].got = disk[call[c].file]]
    /\ UNCHANGED <<by, disk, written, registry, mtimes, watcher, calls>>

\* ... and removes it again when that registers nothing, the answer then being 400.
Answer(c) ==
    /\ call[c].pc = "register"
    /\ LET f == call[c].file
           got == call[c].got IN
       IF Loads(got)
       THEN /\ Register(got)
            /\ mtimes' = Recorded(f)
            /\ IF got.alg \notin Registered /\ disk[f] # Missing
               THEN call' = [call EXCEPT ![c].pc = "ok"] /\ UNCHANGED disk
               ELSE /\ disk' = [disk EXCEPT ![f] = Missing]
                    /\ call' = [call EXCEPT ![c].pc = "bad"]
       ELSE /\ disk' = [disk EXCEPT ![f] = Missing]
            /\ call' = [call EXCEPT ![c].pc = "bad"]
            /\ UNCHANGED <<registry, mtimes>>
    /\ UNCHANGED <<by, written, watcher, calls>>

Watcher == \/ StartPass \/ WatcherImports \/ WatcherLoads \/ WatcherReloads \/ EndPass
           \/ \E f \in watcher.todo : LookAt(f)

Client(c) == \/ Remove(c) \/ Write(c) \/ Import(c) \/ Answer(c)

AlgNext ==
    \/ Watcher
    \/ \E f \in Files : Edit(f)
    \/ \E c \in Clients :
         \/ Client(c)
         \/ \E f \in Files, a \in Algs \cup {"broken"} : Upload(c, f, a)
         \/ \E a \in Algs : \/ Delete(c, a)
                            \/ \E b \in Algs \cup {"broken"} : Replace(c, a, b)

AlgSpec == AlgInit /\ [][AlgNext]_algVars /\ WF_algVars(Watcher)
                   /\ \A c \in Clients : WF_algVars(Client(c))

-----------------------------------------------------------------------------
OwnFiles == \A f \in Files : disk[f].alg \in {f, "broken", "none"}

\* As long as every algorithm stays in the file of its name: once the writes, which are
\* bounded, are over, what loads in the directory is registered in the version it has
\* there, whatever the watcher was loading when a file was written, replaced or deleted.
RegistryFollowsFiles ==
    []OwnFiles => <>[](\A a \in Algs : disk[a].alg = a => registry[a] = disk[a].ver)

===============================================================================
