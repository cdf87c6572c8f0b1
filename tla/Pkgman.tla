-------------------------------- MODULE Pkgman --------------------------------
(***************************************************************************)
(* The package manager: instances of pkgman that run install, update,      *)
(* remove, sysup, lock and unlock against one package database and one     *)
(* database of locked packages.  A command becomes a plan of transactions; *)
(* a transaction calls pkgmk, pkgadd and pkgrm for one package after the   *)
(* other.  Each instance reads both databases once and goes by its copy.   *)
(***************************************************************************)
EXTENDS Naturals, Sequences, FiniteSets

CONSTANTS
  Proc,       \* instances of pkgman
  Pkg,        \* package names
  Repo,       \* the packages that have sources
  Needs,      \* the dependencies a package's sources list
  Alphabet,   \* the package names as std::list sorts them
  Cmds,       \* the command lines to consider
  WriteLog,   \* writelog of pkgman.conf
  RemoveLog,  \* rmlog_on_success
  AppendLog,  \* logmode is append, not overwrite
  Faults,     \* what may go wrong: a subset of Fault
  DBs,        \* the databases to start with
  Locks,      \* the locked packages to start with
  OldLogs     \* the packages that have a log file from earlier

Op == {"install", "update", "remove", "sysup", "lock", "unlock"}
Option == {"deps", "group", "force", "test", "all", "depsort", "do"}

\* A command: its arguments, its options and what --ignore names.
Command == [op : Op, args : Seq(Pkg), opts : SUBSET Option, ignore : SUBSET Pkg]

\* A child fails or is lost (killed, or never forked), a signal ends an
\* instance, the database of locked packages cannot be opened for writing.
Fault == {"fail", "lost", "signal", "store"}

\* A package of the database is older than its sources, or it is not.
Version == {"none", "old", "new"}

SeqSet(s) == {s[i] : i \in DOMAIN s}

ASSUME PkgmanAssumption ==
  /\ Repo \subseteq Pkg
  /\ Needs \in [Repo -> SUBSET Pkg]
  /\ Alphabet \in Seq(Pkg) /\ SeqSet(Alphabet) = Pkg /\ Len(Alphabet) = Cardinality(Pkg)
  /\ Cmds \subseteq Command
  /\ {WriteLog, RemoveLog, AppendLog} \subseteq BOOLEAN
  /\ Faults \subseteq Fault
  /\ DBs \subseteq [Pkg -> Version]
  /\ Locks \subseteq SUBSET Pkg
  /\ OldLogs \subseteq Repo

VARIABLES
  db,      \* the package database, as pkgadd and pkgrm leave it
  locked,  \* the file of locked packages
  logs,    \* the packages that have a log file
  pc,      \* what an instance is at
  cmd,     \* the command it runs, or ran last
  mine,    \* Locker::m_packages, its copy of the locked packages
  known,   \* PkgDB::m_packages, its copy of the package database
  plan,    \* the transactions to come, each with the packages to come
  report,  \* the lists of its transactions: <<list, package>>
  failed   \* m_returnValue is not P_OK

disk == <<db, locked, logs>>
vars == <<db, locked, logs, pc, cmd, mine, known, plan, report, failed>>

Blank == [x \in Pkg |-> "none"]
NoCmd == [op |-> "none", args |-> << >>, opts |-> {}, ignore |-> {}]

Init ==
  /\ db \in DBs
  /\ locked \in Locks
  /\ logs = OldLogs
  /\ pc = [p \in Proc |-> "idle"]
  /\ cmd = [p \in Proc |-> NoCmd]
  /\ mine = [p \in Proc |-> {}]
  /\ known = [p \in Proc |-> Blank]
  /\ plan = [p \in Proc |-> << >>]
  /\ report = [p \in Proc |-> {}]
  /\ failed = [p \in Proc |-> FALSE]

Has(p, opt) == opt \in cmd[p].opts
Args(p) == SeqSet(cmd[p].args)

\* The memory of the process is gone; its exit status is left.
Exit(p, bad) ==
  /\ pc' = [pc EXCEPT ![p] = "idle"]
  /\ mine' = [mine EXCEPT ![p] = {}]
  /\ known' = [known EXCEPT ![p] = Blank]
  /\ plan' = [plan EXCEPT ![p] = << >>]
  /\ failed' = [failed EXCEPT ![p] = bad]

\* The constructor of Locker reads the file, if there is one.
Start(p) ==
  /\ pc[p] = "idle"
  /\ \E c \in Cmds : cmd' = [cmd EXCEPT ![p] = c]
  /\ mine' = [mine EXCEPT ![p] = locked]
  /\ report' = [report EXCEPT ![p] = {}]
  /\ failed' = [failed EXCEPT ![p] = FALSE]
  /\ pc' = [pc EXCEPT ![p] = "open"]
  /\ UNCHANGED <<disk, known, plan>>

-------------------------------------------------------------------------------
(* What a command is to do, by the databases it reads.                     *)

\* What is left of a list without duplicates when only S is kept.
Kept(s, S) ==
  LET X == SeqSet(s) \intersect S IN
  {t \in [1..Cardinality(X) -> X] :
     /\ SeqSet(t) = X
     /\ \A i, j \in DOMAIN t, k, l \in DOMAIN s :
          i < j /\ s[k] = t[i] /\ s[l] = t[j] => k < l}

Sort(S) == Kept(Alphabet, S)
IsInstalled(x) == db[x] # "none"
NotInstalled(names) == Kept(names, {x \in Pkg : ~ IsInstalled(x)})

\* calcDeps: the packages with sources among those S needs, what is needed
\* first (DepResolver!Sorted).  No order: the dependencies are cyclic, or no
\* package of S has sources.
Closure(S) ==
  LET Closed(C) == S \intersect Repo \subseteq C /\ \A x \in C : Needs[x] \intersect Repo \subseteq C
  IN  {x \in Repo : \A C \in SUBSET Repo : Closed(C) => x \in C}

Orders(S) ==
  LET C == Closure(S) IN
  {s \in [1..Cardinality(C) -> C] :
     /\ C # {}
     /\ SeqSet(s) = C
     /\ \A i, j \in DOMAIN s : i < j => s[j] \notin Needs[s[i]]}

Plan(type, names) ==
  IF names = << >> THEN << >> ELSE <<[type |-> type, names |-> names]>>

\* Pkgman::install.  Dependencies that miss are a transaction of their own,
\* and for install the only one.
InstallPlans(p) ==
  LET args == cmd[p].args
      update == cmd[p].op = "update"
      refused ==
        IF update THEN \E x \in Args(p) : ~ IsInstalled(x)
        ELSE ~ Has(p, "force") /\ \E x \in Args(p) : IsInstalled(x)
      rest == Plan(IF update THEN "UPDATE" ELSE "INSTALL", args)
  IN
  IF refused THEN {}
  ELSE IF ~ Has(p, "deps") THEN {rest}
  ELSE {Plan("INSTALL", t) \o (IF update THEN rest ELSE << >>) :
          t \in UNION {NotInstalled(s) : s \in Orders(Args(p))}}

Users(x) == {y \in Repo : IsInstalled(y) /\ x \in Needs[y]}

\* Mutant: it is enough that the removed package needs the dependency.
RemovableIfUsed(x) ==
  IF x \in Repo /\ IsInstalled(x) THEN {d \in Needs[x] : x \in Users(d)} ELSE {}

\* getRemovableDeps, without --recursive: what no other package needs.
RemovableDeps(x) ==
  IF x \in Repo /\ IsInstalled(x) THEN {d \in Needs[x] : Users(d) = {x}} ELSE {}

\* Pkgman::remove.
RemovePlans(p) ==
  {Plan("REMOVE", t) :
     t \in IF Has(p, "deps") THEN Sort(Args(p) \union UNION {RemovableDeps(x) : x \in Args(p)})
           ELSE {cmd[p].args}}

\* Mutant: locked packages are updated too.
GreaterLocked(p) == {x \in Repo : db[x] = "old"}

\* diffCalc.
Greater(p) == {x \in Repo : db[x] = "old" /\ (x \notin mine[p] \/ Has(p, "all"))}

\* Pkgman::sysup.
SysupPlans(p) ==
  LET new(s) == IF Has(p, "deps") THEN NotInstalled(s) ELSE {<< >>}
      target(s) == IF Has(p, "depsort") THEN Kept(s, Greater(p)) ELSE Sort(Greater(p))
  IN
  IF Greater(p) = {} THEN {<< >>}
  ELSE UNION {{Plan("INSTALL", t) \o Plan("UPDATE", u) : t \in new(s), u \in target(s)} :
                s \in Orders(Greater(p))}

Plans(p) ==
  CASE cmd[p].op \in {"install", "update"} -> InstallPlans(p)
    [] cmd[p].op = "remove" -> RemovePlans(p)
    [] cmd[p].op = "sysup" -> SysupPlans(p)

Open(p) ==
  /\ pc[p] = "open"
  /\ cmd[p].op \notin {"lock", "unlock"}
  /\ \E steps \in Plans(p) : plan' = [plan EXCEPT ![p] = steps]
  /\ known' = [known EXCEPT ![p] = db]
  /\ pc' = [pc EXCEPT ![p] = "next"]
  /\ UNCHANGED <<disk, cmd, mine, report, failed>>

Refuse(p) ==
  /\ pc[p] = "open"
  /\ cmd[p].op \notin {"lock", "unlock"}
  /\ Plans(p) = {}
  /\ Exit(p, TRUE)
  /\ UNCHANGED <<disk, cmd, report>>

Repeated(p) == \E i, j \in DOMAIN cmd[p].args : i # j /\ cmd[p].args[i] = cmd[p].args[j]

\* Pkgman::setLock.  A package that is locked already, be it by an earlier
\* argument, is only reported.
Lock(p) ==
  /\ pc[p] = "open"
  /\ cmd[p].op = "lock"
  /\ \A x \in Args(p) : IsInstalled(x)
  /\ mine' = [mine EXCEPT ![p] = @ \union Args(p)]
  /\ failed' = [failed EXCEPT ![p] = mine[p] \intersect Args(p) # {} \/ Repeated(p)]
  /\ pc' = [pc EXCEPT ![p] = "store"]
  /\ UNCHANGED <<disk, cmd, known, plan, report>>

Unlock(p) ==
  /\ pc[p] = "open"
  /\ cmd[p].op = "unlock"
  /\ Args(p) \subseteq mine[p] /\ ~ Repeated(p)
  /\ mine' = [mine EXCEPT ![p] = @ \ Args(p)]
  /\ pc' = [pc EXCEPT ![p] = "store"]
  /\ UNCHANGED <<disk, cmd, known, plan, report, failed>>

\* setLock returns before it stores anything.
LockRefused(p) ==
  /\ pc[p] = "open"
  /\ \/ cmd[p].op = "lock" /\ \E x \in Args(p) : ~ IsInstalled(x)
     \/ cmd[p].op = "unlock" /\ (~ Args(p) \subseteq mine[p] \/ Repeated(p))
  /\ Exit(p, TRUE)
  /\ UNCHANGED <<disk, cmd, report>>

-------------------------------------------------------------------------------
(* A transaction, package by package.                                      *)

Type(p) == Head(plan[p]).type
Names(p) == Head(plan[p]).names
Name(p) == Head(Names(p))

InLoop(p) == pc[p] = "next" /\ plan[p] # << >> /\ Names(p) # << >>

\* The package ends up in the given lists.  The transaction goes on, or it
\* stops with a result that is not SUCCESS.
Proceed(p, lists, stop) ==
  /\ report' = [report EXCEPT ![p] = @ \union (lists \X {Name(p)})]
  /\ plan' = [plan EXCEPT ![p] =
       IF stop THEN Tail(plan[p])
       ELSE <<[type |-> Type(p), names |-> Tail(Names(p))]>> \o Tail(plan[p])]
  /\ failed' = [failed EXCEPT ![p] = @ \/ stop]
  /\ pc' = [pc EXCEPT ![p] = "next"]

Ignored(p) ==
  /\ InLoop(p)
  /\ Name(p) \in cmd[p].ignore
  /\ Proceed(p, {"ignored"}, FALSE)
  /\ UNCHANGED <<disk, cmd, mine, known>>

Missing(p) ==
  /\ InLoop(p)
  /\ Name(p) \notin cmd[p].ignore
  /\ Name(p) \notin Repo \/ (Type(p) = "REMOVE" /\ known[p][Name(p)] = "none")
  /\ Proceed(p, {"missing"}, Has(p, "group"))
  /\ UNCHANGED <<disk, cmd, mine, known>>

AlreadyInstalled(p) ==
  /\ InLoop(p)
  /\ Type(p) = "INSTALL"
  /\ Name(p) \in Repo \ cmd[p].ignore
  /\ known[p][Name(p)] # "none"
  /\ Proceed(p, {"alreadyInstalled"}, FALSE)
  /\ UNCHANGED <<disk, cmd, mine, known>>

ToMake(p) ==
  /\ InLoop(p)
  /\ Type(p) \in {"INSTALL", "UPDATE"}
  /\ Name(p) \in Repo \ cmd[p].ignore
  /\ Type(p) = "INSTALL" => known[p][Name(p)] = "none"

Logged(p) == WriteLog /\ ~ Has(p, "test")

\* Overwriting creates the file or truncates it, whoever uses it; appending
\* wants it to be there.
logFileCreate(p) ==
  /\ ToMake(p)
  /\ Logged(p) /\ AppendLog => Name(p) \in logs
  /\ logs' = IF Logged(p) THEN logs \union {Name(p)} ELSE logs
  /\ pc' = [pc EXCEPT ![p] = "make"]
  /\ UNCHANGED <<db, locked, cmd, mine, known, plan, report, failed>>

LogFails(p) ==
  /\ ToMake(p)
  /\ Logged(p) /\ AppendLog /\ Name(p) \notin logs
  /\ Proceed(p, {}, TRUE)
  /\ UNCHANGED <<disk, cmd, mine, known>>

\* The log of a package that is done.
LogDone(p) ==
  logs' = IF Logged(p) /\ RemoveLog THEN logs \ {Name(p)} ELSE logs

\* pkgmk succeeds; a killed one has an exit status of 0 as well.
Made(p) ==
  /\ pc[p] = "make"
  /\ IF Has(p, "do")
     THEN Proceed(p, {}, FALSE) /\ LogDone(p)
     ELSE pc' = [pc EXCEPT ![p] = "add"] /\ UNCHANGED <<logs, plan, report, failed>>
  /\ UNCHANGED <<db, locked, cmd, mine, known>>

\* Mutant: --group does not stop for a package that cannot be built.
MakeFailsAndGoesOn(p) ==
  /\ pc[p] = "make"
  /\ "fail" \in Faults /\ ~ Has(p, "test")
  /\ Proceed(p, {"buildFailed"}, FALSE)
  /\ UNCHANGED <<disk, cmd, mine, known>>

\* A failed build is reported unless pkgmk was only to download.
MakeFails(p) ==
  /\ pc[p] = "make"
  /\ "fail" \in Faults /\ ~ Has(p, "test")
  /\ \E lists \in {{"downloadFailed"}, IF Has(p, "do") THEN {} ELSE {"buildFailed"}} :
       Proceed(p, lists, Has(p, "group"))
  /\ UNCHANGED <<disk, cmd, mine, known>>

\* Mutant: pkgadd is always told to upgrade what is there.
AcceptsUpgrade(p) == TRUE

\* What pkgadd says of the package, -u being given for an update.
Accepts(p) == IsInstalled(Name(p)) <=> Type(p) = "UPDATE"

Added(p) ==
  /\ pc[p] = "add"
  /\ Has(p, "test") \/ Accepts(p)
  /\ db' = IF Has(p, "test") THEN db ELSE [db EXCEPT ![Name(p)] = "new"]
  /\ LogDone(p)
  /\ Proceed(p, {"installed"}, FALSE)
  /\ UNCHANGED <<locked, cmd, mine, known>>

\* pkgadd may fail when it has written the database, at ldconfig.
AddFails(p) ==
  /\ pc[p] = "add"
  /\ ~ Has(p, "test")
  /\ "fail" \in Faults \/ ~ Accepts(p)
  /\ \/ UNCHANGED db
     \/ Accepts(p) /\ db' = [db EXCEPT ![Name(p)] = "new"]
  /\ Proceed(p, {"installFailed"}, Has(p, "group"))
  /\ UNCHANGED <<locked, logs, cmd, mine, known>>

\* Process makes 0 of the status of a child that was killed or not forked.
AddLost(p) ==
  /\ pc[p] = "add"
  /\ "lost" \in Faults /\ ~ Has(p, "test")
  /\ LogDone(p)
  /\ Proceed(p, {"installed"}, FALSE)
  /\ UNCHANGED <<db, locked, cmd, mine, known>>

-------------------------------------------------------------------------------
(* A removal, and the database of locked packages.                         *)

ToRemove(p) ==
  /\ InLoop(p)
  /\ Type(p) = "REMOVE"
  /\ Name(p) \in Repo \ cmd[p].ignore
  /\ known[p][Name(p)] # "none"

\* What is removed is not locked any more, in memory at first.
Removed(p) ==
  /\ ToRemove(p)
  /\ \/ Has(p, "test") /\ UNCHANGED db
     \/ ~ Has(p, "test") /\ IsInstalled(Name(p)) /\ db' = [db EXCEPT ![Name(p)] = "none"]
     \/ ~ Has(p, "test") /\ "lost" \in Faults /\ UNCHANGED db
  /\ mine' = [mine EXCEPT ![p] = @ \ {Name(p)}]
  /\ Proceed(p, {"removed"}, FALSE)
  /\ UNCHANGED <<locked, logs, cmd, known>>

RemoveFails(p) ==
  /\ ToRemove(p)
  /\ ~ Has(p, "test")
  /\ "fail" \in Faults \/ ~ IsInstalled(Name(p))
  /\ Proceed(p, {"removeFailed"}, Has(p, "group"))
  /\ UNCHANGED <<disk, cmd, mine, known>>

TransactionDone(p) == pc[p] = "next" /\ plan[p] # << >> /\ Names(p) = << >>

\* Mutant: every transaction ends with the locked packages stored.
StoreAfterAll(p) ==
  /\ TransactionDone(p)
  /\ pc' = [pc EXCEPT ![p] = "store"]
  /\ UNCHANGED <<disk, cmd, mine, known, plan, report, failed>>

EndTransaction(p) ==
  /\ TransactionDone(p)
  /\ IF Type(p) = "REMOVE"
     THEN pc' = [pc EXCEPT ![p] = "store"] /\ UNCHANGED plan
     ELSE plan' = [plan EXCEPT ![p] = Tail(@)] /\ UNCHANGED pc
  /\ UNCHANGED <<disk, cmd, mine, known, report, failed>>

StoreDone(p) ==
  /\ plan' = [plan EXCEPT ![p] = IF @ = << >> THEN @ ELSE Tail(@)]
  /\ pc' = [pc EXCEPT ![p] = "next"]

\* Locker::store: ofstream truncates the file ...
Truncate(p) ==
  /\ pc[p] = "store"
  /\ locked' = {}
  /\ pc' = [pc EXCEPT ![p] = "write"]
  /\ UNCHANGED <<db, logs, cmd, mine, known, plan, report, failed>>

\* ... and writes it anew.  Lines that another instance has written since may
\* be left behind its own, where they are not overwritten.
Write(p) ==
  /\ pc[p] = "write"
  /\ \E rest \in SUBSET (locked \ mine[p]) : locked' = mine[p] \union rest
  /\ StoreDone(p)
  /\ UNCHANGED <<db, logs, cmd, mine, known, report, failed>>

\* remove does not look at what store returns.
StoreFails(p) ==
  /\ pc[p] = "store"
  /\ "store" \in Faults
  /\ failed' = [failed EXCEPT ![p] = @ \/ cmd[p].op # "remove"]
  /\ StoreDone(p)
  /\ UNCHANGED <<disk, cmd, mine, known, report>>

\* Mutant: evaluateResult forgets the packages that were not found.
ErrorsButMissing == {"downloadFailed", "buildFailed", "installFailed", "removeFailed"}

\* The lists evaluateResult counts as errors.
Errors == {"missing", "downloadFailed", "buildFailed", "installFailed", "removeFailed"}

Leave(p) ==
  /\ pc[p] = "next"
  /\ plan[p] = << >>
  /\ Exit(p, failed[p] \/ report[p] \intersect (Errors \X Pkg) # {})
  /\ UNCHANGED <<disk, cmd, report>>

\* The handler exits with the number of the signal; nothing is stored.
Signal(p) ==
  /\ pc[p] # "idle"
  /\ "signal" \in Faults
  /\ Exit(p, TRUE)
  /\ UNCHANGED <<disk, cmd, report>>

Next == \E p \in Proc :
  \/ Start(p) \/ Open(p) \/ Refuse(p) \/ Lock(p) \/ Unlock(p) \/ LockRefused(p)
  \/ Ignored(p) \/ Missing(p) \/ AlreadyInstalled(p)
  \/ logFileCreate(p) \/ LogFails(p) \/ Made(p) \/ MakeFails(p)
  \/ Added(p) \/ AddFails(p) \/ AddLost(p) \/ Removed(p) \/ RemoveFails(p)
  \/ EndTransaction(p) \/ Truncate(p) \/ Write(p) \/ StoreFails(p)
  \/ Leave(p) \/ Signal(p)

Spec == Init /\ [][Next]_vars

-------------------------------------------------------------------------------
(* What holds.                                                             *)

List == Errors \union {"ignored", "alreadyInstalled", "installed", "removed"}
Transaction == [type : {"INSTALL", "UPDATE", "REMOVE"}, names : Seq(Pkg)]

\* The types; only an idle instance has forgotten its copies, only building
\* and adding have a package at hand, and only a removal or setLock stores.
TypeOK ==
  /\ db \in [Pkg -> Version]
  /\ locked \in SUBSET Pkg
  /\ logs \in SUBSET Repo
  /\ pc \in [Proc -> {"idle", "open", "next", "make", "add", "store", "write"}]
  /\ cmd \in [Proc -> Command \union {NoCmd}]
  /\ mine \in [Proc -> SUBSET Pkg]
  /\ known \in [Proc -> [Pkg -> Version]]
  /\ plan \in [Proc -> Seq(Transaction)]
  /\ report \in [Proc -> SUBSET (List \X Pkg)]
  /\ failed \in [Proc -> BOOLEAN]
  /\ \A p \in Proc :
       /\ pc[p] = "idle" => plan[p] = << >>
       /\ pc[p] \in {"make", "add"} =>
            plan[p] # << >> /\ Type(p) # "REMOVE" /\ Names(p) # << >> /\ Name(p) \in Repo
       /\ pc[p] \in {"store", "write"} => plan[p] = << >> \/ Type(p) = "REMOVE"

\* With --deps and --group a package is only installed when all it needs, but
\* itself, was there before, or has been reported as installed by this command.
GroupOrder ==
  \A p \in Proc :
    /\ pc[p] = "add"
    /\ {"deps", "group"} \subseteq cmd[p].opts
    /\ Type(p) = "INSTALL"
    => \A x \in (Needs[Name(p)] \intersect Repo) \ ({Name(p)} \union cmd[p].ignore) :
         known[p][x] # "none" \/ <<"installed", x>> \in report[p]

\* A package that remove --deps takes along is needed by no installed package
\* but those that were to be removed.
RemovableSafe ==
  \A p \in Proc :
    pc[p] = "next" /\ plan[p] # << >> /\ Type(p) = "REMOVE" =>
      \A x \in SeqSet(Names(p)) \ Args(p) : \A y \in Repo :
        known[p][y] # "none" /\ x \in Needs[y] => y \in Args(p)

\* sysup, without --all, updates no package that was locked when it started.
LockedKept ==
  \A p \in Proc :
    pc[p] = "add" /\ cmd[p].op = "sysup" /\ Type(p) = "UPDATE" /\ ~ Has(p, "all") =>
      Name(p) \notin mine[p]

\* However stale an instance's copy is, an installed package only changes
\* where it is updated or removed, and an update never installs one.
InstallKeeps ==
  [][\A x \in Pkg : db'[x] # db[x] =>
       \E p \in Proc :
         /\ plan[p] # << >> /\ Names(p) # << >> /\ Name(p) = x
         /\ Type(p) = "INSTALL" <=> db[x] = "none"]_db

\* An exit status of 0, when one instance runs and no child is lost, means
\* that the command did what it was to do.
ExitStatus ==
  \A p \in Proc :
    LET c == cmd[p]
        args == Args(p) \ c.ignore
    IN
    /\ Proc = {p} /\ Faults \intersect {"lost", "store"} = {}
    /\ pc[p] = "idle" /\ ~ failed[p]
    /\ c.opts \intersect {"test", "do"} = {}
    =>
    /\ c.op = "install" =>
         IF "deps" \in c.opts
         THEN \A x \in Closure(Args(p)) \ c.ignore : IsInstalled(x)
         ELSE \A x \in args : IsInstalled(x)
    /\ c.op = "update" => \A x \in args : db[x] = "new"
    /\ c.op = "remove" => \A x \in args : ~ IsInstalled(x) /\ x \notin locked
    /\ c.op = "sysup" =>
         \A x \in Repo \ c.ignore :
           db[x] = "old" => x \in locked /\ "all" \notin c.opts
    /\ c.op = "lock" => args \subseteq locked
    /\ c.op = "unlock" => args \intersect locked = {}

-------------------------------------------------------------------------------
(* What the manual pages and the comments promise and the code does not    *)
(* keep.                                                                   *)

\* transaction.h: installed() gets "the packages that were installed in this
\* transaction".
ReportedInstalled ==
  \A p \in Proc : \A x \in Pkg :
    Proc = {p} /\ <<"installed", x>> \in report[p] => IsInstalled(x)

\* pkgman-install(8): with --group the command stops if one package fails.
GroupStops ==
  \A p \in Proc : pc[p] \in {"make", "add"} /\ Has(p, "group") => ~ failed[p]
===============================================================================
