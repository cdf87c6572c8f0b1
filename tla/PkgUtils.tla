------------------------------- MODULE PkgUtils -------------------------------
(***************************************************************************)
(* The package utilities pkgadd, pkgrm and pkginfo (core/pkgutils).  Every *)
(* process runs one of the three at a time, over one package database, one *)
(* file system and one directory of rejected files, and each step below is *)
(* a system call or a stretch of code that touches no shared state.        *)
(* How db_commit replaces the database file is refined in module DbCommit; *)
(* here it is one step that happens or fails.                              *)
(***************************************************************************)
EXTENDS Naturals, Sequences

CONSTANTS
  Proc,       \* processes
  Pkg,        \* package names
  Path,       \* path names, as they are written in archives and the database
  Dir,        \* the paths that end in '/'
  Above,      \* Above[f]: the directories f lies in
  Rank,       \* Rank[f]: the place of f in the order of set<string>
  Perm,       \* modes, types and owners of files
  Data,       \* contents of files
  Local,      \* the data of a file its administrator has edited
  Empty,      \* the data of an empty regular file
  Device,     \* the data of device nodes
  Absent,     \* no file
  Broken,     \* what an extraction that is cut short may leave
  DefaultDir, \* a directory libarchive makes because an entry needs it
  Archive,    \* package archives
  NameOf,     \* NameOf[a]: the package name in the file name of a
  Entries,    \* Entries[a]: the entries of a, in the order they are read
  Content,    \* Content[a][f]: what a holds for its entry f
  Rules,      \* the rules of pkgadd.conf
  Cmds,       \* the command lines that are run
  Idle,       \* no command
  InitFs,     \* the files on disk before the first run
  Faults      \* what may go wrong

Node == [perm : Perm, data : Data]
Slot == Node \union {Absent}

Command == [util : {"pkgadd", "pkgrm", "pkginfo"}, name : Pkg, arch : Archive,
            upgrade : BOOLEAN, force : BOOLEAN]

\* A rule: pattern stands for the set of paths its regular expression matches.
Rule == [event : {"UPGRADE", "INSTALL"}, matches : SUBSET Path, action : BOOLEAN]

\* A path follows the directories it lies in, "a/" < "a/b".
ASSUME PathAssumption ==
  /\ Dir \subseteq Path
  /\ Above \in [Path -> SUBSET Dir]
  /\ \A f \in Path : f \notin Above[f]
  /\ \A f \in Path : \A d \in Above[f] : Above[d] \subseteq Above[f]
  /\ Rank \in [Path -> Nat]
  /\ \A f, g \in Path : Rank[f] = Rank[g] => f = g
  /\ \A f \in Path : \A d \in Above[f] : Rank[d] < Rank[f]

ASSUME NodeAssumption ==
  /\ Absent \notin Node
  /\ Local \in Data
  /\ {Broken, DefaultDir} \subseteq Node

ASSUME ArchiveAssumption ==
  /\ NameOf \in [Archive -> Pkg]
  /\ Entries \in [Archive -> Seq(Path)]
  /\ \A a \in Archive : Entries[a] # << >>
  /\ Content \in [Archive -> [Path -> Node]]

ASSUME RunAssumption ==
  /\ Rules \in Seq(Rule)
  /\ Cmds \subseteq Command
  /\ \A c \in Cmds : c.util = "pkgadd" => c.name = NameOf[c.arch]
  /\ InitFs \in [Path -> Slot]

VARIABLES
  db,        \* the database file: the files of every package, {} if not installed
  fs,        \* the file system under the root
  rejected,  \* the files under var/lib/pkg/rejected
  lock,      \* the flock each process holds on var/lib/pkg
  pc,        \* where each process is
  cmd,       \* the command it runs
  mem,       \* its copy of the database, pkgutil::packages
  todo,      \* the files it still has to delete
  pos        \* the archive entry pkg_install is at

disk == <<db, fs, rejected>>
vars == <<db, fs, rejected, lock, pc, cmd, mem, todo, pos>>

NoDb == [n \in Pkg |-> {}]

Phase == {"idle", "lock", "open", "find", "rmforced", "rmold", "rmpkg", "commit",
          "install", "rollback", "rbcommit", "ldconfig"}

\* The phases from the first deletion on.
Changing == Phase \ {"idle", "lock", "open", "find"}

-------------------------------------------------------------------------------
(* pkgadd.conf.  The last rule for the event that matches a path decides.  *)

Applies(i, event, f) == Rules[i].event = event /\ f \in Rules[i].matches

Refused(event, f) ==
  \E i \in DOMAIN Rules :
    /\ Applies(i, event, f)
    /\ ~Rules[i].action
    /\ \A j \in DOMAIN Rules : j > i => ~Applies(j, event, f)

Files(a) == {Entries[a][i] : i \in DOMAIN Entries[a]}
apply_install_rules(a) == {f \in Files(a) : ~Refused("INSTALL", f)}
make_keep_list(F) == {f \in F : Refused("UPGRADE", f)}

\* The files the database records for archive a, and pkgadd's keep list for
\* pkg_install and for the second db_rm_pkg.
Recorded(a) == apply_install_rules(a)
Kept(c) == IF c.upgrade THEN make_keep_list(Recorded(c.arch)) ELSE {}

-------------------------------------------------------------------------------
(* The database in memory.                                                 *)

Refs(m, n) == UNION {m[q] : q \in Pkg \ {n}}

\* Mutants: only the disk is consulted, only the database is.
ConflictsOnDisk(c, m) ==
  {f \in Recorded(c.arch) \ Dir : fs[f] # Absent /\ f \notin m[c.name]}
ConflictsInDb(c, m) ==
  {f \in Recorded(c.arch) \ Dir : f \in Refs(m, c.name) /\ f \notin m[c.name]}

db_find_conflicts(c, m) ==
  {f \in Recorded(c.arch) \ Dir : /\ f \in Refs(m, c.name) \/ fs[f] # Absent
                                  /\ f \notin m[c.name]}

Without(m, n) == [m EXCEPT ![n] = {}]
\* Mutant: the other packages keep their references.
StripNothing(m, F) == m

Strip(m, F) == [q \in Pkg |-> m[q] \ F]

-------------------------------------------------------------------------------
(* The file system.                                                        *)

Occupied(t, f) == \E g \in Path : f \in Above[g] /\ t[g] # Absent

\* remove(3) of what exists: a directory must be empty.
Remove(t, f) == IF Occupied(t, f) THEN t ELSE [t EXCEPT ![f] = Absent]

\* archive_read_extract makes the missing directories on the way to f.
Place(t, f, node) ==
  [g \in Path |-> IF g = f THEN node
                  ELSE IF g \in Above[f] /\ t[g] = Absent THEN DefaultDir
                  ELSE t[g]]

\* What an extraction to f that fails or is killed may leave.
Torn(t, f) ==
  {t} \union {Place(t, f, node) : node \in
                IF f \notin Dir THEN {Absent, Broken}
                ELSE IF t[f] = Absent THEN {DefaultDir} ELSE {t[f]}}

file_equal(x, y) == x.data = y.data \/ {x.data, y.data} \subseteq Device

\* The rejected file is of no interest to the administrator.
Same(f, new, old) ==
  /\ new.perm = old.perm
  /\ f \notin Dir => new.data = Empty \/ file_equal(new, old)

\* Removes f and then the directories above it, as far as they are empty.
file_remove(t, f) ==
  IF Occupied(t, f) THEN t
  ELSE [g \in Path |->
          IF \/ g = f
             \/ /\ g \in Above[f]
                /\ \A h \in Path :
                     g \in Above[h] /\ t[h] # Absent => h \in Above[f] \union {f}
          THEN Absent ELSE t[g]]

-------------------------------------------------------------------------------

Init ==
  /\ db = NoDb
  /\ fs = InitFs
  /\ rejected = [f \in Path |-> Absent]
  /\ lock = [p \in Proc |-> "none"]
  /\ pc = [p \in Proc |-> "idle"]
  /\ cmd = [p \in Proc |-> Idle]
  /\ mem = [p \in Proc |-> NoDb]
  /\ todo = [p \in Proc |-> {}]
  /\ pos = [p \in Proc |-> 1]

Goto(p, label) == pc' = [pc EXCEPT ![p] = label]

\* The process ends, by return, exception or signal: db_lock is released and
\* the memory is gone.
Exit(p) ==
  /\ Goto(p, "idle")
  /\ lock' = [lock EXCEPT ![p] = "none"]
  /\ cmd' = [cmd EXCEPT ![p] = Idle]
  /\ mem' = [mem EXCEPT ![p] = NoDb]
  /\ todo' = [todo EXCEPT ![p] = {}]
  /\ pos' = [pos EXCEPT ![p] = 1]

Start(p) ==
  /\ pc[p] = "idle"
  /\ \E c \in Cmds : cmd' = [cmd EXCEPT ![p] = c]
  /\ Goto(p, "lock")
  /\ UNCHANGED <<disk, lock, mem, todo, pos>>

\* Mutant: pkgrm only takes the shared lock.
ModeOfAdd(c) == IF c.util = "pkgadd" THEN "exclusive" ELSE "shared"

Mode(c) == IF c.util = "pkginfo" THEN "shared" ELSE "exclusive"

\* Mutant: the lock is not tested.
AlwaysGrantable(p) == TRUE

Grantable(p) ==
  \A q \in Proc \ {p} : \/ lock[q] = "none"
                        \/ lock[q] = "shared" /\ Mode(cmd[p]) = "shared"

\* flock with LOCK_NB: whoever does not get the lock gives up.
db_lock(p) ==
  /\ pc[p] = "lock"
  /\ Grantable(p)
  /\ lock' = [lock EXCEPT ![p] = Mode(cmd[p])]
  /\ Goto(p, "open")
  /\ UNCHANGED <<disk, cmd, mem, todo, pos>>

\* Mutant: flock waits, whoever goes first.
db_lock_waits(p) ==
  /\ pc[p] = "lock"
  /\ ~Grantable(p)
  /\ UNCHANGED vars

db_lock_busy(p) ==
  /\ pc[p] = "lock"
  /\ ~Grantable(p)
  /\ Exit(p)
  /\ UNCHANGED disk

db_open(p) ==
  /\ pc[p] = "open"
  /\ mem' = [mem EXCEPT ![p] = db]
  /\ Goto(p, "find")
  /\ UNCHANGED <<disk, lock, cmd, todo, pos>>

\* The database, the archive or the configuration cannot be read.
OpenFails(p) ==
  /\ "open" \in Faults
  /\ pc[p] \in {"open", "find"}
  /\ Exit(p)
  /\ UNCHANGED disk

-------------------------------------------------------------------------------
(* Deleting files: db_rm_files and the two db_rm_pkg.                      *)

\* Mutant: in the order of the set.
RemoveFirst(p) ==
  /\ pc[p] \in {"rmforced", "rmold", "rmpkg", "rollback"}
  /\ \E f \in todo[p] :
       /\ \A g \in todo[p] : Rank[g] >= Rank[f]
       /\ todo' = [todo EXCEPT ![p] = @ \ {f}]
       /\ fs' = Remove(fs, f)
  /\ UNCHANGED <<db, rejected, lock, pc, cmd, mem, pos>>

\* In reverse order of set<string>; what cannot be removed is left, with at
\* most a message.
RemoveFile(p) ==
  /\ pc[p] \in {"rmforced", "rmold", "rmpkg", "rollback"}
  /\ \E f \in todo[p] :
       /\ \A g \in todo[p] : Rank[g] <= Rank[f]
       /\ todo' = [todo EXCEPT ![p] = @ \ {f}]
       /\ \/ fs' = Remove(fs, f)
          \/ "remove" \in Faults /\ UNCHANGED fs
  /\ UNCHANGED <<db, rejected, lock, pc, cmd, mem, pos>>

\* db_rm_pkg(name, keep_list) for an upgrade, nothing for a fresh install; m is
\* the database in memory so far.
Replace(p, m) ==
  LET c == cmd[p] IN
  /\ mem' = [mem EXCEPT ![p] = IF c.upgrade THEN Without(m, c.name) ELSE m]
  /\ todo' = [todo EXCEPT ![p] = IF c.upgrade
                                 THEN m[c.name] \ (Kept(c) \union Refs(m, c.name))
                                 ELSE {}]
  /\ Goto(p, "rmold")

\* Every file is gone; the code that follows the deletion.
RemoveDone(p) ==
  /\ todo[p] = {}
  /\ \/ pc[p] = "rmforced" /\ Replace(p, mem[p])
     \/ /\ pc[p] = "rmold"
        /\ mem' = [mem EXCEPT ![p][cmd[p].name] = Recorded(cmd[p].arch)]
        /\ Goto(p, "commit")
        /\ UNCHANGED todo
     \/ pc[p] = "rmpkg" /\ Goto(p, "ldconfig") /\ UNCHANGED <<mem, todo>>
     \/ pc[p] = "rollback" /\ Goto(p, "rbcommit") /\ UNCHANGED <<mem, todo>>
  /\ UNCHANGED <<disk, lock, cmd, pos>>

-------------------------------------------------------------------------------
(* pkgadd, from db_find_pkg to the first db_rm_*.                          *)

AddAccepted(p) ==
  /\ pc[p] = "find"
  /\ cmd[p].util = "pkgadd"
  /\ cmd[p].upgrade <=> mem[p][cmd[p].name] # {}

Add(p) ==
  /\ AddAccepted(p)
  /\ db_find_conflicts(cmd[p], mem[p]) = {}
  /\ Replace(p, mem[p])
  /\ UNCHANGED <<disk, lock, cmd, pos>>

\* --force: db_rm_files takes the conflicting files from every other package.
AddForce(p) ==
  LET F == db_find_conflicts(cmd[p], mem[p])
      kept == IF cmd[p].upgrade THEN make_keep_list(F) ELSE {}
  IN
  /\ AddAccepted(p)
  /\ cmd[p].force
  /\ F # {}
  /\ mem' = [mem EXCEPT ![p] = Strip(@, F)]
  /\ todo' = [todo EXCEPT ![p] = F \ kept]
  /\ Goto(p, "rmforced")
  /\ UNCHANGED <<disk, lock, cmd, pos>>

\* Already installed, not installed, or files in the way.
AddRefused(p) ==
  /\ pc[p] = "find"
  /\ cmd[p].util = "pkgadd"
  /\ \/ ~AddAccepted(p)
     \/ db_find_conflicts(cmd[p], mem[p]) # {} /\ ~cmd[p].force
  /\ Exit(p)
  /\ UNCHANGED disk

-------------------------------------------------------------------------------
(* pkgrm and pkginfo.                                                      *)

Rm(p) ==
  LET n == cmd[p].name IN
  /\ pc[p] = "find"
  /\ cmd[p].util = "pkgrm"
  /\ mem[p][n] # {}
  /\ mem' = [mem EXCEPT ![p] = Without(@, n)]
  /\ todo' = [todo EXCEPT ![p] = mem[p][n] \ Refs(mem[p], n)]
  /\ Goto(p, "rmpkg")
  /\ UNCHANGED <<disk, lock, cmd, pos>>

RmRefused(p) ==
  /\ pc[p] = "find"
  /\ cmd[p].util = "pkgrm"
  /\ mem[p][cmd[p].name] = {}
  /\ Exit(p)
  /\ UNCHANGED disk

Query(p) ==
  /\ pc[p] = "find"
  /\ cmd[p].util = "pkginfo"
  /\ Exit(p)
  /\ UNCHANGED disk

-------------------------------------------------------------------------------
(* db_commit.                                                              *)

\* pkgadd goes on to pkg_install; pkgrm, and pkgadd after a rollback, are done.
Commit(p) ==
  /\ db' = mem[p]
  /\ \/ /\ pc[p] = "commit"
        /\ cmd[p].util = "pkgadd"
        /\ Goto(p, "install")
        /\ UNCHANGED <<lock, cmd, mem, todo, pos>>
     \/ /\ pc[p] = "commit"
        /\ cmd[p].util = "pkgrm"
        /\ Exit(p)
     \/ pc[p] = "rbcommit" /\ Exit(p)
  /\ UNCHANGED <<fs, rejected>>

CommitFails(p) ==
  /\ "commit" \in Faults
  /\ pc[p] \in {"commit", "rbcommit"}
  /\ Exit(p)
  /\ UNCHANGED disk

-------------------------------------------------------------------------------
(* pkg_install.                                                            *)

Entry(p) == Entries[cmd[p].arch][pos[p]]
AtEntry(p) == pc[p] = "install" /\ pos[p] <= Len(Entries[cmd[p].arch])
\* Mutants: non_install_list is not consulted, the keep list is consulted too.
NeverFiltered(p) == FALSE
FilteredIfKept(p) == Refused("INSTALL", Entry(p)) \/ Entry(p) \in Kept(cmd[p])

Filtered(p) == Refused("INSTALL", Entry(p))
\* Mutant: --force overrides the keep list.
RejectsUnlessForced(p) ==
  fs[Entry(p)] # Absent /\ Entry(p) \in Kept(cmd[p]) /\ ~cmd[p].force

Rejects(p) == fs[Entry(p)] # Absent /\ Entry(p) \in Kept(cmd[p])
NextEntry(p) == pos' = [pos EXCEPT ![p] = @ + 1]

SkipEntry(p) ==
  /\ AtEntry(p)
  /\ Filtered(p)
  /\ NextEntry(p)
  /\ UNCHANGED <<disk, lock, pc, cmd, mem, todo>>

ExtractEntry(p) ==
  /\ AtEntry(p)
  /\ ~Filtered(p)
  /\ ~Rejects(p)
  /\ fs' = Place(fs, Entry(p), Content[cmd[p].arch][Entry(p)])
  /\ NextEntry(p)
  /\ UNCHANGED <<db, rejected, lock, pc, cmd, mem, todo>>

\* Extracted under the reject directory, and removed from there again if it
\* does not differ from the installed file.
RejectEntry(p) ==
  LET f == Entry(p)
      new == Content[cmd[p].arch][f]
      extracted == Place(rejected, f, new)
  IN
  /\ AtEntry(p)
  /\ ~Filtered(p)
  /\ Rejects(p)
  /\ rejected' = IF Same(f, new, fs[f]) THEN file_remove(extracted, f) ELSE extracted
  /\ NextEntry(p)
  /\ UNCHANGED <<db, fs, lock, pc, cmd, mem, todo>>

\* What is on disk when the extraction of the current entry does not complete.
CutShort(p) ==
  IF Rejects(p)
  THEN rejected' \in Torn(rejected, Entry(p)) /\ UNCHANGED fs
  ELSE fs' \in Torn(fs, Entry(p)) /\ UNCHANGED rejected

\* Mutant: the files already extracted are not deleted.
ThrowAndForget(p) ==
  \/ /\ ~cmd[p].upgrade
     /\ mem' = [mem EXCEPT ![p] = Without(@, cmd[p].name)]
     /\ Goto(p, "rbcommit")
     /\ UNCHANGED todo
  \/ cmd[p].upgrade /\ Goto(p, "ldconfig") /\ UNCHANGED <<mem, todo>>

\* pkg_install throws.  A fresh installation is undone, db_rm_pkg(name); the
\* exception of an upgrade is dropped.
Throw(p) ==
  LET n == cmd[p].name IN
  \/ /\ ~cmd[p].upgrade
     /\ mem' = [mem EXCEPT ![p] = Without(@, n)]
     /\ todo' = [todo EXCEPT ![p] = mem[p][n] \ Refs(mem[p], n)]
     /\ Goto(p, "rollback")
  \/ cmd[p].upgrade /\ Goto(p, "ldconfig") /\ UNCHANGED <<mem, todo>>

ExtractFails(p) ==
  /\ "extract" \in Faults
  /\ AtEntry(p)
  /\ ~Filtered(p)
  /\ CutShort(p)
  /\ \/ cmd[p].upgrade /\ NextEntry(p) /\ UNCHANGED <<pc, mem, todo>>
     \/ ~cmd[p].upgrade /\ Throw(p) /\ UNCHANGED pos
  /\ UNCHANGED <<db, lock, cmd>>

\* The archive cannot be opened, or its first header cannot be read.
ReopenFails(p) ==
  /\ "reopen" \in Faults
  /\ pc[p] = "install"
  /\ pos[p] = 1
  /\ Throw(p)
  /\ UNCHANGED <<disk, lock, cmd, pos>>

\* The loop ends on any status but ARCHIVE_OK: a header that cannot be read is
\* taken for the end of the archive.
EndOfArchive(p) ==
  /\ pc[p] = "install"
  /\ \/ pos[p] > Len(Entries[cmd[p].arch])
     \/ "header" \in Faults /\ pos[p] > 1
  /\ Goto(p, "ldconfig")
  /\ UNCHANGED <<disk, lock, cmd, mem, todo, pos>>

\* pkgadd ends with ldconfig, pkgrm commits after it.
ldconfig(p) ==
  /\ pc[p] = "ldconfig"
  /\ \/ cmd[p].util = "pkgadd" /\ Exit(p)
     \/ cmd[p].util = "pkgrm" /\ Goto(p, "commit")
        /\ UNCHANGED <<lock, cmd, mem, todo, pos>>
  /\ UNCHANGED disk

LdconfigFails(p) ==
  /\ "ldconfig" \in Faults
  /\ pc[p] = "ldconfig"
  /\ Exit(p)
  /\ UNCHANGED disk

-------------------------------------------------------------------------------
(* The environment.                                                        *)

\* SIGKILL; the other signals are ignored.
Kill(p) ==
  /\ "kill" \in Faults
  /\ pc[p] # "idle"
  /\ IF AtEntry(p) /\ ~Filtered(p) THEN CutShort(p) ELSE UNCHANGED <<fs, rejected>>
  /\ Exit(p)
  /\ UNCHANGED db

\* The administrator changes a file.
Edit(f) ==
  /\ f \notin Dir
  /\ fs[f] # Absent
  /\ fs' = [fs EXCEPT ![f].data = Local]
  /\ UNCHANGED <<db, rejected, lock, pc, cmd, mem, todo, pos>>

Step(p) ==
  \/ db_lock(p) \/ db_lock_busy(p) \/ db_open(p) \/ OpenFails(p)
  \/ Add(p) \/ AddForce(p) \/ AddRefused(p)
  \/ Rm(p) \/ RmRefused(p) \/ Query(p)
  \/ RemoveFile(p) \/ RemoveDone(p)
  \/ Commit(p) \/ CommitFails(p)
  \/ SkipEntry(p) \/ ExtractEntry(p) \/ RejectEntry(p)
  \/ ExtractFails(p) \/ ReopenFails(p) \/ EndOfArchive(p)
  \/ ldconfig(p) \/ LdconfigFails(p)

Next ==
  \/ \E p \in Proc : Start(p) \/ Step(p) \/ Kill(p)
  \/ \E f \in Path : Edit(f)

Spec == Init /\ [][Next]_vars

\* Once started, a process is scheduled until it ends.
FairSpec == Spec /\ \A p \in Proc : WF_vars(Step(p))

-------------------------------------------------------------------------------
(* Properties.                                                             *)

Owned(m, f) == \E n \in Pkg : f \in m[n]

\* Between flock and the end of the run, as a process that may write.
Writing(p) == lock[p] = "exclusive"

\* Every variable holds what the program can put there, and a process changes
\* the disk only under the exclusive lock.
TypeOK ==
  /\ db \in [Pkg -> SUBSET Path]
  /\ fs \in [Path -> Slot]
  /\ rejected \in [Path -> Slot]
  /\ lock \in [Proc -> {"none", "shared", "exclusive"}]
  /\ pc \in [Proc -> Phase]
  /\ cmd \in [Proc -> Cmds \union {Idle}]
  /\ \A p \in Proc : pc[p] # "idle" => cmd[p] \in Cmds
  /\ mem \in [Proc -> [Pkg -> SUBSET Path]]
  /\ todo \in [Proc -> SUBSET Path]
  /\ pos \in [Proc -> Nat \ {0}]
  /\ \A p \in Proc : pc[p] \in Changing => Writing(p)

\* No two packages own the same file; only directories are shared.  pkgadd's
\* conflict check lets through every file the package owned before, so this
\* rests on the database it read having the property already.
SoleOwner ==
  \A n, o \in Pkg : n # o => db[n] \intersect db[o] \subseteq Dir

\* A commit changes the record of the package the command names, and of others
\* only by what --force takes from them: no run undoes another one's commit.
OwnRecordOnly ==
  [][\A n \in Pkg : db'[n] # db[n] =>
       \E p \in Proc :
         /\ Writing(p)
         /\ \/ n = cmd[p].name
            \/ /\ cmd[p].force
               /\ db'[n] \subseteq db[n]
               /\ db[n] \ db'[n] \subseteq Recorded(cmd[p].arch) \ Dir]_vars

\* Without --force no run deletes or overwrites a file that is not its
\* package's by the database as it stands on disk at that moment.
OwnFilesOnly ==
  [][\A f \in Path \ Dir : fs'[f] # fs[f] =>
       \/ Edit(f)
       \/ \E p \in Proc :
            /\ Writing(p)
            /\ \/ cmd[p].util = "pkgadd" /\ cmd[p].force
               \/ f \in db[cmd[p].name]]_vars

\* Deletions precede the commit and extractions follow it, so that wherever a
\* run is killed the database accounts for every file a package put on disk: a
\* file appears only when recorded, and loses its record only when gone.
NoOrphans ==
  [][\A f \in Path \ Dir :
       fs'[f] # Absent /\ (fs[f] = Absent \/ Owned(db, f)) => Owned(db', f)]_vars

\* Without --force a package never comes to own a file that is already there:
\* not one the administrator made, not one a failed deletion left behind.
NoAdoption ==
  [][\A n \in Pkg, f \in Path \ Dir :
       f \in db'[n] \ db[n] /\ fs[f] # Absent =>
         \E p \in Proc : Writing(p) /\ cmd[p].force]_vars

\* An upgrade leaves a file the UPGRADE rules protect as it is, whatever the
\* run meets, as long as the new version of the package still records it.
ProtectedKept ==
  [][\A p \in Proc, f \in Path \ Dir :
       /\ Writing(p)
       /\ cmd[p].util = "pkgadd"
       /\ f \in Kept(cmd[p])
       /\ fs[f] # Absent
       => fs'[f] = fs[f] \/ Edit(f)]_vars

\* When pkgadd has read the archive to its end all recorded files are on disk,
\* also when earlier runs on the same package were killed half-way.  (Not so
\* where the extraction of a file fails: an upgrade goes on with the next.)
Complete ==
  \A p \in Proc : pc[p] = "ldconfig" /\ cmd[p].util = "pkgadd" =>
    \/ pos[p] <= Len(Entries[cmd[p].arch])
    \/ \A f \in Recorded(cmd[p].arch) : fs[f] # Absent

\* When pkgrm gets to its commit, none of the package's files is left but what
\* other packages share, and directories that are not empty.
Removed ==
  \A p \in Proc : pc[p] = "commit" /\ cmd[p].util = "pkgrm" =>
    \A f \in db[cmd[p].name] \ Refs(db, cmd[p].name) :
      fs[f] = Absent \/ Occupied(fs, f)

\* The database only changes by whole commands: PkgUtils implements PkgStore.
Store == INSTANCE PkgStore
StoreSpec == Store!Spec

\* Every run comes to an end and gives the lock back.
Terminates == \A p \in Proc : pc[p] = "lock" ~> pc[p] = "idle" /\ lock[p] = "none"
=============================================================================
