--------------------------- MODULE PkgUtils_proofs ---------------------------
(***************************************************************************)
(* Proofs about module PkgUtils, for any packages, paths, archives, rules, *)
(* command lines, faults and number of processes.                          *)
(***************************************************************************)
EXTENDS PkgUtils, TLAPS

Disjoint(m) == \A n, o \in Pkg : n # o => m[n] \intersect m[o] \subseteq Dir

LockInv ==
  \A p, q \in Proc : p # q /\ lock[p] = "exclusive" => lock[q] = "none"

\* The command a process in a given phase runs, and the lock it holds.
CmdInv(p) ==
  /\ pc[p] \in {"idle", "lock"} => lock[p] = "none"
  /\ pc[p] \in {"open", "find"} => lock[p] = Mode(cmd[p])
  /\ pc[p] \in {"rmforced", "rmold", "install", "rollback", "rbcommit"}
       => cmd[p].util = "pkgadd"
  /\ pc[p] = "rmpkg" => cmd[p].util = "pkgrm"
  /\ pc[p] \in {"commit", "ldconfig"} => cmd[p].util \in {"pkgadd", "pkgrm"}

\* What p has loaded is what is on disk.
FindInv(p) == pc[p] = "find" /\ cmd[p].util # "pkginfo" => mem[p] = db

\* pkgadd has made room for its files in the records of the other packages.
Taken(p) ==
  \A q \in Pkg \ {cmd[p].name} :
    /\ mem[p][q] = db[q] \ (Recorded(cmd[p].arch) \ Dir)
    /\ cmd[p].force \/ db[q] \intersect Recorded(cmd[p].arch) \subseteq Dir

\* The files F are deleted, or will be before the next commit.
Gone(p, F) ==
  "remove" \in Faults \/ \A f \in F \ Dir : f \in todo[p] \/ fs[f] = Absent

\* Without --force no file to be recorded is on disk but the package's own.
Clear(p) ==
  \/ cmd[p].force
  \/ \A f \in Recorded(cmd[p].arch) \ Dir : f \in db[cmd[p].name] \/ fs[f] = Absent

Installed(p) == cmd[p].upgrade <=> db[cmd[p].name] # {}

ForcedInv(p) == pc[p] = "rmforced" =>
  /\ cmd[p].force
  /\ Installed(p)
  /\ Taken(p)
  /\ mem[p][cmd[p].name] = db[cmd[p].name]
  /\ todo[p] \subseteq Recorded(cmd[p].arch) \ Dir
  /\ todo[p] \intersect Kept(cmd[p]) = {}

OldInv(p) == pc[p] = "rmold" =>
  /\ Installed(p)
  /\ Taken(p)
  /\ mem[p][cmd[p].name] = {}
  /\ todo[p] \subseteq db[cmd[p].name]
  /\ todo[p] \intersect Kept(cmd[p]) = {}
  /\ Gone(p, db[cmd[p].name] \ Recorded(cmd[p].arch))
  /\ Clear(p)

AddInv(p) == pc[p] = "commit" /\ cmd[p].util = "pkgadd" =>
  /\ Taken(p)
  /\ mem[p][cmd[p].name] = Recorded(cmd[p].arch)
  /\ todo[p] = {}
  /\ Gone(p, db[cmd[p].name] \ Recorded(cmd[p].arch))
  /\ Clear(p)

InstallInv(p) == pc[p] = "install" =>
  /\ mem[p] = db
  /\ db[cmd[p].name] = Recorded(cmd[p].arch)
  /\ todo[p] = {}

\* A package is being taken out of the database, by pkgrm or by a rollback.
Erasing(p) ==
  \/ pc[p] \in {"rmpkg", "rollback", "rbcommit"}
  \/ pc[p] \in {"ldconfig", "commit"} /\ cmd[p].util = "pkgrm"

EraseInv(p) == Erasing(p) =>
  /\ mem[p] = Without(db, cmd[p].name)
  /\ todo[p] \subseteq db[cmd[p].name]
  /\ pc[p] \in {"ldconfig", "commit", "rbcommit"} => todo[p] = {}
  /\ pc[p] \in {"rollback", "rbcommit"} => ~cmd[p].upgrade
  /\ Gone(p, db[cmd[p].name])

ProcInv(p) ==
  /\ CmdInv(p)
  /\ FindInv(p)
  /\ ForcedInv(p)
  /\ OldInv(p)
  /\ AddInv(p)
  /\ InstallInv(p)
  /\ EraseInv(p)

IInv ==
  /\ TypeOK
  /\ LockInv
  /\ Disjoint(db)
  /\ \A p \in Proc : ProcInv(p)

-------------------------------------------------------------------------------
(* The operators.                                                          *)

\* What the database records for an archive are paths, among its entries.
LEMMA RecordedPaths ==
  ASSUME NEW a \in Archive
  PROVE  Recorded(a) \subseteq Path
<1>1. \A i \in DOMAIN Entries[a] : Entries[a][i] \in Path
  BY ArchiveAssumption
<1> QED
  BY <1>1 DEF Recorded, apply_install_rules, Files

LEMMA CmdFields ==
  ASSUME NEW c \in Cmds
  PROVE  /\ c.util \in {"pkgadd", "pkgrm", "pkginfo"}
         /\ c.name \in Pkg
         /\ c.arch \in Archive
         /\ c.upgrade \in BOOLEAN
         /\ c.force \in BOOLEAN
BY RunAssumption DEF Command

\* The keep list only names files that are to be recorded, none of them unless
\* the run is an upgrade.
LEMMA KeptRecorded ==
  ASSUME NEW c \in Cmds
  PROVE  /\ Kept(c) \subseteq Recorded(c.arch)
         /\ Kept(c) \subseteq Path
         /\ ~c.upgrade => Kept(c) = {}
BY CmdFields, RecordedPaths DEF Kept, make_keep_list

LEMMA SlotType ==
  /\ Absent \in Slot
  /\ Broken \in Slot
  /\ DefaultDir \in Slot
  /\ Broken # Absent
  /\ DefaultDir # Absent
  /\ \A a \in Archive, f \in Path : Content[a][f] \in Slot /\ Content[a][f] # Absent
BY NodeAssumption, ArchiveAssumption DEF Slot

\* Extracting to f puts node there and touches directories above f only.
LEMMA PlaceProps ==
  ASSUME NEW t \in [Path -> Slot], NEW f \in Path, NEW node \in Slot
  PROVE  /\ Place(t, f, node) \in [Path -> Slot]
         /\ Place(t, f, node)[f] = node
         /\ \A g \in Path \ Dir : g # f => Place(t, f, node)[g] = t[g]
BY SlotType, PathAssumption DEF Place

LEMMA TornProps ==
  ASSUME NEW t \in [Path -> Slot], NEW f \in Path, NEW u \in Torn(t, f)
  PROVE  /\ u \in [Path -> Slot]
         /\ \A g \in Path \ Dir : g # f => u[g] = t[g]
<1>1. PICK node \in Slot : u = t \/ u = Place(t, f, node)
  BY SlotType DEF Torn
<1>2. CASE u = t
  BY <1>2
<1>3. CASE u = Place(t, f, node)
  BY <1>3, PlaceProps
<1> QED
  BY <1>1, <1>2, <1>3

\* Only f itself is removed, a file always is.
LEMMA RemoveProps ==
  ASSUME NEW t \in [Path -> Slot], NEW f \in Path
  PROVE  /\ Remove(t, f) \in [Path -> Slot]
         /\ \A g \in Path : g # f => Remove(t, f)[g] = t[g]
         /\ f \notin Dir => Remove(t, f)[f] = Absent
<1>1. f \notin Dir => ~Occupied(t, f)
  BY PathAssumption DEF Occupied
<1> QED
  BY <1>1, SlotType DEF Remove

LEMMA FileRemoveType ==
  ASSUME NEW t \in [Path -> Slot], NEW f \in Path
  PROVE  file_remove(t, f) \in [Path -> Slot]
BY SlotType DEF file_remove

\* The references of the other packages.
LEMMA RefsProps ==
  ASSUME NEW m \in [Pkg -> SUBSET Path], NEW n \in Pkg
  PROVE  /\ Refs(m, n) \subseteq Path
         /\ \A q \in Pkg \ {n} : m[q] \subseteq Refs(m, n)
         /\ Disjoint(m) => Refs(m, n) \intersect m[n] \subseteq Dir
BY DEF Refs, Disjoint

LEMMA WithoutProps ==
  ASSUME NEW m \in [Pkg -> SUBSET Path], NEW n \in Pkg
  PROVE  /\ Without(m, n) \in [Pkg -> SUBSET Path]
         /\ Without(m, n)[n] = {}
         /\ \A q \in Pkg \ {n} : Without(m, n)[q] = m[q]
BY DEF Without

LEMMA StripProps ==
  ASSUME NEW m \in [Pkg -> SUBSET Path], NEW F
  PROVE  /\ Strip(m, F) \in [Pkg -> SUBSET Path]
         /\ \A q \in Pkg : Strip(m, F)[q] = m[q] \ F
BY DEF Strip

-------------------------------------------------------------------------------
(* Initial state, and what a step of p leaves alone.                       *)

LEMMA InitInv == Init => IInv
<1> SUFFICES ASSUME Init PROVE IInv
  OBVIOUS
<1>1. TypeOK
  BY RunAssumption, NodeAssumption DEF Init, TypeOK, NoDb, Phase, Changing, Slot
<1>2. LockInv
  BY DEF Init, LockInv
<1>3. Disjoint(db)
  BY DEF Init, Disjoint, NoDb
<1>4. ASSUME NEW p \in Proc PROVE ProcInv(p)
  BY DEF Init, ProcInv, CmdInv, FindInv, ForcedInv, OldInv, AddInv, InstallInv,
         EraseInv, Erasing
<1> QED
  BY <1>1, <1>2, <1>3, <1>4 DEF IInv

\* A step of the process p.
Act(p) == Start(p) \/ Step(p) \/ Kill(p)

Frame(q) ==
  /\ lock'[q] = lock[q]
  /\ pc'[q] = pc[q]
  /\ cmd'[q] = cmd[q]
  /\ mem'[q] = mem[q]
  /\ todo'[q] = todo[q]

LEMMA StepFrame ==
  ASSUME TypeOK, NEW p \in Proc, NEW q \in Proc, p # q, Act(p)
  PROVE  Frame(q)
<1> USE DEF TypeOK, Frame, Goto, Exit
<1>1. CASE Start(p) \/ Kill(p)
  BY <1>1 DEF Start, Kill
<1>2. CASE db_lock(p) \/ db_lock_busy(p) \/ db_open(p) \/ OpenFails(p)
  BY <1>2 DEF db_lock, db_lock_busy, db_open, OpenFails
<1>3. CASE Add(p) \/ AddForce(p) \/ AddRefused(p) \/ RemoveDone(p)
  BY <1>3 DEF Add, AddForce, AddRefused, RemoveDone, Replace
<1>4. CASE Rm(p) \/ RmRefused(p) \/ Query(p) \/ RemoveFile(p)
  BY <1>4 DEF Rm, RmRefused, Query, RemoveFile
<1>5. CASE Commit(p) \/ CommitFails(p) \/ ldconfig(p) \/ LdconfigFails(p)
  BY <1>5 DEF Commit, CommitFails, ldconfig, LdconfigFails
<1>6. CASE SkipEntry(p) \/ ExtractEntry(p) \/ RejectEntry(p) \/ EndOfArchive(p)
  BY <1>6 DEF SkipEntry, ExtractEntry, RejectEntry, EndOfArchive
<1>7. CASE ExtractFails(p) \/ ReopenFails(p)
  BY <1>7 DEF ExtractFails, ReopenFails, Throw
<1> QED
  BY <1>1, <1>2, <1>3, <1>4, <1>5, <1>6, <1>7 DEF Act, Step

\* Only a process that holds the exclusive lock changes the disk.
LEMMA StepDisk ==
  ASSUME TypeOK, NEW p \in Proc, Act(p), ~Writing(p)
  PROVE  db' = db /\ fs' = fs
<1>1. pc[p] \notin Changing
  BY DEF TypeOK
<1> USE <1>1 DEF Changing, Phase, disk
<1>2. CASE Start(p) \/ Kill(p)
  BY <1>2 DEF Start, Kill, AtEntry
<1>3. CASE db_lock(p) \/ db_lock_busy(p) \/ db_open(p) \/ OpenFails(p)
  BY <1>3 DEF db_lock, db_lock_busy, db_open, OpenFails
<1>4. CASE Add(p) \/ AddForce(p) \/ AddRefused(p) \/ RemoveDone(p)
  BY <1>4 DEF Add, AddForce, AddRefused, RemoveDone
<1>5. CASE Rm(p) \/ RmRefused(p) \/ Query(p) \/ RemoveFile(p)
  BY <1>5 DEF Rm, RmRefused, Query, RemoveFile
<1>6. CASE Commit(p) \/ CommitFails(p) \/ ldconfig(p) \/ LdconfigFails(p)
  BY <1>6 DEF Commit, CommitFails, ldconfig, LdconfigFails
<1>7. CASE SkipEntry(p) \/ ExtractEntry(p) \/ RejectEntry(p) \/ EndOfArchive(p)
  BY <1>7 DEF SkipEntry, ExtractEntry, RejectEntry, EndOfArchive, AtEntry
<1>8. CASE ExtractFails(p) \/ ReopenFails(p)
  BY <1>8 DEF ExtractFails, ReopenFails, AtEntry
<1> QED
  BY <1>2, <1>3, <1>4, <1>5, <1>6, <1>7, <1>8 DEF Act, Step

\* What holds of q still holds when q does not move and the database, and the
\* absence of files, are as before, or q holds no lock.
LEMMA FrameInv ==
  ASSUME IInv, NEW q \in Proc, Frame(q), cmd[q] \in Cmds \union {Idle},
         \/ lock[q] = "none"
         \/ db' = db /\ \A f \in Path : fs[f] = Absent => fs'[f] = Absent
  PROVE  ProcInv(q)'
<1>1. CmdInv(q)'
  BY DEF IInv, ProcInv, CmdInv, Frame
<1>2. CASE lock[q] = "none"
  <2>1. pc[q] \in {"idle", "lock"}
    BY <1>2 DEF IInv, TypeOK, Changing, Writing, ProcInv, CmdInv, Mode, Phase
  <2> QED
    BY <1>1, <2>1 DEF Frame, ProcInv, FindInv, ForcedInv, OldInv, AddInv, InstallInv,
                      EraseInv, Erasing
<1>3. CASE db' = db /\ \A f \in Path : fs[f] = Absent => fs'[f] = Absent
  <2> USE <1>3 DEF Frame
  <2>1. ASSUME NEW F \in SUBSET Path, Gone(q, F) PROVE Gone(q, F)'
    BY <2>1 DEF Gone
  <2>2. FindInv(q)'
    BY DEF IInv, ProcInv, FindInv
  <2>3. CASE pc[q] = "idle"
    BY <1>1, <2>3 DEF ProcInv, FindInv, ForcedInv, OldInv, AddInv, InstallInv,
                      EraseInv, Erasing
  <2>4. CASE pc[q] # "idle"
    <3> DEFINE n == cmd[q].name
               R == Recorded(cmd[q].arch)
    <3>1. cmd[q] \in Cmds /\ n \in Pkg /\ R \subseteq Path /\ db[n] \subseteq Path
      BY <2>4, CmdFields, RecordedPaths DEF IInv, TypeOK
    <3>2. Clear(q) => Clear(q)'
      BY <3>1 DEF Clear
    <3>3. /\ Taken(q) => Taken(q)'
          /\ Installed(q) => Installed(q)'
      BY <3>1 DEF Taken, Installed
    <3>4. Gone(q, db[n] \ R) => Gone(q, db[n] \ R)'
      BY <2>1, <3>1
    <3>5. Gone(q, db[n]) => Gone(q, db[n])'
      BY <2>1, <3>1
    <3>6. ForcedInv(q)'
      BY <3>1, <3>3 DEF IInv, ProcInv, ForcedInv
    <3>7. OldInv(q)'
      BY <3>1, <3>2, <3>3, <3>4 DEF IInv, ProcInv, OldInv
    <3>8. AddInv(q)'
      BY <3>1, <3>2, <3>3, <3>4 DEF IInv, ProcInv, AddInv
    <3>9. InstallInv(q)'
      BY <3>1 DEF IInv, ProcInv, InstallInv
    <3>10. EraseInv(q)'
      BY <3>1, <3>5 DEF IInv, ProcInv, EraseInv, Erasing
    <3> QED
      BY <1>1, <2>2, <3>6, <3>7, <3>8, <3>9, <3>10 DEF ProcInv
  <2> QED
    BY <2>3, <2>4
<1> QED
  BY <1>2, <1>3

-------------------------------------------------------------------------------
(* Types.                                                                  *)

\* The end of a run is well typed.
LEMMA ExitType ==
  ASSUME TypeOK, NEW p \in Proc, Exit(p), db' = db,
         fs' \in [Path -> Slot], rejected' \in [Path -> Slot]
  PROVE  TypeOK' /\ pc'[p] = "idle" /\ lock'[p] = "none"
BY DEF TypeOK, Exit, Goto, NoDb, Phase, Changing, Writing

\* What interrupting an extraction leaves is well typed, and only the file of
\* the entry has changed; a kept file has not.
LEMMA CutShortProps ==
  ASSUME TypeOK, NEW p \in Proc, AtEntry(p), CutShort(p)
  PROVE  /\ Entry(p) \in Path
         /\ fs' \in [Path -> Slot]
         /\ rejected' \in [Path -> Slot]
         /\ \A g \in Path \ Dir : g # Entry(p) => fs'[g] = fs[g]
         /\ Rejects(p) => fs' = fs
<1>1. Entry(p) \in Path
  BY CmdFields, ArchiveAssumption DEF TypeOK, AtEntry, Entry
<1>2. CASE Rejects(p)
  BY <1>1, <1>2, TornProps DEF CutShort, TypeOK
<1>3. CASE ~Rejects(p)
  BY <1>1, <1>3, TornProps DEF CutShort, TypeOK
<1> QED
  BY <1>1, <1>2, <1>3

LEMMA TypeStep ==
  ASSUME IInv, NEW p \in Proc, Act(p)
  PROVE  TypeOK'
<1> USE DEF IInv
<1> DEFINE c == cmd[p]
<1>1. CASE Start(p)
  BY <1>1 DEF Start, disk, TypeOK, Goto, Phase, Changing, Writing
<1>2. ASSUME pc[p] # "idle"
      PROVE  /\ c \in Cmds
             /\ c.name \in Pkg
             /\ c.arch \in Archive
             /\ Recorded(c.arch) \subseteq Path
  BY <1>2, CmdFields, RecordedPaths DEF TypeOK
<1>3. CASE db_lock(p)
  BY <1>3 DEF db_lock, disk, TypeOK, Goto, Phase, Changing, Writing, Mode
<1>4. CASE db_open(p)
  BY <1>4 DEF db_open, disk, TypeOK, Goto, Phase, Changing, Writing
<1>5. CASE db_lock_busy(p) \/ OpenFails(p) \/ AddRefused(p) \/ RmRefused(p) \/ Query(p)
           \/ CommitFails(p) \/ LdconfigFails(p)
  <2>1. Exit(p) /\ UNCHANGED disk
    BY <1>5 DEF db_lock_busy, OpenFails, AddRefused, RmRefused, Query, CommitFails,
               LdconfigFails
  <2> QED
    BY <2>1, ExitType DEF disk, TypeOK
<1>6. ASSUME pc[p] = "find", c.util = "pkgadd" \/ c.util = "pkgrm"
      PROVE  Writing(p)
  BY <1>6 DEF ProcInv, CmdInv, Mode, Writing
<1>7. CASE Add(p) \/ (pc[p] = "rmforced" /\ RemoveDone(p))
  <2>1. pc[p] \in {"find", "rmforced"} /\ c.util = "pkgadd" /\ Replace(p, mem[p])
    BY <1>7 DEF Add, AddAccepted, RemoveDone, ProcInv, CmdInv
  <2>2. UNCHANGED <<disk, lock, cmd, pos>> /\ Writing(p)
    BY <1>6, <1>7, <2>1 DEF Add, RemoveDone, Changing, Phase, TypeOK
  <2>3. mem[p] \in [Pkg -> SUBSET Path]
    BY DEF TypeOK
  <2>4. todo' \in [Proc -> SUBSET Path] /\ mem' \in [Proc -> [Pkg -> SUBSET Path]]
    BY <1>2, <2>1, <2>3, WithoutProps DEF Replace, TypeOK
  <2>5. pc' = [pc EXCEPT ![p] = "rmold"]
    BY <2>1 DEF Replace, Goto
  <2> QED
    BY <1>2, <2>1, <2>2, <2>4, <2>5 DEF disk, TypeOK, Phase, Writing
<1>8. CASE AddForce(p)
  <2>1. c \in Cmds /\ Writing(p) /\ mem[p] \in [Pkg -> SUBSET Path]
    BY <1>2, <1>6, <1>8 DEF AddForce, AddAccepted, TypeOK
  <2>2. db_find_conflicts(c, mem[p]) \subseteq Path
    BY <2>1, CmdFields, RecordedPaths DEF db_find_conflicts
  <2>3. Strip(mem[p], db_find_conflicts(c, mem[p])) \in [Pkg -> SUBSET Path]
    BY <2>1, StripProps
  <2>4. mem' \in [Proc -> [Pkg -> SUBSET Path]]
    BY <1>8, <2>3 DEF AddForce, TypeOK
  <2>5. todo' \in [Proc -> SUBSET Path]
    BY <1>8, <2>2 DEF AddForce, TypeOK
  <2>6. /\ UNCHANGED <<disk, lock, cmd, pos>>
        /\ pc' = [pc EXCEPT ![p] = "rmforced"]
        /\ pc[p] = "find"
    BY <1>8 DEF AddForce, AddAccepted, Goto
  <2> QED
    BY <2>1, <2>4, <2>5, <2>6 DEF disk, TypeOK, Phase, Writing
<1>9. CASE Rm(p)
  <2>1. c \in Cmds /\ c.name \in Pkg /\ Writing(p) /\ mem[p] \in [Pkg -> SUBSET Path]
    BY <1>2, <1>6, <1>9 DEF Rm, TypeOK
  <2>2. Without(mem[p], c.name) \in [Pkg -> SUBSET Path]
    BY <2>1, WithoutProps
  <2>3. mem' \in [Proc -> [Pkg -> SUBSET Path]]
    BY <1>9, <2>2 DEF Rm, TypeOK
  <2>4. todo' \in [Proc -> SUBSET Path]
    BY <1>9, <2>1 DEF Rm, TypeOK
  <2>5. UNCHANGED <<disk, lock, cmd, pos>> /\ pc' = [pc EXCEPT ![p] = "rmpkg"] /\ pc[p] = "find"
    BY <1>9 DEF Rm, Goto
  <2> QED
    BY <2>1, <2>3, <2>4, <2>5 DEF disk, TypeOK, Phase, Writing
<1>10. CASE RemoveFile(p)
  <2>1. fs' \in [Path -> Slot]
    <3>1. PICK f \in todo[p] : fs' = Remove(fs, f) \/ fs' = fs
      BY <1>10 DEF RemoveFile
    <3>2. f \in Path /\ fs \in [Path -> Slot]
      BY DEF TypeOK
    <3>3. Remove(fs, f) \in [Path -> Slot]
      BY <3>2, RemoveProps
    <3> QED
      BY <3>1, <3>2, <3>3
  <2>2. todo \in [Proc -> SUBSET Path] /\ UNCHANGED <<db, rejected, lock, pc, cmd, mem, pos>>
    BY <1>10 DEF RemoveFile, TypeOK
  <2>3. PICK f : todo' = [todo EXCEPT ![p] = @ \ {f}]
    BY <1>10 DEF RemoveFile
  <2>4. todo' \in [Proc -> SUBSET Path]
    BY <2>2, <2>3
  <2> QED
    BY <2>1, <2>2, <2>4 DEF TypeOK, Writing
<1>11. CASE RemoveDone(p) /\ pc[p] # "rmforced"
  <2>1. pc[p] \in Changing /\ pc[p] # "idle"
    BY <1>11 DEF RemoveDone, Changing, Phase
  <2>2. mem' \in [Proc -> [Pkg -> SUBSET Path]] /\ UNCHANGED todo
    BY <1>2, <1>11, <2>1 DEF RemoveDone, TypeOK
  <2>3. PICK l \in Changing : pc' = [pc EXCEPT ![p] = l]
    BY <1>11 DEF RemoveDone, Goto, Changing, Phase
  <2> QED
    BY <1>11, <2>1, <2>2, <2>3 DEF RemoveDone, disk, TypeOK, Writing, Changing
<1>12. CASE Commit(p)
  <2>1. db' \in [Pkg -> SUBSET Path] /\ pc[p] \in Changing /\ UNCHANGED <<fs, rejected>>
    BY <1>12 DEF Commit, TypeOK, Changing, Phase
  <2>2. CASE Exit(p)
    BY <2>1, <2>2 DEF TypeOK, Exit, Goto, NoDb, Phase, Changing, Writing
  <2>3. CASE Goto(p, "install") /\ UNCHANGED <<lock, cmd, mem, todo, pos>>
    BY <2>1, <2>3 DEF TypeOK, Goto, Phase, Changing, Writing
  <2> QED
    BY <1>12, <2>2, <2>3 DEF Commit
<1>13. CASE SkipEntry(p)
  BY <1>13 DEF SkipEntry, NextEntry, disk, TypeOK, Writing
<1>14. CASE ExtractEntry(p) \/ RejectEntry(p)
  <2>1. c \in Cmds /\ c.arch \in Archive
    BY <1>2, <1>14 DEF ExtractEntry, RejectEntry, AtEntry
  <2>2. Entry(p) \in Path
    BY <1>14, <2>1, ArchiveAssumption DEF ExtractEntry, RejectEntry, AtEntry, Entry, TypeOK
  <2>3. Content[c.arch][Entry(p)] \in Slot
    BY <2>1, <2>2, SlotType
  <2>4. fs' \in [Path -> Slot] /\ rejected' \in [Path -> Slot]
    <3> DEFINE f == Entry(p)
               new == Content[c.arch][f]
    <3>1. fs \in [Path -> Slot] /\ rejected \in [Path -> Slot]
      BY DEF TypeOK
    <3>2. Place(fs, f, new) \in [Path -> Slot] /\ Place(rejected, f, new) \in [Path -> Slot]
      BY <2>2, <2>3, <3>1, PlaceProps
    <3>3. file_remove(Place(rejected, f, new), f) \in [Path -> Slot]
      BY <2>2, <3>2, FileRemoveType
    <3>4. CASE ExtractEntry(p)
      BY <3>1, <3>2, <3>4 DEF ExtractEntry
    <3>5. CASE RejectEntry(p)
      BY <3>1, <3>2, <3>3, <3>5 DEF RejectEntry
    <3> QED
      BY <1>14, <3>4, <3>5
  <2>5. NextEntry(p) /\ UNCHANGED <<db, lock, pc, cmd, mem, todo>>
    BY <1>14 DEF ExtractEntry, RejectEntry
  <2>6. pos' \in [Proc -> Nat \ {0}]
    BY <2>5 DEF NextEntry, TypeOK
  <2> QED
    BY <2>4, <2>5, <2>6 DEF TypeOK, Writing
<1>15. ASSUME Throw(p), pc[p] = "install", UNCHANGED <<db, lock, cmd, pos>>,
              fs' \in [Path -> Slot], rejected' \in [Path -> Slot]
       PROVE  TypeOK'
  <2>1. c \in Cmds /\ c.name \in Pkg /\ mem[p] \in [Pkg -> SUBSET Path] /\ Writing(p)
    BY <1>2, <1>15 DEF TypeOK, Changing, Phase
  <2>2. mem' \in [Proc -> [Pkg -> SUBSET Path]] /\ todo' \in [Proc -> SUBSET Path]
    <3>1. Without(mem[p], c.name) \in [Pkg -> SUBSET Path]
      BY <2>1, WithoutProps
    <3>2. mem[p][c.name] \subseteq Path
      BY <2>1
    <3>3. mem \in [Proc -> [Pkg -> SUBSET Path]] /\ todo \in [Proc -> SUBSET Path]
      BY DEF TypeOK
    <3>4. CASE c.upgrade
      BY <1>15, <3>3, <3>4 DEF Throw
    <3>5. CASE ~c.upgrade
      BY <1>15, <3>1, <3>2, <3>3, <3>5 DEF Throw
    <3> QED
      BY <3>4, <3>5
  <2>3. PICK l \in {"rollback", "ldconfig"} : pc' = [pc EXCEPT ![p] = l]
    BY <1>15 DEF Throw, Goto
  <2> QED
    BY <1>15, <2>1, <2>2, <2>3 DEF TypeOK, Phase, Changing, Writing
<1>16. CASE ExtractFails(p)
  <2>1. fs' \in [Path -> Slot] /\ rejected' \in [Path -> Slot]
    BY <1>16, CutShortProps DEF ExtractFails
  <2>2. CASE c.upgrade /\ NextEntry(p) /\ UNCHANGED <<pc, mem, todo>>
    BY <1>16, <2>1, <2>2 DEF ExtractFails, NextEntry, TypeOK, Writing
  <2>3. CASE Throw(p) /\ UNCHANGED pos
    BY <1>15, <1>16, <2>1, <2>3 DEF ExtractFails, AtEntry
  <2> QED
    BY <1>16, <2>2, <2>3 DEF ExtractFails
<1>17. CASE ReopenFails(p)
  BY <1>15, <1>17 DEF ReopenFails, disk, TypeOK
<1>18. CASE EndOfArchive(p)
  BY <1>18 DEF EndOfArchive, disk, TypeOK, Goto, Phase, Changing, Writing
<1>19. CASE ldconfig(p)
  <2>1. CASE Exit(p)
    BY <1>19, <2>1, ExitType DEF ldconfig, disk, TypeOK
  <2>2. CASE Goto(p, "commit") /\ UNCHANGED <<lock, cmd, mem, todo, pos>>
    BY <1>19, <2>2 DEF ldconfig, disk, TypeOK, Goto, Phase, Changing, Writing
  <2> QED
    BY <1>19, <2>1, <2>2 DEF ldconfig
<1>20. CASE Kill(p)
  <2>1. fs' \in [Path -> Slot] /\ rejected' \in [Path -> Slot]
    BY <1>20, CutShortProps DEF Kill, TypeOK
  <2> QED
    BY <1>20, <2>1, ExitType DEF Kill
<1> QED
  BY <1>1, <1>3, <1>4, <1>5, <1>7, <1>8, <1>9, <1>10, <1>11, <1>12, <1>13, <1>14, <1>16,
     <1>17, <1>18, <1>19, <1>20 DEF Act, Step

-------------------------------------------------------------------------------
(* The lock.                                                               *)

\* A step gains a lock only by db_lock.
LEMMA StepLock ==
  ASSUME TypeOK, NEW p \in Proc, Act(p)
  PROVE  lock'[p] \in {lock[p], "none"} \/ db_lock(p)
<1> USE DEF TypeOK, Exit, Goto
<1>1. CASE Start(p) \/ Kill(p)
  BY <1>1 DEF Start, Kill
<1>2. CASE db_lock_busy(p) \/ db_open(p) \/ OpenFails(p)
  BY <1>2 DEF db_lock_busy, db_open, OpenFails
<1>3. CASE Add(p) \/ AddForce(p) \/ AddRefused(p) \/ RemoveDone(p)
  BY <1>3 DEF Add, AddForce, AddRefused, RemoveDone
<1>4. CASE Rm(p) \/ RmRefused(p) \/ Query(p) \/ RemoveFile(p)
  BY <1>4 DEF Rm, RmRefused, Query, RemoveFile
<1>5. CASE Commit(p) \/ CommitFails(p) \/ ldconfig(p) \/ LdconfigFails(p)
  BY <1>5 DEF Commit, CommitFails, ldconfig, LdconfigFails
<1>6. CASE SkipEntry(p) \/ ExtractEntry(p) \/ RejectEntry(p) \/ EndOfArchive(p)
  BY <1>6 DEF SkipEntry, ExtractEntry, RejectEntry, EndOfArchive
<1>7. CASE ExtractFails(p) \/ ReopenFails(p)
  BY <1>7 DEF ExtractFails, ReopenFails
<1> QED
  BY <1>1, <1>2, <1>3, <1>4, <1>5, <1>6, <1>7 DEF Act, Step

LEMMA LockStep ==
  ASSUME IInv, NEW p \in Proc, Act(p)
  PROVE  LockInv'
<1>1. TypeOK /\ LockInv
  BY DEF IInv
<1>2. \A q \in Proc \ {p} : lock'[q] = lock[q]
  BY <1>1, StepFrame DEF Frame
<1>3. CASE lock'[p] \in {lock[p], "none"}
  BY <1>1, <1>2, <1>3 DEF LockInv
<1>4. CASE db_lock(p)
  <2>1. lock'[p] = Mode(cmd[p]) /\ Grantable(p)
    BY <1>1, <1>4 DEF db_lock, TypeOK
  <2>2. \A q \in Proc \ {p} : lock[q] # "exclusive"
    BY <2>1 DEF Grantable
  <2>3. lock'[p] = "exclusive" => \A q \in Proc \ {p} : lock[q] = "none"
    BY <2>1 DEF Grantable
  <2> QED
    BY <1>1, <1>2, <2>2, <2>3 DEF LockInv
<1> QED
  BY <1>1, <1>3, <1>4, StepLock

\* The step of a process keeps what holds of the others.
LEMMA OthersStep ==
  ASSUME IInv, NEW p \in Proc, NEW q \in Proc, p # q, Act(p)
  PROVE  ProcInv(q)'
<1>1. Frame(q) /\ cmd[q] \in Cmds \union {Idle}
  BY StepFrame DEF IInv, TypeOK
<1>2. CASE Writing(p)
  <2>1. lock[q] = "none"
    BY <1>2 DEF Writing, IInv, LockInv
  <2> QED
    BY <1>1, <2>1, FrameInv
<1>3. CASE ~Writing(p)
  <2>1. db' = db /\ fs' = fs
    BY <1>3, StepDisk DEF IInv
  <2> QED
    BY <1>1, <2>1, FrameInv
<1> QED
  BY <1>2, <1>3

-------------------------------------------------------------------------------
(* The step of p keeps what holds of p.                                    *)

LEMMA IdleInv ==
  ASSUME NEW p \in Proc, pc'[p] \in {"idle", "lock"}, lock'[p] = "none"
  PROVE  ProcInv(p)'
BY DEF ProcInv, CmdInv, FindInv, ForcedInv, OldInv, AddInv, InstallInv, EraseInv, Erasing

\* The constants of the run of p.
LEMMA RunFacts ==
  ASSUME IInv, NEW p \in Proc, pc[p] # "idle"
  PROVE  /\ cmd[p] \in Cmds
         /\ cmd[p].name \in Pkg
         /\ cmd[p].arch \in Archive
         /\ cmd[p].upgrade \in BOOLEAN
         /\ cmd[p].force \in BOOLEAN
         /\ Recorded(cmd[p].arch) \subseteq Path
         /\ Kept(cmd[p]) \subseteq Recorded(cmd[p].arch)
         /\ ~cmd[p].upgrade => Kept(cmd[p]) = {}
         /\ mem[p] \in [Pkg -> SUBSET Path]
         /\ db \in [Pkg -> SUBSET Path]
<1>1. cmd[p] \in Cmds /\ mem[p] \in [Pkg -> SUBSET Path] /\ db \in [Pkg -> SUBSET Path]
  BY DEF IInv, TypeOK
<1> QED
  BY <1>1, CmdFields, RecordedPaths, KeptRecorded

\* Replacing the old version of a package, once there is room for the new one.
LEMMA ReplaceInv ==
  ASSUME IInv, NEW p \in Proc, pc[p] # "idle", cmd[p].util = "pkgadd", Taken(p),
         mem[p][cmd[p].name] = db[cmd[p].name], Installed(p), Clear(p),
         Replace(p, mem[p]), UNCHANGED <<disk, lock, cmd, pos>>
  PROVE  ProcInv(p)'
<1> DEFINE c == cmd[p]
           n == cmd[p].name
           R == Recorded(cmd[p].arch)
<1>1. /\ c \in Cmds /\ n \in Pkg /\ R \subseteq Path /\ Kept(c) \subseteq R
      /\ mem[p] \in [Pkg -> SUBSET Path] /\ db \in [Pkg -> SUBSET Path]
      /\ c.upgrade \in BOOLEAN
  BY RunFacts
<1>2. pc'[p] = "rmold" /\ cmd' = cmd /\ db' = db /\ fs' = fs
  BY DEF Replace, Goto, disk, IInv, TypeOK
<1>3. mem'[p] = IF c.upgrade THEN Without(mem[p], n) ELSE mem[p]
  BY DEF Replace, IInv, TypeOK
<1>4. todo'[p] = IF c.upgrade THEN db[n] \ (Kept(c) \union Refs(mem[p], n)) ELSE {}
  BY DEF Replace, IInv, TypeOK
<1>5. mem'[p][n] = {} /\ \A q \in Pkg \ {n} : mem'[p][q] = mem[p][q]
  <2>1. CASE c.upgrade
    BY <1>1, <1>3, <2>1, WithoutProps
  <2>2. CASE ~c.upgrade
    BY <1>3, <2>2 DEF Installed
  <2> QED
    BY <2>1, <2>2
<1>6. Taken(p)'
  BY <1>1, <1>2, <1>5 DEF Taken
<1>7. Installed(p)' /\ Clear(p)'
  BY <1>2 DEF Installed, Clear
<1>8. todo'[p] \subseteq db[n] /\ todo'[p] \intersect Kept(c) = {}
  BY <1>4
<1>9. \A f \in (db[n] \ R) \ Dir : f \in todo'[p]
  <2> SUFFICES ASSUME NEW f \in (db[n] \ R) \ Dir PROVE f \in todo'[p]
    OBVIOUS
  <2>1. c.upgrade
    BY DEF Installed
  <2>2. \A q \in Pkg \ {n} : f \notin mem[p][q]
    BY <1>1 DEF Taken, IInv, Disjoint
  <2>3. f \notin Refs(mem[p], n)
    BY <2>2 DEF Refs
  <2> QED
    BY <1>1, <1>4, <2>1, <2>3
<1>10. Gone(p, db[n] \ R)'
  BY <1>2, <1>9 DEF Gone
<1>11. OldInv(p)'
  BY <1>2, <1>5, <1>6, <1>7, <1>8, <1>10 DEF OldInv
<1>12. CmdInv(p)'
  BY <1>2 DEF CmdInv
<1> QED
  BY <1>2, <1>11, <1>12 DEF ProcInv, FindInv, ForcedInv, AddInv, InstallInv, EraseInv, Erasing

\* db_find_conflicts and what pkgadd makes of it give Taken and Clear.
LEMMA AddStep ==
  ASSUME IInv, NEW p \in Proc, Add(p)
  PROVE  ProcInv(p)'
<1> DEFINE c == cmd[p]
           n == cmd[p].name
           R == Recorded(cmd[p].arch)
<1>1. pc[p] = "find" /\ c.util = "pkgadd" /\ mem[p] = db
  BY DEF Add, AddAccepted, IInv, ProcInv, FindInv
<1>2. n \in Pkg /\ R \subseteq Path /\ db \in [Pkg -> SUBSET Path]
  BY <1>1, RunFacts
<1>3. \A f \in R \ Dir : f \in db[n] \/ (f \notin Refs(db, n) /\ fs[f] = Absent)
  BY <1>1 DEF Add, db_find_conflicts
<1>4. \A q \in Pkg \ {n} : db[q] \intersect R \subseteq Dir
  BY <1>2, <1>3, RefsProps DEF IInv, Disjoint
<1>5. Taken(p)
  BY <1>1, <1>2, <1>4 DEF Taken
<1>6. Clear(p) /\ Installed(p)
  BY <1>1, <1>3 DEF Clear, Installed, Add, AddAccepted
<1> QED
  BY <1>1, <1>5, <1>6, ReplaceInv DEF Add

LEMMA AddForceStep ==
  ASSUME IInv, NEW p \in Proc, AddForce(p)
  PROVE  ProcInv(p)'
<1> DEFINE c == cmd[p]
           n == cmd[p].name
           R == Recorded(cmd[p].arch)
           F == db_find_conflicts(c, mem[p])
<1>1. pc[p] = "find" /\ c.util = "pkgadd" /\ mem[p] = db /\ c.force
  BY DEF AddForce, AddAccepted, IInv, ProcInv, FindInv
<1>2. /\ c \in Cmds /\ n \in Pkg /\ R \subseteq Path /\ db \in [Pkg -> SUBSET Path]
      /\ c.upgrade \in BOOLEAN /\ (~c.upgrade => Kept(c) = {})
  BY <1>1, RunFacts
<1>3. pc'[p] = "rmforced" /\ cmd' = cmd /\ db' = db /\ fs' = fs
  BY DEF AddForce, Goto, disk, IInv, TypeOK
<1>4. mem'[p] = Strip(db, F)
  BY <1>1 DEF AddForce, IInv, TypeOK
<1>5. todo'[p] = F \ IF c.upgrade THEN make_keep_list(F) ELSE {}
  BY DEF AddForce, IInv, TypeOK
<1>6. F \subseteq R \ Dir /\ F \intersect db[n] = {}
  BY <1>1 DEF db_find_conflicts
<1>7. \A q \in Pkg : mem'[p][q] = db[q] \ F
  BY <1>2, <1>4, StripProps
<1>8. \A q \in Pkg \ {n} : db[q] \ F = db[q] \ (R \ Dir)
  <2> SUFFICES ASSUME NEW q \in Pkg \ {n}, NEW f \in db[q], f \in R \ Dir PROVE f \in F
    BY <1>6
  <2>1. f \notin db[n]
    BY <1>2 DEF IInv, Disjoint
  <2>2. f \in Refs(db, n)
    BY DEF Refs
  <2> QED
    BY <1>1, <2>1, <2>2 DEF db_find_conflicts
<1>9. Taken(p)'
  BY <1>1, <1>3, <1>7, <1>8 DEF Taken
<1>10. mem'[p][n] = db[n]
  <2>1. db[n] \ F = db[n]
    BY <1>6
  <2> QED
    BY <1>2, <1>7, <2>1
<1>11. Installed(p)'
  BY <1>1, <1>3 DEF Installed, AddForce, AddAccepted
<1>12. todo'[p] \intersect Kept(c) = {}
  BY <1>2, <1>5, <1>6 DEF Kept, make_keep_list
<1>13. ForcedInv(p)'
  BY <1>1, <1>3, <1>5, <1>6, <1>9, <1>10, <1>11, <1>12 DEF ForcedInv
<1>14. CmdInv(p)'
  BY <1>1, <1>3 DEF CmdInv
<1> QED
  BY <1>3, <1>13, <1>14 DEF ProcInv, FindInv, OldInv, AddInv, InstallInv, EraseInv, Erasing

\* db_rm_pkg(name) of a package whose record is on disk.
LEMMA EraseStart ==
  ASSUME IInv, NEW p \in Proc, pc[p] # "idle", mem[p] = db,
         mem'[p] = Without(db, cmd[p].name),
         todo'[p] = db[cmd[p].name] \ Refs(db, cmd[p].name),
         UNCHANGED <<db, cmd>>
  PROVE  /\ mem'[p] = Without(db', cmd'[p].name)
         /\ todo'[p] \subseteq db'[cmd'[p].name]
         /\ Gone(p, db[cmd[p].name])'
<1> DEFINE n == cmd[p].name
<1>1. n \in Pkg /\ db \in [Pkg -> SUBSET Path]
  BY RunFacts
<1>2. \A f \in db[n] \ Dir : f \notin Refs(db, n)
  BY <1>1, RefsProps DEF IInv
<1>3. \A f \in db[n] \ Dir : f \in todo'[p]
  BY <1>2
<1> QED
  BY <1>3 DEF Gone

LEMMA RmStep ==
  ASSUME IInv, NEW p \in Proc, Rm(p)
  PROVE  ProcInv(p)'
<1>1. pc[p] = "find" /\ cmd[p].util = "pkgrm" /\ mem[p] = db
  BY DEF Rm, IInv, ProcInv, FindInv
<1>2. pc'[p] = "rmpkg" /\ cmd' = cmd /\ db' = db
  BY DEF Rm, Goto, disk, IInv, TypeOK
<1>3. /\ mem'[p] = Without(db, cmd[p].name)
      /\ todo'[p] = db[cmd[p].name] \ Refs(db, cmd[p].name)
  BY <1>1 DEF Rm, IInv, TypeOK
<1>4. EraseInv(p)'
  BY <1>1, <1>2, <1>3, EraseStart DEF EraseInv
<1>5. CmdInv(p)'
  BY <1>1, <1>2 DEF CmdInv
<1> QED
  BY <1>2, <1>4, <1>5 DEF ProcInv, FindInv, ForcedInv, OldInv, AddInv, InstallInv

\* pkg_install throws: back to the database without the package, or go on.
LEMMA ThrowStep ==
  ASSUME IInv, NEW p \in Proc, pc[p] = "install", Throw(p), UNCHANGED <<db, lock, cmd>>
  PROVE  ProcInv(p)'
<1>1. cmd[p].util = "pkgadd" /\ mem[p] = db
  BY DEF IInv, ProcInv, CmdInv, InstallInv
<1>2. CASE cmd[p].upgrade
  <2>1. pc'[p] = "ldconfig"
    BY <1>2 DEF Throw, Goto, IInv, TypeOK
  <2> QED
    BY <1>1, <2>1 DEF ProcInv, CmdInv, FindInv, ForcedInv, OldInv, AddInv, InstallInv,
                      EraseInv, Erasing
<1>3. CASE ~cmd[p].upgrade
  <2>1. pc'[p] = "rollback"
    BY <1>3 DEF Throw, Goto, IInv, TypeOK
  <2>2. /\ mem'[p] = Without(db, cmd[p].name)
        /\ todo'[p] = db[cmd[p].name] \ Refs(db, cmd[p].name)
    BY <1>1, <1>3 DEF Throw, IInv, TypeOK
  <2>3. EraseInv(p)'
    BY <1>1, <1>3, <2>1, <2>2, EraseStart DEF EraseInv
  <2>4. CmdInv(p)'
    BY <1>1, <2>1 DEF CmdInv
  <2> QED
    BY <2>1, <2>3, <2>4 DEF ProcInv, FindInv, ForcedInv, OldInv, AddInv, InstallInv
<1> QED
  BY <1>2, <1>3

\* One file less to delete.
LEMMA RemoveFileProps ==
  ASSUME IInv, NEW p \in Proc, RemoveFile(p)
  PROVE  /\ UNCHANGED <<db, lock, pc, cmd, mem>>
         /\ todo'[p] \subseteq todo[p]
         /\ \A f \in Path : fs[f] = Absent => fs'[f] = Absent
         /\ \A f \in Path \ Dir : fs'[f] # fs[f] => f \in todo[p]
         /\ \A F \in SUBSET Path : Gone(p, F) => Gone(p, F)'
<1>1. PICK f \in todo[p] :
        /\ todo' = [todo EXCEPT ![p] = @ \ {f}]
        /\ fs' = Remove(fs, f) \/ ("remove" \in Faults /\ fs' = fs)
  BY DEF RemoveFile
<1>2. f \in Path /\ fs \in [Path -> Slot] /\ todo \in [Proc -> SUBSET Path]
  BY DEF IInv, TypeOK
<1>3. /\ \A g \in Path : g # f => Remove(fs, f)[g] = fs[g]
      /\ f \notin Dir => Remove(fs, f)[f] = Absent
  BY <1>2, RemoveProps
<1>4. todo'[p] = todo[p] \ {f}
  BY <1>1, <1>2
<1>5. \A g \in Path : fs[g] = Absent => fs'[g] = Absent
  BY <1>1, <1>2, <1>3 DEF Remove
<1>6. \A g \in Path \ Dir : fs'[g] # fs[g] => g \in todo[p]
  BY <1>1, <1>3
<1>7. ASSUME NEW F \in SUBSET Path, Gone(p, F) PROVE Gone(p, F)'
  <2>1. CASE "remove" \in Faults
    BY <2>1 DEF Gone
  <2>2. CASE "remove" \notin Faults
    BY <1>1, <1>3, <1>4, <1>5, <1>7, <2>2 DEF Gone
  <2> QED
    BY <2>1, <2>2
<1> QED
  BY <1>4, <1>5, <1>6, <1>7 DEF RemoveFile

LEMMA RemoveFileStep ==
  ASSUME IInv, NEW p \in Proc, RemoveFile(p)
  PROVE  ProcInv(p)'
<1> DEFINE n == cmd[p].name
           R == Recorded(cmd[p].arch)
<1>1. pc[p] \in {"rmforced", "rmold", "rmpkg", "rollback"}
  BY DEF RemoveFile
<1>2. n \in Pkg /\ R \subseteq Path /\ db \in [Pkg -> SUBSET Path]
  BY <1>1, RunFacts
<1>3. db[n] \in SUBSET Path /\ db[n] \ R \in SUBSET Path
  BY <1>2
<1>4. /\ UNCHANGED <<db, lock, pc, cmd, mem>>
      /\ todo'[p] \subseteq todo[p]
      /\ \A f \in Path : fs[f] = Absent => fs'[f] = Absent
      /\ Gone(p, db[n]) => Gone(p, db[n])'
      /\ Gone(p, db[n] \ R) => Gone(p, db[n] \ R)'
  BY <1>3, RemoveFileProps
<1>5. CmdInv(p)' /\ (Taken(p) => Taken(p)') /\ (Installed(p) => Installed(p)')
  BY <1>4 DEF IInv, ProcInv, CmdInv, Taken, Installed
<1>6. Clear(p) => Clear(p)'
  BY <1>2, <1>4 DEF Clear
<1>7. ForcedInv(p)'
  BY <1>4, <1>5 DEF IInv, ProcInv, ForcedInv
<1>8. OldInv(p)'
  BY <1>4, <1>5, <1>6 DEF IInv, ProcInv, OldInv
<1>9. EraseInv(p)'
  BY <1>1, <1>4 DEF IInv, ProcInv, EraseInv, Erasing
<1> QED
  BY <1>1, <1>4, <1>5, <1>7, <1>8, <1>9 DEF ProcInv, FindInv, AddInv, InstallInv

LEMMA RemoveDoneStep ==
  ASSUME IInv, NEW p \in Proc, RemoveDone(p)
  PROVE  ProcInv(p)'
<1> DEFINE n == cmd[p].name
           R == Recorded(cmd[p].arch)
<1>1. todo[p] = {} /\ UNCHANGED <<disk, lock, cmd, pos>> /\ db' = db /\ fs' = fs
  BY DEF RemoveDone, disk
<1>2. CASE pc[p] = "rmforced"
  <2>1. Replace(p, mem[p])
    BY <1>2 DEF RemoveDone
  <2>2. /\ Taken(p) /\ Installed(p) /\ mem[p][n] = db[n] /\ cmd[p].util = "pkgadd"
        /\ cmd[p].force
    BY <1>2 DEF IInv, ProcInv, ForcedInv, CmdInv
  <2> QED
    BY <1>1, <1>2, <2>1, <2>2, ReplaceInv DEF Clear
<1>3. CASE pc[p] = "rmold"
  <2>1. n \in Pkg /\ R \subseteq Path /\ mem[p] \in [Pkg -> SUBSET Path]
    BY <1>3, RunFacts
  <2>2. /\ mem' = [mem EXCEPT ![p][n] = R]
        /\ pc'[p] = "commit"
        /\ todo' = todo
    BY <1>3 DEF RemoveDone, Goto, IInv, TypeOK
  <2>3. mem'[p][n] = R /\ \A q \in Pkg \ {n} : mem'[p][q] = mem[p][q]
    BY <2>1, <2>2 DEF IInv, TypeOK
  <2>4. cmd[p].util = "pkgadd" /\ Taken(p) /\ Gone(p, db[n] \ R) /\ Clear(p)
    BY <1>3 DEF IInv, ProcInv, OldInv, CmdInv
  <2>5. Taken(p)' /\ Gone(p, db[n] \ R)' /\ Clear(p)'
    BY <1>1, <2>2, <2>3, <2>4 DEF Taken, Gone, Clear
  <2>6. AddInv(p)' /\ CmdInv(p)'
    BY <1>1, <2>2, <2>3, <2>4, <2>5 DEF AddInv, CmdInv
  <2> QED
    BY <1>1, <2>2, <2>4, <2>6 DEF ProcInv, FindInv, ForcedInv, OldInv, InstallInv,
                                  EraseInv, Erasing
<1>4. CASE pc[p] \in {"rmpkg", "rollback"}
  <2>1. /\ pc'[p] = IF pc[p] = "rmpkg" THEN "ldconfig" ELSE "rbcommit"
        /\ mem' = mem /\ todo' = todo
    BY <1>4 DEF RemoveDone, Goto, IInv, TypeOK
  <2>2. cmd[p].util = IF pc[p] = "rmpkg" THEN "pkgrm" ELSE "pkgadd"
    BY <1>4 DEF IInv, ProcInv, CmdInv
  <2>3. Gone(p, db[n]) => Gone(p, db[n])'
    BY <1>1, <2>1 DEF Gone
  <2>4. EraseInv(p)'
    BY <1>1, <1>4, <2>1, <2>2, <2>3 DEF IInv, ProcInv, EraseInv, Erasing
  <2>5. CmdInv(p)'
    BY <1>1, <1>4, <2>1, <2>2 DEF CmdInv
  <2> QED
    BY <1>1, <1>4, <2>1, <2>2, <2>4, <2>5 DEF ProcInv, FindInv, ForcedInv, OldInv, AddInv,
                                              InstallInv
<1> QED
  BY <1>2, <1>3, <1>4 DEF RemoveDone

\* A step inside pkg_install that stays there, or reaches its end.
LEMMA InstallStep ==
  ASSUME IInv, NEW p \in Proc, pc[p] = "install", pc'[p] \in {"install", "ldconfig"},
         UNCHANGED <<db, lock, cmd, mem, todo>>
  PROVE  ProcInv(p)'
<1>1. cmd[p].util = "pkgadd" /\ InstallInv(p)
  BY DEF IInv, ProcInv, CmdInv
<1> QED
  BY <1>1 DEF ProcInv, CmdInv, FindInv, ForcedInv, OldInv, AddInv, InstallInv, EraseInv,
              Erasing

\* The database a commit writes.
LEMMA CommitRecords ==
  ASSUME IInv, NEW p \in Proc, Commit(p)
  PROVE  /\ pc[p] \in {"commit", "rbcommit"}
         /\ cmd[p].name \in Pkg
         /\ Recorded(cmd[p].arch) \subseteq Path
         /\ db' = mem[p]
         /\ pc[p] = "commit" /\ cmd[p].util = "pkgadd"
              => Taken(p) /\ mem[p][cmd[p].name] = Recorded(cmd[p].arch)
         /\ ~(pc[p] = "commit" /\ cmd[p].util = "pkgadd")
              => mem[p] = Without(db, cmd[p].name)
<1>1. pc[p] \in {"commit", "rbcommit"} /\ db' = mem[p]
  BY DEF Commit
<1>2. ProcInv(p)
  BY DEF IInv
<1>3. cmd[p].util \in {"pkgadd", "pkgrm"}
  BY <1>1, <1>2 DEF ProcInv, CmdInv
<1> QED
  BY <1>1, <1>2, <1>3, RunFacts DEF ProcInv, AddInv, EraseInv, Erasing

LEMMA CommitStep ==
  ASSUME IInv, NEW p \in Proc, Commit(p)
  PROVE  ProcInv(p)' /\ Disjoint(db)'
<1> DEFINE n == cmd[p].name
           R == Recorded(cmd[p].arch)
<1>1. db \in [Pkg -> SUBSET Path] /\ n \in Pkg /\ R \subseteq Path /\ Disjoint(db)
  BY CommitRecords DEF IInv, TypeOK
<1>2. CASE pc[p] = "commit" /\ cmd[p].util = "pkgadd"
  <2>1. db' = mem[p] /\ mem[p][n] = R
    BY <1>2, CommitRecords
  <2>2. \A q \in Pkg \ {n} : db'[q] = db[q] \ (R \ Dir)
    BY <1>2, CommitRecords DEF Taken
  <2>3. Disjoint(db)'
    BY <1>1, <2>1, <2>2 DEF Disjoint
  <2>4. todo[p] = {}
    BY <1>2 DEF IInv, ProcInv, AddInv
  <2>5. pc'[p] = "install" /\ UNCHANGED <<lock, cmd, mem, todo>>
    BY <1>2 DEF Commit, Goto, IInv, TypeOK
  <2>6. InstallInv(p)' /\ CmdInv(p)'
    BY <1>2, <2>1, <2>4, <2>5 DEF InstallInv, CmdInv
  <2> QED
    BY <2>3, <2>5, <2>6 DEF ProcInv, FindInv, ForcedInv, OldInv, AddInv, EraseInv, Erasing
<1>3. CASE ~(pc[p] = "commit" /\ cmd[p].util = "pkgadd")
  <2>1. db' = Without(db, n)
    BY <1>3, CommitRecords
  <2>2. Disjoint(db)'
    BY <1>1, <2>1, WithoutProps DEF Disjoint
  <2>3. pc'[p] = "idle" /\ lock'[p] = "none"
    BY <1>3 DEF Commit, Exit, Goto, IInv, TypeOK
  <2> QED
    BY <2>2, <2>3, IdleInv
<1> QED
  BY <1>2, <1>3

\* Only a commit changes the database.
LEMMA DbUnchanged ==
  ASSUME NEW p \in Proc, Act(p), ~Commit(p)
  PROVE  db' = db
BY DEF Act, Step, Start, Kill, db_lock, db_lock_busy, db_open, OpenFails, Add, AddForce,
  AddRefused, Rm, RmRefused, Query, RemoveFile, RemoveDone, CommitFails, SkipEntry,
  ExtractEntry, RejectEntry, ExtractFails, ReopenFails, EndOfArchive, ldconfig,
  LdconfigFails, disk

LEMMA OwnStep ==
  ASSUME IInv, NEW p \in Proc, Act(p)
  PROVE  ProcInv(p)'
<1> USE DEF Goto
<1>1. TypeOK /\ ProcInv(p)
  BY DEF IInv
<1>2. CASE Start(p)
  <2>1. pc[p] = "idle" /\ pc'[p] = "lock" /\ lock' = lock
    BY <1>1, <1>2 DEF Start, TypeOK
  <2> QED
    BY <1>1, <2>1, IdleInv DEF ProcInv, CmdInv
<1>3. CASE Exit(p)
  BY <1>1, <1>3, IdleInv DEF Exit, TypeOK
<1>4. CASE db_lock(p)
  <2>1. pc'[p] = "open" /\ lock'[p] = Mode(cmd[p]) /\ cmd' = cmd
    BY <1>1, <1>4 DEF db_lock, TypeOK
  <2> QED
    BY <2>1 DEF ProcInv, CmdInv, FindInv, ForcedInv, OldInv, AddInv, InstallInv, EraseInv,
                Erasing
<1>5. CASE db_open(p)
  <2>1. pc[p] = "open" /\ pc'[p] = "find" /\ mem'[p] = db /\ UNCHANGED <<db, cmd, lock>>
    BY <1>1, <1>5 DEF db_open, disk, TypeOK
  <2> QED
    BY <1>1, <2>1 DEF ProcInv, CmdInv, FindInv, ForcedInv, OldInv, AddInv, InstallInv,
                      EraseInv, Erasing
<1>6. CASE SkipEntry(p) \/ ExtractEntry(p) \/ RejectEntry(p) \/ EndOfArchive(p)
  <2>1. /\ pc[p] = "install"
        /\ UNCHANGED <<db, lock, cmd, mem, todo>>
        /\ pc' = pc \/ pc' = [pc EXCEPT ![p] = "ldconfig"]
    BY <1>6 DEF SkipEntry, ExtractEntry, RejectEntry, EndOfArchive, AtEntry, disk
  <2>2. pc'[p] \in {"install", "ldconfig"}
    BY <1>1, <2>1 DEF TypeOK
  <2> QED
    BY <2>1, <2>2, InstallStep
<1>7. CASE ExtractFails(p) \/ ReopenFails(p)
  <2>1. pc[p] = "install" /\ UNCHANGED <<db, lock, cmd>>
    BY <1>7 DEF ExtractFails, ReopenFails, AtEntry, disk
  <2>2. Throw(p) \/ UNCHANGED <<pc, mem, todo>>
    BY <1>7 DEF ExtractFails, ReopenFails
  <2> QED
    BY <2>1, <2>2, ThrowStep, InstallStep
<1>8. CASE ldconfig(p)
  <2>1. CASE cmd[p].util = "pkgrm" /\ Goto(p, "commit") /\ UNCHANGED <<lock, cmd, mem, todo, pos>>
    <3>1. pc[p] = "ldconfig" /\ pc'[p] = "commit" /\ UNCHANGED <<db, fs>>
      BY <1>1, <1>8, <2>1 DEF ldconfig, disk, TypeOK
    <3>2. Gone(p, db[cmd[p].name]) => Gone(p, db[cmd[p].name])'
      BY <2>1, <3>1 DEF Gone
    <3> QED
      BY <1>1, <2>1, <3>1, <3>2 DEF ProcInv, CmdInv, FindInv, ForcedInv, OldInv, AddInv,
                                    InstallInv, EraseInv, Erasing
  <2> QED
    BY <1>3, <1>8, <2>1 DEF ldconfig
<1>9. CASE db_lock_busy(p) \/ OpenFails(p) \/ AddRefused(p) \/ RmRefused(p) \/ Query(p)
           \/ CommitFails(p) \/ LdconfigFails(p) \/ Kill(p)
  BY <1>3, <1>9 DEF db_lock_busy, OpenFails, AddRefused, RmRefused, Query, CommitFails,
                    LdconfigFails, Kill
<1> QED
  BY <1>2, <1>4, <1>5, <1>6, <1>7, <1>8, <1>9, AddStep, AddForceStep, RmStep, RemoveFileStep,
     RemoveDoneStep, CommitStep DEF Act, Step

LEMMA EditStep ==
  ASSUME IInv, NEW f \in Path, Edit(f)
  PROVE  IInv'
<1>1. UNCHANGED <<db, rejected, lock, pc, cmd, mem, todo, pos>>
  BY DEF Edit
<1>2. fs' \in [Path -> Slot]
  <2>1. fs[f] \in Node
    BY DEF Edit, IInv, TypeOK, Slot
  <2>2. [fs[f] EXCEPT !.data = Local] \in Node
    BY <2>1, NodeAssumption DEF Node
  <2> QED
    BY <2>2 DEF Edit, IInv, TypeOK, Slot
<1>3. TypeOK'
  BY <1>1, <1>2 DEF IInv, TypeOK, Writing
<1>4. \A g \in Path : fs[g] = Absent => fs'[g] = Absent
  BY DEF Edit, IInv, TypeOK
<1>5. ASSUME NEW q \in Proc PROVE ProcInv(q)'
  BY <1>1, <1>4, FrameInv DEF Frame, IInv, TypeOK
<1> QED
  BY <1>1, <1>3, <1>5 DEF IInv, LockInv, Disjoint

LEMMA NextInv == IInv /\ [Next]_vars => IInv'
<1> SUFFICES ASSUME IInv, [Next]_vars PROVE IInv'
  OBVIOUS
<1>1. ASSUME NEW p \in Proc, Act(p) PROVE IInv'
  <2>1. TypeOK' /\ LockInv'
    BY <1>1, TypeStep, LockStep
  <2>2. \A q \in Proc : ProcInv(q)'
    BY <1>1, OwnStep, OthersStep
  <2>3. Disjoint(db)'
    BY <1>1, CommitStep, DbUnchanged DEF IInv, Disjoint
  <2> QED
    BY <2>1, <2>2, <2>3 DEF IInv
<1>2. CASE UNCHANGED vars
  <2>1. UNCHANGED <<db, fs, rejected, lock, pc, cmd, mem, todo, pos>>
    BY <1>2 DEF vars
  <2>2. TypeOK'
    BY <2>1 DEF IInv, TypeOK, Writing
  <2>3. ASSUME NEW q \in Proc PROVE ProcInv(q)'
    BY <2>1, FrameInv DEF Frame, IInv, TypeOK
  <2> QED
    BY <2>1, <2>2, <2>3 DEF IInv, LockInv, Disjoint
<1> QED
  BY <1>1, <1>2, EditStep DEF Next, Act

-------------------------------------------------------------------------------
(* The theorems.                                                           *)

THEOREM Invariance == Spec => []IInv
BY InitInv, NextInv, PTL DEF Spec

\* Types, and no change of the disk without the exclusive lock of var/lib/pkg.
THEOREM TypeCorrect == Spec => []TypeOK
<1>1. IInv => TypeOK
  BY DEF IInv
<1> QED
  BY <1>1, Invariance, PTL

\* No two packages own the same file, whatever is installed, upgraded, forced,
\* removed, refused or killed, and by however many processes.
THEOREM OneOwner == Spec => []SoleOwner
<1>1. IInv => SoleOwner
  BY DEF IInv, Disjoint, SoleOwner
<1> QED
  BY <1>1, Invariance, PTL

\* How a step of p can change a file: by deleting it from its list, or by
\* extracting the entry pkg_install is at, one the database records.
LEMMA FileChange ==
  ASSUME IInv, NEW p \in Proc, Act(p), NEW f \in Path \ Dir, fs'[f] # fs[f]
  PROVE  \/ RemoveFile(p) /\ f \in todo[p]
         \/ /\ pc[p] = "install"
            /\ f \in Recorded(cmd[p].arch)
            /\ ~(fs[f] # Absent /\ f \in Kept(cmd[p]))
            /\ db' = db
<1> DEFINE a == cmd[p].arch
<1>1. fs' # fs /\ TypeOK
  BY DEF IInv
<1>2. ASSUME AtEntry(p), ~Filtered(p)
      PROVE  Entry(p) \in Path /\ Entry(p) \in Recorded(a)
  <2>1. a \in Archive
    BY <1>2, RunFacts DEF AtEntry
  <2>2. pos[p] \in DOMAIN Entries[a]
    BY <1>1, <1>2, <2>1, ArchiveAssumption DEF AtEntry, TypeOK
  <2>3. Entry(p) \in Files(a)
    BY <2>2 DEF Entry, Files
  <2> QED
    BY <1>2, <2>1, <2>3, RecordedPaths DEF Filtered, Recorded, apply_install_rules
<1>3. CASE RemoveFile(p)
  BY <1>3, RemoveFileProps
<1>4. CASE ExtractEntry(p)
  <2>1. /\ AtEntry(p) /\ ~Filtered(p) /\ ~Rejects(p) /\ UNCHANGED db
        /\ fs' = Place(fs, Entry(p), Content[a][Entry(p)])
    BY <1>4 DEF ExtractEntry
  <2>2. Content[a][Entry(p)] \in Slot
    <3>1. a \in Archive
      BY <2>1, RunFacts DEF AtEntry
    <3>2. Entry(p) \in Path
      BY <1>2, <2>1
    <3> QED
      BY <3>1, <3>2, SlotType
  <2>3. f = Entry(p)
    <3>1. fs \in [Path -> Slot] /\ Entry(p) \in Path
      BY <1>1, <1>2, <2>1 DEF TypeOK
    <3>2. ASSUME NEW e \in Path, NEW node \in Slot, fs' = Place(fs, e, node)
          PROVE  f = e
      BY <3>1, <3>2, PlaceProps
    <3> QED
      BY <2>1, <2>2, <3>1, <3>2
  <2> QED
    BY <1>2, <2>1, <2>3 DEF Rejects, AtEntry
<1>5. CASE ExtractFails(p) \/ Kill(p)
  <2>1. AtEntry(p) /\ ~Filtered(p) /\ CutShort(p) /\ UNCHANGED db
    BY <1>1, <1>5 DEF ExtractFails, Kill
  <2>2. f = Entry(p) /\ ~Rejects(p)
    BY <1>1, <2>1, CutShortProps
  <2> QED
    BY <1>2, <2>1, <2>2 DEF Rejects, AtEntry
<1>6. CASE db_lock(p) \/ db_lock_busy(p) \/ db_open(p) \/ OpenFails(p) \/ Start(p)
  BY <1>1, <1>6 DEF db_lock, db_lock_busy, db_open, OpenFails, Start, disk
<1>7. CASE Add(p) \/ AddForce(p) \/ AddRefused(p) \/ RemoveDone(p)
  BY <1>1, <1>7 DEF Add, AddForce, AddRefused, RemoveDone, disk
<1>8. CASE Rm(p) \/ RmRefused(p) \/ Query(p)
  BY <1>1, <1>8 DEF Rm, RmRefused, Query, disk
<1>9. CASE Commit(p) \/ CommitFails(p) \/ ldconfig(p) \/ LdconfigFails(p)
  BY <1>1, <1>9 DEF Commit, CommitFails, ldconfig, LdconfigFails, disk
<1>10. CASE SkipEntry(p) \/ RejectEntry(p) \/ ReopenFails(p) \/ EndOfArchive(p)
  BY <1>1, <1>10 DEF SkipEntry, RejectEntry, ReopenFails, EndOfArchive, disk
<1> QED
  BY <1>3, <1>4, <1>5, <1>6, <1>7, <1>8, <1>9, <1>10 DEF Act, Step

\* A process that deletes or extracts is past its check, under the lock.
LEMMA ChangeFacts ==
  ASSUME IInv, NEW p \in Proc,
         pc[p] \in {"rmforced", "rmold", "rmpkg", "rollback", "install", "commit", "rbcommit"}
  PROVE  /\ Writing(p)
         /\ pc[p] = "rmforced" => cmd[p].util = "pkgadd" /\ cmd[p].force
         /\ pc[p] \in {"rmold", "rmpkg", "rollback"} => todo[p] \subseteq db[cmd[p].name]
         /\ pc[p] = "install" => db[cmd[p].name] = Recorded(cmd[p].arch)
<1>1. Writing(p) /\ ProcInv(p)
  BY DEF IInv, TypeOK, Changing, Phase
<1> QED
  BY <1>1 DEF ProcInv, CmdInv, ForcedInv, OldInv, InstallInv, EraseInv, Erasing

\* Without --force, only files of the package's own are deleted or overwritten:
\* the database on disk is the one the deletions were decided on.
THEOREM OwnFiles == Spec => OwnFilesOnly
<1> DEFINE A == \A f \in Path \ Dir : fs'[f] # fs[f] =>
                  \/ Edit(f)
                  \/ \E p \in Proc : /\ Writing(p)
                                     /\ \/ cmd[p].util = "pkgadd" /\ cmd[p].force
                                        \/ f \in db[cmd[p].name]
<1>1. IInv /\ [Next]_vars => A
  <2> SUFFICES ASSUME IInv, [Next]_vars, NEW f \in Path \ Dir, fs'[f] # fs[f], ~Edit(f)
               PROVE  \E p \in Proc : /\ Writing(p)
                                      /\ \/ cmd[p].util = "pkgadd" /\ cmd[p].force
                                         \/ f \in db[cmd[p].name]
    OBVIOUS
  <2>1. \A g \in Path : Edit(g) => g = f
    BY DEF Edit, IInv, TypeOK
  <2>2. PICK p \in Proc : Act(p)
    BY <2>1 DEF Next, Act, vars
  <2>3. CASE RemoveFile(p) /\ f \in todo[p]
    BY <2>3, ChangeFacts DEF RemoveFile
  <2>4. CASE pc[p] = "install" /\ f \in Recorded(cmd[p].arch)
    BY <2>4, ChangeFacts
  <2> QED
    BY <2>2, <2>3, <2>4, FileChange
<1>2. IInv /\ [Next]_vars => [A]_vars
  BY <1>1
<1> QED
  BY <1>2, Invariance, PTL DEF Spec, OwnFilesOnly

\* A commit touches the record of the package on the command line, and takes
\* from the other records only with --force: the database it replaces is the
\* one it read, so that concurrent runs lose no update.
THEOREM OwnRecord == Spec => OwnRecordOnly
<1> DEFINE A == \A n \in Pkg : db'[n] # db[n] =>
                  \E p \in Proc :
                    /\ Writing(p)
                    /\ \/ n = cmd[p].name
                       \/ /\ cmd[p].force
                          /\ db'[n] \subseteq db[n]
                          /\ db[n] \ db'[n] \subseteq Recorded(cmd[p].arch) \ Dir
<1>1. IInv /\ [Next]_vars => A
  <2> SUFFICES ASSUME IInv, [Next]_vars, NEW n \in Pkg, db'[n] # db[n]
               PROVE  \E p \in Proc :
                        /\ Writing(p)
                        /\ \/ n = cmd[p].name
                           \/ /\ cmd[p].force
                              /\ db'[n] \subseteq db[n]
                              /\ db[n] \ db'[n] \subseteq Recorded(cmd[p].arch) \ Dir
    OBVIOUS
  <2>1. PICK p \in Proc : Commit(p)
    BY DbUnchanged DEF Next, Act, vars, Edit
  <2>2. Writing(p)
    BY <2>1, CommitRecords, ChangeFacts
  <2>3. CASE n # cmd[p].name /\ pc[p] = "commit" /\ cmd[p].util = "pkgadd"
    <3>1. /\ db'[n] = db[n] \ (Recorded(cmd[p].arch) \ Dir)
          /\ cmd[p].force \/ db[n] \intersect Recorded(cmd[p].arch) \subseteq Dir
      BY <2>1, <2>3, CommitRecords DEF Taken
    <3>2. cmd[p].force
      BY <3>1
    <3> QED
      BY <2>2, <3>1, <3>2
  <2>4. CASE n # cmd[p].name /\ ~(pc[p] = "commit" /\ cmd[p].util = "pkgadd")
    <3>1. db' = Without(db, cmd[p].name) /\ cmd[p].name \in Pkg
      BY <2>1, <2>4, CommitRecords
    <3>2. db'[n] = db[n]
      BY <2>4, <3>1, WithoutProps DEF IInv, TypeOK
    <3> QED
      BY <3>2
  <2> QED
    BY <2>2, <2>3, <2>4
<1>2. IInv /\ [Next]_vars => [A]_vars
  BY <1>1
<1> QED
  BY <1>2, Invariance, PTL DEF Spec, OwnRecordOnly

\* Whatever is interrupted or fails, deletions aside, a file a package put on
\* disk is in the database: recorded before it is extracted, and gone before
\* its record is.
THEOREM Accounted ==
  ASSUME "remove" \notin Faults
  PROVE  Spec => NoOrphans
<1> DEFINE A == \A f \in Path \ Dir :
                  fs'[f] # Absent /\ (fs[f] = Absent \/ Owned(db, f)) => Owned(db', f)
<1>1. IInv /\ [Next]_vars => A
  <2> SUFFICES ASSUME IInv, [Next]_vars, NEW f \in Path \ Dir, fs'[f] # Absent,
                      fs[f] = Absent \/ Owned(db, f)
               PROVE  Owned(db', f)
    OBVIOUS
  <2>1. CASE fs[f] = Absent
    <3>1. \A g \in Path : ~Edit(g)
      BY <2>1 DEF Edit, IInv, TypeOK
    <3>2. PICK p \in Proc : Act(p)
      BY <2>1, <3>1 DEF Next, Act, vars
    <3>3. ~RemoveFile(p)
      BY <2>1, RemoveFileProps
    <3>4. pc[p] = "install" /\ f \in Recorded(cmd[p].arch) /\ db' = db
      BY <2>1, <3>2, <3>3, FileChange
    <3>5. f \in db[cmd[p].name] /\ cmd[p].name \in Pkg
      BY <3>4, ChangeFacts, RunFacts
    <3> QED
      BY <3>4, <3>5 DEF Owned
  <2>2. CASE fs[f] # Absent /\ db' # db
    <3>1. PICK p \in Proc : Commit(p)
      BY <2>2, DbUnchanged DEF Next, Act, vars, Edit
    <3>2. fs' = fs
      BY <3>1 DEF Commit
    <3>3. PICK n \in Pkg : f \in db[n]
      BY <2>2 DEF Owned
    <3> DEFINE m == cmd[p].name
               R == Recorded(cmd[p].arch)
    <3>4. /\ m \in Pkg /\ db' = mem[p] /\ db \in [Pkg -> SUBSET Path]
          /\ pc[p] \in {"commit", "rbcommit"} /\ ProcInv(p)
      BY <3>1, CommitRecords DEF IInv, TypeOK
    <3>5. CASE pc[p] = "commit" /\ cmd[p].util = "pkgadd"
      <4>1. f \in R => f \in db'[m]
        BY <3>1, <3>4, <3>5, CommitRecords
      <4>2. n # m /\ f \notin R => f \in db'[n]
        BY <3>1, <3>3, <3>4, <3>5, CommitRecords DEF Taken
      <4>3. n = m => f \in R
        BY <2>2, <3>3, <3>4, <3>5 DEF ProcInv, AddInv, Gone
      <4> QED
        BY <3>4, <4>1, <4>2, <4>3 DEF Owned
    <3>6. CASE ~(pc[p] = "commit" /\ cmd[p].util = "pkgadd")
      <4>1. db' = Without(db, m) /\ Erasing(p)
        BY <3>1, <3>4, <3>6, CommitRecords DEF ProcInv, CmdInv, Erasing
      <4>2. f \notin db[m]
        BY <2>2, <3>4, <4>1 DEF ProcInv, EraseInv, Gone
      <4> QED
        BY <3>3, <3>4, <4>1, <4>2, WithoutProps DEF Owned
    <3> QED
      BY <3>5, <3>6
  <2>3. CASE fs[f] # Absent /\ db' = db
    BY <2>3
  <2> QED
    BY <2>1, <2>2, <2>3
<1>2. IInv /\ [Next]_vars => [A]_vars
  BY <1>1
<1> QED
  BY <1>2, Invariance, PTL DEF Spec, NoOrphans

\* Without --force no package comes to own a file that is already there.
THEOREM Adoption == Spec => NoAdoption
<1> DEFINE A == \A n \in Pkg, f \in Path \ Dir :
                  f \in db'[n] \ db[n] /\ fs[f] # Absent =>
                    \E p \in Proc : Writing(p) /\ cmd[p].force
<1>1. IInv /\ [Next]_vars => A
  <2> SUFFICES ASSUME IInv, [Next]_vars, NEW n \in Pkg, NEW f \in Path \ Dir,
                      f \in db'[n], f \notin db[n], fs[f] # Absent
               PROVE  \E p \in Proc : Writing(p) /\ cmd[p].force
    OBVIOUS
  <2>1. PICK p \in Proc : Commit(p)
    BY DbUnchanged DEF Next, Act, vars, Edit
  <2>2. /\ pc[p] \in {"commit", "rbcommit"} /\ db' = mem[p] /\ Writing(p) /\ ProcInv(p)
        /\ cmd[p].name \in Pkg /\ db \in [Pkg -> SUBSET Path]
    BY <2>1, CommitRecords, ChangeFacts DEF IInv, TypeOK
  <2>3. CASE pc[p] = "commit" /\ cmd[p].util = "pkgadd"
    <3>1. n = cmd[p].name /\ f \in Recorded(cmd[p].arch)
      BY <2>1, <2>2, <2>3, CommitRecords DEF Taken
    <3>2. Clear(p)
      BY <2>2, <2>3 DEF ProcInv, AddInv
    <3> QED
      BY <2>2, <3>1, <3>2 DEF Clear
  <2>4. CASE ~(pc[p] = "commit" /\ cmd[p].util = "pkgadd")
    <3>1. db' = Without(db, cmd[p].name)
      BY <2>1, <2>4, CommitRecords
    <3>2. db'[n] \subseteq db[n]
      BY <2>2, <3>1, WithoutProps
    <3> QED
      BY <3>2
  <2> QED
    BY <2>3, <2>4
<1>2. IInv /\ [Next]_vars => [A]_vars
  BY <1>1
<1> QED
  BY <1>2, Invariance, PTL DEF Spec, NoAdoption

\* What the UPGRADE rules protect survives every upgrade of a package that
\* still records it, --force or not.
THEOREM Protection == Spec => ProtectedKept
<1> DEFINE A == \A p \in Proc, f \in Path \ Dir :
                  /\ Writing(p)
                  /\ cmd[p].util = "pkgadd"
                  /\ f \in Kept(cmd[p])
                  /\ fs[f] # Absent
                  => fs'[f] = fs[f] \/ Edit(f)
<1>1. IInv /\ [Next]_vars => A
  <2> SUFFICES ASSUME IInv, [Next]_vars, NEW p \in Proc, NEW f \in Path \ Dir,
                      Writing(p), cmd[p].util = "pkgadd", f \in Kept(cmd[p]),
                      fs[f] # Absent, fs'[f] # fs[f], ~Edit(f)
               PROVE  FALSE
    OBVIOUS
  <2>1. \A g \in Path : Edit(g) => g = f
    BY DEF Edit, IInv, TypeOK
  <2>2. PICK q \in Proc : Act(q)
    BY <2>1 DEF Next, Act, vars
  <2>3. q = p
    <3>1. CASE RemoveFile(q) /\ f \in todo[q]
      BY <3>1, ChangeFacts DEF RemoveFile, Writing, IInv, LockInv
    <3>2. CASE pc[q] = "install"
      BY <3>2, ChangeFacts DEF Writing, IInv, LockInv
    <3> QED
      BY <2>2, <3>1, <3>2, FileChange
  <2>4. CASE RemoveFile(p) /\ f \in todo[p]
    <3>1. ProcInv(p) /\ pc[p] \in {"rmforced", "rmold", "rmpkg", "rollback"}
      BY <2>4 DEF RemoveFile, IInv
    <3>2. CASE pc[p] \in {"rmforced", "rmold"}
      BY <2>4, <3>1, <3>2 DEF ProcInv, ForcedInv, OldInv
    <3>3. CASE pc[p] = "rmpkg"
      BY <3>1, <3>3 DEF ProcInv, CmdInv
    <3>4. CASE pc[p] = "rollback"
      <4>1. ~cmd[p].upgrade
        BY <3>1, <3>4 DEF ProcInv, EraseInv, Erasing
      <4> QED
        BY <4>1 DEF Kept
    <3> QED
      BY <3>1, <3>2, <3>3, <3>4
  <2> QED
    BY <2>2, <2>3, <2>4, FileChange
<1>2. IInv /\ [Next]_vars => [A]_vars
  BY <1>1
<1> QED
  BY <1>2, Invariance, PTL DEF Spec, ProtectedKept

-------------------------------------------------------------------------------
(* What a run has done when it comes to its last steps.                    *)

\* What pkgrm is to delete: the files of the package that are no other's.
Doomed(p) == db[cmd[p].name] \ Refs(db, cmd[p].name)

\* The deletion proceeds from the last file to the first, so that what it has
\* passed is gone, or a directory that holds a file it will not come to.
Emptied(p) ==
  pc[p] \in {"rmpkg", "ldconfig", "commit"} /\ cmd[p].util = "pkgrm" =>
    \A f \in Doomed(p) \ todo[p] :
      /\ \A g \in todo[p] : Rank[g] < Rank[f]
      /\ "remove" \in Faults \/ fs[f] = Absent \/ Occupied(fs, f)

\* pkg_install begins with the first entry.
Fresh(p) ==
  /\ pc[p] \in {"idle", "lock", "open", "find", "rmforced", "rmold"} => pos[p] = 1
  /\ pc[p] = "commit" /\ cmd[p].util = "pkgadd" => pos[p] = 1

\* The entries pkg_install has passed are on disk, or were not to be installed.
Laid(p) ==
  pc[p] \in {"install", "ldconfig"} /\ cmd[p].util = "pkgadd" =>
    \A i \in DOMAIN Entries[cmd[p].arch] :
      i < pos[p] => \/ "extract" \in Faults
                    \/ Refused("INSTALL", Entries[cmd[p].arch][i])
                    \/ fs[Entries[cmd[p].arch][i]] # Absent

Done(p) == Emptied(p) /\ Fresh(p) /\ Laid(p)

\* The position in the archive is the process's own.
LEMMA PosFrame ==
  ASSUME TypeOK, NEW p \in Proc, NEW q \in Proc, p # q, Act(p)
  PROVE  pos'[q] = pos[q]
<1> USE DEF TypeOK, Exit
<1>1. CASE Start(p) \/ Kill(p)
  BY <1>1 DEF Start, Kill
<1>2. CASE db_lock(p) \/ db_lock_busy(p) \/ db_open(p) \/ OpenFails(p)
  BY <1>2 DEF db_lock, db_lock_busy, db_open, OpenFails
<1>3. CASE Add(p) \/ AddForce(p) \/ AddRefused(p) \/ RemoveDone(p)
  BY <1>3 DEF Add, AddForce, AddRefused, RemoveDone
<1>4. CASE Rm(p) \/ RmRefused(p) \/ Query(p) \/ RemoveFile(p)
  BY <1>4 DEF Rm, RmRefused, Query, RemoveFile
<1>5. CASE Commit(p) \/ CommitFails(p) \/ ldconfig(p) \/ LdconfigFails(p)
  BY <1>5 DEF Commit, CommitFails, ldconfig, LdconfigFails
<1>6. CASE SkipEntry(p) \/ ExtractEntry(p) \/ RejectEntry(p) \/ EndOfArchive(p)
  BY <1>6 DEF SkipEntry, ExtractEntry, RejectEntry, EndOfArchive, NextEntry
<1>7. CASE ExtractFails(p) \/ ReopenFails(p)
  BY <1>7 DEF ExtractFails, ReopenFails, NextEntry
<1> QED
  BY <1>1, <1>2, <1>3, <1>4, <1>5, <1>6, <1>7 DEF Act, Step

\* Whether a directory holds a file depends on what is absent only.
LEMMA SameAbsent ==
  ASSUME \A g \in Path : fs'[g] = Absent <=> fs[g] = Absent, NEW f \in Path
  PROVE  /\ (fs[f] = Absent \/ Occupied(fs, f))' <=> fs[f] = Absent \/ Occupied(fs, f)
BY DEF Occupied

LEMMA FrameDone ==
  ASSUME IInv, NEW q \in Proc, Done(q), Frame(q), pos'[q] = pos[q],
         \/ lock[q] = "none"
         \/ db' = db /\ \A g \in Path : fs'[g] = Absent <=> fs[g] = Absent
  PROVE  Done(q)'
<1>1. Fresh(q)'
  BY DEF Done, Fresh, Frame
<1>2. CASE pc[q] \in {"idle", "lock"}
  BY <1>1, <1>2 DEF Done, Emptied, Laid, Frame
<1>3. CASE pc[q] \notin {"idle", "lock"}
  <2>1. pc[q] \in Phase /\ cmd[q] \in Cmds /\ db \in [Pkg -> SUBSET Path] /\ lock[q] # "none"
    BY <1>3 DEF IInv, TypeOK, ProcInv, CmdInv, Mode, Phase, Changing, Writing
  <2>2. cmd[q].name \in Pkg /\ cmd[q].arch \in Archive
    BY <2>1, CmdFields
  <2>3. db' = db /\ \A g \in Path : fs'[g] = Absent <=> fs[g] = Absent
    BY <2>1
  <2>4. Doomed(q)' = Doomed(q) /\ Doomed(q) \subseteq Path
    BY <2>1, <2>2, <2>3 DEF Doomed, Frame
  <2>5. Emptied(q)'
    BY <2>3, <2>4, SameAbsent DEF Done, Emptied, Frame
  <2>6. \A i \in DOMAIN Entries[cmd[q].arch] : Entries[cmd[q].arch][i] \in Path
    BY <2>2, ArchiveAssumption
  <2>7. Laid(q)'
    BY <2>3, <2>6 DEF Done, Laid, Frame
  <2> QED
    BY <1>1, <2>5, <2>7 DEF Done
<1> QED
  BY <1>2, <1>3

\* Before the last steps there is nothing to show but the position.
LEMMA EarlyDone ==
  ASSUME NEW p \in Proc, pos'[p] = 1,
         pc'[p] \in {"idle", "lock", "open", "find", "rmforced", "rmold"}
  PROVE  Done(p)'
BY DEF Done, Emptied, Fresh, Laid

\* pkgrm begins to delete.
LEMMA RmDone ==
  ASSUME IInv, NEW p \in Proc, Rm(p)
  PROVE  Done(p)'
<1>1. pc[p] = "find" /\ mem[p] = db
  BY DEF Rm, IInv, ProcInv, FindInv
<1>2. pc'[p] = "rmpkg" /\ cmd' = cmd /\ db' = db
  BY DEF Rm, Goto, disk, IInv, TypeOK
<1>3. todo'[p] = db[cmd[p].name] \ Refs(db, cmd[p].name)
  BY <1>1 DEF Rm, IInv, TypeOK
<1>4. Doomed(p)' \ todo'[p] = {}
  BY <1>2, <1>3 DEF Doomed
<1> QED
  BY <1>2, <1>4 DEF Done, Emptied, Fresh, Laid

\* One file less: it lies below no directory that has been passed already.
LEMMA RemoveFileDone ==
  ASSUME IInv, NEW p \in Proc, Done(p), RemoveFile(p)
  PROVE  Done(p)'
<1>1. PICK f \in todo[p] :
        /\ \A g \in todo[p] : Rank[g] <= Rank[f]
        /\ todo' = [todo EXCEPT ![p] = @ \ {f}]
        /\ fs' = Remove(fs, f) \/ ("remove" \in Faults /\ fs' = fs)
  BY DEF RemoveFile
<1>2. /\ pc[p] \in {"rmforced", "rmold", "rmpkg", "rollback"}
      /\ UNCHANGED <<db, pc, cmd, pos>>
  BY DEF RemoveFile
<1>3. f \in Path /\ fs \in [Path -> Slot] /\ todo'[p] = todo[p] \ {f} /\ todo[p] \subseteq Path
  BY <1>1 DEF IInv, TypeOK
<1>4. Fresh(p)' /\ Laid(p)'
  BY <1>2 DEF Done, Fresh, Laid
<1>5. CASE pc[p] # "rmpkg"
  BY <1>2, <1>4, <1>5 DEF Done, Emptied
<1>6. CASE pc[p] = "rmpkg"
  <2>1. cmd[p].util = "pkgrm" /\ Doomed(p)' = Doomed(p) /\ Doomed(p) \subseteq Path
    BY <1>2, <1>6, RunFacts DEF IInv, ProcInv, CmdInv, Doomed
  <2>2. ASSUME NEW h \in Doomed(p), h \notin todo'[p]
        PROVE  \A g \in todo'[p] : Rank[g] < Rank[h]
    <3>1. CASE h = f
      <4>1. \A g \in todo'[p] : g \in Path /\ Rank[g] <= Rank[f] /\ g # f
        BY <1>1, <1>3
      <4>2. \A g \in todo'[p] : Rank[g] # Rank[f] /\ Rank[g] \in Nat /\ Rank[f] \in Nat
        BY <1>3, <4>1, PathAssumption
      <4> QED
        BY <3>1, <4>1, <4>2
    <3>2. CASE h # f
      BY <1>2, <1>3, <1>6, <2>1, <2>2, <3>2 DEF Done, Emptied
    <3> QED
      BY <3>1, <3>2
  <2>3. ASSUME NEW h \in Doomed(p), h \notin todo'[p], "remove" \notin Faults
        PROVE  fs'[h] = Absent \/ Occupied(fs', h)
    <3>1. fs' = Remove(fs, f) /\ h \in Path
      BY <1>1, <2>1, <2>3
    <3>2. CASE Occupied(fs, f)
      <4>1. fs' = fs
        BY <3>1, <3>2 DEF Remove
      <4>2. h # f => fs[h] = Absent \/ Occupied(fs, h)
        BY <1>2, <1>3, <1>6, <2>1, <2>3 DEF Done, Emptied
      <4> QED
        BY <3>2, <4>1, <4>2
    <3>3. CASE ~Occupied(fs, f)
      <4>1. fs' = [fs EXCEPT ![f] = Absent]
        BY <3>1, <3>3 DEF Remove
      <4>2. CASE h = f
        BY <1>3, <4>1, <4>2
      <4>3. CASE h # f
        <5>1. Rank[f] < Rank[h] /\ (fs[h] = Absent \/ Occupied(fs, h))
          BY <1>2, <1>3, <1>6, <2>1, <2>3, <4>3 DEF Done, Emptied
        <5>2. h \notin Above[f]
          <6>1. Rank[f] \in Nat /\ Rank[h] \in Nat
            BY <1>3, <3>1, PathAssumption
          <6>2. ~(Rank[h] < Rank[f])
            BY <5>1, <6>1
          <6> QED
            BY <1>3, <6>2, PathAssumption
        <5>3. CASE fs[h] = Absent
          BY <1>3, <3>1, <4>1, <5>3
        <5>4. CASE Occupied(fs, h)
          <6>1. PICK g \in Path : h \in Above[g] /\ fs[g] # Absent
            BY <5>4 DEF Occupied
          <6>2. fs'[g] # Absent
            BY <1>3, <4>1, <5>2, <6>1
          <6> QED
            BY <6>1, <6>2 DEF Occupied
        <5> QED
          BY <5>1, <5>3, <5>4
      <4> QED
        BY <4>2, <4>3
    <3> QED
      BY <3>2, <3>3
  <2>4. Emptied(p)'
    BY <2>1, <2>2, <2>3 DEF Emptied
  <2> QED
    BY <1>4, <2>4 DEF Done
<1> QED
  BY <1>5, <1>6

\* The code after a deletion: pkgadd is not at its first entry yet.
LEMMA RemoveDoneDone ==
  ASSUME IInv, NEW p \in Proc, Done(p), RemoveDone(p)
  PROVE  Done(p)'
<1>1. todo[p] = {} /\ UNCHANGED <<disk, lock, cmd, pos>> /\ db' = db /\ fs' = fs
  BY DEF RemoveDone, disk
<1>2. CASE pc[p] = "rmforced"
  <2>1. pc'[p] = "rmold" /\ pos'[p] = 1
    BY <1>1, <1>2 DEF RemoveDone, Replace, Goto, Done, Fresh, IInv, TypeOK
  <2> QED
    BY <2>1, EarlyDone
<1>3. CASE pc[p] = "rmold"
  <2>1. pc'[p] = "commit" /\ pos'[p] = 1 /\ cmd[p].util = "pkgadd"
    BY <1>1, <1>3 DEF RemoveDone, Goto, Done, Fresh, IInv, TypeOK, ProcInv, CmdInv
  <2> QED
    BY <1>1, <2>1 DEF Done, Emptied, Fresh, Laid
<1>4. CASE pc[p] = "rmpkg"
  <2>1. pc'[p] = "ldconfig" /\ todo'[p] = todo[p] /\ cmd[p].util = "pkgrm"
    BY <1>4 DEF RemoveDone, Goto, IInv, TypeOK, ProcInv, CmdInv
  <2>2. Doomed(p)' = Doomed(p)
    BY <1>1 DEF Doomed
  <2>3. Emptied(p)'
    BY <1>1, <1>4, <2>1, <2>2 DEF Done, Emptied, Occupied
  <2> QED
    BY <1>1, <2>1, <2>3 DEF Done, Fresh, Laid
<1>5. CASE pc[p] = "rollback"
  <2>1. pc'[p] = "rbcommit"
    BY <1>5 DEF RemoveDone, Goto, IInv, TypeOK
  <2> QED
    BY <2>1 DEF Done, Emptied, Fresh, Laid
<1> QED
  BY <1>2, <1>3, <1>4, <1>5 DEF RemoveDone

\* One entry more is passed, and what was there still is.
LEMMA PassEntry ==
  ASSUME IInv, NEW p \in Proc, Done(p), AtEntry(p), pc'[p] = "install",
         UNCHANGED cmd, pos'[p] = pos[p] + 1,
         \/ "extract" \in Faults
         \/ /\ \A g \in Path : fs[g] # Absent => fs'[g] # Absent
            /\ Refused("INSTALL", Entry(p)) \/ fs'[Entry(p)] # Absent
  PROVE  Done(p)'
<1>1. cmd[p].util = "pkgadd" /\ cmd[p].arch \in Archive /\ pos[p] \in Nat
  BY RunFacts DEF AtEntry, IInv, TypeOK, ProcInv, CmdInv
<1>2. \A i \in DOMAIN Entries[cmd[p].arch] : i \in Nat /\ Entries[cmd[p].arch][i] \in Path
  BY <1>1, ArchiveAssumption
<1>3. ASSUME NEW i \in DOMAIN Entries[cmd[p].arch], i < pos'[p], "extract" \notin Faults
      PROVE  \/ Refused("INSTALL", Entries[cmd[p].arch][i])
             \/ fs'[Entries[cmd[p].arch][i]] # Absent
  <2>1. CASE i = pos[p]
    BY <1>3, <2>1 DEF Entry
  <2>2. CASE i < pos[p]
    BY <1>1, <1>2, <1>3, <2>2 DEF Done, Laid, AtEntry
  <2> QED
    BY <1>1, <1>2, <1>3, <2>1, <2>2
<1>4. Laid(p)'
  BY <1>3 DEF Laid, Refused, Applies
<1> QED
  BY <1>4 DEF Done, Emptied, Fresh

\* Extraction makes no file absent.
LEMMA PlaceKeeps ==
  ASSUME NEW t \in [Path -> Slot], NEW f \in Path, NEW node \in Slot, node # Absent
  PROVE  \A g \in Path : t[g] # Absent \/ g = f => Place(t, f, node)[g] # Absent
BY SlotType DEF Place

\* A step of pkg_install.
LEMMA InstallDone ==
  ASSUME IInv, NEW p \in Proc, Done(p),
         SkipEntry(p) \/ ExtractEntry(p) \/ RejectEntry(p)
  PROVE  Done(p)'
<1>1. AtEntry(p) /\ pc'[p] = "install" /\ UNCHANGED cmd /\ pos'[p] = pos[p] + 1
  BY DEF SkipEntry, ExtractEntry, RejectEntry, AtEntry, NextEntry, IInv, TypeOK
<1>2. CASE SkipEntry(p)
  BY <1>1, <1>2, PassEntry DEF SkipEntry, Filtered, disk
<1>3. CASE RejectEntry(p)
  BY <1>1, <1>3, PassEntry DEF RejectEntry, Rejects
<1>4. CASE ExtractEntry(p)
  <2>1. cmd[p].arch \in Archive
    BY <1>1, RunFacts DEF AtEntry
  <2>2. Entry(p) \in Path
    BY <1>1, <2>1, ArchiveAssumption DEF AtEntry, Entry, IInv, TypeOK
  <2> DEFINE node == Content[cmd[p].arch][Entry(p)]
  <2>3. node \in Slot /\ node # Absent /\ fs \in [Path -> Slot]
    BY <2>1, <2>2, SlotType DEF IInv, TypeOK
  <2>4. fs' = Place(fs, Entry(p), node)
    BY <1>4 DEF ExtractEntry
  <2> HIDE DEF node
  <2>5. \A g \in Path : fs[g] # Absent \/ g = Entry(p) => fs'[g] # Absent
    BY <2>2, <2>3, <2>4, PlaceKeeps
  <2> QED
    BY <1>1, <2>2, <2>5, PassEntry
<1> QED
  BY <1>2, <1>3, <1>4

\* An extraction fails, or the archive cannot be opened.
LEMMA FailDone ==
  ASSUME IInv, NEW p \in Proc, Done(p), ExtractFails(p) \/ ReopenFails(p)
  PROVE  Done(p)'
<1>1. pc[p] = "install" /\ UNCHANGED cmd /\ cmd[p].util = "pkgadd"
  BY DEF ExtractFails, ReopenFails, AtEntry, IInv, ProcInv, CmdInv
<1>2. CASE Throw(p) /\ pos' = pos
  <2>1. CASE ~cmd[p].upgrade
    <3>1. pc'[p] = "rollback"
      BY <1>2, <2>1 DEF Throw, Goto, IInv, TypeOK
    <3> QED
      BY <3>1 DEF Done, Emptied, Fresh, Laid
  <2>2. CASE cmd[p].upgrade
    <3>1. pc'[p] = "ldconfig"
      BY <1>2, <2>2 DEF Throw, Goto, IInv, TypeOK
    <3>2. Laid(p)'
      <4>1. CASE "extract" \in Faults
        BY <4>1 DEF Laid
      <4>2. CASE ReopenFails(p)
        <5>1. pos'[p] = 1
          BY <1>2, <4>2 DEF ReopenFails
        <5>2. cmd[p].arch \in Archive
          BY <1>1, RunFacts
        <5>3. \A i \in DOMAIN Entries[cmd[p].arch] : ~(i < 1)
          BY <5>2, ArchiveAssumption
        <5> QED
          BY <1>1, <5>1, <5>3 DEF Laid
      <4> QED
        BY <4>1, <4>2 DEF ExtractFails
    <3> QED
      BY <1>1, <3>1, <3>2 DEF Done, Emptied, Fresh
  <2> QED
    BY <2>1, <2>2, <1>2 DEF Throw
<1>3. CASE "extract" \in Faults /\ AtEntry(p) /\ NextEntry(p) /\ UNCHANGED pc
  BY <1>1, <1>3, PassEntry DEF NextEntry, IInv, TypeOK
<1> QED
  BY <1>2, <1>3 DEF ExtractFails, ReopenFails

\* Whatever p does, what holds of its last steps keeps holding.
LEMMA OwnDone ==
  ASSUME IInv, NEW p \in Proc, Done(p), Act(p)
  PROVE  Done(p)'
<1>1. TypeOK /\ ProcInv(p)
  BY DEF IInv
<1>2. CASE Exit(p)
  BY <1>1, <1>2, EarlyDone DEF Exit, Goto, TypeOK
<1>3. CASE Start(p) \/ db_lock(p) \/ db_open(p)
  <2>1. pc'[p] \in {"lock", "open", "find"} /\ pos' = pos /\ pc[p] \in {"idle", "lock", "open"}
    BY <1>1, <1>3 DEF Start, db_lock, db_open, Goto, TypeOK
  <2> QED
    BY <2>1, EarlyDone DEF Done, Fresh
<1>4. CASE Add(p) \/ AddForce(p)
  <2>1. pc[p] = "find" /\ pc'[p] \in {"rmforced", "rmold"} /\ pos' = pos
    BY <1>1, <1>4 DEF Add, AddForce, AddAccepted, Replace, Goto, TypeOK
  <2> QED
    BY <2>1, EarlyDone DEF Done, Fresh
<1>5. CASE Commit(p)
  <2>1. CASE pc[p] = "commit" /\ cmd[p].util = "pkgadd"
    <3>1. pc'[p] = "install" /\ UNCHANGED <<cmd, pos>> /\ pos[p] = 1
      BY <1>1, <1>5, <2>1 DEF Commit, Goto, TypeOK, Done, Fresh
    <3>2. cmd[p].arch \in Archive
      BY <2>1, RunFacts
    <3>3. \A i \in DOMAIN Entries[cmd[p].arch] : ~(i < 1)
      BY <3>2, ArchiveAssumption
    <3> QED
      BY <2>1, <3>1, <3>3 DEF Done, Emptied, Fresh, Laid
  <2>2. CASE ~(pc[p] = "commit" /\ cmd[p].util = "pkgadd")
    BY <1>2, <1>5, <2>2 DEF Commit
  <2> QED
    BY <2>1, <2>2
<1>6. CASE EndOfArchive(p)
  <2>1. pc[p] = "install" /\ pc'[p] = "ldconfig" /\ UNCHANGED <<fs, cmd, pos>>
    BY <1>1, <1>6 DEF EndOfArchive, Goto, disk, TypeOK
  <2>2. cmd[p].util = "pkgadd"
    BY <1>1, <2>1 DEF ProcInv, CmdInv
  <2> QED
    BY <2>1, <2>2 DEF Done, Emptied, Fresh, Laid
<1>7. CASE ldconfig(p)
  <2>1. CASE cmd[p].util = "pkgrm" /\ Goto(p, "commit")
                /\ UNCHANGED <<lock, cmd, mem, todo, pos>>
    <3>1. pc[p] = "ldconfig" /\ pc'[p] = "commit" /\ UNCHANGED <<db, fs>>
      BY <1>1, <1>7, <2>1 DEF ldconfig, Goto, disk, TypeOK
    <3>2. Emptied(p)'
      BY <2>1, <3>1 DEF Done, Emptied, Doomed, Refs, Occupied
    <3> QED
      BY <2>1, <3>1, <3>2 DEF Done, Fresh, Laid
  <2> QED
    BY <1>2, <1>7, <2>1 DEF ldconfig
<1>8. CASE db_lock_busy(p) \/ OpenFails(p) \/ AddRefused(p) \/ RmRefused(p) \/ Query(p)
           \/ CommitFails(p) \/ LdconfigFails(p) \/ Kill(p)
  BY <1>2, <1>8 DEF db_lock_busy, OpenFails, AddRefused, RmRefused, Query, CommitFails,
                    LdconfigFails, Kill
<1> QED
  BY <1>3, <1>4, <1>5, <1>6, <1>7, <1>8, RmDone, RemoveFileDone, RemoveDoneDone, InstallDone,
     FailDone DEF Act, Step

LEMMA AllDone ==
  ASSUME IInv, \A p \in Proc : Done(p), [Next]_vars
  PROVE  (\A p \in Proc : Done(p))'
<1>1. ASSUME NEW p \in Proc, NEW q \in Proc, Act(p) PROVE Done(q)'
  <2>1. CASE q = p
    BY <1>1, <2>1, OwnDone
  <2>2. CASE q # p
    <3>1. Frame(q) /\ pos'[q] = pos[q]
      BY <1>1, <2>2, StepFrame, PosFrame DEF IInv
    <3>2. CASE Writing(p)
      BY <2>2, <3>1, <3>2, FrameDone DEF Writing, IInv, LockInv
    <3>3. CASE ~Writing(p)
      <4>1. db' = db /\ fs' = fs
        BY <1>1, <3>3, StepDisk DEF IInv
      <4> QED
        BY <3>1, <4>1, FrameDone
    <3> QED
      BY <3>2, <3>3
  <2> QED
    BY <2>1, <2>2
<1>2. ASSUME NEW f \in Path, Edit(f), NEW q \in Proc PROVE Done(q)'
  <2>1. Frame(q) /\ pos'[q] = pos[q] /\ db' = db
    BY <1>2 DEF Edit, Frame
  <2>2. \A g \in Path : fs'[g] = Absent <=> fs[g] = Absent
    <3>1. fs[f] \in Node /\ fs \in [Path -> Slot]
      BY <1>2 DEF Edit, IInv, TypeOK, Slot
    <3>2. [fs[f] EXCEPT !.data = Local] # Absent
      BY <3>1, NodeAssumption DEF Node
    <3> QED
      BY <1>2, <3>1, <3>2 DEF Edit
  <2> QED
    BY <2>1, <2>2, FrameDone
<1>3. ASSUME UNCHANGED vars, NEW q \in Proc PROVE Done(q)'
  BY <1>3, FrameDone DEF vars, Frame
<1> QED
  BY <1>1, <1>2, <1>3 DEF Next, Act

LEMMA LastSteps == Spec => [](\A p \in Proc : Done(p))
<1>1. Init => \A p \in Proc : Done(p)
  BY DEF Init, Done, Emptied, Fresh, Laid
<1>2. IInv /\ (\A p \in Proc : Done(p)) /\ [Next]_vars => (\A p \in Proc : Done(p))'
  BY AllDone
<1> QED
  BY <1>1, <1>2, Invariance, PTL DEF Spec

\* Before pkgrm commits it has deleted every file that is the package's alone,
\* and every such directory that holds nothing else, provided remove(3) works:
\* the reverse order of the paths empties a directory before its turn comes.
THEOREM Deleted ==
  ASSUME "remove" \notin Faults
  PROVE  Spec => []Removed
<1>1. IInv /\ (\A p \in Proc : Done(p)) => Removed
  <2> SUFFICES ASSUME IInv, \A q \in Proc : Done(q), NEW p \in Proc,
                      pc[p] = "commit", cmd[p].util = "pkgrm",
                      NEW f \in db[cmd[p].name] \ Refs(db, cmd[p].name)
               PROVE  fs[f] = Absent \/ Occupied(fs, f)
    BY DEF Removed
  <2>1. todo[p] = {}
    BY DEF IInv, ProcInv, EraseInv, Erasing
  <2> QED
    BY <2>1 DEF Done, Emptied, Doomed
<1> QED
  BY <1>1, Invariance, LastSteps, PTL

\* When pkgadd comes to the end of the archive every file the database records
\* for the package is on disk, or it has been there when pkgadd looked and was
\* kept, provided each extraction works.
THEOREM AllOnDisk ==
  ASSUME "extract" \notin Faults
  PROVE  Spec => []Complete
<1>1. IInv /\ (\A p \in Proc : Done(p)) => Complete
  <2> SUFFICES ASSUME IInv, \A q \in Proc : Done(q), NEW p \in Proc,
                      pc[p] = "ldconfig", cmd[p].util = "pkgadd",
                      ~(pos[p] <= Len(Entries[cmd[p].arch])),
                      NEW f \in Recorded(cmd[p].arch)
               PROVE  fs[f] # Absent
    BY DEF Complete
  <2>1. cmd[p].arch \in Archive /\ pos[p] \in Nat
    BY RunFacts DEF IInv, TypeOK
  <2>2. PICK i \in DOMAIN Entries[cmd[p].arch] : f = Entries[cmd[p].arch][i]
    BY DEF Recorded, apply_install_rules, Files
  <2>3. ~Refused("INSTALL", f)
    BY DEF Recorded, apply_install_rules
  <2>4. i < pos[p]
    BY <2>1, ArchiveAssumption
  <2> QED
    BY <2>2, <2>3, <2>4 DEF Done, Laid
<1> QED
  BY <1>1, Invariance, LastSteps, PTL

\* pkgadd and pkgrm implement the abstract package store: a commit installs or
\* uninstalls one package, every other step leaves the store alone.
THEOREM Refinement == Spec => StoreSpec
<1>1. Init => Store!Init
  BY DEF Init, Store!Init, NoDb
<1>2. IInv /\ [Next]_vars => [Store!Next]_db
  <2> SUFFICES ASSUME IInv, [Next]_vars, db' # db PROVE Store!Next
    OBVIOUS
  <2>1. PICK p \in Proc : Commit(p)
    BY DbUnchanged DEF Next, Act, vars, Edit
  <2> DEFINE n == cmd[p].name
             R == Recorded(cmd[p].arch)
  <2>2. n \in Pkg /\ R \subseteq Path /\ db' = mem[p] /\ mem[p] \in [Pkg -> SUBSET Path]
    BY <2>1, CommitRecords DEF IInv, TypeOK
  <2>3. CASE pc[p] = "commit" /\ cmd[p].util = "pkgadd"
    <3>1. \A q \in Pkg : mem[p][q] = IF q = n THEN R ELSE db[q] \ (R \ Dir)
      BY <2>1, <2>3, CommitRecords DEF Taken
    <3>2. Store!Install(n, R)
      BY <2>2, <3>1 DEF Store!Install
    <3> QED
      BY <2>2, <3>2 DEF Store!Next
  <2>4. CASE ~(pc[p] = "commit" /\ cmd[p].util = "pkgadd")
    <3>1. Store!Uninstall(n)
      BY <2>1, <2>2, <2>4, CommitRecords DEF Store!Uninstall, Without
    <3> QED
      BY <2>2, <3>1 DEF Store!Next
  <2> QED
    BY <2>3, <2>4
<1> QED
  BY <1>1, <1>2, Invariance, PTL DEF Spec, StoreSpec, Store!Spec
===============================================================================
