------------------------------- MODULE DbCommit -------------------------------
(***************************************************************************)
(* How pkgutil::db_commit replaces the package database, system call by    *)
(* system call, over a file system that loses what it has not written back *)
(* when the power fails.  The exclusive lock allows one commit at a time   *)
(* (PkgUtils); one commit may follow another that was killed or failed at  *)
(* any step.  Directory changes reach the disk in order, but when is up to *)
(* the file system: db_commit synchronizes the new file, not the directory.*)
(***************************************************************************)
EXTENDS Naturals

CONSTANTS
  Inode,    \* inodes: a bound on how many versions are around at a time
  Value,    \* whole databases
  Initial,  \* the database when the system is installed
  First,    \* its inode
  Torn,     \* what a file holds that was not written, or not written back, whole
  None      \* no such name

ASSUME DbAssumption ==
  /\ Initial \in Value
  /\ First \in Inode
  /\ Torn \notin Value
  /\ None \notin Inode

\* PKG_DB, and with .incomplete_transaction and .backup.
Name == {"db", "new", "bak"}

VARIABLES
  dir,      \* the directory var/lib/pkg as processes see it
  content,  \* the contents of the inodes as processes see them
  synced,   \* the inodes whose contents are on disk
  pending,  \* the states of the directory that may be the one on disk
  pc,       \* where db_commit is
  packages  \* pkgutil::packages, the version being committed

vars == <<dir, content, synced, pending, pc, packages>>

Init ==
  /\ dir = [n \in Name |-> IF n = "db" THEN First ELSE None]
  /\ content = [i \in Inode |-> Initial]
  /\ synced = Inode
  /\ pending = {dir}
  /\ pc = "idle"
  /\ packages = Initial

Step(here, next) == pc = here /\ pc' = next /\ UNCHANGED packages

Relink(d) == dir' = d /\ pending' = pending \union {d}

Begin ==
  /\ pc = "idle"
  /\ pc' = "unlink_new"
  /\ packages' \in Value
  /\ UNCHANGED <<dir, content, synced, pending>>

unlink_new ==
  /\ Step("unlink_new", "creat")
  /\ Relink([dir EXCEPT !["new"] = None])
  /\ UNCHANGED <<content, synced>>

Used == {d[n] : d \in pending, n \in Name}

\* Mutant: the database itself is opened and truncated.
creat_db ==
  /\ Step("creat", "write")
  /\ Relink([dir EXCEPT !["new"] = dir["db"]])
  /\ content' = [content EXCEPT ![dir["db"]] = Torn]
  /\ synced' = synced \ {dir["db"]}

creat ==
  /\ Step("creat", "write")
  /\ \E i \in Inode \ Used :
       /\ Relink([dir EXCEPT !["new"] = i])
       /\ content' = [content EXCEPT ![i] = Torn]
       /\ synced' = synced \ {i}

\* Mutant: whether the bytes were written is not looked at.
write_unchecked ==
  /\ Step("write", "fsync")
  /\ \E v \in {packages, Torn} : content' = [content EXCEPT ![dir["new"]] = v]
  /\ UNCHANGED <<dir, synced, pending>>

\* Up to flush(), which tells whether every byte was written; Stop leaves the
\* file as creat made it, not whole.
write ==
  /\ Step("write", "fsync")
  /\ content' = [content EXCEPT ![dir["new"]] = packages]
  /\ UNCHANGED <<dir, synced, pending>>

\* Mutant: the new file is not synchronized.
no_fsync ==
  /\ Step("fsync", "unlink_bak")
  /\ UNCHANGED <<dir, content, synced, pending>>

fsync ==
  /\ Step("fsync", "unlink_bak")
  /\ synced' = synced \union {dir["new"]}
  /\ UNCHANGED <<dir, content, pending>>

\* Mutant: the wrong name.
unlink_new_again ==
  /\ Step("unlink_bak", "link")
  /\ Relink([dir EXCEPT !["new"] = None])
  /\ UNCHANGED <<content, synced>>

unlink_bak ==
  /\ Step("unlink_bak", "link")
  /\ Relink([dir EXCEPT !["bak"] = None])
  /\ UNCHANGED <<content, synced>>

\* Mutant: the new version becomes the backup.
link_new ==
  /\ Step("link", "rename")
  /\ Relink([dir EXCEPT !["bak"] = dir["new"]])
  /\ UNCHANGED <<content, synced>>

link ==
  /\ Step("link", "rename")
  /\ Relink([dir EXCEPT !["bak"] = dir["db"]])
  /\ UNCHANGED <<content, synced>>

rename ==
  /\ Step("rename", "idle")
  /\ Relink([dir EXCEPT !["db"] = dir["new"], !["new"] = None])
  /\ UNCHANGED <<content, synced>>

\* A system call fails and db_commit throws, or the process is killed.
Stop ==
  /\ pc # "idle"
  /\ pc' = "idle"
  /\ UNCHANGED <<dir, content, synced, pending, packages>>

-------------------------------------------------------------------------------
(* The file system.                                                        *)

\* It writes the directory back.
Flush ==
  /\ pending' = {dir}
  /\ UNCHANGED <<dir, content, synced, pc, packages>>

\* The power fails.  Any state of the directory since the last flush may come
\* back, and what is not synchronized may be torn.
Loss ==
  /\ dir' \in pending
  /\ pending' = {dir'}
  /\ \E lost \in SUBSET (Inode \ synced) :
       content' = [i \in Inode |-> IF i \in lost THEN Torn ELSE content[i]]
  /\ synced' = Inode
  /\ pc' = "idle"
  /\ UNCHANGED packages

Next ==
  \/ Begin \/ unlink_new \/ creat \/ write \/ fsync \/ unlink_bak \/ link \/ rename
  \/ Stop \/ Flush \/ Loss

Spec == Init /\ [][Next]_vars

-------------------------------------------------------------------------------
(* Properties.                                                             *)

\* The types, and db_commit has a new file from creat to rename.
TypeOK ==
  /\ dir \in [Name -> Inode \union {None}]
  /\ content \in [Inode -> Value \union {Torn}]
  /\ synced \subseteq Inode
  /\ pending \subseteq [Name -> Inode \union {None}]
  /\ dir \in pending
  /\ pc \in {"idle", "unlink_new", "creat", "write", "fsync", "unlink_bak", "link", "rename"}
  /\ packages \in Value
  /\ pc \in {"write", "fsync", "unlink_bak", "link", "rename"} => dir["new"] \in Inode

Whole(i) == i \in Inode /\ content[i] \in Value

\* Wherever commits failed, were killed or were cut by a power loss, the
\* database is there and whole, and the backup is whole if it is there.
Intact == Whole(dir["db"]) /\ (dir["bak"] # None => Whole(dir["bak"]))

\* db_commit never touches what an open descriptor of the database or of its
\* backup reads: a file that was once moved into place is not written again.
Frozen ==
  [][\A d \in pending : \A n \in {"db", "bak"} :
       d[n] # None => content'[d[n]] = content[d[n]]]_vars

\* The version a commit replaces is the backup afterwards, also when earlier
\* commits stopped between the two links.
Backup ==
  [][rename => content'[dir'["bak"]] = content[dir["db"]]]_vars

\* db_commit is atomic, and once the directory is written back also durable.
Store == INSTANCE AtomicStore WITH
  val <- content[dir["db"]], survivors <- {content[d["db"]] : d \in pending}
StoreSpec == Store!Spec
===============================================================================
