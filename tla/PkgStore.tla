------------------------------- MODULE PkgStore -------------------------------
(***************************************************************************)
(* What the package database promises its users: it maps every package to  *)
(* the files it owns, and one whole command at a time changes it.          *)
(***************************************************************************)
CONSTANTS Pkg, Path, Dir

VARIABLE db

TypeOK == db \in [Pkg -> SUBSET Path]

Init == db = [n \in Pkg |-> {}]

\* n is installed or replaced and from now on owns F; a file another package
\* owned goes over to n, a directory is shared.
Install(n, F) == db' = [q \in Pkg |-> IF q = n THEN F ELSE db[q] \ (F \ Dir)]

Uninstall(n) == db' = [db EXCEPT ![n] = {}]

Next == \E n \in Pkg : Uninstall(n) \/ \E F \in SUBSET Path : Install(n, F)

Spec == Init /\ [][Next]_db

\* No two packages own the same file, only directories are shared: the records
\* pkgutil::db_commit writes never name a file twice.
SoleOwner == \A n, o \in Pkg : n # o => db[n] \intersect db[o] \subseteq Dir
===============================================================================
