------------------------------ MODULE MCDbCommit ------------------------------
(* Four inodes: the database, its backup, a left-over of a failed commit and *)
(* the new version.  The facts about revdep, which reads the database, are   *)
(* evaluated with this model.                                                *)
EXTENDS DbCommit, RevdepChecks

CONSTANTS i1, i2, i3, i4

Symmetry == Permutations({i2, i3, i4})
===============================================================================
