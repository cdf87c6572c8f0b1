------------------------------ MODULE MCPkgUtils ------------------------------
(* Two packages over a directory with a configuration file and a program.    *)
(* The facts about rejmerge, which empties the rejected area, are evaluated  *)
(* with this model.                                                          *)
EXTENDS PkgUtils, RejMergeChecks

CONSTANTS p1, p2, A, B, A1, A2, B1, etc, conf, prog, doc

MCPath == {etc, conf, prog, doc}
MCAbove == (etc :> {}) @@ (conf :> {etc}) @@ (prog :> {}) @@ (doc :> {})
MCRank == (etc :> 1) @@ (conf :> 2) @@ (prog :> 3) @@ (doc :> 4)

File(perm, data) == [perm |-> perm, data |-> data]
MCContent ==
  (A1 :> [f \in MCPath |-> IF f = etc THEN File("755", "dir") ELSE File("644", "one")]) @@
  (A2 :> [f \in MCPath |-> IF f = etc THEN File("700", "dir") ELSE File("644", "two")]) @@
  (B1 :> [f \in MCPath |-> IF f = etc THEN File("755", "dir") ELSE File("644", "one")])

\* A2 drops prog, B1 ships it too; doc is never to be installed.
MCEntries == (A1 :> <<etc, conf, prog, doc>>) @@ (A2 :> <<etc, conf, doc>>) @@ (B1 :> <<etc, prog>>)
MCNameOf == (A1 :> A) @@ (A2 :> A) @@ (B1 :> B)

MCRules == <<[event |-> "INSTALL", matches |-> {prog, doc}, action |-> FALSE],
             [event |-> "UPGRADE", matches |-> {etc, conf}, action |-> FALSE],
             [event |-> "INSTALL", matches |-> {prog}, action |-> TRUE]>>

Pkgadd(a, u, f) ==
  [util |-> "pkgadd", name |-> MCNameOf[a], arch |-> a, upgrade |-> u, force |-> f]
Pkgrm(n) ==
  [util |-> "pkgrm", name |-> n, arch |-> A1, upgrade |-> FALSE, force |-> FALSE]
Pkginfo ==
  [util |-> "pkginfo", name |-> A, arch |-> A1, upgrade |-> FALSE, force |-> FALSE]

MCCmds == {Pkgadd(A1, FALSE, FALSE), Pkgadd(A2, TRUE, FALSE), Pkgadd(A1, TRUE, TRUE),
           Pkgadd(B1, FALSE, FALSE), Pkgadd(B1, FALSE, TRUE),
           Pkgrm(A), Pkgrm(B), Pkginfo}

\* For the liveness run: one package's life, and a taker of its program.
MCCmdsFew == {Pkgadd(A1, FALSE, FALSE), Pkgadd(A2, TRUE, FALSE), Pkgadd(B1, FALSE, TRUE), Pkgrm(A)}

MCBroken == File("644", "partial")
MCDefaultDir == File("755", "dir")
MCInitFs == [f \in MCPath |-> Absent]
Symmetry == Permutations({p1, p2})
===============================================================================
