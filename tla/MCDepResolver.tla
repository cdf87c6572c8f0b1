----------------------------- MODULE MCDepResolver -----------------------------
(* Three packages with up to two dependencies each, one name without sources. *)
(* The facts about the functions of pkgman are evaluated with this model.     *)
EXTENDS DepResolver, PkgmanChecks

CONSTANTS a, b, c, ghost

UpTo(n, S) == UNION {[1..k -> S] : k \in 0..n}

MCGraphs ==
  {g \in [Repo -> UpTo(2, Pkg)] : g[c] \in UpTo(1, Pkg)}
MCArgs == UpTo(2, {a, ghost}) \union {<<b, a>>}
===============================================================================
