------------------------------- MODULE MCPkgmk -------------------------------
(* Two contents, two listings.                                             *)
EXTENDS Pkgmk

Cmd(mode, opts) == [mode |-> mode, opts |-> opts]

\* Every way to run pkgmk.
AllCmds ==
     {Cmd("build", opts) : opts \in SUBSET {"d", "f", "im", "kw"} \union {{"cm"}, {"d", "cm"}, {"d", "cm", "im"}, {"d", "if"}}}
  \union {Cmd(mode, {}) : mode \in {"do", "utd", "c", "h"}}
  \union {Cmd("um", {"d"}), Cmd("eo", {"d"}), Cmd("eo", {"d", "kw"}), Cmd("uf", {}), Cmd("uf", {"kw"})}

BuildCmds == {Cmd("build", {"d"})}
===============================================================================
