------------------------------- MODULE MCPkgman -------------------------------
(* app needs lib and base, lib needs base, base needs a package without    *)
(* sources.                                                                *)
EXTENDS Pkgman

CONSTANTS app, lib, base, ghost

MCNeeds == [x \in Repo |->
  CASE x = app -> {lib, base} [] x = lib -> {base} [] OTHER -> {ghost}]

MCAlphabet == <<app, base, ghost, lib>>

AnyDB == {d \in [Pkg -> Version] : d[ghost] # "new"}
AnyLocks == {{}, {lib}, {app, ghost}}
NoLocks == {{}}

TwoDBs == {[x \in Pkg |-> IF x = base THEN "old" ELSE "none"], [x \in Pkg |-> IF x = lib THEN "old" ELSE "none"]}

OldDBs == {[x \in Pkg |-> IF x \in {app, lib} THEN "old" ELSE "none"]}

Cmd(op, args, opts) == [op |-> op, args |-> args, opts |-> opts, ignore |-> {}]
CmdBut(op, args, opts, ignore) == [Cmd(op, args, opts) EXCEPT !.ignore = ignore]

\* One instance: every operation, with the options that make a difference.
OneCmds ==
     {Cmd(op, <<app, base>>, opts) : op \in {"install", "update"}, opts \in SUBSET {"deps", "group"}}
  \union {Cmd(op, <<lib, ghost, lib>>, opts) : op \in {"install", "update", "remove"},
                                               opts \in {{}, {"deps"}, {"group"}}}
  \union {Cmd("install", <<base, app>>, {"force"} \union o) : o \in {{"deps", "group"}, {"do"}}}
  \union {CmdBut("install", <<app>>, {"deps", "group"}, {base})}
  \union {Cmd("remove", <<lib, app>>, opts) : opts \in {{}, {"deps"}, {"deps", "group"}}}
  \union {CmdBut("remove", <<app, lib>>, {"group"}, {app})}
  \union {Cmd("sysup", << >>, opts) : opts \in SUBSET {"deps", "depsort", "group"} \union {{"all"}}}
  \union {Cmd(op, args, {}) : op \in {"lock", "unlock"}, args \in {<<app, lib>>, <<app, app>>}}
  \union {Cmd("update", <<app>>, {"test"})}

\* Two instances at a time.
TwoCmds == {
  Cmd("install", <<app>>, {"deps", "group"}),
  Cmd("install", <<lib, base>>, {}),
  Cmd("update", <<lib>>, {"deps"}),
  Cmd("remove", <<lib, app>>, {}),
  Cmd("sysup", << >>, {"deps"})}

\* The commands of the counterexamples.
InstallCmds == {Cmd("install", <<app>>, {})}
GroupCmds == {Cmd("update", <<app>>, {"deps", "group"})}
===============================================================================
