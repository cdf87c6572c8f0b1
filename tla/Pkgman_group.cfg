CONSTANTS
  app = app
  lib = lib
  base = base
  ghost = ghost
  Proc = {p1}
  Pkg = {app, lib, base, ghost}
  Repo = {app, lib, base}
  Needs <- MCNeeds
  Alphabet <- MCAlphabet
  Cmds <- GroupCmds
  WriteLog = FALSE
  RemoveLog = FALSE
  AppendLog = FALSE
  Faults = {"fail"}
  DBs <- OldDBs
  Locks <- NoLocks
  OldLogs = {}
SPECIFICATION Spec
INVARIANTS GroupStops
