CONSTANTS
  app = app
  lib = lib
  base = base
  ghost = ghost
  Proc = {p1, p2}
  Pkg = {app, lib, base, ghost}
  Repo = {app, lib, base}
  Needs <- MCNeeds
  Alphabet <- MCAlphabet
  Cmds <- TwoCmds
  WriteLog = TRUE
  RemoveLog = FALSE
  AppendLog = TRUE
  Faults = {"fail", "lost", "store"}
  DBs <- TwoDBs
  Locks <- NoLocks
  OldLogs = {lib, base}
SPECIFICATION Spec
PROPERTIES InstallKeeps
