CONSTANTS
  app = app
  lib = lib
  base = base
  ghost = ghost
  Proc = {p1}
  Pkg = {app, lib, base, ghost}
  Repo = {app, lib, base}
  Needs <- MCNeeds
  Alphabet <- MCAlphabet
  Cmds <- OneCmds
  WriteLog = TRUE
  RemoveLog = TRUE
  AppendLog = FALSE
  Faults = {"fail", "signal"}
  DBs <- AnyDB
  Locks <- AnyLocks
  OldLogs = {}
SPECIFICATION Spec
INVARIANTS TypeOK GroupOrder RemovableSafe LockedKept ExitStatus
