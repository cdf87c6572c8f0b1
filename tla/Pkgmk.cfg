CONSTANTS
  Content = {good, bad}
  Listing = {same, other}
  None = None
  Cmds <- AllCmds
  Status = {8, 22}
  Faults = {"download", "unpack", "build", "pack", "signal", "kill"}
SPECIFICATION Spec
INVARIANTS TypeOK NothingToDo Verified CleanWork
