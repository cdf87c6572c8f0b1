CONSTANTS
  Content = {good, bad}
  Listing = {same, other}
  None = None
  Cmds <- BuildCmds
  Status = {8, 22}
  Faults = {"signal"}
SPECIFICATION Spec
INVARIANTS BroughtUpToDate
