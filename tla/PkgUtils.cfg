CONSTANTS
  p1 = p1
  p2 = p2
  A = A
  B = B
  A1 = A1
  A2 = A2
  B1 = B1
  etc = etc
  conf = conf
  prog = prog
  doc = doc
  Absent = Absent
  Idle = Idle
  NoFile = NoFile
  Root = Root
  Proc = {p1, p2}
  Pkg = {A, B}
  Path <- MCPath
  Dir = {etc}
  Above <- MCAbove
  Rank <- MCRank
  Perm = {"755", "700", "644"}
  Data = {"dir", "one", "two", "local", "partial"}
  Local = "local"
  Empty = "empty"
  Device = {}
  Broken <- MCBroken
  DefaultDir <- MCDefaultDir
  Archive = {A1, A2, B1}
  NameOf <- MCNameOf
  Entries <- MCEntries
  Content <- MCContent
  Rules <- MCRules
  Cmds <- MCCmds
  InitFs <- MCInitFs
  Faults = {"open","commit","extract","reopen","header","ldconfig","kill"}
SPECIFICATION Spec
SYMMETRY Symmetry
INVARIANTS TypeOK SoleOwner Removed
PROPERTIES NoOrphans StoreSpec OwnRecordOnly OwnFilesOnly ProtectedKept
