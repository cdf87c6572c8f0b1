CONSTANTS
  a = a
  b = b
  Window = {a, b}
  None = None
  Root = Root
  PointerRoot = PointerRoot
  TAGS = 2
  TagLayout <- MCTagLayout
  Rules <- MCRules
  TransientFor <- MCTransientFor
  FixedSize = {}
  Dialog = {}
  StartsFull = {}
  Hints <- MCHints
  Heads = {1, 2}
  KeyLayouts = {"float", "monocle"}
  MfactStep = {10}
  MaxMaster = 2
  MaxQueue = 3
  MaxInputs = 4
SPECIFICATION Spec
INVARIANTS TypeOK Listed NoGhosts
PROPERTIES FocusKept SettingsKept
CHECK_DEADLOCK FALSE
