CONSTANTS
  a = a
  b = b
  daemon = daemon
  other = other
  self = self
  Inst = {a, b}
  Pid = {1, 2}
  Stranger = {other}
  Daemon = daemon
  Self = self
  Free = Free
  Owner <- MCOwner
  Parent <- MCParent
  Protected = {}
  Uid <- MCUid
  Groups = {"git", "root"}
  Null = Null
  NoFile = NoFile
  NoNumber = NoNumber
  Lines <- MCLines
  InitFiles <- MCInitFiles
  Faults = {"pidfile", "exec"}
SPECIFICATION Spec
INVARIANTS TypeOK OneDaemon
PROPERTIES GoneOnSuccess StatusTrue
