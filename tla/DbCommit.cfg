CONSTANTS
  i1 = i1
  i2 = i2
  i3 = i3
  i4 = i4
  Inode = {i1, i2, i3, i4}
  Value = {1, 2}
  Initial = 1
  First = i1
  Torn = Torn
  None = None
  NoFile = NoFile
SPECIFICATION Spec
SYMMETRY Symmetry
INVARIANTS TypeOK Intact
PROPERTIES Frozen Backup StoreSpec
