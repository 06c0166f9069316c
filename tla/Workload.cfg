SPECIFICATION BoundedSpec
CONSTANTS
  Images = {i1}
  SecretNames = {s1}
  Sizes = {z1, z2}
  PinSets = {none, p1}
  NoPins = none
  CopyImages = {b1}
  ToolsImages = {t1}
  WorkspaceImages = {w1}
  NoImage = empty
  MaxMarks = 2
INVARIANTS TypeOK OnlyHandsAreRefused BuiltAsFromNothing UnchangedIsNotWritten PointersResolve
PROPERTY OthersKept
