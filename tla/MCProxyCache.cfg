SPECIFICATION Spec
CONSTANTS
  Nums = {n1, n2}
  Urls = {u1, u2}
  Versions <- MCVersions
  Size <- MCSize
  Inodes = {i1, i2, i3, i4}
  Dummy = Dummy
  Miss = Miss
  NoFile = NoFile
  EmptyFile = EmptyFile
  Idle = Idle
  CrashPoints <- CrashBeforeSaved
  IOErrors = {"link", "openhead", "writehead"}
  MaxRestarts = 1
SYMMETRY CacheSymmetry
INVARIANTS
  TypeOK
  EntryIntact
  WritesAreUnread
  NoStrayTmp
PROPERTY CacheIsAtomic
