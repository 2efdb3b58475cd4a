SPECIFICATION Spec
CONSTANTS
  h1 = h1 h2 = h2
  q1 = q1 q2 = q2 q3 = q3 q4 = q4
  Requests = {q1, q2, q3}
  Refs = {h1, h2}
  Remote = {h1}
  MaxExpiries = 2
  MaxFaults = 2
  NoRequest = NoRequest NoFile = NoFile NoEntry = NoEntry
SYMMETRY Symmetry
INVARIANTS CacheIsSound NoOrphanFiles
PROPERTIES OnlyOwnFilesDeleted DownloadedOnce
CHECK_DEADLOCK FALSE
