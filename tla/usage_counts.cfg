CONSTANTS
  Sessions = {a, b}
  NoFile = NoFile
  Models = {m, n}
  NoModel = NoModel
  EventModels = {NoModel}
  MaxDay = 2
  MaxLines = 3
  MaxStarts = 2
  LegacyBuckets = {}
  TailLines = 2
  Retention = 2
SYMMETRY AnyNames
SPECIFICATION Spec
INVARIANTS EventsCountedExactly CountersCountedOnce
PROPERTIES PastDaysFrozen
CHECK_DEADLOCK FALSE
