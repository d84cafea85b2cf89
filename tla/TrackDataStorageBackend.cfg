CONSTANTS
  Producers = {p1, p2}
  MaxPending = 2
  MaxEvents = 3
  MaxSessions = 2
SPECIFICATION Spec
INVARIANTS QueueInv AttendedBatchKeepsItsFile
PROPERTY PathChangesAlone
