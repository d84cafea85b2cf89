CONSTANTS
  Producers = {p1, p2}
  MaxPending = 2
  MaxFrames = 3
  MaxSessions = 2
SPECIFICATION FairSpec
INVARIANTS StorageInv StopDrainsEarlierFrames
PROPERTY QueuedFrameIsWritten
