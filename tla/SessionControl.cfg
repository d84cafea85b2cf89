CONSTANTS
  Targets = {t1}
  Capacity = 1
  MaxUiSessions = 1
  MaxEvents = 2
  MaxFrames = 4
  MaxDays = 1
SPECIFICATION Spec
INVARIANTS SavingInv MasterObeyed SpillBounded
CHECK_DEADLOCK FALSE
