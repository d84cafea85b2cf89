CONSTANTS
  h = h
  t = t
  x = x
  HEADER = h
  TAIL = t
  PayloadLen = 1
  Payloads <- MCPayloads
  BadPayloads <- MCBadPayloads
  MaxFrames = 2
  MaxLosses = 2
  MaxCommands = 2
  MaxOpens = 2
SPECIFICATION FairSpec
INVARIANTS PortInv StreamConserved ShortLossMakesNoFrame CommandsInOrder
PROPERTIES StaleRequestOnce ChannelProgress
CHECK_DEADLOCK FALSE
