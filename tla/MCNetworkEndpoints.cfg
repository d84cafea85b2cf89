CONSTANTS
  TargetNumbers = {1}
  Sizes = {0, 1, 2}
  HeaderSize = 1
  MaxPayload = 2
  MaxEdits = 2
  MaxImages = 3
  MaxOpens = 2
SPECIFICATION FairNetworkSpec
CONSTRAINT OneUsed
INVARIANTS EndpointsInv BridgeInv ImagesInv
PROPERTIES StaleImageOnce SenderProgress
CHECK_DEADLOCK FALSE
