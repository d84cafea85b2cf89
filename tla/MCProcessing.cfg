CONSTANTS
  Capacity = 2
  MaxFrames = 3
  MaxSessions = 2
  Width = 16
  Views <- MCViews
  Clicks = {4, 7}
  History = 4
  MaxAge = 9
  SpdLowAe = 0
  ThresholdAe = 4
  SearchRadius = 5
  ThresholdMeo = 2
  FovCenter = {6, 8, 10}
  StarMotions <- MCStarMotions
  MotionConsistency = 2
  AssociationRadius = 5
  Equatorial = TRUE
  SpeedError = 3
  RadiusStep = 1
  RadiusLimit = 1
  NumFramesLiving = 2
  LeoWindow = 3
  SearchWindow = 4
  MaxLeoBlobs = 3
  MaxRediscoveryBlobs = 3
SPECIFICATION ProcessingSpec
INVARIANTS ProcessorInv TrackerHistoryInOrder
INVARIANTS TargetsInv MeasurementsAreReal IsolatedObjectFound
PROPERTIES StopReturns QueuedFrameIsPublished
PROPERTIES OneMeasurementEach IdNamesOneTarget
