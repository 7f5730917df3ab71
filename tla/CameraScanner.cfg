\* Rates below, at and above the controller's minimum, a window of four frames.
SPECIFICATION FairSpec
CONSTANTS
  Captures = {c1, c2}
  None = None
  Requested = {0, 3, 5, 6}
  MaximumFps = 6
  MinimumFps = 4
  Window = 4
  FrameLimit = 5
  DurationLimit = 3
  ReadFailures = 2
  Recheck = 2
  MaxTime = 4
  MaxGap = 1
INVARIANTS
  TypeOK
  CameraIsReachable
  StoppedHoldsNothing
PROPERTIES
  RecheckBoundsExposure
  RateRisesAfterStreak
  ScanEnds
