\* Two overlapping requests, two changes, one fault.
SPECIFICATION FairSpec
CONSTANTS
  Workers = {w1, w2}
  Events = {e1, e2}
  MaxFaults = 1
  None = None
INVARIANTS
  TypeOK
  AckedEventsWereApplied
  LoneStoreIsCurrent
  HandledUnlessOutlived
PROPERTIES
  EventsAcknowledged
  OnlyOverlapGoesBack
