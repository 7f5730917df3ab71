\* Two overlapping synchronizations leave an old state in the projection.
SPECIFICATION Spec
CONSTANTS
  Workers = {w1, w2}
  Events = {e1, e2}
  MaxFaults = 0
  None = None
INVARIANT
  QuietProjectionIsCurrent
