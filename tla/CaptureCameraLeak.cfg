\* Three tasks of the page at a time, two streams, three sessions.
SPECIFICATION Spec
CONSTANTS
  Tasks = {t1, t2, t3}
  Cameras = {m1, m2}
  MaxFrames = 2
  MaxSessions = 3
  None = None
INVARIANT
  StoppedReleasesAll
