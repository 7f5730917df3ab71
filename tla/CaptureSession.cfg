\* Three tasks at a time, two streams, two sessions of two frames; pages are loaded again.
SPECIFICATION FairSpec
CONSTANTS
  Tasks = {t1, t2, t3}
  Cameras = {m1, m2}
  MaxFrames = 2
  MaxSessions = 2
  None = None
INVARIANTS
  TypeOK
  ResultIsOfItsSession
PROPERTY PageFollowsSession
