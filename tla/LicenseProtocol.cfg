\* One command at a time, an earlier request still on its way, one fault, clocks one unit apart.
SPECIFICATION FairSpec
CONSTANTS
  Commands = {p1}
  Challenges = {c1, c2}
  Plans <- SomePlans
  Offsets <- BehindToAhead
  TTL = 2
  RefreshAfter = 1
  GraceTTL = 1
  ChallengeTTL = 2
  MaxLifetime = 2
  MaxGrace = 1
  MaxChallenge = 3
  Skew = 1
  MaxTime = 3
  MaxFaults = 1
  None = None
INVARIANTS
  TypeOK
  AnswersAgree
  ExposureBounded
  StoreHoldsVerified
  NeverTooLong
PROPERTY
  RefreshRecovers
