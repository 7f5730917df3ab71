\* Two accounts, a Checkout Session of one of them, no passage of time.
SPECIFICATION Spec
CONSTANTS
  Accounts = {a1, a2}
  Devices = {d1, d2}
  Checkouts = {k1}
  Challenges = {c1, c2, c3}
  Requests = {r1, r2}
  Buyer <- OneBuyer
  Limits = {1}
  ChallengeTTL = 1
  LicenseTTL = 1
  Grace = 0
  MaxTime = 0
  None = None
SYMMETRY Symmetry
INVARIANTS
  TypeOK
  CheckoutActivatesOneDevice
  ChallengeSpentIffLicensed
  DeadlockNeedsRefresh
PROPERTIES
  DeviceLimitRespected
  LedgerImplemented
