\* One device; the clock moves, so challenges expire and licences end.
SPECIFICATION FairSpec
CONSTANTS
  Accounts = {a1}
  Devices = {d1}
  Checkouts = {k1}
  Challenges = {c1, c2}
  Requests = {r1, r2}
  Buyer <- OneBuyer
  Limits = {1}
  ChallengeTTL = 1
  LicenseTTL = 1
  Grace = 1
  MaxTime = 1
  None = None
INVARIANT RevocationDeadlineHolds
PROPERTIES
  LicenceNeverReplaced
  RequestsEnd
