\* Is the access answer at least as new as the account lock?
SPECIFICATION Spec
CONSTANTS
  Accounts = {a1}
  Devices = {d1}
  Checkouts = {k1}
  Challenges = {c1, c2}
  Requests = {r1, r2}
  Buyer <- OneBuyer
  Limits = {1}
  ChallengeTTL = 1
  LicenseTTL = 1
  Grace = 1
  MaxTime = 0
  None = None
SYMMETRY Symmetry
PROPERTY AccessRecheckedUnderLock
