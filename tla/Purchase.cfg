\* Three requests for two connections, two of them by one user.
SPECIFICATION FairSpec
CONSTANTS
  r1 = r1  r2 = r2  r3 = r3  a1 = a1  a2 = a2
  Requests = {r1, r2, r3}
  Accounts = {a1, a2}
  User <- TwoUsers
  Customers = {c1, c2, c3}
  Keys = {k1}
  Connections = 2
  MaxFaults = 1
  MaxExpired = 1
  None = None
INVARIANTS
  TypeOK
  SessionsMatchAccount
  OneCustomerPerKey
PROPERTIES
  CustomerIsForever
  RequestsEnd
