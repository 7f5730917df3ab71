\* Two processes, two device keys, two licences, one rotation, one fault.
SPECIFICATION KeysFairSpec
CONSTANTS
  Processes = {p1, p2}
  Keys = {k1, k2}
  Absent = Absent
  Empty = Empty
  MaxIssued = 2
  MaxFaults = 1
  LastKid = 2
INVARIANTS
  KeysTypeOK
  RegisteredKeyIsKept
  TokenFitsDevice
  SavedLicenceVerifies
PROPERTY
  KeyIsCreated
