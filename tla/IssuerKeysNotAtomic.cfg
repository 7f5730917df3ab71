\* A first keyset-fetch is killed between the creation of its file and the write.
SPECIFICATION KeysSpec
CONSTANTS
  Processes = {p1}
  Keys = {k1}
  Absent = Absent
  Empty = Empty
  MaxIssued = 1
  MaxFaults = 0
  LastKid = 1
INVARIANT
  KeysetIsWhole
