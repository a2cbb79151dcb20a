SPECIFICATION Spec
CONSTANTS
  Custom = {c1}
  Official = {o1}
  Public = {}
  Secrets = {s1}
  Cacheable = {c1}
  Requests = {r1, r2}
  None = None
  Absent = Absent
  Keep = Keep
  MaxChanges = 2
  MaxFaults = 1
INVARIANTS RemovedProviderGone KeysStayHome DoctorNotStale
SYMMETRY Symmetry
