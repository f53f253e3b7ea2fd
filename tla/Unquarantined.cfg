SPECIFICATION Spec
CONSTANTS
  r1 = r1
  r2 = r2
  Payments = {1}
  Merchants = {1}
  Owner <- FirstOwns
  Successful = {1}
  Slots = {r1}
  Urls = {"", "u1"}
  NoUrl = ""
  NoJob = NoJob
  NoId = NoId
  NoItem = NoItem
  Builds <- AsBuilt
  MaxRetries = 0
  MaxFaults = 0
INVARIANT
  FailedIsQuarantined
CHECK_DEADLOCK FALSE
