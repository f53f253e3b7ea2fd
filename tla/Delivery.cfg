SPECIFICATION FairSpec
CONSTANTS
  r1 = r1
  r2 = r2
  Payments = {1}
  Merchants = {1, 2}
  Owner <- FirstOwns
  Successful = {1}
  Slots = {r1, r2}
  Urls = {"", "u1"}
  NoUrl = ""
  NoJob = NoJob
  NoId = NoId
  NoItem = NoItem
  Builds <- AsBuiltAndRepaired
  MaxRetries = 2
  MaxFaults = 1
INVARIANTS
  TypeOK
  ResolvedWasReceived
  DeliveredToOwner
  AttemptsAudited
  FailedIsQuarantinedOnceRepaired
PROPERTIES
  ReceivedOrQuarantined
  RefinesDeadLetters
CHECK_DEADLOCK FALSE
