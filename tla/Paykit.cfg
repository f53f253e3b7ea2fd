SPECIFICATION FairPaykit
CONSTANTS
  h1 = h1
  r1 = r1
  none = none
  Handlers = {h1}
  Payloads <- TwoMerchants
  NoPayload = none
  AllowedIPs = {}
  TxIds = {"t1", "t2"}
  NoTxId = ""
  Urls = {"", "u1"}
  NoUrl = ""
  DefaultQuota = 1
  Quotas = {}
  Window = 0
  MaxMerchants = 2
  MaxTime = 0
  MaxFaults = 1
  Slots = {r1}
  NoId = NoId
  NoJob = NoJob
  NoItem = NoItem
  Builds <- Repaired
  MaxRetries = 1
INVARIANTS
  HeardIsGenuine
  HeardIsBilled
PROPERTIES
  StoredIsSettled
CHECK_DEADLOCK FALSE
