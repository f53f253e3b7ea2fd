SPECIFICATION FairSpec
CONSTANTS
  h1 = h1
  h2 = h2
  none = none
  Handlers <- TwoHandlers
  Payloads <- LivenessPayloads
  NoPayload = none
  AllowedIPs = {}
  TxIds = {"t1", "t2"}
  NoTxId = ""
  Urls = {"", "u1"}
  NoUrl = ""
  DefaultQuota = 1
  Quotas = {2}
  Window = 0
  MaxMerchants = 1
  MaxTime = 1
  MaxFaults = 1
PROPERTIES
  EventuallyAcknowledged
  RecordedIsAnnounced
CHECK_DEADLOCK FALSE
