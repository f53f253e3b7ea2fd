SPECIFICATION Spec
CONSTANTS
  h1 = h1
  h2 = h2
  none = none
  Handlers <- TwoHandlers
  Payloads <- TwoPayments
  NoPayload = none
  AllowedIPs = {}
  TxIds = {"t1", "t2"}
  NoTxId = ""
  Urls = {""}
  NoUrl = ""
  DefaultQuota = 1
  Quotas = {2}
  Window = 0
  MaxMerchants = 1
  MaxTime = 0
  MaxFaults = 0
INVARIANT
  QuotaNeverExceeded
CHECK_DEADLOCK FALSE
