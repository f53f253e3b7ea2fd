SPECIFICATION Spec
CONSTANTS
  h1 = h1
  h2 = h2
  none = none
  Handlers <- TwoHandlers
  Payloads <- SafetyPayloads
  NoPayload = none
  AllowedIPs <- OneNetwork
  TxIds = {"t1", "t2", "t3"}
  NoTxId = ""
  Urls = {""}
  NoUrl = ""
  DefaultQuota = 1
  Quotas = {1, 2}
  Window = 0
  MaxMerchants = 1
  MaxTime = 0
  MaxFaults = 1
SYMMETRY HandlerSymmetry
INVARIANTS
  TypeOK
  QuotaOvershootBounded
  NeverOvercharged
  AcknowledgedIsRecorded
  OneNotificationPerTransaction
PROPERTIES
  OrphanedByFaultOnly
  RefinesLedger
CHECK_DEADLOCK FALSE
