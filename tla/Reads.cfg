SPECIFICATION Spec
CONSTANTS
  Merchants = {1, 2}
  Payments <- FourPayments
  Letters <- ThreeLetters
  Instants = {1, 2, 3}
  Clients <- Readers
  AnyStatus = ""
  NoReply = NoReply
  Builds <- AsBuiltAndRepaired
  MaxLogs = 1
  MaxFaults = 1
INVARIANTS
  TypeOK
  PagingComplete
  OwnRowsOnly
  ReplyIsCurrent
  OwnerCanReadOnceRepaired
CHECK_DEADLOCK FALSE
