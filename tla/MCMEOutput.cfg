SPECIFICATION Spec
INVARIANTS
  ConsumedInOrder
PROPERTIES
  EveryRowFound
  EveryMessageConsumed
CHECK_DEADLOCK FALSE
CONSTANTS
  Thread = {h1, h2}
  NoJob = NoJob
  HistoryHash = 2
  MaxPendingHistory = 3
  MaxLostAnswers = 1
  QueueMax = 1
  MaxPendingMessage = 2
  Refused <- MCRefused
  MaxGivenUp = 1
  QueryLimit = 2
  PageSize = 2
  InvalidArgument = InvalidArgument
  NullDetail = NullDetail
  Consumer = {"balances", "orders", "deals"}
  Limit = 1
  Plans <- MCPlans
