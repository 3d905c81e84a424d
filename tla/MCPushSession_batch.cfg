SPECIFICATION SessionSpec
CONSTANTS
  t1 = t1
  i1 = i1
  l1 = l1
  l2 = l2
  a1 = a1
  a2 = a2
  m1 = m1
  m2 = m2
  m3 = m3
  m4 = m4
  m5 = m5
  r1 = r1
  r2 = r2
  NoText = NoText
  NoLocation = NoLocation
  Null = Null
  ItemId <- MCItemId
  LocationId <- MCLocationId
  AdjustmentId <- MCAdjustmentId
  MutationId <- MCMutationId
  EntityId <- MCEntityId
  FieldName <- MCFieldName
  Text <- MCText
  Value <- MCValue
  Queues <- MCQueues
  Request = {r1, r2}
  RestLocation = {l1}
  QuantityLimit = 2
  ShortCodeAttempts = 1
  MaxSeq = 7
  MaxCrashes = 1
INVARIANT QuantityIsSum
PROPERTIES OutboxKept BatchSettles
CHECK_DEADLOCK FALSE
