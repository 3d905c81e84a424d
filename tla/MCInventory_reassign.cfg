SPECIFICATION MCSpec
CONSTANTS
    i1 = i1  l0 = l0  l1 = l1  l2 = l2  l3 = l3  a1 = a1
    m1 = m1  m2 = m2  m3 = m3  t1 = t1
    ItemId = {i1}
    LocationId = {l0, l1, l2, l3}
    AdjustmentId = {a1}
    MutationId = {m1, m2, m3}
    EntityId <- MCEntityId
    FieldName <- MCFieldName
    Value <- MCValue
    Null = Null
    NoText = NoText
    Text = {NoText, t1}
    NoLocation = NoLocation
    QuantityLimit = 1
    ShortCodeAttempts = 2
    MaxSeq = 5
SYMMETRY Symmetry
INVARIANT NoLostUpdateAtAll
CHECK_DEADLOCK FALSE
