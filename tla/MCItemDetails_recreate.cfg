\* A block is deleted and created again under a push.
CONSTANTS
    i1 = i1  b1 = b1  b2 = b2  c1 = c1  l1 = l1  l2 = l2
    x1 = x1  x2 = x2  d1 = d1  t1 = t1  t2 = t2  blank = blank  m1 = m1  null = null
    ItemId = {i1}
    BlockId = {b1, b2}
    PartId = {}
    LabelId = {}
    EdgeId = {}
    DefId = {}
    Text = {t1, t2}
    Blank = blank
    Numeral = {t1, t2}
    MutationId = {m1}
    EntityId <- MCEntityId
    FieldName <- MCFieldName
    Value <- MCValue
    Null = null
    MaxSeq = 5
SYMMETRY MCSymmetry
SPECIFICATION MCSpec
INVARIANTS NoLostBlockUpdate
CHECK_DEADLOCK FALSE
