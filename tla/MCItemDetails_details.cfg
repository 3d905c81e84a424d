\* One pushed mutation among any REST transactions.
CONSTANTS
    i1 = i1  b1 = b1  b2 = b2  c1 = c1  l1 = l1  l2 = l2
    x1 = x1  x2 = x2  d1 = d1  t1 = t1  t2 = t2  blank = blank  m1 = m1  null = null
    ItemId = {i1}
    BlockId = {b1, b2}
    PartId = {c1}
    LabelId = {l1, l2}
    EdgeId = {x1, x2}
    DefId = {d1}
    Text = {t1, t2}
    Blank = blank
    Numeral = {t1, t2}
    MutationId = {m1}
    EntityId <- MCEntityId
    FieldName <- MCFieldName
    Value <- MCValue
    Null = null
    MaxSeq = 5
SYMMETRY MCSymmetry
SPECIFICATION MCSpec
INVARIANTS TypeOK NoOrphans OneEdgePerPair OneBlockPerItem  NoLostUpdate LabelNamesUnique
CHECK_DEADLOCK FALSE
