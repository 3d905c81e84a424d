\* Two requests on one import among any REST transactions.
CONSTANTS
    i1 = i1  i2 = i2  b1 = b1  c1 = c1  c2 = c2  l1 = l1  l2 = l2
    x1 = x1  x2 = x2  d1 = d1  d2 = d2  t1 = t1  t2 = t2  blank = blank
    s1 = s1  p1 = p1  p2 = p2  null = null  none = none
    ItemId = {i1, i2}
    BlockId = {b1}
    PartId = {c1, c2}
    LabelId = {l1, l2}
    EdgeId = {x1, x2}
    DefId = {d1, d2}
    Text = {t1, t2, blank}
    Blank = blank
    Numeral = {t1}
    MutationId = {}
    ImportId = {s1}
    Proc = {p1, p2}
    None = none
    File <- MCFile
    Spelling <- MCSpelling
    EntityId <- MCEntityId
    FieldName <- MCFieldName
    Value <- MCValue
    Null = null
    MaxSeq = 5
    MaxImportSeq = 4
SYMMETRY MCSymmetry
SPECIFICATION MCSpec
INVARIANTS NoOrphans LabelNamesUnique ImportedOnce 
CHECK_DEADLOCK FALSE
