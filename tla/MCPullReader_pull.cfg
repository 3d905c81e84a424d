SPECIFICATION MCSpec
CONSTANTS
  a1 = a1
  a2 = a2
  a3 = a3
  a4 = a4
  b1 = b1
  Entity <- MCEntity
  TableOf <- MCTableOf
  NumTables = 2
  Limit = 2
  MaxSeq = 3
  MaxRacedSeq = 2
INVARIANTS NoSkipUnlessRaced HasMoreHonest
PROPERTIES Feed Converges WatermarkCatchesUp
