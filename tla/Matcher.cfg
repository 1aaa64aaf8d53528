SPECIFICATION Spec
CONSTANTS
  KeyBits = 2
  SlotRow = 4
  BucketCounts = {1, 2}
  RecordBytes = 5
  BytesPerSlot = 2
  Byte = 2
  Plain = 5
  MixOf <- MixSpread
  Key = {0, 1, 3}
  Shard = {s1, s2}
  Payload <- FourRecords
  Op = {"eq", "ne"}
  MaxOperands = 2
SYMMETRY Symmetry
CHECK_DEADLOCK FALSE
INVARIANTS
  CountExact
  CleanRowsMatch
  PointQueryComplete
