SPECIFICATION Spec
CONSTANTS
  Node = {1, 2, 3}
  Virtual = {0, 1}
  ByteBits = 2
  IntBytes = 2
  Wide = 64
  Piece <- PieceDef
  Numeral <- NumeralDef
  U32Max = 134217727
  I64Max = 268435455
  U64Max = 536870911
  Input <- Inputs
  RingSize = 3
  MaxRows = 2
CHECK_DEADLOCK FALSE
INVARIANTS
  DecodesToWritten
  SearchesWritten
  RowOnOneShard
PROPERTIES
  MovesOnlyChanged
  PrintedLoads
