SPECIFICATION FairSpec
CONSTANTS
  Sizes = {1, 4}
  MaxChunk = 4
  MaxSleep = 1
  MaxPauses = 2
INVARIANTS
  TypeOK
  OneOperation
  ChunksStartInStep
PROPERTIES
  KeepsProtocol
  ComesToRest
CHECK_DEADLOCK FALSE
