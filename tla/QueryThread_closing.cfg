CONSTANTS
  MaxAsked = 2
  MaxParts = 2
  Sizes = {2}
  Chunk = 2
SPECIFICATION QuerySpec
INVARIANTS ShutsDown
CHECK_DEADLOCK FALSE
