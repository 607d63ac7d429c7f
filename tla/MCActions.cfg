SPECIFICATION BufferSpec
CONSTANTS
  PlayerID = {0, 1}
INVARIANTS
  AtMostOneElementPerPlayer
CHECK_DEADLOCK FALSE
