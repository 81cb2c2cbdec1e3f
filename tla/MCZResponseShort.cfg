SPECIFICATION ZRSpec
CONSTANTS
  RING_DEGREE = 2
  Q = 61
  OMEGA = 2
  GADGET_BASE = 4
  GADGET_DIGITS = 3
  MESSAGE_ROWS = 1
  HALF_BASE = 2
  BALANCED_SHIFT = 42
  Z_DIGITS = 3
  Z_BALANCED_SHIFT = 42
  Z_BOUND = 8
  BLOCKS = 2
  BlockSet <- MCBlocks
  Challenges <- MCChallenges
INVARIANT DeterministicallyShort
CHECK_DEADLOCK FALSE
