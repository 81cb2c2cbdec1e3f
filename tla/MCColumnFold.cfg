SPECIFICATION Spec
CONSTANTS
  RING_DEGREE = 2
  Q = 5
  OMEGA = 3
  GADGET_BASE = 2
  GADGET_DIGITS = 3
  MESSAGE_ROWS = 2
  SHORT_CHUNK = 2
  WORD = 15
  BLOCKS = 2
  BlockSet <- MCBlocks
  Challenges <- MCChallenges
  RqMul <- NegMul
INVARIANTS TypeOK BufferBounded
PROPERTIES ExactPasses ImplementsHonestZ
CHECK_DEADLOCK FALSE
