SPECIFICATION Spec
CONSTANTS
  RING_DEGREE = 2
  Q = 17
  OMEGA = 2
  GADGET_BASE = 2
  GADGET_DIGITS = 8
  MESSAGE_ROWS = 2
  Z_LANE_WORDS = 2
  Z_LANE_1 = 13
  Z_LANE_CHUNK = 5
  BLOCKS = 3
  BlockSet <- MCBlocks
  Challenges <- MCChallenges
  RqMul <- NegMul
INVARIANTS TypeOK ChargeCoversPasses LanesHold
PROPERTIES ExactPasses ImplementsHonestZ
CHECK_DEADLOCK FALSE
