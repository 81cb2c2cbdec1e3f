SPECIFICATION LaneSpec
CONSTANTS
  RING_DEGREE = 1
  Q = 5
  OMEGA = 1
  GADGET_BASE = 2
  GADGET_DIGITS = 3
  MESSAGE_ROWS = 1
  LANE_WORD = 256
  FLUSH = 2
  SHIFT_T <- MCShiftT
  Pairs <- MCPairs
  MAX_PAIRS = 4
PROPERTIES ExactPairs
CHECK_DEADLOCK FALSE
