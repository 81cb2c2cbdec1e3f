SPECIFICATION Spec
CONSTANTS
  RING_DEGREE = 4
  Q = 251
  OMEGA = 2
  GADGET_BASE = 4
  GADGET_DIGITS = 4
  MESSAGE_ROWS = 2
  HALF_BASE = 2
  BALANCED_SHIFT = 170
  Z_DIGITS = 3
  Z_BALANCED_SHIFT = 42
  BLOCKS = 2
  KeyA <- MCKeyA
  KeyB <- MCKeyB
  KeyD <- MCKeyD
  ML_VARS_LOW = 1
  ML_VARS_HIGH = 1
  CHAIN_GAMMA = 3
  SB_HI = 1
  Polys <- MCPolys
  Points <- MCPoints
  Challenges <- MCChallenges
  Lies = {0, 1}
  Bumps <- MCBumps
INVARIANTS ClaimExact HonestInRelation AdapterExact QuotientExact
CHECK_DEADLOCK FALSE
