SPECIFICATION Spec
CONSTANTS
  RING_DEGREE = 64
  Q = 13
  OMEGA = 2
  GADGET_BASE = 4
  GADGET_DIGITS = 2
  MESSAGE_ROWS = 1
  NTT_LOG = 6
  Aux <- MCAux
  Gold <- MCGold
  Inv1 = 429
  Inv12 = 9
  GInv = 42
  DOT_CHUNK = 2
  DOT_CHUNK_D = 2
  LIMB2_CHUNK = 4
  LIFT_GOLD_MAX = 4
  LIMB_BASE = 4
  CHAIN_GAMMA = 3
  HALF_BASE = 2
  BALANCED_SHIFT = 10
  Inputs <- MCInputs
INVARIANTS LaneExact DotExact
CHECK_DEADLOCK FALSE
