SPECIFICATION Spec
CONSTANTS
  RING_DEGREE = 4
  Q = 257
  OMEGA = 2
  GADGET_BASE = 2
  GADGET_DIGITS = 9
  MESSAGE_ROWS = 1
  NTT_LOG = 2
  Aux <- MCAux
  Gold <- MCGold
  Inv1 = 7
  Inv12 = 1
  GInv = 40
  DOT_CHUNK = 2
  DOT_CHUNK_D = 2
  LIMB2_CHUNK = 1
  LIFT_GOLD_MAX = 1
  LIMB_BASE = 17
  CHAIN_GAMMA = 1
  HALF_BASE = 1
  BALANCED_SHIFT = 254
  Inputs <- MCInputs
INVARIANTS TypeOK LaneExact DotExact
CHECK_DEADLOCK FALSE
