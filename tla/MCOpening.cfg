SPECIFICATION OSpec
CONSTANTS
  RING_DEGREE = 2
  Q = 31
  OMEGA = 2
  GADGET_BASE = 2
  GADGET_DIGITS = 5
  MESSAGE_ROWS = 1
  HALF_BASE = 1
  BALANCED_SHIFT = 0
  KeyA <- MCKeyA
  KeyB <- MCKeyB
  Worker = {main, w2, w3}
  Main = main
  Calls <- MCCalls
  KAPPA = 2
  BETA_SQ = 12
  GAMMA = 2
  Candidates <- MCCandidates
INVARIANTS HonestAccepted Binding
PROPERTIES CommitsAtomically Finishes
CHECK_DEADLOCK FALSE
