SPECIFICATION FairSpec
CONSTANTS
  RING_DEGREE = 2
  Q = 5
  OMEGA = 2
  GADGET_BASE = 2
  GADGET_DIGITS = 3
  MESSAGE_ROWS = 1
  HALF_BASE = 1
  BALANCED_SHIFT = 2
  RANGE_Q_COEFFS <- MCRange
  BUCKET_MIN_PAIRS0 = 8
  BUCKET_MIN_PAIRS1 = 4
  M <- MCM
  Yvec <- MCYvec
  DKey <- MCDKey
  CHAIN_GAMMA = 1
  M_ZERO = 4
  Provers <- MCProvers
  Statements <- MCStatements
  Draws = {0, 3}
  Tampers = {"none", "mend", "bend", "spoil"}
  Lies = {0, 1}
  GAMMA = 8
INVARIANTS TypeOK TablesExact MessageExact FinalExact SolutionClaims SolutionAccepted Soundness
PROPERTIES Decides
CHECK_DEADLOCK FALSE
