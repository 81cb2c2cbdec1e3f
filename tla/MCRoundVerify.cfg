SPECIFICATION Spec
CONSTANTS
  Elem <- MCElem
  Zero = 0
  One = 1
  Add <- MCAdd
  M_ZERO = 2
  Poly <- MCPoly
  Value <- MCValue
  Stmt <- MCStmt
  Commitment <- MCCommitment
  Witness <- MCWitness
  InitialTarget <- MCInitialTarget
  FinalValue <- MCFinalValue
  BoundHolds <- MCBoundHolds
  Short <- MCShort
  Commit <- MCCommit
  TableEval <- MCTableEval
  CubeSum <- MCSum
INVARIANTS TypeOK Soundness Completeness FirstRoundOnly
CHECK_DEADLOCK FALSE
