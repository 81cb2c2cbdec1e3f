---------------------------- MODULE MCRoundVerify ----------------------------
(* The verifier over F_3 with two rounds, against every pair of round       *)
(* messages with g(0) # 2: a function F_3 -> F_3 is a polynomial of degree two.  *)
(* The range side weighs v (v - 1) by the equality kernel of tau = (2, 1),  *)
(* the linear side multiplies by a public table.                            *)
EXTENDS RoundVerifyProps

MCElem == 0 .. 2
MCAdd(x, y) == (x + y) % 3
MCPoly == { g \in [MCElem -> MCElem] : g[0] # 2 }
MCValue(g, x) == g[x]

MCStmt == { 0, 2 }              \* the linear target
MCTable == << <<1, 0, 1, 1>>, <<2, 1, 0, 1>> >>
MCWitness == { 1, 2 }
MCCommitment == { 1 }

(* The table at a point, first coordinate lowest.                           *)
At(t, p) ==
  LET lo == (1 + 2 * p[1]) * t[1] + p[1] * t[2]
      hi == (1 + 2 * p[1]) * t[3] + p[1] * t[4]
  IN  ((1 + 2 * p[2]) * lo + p[2] * hi) % 3
Kernel(p) == At(<<0, 0, 2, 2>>, p)     \* (1 - 2)(1 - 1), 2 (1 - 1), (1 - 2) 1, 2
Public(p) == At(<<1, 2, 0, 2>>, p)

MCInitialTarget(s, side) == IF side = "zero" THEN 0 ELSE s
MCFinalValue(s, side, p, y) ==
  IF side = "zero" THEN (Kernel(p) * y * (y + 2)) % 3 ELSE (y * Public(p)) % 3
MCTableEval(w, p) == At(MCTable[w], p)
MCBoundHolds(s) == TRUE
MCShort(w) == TRUE
MCCommit(w) == IF w = 1 THEN 1 ELSE 2

MCSum(s, w, side, p) ==
  LET Full(x) == MCFinalValue(s, side, x, MCTableEval(w, x))
      Half(x) == Full(Append(x, 0)) + Full(Append(x, 1))
  IN  CASE Len(p) = 2 -> Full(p)
        [] Len(p) = 1 -> Half(p) % 3
        [] OTHER      -> (Half(<<0>>) + Half(<<1>>)) % 3
=============================================================================
