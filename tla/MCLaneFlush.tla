---------------------------- MODULE MCLaneFlush -----------------------------
(* The lanes at q = 5, b = 2: P_b(v) = v^3 - v, sixteen lanes counting       *)
(* modulo 256.  Two pairs of the largest products fit a lane, three do not,  *)
(* so tables of up to four pairs pass the reduction twice; a pair of zeros   *)
(* may stand anywhere, and must not advance the schedule.                    *)
EXTENDS LaneFlush

E(a, b, c, d) == [r \in Component |-> <<a, b, c, d>>[r + 1]]

(* Rows k = 1 and k = 3 of the literal table: p_k C(k, m).                   *)
MCShiftT == [k \in 0 .. 7 |-> <<4, 4, 0, 0, 1, 3, 3, 1>>[k + 1]]

(* Products of up to 105 of 112, in coefficients 0, 1 and 2.                 *)
MCPairs ==
  { [lo |-> E(0, 0, 0, 0), hi |-> E(0, 0, 0, 0), eq |-> E(4, 1, 2, 3)],
    [lo |-> E(4, 1, 4, 0), hi |-> E(1, 0, 4, 3), eq |-> E(1, 4, 2, 4)],
    [lo |-> E(0, 1, 3, 3), hi |-> E(2, 2, 0, 3), eq |-> E(4, 4, 4, 4)],
    [lo |-> E(3, 3, 3, 1), hi |-> E(0, 2, 2, 4), eq |-> E(2, 0, 2, 2)],
    [lo |-> E(0, 0, 0, 0), hi |-> E(1, 0, 0, 0), eq |-> E(0, 3, 0, 1)] }
=============================================================================
