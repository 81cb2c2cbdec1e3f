------------------------------- MODULE Lanes --------------------------------
(***************************************************************************)
(* Machine words read as four unsigned lanes side by side: the packed      *)
(* accumulators of quadeval::honest_z_from_raw_32.  A carry out of a lane  *)
(* lands in its neighbour, so whether lanes stay apart is a theorem        *)
(* (ZFoldProofs), not the shape of the data.                               *)
(***************************************************************************)
EXTENDS Integers

CONSTANT Z_LANE_1   \* the unit of lane 1: a lane holds 0 .. Z_LANE_1 - 1

ASSUME LaneUnitAssumption == Z_LANE_1 \in Nat \ {0}

LaneValue == 0 .. (Z_LANE_1 - 1)

Pack(d0, d1, d2, d3) == d0 + d1 * Z_LANE_1 + d2 * (Z_LANE_1 * Z_LANE_1)
                           + d3 * (Z_LANE_1 * Z_LANE_1 * Z_LANE_1)
WordSize == Z_LANE_1 * Z_LANE_1 * Z_LANE_1 * Z_LANE_1
Word     == 0 .. (WordSize - 1)

LaneUnit(h) == CASE h = 0 -> 1
                 [] h = 1 -> Z_LANE_1
                 [] h = 2 -> Z_LANE_1 * Z_LANE_1
                 [] h = 3 -> Z_LANE_1 * Z_LANE_1 * Z_LANE_1
Lane(w, h)  == (w \div LaneUnit(h)) % Z_LANE_1
=============================================================================
