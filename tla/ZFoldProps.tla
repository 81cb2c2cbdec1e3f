----------------------------- MODULE ZFoldProps -----------------------------
(***************************************************************************)
(* What the packed z pass must keep true, stated over the value its lanes, *)
(* counters and field accumulator stand for together.                      *)
(***************************************************************************)
EXTENDS ZFold

(* The passes row r's lanes have absorbed since the last flush.  While the  *)
(* row is being passed, its counter still lags behind by the passes made.   *)
Seen(r) ==
  IF pc = "row" /\ row = r /\ row < Rows
  THEN cnt[r] + Cardinality(UnitPasses(ch)) - Cardinality(rest)
  ELSE cnt[r]

LaneOf(r, p, e) == Lane(zp[r][p][e \div 4], e % 4)

(* The field value column j holds, wherever its parts are kept.             *)
Settled ==
  [j \in Column |-> [p \in Coeff |->
     IF pc = "done" THEN acc[j][p]
     ELSE (acc[j][p] + LaneOf(RowOf(j), p, DigitOf(j))
                     - GADGET_BASE * Seen(RowOf(j))) % Q]]

(* The unit passes of the current block already in row r.                   *)
Taken(r) == IF pc # "row" \/ r > row \/ r >= Rows THEN {}
            ELSE IF r < row THEN UnitPasses(ch)
            ELSE UnitPasses(ch) \ rest

(* What those passes have added to coefficient p of column j, and column j  *)
(* with it taken back out.                                                  *)
TakenSum(j, p) ==
  SumFunction([x \in Taken(RowOf(j)) |->
     Signed(ch, x[1], p, DigitPoly(block, j)[Source(x[1], p)])])
Completed ==
  [j \in Column |-> [p \in Coeff |-> (Settled[j][p] - TakenSum(j, p)) % Q]]

HZ == INSTANCE HonestZ WITH folded <- i, z <- Completed

-----------------------------------------------------------------------------
(* Type invariant. *)
TypeOK ==
  /\ i \in 0 .. BLOCKS
  /\ pc \in {"block", "row", "done", "panic"}
  /\ block \in Seq(Rq) /\ ch \in Rq
  /\ row \in 0 .. MESSAGE_ROWS
  /\ rest \in SUBSET (Coeff \X (1 .. Q))
  /\ pc = "row" => rest \subseteq UnitPasses(ch) /\ i < BLOCKS
  /\ zp \in [Row -> [Coeff -> [Slot -> Word]]]
  /\ cnt \in [Row -> Nat]
  /\ left \in 0 .. (Z_LANE_CHUNK - 1)
  /\ acc \in [Column -> Rq]

(* The schedule charges enough: what a row has absorbed, and what the       *)
(* current block may still add to it, never exceeds the passes charged      *)
(* since the last flush (quadeval.rs, Z_LANE_CHUNK: every short block is    *)
(* charged its full OMEGA, whatever its norm).                              *)
ChargeCoversPasses ==
  /\ pc = "row" => /\ IsShort(ch)
                   /\ \A r \in Row : r >= row => cnt[r] + left + OMEGA <= Z_LANE_CHUNK - 1
  /\ \A r \in Row : Seen(r) + left <= Z_LANE_CHUNK - 1

(* No lane ever borrows from or carries into its neighbour: a lane holds    *)
(* between 1 and 2b - 1 for every pass its row has seen, and nothing else.  *)
LanesHold ==
  \A r \in Row, p \in Coeff, e \in Digit :
    /\ Seen(r) <= LaneOf(r, p, e)
    /\ LaneOf(r, p, e) <= (2 * GADGET_BASE - 1) * Seen(r)

(* Packing is invisible: a unit pass adds exactly the signed digit to every *)
(* column of its row, a dense block exactly its product, and nothing else   *)
(* -- the mid-run flush, the counter update, the merge -- changes any       *)
(* column's value.                                                          *)
PassTaken == pc = "row" /\ pc' = "row" /\ row' = row
DenseTaken == pc = "block" /\ pc' = "block"
ExactStep ==
  /\ PassTaken =>
       \E x \in rest \ rest' : \A j \in Column, p \in Coeff :
         Settled'[j][p] =
           IF RowOf(j) = row
           THEN (Settled[j][p] + Signed(ch, x[1], p,
                   DigitAt(block[row + 1][Source(x[1], p)], DigitOf(j)))) % Q
           ELSE Settled[j][p]
  /\ DenseTaken => \A j \in Column, p \in Coeff :
       Settled'[j][p] = (Settled[j][p] + RqMul(ch', DigitPoly(block', j))[p]) % Q
  /\ ~PassTaken /\ ~DenseTaken => Settled' = Settled
ExactPasses == [][ExactStep]_vars

(* At every block boundary the accumulator is the reference's: the packed   *)
(* pass implements honest_z, for short, dense, partial and long blocks.     *)
ImplementsHonestZ == HZ!Spec

(* quadeval.rs:546-547 says the fold "stays total with no hypothesis on the *)
(* challenge", partial blocks included (quadeval.rs:533-535).               *)
TotalFold == pc # "panic"
=============================================================================
