------------------------------- MODULE ZFold --------------------------------
(***************************************************************************)
(* The prover's z pass over the compact raw message,                       *)
(* quadeval::honest_z_from_raw_32.  Each block whose challenge is short    *)
(* adds its rows' base-b digits into 16-bit lanes packed four to a machine *)
(* word, biased so that a signed digit never borrows; the lanes are        *)
(* flushed into the field accumulator before they can carry.  A block with *)
(* a dense challenge takes the generic ring product.                       *)
(***************************************************************************)
EXTENDS Gadget, Lanes, Sequences

CONSTANTS
  Z_LANE_WORDS,   \* words per coefficient slot, four lanes each
  Z_LANE_CHUNK,   \* the flush schedule
  BLOCKS,         \* how many blocks the message has
  BlockSet,       \* the blocks the message may hold
  Challenges,     \* the challenges a block may draw
  RqMul(_, _)     \* Rq::mul, the generic ring product

ASSUME LaneAssumption ==
  /\ Z_LANE_WORDS \in Nat \ {0}
  /\ GADGET_DIGITS = 4 * Z_LANE_WORDS
  /\ Z_LANE_CHUNK \in Nat \ {0}
  /\ BLOCKS \in Nat

(* A chunk has room for one short block, a full chunk of passes stays below *)
(* the lane unit and its bias below q (quadeval.rs, Z_LANE_CHUNK), and the  *)
(* decode's lane + q fits a word (quadeval.rs, z_lane_decode).              *)
ASSUME ScheduleAssumption ==
  /\ OMEGA <= Z_LANE_CHUNK - 1
  /\ (2 * GADGET_BASE - 1) * (Z_LANE_CHUNK - 1) < Z_LANE_1
  /\ GADGET_BASE * (Z_LANE_CHUNK - 1) <= Q
  /\ Q + Z_LANE_1 <= WordSize

ASSUME InputAssumption ==
  /\ BlockSet \subseteq Seq(Rq)
  /\ Challenges \subseteq Rq
  /\ \A a, s \in Rq : RqMul(a, s) \in Rq

Slot == 0 .. (Z_LANE_WORDS - 1)

-----------------------------------------------------------------------------
Z_LANE_BIAS == Pack(GADGET_BASE, GADGET_BASE, GADGET_BASE, GADGET_BASE)

(* z_spread: word w of the slot of a coefficient holds digits 4w .. 4w + 3. *)
Spread(x, w) == Pack(DigitAt(x, 4 * w),     DigitAt(x, 4 * w + 1),
                     DigitAt(x, 4 * w + 2), DigitAt(x, 4 * w + 3))

-----------------------------------------------------------------------------
VARIABLES
  i,       \* the next block
  pc,      \* "block", "row", "done"; "panic" if an index was out of bounds
  block,   \* the expanded block being folded
  ch,      \* its challenge
  row,     \* the row being passed
  rest,    \* the unit passes of ch this row still has to take
  zp,      \* the packed accumulator
  cnt,     \* per row, the passes taken since the last flush
  left,    \* passes the packed accumulator can still take
  acc      \* the field accumulator: one ring element per column

vars == <<i, pc, block, ch, row, rest, zp, cnt, left, acc>>

ZeroLanes  == [r \in Row |-> [p \in Coeff |-> [w \in Slot |-> 0]]]
ZeroCounts == [r \in Row |-> 0]

Init ==
  /\ i = 0 /\ pc = "block"
  /\ block = <<>> /\ ch = ZeroRq /\ row = 0 /\ rest = {}
  /\ zp = ZeroLanes
  /\ cnt = ZeroCounts
  /\ left = Z_LANE_CHUNK - 1
  /\ acc = [j \in Column |-> ZeroRq]

(* z_lane_decode and z_lane_flush: lane + q - rec in machine arithmetic,    *)
(* then reduced, added to the column the lane belongs to.                   *)
DecodeUndebited(word, e, rec) == Lane(word, e % 4) % Q   \* mutant
Decode(word, e, rec) == ((Lane(word, e % 4) + Q - rec) % WordSize) % Q
Flush ==
  [j \in Column |-> [p \in Coeff |->
     LET r == RowOf(j)
         e == DigitOf(j)
     IN  (acc[j][p] + Decode(zp[r][p][e \div 4], e, GADGET_BASE * cnt[r])) % Q]]

(* A short block flushes when the chunk has no room for a full budget, and  *)
(* is charged the full budget whatever its norm.                            *)
MustFlushNever == FALSE   \* mutant: the schedule is dropped
MustFlush == left < OMEGA
LeftUncharged == IF MustFlush THEN Z_LANE_CHUNK - 1 ELSE left - OMEGA
  \* mutant: the block that flushed is not charged
LeftAfter == IF MustFlush THEN Z_LANE_CHUNK - 1 - OMEGA ELSE left - OMEGA
StartShort ==
  /\ pc = "block" /\ i < BLOCKS
  /\ \E b \in BlockSet, c \in Challenges :
       /\ IsShort(c)
       /\ block' = b /\ ch' = c
       /\ rest' = UnitPasses(c)
  /\ IF MustFlush
     THEN /\ acc' = Flush
          /\ zp' = ZeroLanes
          /\ cnt' = ZeroCounts
     ELSE UNCHANGED <<acc, zp, cnt>>
  /\ left' = LeftAfter
  /\ row' = 0 /\ pc' = "row"
  /\ UNCHANGED i

(* The rows a short block passes: a long block's excess is ignored.         *)
RowsButLast == IF Len(block) < MESSAGE_ROWS THEN Len(block)   \* mutant
                                            ELSE MESSAGE_ROWS - 1
Rows == IF Len(block) < MESSAGE_ROWS THEN Len(block) ELSE MESSAGE_ROWS

(* z_pass_lanes: BIAS + s or BIAS - s into every slot of the row.           *)
PassWordUnbiased(k, p, w, word) ==   \* mutant: a subtraction may borrow
  LET s == Spread(block[row + 1][Source(k, p)], w)
  IN  (word + (IF Subtracts(IsNegative(ch[k]), k, p) THEN -s ELSE Z_LANE_BIAS + s))
        % WordSize
PassWord(k, p, w, word) ==
  LET s == Spread(block[row + 1][Source(k, p)], w)
  IN  (word + (IF Subtracts(IsNegative(ch[k]), k, p) THEN Z_LANE_BIAS - s
                                                     ELSE Z_LANE_BIAS + s))
        % WordSize

Pass ==
  /\ pc = "row" /\ row < Rows
  /\ \E x \in rest :
       /\ IsNext(x, rest)
       /\ zp' = [zp EXCEPT ![row] =
                   [p \in Coeff |-> [w \in Slot |->
                      PassWord(x[1], p, w, zp[row][p][w])]]]
       /\ rest' = rest \ {x}
  /\ UNCHANGED <<i, pc, block, ch, row, cnt, left, acc>>

(* The row's counter takes the challenge's passes once the row has them.    *)
EndRow ==
  /\ pc = "row" /\ row < Rows /\ rest = {}
  /\ cnt' = [cnt EXCEPT ![row] = @ + Cardinality(UnitPasses(ch))]
  /\ row' = row + 1
  /\ rest' = UnitPasses(ch)
  /\ UNCHANGED <<i, pc, block, ch, zp, left, acc>>

EndShort ==
  /\ pc = "row" /\ row >= Rows
  /\ i' = i + 1 /\ pc' = "block"
  /\ UNCHANGED <<block, ch, row, rest, zp, cnt, left, acc>>

(* The dense fallback reads scaled.get(j) for every column: a block with    *)
(* missing rows has none to read.                                           *)
Dense ==
  /\ pc = "block" /\ i < BLOCKS
  /\ \E b \in BlockSet, c \in Challenges :
       /\ ~IsShort(c)
       /\ block' = b /\ ch' = c
       /\ IF Len(b) < MESSAGE_ROWS
          THEN /\ pc' = "panic"
               /\ UNCHANGED <<i, acc>>
          ELSE /\ acc' = [j \in Column |-> [p \in Coeff |->
                            (acc[j][p] + RqMul(c, DigitPoly(b, j))[p]) % Q]]
               /\ i' = i + 1
               /\ UNCHANGED pc
  /\ UNCHANGED <<row, rest, zp, cnt, left>>

(* The final merge is the last flush.                                       *)
Finish ==
  /\ pc = "block" /\ i = BLOCKS
  /\ acc' = Flush
  /\ pc' = "done"
  /\ UNCHANGED <<i, block, ch, row, rest, zp, cnt, left>>

Next == StartShort \/ Pass \/ EndRow \/ EndShort \/ Dense \/ Finish

Spec == Init /\ [][Next]_vars
=============================================================================
