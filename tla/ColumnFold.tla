----------------------------- MODULE ColumnFold -----------------------------
(***************************************************************************)
(* The streamed z fold, quadeval::honest_z_from_raw: one block at a time   *)
(* is decomposed and folded column by column into the accumulator.  A      *)
(* short challenge goes through ring::mul_short_add_into, whose buffer     *)
(* stays unreduced for up to SHORT_CHUNK passes; a dense one through the   *)
(* generic product.                                                        *)
(***************************************************************************)
EXTENDS Gadget, Sequences

CONSTANTS
  SHORT_CHUNK,    \* passes between two reductions of the buffer
  WORD,           \* machine words are 0 .. WORD - 1
  BLOCKS,         \* how many blocks the message has
  BlockSet,       \* the blocks the message may hold
  Challenges,     \* the challenges a block may draw
  RqMul(_, _)     \* Rq::mul, the generic ring product

(* The bound the chunk is chosen for (params.rs, SHORT_CHUNK).              *)
ASSUME BufferAssumption ==
  /\ SHORT_CHUNK \in Nat \ {0}
  /\ BLOCKS \in Nat
  /\ WORD \in Nat
  /\ (SHORT_CHUNK + 1) * Q <= WORD

ASSUME InputAssumption ==
  /\ BlockSet \subseteq Seq(Rq)
  /\ Challenges \subseteq Rq
  /\ \A a, s \in Rq : RqMul(a, s) \in Rq

WidthButLast == MESSAGE_ROWS * GADGET_DIGITS - 1   \* mutant
Width == MESSAGE_ROWS * GADGET_DIGITS

VARIABLES
  i,       \* the next block
  pc,      \* "block", "column", "pass", "done"; "panic": index out of bounds
  block,   \* the raw block being folded
  ch,      \* its challenge
  col,     \* the column being folded
  rest,    \* the unit passes of ch the column still has to take
  buf,     \* the unreduced copy of the column's accumulator
  left,    \* passes until the buffer is reduced
  acc      \* the accumulator: one ring element per column

vars == <<i, pc, block, ch, col, rest, buf, left, acc>>

Init ==
  /\ i = 0 /\ pc = "block"
  /\ block = <<>> /\ ch = ZeroRq /\ col = 0
  /\ rest = {} /\ buf = ZeroRq /\ left = SHORT_CHUNK
  /\ acc = [j \in Column |-> ZeroRq]

StartShort ==
  /\ pc = "block" /\ i < BLOCKS
  /\ \E b \in BlockSet, c \in Challenges :
       /\ IsShort(c)
       /\ block' = b /\ ch' = c
  /\ col' = 0 /\ pc' = "column"
  /\ UNCHANGED <<i, rest, buf, left, acc>>

(* mul_short_add_into copies the column's accumulator and starts a chunk;   *)
(* a block with missing rows has no such column to read.                    *)
Load ==
  /\ pc = "column" /\ col < Width
  /\ IF RowOf(col) < Len(block)
     THEN /\ buf' = acc[col] /\ left' = SHORT_CHUNK
          /\ rest' = UnitPasses(ch) /\ pc' = "pass"
     ELSE /\ pc' = "panic"
          /\ UNCHANGED <<rest, buf, left>>
  /\ UNCHANGED <<i, block, ch, col, acc>>

(* short_pass_off: a negative contribution is added as q - s, so the buffer *)
(* never borrows.                                                           *)
PassOffUnflipped(k) ==   \* mutant: what wraps keeps its sign
  LET s == DigitPoly(block, col)
  IN  [p \in Coeff |->
         (buf[p] + (IF IsNegative(ch[k])
                    THEN Q - s[Source(k, p)] ELSE s[Source(k, p)])) % WORD]
PassOff(k) ==
  LET s == DigitPoly(block, col)
  IN  [p \in Coeff |->
         (buf[p] + (IF Subtracts(IsNegative(ch[k]), k, p)
                    THEN Q - s[Source(k, p)] ELSE s[Source(k, p)])) % WORD]

Unreduced(b) == b   \* mutant
Reduced(b) == [p \in Coeff |-> b[p] % Q]

Pass ==
  /\ pc = "pass"
  /\ \E x \in rest :
       /\ IsNext(x, rest)
       /\ rest' = rest \ {x}
       /\ buf' = IF left > 1 THEN PassOff(x[1]) ELSE Reduced(PassOff(x[1]))
  /\ left' = IF left > 1 THEN left - 1 ELSE SHORT_CHUNK
  /\ UNCHANGED <<i, pc, block, ch, col, acc>>

StoreUnreduced ==   \* mutant: the last reduction is dropped
  /\ pc = "pass" /\ rest = {}
  /\ acc' = [acc EXCEPT ![col] = buf]
  /\ col' = col + 1 /\ pc' = "column"
  /\ UNCHANGED <<i, block, ch, rest, buf, left>>
Store ==
  /\ pc = "pass" /\ rest = {}
  /\ acc' = [acc EXCEPT ![col] = Reduced(buf)]
  /\ col' = col + 1 /\ pc' = "column"
  /\ UNCHANGED <<i, block, ch, rest, buf, left>>

EndShort ==
  /\ pc = "column" /\ col >= Width
  /\ i' = i + 1 /\ pc' = "block"
  /\ UNCHANGED <<block, ch, col, rest, buf, left, acc>>

Dense ==
  /\ pc = "block" /\ i < BLOCKS
  /\ \E b \in BlockSet, c \in Challenges :
       /\ ~IsShort(c)
       /\ block' = b /\ ch' = c
       /\ IF Len(b) < MESSAGE_ROWS
          THEN /\ pc' = "panic"
               /\ UNCHANGED <<i, acc>>
          ELSE /\ acc' = [j \in Column |-> [p \in Coeff |->
                            (acc[j][p] + RqMul(c, DigitPoly(b, j))[p]) % Q]]
               /\ i' = i + 1
               /\ UNCHANGED pc
  /\ UNCHANGED <<col, rest, buf, left>>

Finish ==
  /\ pc = "block" /\ i = BLOCKS
  /\ pc' = "done"
  /\ UNCHANGED <<i, block, ch, col, rest, buf, left, acc>>

Next == StartShort \/ Load \/ Pass \/ Store \/ EndShort \/ Dense \/ Finish

Spec == Init /\ [][Next]_vars

-----------------------------------------------------------------------------
(* The field value column j stands for: the buffer's while it is passed.    *)
Value ==
  [j \in Column |-> [p \in Coeff |->
     IF pc = "pass" /\ j = col THEN buf[p] % Q ELSE acc[j][p]]]

(* The unit passes of the current block already in column j: a panic in a   *)
(* short block leaves the columns before it passed.                         *)
MidBlock == pc \in {"column", "pass"} \/ (pc = "panic" /\ IsShort(ch))
Taken(j) == IF ~MidBlock \/ j > col \/ (j = col /\ pc # "pass") THEN {}
            ELSE IF j < col THEN UnitPasses(ch)
            ELSE UnitPasses(ch) \ rest

(* What those passes have added to coefficient p of column j, and column j  *)
(* with it taken back out.                                                  *)
TakenSum(j, p) ==
  SumFunction([x \in Taken(j) |->
     Signed(ch, x[1], p, DigitPoly(block, j)[Source(x[1], p)])])
Completed ==
  [j \in Column |-> [p \in Coeff |-> (Value[j][p] - TakenSum(j, p)) % Q]]

HZ == INSTANCE HonestZ WITH folded <- i, z <- Completed

-----------------------------------------------------------------------------
(* Type invariant. *)
TypeOK ==
  /\ i \in 0 .. BLOCKS
  /\ pc \in {"block", "column", "pass", "done", "panic"}
  /\ block \in Seq(Rq) /\ ch \in Rq
  /\ col \in 0 .. Width
  /\ rest \in SUBSET (Coeff \X (1 .. Q))
  /\ pc \in {"column", "pass"} => i < BLOCKS
  /\ pc = "pass" => /\ col \in Column /\ RowOf(col) < Len(block)
                    /\ rest \subseteq UnitPasses(ch)
  /\ buf \in [Coeff -> Nat]
  /\ left \in 1 .. SHORT_CHUNK
  /\ acc \in [Column -> Rq]

(* A slot starts a chunk below q and grows by at most q a pass, so it stays *)
(* below (SHORT_CHUNK + 1) q and never wraps (ring.rs, mul_short_add_into:  *)
(* "unconditionally and for any description").                              *)
BufferBounded ==
  \A p \in Coeff : buf[p] <= (Q - 1) + (SHORT_CHUNK - left) * Q

(* Deferring the reduction is invisible: a pass adds the signed digit to    *)
(* its column modulo q, a dense block its product, and loading, reducing    *)
(* and storing change no column's value.                                    *)
PassTaken == pc = "pass" /\ pc' = "pass"
DenseTaken == pc = "block" /\ pc' = "block"
ExactStep ==
  /\ PassTaken =>
       \E x \in rest \ rest' : \A j \in Column, p \in Coeff :
         Value'[j][p] =
           IF j = col
           THEN (Value[j][p] + Signed(ch, x[1], p,
                                 DigitPoly(block, j)[Source(x[1], p)])) % Q
           ELSE Value[j][p]
  /\ DenseTaken => \A j \in Column, p \in Coeff :
       Value'[j][p] = (Value[j][p] + RqMul(ch', DigitPoly(block', j))[p]) % Q
  /\ ~PassTaken /\ ~DenseTaken => Value' = Value
ExactPasses == [][ExactStep]_vars

(* At every block boundary the accumulator is the reference's.              *)
ImplementsHonestZ == HZ!Spec
=============================================================================
