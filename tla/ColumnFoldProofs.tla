-------------------------- MODULE ColumnFoldProofs --------------------------
(***************************************************************************)
(* The streamed fold, for every ring, base, chunk and message: the state   *)
(* is well typed, the unreduced buffer never outgrows its word, and every  *)
(* step changes the columns by exactly what the reference adds.            *)
(***************************************************************************)
EXTENDS ColumnFold, GadgetProofs

-----------------------------------------------------------------------------
(* Columns. *)

(* The columns are numbered below the width, and a column's row is in a     *)
(* block exactly as long as the fold reads it.                              *)
LEMMA WidthColumn ==
  /\ Width \in Nat
  /\ \A j \in Nat : j < Width <=> j \in Column
  /\ Column \subseteq Nat
<1>1. GADGET_DIGITS \in Nat /\ MESSAGE_ROWS \in Nat
  BY GadgetAssumption
<1>2. MESSAGE_ROWS * GADGET_DIGITS \in Nat
  BY <1>1
<1>. QED BY <1>2 DEF Width, Column

(* What one pass adds to slot p: the digit, or q less it.                   *)
Offset(k, p) ==
  LET s == DigitPoly(block, col)[Source(k, p)]
  IN  IF Subtracts(IsNegative(ch[k]), k, p) THEN Q - s ELSE s

(* A pass adds between 0 and q to a slot.                                   *)
LEMMA OffsetRange ==
  ASSUME TypeOK, pc = "pass", NEW k \in Coeff, NEW p \in Coeff
  PROVE  /\ Offset(k, p) \in 0 .. Q
         /\ DigitPoly(block, col)[Source(k, p)] \in 0 .. (GADGET_BASE - 1)
         /\ PassOff(k)[p] = (buf[p] + Offset(k, p)) % WORD
<1>1. col \in Column /\ RowOf(col) < Len(block) /\ block \in Seq(Rq)
  BY DEF TypeOK
<1>2. DigitPoly(block, col)[Source(k, p)] \in 0 .. (GADGET_BASE - 1)
  BY <1>1, SourceRange, DigitPolyType
<1>3. Offset(k, p) \in 0 .. Q
  BY <1>2, GadgetAssumption, RingAssumption DEF Offset
<1>4. PassOff(k)[p] = (buf[p] + Offset(k, p)) % WORD
  BY DEF PassOff, Offset
<1>. QED BY <1>2, <1>3, <1>4

(* Sizes the chunk is made of.                                              *)
LEMMA ChunkTypes ==
  /\ SHORT_CHUNK \in Nat \ {0} /\ Q \in Nat \ {0} /\ WORD \in Nat \ {0}
  /\ BLOCKS \in Nat
<1>1. SHORT_CHUNK \in Nat \ {0} /\ Q \in Nat \ {0} /\ WORD \in Nat /\ BLOCKS \in Nat
  BY BufferAssumption, RingAssumption
<1>2. (SHORT_CHUNK + 1) * Q >= 1 * Q
  BY <1>1
<1>3. (SHORT_CHUNK + 1) * Q \in Nat
  BY <1>1
<1>4. (SHORT_CHUNK + 1) * Q <= WORD
  BY BufferAssumption
<1>. QED BY <1>1, <1>2, <1>3, <1>4

-----------------------------------------------------------------------------
(* THE TYPE INVARIANT *)

(* A pass and a reduction leave the buffer a vector of words.               *)
LEMMA BufferType ==
  ASSUME TypeOK
  PROVE  /\ Reduced(buf) \in Rq
         /\ pc = "pass" => \A k \in Coeff : /\ PassOff(k) \in [Coeff -> Nat]
                                            /\ Reduced(PassOff(k)) \in [Coeff -> Nat]
<1>1. ASSUME NEW b \in [Coeff -> Nat]
      PROVE  Reduced(b) \in Rq /\ Reduced(b) \in [Coeff -> Nat]
  BY RingAssumption DEF Reduced, Rq, Fp
<1>2. ASSUME pc = "pass", NEW k \in Coeff
      PROVE  PassOff(k) \in [Coeff -> Nat]
  <2>1. \A p \in Coeff : (buf[p] + Offset(k, p)) % WORD \in Nat
    <3>. SUFFICES ASSUME NEW p \in Coeff PROVE (buf[p] + Offset(k, p)) % WORD \in Nat
      OBVIOUS
    <3>1. Offset(k, p) \in 0 .. Q /\ buf[p] \in Nat
      BY <1>2, OffsetRange DEF TypeOK
    <3>. QED BY <3>1, ChunkTypes
  <2>2. \A p \in Coeff : PassOff(k)[p] = (buf[p] + Offset(k, p)) % WORD
    BY <1>2, OffsetRange
  <2>. QED BY <2>1, <2>2 DEF PassOff
<1>3. buf \in [Coeff -> Nat]
  BY DEF TypeOK
<1>. QED BY <1>1, <1>2, <1>3

(* A dense block leaves the accumulator a vector of elements.               *)
LEMMA DenseType ==
  ASSUME TypeOK, NEW c \in Rq, NEW b \in Seq(Rq), Len(b) >= MESSAGE_ROWS
  PROVE  [j \in Column |-> [p \in Coeff |->
            (acc[j][p] + RqMul(c, DigitPoly(b, j))[p]) % Q]] \in [Column -> Rq]
<1>1. SUFFICES ASSUME NEW j \in Column, NEW p \in Coeff
               PROVE  (acc[j][p] + RqMul(c, DigitPoly(b, j))[p]) % Q \in Fp
  BY DEF Rq
<1>2. RowOf(j) < Len(b)
  BY ColumnIndex, GadgetAssumption DEF Row
<1>3. RqMul(c, DigitPoly(b, j)) \in Rq
  BY <1>2, DigitPolyType, InputAssumption
<1>4. acc[j] \in Rq
  BY DEF TypeOK
<1>5. \A f \in Rq : f[p] \in Int
  BY RingAssumption DEF Rq, Fp
<1>6. acc[j][p] \in Int /\ RqMul(c, DigitPoly(b, j))[p] \in Int
  BY <1>3, <1>4, <1>5
<1>7. acc[j][p] + RqMul(c, DigitPoly(b, j))[p] \in Int
  BY <1>6
<1>. QED BY <1>7, ModSmall

(* Every state of the streamed fold is well typed.                          *)
THEOREM TypeCorrect == Spec => []TypeOK
<1>0. ZeroRq \in Rq /\ ZeroRq \in [Coeff -> Nat]
  BY RingAssumption DEF ZeroRq, Rq, Fp
<1>1. Init => TypeOK
  BY <1>0, ChunkTypes, WidthColumn DEF Init, TypeOK
<1>2. TypeOK /\ [Next]_vars => TypeOK'
  <2>. SUFFICES ASSUME TypeOK, [Next]_vars PROVE TypeOK'
    OBVIOUS
  <2>1. CASE StartShort
    <3>1. block' \in Seq(Rq) /\ ch' \in Rq
      BY <2>1, InputAssumption DEF StartShort
    <3>. QED BY <2>1, <3>1, WidthColumn DEF StartShort, TypeOK
  <2>2. CASE Load
    <3>1. col \in Column
      BY <2>2, WidthColumn DEF Load, TypeOK
    <3>2. acc[col] \in [Coeff -> Nat]
      BY <3>1, RingAssumption DEF TypeOK, Rq, Fp
    <3>3. CASE RowOf(col) < Len(block)
      BY <2>2, <3>1, <3>2, <3>3, ChunkTypes DEF Load, TypeOK, UnitPasses
    <3>4. CASE ~(RowOf(col) < Len(block))
      BY <2>2, <3>4 DEF Load, TypeOK
    <3>. QED BY <3>3, <3>4
  <2>3. CASE Pass
    <3>1. pc = "pass" /\ pc' = "pass"
      BY <2>3 DEF Pass
    <3>2. PICK x \in rest :
            /\ rest' = rest \ {x}
            /\ buf' = IF left > 1 THEN PassOff(x[1]) ELSE Reduced(PassOff(x[1]))
      BY <2>3 DEF Pass
    <3>3. x[1] \in Coeff
      BY <3>1, UnitPassesFinite DEF TypeOK
    <3>4. buf' \in [Coeff -> Nat]
      BY <3>1, <3>2, <3>3, BufferType
    <3>5. left' \in 1 .. SHORT_CHUNK
      BY <2>3, ChunkTypes DEF Pass, TypeOK
    <3>. QED BY <2>3, <3>2, <3>4, <3>5 DEF Pass, TypeOK
  <2>4. CASE Store
    <3>1. acc' \in [Column -> Rq]
      BY <2>4, BufferType DEF Store, TypeOK
    <3>2. col' \in 0 .. Width
      BY <2>4, WidthColumn DEF Store, TypeOK
    <3>. QED BY <2>4, <3>1, <3>2 DEF Store, TypeOK
  <2>5. CASE EndShort
    BY <2>5, ChunkTypes DEF EndShort, TypeOK
  <2>6. CASE Dense
    <3>1. block' \in Seq(Rq) /\ ch' \in Rq
      BY <2>6, InputAssumption DEF Dense
    <3>2. i' \in 0 .. BLOCKS /\ pc' \in {"block", "panic"}
      BY <2>6, ChunkTypes DEF Dense, TypeOK
    <3>3. acc' \in [Column -> Rq]
      <4>1. PICK b \in BlockSet, c \in Challenges :
               IF Len(b) < MESSAGE_ROWS
               THEN UNCHANGED acc
               ELSE acc' = [j \in Column |-> [p \in Coeff |->
                              (acc[j][p] + RqMul(c, DigitPoly(b, j))[p]) % Q]]
        BY <2>6 DEF Dense
      <4>2. b \in Seq(Rq) /\ c \in Rq /\ Len(b) \in Nat
        BY InputAssumption
      <4>3. CASE Len(b) < MESSAGE_ROWS
        BY <4>1, <4>3 DEF TypeOK
      <4>4. CASE Len(b) >= MESSAGE_ROWS
        BY <4>1, <4>2, <4>4, DenseType, GadgetAssumption
      <4>. QED BY <4>2, <4>3, <4>4, GadgetAssumption
    <3>. QED BY <2>6, <3>1, <3>2, <3>3 DEF Dense, TypeOK
  <2>7. CASE Finish
    BY <2>7 DEF Finish, TypeOK
  <2>8. CASE UNCHANGED vars
    BY <2>8 DEF vars, TypeOK
  <2>. QED BY <2>1, <2>2, <2>3, <2>4, <2>5, <2>6, <2>7, <2>8 DEF Next
<1>. QED BY <1>1, <1>2, PTL DEF Spec

-----------------------------------------------------------------------------
(* THE BUFFER *)

(* A pass that starts within the bound does not wrap, and leaves every slot *)
(* at most q above where it was.                                            *)
LEMMA PassGrowth ==
  ASSUME TypeOK, BufferBounded, pc = "pass", NEW k \in Coeff, NEW p \in Coeff
  PROVE  /\ PassOff(k)[p] = buf[p] + Offset(k, p)
         /\ PassOff(k)[p] \in Nat
         /\ PassOff(k)[p] <= (Q - 1) + (SHORT_CHUNK - left + 1) * Q
<1>. DEFINE o == Offset(k, p)
            x == buf[p]
            n == SHORT_CHUNK - left
<1>1. /\ o \in Nat /\ o <= Q /\ x \in Nat /\ n \in Nat /\ n + 1 <= SHORT_CHUNK
      /\ PassOff(k)[p] = (x + o) % WORD
  BY OffsetRange, ChunkTypes DEF TypeOK
<1>2. x <= (Q - 1) + n * Q
  BY DEF BufferBounded
<1>3. (SHORT_CHUNK + 1) * Q <= WORD
  BY BufferAssumption
<1>. HIDE DEF o, x, n
<1>4. (n + 1) * Q = n * Q + Q /\ n * Q \in Nat
  BY <1>1, ChunkTypes
<1>5. (n + 1) * Q <= SHORT_CHUNK * Q
  BY <1>1, ChunkTypes
<1>6. (SHORT_CHUNK + 1) * Q = SHORT_CHUNK * Q + Q /\ SHORT_CHUNK * Q \in Nat
  BY ChunkTypes
<1>7. x + o <= (Q - 1) + (n + 1) * Q /\ x + o < WORD
  BY <1>1, <1>2, <1>3, <1>4, <1>5, <1>6, ChunkTypes
<1>8. (x + o) % WORD = x + o /\ x + o \in Nat
  BY <1>1, <1>7, ChunkTypes
<1>. QED BY <1>1, <1>7, <1>8 DEF n, x, o

(* The unreduced buffer stays below (SHORT_CHUNK + 1) q for every short     *)
(* element: the deferred reduction never overflows a word.                  *)
LEMMA BoundStep ==
  ASSUME TypeOK, BufferBounded, [Next]_vars, TypeOK'
  PROVE  BufferBounded'
<1>1. CASE Pass
  <2>1. PICK x \in rest :
          buf' = IF left > 1 THEN PassOff(x[1]) ELSE Reduced(PassOff(x[1]))
    BY <1>1 DEF Pass
  <2>2. /\ x[1] \in Coeff /\ pc = "pass"
        /\ left' = IF left > 1 THEN left - 1 ELSE SHORT_CHUNK
    BY <1>1, UnitPassesFinite DEF Pass, TypeOK
  <2>3. SUFFICES ASSUME NEW p \in Coeff
                 PROVE  buf'[p] <= (Q - 1) + (SHORT_CHUNK - left') * Q
    BY DEF BufferBounded
  <2>4. /\ PassOff(x[1])[p] \in Nat
        /\ PassOff(x[1])[p] <= (Q - 1) + (SHORT_CHUNK - left + 1) * Q
    BY <2>2, PassGrowth
  <2>5. CASE left > 1
    <3>1. SHORT_CHUNK - left' = SHORT_CHUNK - left + 1
      BY <2>2, <2>5, ChunkTypes DEF TypeOK
    <3>. QED BY <2>1, <2>4, <2>5, <3>1
  <2>6. CASE ~(left > 1)
    <3>1. buf'[p] = PassOff(x[1])[p] % Q
      BY <2>1, <2>6 DEF Reduced
    <3>2. PassOff(x[1])[p] % Q <= Q - 1
      BY <2>4, ModSmall, ChunkTypes DEF Fp
    <3>3. (SHORT_CHUNK - left') * Q = 0
      BY <2>2, <2>6, ChunkTypes
    <3>. QED BY <3>1, <3>2, <3>3, ChunkTypes
  <2>. QED BY <2>5, <2>6
<1>2. CASE Load
  <2>1. CASE UNCHANGED <<buf, left>>
    BY <2>1 DEF BufferBounded
  <2>2. CASE buf' = acc[col] /\ left' = SHORT_CHUNK
    <3>1. col \in Column
      BY <1>2, WidthColumn DEF Load, TypeOK
    <3>2. \A p \in Coeff : acc[col][p] <= Q - 1 /\ acc[col][p] \in Nat
      BY <3>1, ChunkTypes DEF TypeOK, Rq, Fp
    <3>3. (SHORT_CHUNK - left') * Q = 0
      BY <2>2, ChunkTypes
    <3>. QED BY <2>2, <3>2, <3>3, ChunkTypes DEF BufferBounded
  <2>. QED BY <1>2, <2>1, <2>2 DEF Load
<1>3. CASE UNCHANGED <<buf, left>>
  BY <1>3 DEF BufferBounded
<1>. QED BY <1>1, <1>2, <1>3 DEF Next, StartShort, Store, EndShort, Dense, Finish, vars

(* The deferred reduction is safe for every description and every chunk.    *)
THEOREM BufferCorrect == Spec => []BufferBounded
<1>1. Init => BufferBounded
  <2>1. (SHORT_CHUNK - SHORT_CHUNK) * Q = 0
    BY ChunkTypes
  <2>. QED BY <2>1, ChunkTypes DEF Init, BufferBounded, ZeroRq
<1>2. TypeOK /\ BufferBounded /\ [Next]_vars /\ TypeOK' => BufferBounded'
  BY BoundStep
<1>. QED BY <1>1, <1>2, TypeCorrect, PTL DEF Spec

-----------------------------------------------------------------------------
(* EXACTNESS *)

(* An offset is the signed digit modulo q.                                  *)
LEMMA OffsetExact ==
  ASSUME TypeOK, pc = "pass", NEW k \in Coeff, NEW p \in Coeff, NEW x \in Int
  PROVE  (x + Offset(k, p)) % Q
           = ((x % Q) + Signed(ch, k, p, DigitPoly(block, col)[Source(k, p)])) % Q
<1>. DEFINE v == DigitPoly(block, col)[Source(k, p)]
            s == Signed(ch, k, p, v)
<1>1. v \in Int
  BY OffsetRange, GadgetAssumption, RingAssumption
<1>2. s \in Int /\ Offset(k, p) = IF Subtracts(IsNegative(ch[k]), k, p) THEN Q + s ELSE s
  <2>1. Offset(k, p) = IF Subtracts(IsNegative(ch[k]), k, p) THEN Q - v ELSE v
    BY DEF Offset
  <2>. HIDE DEF v
  <2>. QED BY <1>1, <2>1, ChunkTypes DEF Signed
<1>. HIDE DEF v, s
<1>3. ((x % Q) + s) % Q = (x + s) % Q
  BY <1>2, ModAdd
<1>4. CASE Offset(k, p) = s
  BY <1>3, <1>4 DEF s, v
<1>5. CASE Offset(k, p) = Q + s
  <2>1. x + (Q + s) = (x + s) + Q * 1 /\ x + s \in Int
    BY <1>2, ChunkTypes
  <2>2. ((x + s) + Q * 1) % Q = (x + s) % Q
    BY <2>1, ModShift
  <2>. QED BY <1>3, <1>5, <2>1, <2>2 DEF s, v
<1>. QED BY <1>2, <1>4, <1>5

(* A pass changes its column by its signed digit, and no other.             *)
LEMMA PassExact ==
  ASSUME TypeOK, BufferBounded, Pass
  PROVE  \E x \in rest \ rest' : \A j \in Column, p \in Coeff :
           Value'[j][p] =
             IF j = col
             THEN (Value[j][p] + Signed(ch, x[1], p,
                                   DigitPoly(block, j)[Source(x[1], p)])) % Q
             ELSE Value[j][p]
<1>1. PICK x \in rest :
        /\ rest' = rest \ {x}
        /\ buf' = IF left > 1 THEN PassOff(x[1]) ELSE Reduced(PassOff(x[1]))
  BY DEF Pass
<1>2. x[1] \in Coeff /\ pc = "pass" /\ UNCHANGED <<pc, block, ch, col, acc>>
  BY UnitPassesFinite DEF Pass, TypeOK
<1>3. ASSUME NEW j \in Column, NEW p \in Coeff
      PROVE  Value'[j][p] =
               IF j = col
               THEN (Value[j][p] + Signed(ch, x[1], p,
                                     DigitPoly(block, j)[Source(x[1], p)])) % Q
               ELSE Value[j][p]
  <2>1. CASE j # col
    BY <1>2, <2>1 DEF Value
  <2>2. CASE j = col
    <3>1. /\ PassOff(x[1])[p] = buf[p] + Offset(x[1], p)
          /\ PassOff(x[1])[p] \in Nat /\ buf[p] \in Int
      BY <1>2, PassGrowth DEF TypeOK
    <3>2. buf'[p] % Q = PassOff(x[1])[p] % Q
      <4>1. (PassOff(x[1])[p] % Q) % Q = PassOff(x[1])[p] % Q
        <5>1. \A n \in Nat : (n % Q) % Q = n % Q
          BY ModSmall, ChunkTypes DEF Fp
        <5>. QED BY <3>1, <5>1
      <4>2. buf'[p] = IF left > 1 THEN PassOff(x[1])[p] ELSE PassOff(x[1])[p] % Q
        BY <1>1, <1>2, BufferType DEF Reduced
      <4>. QED BY <4>1, <4>2
    <3>3. /\ Value[j][p] = buf[p] % Q /\ Value'[j][p] = buf'[p] % Q
      BY <1>2, <2>2 DEF Value
    <3>4. (buf[p] + Offset(x[1], p)) % Q
            = ((buf[p] % Q) + Signed(ch, x[1], p,
                                DigitPoly(block, col)[Source(x[1], p)])) % Q
      BY <1>2, <3>1, OffsetExact
    <3>. QED BY <2>2, <3>1, <3>2, <3>3, <3>4
  <2>. QED BY <2>1, <2>2
<1>. QED BY <1>1, <1>3, Zenon

(* Every step changes the columns' values by exactly what it owes them.     *)
LEMMA ExactStepHolds ==
  ASSUME TypeOK, BufferBounded, [Next]_vars
  PROVE  [ExactStep]_vars
<1>1. CASE Pass
  <2>1. PassTaken /\ ~DenseTaken
    BY <1>1 DEF Pass, PassTaken, DenseTaken
  <2>. QED BY <1>1, <2>1, PassExact DEF ExactStep
<1>2. CASE Dense
  <2>1. /\ ~PassTaken /\ pc = "block"
        /\ DenseTaken <=> pc' = "block"
    BY <1>2 DEF Dense, PassTaken, DenseTaken
  <2>2. PICK b \in BlockSet, c \in Challenges :
          /\ block' = b /\ ch' = c
          /\ IF Len(b) < MESSAGE_ROWS
             THEN pc' = "panic" /\ UNCHANGED acc
             ELSE /\ acc' = [j \in Column |-> [p \in Coeff |->
                               (acc[j][p] + RqMul(c, DigitPoly(b, j))[p]) % Q]]
                  /\ UNCHANGED pc
    BY <1>2 DEF Dense
  <2>3. CASE Len(b) < MESSAGE_ROWS
    <3>1. Value' = Value /\ ~DenseTaken
      BY <2>1, <2>2, <2>3 DEF Value
    <3>. QED BY <2>1, <3>1 DEF ExactStep
  <2>4. CASE ~(Len(b) < MESSAGE_ROWS)
    <3>1. DenseTaken /\ pc' = "block"
      BY <2>1, <2>2, <2>4
    <3>2. \A j \in Column, p \in Coeff :
            Value'[j][p] = (Value[j][p] + RqMul(ch', DigitPoly(block', j))[p]) % Q
      BY <2>1, <2>2, <2>4, <3>1 DEF Value
    <3>. QED BY <2>1, <3>1, <3>2 DEF ExactStep
  <2>. QED BY <2>3, <2>4
<1>3. CASE Store
  <2>1. ~PassTaken /\ ~DenseTaken
    BY <1>3 DEF Store, PassTaken, DenseTaken
  <2>2. SUFFICES ASSUME NEW j \in Column, NEW p \in Coeff
                 PROVE  Value'[j][p] = Value[j][p]
    BY <2>1 DEF ExactStep, Value
  <2>3. acc' = [acc EXCEPT ![col] = Reduced(buf)] /\ pc = "pass" /\ pc' = "column"
    BY <1>3 DEF Store
  <2>. QED BY <2>3 DEF Value, Reduced, TypeOK
<1>4. CASE Load
  <2>1. ~PassTaken /\ ~DenseTaken
    BY <1>4 DEF Load, PassTaken, DenseTaken
  <2>2. SUFFICES ASSUME NEW j \in Column, NEW p \in Coeff
                 PROVE  Value'[j][p] = Value[j][p]
    BY <2>1 DEF ExactStep, Value
  <2>3. /\ pc = "column" /\ acc' = acc /\ col' = col /\ acc[j][p] \in Fp
        /\ pc' = "pass" => buf' = acc[col]
    BY <1>4 DEF Load, TypeOK, Rq
  <2>4. acc[j][p] % Q = acc[j][p]
    BY <2>3, ModSmall, RingAssumption DEF Fp
  <2>. QED BY <2>3, <2>4 DEF Value
<1>5. CASE StartShort \/ EndShort \/ Finish
  <2>1. ~PassTaken /\ ~DenseTaken
    BY <1>5 DEF StartShort, EndShort, Finish, PassTaken, DenseTaken
  <2>2. Value' = Value
    BY <1>5 DEF StartShort, EndShort, Finish, Value
  <2>. QED BY <2>1, <2>2 DEF ExactStep
<1>. QED BY <1>1, <1>2, <1>3, <1>4, <1>5 DEF Next

(* Deferring the reduction is invisible, for every message and challenge.   *)
THEOREM ExactCorrect == Spec => ExactPasses
<1>1. (TypeOK /\ BufferBounded /\ [Next]_vars) => [ExactStep]_vars
  BY ExactStepHolds
<1>. QED BY <1>1, TypeCorrect, BufferCorrect, PTL DEF Spec, ExactPasses

-----------------------------------------------------------------------------
(* THE REFINEMENT *)

(* A short block in progress was drawn from the inputs, and has the rows of *)
(* the columns already passed: a missing row panics before its column.      *)
BlockDrawn ==
  /\ pc \in {"column", "pass"} =>
       block \in BlockSet /\ ch \in Challenges /\ IsShort(ch)
  /\ MidBlock => \A j \in Column : j < col => RowOf(j) < Len(block)

LEMMA BlockDrawnStep ==
  ASSUME TypeOK, BlockDrawn, [Next]_vars
  PROVE  BlockDrawn'
<1>. USE WidthColumn
<1>0. \A j \in Column : j \in Nat
  OBVIOUS
<1>1. CASE StartShort
  <2>1. /\ block' \in BlockSet /\ ch' \in Challenges /\ IsShort(ch')
        /\ col' = 0
    BY <1>1 DEF StartShort
  <2>2. \A j \in Column : ~(j < col')
    BY <1>0, <2>1
  <2>. QED BY <2>1, <2>2 DEF BlockDrawn
<1>2. CASE Load
  BY <1>2 DEF Load, BlockDrawn, MidBlock
<1>3. CASE Pass
  BY <1>3 DEF Pass, BlockDrawn, MidBlock
<1>4. CASE Store
  <2>1. /\ pc = "pass" /\ pc' = "column" /\ col' = col + 1 /\ ch' = ch /\ block' = block
        /\ RowOf(col) < Len(block) /\ col \in Nat
    BY <1>4 DEF Store, TypeOK
  <2>2. \A j \in Column : j < col' => j < col \/ j = col
    BY <1>0, <2>1
  <2>. QED BY <2>1, <2>2 DEF BlockDrawn, MidBlock
<1>5. CASE EndShort
  BY <1>5 DEF EndShort, BlockDrawn, MidBlock
<1>6. CASE Dense
  BY <1>6 DEF Dense, BlockDrawn, MidBlock
<1>7. CASE Finish
  BY <1>7 DEF Finish, BlockDrawn, MidBlock
<1>8. CASE UNCHANGED vars
  BY <1>8 DEF vars, BlockDrawn, MidBlock
<1>. QED BY <1>1, <1>2, <1>3, <1>4, <1>5, <1>6, <1>7, <1>8 DEF Next

(* The value of a coefficient is canonical.                                 *)
LEMMA ValueType ==
  ASSUME TypeOK, NEW j \in Column, NEW p \in Coeff
  PROVE  Value[j][p] \in Fp /\ Value[j][p] \in Int
<1>1. acc[j][p] \in Fp /\ buf[p] \in Int
  BY DEF TypeOK, Rq
<1>2. buf[p] % Q \in Fp
  BY <1>1, ModSmall
<1>3. Value[j][p] \in Fp
  BY <1>1, <1>2 DEF Value
<1>. QED BY <1>3, RingAssumption DEF Fp

(* The passes taken are unit passes over a row the block has, and each adds *)
(* a number.                                                                *)
LEMMA TakenType ==
  ASSUME TypeOK, BlockDrawn, NEW j \in Column, NEW p \in Coeff
  PROVE  /\ Taken(j) \subseteq UnitPasses(ch)
         /\ IsFiniteSet(Taken(j))
         /\ Taken(j) # {} => RowOf(j) < Len(block)
         /\ RowOf(j) < Len(block) => \A x \in UnitPasses(ch) :
              Signed(ch, x[1], p, DigitPoly(block, j)[Source(x[1], p)]) \in Int
         /\ TakenSum(j, p) \in Int
<1>. DEFINE T == Taken(j)
            f == [x \in T |-> Signed(ch, x[1], p, DigitPoly(block, j)[Source(x[1], p)])]
<1>0. j \in Nat /\ col \in Int
  BY WidthColumn DEF TypeOK
<1>1. T \subseteq UnitPasses(ch) /\ (T # {} => MidBlock /\ (j < col \/ (j = col /\ pc = "pass")))
  <2>1. j > col \/ j < col \/ j = col
    BY <1>0
  <2>. QED BY <1>0, <2>1 DEF Taken
<1>2. IsFiniteSet(T)
  BY <1>1, UnitPassesFinite, FS_Subset DEF TypeOK
<1>3. T # {} => RowOf(j) < Len(block)
  BY <1>1 DEF TypeOK, BlockDrawn
<1>4. ASSUME RowOf(j) < Len(block), NEW x \in UnitPasses(ch)
      PROVE  Signed(ch, x[1], p, DigitPoly(block, j)[Source(x[1], p)]) \in Int
  <2>1. DigitPoly(block, j) \in Rq /\ x[1] \in Coeff
    BY <1>4, DigitPolyType, UnitPassesFinite DEF TypeOK
  <2>2. DigitPoly(block, j)[Source(x[1], p)] \in Int
    BY <2>1, SourceRange, RingAssumption DEF Rq, Fp
  <2>. QED BY <2>2 DEF Signed
<1>5. TakenSum(j, p) = SumFunctionOnSet(f, T)
  BY DEF TakenSum, SumFunction
<1>6. \A x \in T : f[x] \in Int
  BY <1>1, <1>3, <1>4
<1>7. SumFunctionOnSet(f, T) \in Int
  <2>. HIDE DEF f, T
  <2>. QED BY <1>2, <1>6, SumInt
<1>. QED BY <1>1, <1>2, <1>3, <1>4, <1>5, <1>7

(* A unit pass moves its term from what is left to what is taken.           *)
LEMMA PassCompleted ==
  ASSUME TypeOK, BufferBounded, BlockDrawn, Pass
  PROVE  Completed' = Completed
<1>. SUFFICES ASSUME NEW j \in Column, NEW p \in Coeff
              PROVE  (Value'[j][p] - TakenSum(j, p)') % Q
                       = (Value[j][p] - TakenSum(j, p)) % Q
  BY DEF Completed
<1>1. PICK x \in rest \ rest' :
        Value'[j][p] =
          IF j = col
          THEN (Value[j][p] + Signed(ch, x[1], p,
                  DigitPoly(block, j)[Source(x[1], p)])) % Q
          ELSE Value[j][p]
  BY PassExact
<1>2. /\ pc = "pass" /\ pc' = "pass" /\ col' = col /\ ch' = ch
      /\ block' = block /\ rest' = rest \ {x}
      /\ rest \subseteq UnitPasses(ch)
      /\ RowOf(col) < Len(block)
  BY <1>1 DEF Pass, TypeOK
<1>. DEFINE T == Taken(j)
            f == [y \in T |-> Signed(ch, y[1], p, DigitPoly(block, j)[Source(y[1], p)])]
            g == [y \in Taken(j)' |->
                    Signed(ch, y[1], p, DigitPoly(block, j)[Source(y[1], p)])]
            v == Signed(ch, x[1], p, DigitPoly(block, j)[Source(x[1], p)])
<1>3. j \in Int /\ col \in Int
  BY WidthColumn DEF TypeOK
<1>4. TakenSum(j, p)' = SumFunctionOnSet(g, Taken(j)') /\ TakenSum(j, p) = SumFunctionOnSet(f, T)
  BY <1>2 DEF TakenSum, SumFunction
<1>5. CASE j # col
  <2>1. Taken(j)' = T
    <3>1. j < col \/ j > col
      BY <1>3, <1>5
    <3>. QED BY <1>2, <1>3, <3>1 DEF Taken, MidBlock
  <2>2. g = f
    BY <2>1
  <2>. QED BY <1>1, <1>4, <1>5, <2>1, <2>2
<1>6. CASE j = col
  <2>1. T = UnitPasses(ch) \ rest /\ Taken(j)' = T \cup {x} /\ x \notin T
    <3>1. T = UnitPasses(ch) \ rest
      BY <1>2, <1>3, <1>6 DEF Taken, MidBlock
    <3>2. Taken(j)' = UnitPasses(ch) \ rest'
      BY <1>2, <1>3, <1>6 DEF Taken, MidBlock
    <3>. QED BY <1>1, <1>2, <3>1, <3>2
  <2>2. IsFiniteSet(T) /\ \A y \in UnitPasses(ch) :
          Signed(ch, y[1], p, DigitPoly(block, j)[Source(y[1], p)]) \in Int
    BY <1>2, <1>6, TakenType
  <2>3. (\A y \in T \cup {x} : g[y] \in Int) /\ v \in Int /\ \A y \in T : f[y] \in Int
    BY <1>1, <1>2, <2>1, <2>2
  <2>4. (\A y \in T : g[y] = f[y]) /\ g[x] = v
    BY <2>1
  <2>. DEFINE s == SumFunctionOnSet(f, T)
              a == Value[j][p]
  <2>6. SumFunctionOnSet(g, T) = s /\ s \in Int
    <3>. HIDE DEF f, g, T
    <3>. QED BY <2>2, <2>3, <2>4, SumEqual, SumInt
  <2>7. SumFunctionOnSet(g, T \cup {x}) = s + v
    <3>. HIDE DEF f, g, T, s, v
    <3>. QED BY <2>1, <2>2, <2>3, <2>4, <2>6, SumAdd
  <2>10. a \in Int
    BY ValueType
  <2>11. Value'[j][p] = (a + v) % Q
    BY <1>1, <1>6
  <2>12. TakenSum(j, p)' = s + v /\ TakenSum(j, p) = s
    BY <1>4, <2>1, <2>7
  <2>13. v \in Int
    BY <2>3
  <2>. HIDE DEF a, s, v
  <2>14. (((a + v) % Q) - (s + v)) % Q = (a - s) % Q
    BY <2>6, <2>10, <2>13, ModCancel
  <2>. QED BY <2>11, <2>12, <2>14 DEF a
<1>. QED BY <1>5, <1>6

(* With no pass taken there is nothing to take back.                        *)
LEMMA NothingTaken ==
  ASSUME TypeOK, NEW j \in Column, NEW p \in Coeff, Taken(j) = {}
  PROVE  /\ TakenSum(j, p) = 0
         /\ Completed[j][p] = Value[j][p]
<1>1. TakenSum(j, p) = 0
  BY SumEmpty DEF TakenSum, SumFunction
<1>2. Value[j][p] \in Fp /\ Value[j][p] \in Int
  BY ValueType
<1>3. (Value[j][p] - 0) % Q = Value[j][p]
  BY <1>2, ModSmall
<1>. QED BY <1>1, <1>3 DEF Completed

(* The steps the reference does not see.                                    *)
LEMMA QuietCompleted ==
  ASSUME TypeOK, TypeOK', BufferBounded, BlockDrawn, [Next]_vars,
         ~Pass, ~EndShort, ~(Dense /\ pc' = "block")
  PROVE  Completed' = Completed /\ i' = i
<1>0. [ExactStep]_vars
  BY ExactStepHolds
<1>. DEFINE Quiet == Value' = Value /\ i' = i
<1>n. \A j \in Column : j \in Int /\ j >= 0 /\ col \in Int
  BY WidthColumn DEF TypeOK
<1>a. SUFFICES Quiet /\ \A j \in Column, p \in Coeff : TakenSum(j, p)' = TakenSum(j, p)
  BY DEF Completed
<1>1. CASE StartShort \/ Finish \/ (Dense /\ pc' = "panic")
  <2>1. /\ pc = "block" /\ i' = i /\ pc' # pc /\ ~PassTaken /\ ~DenseTaken
        /\ \A j \in Column : Taken(j) = {}
    BY <1>1, <1>n DEF StartShort, Finish, Dense, PassTaken, DenseTaken, Taken, MidBlock
  <2>2. \A j \in Column : Taken(j)' = {}
    <3>1. CASE StartShort
      <4>1. col' = 0 /\ pc' = "column"
        BY <3>1 DEF StartShort
      <4>2. \A j \in Column : j > 0 \/ j = 0
        BY <1>n
      <4>. QED BY <1>n, <4>1, <4>2 DEF Taken, MidBlock
    <3>2. CASE Finish
      BY <3>2, <1>n DEF Finish, Taken, MidBlock
    <3>3. CASE Dense /\ pc' = "panic"
      BY <3>3, <1>n DEF Dense, Taken, MidBlock
    <3>. QED BY <1>1, <3>1, <3>2, <3>3
  <2>3. Value' = Value
    BY <1>0, <2>1 DEF ExactStep, vars
  <2>4. ASSUME NEW j \in Column, NEW p \in Coeff
        PROVE  TakenSum(j, p)' = 0 /\ TakenSum(j, p) = 0
    BY <2>1, <2>2, SumEmpty DEF TakenSum, SumFunction
  <2>. QED BY <2>1, <2>3, <2>4
<1>2. CASE Load
  <2>1. /\ pc = "column" /\ pc' \in {"pass", "panic"} /\ col' = col /\ ch' = ch
        /\ block' = block /\ i' = i /\ IsShort(ch)
        /\ pc' = "pass" => rest' = UnitPasses(ch)
        /\ ~PassTaken /\ ~DenseTaken
    BY <1>2 DEF Load, BlockDrawn, PassTaken, DenseTaken
  <2>2. Value' = Value
    BY <1>0, <2>1 DEF ExactStep, vars
  <2>3. ASSUME NEW j \in Column PROVE Taken(j)' = Taken(j)
    <3>1. j < col \/ j = col \/ j > col
      BY <1>n
    <3>2. MidBlock /\ MidBlock'
      BY <2>1 DEF MidBlock
    <3>. QED BY <1>n, <2>1, <3>1, <3>2 DEF Taken
  <2>. QED BY <2>1, <2>2, <2>3 DEF TakenSum
<1>3. CASE Store
  <2>1. /\ pc = "pass" /\ pc' = "column" /\ col' = col + 1 /\ ch' = ch
        /\ block' = block /\ i' = i /\ rest = {}
        /\ ~PassTaken /\ ~DenseTaken
    BY <1>3 DEF Store, PassTaken, DenseTaken
  <2>2. Value' = Value
    BY <1>0, <2>1 DEF ExactStep, vars
  <2>3. ASSUME NEW j \in Column PROVE Taken(j)' = Taken(j)
    <3>1. j < col \/ j = col \/ j = col + 1 \/ j > col + 1
      BY <1>n
    <3>2. MidBlock /\ MidBlock'
      BY <2>1 DEF MidBlock
    <3>. QED BY <1>n, <2>1, <3>1, <3>2 DEF Taken
  <2>. QED BY <2>1, <2>2, <2>3 DEF TakenSum
<1>4. CASE UNCHANGED vars
  BY <1>4 DEF vars, Value, TakenSum, Taken, MidBlock
<1>5. Dense => pc' = "block" \/ pc' = "panic"
  BY DEF Dense
<1>. QED BY <1>1, <1>2, <1>3, <1>4, <1>5 DEF Next

(* The reference's scaled block, in this module's terms.                    *)
LEMMA ScaledHere ==
  ASSUME NEW b, NEW c, NEW j
  PROVE  HZ!Scaled(b, c, j) = IF RowOf(j) < Len(b) THEN NegMul(c, DigitPoly(b, j))
                                                   ELSE [p \in Coeff |-> 0]
<1>1. \A f : HZ!SumFunction(f) = SumFunction(f)
  BY DEF HZ!SumFunction, SumFunction, HZ!SumFunctionOnSet, SumFunctionOnSet,
         HZ!FoldFunctionOnSet, FoldFunctionOnSet, HZ!MapThenFoldSet, MapThenFoldSet
<1>2. HZ!Coeff = Coeff /\ \A k, p : HZ!Source(k, p) = Source(k, p)
  BY DEF HZ!Coeff, Coeff, HZ!Source, Source
<1>3. HZ!NegMul(c, DigitPoly(b, j)) = NegMul(c, DigitPoly(b, j))
  BY <1>1, <1>2 DEF HZ!NegMul, NegMul
<1>4. HZ!RowOf(j) = RowOf(j) /\ HZ!DigitOf(j) = DigitOf(j)
  BY DEF HZ!RowOf, RowOf, HZ!DigitOf, DigitOf
<1>5. HZ!DigitPoly(b, j) = DigitPoly(b, j)
  BY <1>2, <1>4 DEF HZ!DigitPoly, DigitPoly, HZ!DigitAt, DigitAt, HZ!Quotients, Quotients
<1>. QED BY <1>2, <1>3, <1>4, <1>5 DEF HZ!Scaled

(* The end of a short block is the reference's step with that block.        *)
LEMMA EndShortCompleted ==
  ASSUME TypeOK, TypeOK', BufferBounded, BlockDrawn, EndShort
  PROVE  HZ!AddBlock
<1>1. /\ pc = "column" /\ pc' = "block" /\ col >= Width /\ i' = i + 1 /\ i < BLOCKS
      /\ block' = block /\ ch' = ch /\ ~PassTaken /\ ~DenseTaken
      /\ block \in BlockSet /\ ch \in Challenges /\ MidBlock
  BY DEF EndShort, TypeOK, BlockDrawn, PassTaken, DenseTaken, MidBlock
<1>2. Value' = Value
  BY <1>1, ExactStepHolds DEF ExactStep, vars, Next
<1>3. ASSUME NEW j \in Column, NEW p \in Coeff
      PROVE  Completed'[j][p] = (Completed[j][p] + HZ!Scaled(block, ch, j)[p]) % Q
  <2>. DEFINE a == Value[j][p]
              s == TakenSum(j, p)
              t == HZ!Scaled(block, ch, j)[p]
  <2>0. j \in Int /\ j < col /\ col \in Int
    BY <1>1, WidthColumn DEF TypeOK
  <2>1. Completed'[j][p] = a % Q
    <3>1. Taken(j)' = {}
      BY <1>1 DEF Taken, MidBlock
    <3>2. TakenSum(j, p)' = 0
      BY <3>1, SumEmpty DEF TakenSum, SumFunction
    <3>3. Completed'[j][p] = (Value'[j][p] - TakenSum(j, p)') % Q
      BY DEF Completed
    <3>4. a \in Int
      BY ValueType
    <3>. QED BY <1>2, <3>2, <3>3, <3>4
  <2>2. t \in Int /\ s % Q = t % Q
    <3>1. Taken(j) = UnitPasses(ch)
      BY <1>1, <2>0 DEF Taken
    <3>2. RowOf(j) < Len(block) /\ DigitPoly(block, j) \in Rq
      BY <1>1, <2>0, DigitPolyType DEF TypeOK, BlockDrawn
    <3>3. s % Q = NegMul(ch, DigitPoly(block, j))[p]
      BY <3>1, <3>2, UnitPassesExact DEF TakenSum, TypeOK
    <3>4. t = NegMul(ch, DigitPoly(block, j))[p]
      BY <3>2, ScaledHere
    <3>5. s % Q \in Fp
      BY TakenType, ModSmall
    <3>. HIDE DEF s, t
    <3>. QED BY <3>3, <3>4, <3>5, ModSmall, RingAssumption DEF Fp
  <2>3. a \in Int /\ s \in Int
    BY ValueType, TakenType
  <2>4. Completed[j][p] = (a - s) % Q
    BY DEF Completed
  <2>. HIDE DEF a, s, t
  <2>5. a % Q = (((a - s) % Q) + t) % Q
    BY <2>2, <2>3, ModReturn
  <2>. QED BY <2>1, <2>4, <2>5 DEF t
<1>4. Completed' = [j \in Column |-> [p \in Coeff |->
                      (Completed[j][p] + HZ!Scaled(block, ch, j)[p]) % Q]]
  BY <1>3 DEF Completed
<1>. QED BY <1>1, <1>4 DEF HZ!AddBlock, HZ!Column, Column, HZ!Coeff, Coeff

(* A dense block is the reference's step with that block, if the generic    *)
(* product is the schoolbook's.                                             *)
LEMMA DenseCompleted ==
  ASSUME \A a, s \in Rq : RqMul(a, s) = NegMul(a, s),
         TypeOK, TypeOK', BufferBounded, Dense, pc' = "block"
  PROVE  HZ!AddBlock
<1>1. PICK b \in BlockSet, c \in Challenges :
        /\ block' = b /\ ch' = c /\ Len(b) >= MESSAGE_ROWS /\ i' = i + 1
  <2>. \A b \in BlockSet : Len(b) \in Nat
    BY InputAssumption
  <2>. QED BY GadgetAssumption DEF Dense
<1>2. pc = "block" /\ i < BLOCKS
  BY DEF Dense
<1>3. ASSUME NEW j \in Column, NEW p \in Coeff
      PROVE  Completed'[j][p] = (Completed[j][p] + HZ!Scaled(b, c, j)[p]) % Q
  <2>1. Value'[j][p] = (Value[j][p] + RqMul(c, DigitPoly(b, j))[p]) % Q
    <3>1. DenseTaken /\ vars' # vars
      BY <1>1, <1>2 DEF DenseTaken, vars, TypeOK
    <3>. QED BY <1>1, <3>1, ExactStepHolds DEF ExactStep, Next
  <2>2. b \in Seq(Rq) /\ c \in Rq
    BY InputAssumption
  <2>3. RowOf(j) < Len(b)
    BY <1>1, <2>2, ColumnIndex, GadgetAssumption DEF Row
  <2>4. RqMul(c, DigitPoly(b, j)) = HZ!Scaled(b, c, j)
    BY <2>2, <2>3, DigitPolyType, ScaledHere
  <2>5. Completed[j][p] = Value[j][p]
    BY <1>2, NothingTaken DEF Taken, MidBlock
  <2>6. Completed'[j][p] = Value'[j][p]
    <3>1. Taken(j)' = {}
      BY DEF Taken, MidBlock
    <3>2. TakenSum(j, p)' = 0
      BY <3>1, SumEmpty DEF TakenSum, SumFunction
    <3>3. Completed'[j][p] = (Value'[j][p] - TakenSum(j, p)') % Q
      BY DEF Completed
    <3>4. Value'[j][p] \in Fp /\ Value'[j][p] \in Int
      <4>1. RqMul(c, DigitPoly(b, j))[p] \in Int /\ Value[j][p] \in Int
        BY <2>2, <2>3, DigitPolyType, InputAssumption, ValueType, RingAssumption DEF Rq, Fp
      <4>. QED BY <2>1, <4>1, ModSmall, RingAssumption DEF Fp
    <3>. QED BY <3>2, <3>3, <3>4, ModSmall
  <2>. QED BY <2>1, <2>4, <2>5, <2>6
<1>4. Completed' = [j \in Column |-> [p \in Coeff |->
                      (Completed[j][p] + HZ!Scaled(b, c, j)[p]) % Q]]
  BY <1>3 DEF Completed
<1>. QED BY <1>1, <1>2, <1>4 DEF HZ!AddBlock, HZ!Column, Column, HZ!Coeff, Coeff

(* The streamed fold implements the reference fold: at every block boundary *)
(* its accumulator is the sum of the challenge-scaled digit blocks.         *)
THEOREM RefinesHonestZ ==
  ASSUME \A a, s \in Rq : RqMul(a, s) = NegMul(a, s)
  PROVE  Spec => ImplementsHonestZ
<1>1. Init => HZ!Init
  <2>. SUFFICES ASSUME Init PROVE HZ!Init
    OBVIOUS
  <2>1. ASSUME NEW j \in Column, NEW p \in Coeff PROVE Completed[j][p] = 0
    <3>1. Taken(j) = {}
      BY DEF Taken, MidBlock, Init
    <3>2. TakenSum(j, p) = 0
      BY <3>1, SumEmpty DEF TakenSum, SumFunction
    <3>3. Value[j][p] = 0
      BY DEF Value, Init, ZeroRq
    <3>. QED BY <3>2, <3>3, RingAssumption DEF Completed
  <2>2. Completed = [j \in Column |-> [p \in Coeff |-> 0]]
    BY <2>1 DEF Completed
  <2>. QED BY <2>2 DEF Init, HZ!Init, HZ!Column, Column, HZ!Coeff, Coeff
<1>2. Init => BlockDrawn
  BY DEF Init, BlockDrawn, MidBlock
<1>3. TypeOK /\ BlockDrawn /\ [Next]_vars => BlockDrawn'
  BY BlockDrawnStep
<1>4. /\ TypeOK /\ TypeOK' /\ BufferBounded /\ BlockDrawn
      /\ [Next]_vars
      => [HZ!AddBlock]_(HZ!hzvars)
  <2>. SUFFICES ASSUME TypeOK, TypeOK', BufferBounded, BlockDrawn, [Next]_vars
                PROVE  [HZ!AddBlock]_(HZ!hzvars)
    OBVIOUS
  <2>1. CASE Pass
    BY <2>1, PassCompleted DEF HZ!hzvars, Pass
  <2>2. CASE EndShort
    BY <2>2, EndShortCompleted
  <2>3. CASE Dense /\ pc' = "block"
    BY <2>3, DenseCompleted
  <2>4. CASE ~Pass /\ ~EndShort /\ ~(Dense /\ pc' = "block")
    BY <2>4, QuietCompleted DEF HZ!hzvars
  <2>. QED BY <2>1, <2>2, <2>3, <2>4
<1>. QED BY <1>1, <1>2, <1>3, <1>4, TypeCorrect, BufferCorrect, PTL
     DEF Spec, ImplementsHonestZ, HZ!Spec
=============================================================================
