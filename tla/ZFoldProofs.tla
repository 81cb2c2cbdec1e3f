---------------------------- MODULE ZFoldProofs -----------------------------
(***************************************************************************)
(* The packed z pass, for every ring, digit base, lane width, schedule and *)
(* message: the state is well typed, the charged budget covers every row's *)
(* passes, no lane carries, and every step changes the value the           *)
(* accumulator stands for by exactly what the reference adds.              *)
(***************************************************************************)
EXTENDS ZFoldProps, GadgetProofs

-----------------------------------------------------------------------------
(* WORDS OF FOUR LANES: packing and extraction are inverse, and an addition *)
(* that overflows no lane acts on each lane by itself.                      *)

(* A quotient and remainder are what the decomposition says they are.       *)
LEMMA DivModUnique ==
  ASSUME NEW M \in Nat \ {0}, NEW a \in 0 .. (M - 1), NEW h \in Nat
  PROVE  /\ (a + M * h) \div M = h
         /\ (a + M * h) % M = a
<1>. DEFINE w == a + M * h
            d == w \div M
            r == w % M
<1>1. w \in Nat
  OBVIOUS
<1>2. w = M * d + r /\ r \in 0 .. (M - 1) /\ d \in Int
  BY <1>1
<1>3. ~(d > h)
  <2>1. SUFFICES ASSUME d >= h + 1 PROVE FALSE
    BY <1>2
  <2>2. M * d >= M * (h + 1)
    BY <2>1, <1>2
  <2>. QED BY <2>2, <1>2
<1>4. ~(d < h)
  <2>1. SUFFICES ASSUME h >= d + 1 PROVE FALSE
    BY <1>2
  <2>2. M * h >= M * (d + 1)
    BY <2>1, <1>2
  <2>. QED BY <2>2, <1>2
<1>5. d = h
  BY <1>2, <1>3, <1>4
<1>. QED BY <1>5, <1>2

(* The lane unit and its powers are positive naturals.                      *)
LEMMA UnitTypes ==
  /\ Z_LANE_1 \in Nat \ {0}
  /\ Z_LANE_1 * Z_LANE_1 \in Nat \ {0}
  /\ Z_LANE_1 * Z_LANE_1 * Z_LANE_1 \in Nat \ {0}
  /\ WordSize \in Nat \ {0}
<1>. DEFINE L2 == Z_LANE_1 * Z_LANE_1
            L3 == L2 * Z_LANE_1
<1>1. Z_LANE_1 \in Nat \ {0}
  BY LaneUnitAssumption
<1>2. \A x, y \in Nat \ {0} : x * y \in Nat \ {0}
  OBVIOUS
<1>3. L2 \in Nat \ {0}
  BY <1>1, <1>2
<1>4. L3 \in Nat \ {0}
  <2>. HIDE DEF L2
  <2>. QED BY <1>1, <1>2, <1>3
<1>5. WordSize \in Nat \ {0}
  <2>1. WordSize = L3 * Z_LANE_1
    BY DEF WordSize
  <2>. HIDE DEF L3
  <2>. QED BY <2>1, <1>1, <1>2, <1>4
<1>. QED BY <1>1, <1>3, <1>4, <1>5

(* Packing four lane values and reading lane h gives the h-th back.         *)
LEMMA LaneOfPack ==
  ASSUME NEW d0 \in LaneValue, NEW d1 \in LaneValue,
         NEW d2 \in LaneValue, NEW d3 \in LaneValue
  PROVE  /\ Pack(d0, d1, d2, d3) \in Word
         /\ Lane(Pack(d0, d1, d2, d3), 0) = d0
         /\ Lane(Pack(d0, d1, d2, d3), 1) = d1
         /\ Lane(Pack(d0, d1, d2, d3), 2) = d2
         /\ Lane(Pack(d0, d1, d2, d3), 3) = d3
<1>. DEFINE L  == Z_LANE_1
            L2 == L * L
            L3 == L * L * L
            w  == Pack(d0, d1, d2, d3)
            h3 == d3
            h2 == d2 + L * d3
            h1 == d1 + L * h2
<1>0. L \in Nat \ {0} /\ L2 \in Nat \ {0} /\ L3 \in Nat \ {0}
  BY UnitTypes
<1>1. /\ d0 \in Nat /\ d1 \in Nat /\ d2 \in Nat /\ d3 \in Nat
      /\ d0 < L /\ d1 < L /\ d2 < L /\ d3 < L
      /\ d0 \in 0 .. (L - 1) /\ d1 \in 0 .. (L - 1) /\ d2 \in 0 .. (L - 1)
  BY <1>0 DEF LaneValue
<1>2. h2 \in Nat /\ h1 \in Nat /\ h3 \in Nat
  BY <1>0, <1>1
<1>3. w = d0 + L * h1
  BY <1>0, <1>1 DEF Pack
<1>4. w = (d0 + L * d1) + L2 * h2
  BY <1>0, <1>1 DEF Pack
<1>5. w = (d0 + L * d1 + L2 * d2) + L3 * h3
  BY <1>0, <1>1 DEF Pack
<1>6. d0 + L * d1 \in 0 .. (L2 - 1)
  <2>1. L * d1 <= L * (L - 1)
    BY <1>0, <1>1
  <2>2. L * (L - 1) = L2 - L
    BY <1>0
  <2>. QED BY <1>0, <1>1, <2>1, <2>2
<1>7. d0 + L * d1 + L2 * d2 \in 0 .. (L3 - 1)
  <2>1. L2 * d2 <= L2 * (L - 1)
    BY <1>0, <1>1
  <2>2. L2 * (L - 1) = L3 - L2
    BY <1>0
  <2>3. L2 * d2 \in Nat
    BY <1>0, <1>1
  <2>. HIDE DEF L2, L3
  <2>. QED BY <1>0, <1>1, <1>6, <2>1, <2>2, <2>3
<1>8. w \in Word
  <2>1. L3 * d3 <= L3 * (L - 1)
    BY <1>0, <1>1
  <2>2. L3 * (L - 1) = WordSize - L3
    BY <1>0 DEF WordSize
  <2>3. L3 * d3 \in Nat
    BY <1>0, <1>1
  <2>4. WordSize \in Nat
    BY UnitTypes
  <2>. HIDE DEF L2, L3, w
  <2>. QED BY <1>0, <1>1, <1>5, <1>7, <2>1, <2>2, <2>3, <2>4 DEF Word, h3
<1>9. w \div 1 = w
  BY <1>8, UnitTypes DEF Word
<1>10. Lane(w, 0) = d0
  <2>1. (d0 + L * h1) % L = d0
    <3>. HIDE DEF L, h1
    <3>. QED BY <1>0, <1>1, <1>2, DivModUnique
  <2>. HIDE DEF w, h1
  <2>. QED BY <2>1, <1>3, <1>9 DEF Lane, LaneUnit
<1>11. Lane(w, 1) = d1
  <2>1. (d0 + L * h1) \div L = h1
    <3>. HIDE DEF L, h1
    <3>. QED BY <1>0, <1>1, <1>2, DivModUnique
  <2>2. (d1 + L * h2) % L = d1
    <3>. HIDE DEF L, h2
    <3>. QED BY <1>0, <1>1, <1>2, DivModUnique
  <2>3. w \div L = h1
    BY <2>1, <1>3
  <2>. HIDE DEF w, h2
  <2>. QED BY <2>2, <2>3 DEF Lane, LaneUnit
<1>12. Lane(w, 2) = d2
  <2>1. w \div L2 = h2
    <3>. DEFINE a == d0 + L * d1
    <3>. HIDE DEF L2, h2, w
    <3>1. (a + L2 * h2) \div L2 = h2
      <4>. HIDE DEF a
      <4>. QED BY <1>0, <1>2, <1>6, DivModUnique DEF a
    <3>. QED BY <3>1, <1>4
  <2>2. (d2 + L * d3) % L = d2
    <3>. HIDE DEF L
    <3>. QED BY <1>0, <1>1, DivModUnique
  <2>. HIDE DEF w
  <2>. QED BY <2>1, <2>2 DEF Lane, LaneUnit
<1>13. Lane(w, 3) = d3
  <2>1. w \div L3 = d3
    <3>. DEFINE a == d0 + L * d1 + L2 * d2
    <3>. HIDE DEF L3, w
    <3>1. (a + L3 * d3) \div L3 = d3
      <4>. HIDE DEF a
      <4>. QED BY <1>0, <1>1, <1>7, DivModUnique DEF a
    <3>. QED BY <3>1, <1>5 DEF h3
  <2>2. d3 % L = d3
    BY <1>0, <1>1
  <2>. HIDE DEF w
  <2>. QED BY <2>1, <2>2 DEF Lane, LaneUnit
<1>. QED BY <1>8, <1>10, <1>11, <1>12, <1>13

(* Every word is the packing of its four lanes.                             *)
LEMMA PackOfLanes ==
  ASSUME NEW w \in Word
  PROVE  /\ \A h \in 0 .. 3 : Lane(w, h) \in LaneValue
         /\ w = Pack(Lane(w, 0), Lane(w, 1), Lane(w, 2), Lane(w, 3))
<1>. DEFINE L  == Z_LANE_1
            L2 == L * L
            L3 == L * L * L
            q1 == w \div L
            q2 == q1 \div L
            q3 == q2 \div L
            d0 == w % L
            d1 == q1 % L
            d2 == q2 % L
<1>0. L \in Nat \ {0} /\ L2 \in Nat \ {0} /\ L3 \in Nat \ {0} /\ w \in Nat
  BY UnitTypes DEF Word
<1>a. \A x \in Nat : /\ x \div L \in Nat
                     /\ x % L \in 0 .. (L - 1)
                     /\ x = (x % L) + L * (x \div L)
  BY <1>0
<1>1. q1 \in Nat /\ d0 \in 0 .. (L - 1) /\ w = d0 + L * q1
  BY <1>0, <1>a
<1>2. q2 \in Nat /\ d1 \in 0 .. (L - 1) /\ q1 = d1 + L * q2
  <2>. HIDE DEF q1
  <2>. QED BY <1>1, <1>a
<1>3. q3 \in Nat /\ d2 \in 0 .. (L - 1) /\ q2 = d2 + L * q3
  <2>. HIDE DEF q2
  <2>. QED BY <1>2, <1>a
<1>. HIDE DEF q1, q2, q3, d0, d1, d2
<1>4. w = (d0 + L * d1 + L2 * d2) + L3 * q3
  BY <1>0, <1>1, <1>2, <1>3
<1>5. q3 \in 0 .. (L - 1)
  <2>1. SUFFICES ASSUME q3 >= L PROVE FALSE
    BY <1>0, <1>3
  <2>2. L3 * q3 >= L3 * L
    BY <1>0, <1>3, <2>1
  <2>3. d0 + L * d1 + L2 * d2 \in Nat
    BY <1>0, <1>1, <1>2, <1>3
  <2>4. L3 * L = WordSize /\ L3 * q3 \in Nat
    BY <1>0, <1>3 DEF WordSize
  <2>5. w < WordSize /\ WordSize \in Nat
    BY UnitTypes DEF Word
  <2>. HIDE DEF L2, L3
  <2>. QED BY <1>0, <1>4, <2>2, <2>3, <2>4, <2>5
<1>6. /\ d0 \in LaneValue /\ d1 \in LaneValue /\ d2 \in LaneValue
      /\ q3 \in LaneValue
  BY <1>1, <1>2, <1>3, <1>5 DEF LaneValue
<1>7. w = Pack(d0, d1, d2, q3)
  <2>1. d0 \in Nat /\ d1 \in Nat /\ d2 \in Nat
    BY <1>0, <1>1, <1>2, <1>3
  <2>. QED BY <1>0, <1>3, <1>4, <2>1 DEF Pack
<1>8. /\ Lane(w, 0) = d0 /\ Lane(w, 1) = d1
      /\ Lane(w, 2) = d2 /\ Lane(w, 3) = q3
  BY <1>6, <1>7, LaneOfPack
<1>9. \A h \in 0 .. 3 : h = 0 \/ h = 1 \/ h = 2 \/ h = 3
  OBVIOUS
<1>. QED BY <1>6, <1>7, <1>8, <1>9

(* Adding d_h to a word whose lane h has room for it, for all four lanes,   *)
(* adds d_h to lane h: no carry crosses a lane or leaves the word.          *)
LEMMA LaneAdd ==
  ASSUME NEW w \in Word,
         NEW d0 \in Nat, NEW d1 \in Nat, NEW d2 \in Nat, NEW d3 \in Nat,
         Lane(w, 0) + d0 < Z_LANE_1, Lane(w, 1) + d1 < Z_LANE_1,
         Lane(w, 2) + d2 < Z_LANE_1, Lane(w, 3) + d3 < Z_LANE_1
  PROVE  LET v == (w + Pack(d0, d1, d2, d3)) % WordSize
         IN  /\ v \in Word
             /\ Lane(v, 0) = Lane(w, 0) + d0
             /\ Lane(v, 1) = Lane(w, 1) + d1
             /\ Lane(v, 2) = Lane(w, 2) + d2
             /\ Lane(v, 3) = Lane(w, 3) + d3
<1>. DEFINE e0 == Lane(w, 0) + d0
            e1 == Lane(w, 1) + d1
            e2 == Lane(w, 2) + d2
            e3 == Lane(w, 3) + d3
            u  == Pack(e0, e1, e2, e3)
<1>1. /\ Lane(w, 0) \in Nat /\ Lane(w, 1) \in Nat
      /\ Lane(w, 2) \in Nat /\ Lane(w, 3) \in Nat
      /\ w = Pack(Lane(w, 0), Lane(w, 1), Lane(w, 2), Lane(w, 3))
  BY PackOfLanes, UnitTypes DEF LaneValue
<1>2. /\ e0 \in LaneValue /\ e1 \in LaneValue
      /\ e2 \in LaneValue /\ e3 \in LaneValue
  BY <1>1, UnitTypes DEF LaneValue
<1>3. w + Pack(d0, d1, d2, d3) = u
  <2>. DEFINE a0 == Lane(w, 0)  a1 == Lane(w, 1)
              a2 == Lane(w, 2)  a3 == Lane(w, 3)
  <2>1. a0 \in Nat /\ a1 \in Nat /\ a2 \in Nat /\ a3 \in Nat
    BY <1>1
  <2>. HIDE DEF a0, a1, a2, a3
  <2>2. Pack(a0, a1, a2, a3) + Pack(d0, d1, d2, d3)
          = Pack(a0 + d0, a1 + d1, a2 + d2, a3 + d3)
    BY <2>1, UnitTypes DEF Pack
  <2>. USE DEF a0, a1, a2, a3
  <2>. QED BY <2>2, <1>1
<1>4. /\ u \in Word
      /\ Lane(u, 0) = e0 /\ Lane(u, 1) = e1 /\ Lane(u, 2) = e2 /\ Lane(u, 3) = e3
  <2>. HIDE DEF e0, e1, e2, e3
  <2>. QED BY <1>2, LaneOfPack
<1>5. u % WordSize = u
  <2>. HIDE DEF u
  <2>. QED BY <1>4, UnitTypes DEF Word
<1>. QED BY <1>3, <1>4, <1>5

-----------------------------------------------------------------------------
(* Indices and digits. *)

(* A lane number names a word of the slot and a lane of that word.          *)
LEMMA DigitIndex ==
  ASSUME NEW e \in Digit
  PROVE  /\ e \in Nat
         /\ e \div 4 \in Slot
         /\ e % 4 \in 0 .. 3
         /\ e = 4 * (e \div 4) + (e % 4)
BY LaneAssumption, GadgetAssumption DEF Digit, Slot

-----------------------------------------------------------------------------
(* THE TYPE INVARIANT *)

(* A pass leaves a word a word.                                             *)
LEMMA PassWordType ==
  ASSUME TypeOK, row < Rows, pc = "row",
         NEW k \in Coeff, NEW p \in Coeff, NEW w \in Slot, NEW word \in Word
  PROVE  /\ row \in Row
         /\ block[row + 1] \in Rq
         /\ block[row + 1][Source(k, p)] \in Nat
         /\ PassWord(k, p, w, word) \in Word
<1>1. row \in Nat /\ row < MESSAGE_ROWS /\ row < Len(block)
  BY GadgetAssumption DEF TypeOK, Rows
<1>2. block[row + 1] \in Rq
  BY <1>1 DEF TypeOK
<1>3. block[row + 1][Source(k, p)] \in Nat
  BY <1>2, SourceRange, RingAssumption DEF Rq, Fp
<1>4. Spread(block[row + 1][Source(k, p)], w) \in Int /\ Z_LANE_BIAS \in Int
  <2>. DEFINE x == block[row + 1][Source(k, p)]
  <2>1. 4 * w \in Nat /\ 4*w + 1 \in Nat /\ 4*w + 2 \in Nat /\ 4*w + 3 \in Nat
    BY GadgetAssumption DEF Slot
  <2>0. x \in Nat
    BY <1>3
  <2>. HIDE DEF x
  <2>a. \A e \in Nat : DigitAt(x, e) \in Int
    BY <2>0, DigitRange, GadgetAssumption
  <2>2. /\ DigitAt(x, 4*w) \in Int /\ DigitAt(x, 4*w + 1) \in Int
        /\ DigitAt(x, 4*w + 2) \in Int /\ DigitAt(x, 4*w + 3) \in Int
    BY <2>1, <2>a
  <2>3. \A a, b, c, d \in Int : Pack(a, b, c, d) \in Int
    BY UnitTypes DEF Pack
  <2>4. Spread(x, w) \in Int
    BY <2>2, <2>3 DEF Spread
  <2>5. Z_LANE_BIAS \in Int
    BY <2>3, GadgetAssumption DEF Z_LANE_BIAS
  <2>. QED BY <2>4, <2>5 DEF x
<1>5. PassWord(k, p, w, word) \in Word
  BY <1>4, UnitTypes DEF PassWord, Word
<1>6. row \in Row
  BY <1>1, GadgetAssumption DEF Row
<1>. QED BY <1>2, <1>3, <1>5, <1>6

(* Flushing and folding leave the field accumulator a vector of elements.   *)
LEMMA FlushType ==
  ASSUME TypeOK
  PROVE  Flush \in [Column -> Rq]
<1>1. SUFFICES ASSUME NEW j \in Column, NEW p \in Coeff
               PROVE  (acc[j][p] + Decode(zp[RowOf(j)][p][DigitOf(j) \div 4], DigitOf(j),
                                          GADGET_BASE * cnt[RowOf(j)])) % Q \in Fp
  BY DEF Flush, Rq
<1>2. /\ RowOf(j) \in Row /\ DigitOf(j) \div 4 \in Slot /\ DigitOf(j) % 4 \in 0 .. 3
  BY ColumnIndex, DigitIndex
<1>. DEFINE word == zp[RowOf(j)][p][DigitOf(j) \div 4]
            rec  == GADGET_BASE * cnt[RowOf(j)]
<1>3. word \in Word /\ rec \in Int /\ acc[j][p] \in Int
  BY <1>2, GadgetAssumption, RingAssumption DEF TypeOK, Rq, Fp
<1>4. Lane(word, DigitOf(j) % 4) \in Int
  <2>. HIDE DEF word
  <2>. QED BY <1>2, <1>3, PackOfLanes, UnitTypes DEF LaneValue
<1>5. Decode(word, DigitOf(j), rec) \in Int
  <2>. HIDE DEF word, rec
  <2>. QED BY <1>3, <1>4, UnitTypes, RingAssumption DEF Decode
<1>. QED BY <1>3, <1>5, RingAssumption DEF Fp

(* A dense block leaves the field accumulator a vector of elements.         *)
LEMMA DenseType ==
  ASSUME TypeOK, NEW c \in Rq, NEW b \in Seq(Rq), Len(b) >= MESSAGE_ROWS
  PROVE  [j \in Column |-> [p \in Coeff |->
            (acc[j][p] + RqMul(c, DigitPoly(b, j))[p]) % Q]] \in [Column -> Rq]
<1>1. SUFFICES ASSUME NEW j \in Column, NEW p \in Coeff
               PROVE  (acc[j][p] + RqMul(c, DigitPoly(b, j))[p]) % Q \in Fp
  BY DEF Rq
<1>2. DigitPoly(b, j) \in Rq
  <2>1. SUFFICES ASSUME NEW k \in Coeff
                 PROVE  DigitAt(b[RowOf(j) + 1][k], DigitOf(j)) \in Fp
    BY DEF DigitPoly, Rq
  <2>2. RowOf(j) + 1 \in 1 .. Len(b) /\ DigitOf(j) \in Nat
    BY ColumnIndex, DigitIndex, LaneAssumption, GadgetAssumption DEF Row
  <2>3. b[RowOf(j) + 1] \in Rq
    BY <2>2
  <2>4. b[RowOf(j) + 1][k] \in Nat
    BY <2>3, RingAssumption DEF Rq, Fp
  <2>5. DigitAt(b[RowOf(j) + 1][k], DigitOf(j)) \in 0 .. (GADGET_BASE - 1)
    BY <2>2, <2>4, DigitRange
  <2>. QED BY <2>5, GadgetAssumption, RingAssumption DEF Fp
<1>3. RqMul(c, DigitPoly(b, j))[p] \in Int /\ acc[j][p] \in Int
  <2>1. RqMul(c, DigitPoly(b, j)) \in Rq
    BY <1>2, InputAssumption
  <2>2. acc[j] \in Rq
    BY DEF TypeOK
  <2>3. \A f \in Rq : f[p] \in Int
    BY RingAssumption DEF Rq, Fp
  <2>. QED BY <2>1, <2>2, <2>3
<1>. QED BY <1>3, RingAssumption DEF Fp

(* The zeroed accumulator, counters and element are well typed.              *)
LEMMA ZeroTypes ==
  /\ ZeroLanes \in [Row -> [Coeff -> [Slot -> Word]]]
  /\ ZeroCounts \in [Row -> Nat]
  /\ ZeroRq \in Rq
BY UnitTypes, RingAssumption DEF ZeroLanes, ZeroCounts, ZeroRq, Word, Rq, Fp

(* Every state of the fold is well typed: in particular the chunk's         *)
(* remaining budget never goes below zero, and every word fits its width.   *)
THEOREM TypeCorrect == Spec => []TypeOK
<1>1. Init => TypeOK
  <2>. SUFFICES ASSUME Init PROVE TypeOK
    OBVIOUS
  <2>1. /\ zp \in [Row -> [Coeff -> [Slot -> Word]]] /\ cnt \in [Row -> Nat]
        /\ acc \in [Column -> Rq] /\ ch \in Rq
    BY ZeroTypes DEF Init
  <2>2. left \in 0 .. (Z_LANE_CHUNK - 1)
    BY LaneAssumption, GadgetAssumption DEF Init
  <2>. QED BY <2>1, <2>2, LaneAssumption, GadgetAssumption DEF Init, TypeOK
<1>2. TypeOK /\ [Next]_vars => TypeOK'
  <2>. SUFFICES ASSUME TypeOK, [Next]_vars PROVE TypeOK'
    OBVIOUS
  <2>1. CASE StartShort
    <3>1. /\ block' \in Seq(Rq) /\ ch' \in Rq /\ rest' = UnitPasses(ch')
          /\ rest' \in SUBSET (Coeff \X (1 .. Q))
      BY <2>1, InputAssumption DEF StartShort, UnitPasses
    <3>2. /\ acc' \in [Column -> Rq]
          /\ zp' \in [Row -> [Coeff -> [Slot -> Word]]] /\ cnt' \in [Row -> Nat]
      BY <2>1, FlushType, ZeroTypes DEF StartShort, TypeOK
    <3>3. left' \in 0 .. (Z_LANE_CHUNK - 1)
      BY <2>1, LaneAssumption, GadgetAssumption, ScheduleAssumption, RingAssumption
         DEF StartShort, TypeOK, MustFlush, LeftAfter
    <3>. QED BY <2>1, <3>1, <3>2, <3>3, GadgetAssumption DEF StartShort, TypeOK
  <2>2. CASE Pass
    <3>1. PICK x \in rest :
            /\ zp' = [zp EXCEPT ![row] = [p \in Coeff |-> [w \in Slot |->
                        PassWord(x[1], p, w, zp[row][p][w])]]]
            /\ rest' = rest \ {x}
      BY <2>2 DEF Pass
    <3>2. pc = "row" /\ row < Rows /\ x[1] \in Coeff
      BY <2>2, UnitPassesFinite DEF Pass, TypeOK
    <3>3. ASSUME NEW p \in Coeff, NEW w \in Slot
          PROVE  PassWord(x[1], p, w, zp[row][p][w]) \in Word
      <4>1. row \in Row
        BY <3>2, GadgetAssumption DEF TypeOK, Rows, Row
      <4>2. zp[row][p][w] \in Word
        BY <4>1 DEF TypeOK
      <4>. QED BY <4>2, <3>2, PassWordType
    <3>4. zp' \in [Row -> [Coeff -> [Slot -> Word]]]
      BY <3>1, <3>3 DEF TypeOK
    <3>. QED BY <2>2, <3>1, <3>4 DEF Pass, TypeOK
  <2>3. CASE EndRow
    <3>1. row \in Row /\ row + 1 \in 0 .. MESSAGE_ROWS
      BY <2>3, GadgetAssumption DEF EndRow, TypeOK, Rows, Row
    <3>2. cnt' \in [Row -> Nat]
      BY <2>3, <3>1, UnitPassesFinite DEF EndRow, TypeOK
    <3>3. rest' \in SUBSET (Coeff \X (1 .. Q)) /\ rest' = UnitPasses(ch')
      BY <2>3 DEF EndRow, UnitPasses
    <3>. QED BY <2>3, <3>1, <3>2, <3>3 DEF EndRow, TypeOK
  <2>4. CASE EndShort
    <3>1. i' \in 0 .. BLOCKS
      BY <2>4, LaneAssumption, GadgetAssumption DEF EndShort, TypeOK
    <3>. QED BY <2>4, <3>1 DEF EndShort, TypeOK
  <2>5. CASE Dense
    <3>1. block' \in Seq(Rq) /\ ch' \in Rq
      BY <2>5, InputAssumption DEF Dense
    <3>2. i' \in 0 .. BLOCKS /\ pc' \in {"block", "panic"}
      BY <2>5, LaneAssumption, GadgetAssumption DEF Dense, TypeOK
    <3>3. acc' \in [Column -> Rq]
      <4>1. PICK b \in BlockSet, c \in Challenges :
               IF Len(b) < MESSAGE_ROWS
               THEN UNCHANGED acc
               ELSE acc' = [j \in Column |-> [p \in Coeff |->
                              (acc[j][p] + RqMul(c, DigitPoly(b, j))[p]) % Q]]
        BY <2>5 DEF Dense
      <4>2. b \in Seq(Rq) /\ c \in Rq /\ Len(b) \in Nat
        BY InputAssumption
      <4>3. CASE Len(b) < MESSAGE_ROWS
        BY <4>1, <4>3 DEF TypeOK
      <4>4. CASE Len(b) >= MESSAGE_ROWS
        BY <4>1, <4>2, <4>4, DenseType, GadgetAssumption
      <4>. QED BY <4>2, <4>3, <4>4, GadgetAssumption
    <3>. QED BY <2>5, <3>1, <3>2, <3>3 DEF Dense, TypeOK
  <2>6. CASE Finish
    BY <2>6, FlushType DEF Finish, TypeOK
  <2>7. CASE UNCHANGED vars
    BY <2>7 DEF vars, TypeOK
  <2>. QED BY <2>1, <2>2, <2>3, <2>4, <2>5, <2>6, <2>7 DEF Next
<1>. QED BY <1>1, <1>2, PTL DEF Spec

-----------------------------------------------------------------------------
(* THE CHARGE SCHEDULE *)

(* What a row still has to take is part of the challenge's passes.          *)
LEMMA RestCardinality ==
  ASSUME TypeOK, pc = "row"
  PROVE  /\ IsFiniteSet(rest)
         /\ Cardinality(rest) \in Nat
         /\ Cardinality(UnitPasses(ch)) \in Nat
         /\ Cardinality(rest) <= Cardinality(UnitPasses(ch))
<1>1. IsFiniteSet(UnitPasses(ch)) /\ rest \subseteq UnitPasses(ch)
  BY UnitPassesFinite DEF TypeOK
<1>. QED BY <1>1, FS_Subset, FS_CardinalityType

(* The passes a row has seen are a number.                                  *)
LEMMA SeenType ==
  ASSUME TypeOK, NEW r \in Row
  PROVE  Seen(r) \in Nat
BY RestCardinality DEF Seen, TypeOK

(* A taken pass leaves one fewer.                                           *)
LEMMA PassCardinality ==
  ASSUME TypeOK, Pass
  PROVE  /\ rest' \subseteq rest
         /\ Cardinality(rest') = Cardinality(rest) - 1
         /\ Cardinality(rest') \in Nat
<1>1. PICK x \in rest : rest' = rest \ {x}
  BY DEF Pass
<1>2. IsFiniteSet(rest)
  BY RestCardinality DEF Pass
<1>3. Cardinality(rest \ {x}) = Cardinality(rest) - 1 /\ IsFiniteSet(rest \ {x})
  BY <1>2, FS_RemoveElement
<1>. QED BY <1>1, <1>3, FS_CardinalityType

(* The chunk has room for at least one short block.                         *)
LEMMA ScheduleTypes ==
  /\ OMEGA \in Nat /\ Z_LANE_CHUNK - 1 \in Nat /\ OMEGA <= Z_LANE_CHUNK - 1
BY RingAssumption, LaneAssumption, GadgetAssumption, ScheduleAssumption

(* No step lets a row see more passes than were charged.                    *)
LEMMA ChargeStep ==
  ASSUME TypeOK, ChargeCoversPasses, [Next]_vars
  PROVE  ChargeCoversPasses'
<1>. USE ScheduleTypes
<1>0. \A r \in Row : cnt[r] \in Nat /\ left \in Nat
  BY DEF TypeOK
<1>1. CASE StartShort
  <2>1. IsShort(ch') /\ rest' = UnitPasses(ch') /\ pc' = "row"
    BY <1>1 DEF StartShort
  <2>2. \A r \in Row : cnt'[r] + left' + OMEGA <= Z_LANE_CHUNK - 1 /\ cnt'[r] \in Nat
    <3>1. CASE MustFlush
      BY <1>1, <3>1 DEF StartShort, LeftAfter, ZeroCounts
    <3>2. CASE ~MustFlush
      BY <1>0, <1>1, <3>2 DEF StartShort, LeftAfter, ChargeCoversPasses, Seen
    <3>. QED BY <3>1, <3>2
  <2>3. left' \in Nat /\ left' \in Int
    BY <1>0, <1>1 DEF StartShort, MustFlush, LeftAfter, TypeOK
  <2>4. \A r \in Row : Seen(r)' = cnt'[r]
    <3>1. Cardinality(UnitPasses(ch')) \in Nat
      BY <1>1, UnitPassesFinite, InputAssumption DEF StartShort
    <3>. QED BY <2>1, <2>2, <3>1 DEF Seen
  <2>. QED BY <2>1, <2>2, <2>3, <2>4 DEF ChargeCoversPasses
<1>2. CASE Pass
  <2>1. /\ pc = "row" /\ row < Rows /\ UNCHANGED <<pc, block, ch, row, cnt, left>>
    BY <1>2 DEF Pass
  <2>2. row \in Row /\ row >= row
    BY <2>1, GadgetAssumption DEF TypeOK, Rows, Row
  <2>3. \A r \in Row : Seen(r)' <= (IF r = row THEN cnt[row] + OMEGA ELSE Seen(r))
    <3>1. Cardinality(UnitPasses(ch)) <= OMEGA
      BY <2>1 DEF ChargeCoversPasses, IsShort
    <3>2. /\ Cardinality(UnitPasses(ch)) \in Nat /\ Cardinality(rest') \in Nat
      BY <1>2, <2>1, RestCardinality, PassCardinality
    <3>. QED BY <1>0, <2>1, <2>2, <3>1, <3>2, SeenType DEF Seen, Rows
  <2>4. \A r \in Row : Seen(r)' \in Nat
    <3>1. /\ Cardinality(UnitPasses(ch)) \in Nat /\ Cardinality(rest') \in Nat
          /\ Cardinality(rest') <= Cardinality(UnitPasses(ch))
      BY <1>2, <2>1, RestCardinality, PassCardinality
    <3>. QED BY <1>0, <2>1, <3>1 DEF Seen, Rows
  <2>5. cnt[row] + left + OMEGA <= Z_LANE_CHUNK - 1
    BY <2>1, <2>2 DEF ChargeCoversPasses
  <2>6. \A r \in Row : Seen(r) + left <= Z_LANE_CHUNK - 1
    BY DEF ChargeCoversPasses
  <2>7. \A r \in Row : Seen(r)' + left <= Z_LANE_CHUNK - 1
    BY <1>0, <2>2, <2>3, <2>4, <2>5, <2>6, SeenType
  <2>. QED BY <2>1, <2>7 DEF ChargeCoversPasses
<1>3. CASE EndRow
  <2>1. /\ pc = "row" /\ row < Rows /\ rest = {} /\ row' = row + 1
        /\ rest' = UnitPasses(ch) /\ UNCHANGED <<pc, block, ch, left>>
        /\ cnt' = [cnt EXCEPT ![row] = @ + Cardinality(UnitPasses(ch))]
    BY <1>3 DEF EndRow
  <2>2. row \in Row /\ row \in Nat
    BY <2>1, GadgetAssumption DEF TypeOK, Rows, Row
  <2>3. /\ Cardinality(UnitPasses(ch)) \in Nat
        /\ Cardinality(UnitPasses(ch)) <= OMEGA /\ IsShort(ch)
    BY <2>1, RestCardinality DEF ChargeCoversPasses, IsShort
  <2>4. \A r \in Row : cnt'[r] = (IF r = row THEN cnt[row] + Cardinality(UnitPasses(ch))
                                             ELSE cnt[r])
    BY <2>1, <2>2 DEF TypeOK
  <2>5. \A r \in Row : Seen(r)' = cnt'[r]
    BY <1>0, <2>1, <2>3, <2>4 DEF Seen
  <2>6. \A r \in Row : cnt[r] + left <= Z_LANE_CHUNK - 1
    <3>1. \A r \in Row : cnt[r] <= Seen(r) /\ Seen(r) \in Nat
      BY <1>0, SeenType, RestCardinality DEF Seen
    <3>. QED BY <1>0, <3>1 DEF ChargeCoversPasses
  <2>7. \A r \in Row : r >= row' => r >= row /\ r # row
    BY <2>1, <2>2 DEF Row
  <2>8. \A r \in Row : r >= row' => cnt'[r] + left' + OMEGA <= Z_LANE_CHUNK - 1
    BY <2>1, <2>4, <2>7 DEF ChargeCoversPasses
  <2>9. cnt[row] + left + OMEGA <= Z_LANE_CHUNK - 1
    BY <2>1, <2>2 DEF ChargeCoversPasses
  <2>10. \A r \in Row : cnt'[r] + left' <= Z_LANE_CHUNK - 1
    BY <1>0, <2>1, <2>2, <2>3, <2>4, <2>6, <2>9
  <2>. QED BY <2>1, <2>3, <2>5, <2>8, <2>10 DEF ChargeCoversPasses
<1>4. CASE EndShort
  <2>0. Rows \in Int /\ row \in Int
    BY GadgetAssumption DEF Rows, TypeOK
  <2>1. \A r \in Row : Seen(r)' = cnt[r] /\ Seen(r) = cnt[r]
    BY <1>4, <2>0 DEF EndShort, Seen
  <2>. QED BY <1>4, <2>1 DEF EndShort, ChargeCoversPasses
<1>5. CASE Dense
  <2>1. pc' # "row" /\ pc # "row" /\ cnt' = cnt /\ left' = left
    BY <1>5 DEF Dense
  <2>. QED BY <2>1 DEF ChargeCoversPasses, Seen
<1>6. CASE Finish
  BY <1>6 DEF Finish, ChargeCoversPasses, Seen
<1>7. CASE UNCHANGED vars
  BY <1>7 DEF vars, ChargeCoversPasses, Seen, Rows
<1>. QED BY <1>1, <1>2, <1>3, <1>4, <1>5, <1>6, <1>7 DEF Next

(* The budget charged since the last flush covers every pass a row has      *)
(* taken and every pass the current block may still make over it.           *)
THEOREM ChargeCorrect == Spec => []ChargeCoversPasses
<1>1. Init => ChargeCoversPasses
  BY ScheduleTypes DEF Init, ChargeCoversPasses, Seen, ZeroCounts
<1>2. TypeOK /\ ChargeCoversPasses /\ [Next]_vars => ChargeCoversPasses'
  BY ChargeStep
<1>. QED BY <1>1, <1>2, TypeCorrect, PTL DEF Spec

-----------------------------------------------------------------------------
(* THE LANES *)

(* Word w and lane h of a slot are digit 4w + h.                            *)
LEMMA WordDigit ==
  ASSUME NEW w \in Slot, NEW h \in 0 .. 3
  PROVE  /\ 4 * w + h \in Digit
         /\ (4 * w + h) \div 4 = w
         /\ (4 * w + h) % 4 = h
BY LaneAssumption, GadgetAssumption DEF Slot, Digit

(* One pass over a word with room in every lane moves lane h by the bias    *)
(* plus or minus digit 4w + h.                                              *)
LEMMA PassWordLanes ==
  ASSUME NEW k \in Coeff, NEW p \in Coeff, NEW w \in Slot, NEW word \in Word,
         block[row + 1][Source(k, p)] \in Nat,
         \A h \in 0 .. 3 : Lane(word, h) + (2 * GADGET_BASE - 1) < Z_LANE_1
  PROVE  \A h \in 0 .. 3 :
           Lane(PassWord(k, p, w, word), h) =
             Lane(word, h) + GADGET_BASE
               + Signed(ch, k, p, DigitAt(block[row + 1][Source(k, p)], 4 * w + h))
<1>. DEFINE b == GADGET_BASE
            x == block[row + 1][Source(k, p)]
            sub == Subtracts(IsNegative(ch[k]), k, p)
            d(h) == DigitAt(x, 4 * w + h)
            a(h) == IF sub THEN b - d(h) ELSE b + d(h)
<1>1. b \in Nat /\ b > 0
  BY GadgetAssumption, RingAssumption
<1>2. \A h \in 0 .. 3 : d(h) \in 0 .. (b - 1)
  <2>1. \A h \in 0 .. 3 : 4 * w + h \in Nat
    BY GadgetAssumption DEF Slot
  <2>2. x \in Nat
    OBVIOUS
  <2>. HIDE DEF x
  <2>. QED BY <2>1, <2>2, DigitRange
<1>3. \A h \in 0 .. 3 : a(h) \in Nat /\ a(h) <= 2 * b - 1
  <2>. HIDE DEF d, sub
  <2>. QED BY <1>1, <1>2
<1>4. \A h \in 0 .. 3 : Lane(word, h) + a(h) < Z_LANE_1
  <2>1. \A h \in 0 .. 3 : Lane(word, h) \in Nat
    BY PackOfLanes, UnitTypes DEF LaneValue
  <2>. HIDE DEF a
  <2>. QED BY <1>1, <1>3, <2>1, UnitTypes
<1>5. /\ d(0) \in 0 .. (b - 1) /\ d(1) \in 0 .. (b - 1)
      /\ d(2) \in 0 .. (b - 1) /\ d(3) \in 0 .. (b - 1)
  <2>. HIDE DEF d
  <2>. QED BY <1>2
<1>6. PassWord(k, p, w, word) = (word + Pack(a(0), a(1), a(2), a(3))) % WordSize
  <2>0. Spread(x, w) = Pack(d(0), d(1), d(2), d(3))
    <3>1. 4 * w + 0 = 4 * w
      BY GadgetAssumption DEF Slot
    <3>. QED BY <3>1 DEF Spread
  <2>1. Pack(b, b, b, b) + Pack(d(0), d(1), d(2), d(3))
          = Pack(b + d(0), b + d(1), b + d(2), b + d(3))
    <3>. HIDE DEF b, d
    <3>. QED BY <1>1, <1>5, UnitTypes DEF Pack
  <2>2. Pack(b, b, b, b) - Pack(d(0), d(1), d(2), d(3))
          = Pack(b - d(0), b - d(1), b - d(2), b - d(3))
    <3>. HIDE DEF b, d
    <3>. QED BY <1>1, <1>5, UnitTypes DEF Pack
  <2>3. CASE sub
    BY <2>0, <2>2, <2>3 DEF PassWord, Z_LANE_BIAS
  <2>4. CASE ~sub
    BY <2>0, <2>1, <2>4 DEF PassWord, Z_LANE_BIAS
  <2>. QED BY <2>3, <2>4
<1>7. /\ Lane(PassWord(k, p, w, word), 0) = Lane(word, 0) + a(0)
      /\ Lane(PassWord(k, p, w, word), 1) = Lane(word, 1) + a(1)
      /\ Lane(PassWord(k, p, w, word), 2) = Lane(word, 2) + a(2)
      /\ Lane(PassWord(k, p, w, word), 3) = Lane(word, 3) + a(3)
  <2>1. /\ a(0) \in Nat /\ a(1) \in Nat /\ a(2) \in Nat /\ a(3) \in Nat
        /\ Lane(word, 0) + a(0) < Z_LANE_1 /\ Lane(word, 1) + a(1) < Z_LANE_1
        /\ Lane(word, 2) + a(2) < Z_LANE_1 /\ Lane(word, 3) + a(3) < Z_LANE_1
    <3>. HIDE DEF a
    <3>. QED BY <1>3, <1>4
  <2>. HIDE DEF a
  <2>. QED BY <1>6, <2>1, LaneAdd
<1>8. \A h \in 0 .. 3 : Lane(PassWord(k, p, w, word), h) = Lane(word, h) + a(h)
  <2>1. \A h \in 0 .. 3 : h = 0 \/ h = 1 \/ h = 2 \/ h = 3
    OBVIOUS
  <2>. HIDE DEF a
  <2>. QED BY <1>7, <2>1
<1>9. \A h \in 0 .. 3 : Lane(word, h) + a(h) = Lane(word, h) + b + Signed(ch, k, p, d(h))
  <2>1. \A h \in 0 .. 3 : Lane(word, h) \in Nat
    BY PackOfLanes, UnitTypes DEF LaneValue
  <2>2. \A h \in 0 .. 3 : Signed(ch, k, p, d(h)) = (IF sub THEN -d(h) ELSE d(h))
    BY DEF Signed
  <2>. HIDE DEF d, sub
  <2>. QED BY <1>1, <1>2, <2>1, <2>2
<1>. QED BY <1>8, <1>9

(* Every lane of the accumulator is a lane value.                           *)
LEMMA LaneType ==
  ASSUME TypeOK, NEW r \in Row, NEW p \in Coeff, NEW e \in Digit
  PROVE  LaneOf(r, p, e) \in LaneValue /\ LaneOf(r, p, e) \in Nat
<1>1. e \div 4 \in Slot /\ e % 4 \in 0 .. 3
  BY DigitIndex
<1>2. zp[r][p][e \div 4] \in Word
  BY <1>1 DEF TypeOK
<1>3. Lane(zp[r][p][e \div 4], e % 4) \in LaneValue
  BY <1>1, <1>2, PackOfLanes
<1>. QED BY <1>3, UnitTypes DEF LaneOf, LaneValue

(* A lane that has seen s passes holds at most (2b - 1)s; one more fits     *)
(* whenever the schedule allows it.                                         *)
LEMMA LaneRoom ==
  ASSUME NEW s \in Nat, NEW l \in Nat, s + 1 <= Z_LANE_CHUNK - 1,
         l <= (2 * GADGET_BASE - 1) * s
  PROVE  l + (2 * GADGET_BASE - 1) < Z_LANE_1
<1>. DEFINE m == 2 * GADGET_BASE - 1
            c == Z_LANE_CHUNK - 1
<1>1. m \in Nat /\ c \in Nat /\ Z_LANE_1 \in Nat /\ s + 1 <= c /\ l <= m * s
  BY LaneAssumption, GadgetAssumption, RingAssumption, UnitTypes
<1>2. m * c < Z_LANE_1
  BY ScheduleAssumption
<1>. HIDE DEF m, c
<1>3. m * (s + 1) <= m * c
  BY <1>1
<1>4. m * (s + 1) = m * s + m /\ m * s \in Nat /\ m * c \in Nat
  BY <1>1
<1>5. l + m < Z_LANE_1
  BY <1>1, <1>2, <1>3, <1>4
<1>. QED BY <1>5 DEF m

(* What a pass does: one more pass seen by its row, and every lane of the   *)
(* row moved by the bias and its signed digit; the other rows keep theirs.  *)
LEMMA PassEffect ==
  ASSUME TypeOK, ChargeCoversPasses, LanesHold, Pass
  PROVE  /\ row \in Row
         /\ \A r \in Row : Seen(r)' = IF r = row THEN Seen(r) + 1 ELSE Seen(r)
         /\ \E x \in rest :
              /\ rest' = rest \ {x}
              /\ x[1] \in Coeff
              /\ \A r \in Row, p \in Coeff, e \in Digit :
                   LaneOf(r, p, e)' =
                     IF r = row
                     THEN LaneOf(r, p, e) + GADGET_BASE
                          + Signed(ch, x[1], p,
                                   DigitAt(block[row + 1][Source(x[1], p)], e))
                     ELSE LaneOf(r, p, e)
<1>1. /\ pc = "row" /\ row < Rows /\ UNCHANGED <<pc, block, ch, row, cnt, left>>
  BY DEF Pass
<1>2. PICK x \in rest :
        /\ zp' = [zp EXCEPT ![row] = [p \in Coeff |-> [w \in Slot |->
                    PassWord(x[1], p, w, zp[row][p][w])]]]
        /\ rest' = rest \ {x}
  BY DEF Pass
<1>3. row \in Row /\ x[1] \in Coeff
  BY <1>1, UnitPassesFinite, GadgetAssumption DEF TypeOK, Rows, Row
<1>4. /\ Cardinality(rest') = Cardinality(rest) - 1 /\ Cardinality(rest) \in Nat
      /\ Cardinality(UnitPasses(ch)) \in Nat
  BY <1>1, PassCardinality, RestCardinality
<1>5. \A r \in Row : Seen(r)' = IF r = row THEN Seen(r) + 1 ELSE Seen(r)
  <2>1. \A r \in Row : cnt[r] \in Nat
    BY DEF TypeOK
  <2>. QED BY <1>1, <1>3, <1>4, <2>1 DEF Seen, Rows
<1>6. Seen(row) \in Nat /\ Seen(row) + 1 <= Z_LANE_CHUNK - 1
  <2>1. ChargeCoversPasses'
    BY ChargeStep DEF Next
  <2>2. \A r \in Row : Seen(r)' + left <= Z_LANE_CHUNK - 1
    BY <1>1, <2>1 DEF ChargeCoversPasses
  <2>3. left \in Nat /\ Seen(row) \in Nat
    BY <1>3, SeenType DEF TypeOK
  <2>4. Seen(row) + 1 + left <= Z_LANE_CHUNK - 1
    BY <1>3, <1>5, <2>2
  <2>. QED BY <2>3, <2>4, ScheduleTypes
<1>7. ASSUME NEW r \in Row, r = row, NEW p \in Coeff, NEW e \in Digit
      PROVE  LaneOf(r, p, e)' = LaneOf(r, p, e) + GADGET_BASE
               + Signed(ch, x[1], p, DigitAt(block[row + 1][Source(x[1], p)], e))
  <2>. DEFINE w == e \div 4
              h == e % 4
              word == zp[row][p][w]
  <2>1. w \in Slot /\ h \in 0 .. 3 /\ e = 4 * w + h
    BY DigitIndex
  <2>2. word \in Word
    BY <1>3, <2>1 DEF TypeOK
  <2>3. zp'[row][p][w] = PassWord(x[1], p, w, word)
    BY <1>2, <1>3, <2>1 DEF TypeOK
  <2>4. \A g \in 0 .. 3 : Lane(word, g) + (2 * GADGET_BASE - 1) < Z_LANE_1
    <3>. SUFFICES ASSUME NEW g \in 0 .. 3
                  PROVE  Lane(word, g) + (2 * GADGET_BASE - 1) < Z_LANE_1
      OBVIOUS
    <3>1. /\ 4 * w + g \in Digit /\ (4 * w + g) \div 4 = w /\ (4 * w + g) % 4 = g
      BY <2>1, WordDigit
    <3>2. LaneOf(row, p, 4 * w + g) = Lane(word, g)
      BY <3>1 DEF LaneOf
    <3>3. /\ LaneOf(row, p, 4 * w + g) <= (2 * GADGET_BASE - 1) * Seen(row)
          /\ LaneOf(row, p, 4 * w + g) \in Nat
      BY <1>3, <3>1, LaneType DEF LanesHold
    <3>. QED BY <1>6, <3>2, <3>3, LaneRoom
  <2>5. block[row + 1][Source(x[1], p)] \in Nat
    BY <1>1, <1>3, <2>1, <2>2, PassWordType
  <2>6. Lane(PassWord(x[1], p, w, word), h) = Lane(word, h) + GADGET_BASE
          + Signed(ch, x[1], p, DigitAt(block[row + 1][Source(x[1], p)], 4 * w + h))
    <3>. HIDE DEF w, h, word
    <3>. QED BY <1>3, <2>1, <2>2, <2>4, <2>5, PassWordLanes
  <2>7. LaneOf(r, p, e)' = Lane(zp'[row][p][w], h)
    BY <1>7 DEF LaneOf
  <2>8. LaneOf(r, p, e) = Lane(word, h)
    BY <1>7 DEF LaneOf
  <2>. HIDE DEF w, h, word
  <2>. QED BY <2>1, <2>3, <2>6, <2>7, <2>8
<1>8. \A r \in Row, p \in Coeff, e \in Digit :
        r # row => LaneOf(r, p, e)' = LaneOf(r, p, e)
  BY <1>2, <1>3 DEF LaneOf, TypeOK
<1>9. \A r \in Row, p \in Coeff, e \in Digit :
        LaneOf(r, p, e)' =
          IF r = row
          THEN LaneOf(r, p, e) + GADGET_BASE
               + Signed(ch, x[1], p, DigitAt(block[row + 1][Source(x[1], p)], e))
          ELSE LaneOf(r, p, e)
  BY <1>7, <1>8
<1>. QED BY <1>2, <1>3, <1>5, <1>9, Zenon

(* A signed digit moves a biased lane up by 1 to 2b - 1.                    *)
LEMMA SignedRange ==
  ASSUME NEW k \in Coeff, NEW p \in Coeff, NEW v \in 0 .. (GADGET_BASE - 1)
  PROVE  /\ Signed(ch, k, p, v) \in Int
         /\ GADGET_BASE + Signed(ch, k, p, v) >= 1
         /\ GADGET_BASE + Signed(ch, k, p, v) <= 2 * GADGET_BASE - 1
BY GadgetAssumption, RingAssumption DEF Signed

(* The zero word has zero lanes.                                            *)
LEMMA ZeroLane == \A h \in 0 .. 3 : Lane(0, h) = 0
<1>1. Pack(0, 0, 0, 0) = 0 /\ 0 \in LaneValue
  BY UnitTypes DEF Pack, LaneValue
<1>2. \A h \in 0 .. 3 : h = 0 \/ h = 1 \/ h = 2 \/ h = 3
  OBVIOUS
<1>. QED BY <1>1, <1>2, LaneOfPack

(* Outside a pass and a flush, neither the lanes nor what they have seen    *)
(* changes; a flush clears both.                                            *)
LEMMA OtherEffect ==
  ASSUME TypeOK, [Next]_vars, ~Pass
  PROVE  \/ /\ zp' = zp
            /\ \A r \in Row : Seen(r)' = Seen(r)
         \/ /\ StartShort /\ MustFlush
            /\ zp' = ZeroLanes /\ cnt' = ZeroCounts
            /\ \A r \in Row : Seen(r)' = 0
<1>0. \A r \in Row : cnt[r] \in Nat
  BY DEF TypeOK
<1>1. CASE StartShort
  <2>1. /\ pc = "block" /\ pc' = "row" /\ rest' = UnitPasses(ch')
        /\ Cardinality(UnitPasses(ch')) \in Nat
    BY <1>1, UnitPassesFinite, InputAssumption DEF StartShort
  <2>2. CASE MustFlush
    BY <1>1, <2>1, <2>2 DEF StartShort, Seen, ZeroCounts
  <2>3. CASE ~MustFlush
    BY <1>0, <1>1, <2>1, <2>3 DEF StartShort, Seen
  <2>. QED BY <2>2, <2>3
<1>2. CASE EndRow
  <2>1. /\ pc = "row" /\ row < Rows /\ rest = {} /\ row' = row + 1
        /\ rest' = UnitPasses(ch) /\ UNCHANGED <<pc, block, ch, zp>>
        /\ cnt' = [cnt EXCEPT ![row] = @ + Cardinality(UnitPasses(ch))]
    BY <1>2 DEF EndRow
  <2>2. row \in Row /\ row \in Nat /\ row + 1 # row
    BY <2>1, GadgetAssumption DEF TypeOK, Rows, Row
  <2>3. Cardinality(UnitPasses(ch)) \in Nat /\ Cardinality(rest) = 0
    BY <2>1, RestCardinality, FS_EmptySet
  <2>4. \A r \in Row : Seen(r)' = cnt'[r]
    <3>1. \A r \in Row : cnt'[r] \in Nat
      BY <1>0, <2>1, <2>2, <2>3 DEF TypeOK
    <3>. QED BY <2>1, <2>3, <3>1 DEF Seen
  <2>5. \A r \in Row : Seen(r) = cnt'[r]
    BY <1>0, <2>1, <2>2, <2>3 DEF Seen, TypeOK
  <2>. QED BY <2>1, <2>4, <2>5
<1>3. CASE EndShort
  <2>0. Rows \in Int /\ row \in Int
    BY GadgetAssumption DEF Rows, TypeOK
  <2>. QED BY <1>3, <2>0 DEF EndShort, Seen
<1>4. CASE Dense
  BY <1>4 DEF Dense, Seen
<1>5. CASE Finish
  BY <1>5 DEF Finish, Seen
<1>6. CASE UNCHANGED vars
  BY <1>6 DEF vars, Seen, Rows
<1>. QED BY <1>1, <1>2, <1>3, <1>4, <1>5, <1>6 DEF Next

(* No step lets a lane leave the range its row's passes allow.              *)
LEMMA LanesStep ==
  ASSUME TypeOK, ChargeCoversPasses, LanesHold, [Next]_vars
  PROVE  LanesHold'
<1>1. CASE Pass
  <2>1. PICK x \in rest :
          /\ x[1] \in Coeff
          /\ \A r \in Row, p \in Coeff, e \in Digit :
               LaneOf(r, p, e)' =
                 IF r = row
                 THEN LaneOf(r, p, e) + GADGET_BASE
                      + Signed(ch, x[1], p,
                               DigitAt(block[row + 1][Source(x[1], p)], e))
                 ELSE LaneOf(r, p, e)
    BY <1>1, PassEffect
  <2>2. \A r \in Row : Seen(r)' = IF r = row THEN Seen(r) + 1 ELSE Seen(r)
    BY <1>1, PassEffect
  <2>. SUFFICES ASSUME NEW r \in Row, NEW p \in Coeff, NEW e \in Digit
                PROVE  /\ Seen(r)' <= LaneOf(r, p, e)'
                       /\ LaneOf(r, p, e)' <= (2 * GADGET_BASE - 1) * Seen(r)'
    BY DEF LanesHold
  <2>3. /\ Seen(r) \in Nat /\ LaneOf(r, p, e) \in Nat
        /\ Seen(r) <= LaneOf(r, p, e)
        /\ LaneOf(r, p, e) <= (2 * GADGET_BASE - 1) * Seen(r)
    BY SeenType, LaneType DEF LanesHold
  <2>4. CASE r # row
    BY <2>1, <2>2, <2>3, <2>4
  <2>5. CASE r = row
    <3>. DEFINE u == GADGET_BASE + Signed(ch, x[1], p,
                        DigitAt(block[row + 1][Source(x[1], p)], e))
                m == 2 * GADGET_BASE - 1
    <3>1. /\ u \in Int /\ u >= 1 /\ u <= m /\ m \in Nat
          /\ Signed(ch, x[1], p, DigitAt(block[row + 1][Source(x[1], p)], e)) \in Int
      <4>1. block[row + 1][Source(x[1], p)] \in Nat
        <5>1. Pass /\ 0 \in Slot /\ 0 \in Word
          BY <1>1, UnitTypes, LaneAssumption, GadgetAssumption DEF Slot, Word
        <5>. QED BY <2>1, <5>1, PassWordType DEF Pass
      <4>2. DigitAt(block[row + 1][Source(x[1], p)], e) \in 0 .. (GADGET_BASE - 1)
        BY <4>1, DigitIndex, DigitRange
      <4>. QED BY <2>1, <4>2, SignedRange, GadgetAssumption, RingAssumption
    <3>2. LaneOf(r, p, e)' = LaneOf(r, p, e) + u
      <4>2. LaneOf(r, p, e)' = LaneOf(r, p, e) + GADGET_BASE
              + Signed(ch, x[1], p, DigitAt(block[row + 1][Source(x[1], p)], e))
        BY <2>1, <2>5
      <4>. QED BY <2>3, <3>1, <4>2, GadgetAssumption, RingAssumption
    <3>3. Seen(r)' = Seen(r) + 1
      BY <2>2, <2>5
    <3>4. LaneOf(r, p, e) <= m * Seen(r) /\ m * (Seen(r) + 1) = m * Seen(r) + m
      BY <2>3, <3>1
    <3>5. m * Seen(r) \in Nat
      BY <2>3, <3>1
    <3>6. /\ Seen(r)' <= LaneOf(r, p, e)'
          /\ LaneOf(r, p, e)' <= m * Seen(r)'
      <4>. HIDE DEF u, m
      <4>. QED BY <2>3, <3>1, <3>2, <3>3, <3>4, <3>5
    <3>. QED BY <3>6
  <2>. QED BY <2>4, <2>5
<1>2. CASE ~Pass
  <2>1. CASE zp' = zp /\ \A r \in Row : Seen(r)' = Seen(r)
    BY <2>1 DEF LanesHold, LaneOf
  <2>2. CASE zp' = ZeroLanes /\ \A r \in Row : Seen(r)' = 0
    <3>1. \A r \in Row, p \in Coeff, e \in Digit : LaneOf(r, p, e)' = 0
      BY <2>2, DigitIndex, ZeroLane DEF LaneOf, ZeroLanes
    <3>2. (2 * GADGET_BASE - 1) * 0 = 0
      BY GadgetAssumption, RingAssumption
    <3>. QED BY <2>2, <3>1, <3>2 DEF LanesHold
  <2>. QED BY <1>2, <2>1, <2>2, OtherEffect
<1>. QED BY <1>1, <1>2

(* No lane of the packed accumulator ever borrows or carries, whatever the  *)
(* message and the challenges.                                              *)
THEOREM LanesCorrect == Spec => []LanesHold
<1>1. Init => LanesHold
  <2>. SUFFICES ASSUME Init PROVE LanesHold
    OBVIOUS
  <2>1. \A r \in Row : Seen(r) = 0
    BY DEF Init, Seen, ZeroCounts
  <2>2. \A r \in Row, p \in Coeff, e \in Digit : LaneOf(r, p, e) = 0
    BY DigitIndex, ZeroLane DEF Init, LaneOf, ZeroLanes
  <2>3. (2 * GADGET_BASE - 1) * 0 = 0
    BY GadgetAssumption, RingAssumption
  <2>. QED BY <2>1, <2>2, <2>3 DEF LanesHold
<1>2. TypeOK /\ ChargeCoversPasses /\ LanesHold /\ [Next]_vars => LanesHold'
  BY LanesStep
<1>. QED BY <1>1, <1>2, TypeCorrect, ChargeCorrect, PTL DEF Spec

-----------------------------------------------------------------------------
(* EXACTNESS *)

(* The parts a column's value is made of.                                   *)
LEMMA PartTypes ==
  ASSUME TypeOK, NEW j \in Column, NEW p \in Coeff
  PROVE  /\ acc[j][p] \in Fp /\ acc[j][p] \in Int
         /\ LaneOf(RowOf(j), p, DigitOf(j)) \in Nat
         /\ LaneOf(RowOf(j), p, DigitOf(j)) < Z_LANE_1
         /\ GADGET_BASE * Seen(RowOf(j)) \in Nat
<1>1. acc[j] \in Rq /\ \A f \in Rq : f[p] \in Fp
  BY DEF TypeOK, Rq
<1>2. RowOf(j) \in Row /\ DigitOf(j) \in Digit
  BY ColumnIndex
<1>3. LaneOf(RowOf(j), p, DigitOf(j)) \in LaneValue
  BY <1>2, LaneType
<1>4. Seen(RowOf(j)) \in Nat
  BY <1>2, SeenType
<1>5. GADGET_BASE * Seen(RowOf(j)) \in Nat
  BY <1>4, GadgetAssumption
<1>6. acc[j][p] \in Fp
  BY <1>1
<1>. QED BY <1>3, <1>5, <1>6, UnitTypes, RingAssumption DEF LaneValue, Fp

(* A flush at a block boundary reads off what every column stands for: the  *)
(* decode neither underflows nor wraps.                                     *)
LEMMA FlushValue ==
  ASSUME TypeOK, ChargeCoversPasses, pc = "block",
         NEW j \in Column, NEW p \in Coeff
  PROVE  /\ Flush[j][p] = Settled[j][p]
         /\ Flush[j][p] \in Fp
<1>. DEFINE r   == RowOf(j)
            l   == LaneOf(r, p, DigitOf(j))
            rec == GADGET_BASE * cnt[r]
            a   == acc[j][p]
<1>1. r \in Row /\ DigitOf(j) \in Digit
  BY ColumnIndex
<1>2. Seen(r) = cnt[r] /\ cnt[r] \in Nat
  BY <1>1 DEF Seen, TypeOK
<1>3. cnt[r] <= Z_LANE_CHUNK - 1
  <2>1. Seen(r) + left <= Z_LANE_CHUNK - 1 /\ left \in Nat
    BY <1>1 DEF ChargeCoversPasses, TypeOK
  <2>. QED BY <1>2, <2>1, ScheduleTypes
<1>4. rec \in Nat /\ rec <= Q
  <2>. DEFINE n == cnt[r]
              c == Z_LANE_CHUNK - 1
  <2>1. n \in Nat /\ c \in Nat /\ n <= c /\ GADGET_BASE \in Nat
    BY <1>2, <1>3, ScheduleTypes, GadgetAssumption, RingAssumption
  <2>2. GADGET_BASE * c <= Q
    BY ScheduleAssumption
  <2>. HIDE DEF n, c
  <2>3. GADGET_BASE * n <= GADGET_BASE * c /\ GADGET_BASE * n \in Nat
        /\ GADGET_BASE * c \in Nat
    BY <2>1
  <2>4. GADGET_BASE * n <= Q
    BY <2>2, <2>3, RingAssumption
  <2>. QED BY <2>3, <2>4 DEF n
<1>5. /\ a \in Int /\ l \in Nat /\ l < Z_LANE_1 /\ Q \in Nat
      /\ Z_LANE_1 \in Nat /\ WordSize \in Nat \ {0}
  BY PartTypes, UnitTypes, RingAssumption
<1>6. Flush[j][p] = (a + (((l + Q - rec) % WordSize) % Q)) % Q
  BY DEF Flush, Decode, LaneOf
<1>7. Settled[j][p] = (a + l - rec) % Q
  BY <1>2 DEF Settled
<1>8. Q + Z_LANE_1 <= WordSize
  BY ScheduleAssumption
<1>. HIDE DEF a, l, rec
<1>9. (l + Q - rec) % WordSize = l + Q - rec
  BY <1>4, <1>5, <1>8
<1>10. (a + ((l + Q - rec) % Q)) % Q = (a + (l + Q - rec)) % Q
  BY <1>4, <1>5, ModAdd
<1>11. a + (l + Q - rec) = (a + l - rec) + Q * 1 /\ a + l - rec \in Int
  BY <1>4, <1>5
<1>12. ((a + l - rec) + Q * 1) % Q = (a + l - rec) % Q
  BY <1>11, ModShift
<1>13. (a + l - rec) % Q \in Fp
  BY <1>11, ModSmall
<1>. QED BY <1>6, <1>7, <1>9, <1>10, <1>11, <1>12, <1>13

(* A pass changes every column of its row by its signed digit.              *)
LEMMA PassExact ==
  ASSUME TypeOK, ChargeCoversPasses, LanesHold, Pass
  PROVE  \E x \in rest \ rest' : \A j \in Column, p \in Coeff :
           Settled'[j][p] =
             IF RowOf(j) = row
             THEN (Settled[j][p] + Signed(ch, x[1], p,
                     DigitAt(block[row + 1][Source(x[1], p)], DigitOf(j)))) % Q
             ELSE Settled[j][p]
<1>1. PICK x \in rest :
        /\ rest' = rest \ {x}
        /\ x[1] \in Coeff
        /\ \A r \in Row, p \in Coeff, e \in Digit :
             LaneOf(r, p, e)' =
               IF r = row
               THEN LaneOf(r, p, e) + GADGET_BASE
                    + Signed(ch, x[1], p,
                             DigitAt(block[row + 1][Source(x[1], p)], e))
               ELSE LaneOf(r, p, e)
  BY PassEffect
<1>2. \A r \in Row : Seen(r)' = IF r = row THEN Seen(r) + 1 ELSE Seen(r)
  BY PassEffect
<1>3. pc = "row" /\ pc' = "row" /\ acc' = acc
  BY DEF Pass
<1>4. ASSUME NEW j \in Column, NEW p \in Coeff
      PROVE  Settled'[j][p] =
               IF RowOf(j) = row
               THEN (Settled[j][p] + Signed(ch, x[1], p,
                       DigitAt(block[row + 1][Source(x[1], p)], DigitOf(j)))) % Q
               ELSE Settled[j][p]
  <2>. DEFINE r == RowOf(j)
              e == DigitOf(j)
              v == Signed(ch, x[1], p, DigitAt(block[row + 1][Source(x[1], p)], e))
              l == LaneOf(r, p, e)
              s == Seen(r)
              a == acc[j][p]
  <2>1. r \in Row /\ e \in Digit
    BY ColumnIndex
  <2>2. Settled[j][p] = (a + l - GADGET_BASE * s) % Q
    BY <1>3 DEF Settled
  <2>3. Settled'[j][p] = (a + LaneOf(r, p, e)' - GADGET_BASE * Seen(r)') % Q
    BY <1>3, <2>1 DEF Settled
  <2>4. a \in Int /\ l \in Nat /\ s \in Nat /\ GADGET_BASE \in Nat
    BY <2>1, PartTypes, SeenType, GadgetAssumption, RingAssumption
  <2>5. CASE r # row
    BY <1>1, <1>2, <2>1, <2>2, <2>3, <2>5
  <2>6. CASE r = row
    <3>1. LaneOf(r, p, e)' = l + GADGET_BASE + v /\ Seen(r)' = s + 1
      BY <1>1, <1>2, <2>1, <2>6
    <3>2. v \in Int
      <4>1. Pass /\ 0 \in Slot /\ 0 \in Word
        BY UnitTypes, LaneAssumption, GadgetAssumption DEF Slot, Word
      <4>2. block[row + 1][Source(x[1], p)] \in Nat
        BY <1>1, <4>1, PassWordType DEF Pass
      <4>3. DigitAt(block[row + 1][Source(x[1], p)], e) \in 0 .. (GADGET_BASE - 1)
        BY <2>1, <4>2, DigitIndex, DigitRange
      <4>. QED BY <1>1, <4>3, SignedRange
    <3>. HIDE DEF v, l, s, a
    <3>3. a + (l + GADGET_BASE + v) - GADGET_BASE * (s + 1)
            = (a + l - GADGET_BASE * s) + v
      BY <2>4, <3>2
    <3>4. a + l - GADGET_BASE * s \in Int
      BY <2>4
    <3>5. (((a + l - GADGET_BASE * s) % Q) + v) % Q
             = ((a + l - GADGET_BASE * s) + v) % Q
      BY <3>2, <3>4, ModAdd
    <3>6. Settled'[j][p] = (Settled[j][p] + v) % Q
      BY <2>2, <2>3, <3>1, <3>3, <3>5
    <3>. QED BY <2>6, <3>6 DEF v
  <2>. QED BY <2>5, <2>6
<1>5. x \in rest \ rest'
  BY <1>1
<1>. QED BY <1>4, <1>5, Zenon

(* A dense block changes every column by its product.                       *)
LEMMA DenseExact ==
  ASSUME TypeOK, Dense, pc' = "block", NEW j \in Column, NEW p \in Coeff
  PROVE  Settled'[j][p] = (Settled[j][p] + RqMul(ch', DigitPoly(block', j))[p]) % Q
<1>. DEFINE r == RowOf(j)
            l == LaneOf(r, p, DigitOf(j))
            g == GADGET_BASE * Seen(r)
            a == acc[j][p]
            m == RqMul(ch', DigitPoly(block', j))[p]
<1>1. /\ pc = "block" /\ acc'[j][p] = (a + m) % Q
      /\ block' \in Seq(Rq) /\ Len(block') >= MESSAGE_ROWS /\ ch' \in Rq
  <2>1. PICK b \in BlockSet, c \in Challenges :
          /\ block' = b /\ ch' = c
          /\ IF Len(b) < MESSAGE_ROWS
             THEN pc' = "panic"
             ELSE acc' = [k \in Column |-> [o \in Coeff |->
                            (acc[k][o] + RqMul(c, DigitPoly(b, k))[o]) % Q]]
    BY DEF Dense
  <2>2. b \in Seq(Rq) /\ c \in Rq /\ Len(b) \in Nat /\ MESSAGE_ROWS \in Nat
    BY InputAssumption, GadgetAssumption
  <2>3. ~(Len(b) < MESSAGE_ROWS)
    BY <2>1
  <2>4. pc = "block"
    BY DEF Dense
  <2>. QED BY <2>1, <2>2, <2>3, <2>4
<1>2. /\ l' = l /\ g' = g
  <2>1. UNCHANGED <<zp, cnt>>
    BY DEF Dense
  <2>2. LaneOf(r, p, DigitOf(j))' = l
    BY <2>1 DEF LaneOf
  <2>3. Seen(r)' = Seen(r)
    BY <1>1, <2>1 DEF Seen
  <2>. QED BY <2>2, <2>3
<1>3. Settled[j][p] = (a + l - g) % Q /\ Settled'[j][p] = (acc'[j][p] + l' - g') % Q
  BY <1>1 DEF Settled
<1>4. a \in Int /\ l \in Int /\ g \in Int /\ m \in Int
  <2>1. DigitPoly(block', j) \in Rq
    <3>1. SUFFICES ASSUME NEW k \in Coeff
                   PROVE  DigitAt(block'[RowOf(j) + 1][k], DigitOf(j)) \in Fp
      BY DEF DigitPoly, Rq
    <3>2. RowOf(j) + 1 \in 1 .. Len(block') /\ DigitOf(j) \in Nat
      BY <1>1, ColumnIndex, DigitIndex, GadgetAssumption DEF Row
    <3>3. block'[RowOf(j) + 1] \in Rq
      BY <1>1, <3>2
    <3>4. block'[RowOf(j) + 1][k] \in Nat
      BY <3>3, RingAssumption DEF Rq, Fp
    <3>5. DigitAt(block'[RowOf(j) + 1][k], DigitOf(j)) \in 0 .. (GADGET_BASE - 1)
      BY <3>2, <3>4, DigitRange
    <3>. QED BY <3>5, GadgetAssumption, RingAssumption DEF Fp
  <2>2. RqMul(ch', DigitPoly(block', j)) \in Rq
    BY <1>1, <2>1, InputAssumption
  <2>3. \A f \in Rq : f[p] \in Int
    BY RingAssumption DEF Rq, Fp
  <2>. QED BY <2>2, <2>3, PartTypes
<1>. HIDE DEF a, l, g, m
<1>5. (((a + m) % Q) + (l - g)) % Q = ((a + m) + (l - g)) % Q
  BY <1>4, ModAdd
<1>6. (((a + l - g) % Q) + m) % Q = ((a + l - g) + m) % Q
  BY <1>4, ModAdd
<1>7. (a + m) + (l - g) = (a + l - g) + m
  BY <1>4
<1>8. ((a + m) % Q) + l - g = ((a + m) % Q) + (l - g)
  BY <1>4, ModSmall, RingAssumption
<1>9. Settled'[j][p] = (((a + m) % Q) + (l - g)) % Q
  BY <1>1, <1>2, <1>3, <1>8
<1>10. Settled'[j][p] = (Settled[j][p] + m) % Q
  BY <1>3, <1>5, <1>6, <1>7, <1>9
<1>. QED BY <1>10 DEF m

(* Every step changes the columns' values by exactly what it owes them.     *)
LEMMA ExactStepHolds ==
  ASSUME TypeOK, ChargeCoversPasses, LanesHold, [Next]_vars, TypeOK'
  PROVE  [ExactStep]_vars
<1>0. \A j \in Column, p \in Coeff :
        /\ acc[j][p] \in Int /\ (acc[j][p] \in Fp)
        /\ RowOf(j) \in Row /\ DigitOf(j) \in Digit
  BY PartTypes, ColumnIndex
<1>1. CASE Pass
  <2>1. PassTaken /\ ~DenseTaken
    BY <1>1 DEF Pass, PassTaken, DenseTaken
  <2>. QED BY <1>1, <2>1, PassExact DEF ExactStep
<1>2. CASE Dense /\ pc' = "block"
  <2>1. ~PassTaken /\ DenseTaken
    BY <1>2 DEF PassTaken, DenseTaken, Dense
  <2>2. \A j \in Column, p \in Coeff :
          Settled'[j][p] = (Settled[j][p] + RqMul(ch', DigitPoly(block', j))[p]) % Q
    BY <1>2, DenseExact
  <2>. QED BY <2>1, <2>2 DEF ExactStep
<1>3. CASE StartShort \/ EndRow \/ EndShort \/ (Dense /\ pc' # "block")
             \/ Finish \/ UNCHANGED vars
  <2>1. CASE UNCHANGED vars
    BY <2>1
  <2>2. CASE ~PassTaken /\ ~DenseTaken /\ ~UNCHANGED vars
    <3>. SUFFICES Settled' = Settled
      BY <2>2 DEF ExactStep
    <3>0. SUFFICES ASSUME NEW j \in Column, NEW p \in Coeff
                   PROVE  Settled'[j][p] = Settled[j][p]
      BY DEF Settled
    <3>1. CASE Finish
      <4>1. pc = "block" /\ pc' = "done" /\ acc' = Flush
        BY <3>1 DEF Finish
      <4>2. Settled'[j][p] = acc'[j][p]
        BY <4>1 DEF Settled
      <4>. QED BY <4>1, <4>2, FlushValue
    <3>2. CASE StartShort /\ MustFlush
      <4>1. /\ pc = "block" /\ pc' = "row" /\ acc' = Flush
            /\ zp' = ZeroLanes /\ cnt' = ZeroCounts
        BY <3>2 DEF StartShort
      <4>2. Seen(RowOf(j))' = 0
        <5>1. /\ rest' = UnitPasses(ch')
              /\ Cardinality(UnitPasses(ch')) \in Nat
          BY <3>2, UnitPassesFinite, InputAssumption DEF StartShort
        <5>2. cnt'[RowOf(j)] = 0
          BY <1>0, <4>1 DEF ZeroCounts
        <5>. QED BY <4>1, <5>1, <5>2 DEF Seen
      <4>3. LaneOf(RowOf(j), p, DigitOf(j))' = 0
        BY <1>0, <4>1, DigitIndex, ZeroLane DEF LaneOf, ZeroLanes
      <4>4. Settled'[j][p] = (Flush[j][p] + 0 - GADGET_BASE * 0) % Q
        BY <4>1, <4>2, <4>3 DEF Settled
      <4>5. Flush[j][p] = Settled[j][p] /\ Flush[j][p] \in Fp
        BY <4>1, FlushValue
      <4>6. Flush[j][p] + 0 - GADGET_BASE * 0 = Flush[j][p] /\ Flush[j][p] \in Int
        BY <4>5, GadgetAssumption, RingAssumption DEF Fp
      <4>. QED BY <4>4, <4>5, <4>6, ModSmall
    <3>3. CASE ~Finish /\ ~(StartShort /\ MustFlush)
      <4>1. ~Pass
        BY <2>2 DEF Pass, PassTaken
      <4>2. zp' = zp /\ \A r \in Row : Seen(r)' = Seen(r)
        BY <3>3, <4>1, OtherEffect
      <4>3. acc' = acc /\ pc # "done" /\ pc' # "done"
        <5>1. CASE StartShort
          BY <3>3, <5>1 DEF StartShort
        <5>2. CASE EndRow
          BY <5>2 DEF EndRow
        <5>3. CASE EndShort
          BY <5>3 DEF EndShort
        <5>4. CASE Dense /\ pc' # "block"
          BY <5>4 DEF Dense
        <5>. QED BY <1>3, <2>2, <3>3, <5>1, <5>2, <5>3, <5>4
      <4>4. LaneOf(RowOf(j), p, DigitOf(j))' = LaneOf(RowOf(j), p, DigitOf(j))
        BY <4>2 DEF LaneOf
      <4>5. Seen(RowOf(j))' = Seen(RowOf(j))
        BY <1>0, <4>2
      <4>. QED BY <4>3, <4>4, <4>5 DEF Settled
    <3>. QED BY <3>1, <3>2, <3>3
  <2>3. PassTaken \/ DenseTaken => UNCHANGED vars
    BY <1>3 DEF PassTaken, DenseTaken, StartShort, EndRow, EndShort, Dense, Finish, TypeOK
  <2>. QED BY <2>1, <2>2, <2>3
<1>. QED BY <1>1, <1>2, <1>3 DEF Next

(* Packing is invisible: a unit pass adds exactly its signed digit, a dense *)
(* block exactly its product, and neither the mid-run flush, the counters,  *)
(* nor the merge changes what any column stands for.                        *)
THEOREM ExactCorrect == Spec => ExactPasses
<1>1. (TypeOK /\ ChargeCoversPasses /\ LanesHold /\ TypeOK' /\ [Next]_vars)
        => [ExactStep]_vars
  BY ExactStepHolds
<1>. QED BY <1>1, TypeCorrect, ChargeCorrect, LanesCorrect, PTL DEF Spec, ExactPasses

-----------------------------------------------------------------------------
(* THE REFINEMENT *)

(* A block being passed and its challenge were drawn from the inputs.       *)
InputsDrawn == pc = "row" => block \in BlockSet /\ ch \in Challenges

LEMMA InputsDrawnStep ==
  ASSUME InputsDrawn, [Next]_vars
  PROVE  InputsDrawn'
BY DEF InputsDrawn, Next, vars, StartShort, Pass, EndRow, EndShort, Dense, Finish

(* The settled value of a coefficient is a number.                          *)
LEMMA SettledType ==
  ASSUME TypeOK, NEW j \in Column, NEW p \in Coeff
  PROVE  Settled[j][p] \in Fp /\ Settled[j][p] \in Int
<1>1. /\ acc[j][p] \in Fp /\ acc[j][p] \in Int
      /\ LaneOf(RowOf(j), p, DigitOf(j)) \in Int
      /\ GADGET_BASE * Seen(RowOf(j)) \in Int
  BY PartTypes
<1>. DEFINE l == LaneOf(RowOf(j), p, DigitOf(j))
            g == GADGET_BASE * Seen(RowOf(j))
            v == acc[j][p] + l - g
<1>2. v \in Int
  BY <1>1
<1>3. v % Q \in Fp
  <2>. HIDE DEF v
  <2>. QED BY <1>2, ModSmall
<1>4. Settled[j][p] = IF pc = "done" THEN acc[j][p] ELSE v % Q
  BY DEF Settled
<1>5. Settled[j][p] \in Fp
  BY <1>1, <1>3, <1>4
<1>. QED BY <1>5, RingAssumption DEF Fp

(* The rows of a block being passed.                                        *)
LEMMA RowsRange ==
  ASSUME TypeOK, NEW r \in Row
  PROVE  r < Rows <=> r < Len(block)
BY GadgetAssumption DEF TypeOK, Rows, Row

(* A unit pass over a row the block has adds a number.                      *)
LEMMA PassTerm ==
  ASSUME TypeOK, NEW j \in Column, NEW p \in Coeff, RowOf(j) < Rows,
         NEW x \in UnitPasses(ch)
  PROVE  Signed(ch, x[1], p, DigitPoly(block, j)[Source(x[1], p)]) \in Int
<1>1. DigitPoly(block, j) \in Rq
  BY ColumnIndex, RowsRange, DigitPolyType DEF TypeOK
<1>2. x[1] \in Coeff
  BY UnitPassesFinite DEF TypeOK
<1>3. DigitPoly(block, j)[Source(x[1], p)] \in Int
  BY <1>1, <1>2, SourceRange, RingAssumption DEF Rq, Fp
<1>. QED BY <1>3 DEF Signed

(* The passes taken are unit passes, and each adds a number.                *)
LEMMA TakenType ==
  ASSUME TypeOK, NEW j \in Column, NEW p \in Coeff
  PROVE  /\ Taken(RowOf(j)) \subseteq UnitPasses(ch)
         /\ IsFiniteSet(Taken(RowOf(j)))
         /\ \A x \in Taken(RowOf(j)) :
              Signed(ch, x[1], p, DigitPoly(block, j)[Source(x[1], p)]) \in Int
         /\ TakenSum(j, p) \in Int
<1>. DEFINE T == Taken(RowOf(j))
            f == [x \in T |-> Signed(ch, x[1], p, DigitPoly(block, j)[Source(x[1], p)])]
<1>1. T \subseteq UnitPasses(ch)
  BY DEF Taken
<1>2. IsFiniteSet(T)
  BY <1>1, UnitPassesFinite, FS_Subset DEF TypeOK
<1>3. ASSUME NEW x \in T PROVE f[x] \in Int
  <2>1. ~(RowOf(j) >= Rows) /\ RowOf(j) \in Row
    BY ColumnIndex DEF Taken
  <2>2. RowOf(j) < Rows
    BY <2>1, GadgetAssumption DEF TypeOK, Rows, Row
  <2>. QED BY <1>1, <2>2, PassTerm
<1>4. TakenSum(j, p) = SumFunctionOnSet(f, T)
  BY DEF TakenSum, SumFunction
<1>5. SumFunctionOnSet(f, T) \in Int
  <2>. HIDE DEF f, T
  <2>. QED BY <1>2, <1>3, SumInt
<1>. QED BY <1>1, <1>2, <1>3, <1>4, <1>5

(* With no pass taken there is nothing to take back.                        *)
LEMMA NothingTaken ==
  ASSUME TypeOK, pc # "row", NEW j \in Column, NEW p \in Coeff
  PROVE  /\ TakenSum(j, p) = 0
         /\ Completed[j][p] = Settled[j][p]
<1>1. Taken(RowOf(j)) = {}
  BY DEF Taken
<1>2. TakenSum(j, p) = 0
  BY <1>1, SumEmpty DEF TakenSum, SumFunction
<1>3. Settled[j][p] \in Fp /\ Settled[j][p] \in Int
  BY SettledType
<1>4. (Settled[j][p] - 0) % Q = Settled[j][p]
  BY <1>3, ModSmall
<1>. QED BY <1>2, <1>4 DEF Completed

(* A step that keeps both what is settled and what is taken changes nothing *)
(* the reference sees.                                                      *)
LEMMA SameCompleted ==
  ASSUME \A j \in Column, p \in Coeff :
           Settled'[j][p] = Settled[j][p] /\ TakenSum(j, p)' = TakenSum(j, p)
  PROVE  Completed' = Completed
BY DEF Completed

(* A unit pass moves its term from what is left to what is taken.           *)
LEMMA PassCompleted ==
  ASSUME TypeOK, TypeOK', ChargeCoversPasses, LanesHold, Pass
  PROVE  Completed' = Completed
<1>. SUFFICES ASSUME NEW j \in Column, NEW p \in Coeff
              PROVE  (Settled'[j][p] - TakenSum(j, p)') % Q
                       = (Settled[j][p] - TakenSum(j, p)) % Q
  BY DEF Completed
<1>1. PICK x \in rest \ rest' :
        Settled'[j][p] =
          IF RowOf(j) = row
          THEN (Settled[j][p] + Signed(ch, x[1], p,
                  DigitAt(block[row + 1][Source(x[1], p)], DigitOf(j)))) % Q
          ELSE Settled[j][p]
  BY PassExact
<1>2. /\ pc = "row" /\ pc' = "row" /\ row < Rows /\ row' = row /\ ch' = ch
      /\ block' = block /\ rest' = rest \ {x}
      /\ rest \subseteq UnitPasses(ch)
  BY <1>1 DEF Pass, TypeOK
<1>. DEFINE T == Taken(RowOf(j))
            f == [y \in T |-> Signed(ch, y[1], p, DigitPoly(block, j)[Source(y[1], p)])]
            g == [y \in Taken(RowOf(j))' |->
                    Signed(ch, y[1], p, DigitPoly(block, j)[Source(y[1], p)])]
            v == Signed(ch, x[1], p, DigitPoly(block, j)[Source(x[1], p)])
<1>3. Rows' = Rows /\ RowOf(j) \in Row /\ RowOf(j) \in Int /\ row \in Int /\ Rows \in Int
  BY <1>2, ColumnIndex, GadgetAssumption DEF Rows, Row, TypeOK
<1>4. TakenSum(j, p)' = SumFunctionOnSet(g, Taken(RowOf(j))') /\ TakenSum(j, p) = SumFunctionOnSet(f, T)
  BY <1>2 DEF TakenSum, SumFunction
<1>5. CASE RowOf(j) # row
  <2>1. Taken(RowOf(j))' = T
    BY <1>2, <1>3, <1>5 DEF Taken
  <2>2. g = f
    BY <2>1
  <2>. QED BY <1>1, <1>4, <1>5, <2>1, <2>2
<1>6. CASE RowOf(j) = row
  <2>1. T = UnitPasses(ch) \ rest /\ Taken(RowOf(j))' = T \cup {x} /\ x \notin T
    BY <1>1, <1>2, <1>3, <1>6 DEF Taken
  <2>2. IsFiniteSet(T) /\ \A y \in T : f[y] \in Int
    BY TakenType
  <2>3. \A y \in T \cup {x} : g[y] \in Int
    <3>1. \A y \in UnitPasses(ch) :
            Signed(ch, y[1], p, DigitPoly(block, j)[Source(y[1], p)]) \in Int
      BY <1>2, <1>6, PassTerm
    <3>. QED BY <1>1, <1>2, <2>1, <3>1
  <2>4. \A y \in T : g[y] = f[y]
    BY <2>1
  <2>5. g[x] = v
    BY <2>1
  <2>. DEFINE s == SumFunctionOnSet(f, T)
  <2>6. SumFunctionOnSet(g, T) = s
    <3>. HIDE DEF f, g, T
    <3>. QED BY <2>2, <2>4, SumEqual
  <2>7. SumFunctionOnSet(g, T \cup {x}) = s + v
    <3>. HIDE DEF f, g, T, s, v
    <3>. QED BY <2>1, <2>2, <2>3, <2>5, <2>6, SumAdd
  <2>8. s \in Int /\ v \in Int
    <3>1. v \in Int
      BY <2>3, <2>5
    <3>. HIDE DEF f, T, v
    <3>. QED BY <2>2, <3>1, SumInt
  <2>9. v = Signed(ch, x[1], p, DigitAt(block[row + 1][Source(x[1], p)], DigitOf(j)))
    <3>1. x[1] \in Coeff
      BY <1>1, <1>2, UnitPassesFinite DEF TypeOK
    <3>. QED BY <1>6, <3>1, SourceRange DEF DigitPoly
  <2>. DEFINE a == Settled[j][p]
  <2>10. a \in Int
    BY SettledType
  <2>11. Settled'[j][p] = (a + v) % Q
    BY <1>1, <1>6, <2>9
  <2>12. TakenSum(j, p)' = s + v /\ TakenSum(j, p) = s
    BY <1>4, <2>1, <2>7
  <2>. HIDE DEF a, s, v
  <2>13. (((a + v) % Q) - (s + v)) % Q = (a - s) % Q
    BY <2>8, <2>10, ModCancel
  <2>. QED BY <2>11, <2>12, <2>13 DEF a
<1>. QED BY <1>5, <1>6

(* The steps the reference does not see.                                    *)
LEMMA QuietCompleted ==
  ASSUME TypeOK, TypeOK', ChargeCoversPasses, LanesHold, [Next]_vars,
         ~Pass, ~EndShort, ~(Dense /\ pc' = "block")
  PROVE  Completed' = Completed /\ i' = i
<1>0. [ExactStep]_vars
  BY ExactStepHolds
<1>1. CASE StartShort \/ Finish \/ (Dense /\ pc' = "panic")
  <2>1. /\ pc # "row" /\ i' = i /\ pc' # pc /\ ~PassTaken /\ ~DenseTaken
        /\ \A r \in Row : Taken(r)' = {}
    <3>1. CASE StartShort
      BY <1>1, <3>1, GadgetAssumption DEF StartShort, PassTaken, DenseTaken, Taken, Row
    <3>2. CASE Finish
      BY <1>1, <3>2 DEF Finish, PassTaken, DenseTaken, Taken
    <3>3. CASE Dense /\ pc' = "panic"
      BY <1>1, <3>3 DEF Dense, PassTaken, DenseTaken, Taken
    <3>. QED BY <1>1, <3>1, <3>2, <3>3
  <2>2. Settled' = Settled
    BY <1>0, <2>1 DEF ExactStep, vars
  <2>3. ASSUME NEW j \in Column, NEW p \in Coeff
        PROVE  TakenSum(j, p)' = 0 /\ TakenSum(j, p) = 0
    <3>1. Taken(RowOf(j))' = {}
      BY <2>1, ColumnIndex
    <3>2. TakenSum(j, p)' = 0
      BY <3>1, SumEmpty DEF TakenSum, SumFunction
    <3>. QED BY <3>2, <2>1, NothingTaken
  <2>4. Completed' = Completed
    BY <2>2, <2>3, SameCompleted
  <2>. QED BY <2>1, <2>4
<1>2. CASE EndRow
  <2>1. /\ pc = "row" /\ pc' = "row" /\ row < Rows /\ row' = row + 1 /\ row \in Nat
        /\ rest = {} /\ rest' = UnitPasses(ch) /\ ch' = ch /\ block' = block /\ i' = i
        /\ ~PassTaken /\ ~DenseTaken
    BY <1>2 DEF EndRow, PassTaken, DenseTaken, TypeOK
  <2>2. Settled' = Settled
    BY <1>0, <2>1 DEF ExactStep, vars
  <2>3. \A r \in Row : Taken(r)' = Taken(r)
    <3>1. Rows' = Rows /\ Rows \in Int
      BY <2>1, GadgetAssumption DEF Rows, TypeOK
    <3>2. SUFFICES ASSUME NEW r \in Row PROVE Taken(r)' = Taken(r)
      OBVIOUS
    <3>3. r \in Int
      BY DEF Row
    <3>4. r < row \/ r = row \/ r = row + 1 \/ r > row + 1
      BY <2>1, <3>3
    <3>. QED BY <2>1, <3>1, <3>3, <3>4 DEF Taken
  <2>4. ASSUME NEW j \in Column, NEW p \in Coeff
        PROVE  TakenSum(j, p)' = TakenSum(j, p)
    BY <2>1, <2>3, ColumnIndex DEF TakenSum
  <2>5. Completed' = Completed
    BY <2>2, <2>4, SameCompleted
  <2>. QED BY <2>1, <2>5
<1>3. CASE UNCHANGED vars
  BY <1>3 DEF vars, Completed, Settled, TakenSum, Taken, Rows, Seen, LaneOf
<1>4. Dense => pc' = "block" \/ pc' = "panic"
  BY DEF Dense
<1>. QED BY <1>1, <1>2, <1>3, <1>4 DEF Next

(* The reference's scaled block, in this module's terms.                    *)
LEMMA ScaledHere ==
  ASSUME NEW b, NEW c, NEW j
  PROVE  HZ!Scaled(b, c, j) = IF RowOf(j) < Len(b) THEN NegMul(c, DigitPoly(b, j))
                                                   ELSE [p \in Coeff |-> 0]
<1>1. \A f : HZ!SumFunction(f) = SumFunction(f)
  BY DEF HZ!SumFunction, SumFunction, HZ!SumFunctionOnSet, SumFunctionOnSet,
         HZ!FoldFunctionOnSet, FoldFunctionOnSet, HZ!MapThenFoldSet, MapThenFoldSet
<1>2. HZ!Coeff = Coeff /\ \A k, p : HZ!Source(k, p) = Source(k, p)
  BY DEF HZ!Coeff, Coeff, HZ!Source, Source
<1>3. HZ!NegMul(c, DigitPoly(b, j)) = NegMul(c, DigitPoly(b, j))
  BY <1>1, <1>2 DEF HZ!NegMul, NegMul
<1>4. HZ!RowOf(j) = RowOf(j) /\ HZ!DigitOf(j) = DigitOf(j)
  BY DEF HZ!RowOf, RowOf, HZ!DigitOf, DigitOf
<1>5. HZ!DigitPoly(b, j) = DigitPoly(b, j)
  BY <1>2, <1>4 DEF HZ!DigitPoly, DigitPoly, HZ!DigitAt, DigitAt, HZ!Quotients, Quotients
<1>. QED BY <1>2, <1>3, <1>4, <1>5 DEF HZ!Scaled

(* The end of a short block is the reference's step with that block.        *)
LEMMA EndShortCompleted ==
  ASSUME TypeOK, TypeOK', ChargeCoversPasses, LanesHold, InputsDrawn, EndShort
  PROVE  HZ!AddBlock
<1>1. /\ pc = "row" /\ pc' = "block" /\ row >= Rows /\ i' = i + 1 /\ i < BLOCKS
      /\ block' = block /\ ch' = ch /\ ~PassTaken /\ ~DenseTaken
      /\ block \in BlockSet /\ ch \in Challenges
  BY DEF EndShort, TypeOK, InputsDrawn, PassTaken, DenseTaken
<1>2. Settled' = Settled
  BY <1>1, ExactStepHolds DEF ExactStep, vars, Next
<1>3. ASSUME NEW j \in Column, NEW p \in Coeff
      PROVE  Completed'[j][p] = (Completed[j][p] + HZ!Scaled(block, ch, j)[p]) % Q
  <2>. DEFINE a == Settled[j][p]
              s == TakenSum(j, p)
              t == HZ!Scaled(block, ch, j)[p]
  <2>1. Completed'[j][p] = a % Q
    <3>1. Taken(RowOf(j))' = {}
      BY <1>1 DEF Taken
    <3>2. TakenSum(j, p)' = 0
      BY <3>1, SumEmpty DEF TakenSum, SumFunction
    <3>3. Completed'[j][p] = (Settled'[j][p] - TakenSum(j, p)') % Q
      BY DEF Completed
    <3>4. a \in Int
      BY SettledType
    <3>. QED BY <1>2, <3>2, <3>3, <3>4
  <2>2. t \in Int /\ s % Q = t % Q
    <3>0. RowOf(j) \in Row /\ RowOf(j) \in Int /\ Rows \in Int /\ row \in Int
      BY ColumnIndex, GadgetAssumption DEF TypeOK, Rows, Row
    <3>1. CASE RowOf(j) < Rows
      <4>1. Taken(RowOf(j)) = UnitPasses(ch)
        BY <1>1, <3>0, <3>1 DEF Taken
      <4>2. RowOf(j) < Len(block) /\ DigitPoly(block, j) \in Rq
        BY <3>0, <3>1, RowsRange, DigitPolyType DEF TypeOK
      <4>3. s % Q = NegMul(ch, DigitPoly(block, j))[p]
        BY <4>1, <4>2, UnitPassesExact DEF TakenSum, TypeOK
      <4>4. t = NegMul(ch, DigitPoly(block, j))[p]
        BY <4>2, ScaledHere
      <4>5. s % Q \in Fp
        BY TakenType, ModSmall
      <4>. HIDE DEF s, t
      <4>. QED BY <4>3, <4>4, <4>5, ModSmall, RingAssumption DEF Fp
    <3>2. CASE ~(RowOf(j) < Rows)
      <4>1. Taken(RowOf(j)) = {}
        BY <3>0, <3>2 DEF Taken
      <4>2. s = 0
        BY <4>1, SumEmpty DEF TakenSum, SumFunction
      <4>3. t = 0
        BY <3>0, <3>2, RowsRange, ScaledHere
      <4>. QED BY <4>2, <4>3
    <3>. QED BY <3>1, <3>2
  <2>3. a \in Int /\ s \in Int
    BY SettledType, TakenType
  <2>4. Completed[j][p] = (a - s) % Q
    BY DEF Completed
  <2>. HIDE DEF a, s, t
  <2>5. a % Q = (((a - s) % Q) + t) % Q
    BY <2>2, <2>3, ModReturn
  <2>. QED BY <2>1, <2>4, <2>5 DEF t
<1>4. Completed' = [j \in Column |-> [p \in Coeff |->
                      (Completed[j][p] + HZ!Scaled(block, ch, j)[p]) % Q]]
  BY <1>3 DEF Completed
<1>. QED BY <1>1, <1>4 DEF HZ!AddBlock, HZ!Column, Column, HZ!Coeff, Coeff

(* A dense block is the reference's step with that block, if the generic    *)
(* product is the schoolbook's.                                             *)
LEMMA DenseCompleted ==
  ASSUME \A a, s \in Rq : RqMul(a, s) = NegMul(a, s),
         TypeOK, TypeOK', Dense, pc' = "block"
  PROVE  HZ!AddBlock
<1>1. PICK b \in BlockSet, c \in Challenges :
        /\ block' = b /\ ch' = c /\ Len(b) >= MESSAGE_ROWS /\ i' = i + 1
  <2>. \A b \in BlockSet : Len(b) \in Nat
    BY InputAssumption
  <2>. QED BY GadgetAssumption DEF Dense
<1>2. pc = "block" /\ i < BLOCKS
  BY DEF Dense
<1>3. ASSUME NEW j \in Column, NEW p \in Coeff
      PROVE  Completed'[j][p] = (Completed[j][p] + HZ!Scaled(b, c, j)[p]) % Q
  <2>1. Settled'[j][p] = (Settled[j][p] + RqMul(c, DigitPoly(b, j))[p]) % Q
    BY <1>1, DenseExact
  <2>2. b \in Seq(Rq) /\ c \in Rq
    BY InputAssumption
  <2>3. RowOf(j) < Len(b)
    BY <1>1, <2>2, ColumnIndex, GadgetAssumption DEF Row
  <2>4. RqMul(c, DigitPoly(b, j)) = HZ!Scaled(b, c, j)
    BY <2>2, <2>3, DigitPolyType, ScaledHere
  <2>5. Completed[j][p] = Settled[j][p]
    BY <1>2, NothingTaken
  <2>6. Completed'[j][p] = Settled'[j][p]
    <3>1. Taken(RowOf(j))' = {}
      BY DEF Taken
    <3>2. TakenSum(j, p)' = 0
      BY <3>1, SumEmpty DEF TakenSum, SumFunction
    <3>3. Completed'[j][p] = (Settled'[j][p] - TakenSum(j, p)') % Q
      BY DEF Completed
    <3>4. Settled'[j][p] \in Fp /\ Settled'[j][p] \in Int
      <4>1. RqMul(c, DigitPoly(b, j))[p] \in Int /\ Settled[j][p] \in Int
        BY <2>2, <2>3, DigitPolyType, InputAssumption, SettledType, RingAssumption DEF Rq, Fp
      <4>. QED BY <2>1, <4>1, ModSmall, RingAssumption DEF Fp
    <3>. QED BY <3>2, <3>3, <3>4, ModSmall
  <2>. QED BY <2>1, <2>4, <2>5, <2>6
<1>4. Completed' = [j \in Column |-> [p \in Coeff |->
                      (Completed[j][p] + HZ!Scaled(b, c, j)[p]) % Q]]
  BY <1>3 DEF Completed
<1>. QED BY <1>1, <1>2, <1>4 DEF HZ!AddBlock, HZ!Column, Column, HZ!Coeff, Coeff

(* The packed fold implements the reference fold: at every block boundary   *)
(* the value its lanes, counters and accumulator stand for is the sum of    *)
(* the challenge-scaled digit blocks folded so far.                         *)
THEOREM RefinesHonestZ ==
  ASSUME \A a, s \in Rq : RqMul(a, s) = NegMul(a, s)
  PROVE  Spec => ImplementsHonestZ
<1>1. Init => HZ!Init
  <2>. SUFFICES ASSUME Init PROVE HZ!Init
    OBVIOUS
  <2>1. ASSUME NEW j \in Column, NEW p \in Coeff PROVE Completed[j][p] = 0
    <3>1. Taken(RowOf(j)) = {}
      BY DEF Taken, Init
    <3>2. TakenSum(j, p) = 0
      BY <3>1, SumEmpty DEF TakenSum, SumFunction
    <3>3. Settled[j][p] = 0
      <4>1. LaneOf(RowOf(j), p, DigitOf(j)) = 0
        BY ColumnIndex, DigitIndex, ZeroLane DEF Init, LaneOf, ZeroLanes
      <4>2. Seen(RowOf(j)) = 0 /\ acc[j][p] = 0
        BY ColumnIndex DEF Init, Seen, ZeroCounts, ZeroRq
      <4>3. (0 + 0 - GADGET_BASE * 0) % Q = 0
        BY GadgetAssumption, RingAssumption
      <4>. QED BY <4>1, <4>2, <4>3 DEF Settled, Init
    <3>. QED BY <3>2, <3>3, RingAssumption DEF Completed
  <2>2. Completed = [j \in Column |-> [p \in Coeff |-> 0]]
    BY <2>1 DEF Completed
  <2>. QED BY <2>2 DEF Init, HZ!Init, HZ!Column, Column, HZ!Coeff, Coeff
<1>2. Init => InputsDrawn
  BY DEF Init, InputsDrawn
<1>3. InputsDrawn /\ [Next]_vars => InputsDrawn'
  BY InputsDrawnStep
<1>4. /\ TypeOK /\ TypeOK' /\ ChargeCoversPasses /\ LanesHold /\ InputsDrawn
      /\ [Next]_vars
      => [HZ!AddBlock]_(HZ!hzvars)
  <2>. SUFFICES ASSUME TypeOK, TypeOK', ChargeCoversPasses, LanesHold, InputsDrawn,
                       [Next]_vars
                PROVE  [HZ!AddBlock]_(HZ!hzvars)
    OBVIOUS
  <2>1. CASE Pass
    BY <2>1, PassCompleted DEF HZ!hzvars, Pass
  <2>2. CASE EndShort
    BY <2>2, EndShortCompleted
  <2>3. CASE Dense /\ pc' = "block"
    BY <2>3, DenseCompleted
  <2>4. CASE ~Pass /\ ~EndShort /\ ~(Dense /\ pc' = "block")
    BY <2>4, QuietCompleted DEF HZ!hzvars
  <2>. QED BY <2>1, <2>2, <2>3, <2>4
<1>. QED BY <1>1, <1>2, <1>3, <1>4, TypeCorrect, ChargeCorrect, LanesCorrect, PTL
     DEF Spec, ImplementsHonestZ, HZ!Spec
=============================================================================
