----------------------------- MODULE LaneFlush ------------------------------
(***************************************************************************)
(* The range side of a sumcheck round over the extension field             *)
(* F_q[Y]/(Y^4 - 2), as round_poly_zero computes it (sumcheck.rs): every   *)
(* coefficient of the round polynomial is four machine words, a pair of    *)
(* table entries adds its unreduced products to them, and the words are    *)
(* reduced modulo q once per FLUSH pairs, before they can wrap.            *)
(***************************************************************************)
EXTENDS Gadget, Sequences
LOCAL INSTANCE FiniteSetsExt
LOCAL INSTANCE TLC

CONSTANTS
  LANE_WORD,    \* what a lane counts modulo (2^128)
  FLUSH,        \* pairs between two reductions (ZERO_LANE_FLUSH)
  SHIFT_T,      \* the table of the Taylor shift, one row per odd degree
  Pairs,        \* the pairs a table may hold: [lo, hi, eq]
  MAX_PAIRS     \* bound: pairs of a table

SHIFT_ROWS == GADGET_BASE
SHIFT_DEG  == 2 * GADGET_BASE

Component   == 0 .. 3
Coefficient == 0 .. (SHIFT_DEG - 1)
Lane        == 0 .. (4 * SHIFT_DEG - 1)
Ext4        == [Component -> Fp]
ZeroExt     == [r \in Component |-> 0]
OneExt      == [r \in Component |-> IF r = 0 THEN 1 ELSE 0]

-----------------------------------------------------------------------------
(* ext4_mul_raw: component r of the product, unreduced; Y^4 = 2.            *)
RawMul(a, b, r) ==
  CASE r = 0 -> a[0] * b[0] + 2 * (a[1] * b[3] + a[2] * b[2] + a[3] * b[1])
    [] r = 1 -> a[0] * b[1] + a[1] * b[0] + 2 * (a[2] * b[3] + a[3] * b[2])
    [] r = 2 -> a[0] * b[2] + a[1] * b[1] + a[2] * b[0] + 2 * (a[3] * b[3])
    [] r = 3 -> a[0] * b[3] + a[1] * b[2] + a[2] * b[1] + a[3] * b[0]

(* The multiplication and subtraction of the field.                         *)
ExtMul(a, b) == [r \in Component |-> RawMul(a, b, r) % Q] @@ << >>
ExtSub(a, b) == [r \in Component |-> (a[r] - b[r]) % Q] @@ << >>

(* start x^k, one factor at a time.                                         *)
TimesPower(start, x, k) == FoldSet(LAMBDA i, acc : ExtMul(acc, x), start, 1 .. k)
ShiftPowers(x) == [k \in Coefficient |-> TimesPower(OneExt, x, k)] @@ << >>

(* shift_inner: only odd degrees, one reduction at the end.                 *)
ShiftInner(lop, m) ==
  [r \in Component |->
     MapThenSumSet(LAMBDA j : SHIFT_T[j * SHIFT_DEG + m] * lop[2 * j + 1 - m][r],
                   (m \div 2) .. (SHIFT_ROWS - 1)) % Q]

(* What a pair multiplies into the coefficients: e d^m and S_m(lo).         *)
EPow(pr)  == [m \in Coefficient |-> TimesPower(pr.eq, ExtSub(pr.hi, pr.lo), m)]
Inner(pr) == LET lop == ShiftPowers(pr.lo) IN [m \in Coefficient |-> ShiftInner(lop, m)]
BothZero(pr) == pr.lo = ZeroExt /\ pr.hi = ZeroExt

-----------------------------------------------------------------------------
VARIABLES
  pairs,   \* the tables w and eq
  y,       \* the next pair
  lanes,   \* lane 4 m + r: component r of coefficient m
  since,   \* pairs added since the last reduction
  out      \* the coefficients of the round polynomial, once made

lanevars == <<pairs, y, lanes, since, out>>

LaneInit ==
  /\ pairs \in UNION { [1 .. n -> Pairs] : n \in 0 .. MAX_PAIRS }
  /\ y = 0 /\ since = 0
  /\ lanes = [l \in Lane |-> 0]
  /\ out = << >>

Pair == pairs[y + 1]

(* shift_accum_lanes: every lane group takes its product.                   *)
Accumulated ==
  LET epow == EPow(Pair)
      s    == Inner(Pair)
  IN  [l \in Lane |-> (lanes[l] + RawMul(epow[l \div 4], s[l \div 4], l % 4)) % LANE_WORD]
Flushed(ls) == [l \in Lane |-> ls[l] % Q]

MustFlushLate == since + 1 > FLUSH   \* mutant: one pair too late
MustFlush == since + 1 >= FLUSH

Skip ==
  /\ y < Len(pairs) /\ BothZero(Pair)
  /\ y' = y + 1
  /\ UNCHANGED <<pairs, lanes, since, out>>

Accumulate ==
  /\ y < Len(pairs) /\ ~BothZero(Pair)
  /\ y' = y + 1
  /\ IF MustFlush THEN lanes' = Flushed(Accumulated) /\ since' = 0
                  ELSE lanes' = Accumulated /\ since' = since + 1
  /\ UNCHANGED <<pairs, out>>

(* lanes_to_coeffs, and the zero coefficient of the top degree.             *)
Coefficients == [m \in 0 .. SHIFT_DEG |->
  IF m = SHIFT_DEG THEN ZeroExt ELSE [r \in Component |-> lanes[4 * m + r] % Q]]
Finish ==
  /\ y = Len(pairs) /\ out = << >>
  /\ out' = Coefficients
  /\ UNCHANGED <<pairs, y, lanes, since>>

LaneNext == Skip \/ Accumulate \/ Finish
LaneSpec == LaneInit /\ [][LaneNext]_lanevars

-----------------------------------------------------------------------------
(* The reference: e P_b(lo + d T), multiplied out factor by factor.  A      *)
(* polynomial is a sequence of field elements, the constant one first.      *)

ExtAdd(a, b) == [r \in Component |-> (a[r] + b[r]) % Q] @@ << >>
Product(f, g) ==
  [n \in 1 .. (Len(f) + Len(g) - 1) |->
     FoldSet(LAMBDA i, acc : ExtAdd(acc, ExtMul(f[i], g[n + 1 - i])), ZeroExt,
             { i \in DOMAIN f : n + 1 - i \in DOMAIN g })] @@ << >>
Lowered(f, c) == [f EXCEPT ![1] = ExtSub(@, [r \in Component |-> IF r = 0 THEN c % Q ELSE 0])]
RangeOfPair(pr) ==
  LET line   == <<pr.lo, ExtSub(pr.hi, pr.lo)>>
      square == Product(line, line)
  IN  Product(<<pr.eq>>, FoldSet(LAMBDA j, f : Product(f, Lowered(square, j * j)), line,
                                 1 .. (GADGET_BASE - 1)))
Contribution(pr) == LET f == RangeOfPair(pr) IN [m \in Coefficient |-> f[m + 1]]

-----------------------------------------------------------------------------
(* The period leaves room for its pairs on top of a reduced lane; component *)
(* 0 of a product is seven base products (sumcheck.rs, ZERO_LANE_FLUSH).    *)
LaneBound == 7 * ((Q - 1) * (Q - 1))
ASSUME PeriodAssumption ==
  /\ LANE_WORD \in Nat /\ FLUSH \in Nat \ {0}
  /\ (Q - 1) + FLUSH * LaneBound < LANE_WORD

(* The table is that of P_b: the shift of a pair is the product multiplied  *)
(* out, and a pair of zeros contributes nothing (zero is a digit).          *)
ASSUME TableAssumption ==
  \A pr \in Pairs :
    LET epow == EPow(pr)
        s    == Inner(pr)
        term == Contribution(pr)
    IN  \A m \in Coefficient :
          /\ epow[m] \in Ext4 /\ s[m] \in Ext4
          /\ \A r \in Component :
               /\ RawMul(epow[m], s[m], r) % Q = term[m][r]
               /\ BothZero(pr) => term[m][r] = 0

-----------------------------------------------------------------------------
(* What lane l stands for, before and after the coefficients are made.      *)
Denoted(l) == IF out = << >> THEN lanes[l] % Q ELSE out[l \div 4][l % 4]

(* A pair, skipped or added, with or without the reduction, changes every   *)
(* coefficient by exactly the pair's term of sum eq P_b(lo + d T): no lane  *)
(* wraps however long the table (sumcheck.rs, round_poly_zero_lanes), and   *)
(* making the coefficients changes none.                                    *)
ExactPair ==
  LET term == IF y' = y THEN << >> ELSE Contribution(Pair)
  IN  \A l \in Lane :
        Denoted(l)' = IF y' = y THEN Denoted(l)
                      ELSE (Denoted(l) + term[l \div 4][l % 4]) % Q
ExactPairs == [][ExactPair]_lanevars
=============================================================================
