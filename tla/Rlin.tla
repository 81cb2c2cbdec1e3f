-------------------------------- MODULE Rlin ---------------------------------
(***************************************************************************)
(* The linear relation the opening is reduced to (quadeval.rs rlin_row,    *)
(* rlin_stmt, stack; ringswitch.rs RlinBlocks and the row sums): five bands *)
(* of rows over three bands of columns, held as blocks, never as a matrix. *)
(* Rows and columns count from zero, vectors are sequences.                *)
(***************************************************************************)
EXTENDS Linalg, BoundedGadget

CONSTANTS
  BLOCKS,
  KeyA, KeyB, KeyD     \* the inner, outer and carrier matrices

INNER_ROWS == Len(KeyA)
InnerCols  == MESSAGE_ROWS * GADGET_DIGITS
Cw == BLOCKS * GADGET_DIGITS
Ct == BLOCKS * (INNER_ROWS * GADGET_DIGITS)
Cz == InnerCols * Z_DIGITS
DRows == Len(KeyD)
BRows == Len(KeyB)
RlinRows == DRows + (BRows + (1 + (1 + INNER_ROWS)))

(* tensor_g_matrix: row p takes digit f of entry p of every block.          *)
TensorRow(p, c) ==
  StoredVec([k \in 1 .. Ct |->
     LET i == (k - 1) \div (INNER_ROWS * GADGET_DIGITS)
         e == ((k - 1) \div GADGET_DIGITS) % INNER_ROWS
     IN  IF e = p THEN ScaledBy(BasePow((k - 1) % GADGET_DIGITS), c[i + 1]) ELSE ZeroRq])
NegVec(v) == StoredVec([k \in DOMAIN v |-> NegRq(v[k])])

-----------------------------------------------------------------------------
(* rlin_row: one row of the matrix, written out.                            *)

GB(stmt) == GadgetTransposeMul(BLOCKS, GADGET_DIGITS, stmt.b)
GC(c)    == GadgetTransposeMul(BLOCKS, GADGET_DIGITS, c)
GA(stmt) == GadgetTransposeMul(MESSAGE_ROWS, GADGET_DIGITS, stmt.a)
JtSwapped(g) == GadgetTransposeMul(MESSAGE_ROWS * Z_DIGITS, GADGET_DIGITS, g)   \* mutant
Jt(g) == GadgetTransposeMul(InnerCols, Z_DIGITS, g)

RlinRow(stmt, c, i) ==
  LET p == i - (DRows + BRows + 2)
  IN  CASE i < DRows          -> SubSeq(KeyD[i + 1], 1, Cw) \o ZeroVec(Ct + Cz)
        [] i \in DRows .. (DRows + BRows - 1)
                              -> ZeroVec(Cw) \o SubSeq(KeyB[i - DRows + 1], 1, Ct) \o ZeroVec(Cz)
        [] i = DRows + BRows  -> GB(stmt) \o ZeroVec(Ct + Cz)
        [] i = DRows + BRows + 1 -> GC(c) \o ZeroVec(Ct) \o NegVec(Jt(GA(stmt)))
        [] i > DRows + BRows + 1 -> ZeroVec(Cw) \o TensorRow(p, c) \o NegVec(Jt(KeyA[p + 1]))

(* rlin_stmt: the blocks, each made once, and the right-hand side.          *)
RlinBlocks(stmt, c) ==
  [ d |-> [i \in 1 .. DRows |-> SubSeq(KeyD[i], 1, Cw)],
    bmat |-> [i \in 1 .. BRows |-> SubSeq(KeyB[i], 1, Ct)],
    g_b |-> GB(stmt), g_c |-> GC(c), neg_jt_g_a |-> NegVec(Jt(GA(stmt))),
    tensor |-> StoredVec([p \in 1 .. INNER_ROWS |-> TensorRow(p - 1, c)]),
    neg_aj |-> StoredVec([p \in 1 .. INNER_ROWS |-> NegVec(Jt(KeyA[p]))]),
    cw |-> Cw, ct |-> Ct, cz |-> Cz ]
RlinY(stmt, v) == v \o stmt.u \o <<stmt.y>> \o ZeroVec(1 + INNER_ROWS)

(* RlinMat::entry on blocks: a band, and a position in it.                  *)
Entry(b, i, j) ==
  LET d == Len(b.d)
      o == Len(b.bmat)
      inW == j < b.cw
      inT == j >= b.cw /\ j < b.cw + b.ct
      inZ == j >= b.cw + b.ct
      p == i - d - o - 2
  IN  CASE i < d /\ inW                     -> b.d[i + 1][j + 1]
        [] i >= d /\ i < d + o /\ inT       -> b.bmat[i - d + 1][j - b.cw + 1]
        [] i = d + o /\ inW                 -> b.g_b[j + 1]
        [] i = d + o + 1 /\ inW             -> b.g_c[j + 1]
        [] i = d + o + 1 /\ inZ             -> b.neg_jt_g_a[j - b.cw - b.ct + 1]
        [] i > d + o + 1 /\ inT             -> b.tensor[p + 1][j - b.cw + 1]
        [] i > d + o + 1 /\ inZ             -> b.neg_aj[p + 1][j - b.cw - b.ct + 1]
        [] OTHER                            -> ZeroRq
Cols(b) == b.cw + b.ct + b.cz
Rows(b) == Len(b.d) + Len(b.bmat) + 2 + Len(b.tensor)

-----------------------------------------------------------------------------
(* stack and unstack: a response as one vector.                             *)

Unflatten(v, width) ==
  [k \in 1 .. (Len(v) \div width) |-> SubSeq(v, (k - 1) * width + 1, k * width)]
Stack(r) == r.carrier \o FlattenBlocks(r.inner) \o r.z
Unstack(zeta, cw, ct, width) ==
  [carrier |-> SubSeq(zeta, 1, cw), inner |-> Unflatten(SubSeq(zeta, cw + 1, cw + ct), width),
   z |-> SubSeq(zeta, cw + ct + 1, Len(zeta))]

-----------------------------------------------------------------------------
(* Unreduced products and the rows of quotients: the dense forms.           *)

Larger(m, n) == IF m >= n THEN m ELSE n
LongMul(x, y) ==
  [k \in 0 .. (2 * RING_DEGREE - 2) |->
     MapThenSumSet(LAMBDA i : x[i] * y[k - i],
                   Larger(k + 1 - RING_DEGREE, 0) .. (Least(k + 1, RING_DEGREE) - 1)) % Q]
LongMulHigh(x, y) ==
  [t \in 0 .. (RING_DEGREE - 2) |->
     MapThenSumSet(LAMBDA i : x[i] * y[t + RING_DEGREE - i], (t + 1) .. (RING_DEGREE - 1)) % Q]
HighSum(f(_), S) ==
  Stored([t \in 0 .. (RING_DEGREE - 2) |-> MapThenSumSet(LAMBDA x : f(x)[t], S) % Q])
NonZero(f(_), S) == { x \in S : f(x) # ZeroRq }

RowSum(b, z, i) ==
  LET live == NonZero(LAMBDA j : Entry(b, i, j), 0 .. (Cols(b) - 1))
  IN  [k \in 0 .. (2 * RING_DEGREE - 2) |->
         MapThenSumSet(LAMBDA j : LongMul(Entry(b, i, j), z[j + 1])[k], live) % Q]
RowSumHigh(b, z, i) ==
  HighSum(LAMBDA j : LongMulHigh(Entry(b, i, j), z[j + 1]), NonZero(LAMBDA j : Entry(b, i, j), 0 .. (Cols(b) - 1)))

-----------------------------------------------------------------------------
(* The lazy form: a group whose entries are its first times the weights     *)
(* multiplies once, by the recomposed operand; any other entry by entry.    *)

GadgetWeights(digits) == [e \in 1 .. digits |-> BasePow(e - 1)]
JtWeights == [m \in 1 .. (GADGET_DIGITS * Z_DIGITS) |->
                (BasePow((m - 1) \div Z_DIGITS) * BasePow((m - 1) % Z_DIGITS)) % Q]

BandHigh(blk, lo, hi, z, zoff) ==
  HighSum(LAMBDA j : LongMulHigh(blk[j + 1], z[zoff + j + 1]), NonZero(LAMBDA j : blk[j + 1], lo .. (hi - 1)))
GroupIsScaledAlways(blk, base, len, w) == TRUE   \* mutant
GroupIsScaled(blk, base, len, w) == \A m \in 1 .. len : blk[base + m] = ScaledBy(w[m], blk[base + 1])
Recompose(z, base, len, w) == SumRq(LAMBDA m : ScaledBy(w[m], z[base + m]), 1 .. len)
OneGroup(blk, base, gsize, w, z, zoff) ==
  IF ~GroupIsScaled(blk, base, gsize, w) THEN BandHigh(blk, base, base + gsize, z, zoff)
  ELSE LongMulHigh(blk[base + 1], Recompose(z, zoff + base, gsize, w))
GroupHigh(blk, len, gsize, w, z, zoff) ==
  LET whole == len \div gsize
      tail  == BandHigh(blk, whole * gsize, len, z, zoff)
  IN  HighSum(LAMBDA g : IF g = whole THEN tail ELSE OneGroup(blk, g * gsize, gsize, w, z, zoff), 0 .. whole)

AddHigh(x, y) == HighSum(LAMBDA k : IF k = 1 THEN x ELSE y, {1, 2})
RowSumHighLazy(b, z, i) ==
  LET d == Len(b.d)
      o == Len(b.bmat)
      p == i - d - o - 2
      gw == GadgetWeights(GADGET_DIGITS)
      off == b.cw + b.ct
  IN  CASE i < d              -> BandHigh(b.d[i + 1], 0, b.cw, z, 0)
        [] i >= d /\ i < d + o -> BandHigh(b.bmat[i - d + 1], 0, b.ct, z, b.cw)
        [] i = d + o          -> GroupHigh(b.g_b, b.cw, GADGET_DIGITS, gw, z, 0)
        [] i = d + o + 1      -> AddHigh(GroupHigh(b.g_c, b.cw, GADGET_DIGITS, gw, z, 0),
                                         GroupHigh(b.neg_jt_g_a, b.cz, GADGET_DIGITS * Z_DIGITS, JtWeights, z, off))
        [] i > d + o + 1      -> AddHigh(GroupHigh(b.tensor[p + 1], b.ct, GADGET_DIGITS, gw, z, b.cw),
                                         GroupHigh(b.neg_aj[p + 1], b.cz, Z_DIGITS, GadgetWeights(Z_DIGITS), z, off))

(* c_quotient: the high half, and a top coefficient never written.          *)
Quotient(b, z, i) == [k \in Coeff |-> IF k < RING_DEGREE - 1 THEN RowSumHighLazy(b, z, i)[k] ELSE 0]
=============================================================================
