------------------------------- MODULE Linalg --------------------------------
(***************************************************************************)
(* Vectors and matrices of ring elements (hachi/src/linalg.rs), the gadget *)
(* maps on them (gadget.rs), and the norms of commit.rs.  A vector is a    *)
(* sequence of ring elements, a matrix a sequence of rows.                 *)
(***************************************************************************)
EXTENDS BalancedGadget, SequencesExt

(* The digits of a full-width decomposition reach past q (GADGET_DIGITS:    *)
(* 16^8 = 2^32).                                                            *)
ASSUME FullWidthAssumption == Q <= BasePower[GADGET_DIGITS]

(* Both are f, written so that TLC computes each entry once.                *)
Stored(f)    == CHOOSE g \in {f} : g = f
StoredVec(f) == f \o << >>

-----------------------------------------------------------------------------
(* Ring elements: Rq::constant, add, neg, scalar_mul.                       *)

Constant(w) == [p \in Coeff |-> IF p = 0 THEN w ELSE 0]
OneRq       == Constant(1)
AddRq(x, y) == Stored([p \in Coeff |-> (x[p] + y[p]) % Q])
NegRq(x)    == Stored([p \in Coeff |-> (-x[p]) % Q])
ScaledBy(w, x) == Stored([p \in Coeff |-> (w * x[p]) % Q])
SumRq(f(_), S) == Stored([p \in Coeff |-> SumFunction([i \in S |-> f(i)[p]]) % Q])

(* PolyVec::dot stops at the shorter operand; apply at the fewer columns.   *)
Least(m, n) == IF m <= n THEN m ELSE n
Dot(u, v)   == SumRq(LAMBDA i : NegMul(u[i], v[i]), 1 .. Least(Len(u), Len(v)))
MatVec(A, v)       == StoredVec([i \in DOMAIN A |-> Dot(A[i], v)])
SplitForm(A, u, v) == Dot(u, MatVec(A, v))
ScaledVec(c, v)    == StoredVec([i \in DOMAIN v |-> NegMul(c, v[i])])
AddVec(u, v)       == StoredVec([i \in DOMAIN u |-> AddRq(u[i], v[i])])
ZeroVec(n)         == [i \in 1 .. n |-> ZeroRq]

FlattenBlocks(bs) == FlattenSeq(bs)

-----------------------------------------------------------------------------
(* The gadget G and its inverses: base_pow, gadget_mul, gadget_decompose    *)
(* and balanced_gadget_decompose; G^T on a row vector.                      *)

BasePow(e) == BasePower[e] % Q
GadgetMul(rows, v) ==
  StoredVec([i \in 1 .. rows |->
     SumRq(LAMBDA e : ScaledBy(BasePow(e), v[GADGET_DIGITS * (i - 1) + e + 1]), Digit)])
GadgetDecompose(x) ==
  StoredVec([k \in 1 .. (Len(x) * GADGET_DIGITS) |-> DigitPoly(x, k - 1)])
BalancedPoly(x, j) == [p \in Coeff |-> BalancedDigitAt(x[RowOf(j) + 1][p], DigitOf(j))]
BalancedDecompose(x) ==
  StoredVec([k \in 1 .. (Len(x) * GADGET_DIGITS) |-> Stored(BalancedPoly(x, k - 1))])
Decompose(balanced, x) == IF balanced THEN BalancedDecompose(x) ELSE GadgetDecompose(x)
GadgetTransposeMul(rows, digits, a) ==
  StoredVec([k \in 1 .. (rows * digits) |-> ScaledBy(BasePow((k - 1) % digits), a[(k - 1) \div digits + 1])])

-----------------------------------------------------------------------------
(* centered_abs and the norms: sums, and maxima that are 0 on nothing.      *)

CenteredAbs(w) == Magnitude(w)
L1Norm(x)      == SumFunction([p \in Coeff |-> CenteredAbs(x[p])])
LInftyNorm(x)  == Max({0} \cup { CenteredAbs(x[p]) : p \in Coeff })
L2NormSqUncentred(x) == SumFunction([p \in Coeff |-> x[p] * x[p]])   \* mutant
L2NormSq(x) == SumFunction([p \in Coeff |-> CenteredAbs(x[p]) * CenteredAbs(x[p])])
VecL2NormSq(v)   == SumFunction([i \in DOMAIN v |-> L2NormSq(v[i])])
VecLInftyNorm(v) == Max({0} \cup { LInftyNorm(v[i]) : i \in DOMAIN v })
=============================================================================
