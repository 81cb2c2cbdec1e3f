----------------------------- MODULE EvalSplit -------------------------------
(***************************************************************************)
(* The evaluation split of hachi/src/evalsplit.rs: a multilinear           *)
(* polynomial over the ring is a matrix between two bases, the low         *)
(* variables choosing the row and the high ones the column.                *)
(***************************************************************************)
EXTENDS Linalg

CONSTANTS ML_VARS_LOW, ML_VARS_HIGH

PowerOfTwo[n \in Nat] == IF n = 0 THEN 1 ELSE 2 * PowerOfTwo[n - 1]
ML_LOW_LEN  == PowerOfTwo[ML_VARS_LOW]
ML_HIGH_LEN == PowerOfTwo[ML_VARS_HIGH]

SplitEquivSwapped(x, y) == x + ML_HIGH_LEN * y   \* mutant
SplitEquiv(x, y) == y + ML_LOW_LEN * x
SplitEquivInv(k) == <<k \div ML_LOW_LEN, k % ML_LOW_LEN>>

(* Each coordinate doubles the vector built so far.                         *)
TimesEach(out, x) == StoredVec([i \in DOMAIN out |-> NegMul(out[i], x)])
Doubling(w, step(_, _)) ==
  LET basis[n \in 0 .. Len(w)] == IF n = 0 THEN <<OneRq>> ELSE step(basis[n - 1], w[n])
  IN  basis[Len(w)]
MonomialBasis(w) == Doubling(w, LAMBDA out, x : out \o TimesEach(out, x))
LagrangeBasis(w) ==
  Doubling(w, LAMBDA out, x :
     StoredVec([i \in DOMAIN out |-> AddRq(out[i], NegRq(TimesEach(out, x)[i]))]) \o TimesEach(out, x))

(* MlPoly::to_matrix and MlEvals::to_matrix_eval; to_polynomial.            *)
ToMatrix(f) == [i \in 1 .. ML_LOW_LEN |-> [j \in 1 .. ML_HIGH_LEN |-> f[SplitEquiv(j - 1, i - 1) + 1]]]
ToPolynomial(m) ==
  [k \in 1 .. (ML_LOW_LEN * ML_HIGH_LEN) |-> LET xy == SplitEquivInv(k - 1) IN m[xy[2] + 1][xy[1] + 1]]
EvalPoly(f, xl, xh)     == SplitForm(ToMatrix(f), MonomialBasis(xl), MonomialBasis(xh))
EvalPolyEval(f, xl, xh) == SplitForm(ToMatrix(f), LagrangeBasis(xl), LagrangeBasis(xh))

-----------------------------------------------------------------------------
(* The meaning: every index bit that is set is a factor.                    *)

BitSet(k, j) == (k \div PowerOfTwo[j - 1]) % 2 = 1
ProductOver(f) ==
  LET prod[j \in 0 .. Len(f)] == IF j = 0 THEN OneRq ELSE NegMul(prod[j - 1], f[j])
  IN  prod[Len(f)]
Monomial(k, x) == ProductOver([j \in DOMAIN x |-> IF BitSet(k, j) THEN x[j] ELSE OneRq])
Lagrange(k, x) == ProductOver([j \in DOMAIN x |-> IF BitSet(k, j) THEN x[j] ELSE AddRq(OneRq, NegRq(x[j]))])
EvalDirect(f, x)     == SumRq(LAMBDA k : NegMul(f[k], Monomial(k - 1, x)), DOMAIN f)
EvalDirectEval(f, x) == SumRq(LAMBDA k : NegMul(f[k], Lagrange(k - 1, x)), DOMAIN f)
=============================================================================
