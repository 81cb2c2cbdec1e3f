----------------------------- MODULE RingSwitch ------------------------------
(***************************************************************************)
(* The lifted witness and the two tables the sumcheck runs over            *)
(* (ringswitch.rs, zerocheck.rs).  The relation M z = y in Rq is lifted to *)
(* polynomials as M z = y + (X^N + 1) rho; the table w~ holds the          *)
(* coefficients of z and of the balanced digits of rho, and the public     *)
(* table A~ the matrix, and minus X^N + 1, at a point alpha.               *)
(***************************************************************************)
EXTENDS RangeCheck

CONSTANTS
  M, Yvec,          \* the linear statement: rows of ring elements, and y
  DKey,             \* the key of the lift commitment, one row per entry of t
  CHAIN_GAMMA,      \* the bound of the shortness test
  M_ZERO            \* variables of the witness cube

RlinRows == Cardinality(DOMAIN M)
RlinCols == Cardinality(DOMAIN M[0])
LiftCols == RlinCols + RlinRows * GADGET_DIGITS

ASSUME LiftAssumption ==
  /\ M_ZERO \in Nat \ {0}
  /\ \E k \in 0 .. M_ZERO : RING_DEGREE = Pow(2, k)
  /\ \E rows \in 1 .. LiftCols, cols \in 1 .. LiftCols :
       M \in [0 .. (rows - 1) -> [0 .. (cols - 1) -> Rq]] /\ Yvec \in [0 .. (rows - 1) -> Rq]
  /\ LiftCols * RING_DEGREE <= Pow(2, M_ZERO)
  /\ CHAIN_GAMMA \in HALF_BASE .. (GADGET_BASE - 1)

(* rho_digits: the balanced digits of a quotient row.                       *)
RhoDigits(r, e) == [k \in Coeff |-> BalancedDigitAt(r[k], e)]

(* honest_lift_witness: the quotient of row i is the high half of the       *)
(* unreduced row sum; its top coefficient is never written.                 *)
HighHalf(a, b) ==
  [k \in Coeff |-> Sigma(LAMBDA i : a[i] * b[k + RING_DEGREE - i], (k + 1) .. (RING_DEGREE - 1))]
Quotient(z, i) ==
  Tabulate([k \in Coeff |-> Sigma(LAMBDA u : HighHalf(M[i][u], z[u])[k], DOMAIN M[i])])
HonestLift(z) == [z |-> z, rho |-> Tabulate([i \in DOMAIN M |-> Quotient(z, i)])]

-----------------------------------------------------------------------------
(* The committed rows and the witness table.                                *)

(* w_table_row: z, then the digit rows of rho, then padding.                *)
LiftRow(w, u) ==
  IF u < RlinCols THEN w.z[u]
  ELSE IF u - RlinCols < RlinRows * GADGET_DIGITS
    THEN RhoDigits(w.rho[(u - RlinCols) \div GADGET_DIGITS], (u - RlinCols) % GADGET_DIGITS)
  ELSE [k \in Coeff |-> 0]
WTable(w) ==
  Tabulate([i \in 0 .. (Pow(2, M_ZERO) - 1) |-> LiftRow(w, i \div RING_DEGREE)[i % RING_DEGREE]])

LiftCommit(w) ==
  Tabulate([i \in DOMAIN DKey |-> Tabulate([p \in Coeff |->
     Sigma(LAMBDA u : NegMul(DKey[i][u], LiftRow(w, u))[p], 0 .. (LiftCols - 1))])])
LiftShortStrict(w) ==   \* mutant
  \A u \in 0 .. (LiftCols - 1), k \in Coeff : Magnitude(LiftRow(w, u)[k]) < CHAIN_GAMMA
LiftShort(w) == \A u \in 0 .. (LiftCols - 1), k \in Coeff : Magnitude(LiftRow(w, u)[k]) <= CHAIN_GAMMA
WTableEval(w, point) == MleEval(WTable(w), point)

-----------------------------------------------------------------------------
(* The public table, the row weights and the linear target.                 *)

EvalAt(alpha, p)  == Sigma(LAMBDA k : p[k] * Pow(alpha, k), Coeff)
Modulus(alpha)    == Pow(alpha, RING_DEGREE) + 1

(* eq_weight under the guard below_two_pow.                                 *)
EqWeightWrapped(tau1, i) ==   \* mutant: the guard dropped, a row past 2^m1 takes the weight of another
  Pi(LAMBDA j : IF Bit(i, j) = 1 THEN tau1[j] ELSE 1 - tau1[j], Len(tau1))
EqWeight(tau1, i) ==
  IF i >= Pow(2, Len(tau1)) THEN 0
  ELSE Pi(LAMBDA j : IF Bit(i, j) = 1 THEN tau1[j] ELSE 1 - tau1[j], Len(tau1))

MAlpha(alpha, i, u) ==
  IF u < RlinCols THEN EvalAt(alpha, M[i][u])
  ELSE IF u < LiftCols /\ (u - RlinCols) \div GADGET_DIGITS = i
    THEN (-Modulus(alpha) * BasePower[(u - RlinCols) % GADGET_DIGITS]) % Q
  ELSE 0
RowContraction(alpha, tau1, u) == Sigma(LAMBDA i : EqWeight(tau1, i) * MAlpha(alpha, i, u), DOMAIN M)

(* alpha_public_table, entry by entry: the dense form.                      *)
AlphaTable(alpha, tau1) ==
  Tabulate([i \in 0 .. (Pow(2, M_ZERO) - 1) |->
     (Pow(alpha, i % RING_DEGREE) * RowContraction(alpha, tau1, i \div RING_DEGREE)) % Q])

TargetAlpha(alpha, tau1) == Sigma(LAMBDA i : EqWeight(tau1, i) * EvalAt(alpha, Yvec[i]), DOMAIN M)

(* The same table as two factors: powers of alpha, and one entry per row.   *)
LowVars == CHOOSE k \in 0 .. M_ZERO :
             /\ k = M_ZERO \/ Pow(2, k) >= RING_DEGREE
             /\ \A j \in 0 .. (k - 1) : Pow(2, j) < RING_DEGREE
AlphaLow(alpha)        == [l \in 0 .. (Pow(2, LowVars) - 1) |-> Pow(alpha, l) % Q]
AlphaHigh(alpha, tau1) == [u \in 0 .. (Pow(2, M_ZERO - LowVars) - 1) |->
                             IF u < LiftCols THEN RowContraction(alpha, tau1, u) ELSE 0]

AlphaMleSwapped(alpha, tau1, point) ==   \* mutant: the high factor takes the first coordinates
  LET n == Len(point) - LowVars
  IN  (MleEval(AlphaLow(alpha), SubSeq(point, n + 1, Len(point)))
         * MleEval(AlphaHigh(alpha, tau1), SubSeq(point, 1, n))) % Q
(* alpha_public_mle_eval: the low factor takes the first coordinates.       *)
AlphaMle(alpha, tau1, point) ==
  (MleEval(AlphaLow(alpha), SubSeq(point, 1, LowVars))
     * MleEval(AlphaHigh(alpha, tau1), SubSeq(point, LowVars + 1, Len(point)))) % Q

-----------------------------------------------------------------------------
(* The two blocks of constraints the sumcheck batches, written as tables.   *)

(* h_zero: the range polynomial at every entry of the witness table.        *)
HZero(w) == LET T == WTable(w) IN Tabulate([i \in DOMAIN T |-> RangeProductBase(T[i])])
HZeroIsZero(w) == \A i \in DOMAIN HZero(w) : HZero(w)[i] = 0

(* alpha_defect: row i of the statement at alpha, over the committed table. *)
AlphaContract(alpha, w, i) ==
  LET T == WTable(w)
  IN  Sigma(LAMBDA u : MAlpha(alpha, i, u) * Sigma(LAMBDA l : T[RING_DEGREE * u + l] * Pow(alpha, l), Coeff),
            0 .. (LiftCols - 1))
AlphaDefect(alpha, w, i) == (AlphaContract(alpha, w, i) - EvalAt(alpha, Yvec[i])) % Q

(* h_alpha: the defects on a cube of m1 variables, padded by zeros.         *)
HAlphaEvals(alpha, w, i) == IF i \in DOMAIN Yvec THEN AlphaDefect(alpha, w, i) ELSE 0
HAlpha(alpha, w, m1) == Tabulate([i \in 0 .. (Pow(2, m1) - 1) |-> HAlphaEvals(alpha, w, i)])
HAlphaIsZero(alpha, w, m1) == \A i \in 0 .. (Pow(2, m1) - 1) : HAlphaEvals(alpha, w, i) = 0
=============================================================================
