----------------------------- MODULE RangeCheck ------------------------------
(***************************************************************************)
(* The range polynomial P_b(v) = v (v^2 - 1) ... (v^2 - (b-1)^2), zero     *)
(* exactly on the digits -(b-1) .. b-1, and the range side of a sumcheck   *)
(* round: the sum of eq times P_b over the pairs of a table, as a          *)
(* polynomial in the free variable (zerocheck.rs, sumcheck.rs).            *)
(***************************************************************************)
EXTENDS Multilinear, BalancedGadget, Combinatorics

CONSTANTS
  RANGE_Q_COEFFS,    \* the coefficients of P_b(v) / v in v^2
  BUCKET_MIN_PAIRS0, BUCKET_MIN_PAIRS1   \* table sizes from which pairs are bucketed

(* range_product_base, and the expanded form range_product evaluates.       *)
RangeProductBase(c) == (c * Pi(LAMBDA j : c * c - j * j, GADGET_BASE - 1)) % Q
RangeProduct(v) == (v * PolyEval(RANGE_Q_COEFFS, (v * v) % Q)) % Q

(* The literal table of params.rs expands the product.                      *)
ASSUME RangeAssumption ==
  /\ RANGE_Q_COEFFS \in [0 .. (GADGET_BASE - 1) -> Fp]
  /\ \A v \in Fp : RangeProduct(v) = RangeProductBase(v)

-----------------------------------------------------------------------------
(* The Taylor shift: the coefficient of T^m in P_b(lo + T d), without d^m.  *)
SHIFT_DEG == 2 * GADGET_BASE
ShiftInner(lo, m) ==
  Sigma(LAMBDA j : choose(2 * j + 1, m) * RANGE_Q_COEFFS[j] * Pow(lo, 2 * j + 1 - m),
        (m \div 2) .. (GADGET_BASE - 1))

(* round_poly_zero, which skips the pairs whose entries are both zero; over *)
(* the base field round_poly_zero_base_plain does not skip, and adds zeros.  *)
ZeroPoly(w, eq) ==
  LET live == { y \in DOMAIN eq : ~(w[2 * y] = 0 /\ w[2 * y + 1] = 0) }
  IN  Tabulate([m \in 0 .. SHIFT_DEG |->
         IF m = SHIFT_DEG THEN 0
         ELSE Sigma(LAMBDA y : eq[y] * (Pow((w[2 * y + 1] - w[2 * y]) % Q, m) % Q)
                                     * ShiftInner(w[2 * y], m), live)])

-----------------------------------------------------------------------------
(* Bucketing: when every entry is a digit, pairs (round 0) and quadruples   *)
(* (round 1) of equal digits share one shift.                               *)
DIGIT_ALPHABET == HALF_BASE + GADGET_BASE
DigitId(x) == IF x < GADGET_BASE THEN x + HALF_BASE
              ELSE IF x >= Q - HALF_BASE THEN x - (Q - HALF_BASE)
              ELSE DIGIT_ALPHABET
InAlphabet(w, n) == \A k \in 0 .. (n - 1) : DigitId(w[k]) < DIGIT_ALPHABET

(* The type of the r entries starting at r y, most significant id first.    *)
TypeOf(w, r, y) ==
  SumFunction([k \in 0 .. (r - 1) |-> DigitId(w[r * y + k]) * Pow(DIGIT_ALPHABET, r - 1 - k)])
Buckets(w, r, eq) ==
  LET type == Tabulate([y \in DOMAIN eq |-> TypeOf(w, r, y)])
  IN  Tabulate([t \in 0 .. (Pow(DIGIT_ALPHABET, r) - 1) |->
                  Sigma(LAMBDA y : eq[y], { y \in DOMAIN eq : type[y] = t })])
TypeTable(r) ==
  Tabulate([k \in 0 .. (r * Pow(DIGIT_ALPHABET, r) - 1) |->
     ((((k \div r) \div Pow(DIGIT_ALPHABET, r - 1 - (k % r))) % DIGIT_ALPHABET) - HALF_BASE) % Q])

ZeroPolyBase(w, eq) ==
  IF Size(eq) >= BUCKET_MIN_PAIRS0 /\ InAlphabet(w, 2 * Size(eq))
  THEN ZeroPoly(TypeTable(2), Buckets(w, 2, eq))
  ELSE ZeroPoly(w, eq)
ZeroPolyFold1(w, a, eq) ==
  IF Size(eq) >= BUCKET_MIN_PAIRS1 /\ InAlphabet(w, 4 * Size(eq))
  THEN ZeroPoly(Layer(TypeTable(4), a), Buckets(w, 4, eq))
  ELSE ZeroPoly(Layer(w, a), eq)
=============================================================================
