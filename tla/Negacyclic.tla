----------------------------- MODULE Negacyclic -----------------------------
(***************************************************************************)
(* The ring Rq = Z_q[X]/(X^N + 1) as the prover's multiplication-free      *)
(* paths see it: centred coefficients, short elements, and the negacyclic  *)
(* shift with its sign flip (hachi/src/ring.rs).                           *)
(*                                                                         *)
(* A described short element (ShortMul, ZTerms) is the set of its UNIT     *)
(* PASSES: <<k, u>> is the u-th of the |c_k| times the loops add the       *)
(* k-shifted operand.  Its cardinality is the centred l1 norm.             *)
(***************************************************************************)
EXTENDS Integers, FiniteSets, Functions


CONSTANTS
  RING_DEGREE,   \* N, the number of coefficients of a ring element
  Q,             \* the modulus of the coefficient field
  OMEGA          \* the l1 budget of a short challenge

ASSUME RingAssumption ==
  /\ RING_DEGREE \in Nat \ {0}
  /\ Q \in Nat \ {0}
  /\ OMEGA \in Nat

Coeff == 0 .. (RING_DEGREE - 1)
Fp    == 0 .. (Q - 1)
Rq    == [Coeff -> Fp]

ZeroRq == [p \in Coeff |-> 0]

-----------------------------------------------------------------------------
(* The centred reading of a canonical word. *)

Magnitude(w)  == IF w <= Q \div 2 THEN w ELSE Q - w
IsNegative(w) == w > Q \div 2

UnitPasses(c) == { x \in Coeff \X (1 .. Q) : x[2] <= Magnitude(c[x[1]]) }

(* classify_short and z_terms accept exactly the elements within the budget: *)
(* the running total only grows, so the early return is this test.           *)
IsShort(c) == Cardinality(UnitPasses(c)) <= OMEGA

(* The order the loops make the passes in: by position, then by repetition. *)
Precedes(x, y) == x[1] < y[1] \/ (x[1] = y[1] /\ x[2] < y[2])
IsNext(x, rest) == x \in rest /\ \A y \in rest \ {x} : Precedes(x, y)

-----------------------------------------------------------------------------
(* The pass with shift k moves coefficient Source(k, p) to p; X^N = -1      *)
(* flips the sign of what wrapped round.                                    *)

Source(k, p)        == IF p >= k THEN p - k ELSE p - k + RING_DEGREE
Subtracts(negt, k, p) == negt # (p < k)

(* The signed contribution of one unit pass of c to coefficient p.          *)
Signed(c, k, p, v) == IF Subtracts(IsNegative(c[k]), k, p) THEN -v ELSE v

(* The schoolbook product: the reference every fast path is held to.        *)
NegMul(a, s) ==
  [p \in Coeff |->
     SumFunction([k \in Coeff |-> LET v == a[k] * s[Source(k, p)]
                                  IN  IF p < k THEN -v ELSE v]) % Q]

=============================================================================
