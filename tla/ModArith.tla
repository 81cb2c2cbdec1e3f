------------------------------ MODULE ModArith ------------------------------
(***************************************************************************)
(* The word arithmetic of the transforms (hachi/src/ntt.rs): one           *)
(* conditional subtraction instead of a division, and the reconstruction   *)
(* of a number from its residues.                                          *)
(***************************************************************************)
EXTENDS Integers

AddModUnreduced(a, b, p) == IF a + b > p THEN a + b - p ELSE a + b   \* mutant
AddMod(a, b, p) == IF a + b >= p THEN a + b - p ELSE a + b
SubMod(a, b, p) == IF a >= b THEN a - b ELSE a + p - b

(* aux_reduce: the quotient is estimated with m = scale div p and is at     *)
(* most one short.                                                          *)
AuxReduce(x, p, m, scale) ==
  LET r == x - ((x * m) \div scale) * p
  IN  IF r >= p THEN r - p ELSE r

(* gold_reduce, modulo B^2 - B + 1 (B = 2^32): B^2 is B - 1 and B^3 is -1.  *)
GoldPrime(B) == B * B - B + 1
GoldReduce(x, B) ==
  LET lo == x % (B * B)
      hi == x \div (B * B)
  IN  AddMod(SubMod(lo, hi \div B, GoldPrime(B)), (hi % B) * (B - 1), GoldPrime(B))

(* aux_mul and gold_mul: a product through either reduction.                *)
MulMod(a, b, p) == (a * b) % p

-----------------------------------------------------------------------------
(* Garner's reconstruction in mixed radix p1, p1 p2: each digit is a        *)
(* difference times the inverse of the radix so far.                        *)

Garner2(r1, r2, p1, p2, inv1) == r1 + p1 * MulMod(SubMod(r2, r1, p2), inv1, p2)

Garner3(r1, r2, r3, p1, p2, p3, inv1, inv12) ==
  LET t1      == MulMod(SubMod(r2, r1, p2), inv1, p2)
      partial == AddMod(r1, MulMod(p1, t1, p3), p3)
      t2      == MulMod(SubMod(r3, partial, p3), inv12, p3)
  IN  r1 + p1 * t1 + p1 * p2 * t2

GarnerGA(rg, ra, g, p1, ginv) == rg + g * MulMod(SubMod(ra, rg % p1, p1), ginv, p1)
=============================================================================
