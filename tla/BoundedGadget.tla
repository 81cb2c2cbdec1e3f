---------------------------- MODULE BoundedGadget ----------------------------
(***************************************************************************)
(* The bounded balanced digits of hachi/src/gadget.rs: Z_DIGITS of them,   *)
(* fewer than a full-width decomposition has, for words that are short.    *)
(***************************************************************************)
EXTENDS BalancedGadget

CONSTANTS
  Z_DIGITS,            \* digits per coefficient of z
  Z_BALANCED_SHIFT     \* half a base at every one of them, as an integer

ZDigit == 0 .. (Z_DIGITS - 1)

ASSUME BoundedAssumption ==
  /\ Z_DIGITS \in Nat \ {0}
  /\ Z_BALANCED_SHIFT = SumFunction([e \in ZDigit |-> HALF_BASE * BasePower[e]])

(* bounded_z_digit_at: the centred representative is shifted as an integer, *)
(* and a sum that is still negative is clamped.                             *)
ShiftedUncentred(c) == c + Z_BALANCED_SHIFT   \* mutant
Shifted(c) ==
  IF ~IsNegative(c) THEN c + Z_BALANCED_SHIFT
  ELSE IF Magnitude(c) <= Z_BALANCED_SHIFT THEN Z_BALANCED_SHIFT - Magnitude(c)
  ELSE 0
BoundedZDigitUnsigned(c, e) == DigitAt(Shifted(c), e)   \* mutant
BoundedZDigitAt(c, e) == (DigitAt(Shifted(c), e) - HALF_BASE) % Q
=============================================================================
