--------------------------- MODULE BalancedGadget ---------------------------
(***************************************************************************)
(* The balanced digits of hachi/src/gadget.rs: the word is shifted by half *)
(* a base at every digit, and half a base is taken off each digit again.   *)
(***************************************************************************)
EXTENDS Gadget

CONSTANTS
  HALF_BASE,         \* half the digit base
  BALANCED_SHIFT     \* half a base at every digit, reduced modulo q

ASSUME BalancedAssumption ==
  /\ HALF_BASE \in Nat \ {0}
  /\ GADGET_BASE = 2 * HALF_BASE /\ GADGET_BASE < Q
  /\ BALANCED_SHIFT = SumFunction([e \in Digit |-> HALF_BASE * BasePower[e]]) % Q

(* balanced_digit_at: the shift is added in the field, so it may wrap.      *)
BalancedDigitAt(c, e) == (DigitAt((c + BALANCED_SHIFT) % Q, e) - HALF_BASE) % Q
=============================================================================
