----------------------------- MODULE ZResponse ------------------------------
(***************************************************************************)
(* The response to the folding challenges (quadeval.rs,                    *)
(* honest_compute_resp and its raw forms): z is folded block by block and  *)
(* then decomposed into Z_DIGITS balanced digits, fewer than a full-width  *)
(* decomposition has, so the digits recompose only what is short enough.   *)
(***************************************************************************)
EXTENDS HonestZ, BoundedGadget

CONSTANT Z_BOUND     \* the bound the decomposition is sized for

ASSUME ZResponseAssumption ==
  /\ Z_BOUND = BLOCKS * OMEGA * HALF_BASE
  /\ BLOCKS \in Nat
  /\ BlockSet \subseteq Seq(Rq) /\ Challenges \subseteq Rq
  /\ \A c \in Challenges : IsShort(c)

(* Z_DIGITS digits hold what the unsigned sum can reach, not only Z_BOUND:  *)
(* 1024 * 16 * 15 = 245760 <= 559240, and the two add up to less than 16^5  *)
(* (params.rs: BLOCKS, OMEGA, GADGET_BASE, Z_DIGITS, Z_BALANCED_SHIFT).     *)
MaxFolded == BLOCKS * OMEGA * (GADGET_BASE - 1)
ASSUME RoomAssumption ==
  /\ MaxFolded <= Z_BALANCED_SHIFT
  /\ MaxFolded + Z_BALANCED_SHIFT < BasePower[Z_DIGITS]

VARIABLE resp    \* the digits of z, once the response is made

zrvars == <<hzvars, resp>>

-----------------------------------------------------------------------------
(* bounded_z_gadget_decompose, and gadget_mul_z.                            *)
DecomposeZ(x) == [j \in DOMAIN x |-> [e \in ZDigit |-> [p \in Coeff |-> BoundedZDigitAt(x[j][p], e)]]]
MulZ(v) ==
  [j \in DOMAIN v |-> [p \in Coeff |->
     SumFunction([e \in ZDigit |-> v[j][e][p] * BasePower[e]]) % Q]]

-----------------------------------------------------------------------------
Fold == AddBlock /\ UNCHANGED resp

Respond ==
  /\ folded = BLOCKS /\ resp = << >>
  /\ resp' = <<DecomposeZ(z)>>
  /\ UNCHANGED hzvars

ZRInit == Init /\ resp = << >>
ZRNext == Fold \/ Respond
ZRSpec == ZRInit /\ [][ZRNext]_zrvars

-----------------------------------------------------------------------------
(* The type invariant: digits lie in the balanced box -b/2 .. b/2 - 1, and  *)
(* the response is made once, of the whole sum.                             *)
TypeOK ==
  /\ folded \in 0 .. BLOCKS
  /\ z \in [Column -> Rq]
  /\ resp # << >> =>
       /\ folded = BLOCKS
       /\ \A j \in Column, e \in ZDigit, p \in Coeff :
            LET d == resp[1][j][e][p]
            IN  d < HALF_BASE \/ (IsNegative(d) /\ Magnitude(d) <= HALF_BASE)

(* What the folded sum of UNSIGNED digits keeps to: every block adds at     *)
(* most OMEGA (b - 1), so that it never wraps modulo q either               *)
(* (mul_short_add_into, z_pass).                                            *)
UnsignedBound ==
  \A j \in Column, p \in Coeff : Magnitude(z[j][p]) <= folded * OMEGA * (GADGET_BASE - 1)

(* The verifier's J times the response is the z that was folded: five       *)
(* digits are enough for the unsigned sum, past Z_BOUND too                 *)
(* (bounded_z_gadget_decompose, gadget_mul_z).                              *)
Recomposes == resp # << >> => MulZ(resp[1]) = z

(* params.rs:655-657: the folded witness "is deterministically short        *)
(* (||z|| <= 2^r * omega * floor(b/2) = Z_BOUND)".                          *)
DeterministicallyShort == \A j \in Column, p \in Coeff : Magnitude(z[j][p]) <= Z_BOUND
=============================================================================
