------------------------------ MODULE HonestZ -------------------------------
(***************************************************************************)
(* What the z pass promises (quadeval::honest_z): z is the sum of the      *)
(* challenge-scaled digit blocks, z[j] = sum_i c_i * s_i[j], where s_i[j]  *)
(* is digit j % D of row j / D of block i.  A row a block does not have    *)
(* contributes nothing, and a row past MESSAGE_ROWS is ignored.            *)
(***************************************************************************)
EXTENDS Gadget, Sequences

CONSTANTS BLOCKS, BlockSet, Challenges

VARIABLES folded,   \* how many blocks z holds
          z         \* the folded opening, a ring element per column

hzvars == <<folded, z>>

Scaled(b, c, j) == IF RowOf(j) < Len(b) THEN NegMul(c, DigitPoly(b, j))
                                        ELSE [p \in Coeff |-> 0]

Init == folded = 0 /\ z = [j \in Column |-> [p \in Coeff |-> 0]]

AddBlock ==
  /\ folded < BLOCKS
  /\ folded' = folded + 1
  /\ \E b \in BlockSet, c \in Challenges :
       z' = [j \in Column |-> [p \in Coeff |-> (z[j][p] + Scaled(b, c, j)[p]) % Q]]

Spec == Init /\ [][AddBlock]_hzvars
=============================================================================
