------------------------------- MODULE Gadget -------------------------------
(***************************************************************************)
(* The unsigned base-b gadget of hachi/src/gadget.rs: a block of ring      *)
(* elements is decomposed digit by digit into columns, GADGET_DIGITS       *)
(* columns per row.                                                        *)
(***************************************************************************)
EXTENDS Negacyclic

CONSTANTS
  GADGET_BASE,    \* b, the digit base
  GADGET_DIGITS,  \* digits per coefficient
  MESSAGE_ROWS    \* rows of a full message block

ASSUME GadgetAssumption ==
  /\ GADGET_BASE \in 1 .. Q
  /\ GADGET_DIGITS \in Nat \ {0}
  /\ MESSAGE_ROWS \in Nat \ {0}

Row    == 0 .. (MESSAGE_ROWS - 1)
Digit  == 0 .. (GADGET_DIGITS - 1)
Column == 0 .. (MESSAGE_ROWS * GADGET_DIGITS - 1)

RowOf(j)   == j \div GADGET_DIGITS
DigitOf(j) == j % GADGET_DIGITS

(* digit_at: digit e of a canonical word, by repeated division, so that no  *)
(* power of the base is formed.                                             *)
Quotients(x) == LET rest[n \in Nat] == IF n = 0 THEN x ELSE rest[n - 1] \div GADGET_BASE
                IN  rest
DigitAtUnreduced(x, e) == Quotients(x)[e]   \* mutant
DigitAt(x, e) == Quotients(x)[e] % GADGET_BASE

(* The powers of the base, which base_pow reduces modulo q.                 *)
BasePower[e \in Nat] == IF e = 0 THEN 1 ELSE GADGET_BASE * BasePower[e - 1]

(* gadget_decompose: column j of a block is digit j % D of row j / D.       *)
DigitPoly(b, j) == [p \in Coeff |-> DigitAt(b[RowOf(j) + 1][p], DigitOf(j))]
=============================================================================
