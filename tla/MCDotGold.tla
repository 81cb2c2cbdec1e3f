------------------------------ MODULE MCDotGold ------------------------------
(* The one-lane forms at degree 64, three radix-4 stages, over Z_13: the    *)
(* lane holds four digit terms or limb terms, the wider inputs take a       *)
(* second chunk or, for a commitment row, the generic row.                  *)
EXTENDS Dot
LOCAL INSTANCE TLC

MCAux == << [p |-> 257, psi |-> 9,  psiinv |-> 200, ninv |-> 253],
            [p |-> 641, psi |-> 21, psiinv |-> 580, ninv |-> 631],
            [p |-> 769, psi |-> 5,  psiinv |-> 154, ninv |-> 757] >>
MCGold == [p |-> 26881, psi |-> 1478, psiinv |-> 13586, ninv |-> 26461]

Top   == [t \in Coeff |-> 12]
Mixed == [t \in Coeff |-> (5 * t + 3) % 13]
Threes == [t \in Coeff |-> 3]
Digits == [t \in Coeff |-> (t \div 3) % 4]
Tens  == [t \in Coeff |-> 10]           \* -3, the edge of the short bound
Key(big, n) == [i \in 0 .. (n - 1) |-> IF big[i] THEN Top ELSE Mixed]
Patterns(n) == [0 .. (n - 1) -> BOOLEAN]

DigitInputs ==
  { [form |-> "digits_gold", a |-> Key(big, n), b |-> [i \in 0 .. (n - 1) |-> IF big[i] THEN Threes ELSE Digits]] :
      n \in {4}, big \in Patterns(4) }
RawInputs ==
  { [form |-> "raw_digits", a |-> Key([i \in 0 .. 3 |-> big[i % 2]], n), b |-> [i \in 0 .. 1 |-> IF big[i] THEN [t \in Coeff |-> 15] ELSE [t \in 0 .. 40 |-> t % 17]]] :
      n \in {3, 4}, big \in Patterns(2) }
LimbInputs ==
  UNION { { [form |-> "limbs2", a |-> Key(big, n), b |-> [i \in 0 .. (n - 1) |-> IF big[i] THEN Top ELSE Mixed]] :
      big \in Patterns(n) } : n \in {2, 5} }
LiftInputs ==
  { [form |-> "lift", a |-> Key([i \in 0 .. 7 |-> big[i % 3]], Len(w.z) + RhoLen(w)), b |-> w] :
      big \in Patterns(3),
      w \in { [z |-> <<Tens, Threes>>, rho |-> <<Mixed>>], [z |-> <<Tens, Mixed>>, rho |-> <<Mixed>>],
              [z |-> <<Tens, Tens, Tens, Tens, Tens, Tens>>, rho |-> <<Top>>], [z |-> <<Threes>>, rho |-> <<>>] } }
MCInputs == DigitInputs \cup RawInputs \cup LimbInputs \cup LiftInputs
=============================================================================
