----------------------------- MODULE MCDotLanes ------------------------------
(* Degree 4 over Z_257 with primes just large enough for chunks of two      *)
(* terms: operands that are all q - 1 reach the bound on either side.       *)
EXTENDS Dot

MCAux == << [p |-> 97,  psi |-> 33, psiinv |-> 50, ninv |-> 73],
            [p |-> 113, psi |-> 18, psiinv |-> 44, ninv |-> 85],
            [p |-> 137, psi |-> 10, psiinv |-> 96, ninv |-> 103] >>
MCGold == [p |-> 12433, psi |-> 2317, psiinv |-> 4765, ninv |-> 9325]

Top   == [t \in Coeff |-> 256]
Mixed == [t \in Coeff |-> <<7, 255, 0, 129>>[t + 1]]
Ones  == [t \in Coeff |-> 1]
Bits  == [t \in Coeff |-> t % 2]

MCInputs ==
  UNION { { [form |-> f, a |-> [i \in 0 .. (n - 1) |-> IF big[i] THEN Top ELSE Mixed],
                         b |-> [i \in 0 .. (n - 1) |->
                                  IF f = "digits" THEN IF big[i] THEN Ones ELSE Bits
                                  ELSE IF big[i] THEN Top ELSE Mixed]] :
              f \in {"fused", "prepared", "ga", "digits"}, big \in [0 .. (n - 1) -> BOOLEAN] } : n \in 1 .. 5 }

(* The reductions agree with the remainder on every product of two words.   *)
ASSUME ReductionsAgree ==
  /\ \A k \in 1 .. 3, x \in 0 .. 18768 : AuxReduce(x, Prime(k), 32768 \div Prime(k), 32768) = x % Prime(k)
  /\ GoldPrime(112) = Gold.p
  /\ \A a \in {0, 1, 111, 112, 113, 12431, 12432}, x \in 0 .. 12432 :
       GoldReduce(a * x, 112) = (a * x) % Gold.p
=============================================================================
