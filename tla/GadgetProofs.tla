---------------------------- MODULE GadgetProofs ----------------------------
(***************************************************************************)
(* What the proofs about the components share: columns, digits, residues   *)
(* and finite sums; the digits of either gadget and their recomposition;   *)
(* vectors and their norms; and the ring laws of the negacyclic product,   *)
(* with the bound on the norm of a product.                                *)
(*                                                                         *)
(* The finite sum is the community modules' fold; its recursion is shown   *)
(* to have a solution, and every fact about it follows by taking elements  *)
(* out of a finite set.                                                    *)
(***************************************************************************)
EXTENDS Linalg, BoundedGadget, FiniteSetTheorems, SequenceTheorems, NaturalsInduction,
        TLAPS

(* A column number names a row and a digit.                                 *)
LEMMA ColumnIndex ==
  ASSUME NEW j \in Column
  PROVE  RowOf(j) \in Row /\ DigitOf(j) \in Digit
<1>. DEFINE D == GADGET_DIGITS
<1>1. D \in Nat \ {0} /\ MESSAGE_ROWS \in Nat \ {0}
  BY GadgetAssumption
<1>2. MESSAGE_ROWS * D \in Nat
  BY <1>1
<1>3. j \in Nat /\ j < MESSAGE_ROWS * D
  BY <1>2 DEF Column
<1>. HIDE DEF D
<1>4. /\ j \div D \in Nat /\ j % D \in 0 .. (D - 1)
      /\ j = D * (j \div D) + (j % D)
  BY <1>1, <1>3
<1>5. j \div D < MESSAGE_ROWS
  <2>1. SUFFICES ASSUME j \div D >= MESSAGE_ROWS PROVE FALSE
    BY <1>1, <1>4
  <2>. DEFINE d == j \div D
              m == j % D
  <2>2. d \in Nat /\ m \in Nat /\ j = D * d + m /\ d >= MESSAGE_ROWS
    BY <1>1, <1>4, <2>1
  <2>. HIDE DEF d, m
  <2>3. D * d >= D * MESSAGE_ROWS
    BY <1>1, <2>2
  <2>. QED BY <1>1, <1>2, <1>3, <2>2, <2>3
<1>. USE DEF D
<1>. QED BY <1>1, <1>4, <1>5 DEF RowOf, DigitOf, Digit, Row

-----------------------------------------------------------------------------
(* Iterated division and multiplication. *)

(* A set with zero and every successor has every natural number.            *)
LEMMA NaturalInduction ==
  ASSUME NEW G, 0 \in G, \A n \in Nat : n \in G => n + 1 \in G
  PROVE  \A n \in Nat : n \in G
<1>. DEFINE R == OpToRel(<, Nat)
            D == { n \in Nat : n \notin G }
<1>1. SUFFICES ASSUME D # {} PROVE FALSE
  OBVIOUS
<1>2. PICK m \in D : \A n \in D : ~(<<n, m>> \in R)
  <2>. HIDE DEF R
  <2>1. D \subseteq Nat
    OBVIOUS
  <2>2. IsWellFoundedOn(R, Nat)
    BY NatLessThanWellFounded DEF R
  <2>. HIDE DEF D
  <2>. QED BY <1>1, <2>1, <2>2, WFMin
<1>3. m \in Nat \ {0} /\ m - 1 \in Nat
  OBVIOUS
<1>4. <<m - 1, m>> \in R
  BY <1>3 DEF OpToRel
<1>5. m - 1 \notin D
  BY <1>2, <1>4
<1>6. (m - 1) + 1 = m
  BY <1>3
<1>. QED BY <1>3, <1>5, <1>6

(* Iterating a function from a starting value is well defined.              *)
Iterates(z, step, f) == f = [n \in Nat |-> IF n = 0 THEN z ELSE step[f[n - 1]]]

LEMMA IterationExists ==
  ASSUME NEW V, NEW z \in V, NEW step \in [V -> V]
  PROVE  /\ \E f : Iterates(z, step, f)
         /\ \A f : Iterates(z, step, f) =>
              /\ f \in [Nat -> V]
              /\ f[0] = z
              /\ \A n \in Nat : f[n + 1] = step[f[n]]
<1>. DEFINE Upto(n, g) == g = [k \in 0 .. n |-> IF k = 0 THEN z ELSE step[g[k - 1]]]
<1>1. ASSUME NEW f, Iterates(z, step, f)
      PROVE  /\ f \in [Nat -> V]
             /\ f[0] = z
             /\ \A n \in Nat : f[n + 1] = step[f[n]]
  <2>1. f[0] = z /\ f = [n \in Nat |-> f[n]]
    BY <1>1 DEF Iterates
  <2>2. \A n \in Nat : f[n + 1] = step[f[n]]
    <3>1. \A n \in Nat : f[n] = IF n = 0 THEN z ELSE step[f[n - 1]]
      BY <1>1 DEF Iterates
    <3>2. ASSUME NEW n \in Nat PROVE f[n + 1] = step[f[n]]
      <4>1. n + 1 \in Nat /\ n + 1 # 0 /\ (n + 1) - 1 = n
        OBVIOUS
      <4>. QED BY <3>1, <4>1
    <3>. QED BY <3>2
  <2>. DEFINE K == { n \in Nat : f[n] \in V }
  <2>3. \A n \in Nat : n \in K
    <3>1. 0 \in K /\ \A n \in Nat : n \in K => n + 1 \in K
      BY <2>1, <2>2
    <3>. HIDE DEF K
    <3>. QED BY <3>1, NaturalInduction
  <2>. QED BY <2>1, <2>2, <2>3
<1>2. ASSUME NEW n \in Nat, NEW g, Upto(n + 1, g)
      PROVE  /\ Upto(n, [i \in 0 .. n |-> g[i]])
             /\ g[n + 1] = step[g[n]]
  <2>1. \A k \in 0 .. (n + 1) : g[k] = IF k = 0 THEN z ELSE step[g[k - 1]]
    BY <1>2
  <2>. DEFINE h == [i \in 0 .. n |-> g[i]]
  <2>2. \A i \in 0 .. n : h[i] = IF i = 0 THEN z ELSE step[h[i - 1]]
    <3>1. ASSUME NEW i \in 0 .. n PROVE h[i] = IF i = 0 THEN z ELSE step[h[i - 1]]
      <4>1. i \in 0 .. (n + 1) /\ (i # 0 => i - 1 \in 0 .. n)
        OBVIOUS
      <4>2. g[i] = IF i = 0 THEN z ELSE step[g[i - 1]]
        BY <2>1, <4>1
      <4>. QED BY <4>1, <4>2
    <3>. QED BY <3>1
  <2>3. h = [i \in 0 .. n |-> h[i]]
    OBVIOUS
  <2>4. n + 1 \in 0 .. (n + 1) /\ n + 1 # 0 /\ (n + 1) - 1 = n
    OBVIOUS
  <2>5. g[n + 1] = step[g[n]]
    BY <2>1, <2>4
  <2>6. Upto(n, h)
    <3>. HIDE DEF h
    <3>. QED BY <2>2, <2>3
  <2>. QED BY <2>5, <2>6
<1>3. \A n \in Nat : \A g, h : Upto(n, g) /\ Upto(n, h) => g = h
  <2>. DEFINE K == { n \in Nat : \A g, h : Upto(n, g) /\ Upto(n, h) => g = h }
  <2>1. 0 \in K
    <3>1. ASSUME NEW g, Upto(0, g) PROVE g = [k \in {0} |-> z]
      <4>1. \A k \in 0 .. 0 : k = 0
        OBVIOUS
      <4>2. 0 .. 0 = {0}
        OBVIOUS
      <4>. QED BY <3>1, <4>1, <4>2
    <3>. QED BY <3>1
  <2>2. ASSUME NEW n \in Nat, n \in K PROVE n + 1 \in K
    <3>1. ASSUME NEW g, NEW h, Upto(n + 1, g), Upto(n + 1, h) PROVE g = h
      <4>. DEFINE g1 == [i \in 0 .. n |-> g[i]]
                  h1 == [i \in 0 .. n |-> h[i]]
      <4>1. Upto(n, g1) /\ Upto(n, h1)
        <5>. HIDE DEF Upto
        <5>. QED BY <1>2, <3>1
      <4>2. g1 = h1
        <5>. HIDE DEF Upto, g1, h1
        <5>. QED BY <2>2, <4>1
      <4>3. \A i \in 0 .. n : g[i] = h[i]
        <5>1. \A i \in 0 .. n : g1[i] = g[i] /\ h1[i] = h[i]
          OBVIOUS
        <5>. QED BY <4>2, <5>1
      <4>4. g[n + 1] = step[g[n]] /\ h[n + 1] = step[h[n]]
        <5>. HIDE DEF Upto
        <5>. QED BY <1>2, <3>1
      <4>5. \A i \in 0 .. (n + 1) : i \in 0 .. n \/ i = n + 1
        OBVIOUS
      <4>6. \A i \in 0 .. (n + 1) : g[i] = h[i]
        BY <4>3, <4>4, <4>5
      <4>7. g = [i \in 0 .. (n + 1) |-> g[i]] /\ h = [i \in 0 .. (n + 1) |-> h[i]]
        BY <3>1
      <4>. QED BY <4>6, <4>7
    <3>. HIDE DEF Upto
    <3>. QED BY <3>1
  <2>. HIDE DEF K
  <2>3. \A n \in Nat : n \in K
    BY <2>1, <2>2, NaturalInduction
  <2>. QED BY <2>3 DEF K
<1>4. \A n \in Nat : \E g : Upto(n, g)
  <2>. DEFINE K == { n \in Nat : \E g : Upto(n, g) }
  <2>1. 0 \in K
    <3>. DEFINE g == [k \in 0 .. 0 |-> z]
    <3>1. \A k \in 0 .. 0 : g[k] = IF k = 0 THEN z ELSE step[g[k - 1]]
      OBVIOUS
    <3>2. g = [k \in 0 .. 0 |-> g[k]]
      OBVIOUS
    <3>. HIDE DEF g
    <3>3. Upto(0, g)
      BY <3>1, <3>2
    <3>. QED BY <3>3
  <2>2. ASSUME NEW n \in Nat, n \in K PROVE n + 1 \in K
    <3>1. PICK h : Upto(n, h)
      BY <2>2
    <3>. DEFINE g == [k \in 0 .. (n + 1) |-> IF k = n + 1 THEN step[h[n]] ELSE h[k]]
    <3>2. \A k \in 0 .. n : g[k] = h[k]
      OBVIOUS
    <3>3. g[n + 1] = step[h[n]] /\ g = [k \in 0 .. (n + 1) |-> g[k]]
      OBVIOUS
    <3>. HIDE DEF g
    <3>4. \A k \in 0 .. n : h[k] = IF k = 0 THEN z ELSE step[h[k - 1]]
      BY <3>1
    <3>5. ASSUME NEW k \in 0 .. (n + 1) PROVE g[k] = IF k = 0 THEN z ELSE step[g[k - 1]]
      <4>1. CASE k = n + 1
        <5>1. k # 0 /\ k - 1 = n /\ n \in 0 .. n
          BY <4>1
        <5>. QED BY <3>2, <3>3, <4>1, <5>1
      <4>2. CASE k # n + 1
        <5>1. k \in 0 .. n /\ (k # 0 => k - 1 \in 0 .. n)
          BY <4>2
        <5>. QED BY <3>2, <3>4, <5>1
      <4>. QED BY <4>1, <4>2
    <3>6. Upto(n + 1, g)
      BY <3>3, <3>5
    <3>. QED BY <3>6
  <2>. HIDE DEF K
  <2>3. \A n \in Nat : n \in K
    BY <2>1, <2>2, NaturalInduction
  <2>. QED BY <2>3 DEF K
<1>5. \E f : Iterates(z, step, f)
  <2>. DEFINE F(n) == CHOOSE g : Upto(n, g)
              f == [n \in Nat |-> F(n)[n]]
  <2>1. \A n \in Nat : Upto(n, F(n))
    <3>. HIDE DEF Upto
    <3>. QED BY <1>4
  <2>2. f[0] = z
    <3>1. Upto(0, F(0)) /\ 0 \in 0 .. 0
      BY <2>1
    <3>. HIDE DEF F
    <3>. QED BY <3>1
  <2>3. ASSUME NEW n \in Nat PROVE f[n + 1] = step[f[n]]
    <3>. DEFINE g == F(n + 1)
                g1 == [i \in 0 .. n |-> g[i]]
    <3>1. Upto(n + 1, g) /\ n + 1 \in Nat
      <4>1. n + 1 \in Nat
        OBVIOUS
      <4>. HIDE DEF Upto, F
      <4>. QED BY <2>1, <4>1
    <3>2. Upto(n, g1) /\ g[n + 1] = step[g[n]]
      <4>. HIDE DEF Upto, g
      <4>. QED BY <3>1, <1>2
    <3>3. g1 = F(n)
      <4>. HIDE DEF Upto, g1, F
      <4>. QED BY <3>2, <2>1, <1>3
    <3>4. g1[n] = g[n]
      OBVIOUS
    <3>5. f[n] = F(n)[n] /\ f[n + 1] = g[n + 1]
      <4>. HIDE DEF F
      <4>. QED BY <3>1
    <3>. HIDE DEF g, g1, F, Upto, f
    <3>. QED BY <3>2, <3>3, <3>4, <3>5
  <2>4. f = [n \in Nat |-> f[n]]
    OBVIOUS
  <2>. HIDE DEF f
  <2>5. \A n \in Nat : f[n] = IF n = 0 THEN z ELSE step[f[n - 1]]
    <3>1. ASSUME NEW n \in Nat, n # 0 PROVE f[n] = step[f[n - 1]]
      <4>1. n - 1 \in Nat /\ (n - 1) + 1 = n
        BY <3>1
      <4>2. f[(n - 1) + 1] = step[f[n - 1]]
        BY <2>3, <4>1
      <4>. QED BY <4>1, <4>2
    <3>. QED BY <2>2, <3>1
  <2>6. Iterates(z, step, f)
    BY <2>4, <2>5 DEF Iterates
  <2>. QED BY <2>6
<1>. QED BY <1>1, <1>5

(* The running quotients of a number by the base.                           *)
LEMMA QuotientFacts ==
  ASSUME NEW x \in Nat
  PROVE  /\ Quotients(x) \in [Nat -> Nat]
         /\ Quotients(x)[0] = x
         /\ \A n \in Nat : Quotients(x)[n + 1] = Quotients(x)[n] \div GADGET_BASE
<1>. DEFINE B == GADGET_BASE
            step == [y \in Nat |-> y \div B]
            Def(f) == f = [n \in Nat |-> IF n = 0 THEN x ELSE f[n - 1] \div B]
            r == Quotients(x)
<1>0. B \in Nat \ {0}
  BY GadgetAssumption
<1>. HIDE DEF B
<1>1. step \in [Nat -> Nat]
  BY <1>0
<1>2. PICK f : Iterates(x, step, f) /\ f \in [Nat -> Nat]
  <2>. HIDE DEF step
  <2>. QED BY <1>1, IterationExists
<1>3. Def(f)
  <2>1. \A n \in Nat : f[n] = IF n = 0 THEN x ELSE step[f[n - 1]]
    BY <1>2 DEF Iterates
  <2>2. \A n \in Nat : f[n] = IF n = 0 THEN x ELSE f[n - 1] \div B
    <3>1. ASSUME NEW n \in Nat, n # 0 PROVE f[n] = f[n - 1] \div B
      <4>1. n - 1 \in Nat
        BY <3>1
      <4>2. f[n - 1] \in Nat
        BY <1>2, <4>1
      <4>. QED BY <2>1, <3>1, <4>2
    <3>. QED BY <2>1, <3>1
  <2>. QED BY <1>2, <2>2
<1>4. Def(r)
  <2>. USE DEF B
  <2>. QED BY <1>3 DEF Quotients
<1>. HIDE DEF r
<1>5. r[0] = x
  BY <1>4
<1>6. ASSUME NEW n \in Nat PROVE r[n + 1] = r[n] \div B
  <2>1. n + 1 \in Nat /\ n + 1 # 0 /\ (n + 1) - 1 = n
    OBVIOUS
  <2>. QED BY <1>4, <2>1
<1>. DEFINE K == { n \in Nat : r[n] \in Nat }
<1>7. \A n \in Nat : n \in K
  <2>1. 0 \in K
    BY <1>5
  <2>2. ASSUME NEW n \in Nat, n \in K PROVE n + 1 \in K
    BY <1>0, <1>6, <2>2
  <2>. HIDE DEF K
  <2>. QED BY <2>1, <2>2, NaturalInduction
<1>8. r \in [Nat -> Nat]
  BY <1>4, <1>7
<1>. QED BY <1>5, <1>6, <1>8 DEF r, B

(* The powers of the base.                                                  *)
LEMMA BasePowerFacts ==
  /\ BasePower \in [Nat -> Nat \ {0}]
  /\ BasePower[0] = 1
  /\ \A n \in Nat : BasePower[n + 1] = GADGET_BASE * BasePower[n]
<1>. DEFINE B == GADGET_BASE
            V == Nat \ {0}
            step == [y \in V |-> B * y]
            Def(f) == f = [n \in Nat |-> IF n = 0 THEN 1 ELSE B * f[n - 1]]
            r == BasePower
<1>0. B \in Nat \ {0}
  BY GadgetAssumption
<1>. HIDE DEF B
<1>a. \A y \in V : B * y \in V
  BY <1>0
<1>1. 1 \in V /\ step \in [V -> V]
  BY <1>a
<1>2. PICK f : Iterates(1, step, f) /\ f \in [Nat -> V]
  <2>. HIDE DEF step, V
  <2>. QED BY <1>1, IterationExists
<1>3. Def(f)
  <2>1. \A n \in Nat : f[n] = IF n = 0 THEN 1 ELSE step[f[n - 1]]
    BY <1>2 DEF Iterates
  <2>2. \A n \in Nat : f[n] = IF n = 0 THEN 1 ELSE B * f[n - 1]
    <3>1. ASSUME NEW n \in Nat, n # 0 PROVE f[n] = B * f[n - 1]
      <4>1. n - 1 \in Nat
        BY <3>1
      <4>2. f[n - 1] \in V
        BY <1>2, <4>1
      <4>. QED BY <2>1, <3>1, <4>2
    <3>. QED BY <2>1, <3>1
  <2>. QED BY <1>2, <2>2
<1>4. Def(r)
  <2>. USE DEF B
  <2>. QED BY <1>3 DEF BasePower
<1>. HIDE DEF r
<1>5. r[0] = 1
  BY <1>4
<1>6. ASSUME NEW n \in Nat PROVE r[n + 1] = B * r[n]
  <2>1. n + 1 \in Nat /\ n + 1 # 0 /\ (n + 1) - 1 = n
    OBVIOUS
  <2>. QED BY <1>4, <2>1
<1>. DEFINE K == { n \in Nat : r[n] \in V }
<1>7. \A n \in Nat : n \in K
  <2>1. 0 \in K
    BY <1>5
  <2>2. ASSUME NEW n \in Nat, n \in K PROVE n + 1 \in K
    BY <1>a, <1>6, <2>2
  <2>. HIDE DEF K
  <2>. QED BY <2>1, <2>2, NaturalInduction
<1>8. r \in [Nat -> V]
  BY <1>4, <1>7
<1>. QED BY <1>5, <1>6, <1>8 DEF r, B

(* A digit is below the base.                                               *)
LEMMA DigitRange ==
  ASSUME NEW x \in Nat, NEW e \in Nat
  PROVE  DigitAt(x, e) \in 0 .. (GADGET_BASE - 1)
<1>1. Quotients(x)[e] \in Nat
  BY QuotientFacts
<1>. QED BY <1>1, GadgetAssumption DEF DigitAt

(* A digit column of a block that has the row is a ring element.            *)
LEMMA DigitPolyType ==
  ASSUME NEW b \in Seq(Rq), NEW j \in Column, RowOf(j) < Len(b)
  PROVE  /\ DigitPoly(b, j) \in Rq
         /\ \A p \in Coeff : DigitPoly(b, j)[p] \in 0 .. (GADGET_BASE - 1)
<1>1. RowOf(j) + 1 \in 1 .. Len(b) /\ DigitOf(j) \in Nat
  BY ColumnIndex, GadgetAssumption DEF Row, Digit
<1>2. b[RowOf(j) + 1] \in Rq
  BY <1>1
<1>3. \A p \in Coeff : b[RowOf(j) + 1][p] \in Nat
  BY <1>2, RingAssumption DEF Rq, Fp
<1>4. \A p \in Coeff :
        DigitAt(b[RowOf(j) + 1][p], DigitOf(j)) \in 0 .. (GADGET_BASE - 1)
  BY <1>1, <1>3, DigitRange
<1>5. 0 .. (GADGET_BASE - 1) \subseteq Fp
  BY GadgetAssumption, RingAssumption DEF Fp
<1>. QED BY <1>4, <1>5 DEF DigitPoly, Rq

(* A shift reads a coefficient of the same element.                         *)
LEMMA SourceRange ==
  ASSUME NEW k \in Coeff, NEW p \in Coeff
  PROVE  Source(k, p) \in Coeff
BY RingAssumption DEF Source, Coeff

(* The unit passes of an element are finitely many pairs whose first        *)
(* component is a coefficient position.                                     *)
LEMMA UnitPassesFinite ==
  ASSUME NEW c \in Rq
  PROVE  /\ IsFiniteSet(UnitPasses(c))
         /\ Cardinality(UnitPasses(c)) \in Nat
         /\ \A x \in UnitPasses(c) : x[1] \in Coeff
<1>1. IsFiniteSet(Coeff) /\ IsFiniteSet(1 .. Q)
  BY RingAssumption, FS_Interval DEF Coeff
<1>2. IsFiniteSet(Coeff \X (1 .. Q))
  BY <1>1, FS_Product
<1>3. UnitPasses(c) \subseteq Coeff \X (1 .. Q)
  BY DEF UnitPasses
<1>4. IsFiniteSet(UnitPasses(c))
  BY <1>2, <1>3, FS_Subset
<1>. QED BY <1>3, <1>4, FS_CardinalityType

(* Multiples of q do not change a residue.                                  *)
LEMMA ModShift ==
  ASSUME NEW a \in Int, NEW n \in Int
  PROVE  (a + Q * n) % Q = a % Q
<1>. DEFINE d == a \div Q
            r == a % Q
            D == (a + Q * n) \div Q
            R == (a + Q * n) % Q
<1>0. Q \in Nat \ {0}
  BY RingAssumption
<1>1. d \in Int /\ r \in 0 .. (Q - 1) /\ a = Q * d + r
  BY <1>0
<1>2. D \in Int /\ R \in 0 .. (Q - 1) /\ a + Q * n = Q * D + R
  <2>1. a + Q * n \in Int
    BY <1>0
  <2>. QED BY <1>0, <2>1
<1>. HIDE DEF d, r, D, R
<1>3. Q * (d + n - D) = R - r
  BY <1>0, <1>1, <1>2
<1>. DEFINE k == d + n - D
<1>4. k \in Int /\ Q * k = R - r
  BY <1>1, <1>2, <1>3
<1>. HIDE DEF k
<1>5. ~(k >= 1)
  <2>1. SUFFICES ASSUME k >= 1 PROVE FALSE
    OBVIOUS
  <2>2. Q * k >= Q * 1
    BY <1>0, <1>4, <2>1
  <2>. QED BY <1>0, <1>1, <1>2, <1>4, <2>2
<1>6. ~(k <= -1)
  <2>1. SUFFICES ASSUME k <= -1 PROVE FALSE
    OBVIOUS
  <2>2. Q * k <= Q * (-1)
    BY <1>0, <1>4, <2>1
  <2>. QED BY <1>0, <1>1, <1>2, <1>4, <2>2
<1>7. k = 0
  BY <1>4, <1>5, <1>6
<1>8. R = r
  BY <1>0, <1>1, <1>2, <1>4, <1>7
<1>. QED BY <1>8 DEF R, r

(* A sum's residue is that of the sum of a residue and the other term.      *)
LEMMA ModAdd ==
  ASSUME NEW a \in Int, NEW b \in Int
  PROVE  /\ ((a % Q) + b) % Q = (a + b) % Q
         /\ (a + (b % Q)) % Q = (a + b) % Q
<1>0. Q \in Nat \ {0}
  BY RingAssumption
<1>1. \A x, y \in Int : ((x % Q) + y) % Q = (x + y) % Q
  <2>. SUFFICES ASSUME NEW x \in Int, NEW y \in Int
                PROVE  ((x % Q) + y) % Q = (x + y) % Q
    OBVIOUS
  <2>. DEFINE d == x \div Q
              r == x % Q
  <2>1. d \in Int /\ r \in Int /\ x = Q * d + r
    BY <1>0
  <2>. HIDE DEF d, r
  <2>2. x + y = (r + y) + Q * d
    BY <1>0, <2>1
  <2>3. ((r + y) + Q * d) % Q = (r + y) % Q
    BY <2>1, ModShift
  <2>. QED BY <2>2, <2>3 DEF r
<1>2. ((b % Q) + a) % Q = (b + a) % Q
  BY <1>1
<1>3. b % Q \in Int
  BY <1>0
<1>4. a + (b % Q) = (b % Q) + a /\ a + b = b + a
  BY <1>3
<1>. QED BY <1>1, <1>2, <1>4

(* A term added to a value and to what is taken back from it cancels.       *)
LEMMA ModCancel ==
  ASSUME NEW a \in Int, NEW s \in Int, NEW v \in Int
  PROVE  (((a + v) % Q) - (s + v)) % Q = (a - s) % Q
<1>1. (((a + v) % Q) + (-(s + v))) % Q = ((a + v) + (-(s + v))) % Q
  BY ModAdd
<1>2. (a + v) + (-(s + v)) = a - s /\ (a + v) % Q \in Int
  BY RingAssumption
<1>3. ((a + v) % Q) + (-(s + v)) = ((a + v) % Q) - (s + v)
  BY <1>2
<1>. QED BY <1>1, <1>2, <1>3

(* What was taken back may be given back as anything with its residue.      *)
LEMMA ModReturn ==
  ASSUME NEW a \in Int, NEW s \in Int, NEW t \in Int, s % Q = t % Q
  PROVE  a % Q = (((a - s) % Q) + t) % Q
<1>1. (((a - s) % Q) + t) % Q = ((a - s) + t) % Q
  BY ModAdd
<1>2. ((a - s) + t) % Q = ((a - s) + (t % Q)) % Q
  BY ModAdd
<1>3. ((a - s) + (s % Q)) % Q = ((a - s) + s) % Q
  BY ModAdd
<1>4. (a - s) + s = a
  OBVIOUS
<1>. QED BY <1>1, <1>2, <1>3, <1>4

(* A residue is its own residue.                                            *)
LEMMA ModSmall ==
  ASSUME NEW a \in Int
  PROVE  /\ (a % Q) \in Fp
         /\ (a \in Fp => a % Q = a)
BY RingAssumption DEF Fp
-----------------------------------------------------------------------------
(* Sums over finite sets. *)

(* A family of subsets of a finite set that has the empty set, and a set    *)
(* whenever it has the set less any one element, has every subset.          *)
LEMMA SubsetInduction ==
  ASSUME NEW S, IsFiniteSet(S), NEW G, {} \in G,
         \A T \in SUBSET S : T # {} /\ (\A x \in T : T \ {x} \in G) => T \in G
  PROVE  \A T \in SUBSET S : T \in G
<1>. DEFINE R == StrictSubsetOrdering(S)
            D == { T \in SUBSET S : T \notin G }
<1>1. SUFFICES ASSUME D # {} PROVE FALSE
  OBVIOUS
<1>2. IsWellFoundedOn(R, SUBSET S)
  BY FS_StrictSubsetOrderingWellFounded, FS_FiniteSubsetsOfFinite
<1>3. PICK T \in D : \A U \in D : ~(<<U, T>> \in R)
  <2>. HIDE DEF R
  <2>1. D \subseteq SUBSET S
    OBVIOUS
  <2>. HIDE DEF D
  <2>. QED BY <1>1, <1>2, <2>1, WFMin
<1>4. T # {}
  OBVIOUS
<1>5. ASSUME NEW x \in T PROVE T \ {x} \notin D
  <2>. DEFINE U == T \ {x}
  <2>1. <<U, T>> \in R
    BY DEF StrictSubsetOrdering
  <2>. QED BY <1>3, <2>1
<1>. QED BY <1>4, <1>5

(* The body of the fold that computes a sum.                                *)
PartialSums(f, S, it) ==
  [s \in SUBSET S |-> IF s = {} THEN 0
                      ELSE LET x == CHOOSE x \in s : TRUE IN f[x] + it[s \ {x}]]
ArePartialSums(f, S, it) == it = PartialSums(f, S, it)

LEMMA SumIsFold ==
  ASSUME NEW f, NEW S
  PROVE  SumFunctionOnSet(f, S) = (CHOOSE it : ArePartialSums(f, S, it))[S]
BY DEF SumFunctionOnSet, FoldFunctionOnSet, MapThenFoldSet, ArePartialSums, PartialSums

(* Two partial sums agree where both are defined.                           *)
LEMMA PartialSumsUnique ==
  ASSUME NEW f, NEW S, IsFiniteSet(S), NEW T, NEW g, NEW h,
         ArePartialSums(f, S, g), ArePartialSums(f, T, h)
  PROVE  \A U \in SUBSET S : U \subseteq T => g[U] = h[U]
<1>. DEFINE G == { V \in SUBSET S : V \subseteq T => g[V] = h[V] }
<1>1. {} \in G
  BY DEF ArePartialSums, PartialSums
<1>2. ASSUME NEW V \in SUBSET S, V # {}, \A x \in V : V \ {x} \in G
      PROVE  V \in G
  <2>. DEFINE x == CHOOSE x \in V : TRUE
  <2>. SUFFICES ASSUME V \subseteq T PROVE g[V] = h[V]
    OBVIOUS
  <2>1. x \in V
    BY <1>2
  <2>2. g[V] = f[x] + g[V \ {x}] /\ h[V] = f[x] + h[V \ {x}]
    BY <1>2 DEF ArePartialSums, PartialSums
  <2>. QED BY <1>2, <2>1, <2>2
<1>. HIDE DEF G
<1>3. \A V \in SUBSET S : V \in G
  BY <1>1, <1>2, SubsetInduction
<1>. QED BY <1>3 DEF G

(* The fold's recursion has a solution.                                     *)
LEMMA PartialSumsExist ==
  ASSUME NEW f, NEW S, IsFiniteSet(S)
  PROVE  \E it : ArePartialSums(f, S, it)
<1>. DEFINE G == { V \in SUBSET S : \E it : ArePartialSums(f, V, it) }
<1>1. {} \in G
  <2>. DEFINE it == [s \in SUBSET {} |-> 0]
  <2>1. PartialSums(f, {}, it) = it
    BY DEF PartialSums
  <2>. HIDE DEF it
  <2>. QED BY <2>1 DEF ArePartialSums
<1>2. ASSUME NEW V \in SUBSET S, V # {}, \A x \in V : V \ {x} \in G
      PROVE  V \in G
  <2>. DEFINE Best(U) == CHOOSE it : ArePartialSums(f, U, it)
              h == [s \in SUBSET V |-> IF s = {} THEN 0
                      ELSE LET x == CHOOSE x \in s : TRUE
                           IN  f[x] + Best(s \ {x})[s \ {x}]]
  <2>0. ASSUME NEW U \in SUBSET V, U # V PROVE \E it : ArePartialSums(f, U, it)
    <3>1. PICK y \in V : y \notin U
      BY <2>0
    <3>2. PICK it : ArePartialSums(f, V \ {y}, it)
      BY <1>2, <3>1
    <3>. DEFINE k == [s \in SUBSET U |-> it[s]]
    <3>3. k = PartialSums(f, U, k)
      <4>1. ASSUME NEW s \in SUBSET U
            PROVE  k[s] = IF s = {} THEN 0
                      ELSE LET x == CHOOSE x \in s : TRUE IN f[x] + k[s \ {x}]
        <5>1. CASE s = {}
          BY <3>1, <3>2, <5>1 DEF ArePartialSums, PartialSums
        <5>2. CASE s # {}
          <6>. DEFINE x == CHOOSE x \in s : TRUE
          <6>1. s \in SUBSET (V \ {y}) /\ s \ {x} \in SUBSET U
            BY <3>1
          <6>2. it[s] = f[x] + it[s \ {x}]
            BY <6>1, <3>2, <5>2 DEF ArePartialSums, PartialSums
          <6>. QED BY <6>1, <6>2, <5>2
        <5>. QED BY <5>1, <5>2
      <4>. HIDE DEF k
      <4>2. k = [s \in SUBSET U |-> k[s]]
        BY DEF k
      <4>. QED BY <4>1, <4>2 DEF PartialSums
    <3>. HIDE DEF k
    <3>. QED BY <3>3 DEF ArePartialSums
  <2>1. ASSUME NEW U \in SUBSET V, U # V PROVE ArePartialSums(f, U, Best(U))
    BY <2>0, <2>1
  <2>2. ASSUME NEW U \in SUBSET V, U # V PROVE h[U] = Best(U)[U]
    <3>1. ArePartialSums(f, U, Best(U))
      BY <2>1, <2>2
    <3>2. CASE U = {}
      BY <3>1, <3>2 DEF ArePartialSums, PartialSums
    <3>3. CASE U # {}
      <4>. DEFINE x == CHOOSE x \in U : TRUE
                  W == U \ {x}
      <4>1. x \in U
        BY <3>3
      <4>2. Best(U)[U] = f[x] + Best(U)[W]
        <5>. DEFINE g == Best(U)
        <5>. HIDE DEF g
        <5>. QED BY <3>1, <3>3 DEF ArePartialSums, PartialSums, g
      <4>3. W \in SUBSET V /\ W # V
        BY <4>1
      <4>4. ArePartialSums(f, W, Best(W))
        BY <4>3, <2>1
      <4>5. IsFiniteSet(W)
        BY <4>3, FS_Subset
      <4>6. Best(W)[W] = Best(U)[W]
        <5>. DEFINE g == Best(U)
                    k == Best(W)
        <5>. HIDE DEF g, k
        <5>. QED BY <3>1, <4>4, <4>5, PartialSumsUnique DEF g, k
      <4>7. h[U] = f[x] + Best(W)[W]
        BY <3>3
      <4>. QED BY <4>2, <4>6, <4>7
    <3>. QED BY <3>2, <3>3
  <2>3. h = PartialSums(f, V, h)
    <3>1. ASSUME NEW s \in SUBSET V, s # {}
          PROVE  LET x == CHOOSE x \in s : TRUE IN h[s \ {x}] = Best(s \ {x})[s \ {x}]
      <4>. DEFINE x == CHOOSE x \in s : TRUE
      <4>1. x \in s
        BY <3>1
      <4>2. s \ {x} \in SUBSET V /\ s \ {x} # V
        BY <4>1
      <4>. HIDE DEF h, x
      <4>. QED BY <4>2, <2>2 DEF x
    <3>2. ASSUME NEW s \in SUBSET V
          PROVE  h[s] = IF s = {} THEN 0
                        ELSE LET x == CHOOSE x \in s : TRUE IN f[x] + h[s \ {x}]
      <4>1. CASE s = {}
        BY <4>1
      <4>2. CASE s # {}
        <5>. DEFINE x == CHOOSE x \in s : TRUE
                    b == Best(s \ {x})
        <5>1. h[s] = f[x] + b[s \ {x}]
          BY <4>2
        <5>2. h[s \ {x}] = b[s \ {x}]
          BY <3>1, <4>2
        <5>. HIDE DEF h, b
        <5>. QED BY <4>2, <5>1, <5>2
      <4>. QED BY <4>1, <4>2
    <3>3. h = [s \in SUBSET V |-> h[s]]
      OBVIOUS
    <3>. HIDE DEF h
    <3>. QED BY <3>2, <3>3 DEF PartialSums
  <2>. HIDE DEF h
  <2>. QED BY <2>3 DEF ArePartialSums
<1>. HIDE DEF G
<1>3. \A V \in SUBSET S : V \in G
  BY <1>1, <1>2, SubsetInduction
<1>. QED BY <1>3 DEF G

(* The sum over a set is the chosen element's value and the rest's sum.     *)
LEMMA SumChosen ==
  ASSUME NEW f, NEW S, IsFiniteSet(S)
  PROVE  /\ SumFunctionOnSet(f, {}) = 0
         /\ S # {} => LET x == CHOOSE x \in S : TRUE
                      IN  SumFunctionOnSet(f, S) = f[x] + SumFunctionOnSet(f, S \ {x})
<1>. DEFINE Best(U) == CHOOSE it : ArePartialSums(f, U, it)
<1>1. ASSUME NEW U, IsFiniteSet(U)
      PROVE  ArePartialSums(f, U, Best(U)) /\ SumFunctionOnSet(f, U) = Best(U)[U]
  BY <1>1, PartialSumsExist, SumIsFold
<1>2. SumFunctionOnSet(f, {}) = 0
  <2>. DEFINE g == Best({})
  <2>1. ArePartialSums(f, {}, g) /\ SumFunctionOnSet(f, {}) = g[{}]
    BY <1>1, FS_EmptySet
  <2>. HIDE DEF g
  <2>. QED BY <2>1 DEF ArePartialSums, PartialSums
<1>3. ASSUME S # {}
      PROVE  LET x == CHOOSE x \in S : TRUE
             IN  SumFunctionOnSet(f, S) = f[x] + SumFunctionOnSet(f, S \ {x})
  <2>. DEFINE x == CHOOSE x \in S : TRUE
              W == S \ {x}
              g == Best(S)
              k == Best(W)
  <2>1. IsFiniteSet(W)
    BY FS_Subset
  <2>2. /\ ArePartialSums(f, S, g) /\ SumFunctionOnSet(f, S) = g[S]
        /\ ArePartialSums(f, W, k) /\ SumFunctionOnSet(f, W) = k[W]
    BY <1>1, <2>1
  <2>. HIDE DEF g, k
  <2>3. g[S] = f[x] + g[W]
    BY <2>2, <1>3 DEF ArePartialSums, PartialSums
  <2>4. g[W] = k[W]
    <3>1. W \subseteq S
      OBVIOUS
    <3>. HIDE DEF W
    <3>2. \A U \in SUBSET W : U \subseteq S => k[U] = g[U]
      BY <2>1, <2>2, PartialSumsUnique
    <3>. QED BY <3>1, <3>2
  <2>. QED BY <2>2, <2>3, <2>4
<1>. QED BY <1>2, <1>3

LEMMA SumEmpty ==
  ASSUME NEW f
  PROVE  SumFunctionOnSet(f, {}) = 0
BY SumChosen, FS_EmptySet

(* A sum of integers is an integer.                                         *)
LEMMA SumInt ==
  ASSUME NEW S, IsFiniteSet(S), NEW f, \A x \in S : f[x] \in Int
  PROVE  SumFunctionOnSet(f, S) \in Int
<1>. DEFINE F(U) == SumFunctionOnSet(f, U)
            G == { U \in SUBSET S : F(U) \in Int }
<1>1. {} \in G
  BY SumEmpty
<1>2. ASSUME NEW V \in SUBSET S, V # {}, \A x \in V : V \ {x} \in G
      PROVE  V \in G
  <2>. DEFINE x == CHOOSE x \in V : TRUE
  <2>1. x \in V /\ IsFiniteSet(V)
    BY <1>2, FS_Subset
  <2>2. F(V) = f[x] + F(V \ {x})
    BY <1>2, <2>1, SumChosen
  <2>. HIDE DEF x, F
  <2>. QED BY <1>2, <2>1, <2>2
<1>. HIDE DEF G
<1>3. \A U \in SUBSET S : U \in G
  BY <1>1, <1>2, SubsetInduction
<1>. QED BY <1>3 DEF G

(* A sum of natural numbers is one.                                         *)
LEMMA SumNat ==
  ASSUME NEW S, IsFiniteSet(S), NEW f, \A x \in S : f[x] \in Nat
  PROVE  SumFunctionOnSet(f, S) \in Nat
<1>. DEFINE F(U) == SumFunctionOnSet(f, U)
            G == { U \in SUBSET S : F(U) \in Nat }
<1>1. {} \in G
  BY SumEmpty
<1>2. ASSUME NEW V \in SUBSET S, V # {}, \A x \in V : V \ {x} \in G
      PROVE  V \in G
  <2>. DEFINE x == CHOOSE x \in V : TRUE
  <2>1. x \in V /\ IsFiniteSet(V)
    BY <1>2, FS_Subset
  <2>2. F(V) = f[x] + F(V \ {x})
    BY <1>2, <2>1, SumChosen
  <2>. HIDE DEF x, F
  <2>. QED BY <1>2, <2>1, <2>2
<1>. HIDE DEF G
<1>3. \A U \in SUBSET S : U \in G
  BY <1>1, <1>2, SubsetInduction
<1>. QED BY <1>3 DEF G

(* Any element may be taken out of a sum first.                             *)
LEMMA SumRemove ==
  ASSUME NEW S, IsFiniteSet(S), NEW f, \A x \in S : f[x] \in Int
  PROVE  /\ SumFunctionOnSet(f, {}) = 0
         /\ \A y \in S : SumFunctionOnSet(f, S) = f[y] + SumFunctionOnSet(f, S \ {y})
<1>. DEFINE F(U) == SumFunctionOnSet(f, U)
            G == { U \in SUBSET S : \A y \in U : F(U) = f[y] + F(U \ {y}) }
<1>0. ASSUME NEW U \in SUBSET S PROVE F(U) \in Int /\ IsFiniteSet(U)
  BY SumInt, FS_Subset
<1>1. {} \in G
  OBVIOUS
<1>2. ASSUME NEW V \in SUBSET S, V # {}, \A x \in V : V \ {x} \in G
      PROVE  V \in G
  <2>. SUFFICES ASSUME NEW y \in V PROVE F(V) = f[y] + F(V \ {y})
    OBVIOUS
  <2>. DEFINE x == CHOOSE x \in V : TRUE
              U == (V \ {x}) \ {y}
  <2>1. x \in V /\ IsFiniteSet(V)
    BY <1>2, FS_Subset
  <2>2. F(V) = f[x] + F(V \ {x})
    BY <1>2, <2>1, SumChosen
  <2>3. CASE x = y
    BY <2>2, <2>3
  <2>4. CASE x # y
    <3>. HIDE DEF x, F
    <3>1. F(V \ {x}) = f[y] + F(U)
      BY <1>2, <2>1, <2>4
    <3>2. F(V \ {y}) = f[x] + F((V \ {y}) \ {x})
      BY <1>2, <2>1, <2>4
    <3>3. (V \ {y}) \ {x} = U
      OBVIOUS
    <3>4. F(U) \in Int /\ f[x] \in Int /\ f[y] \in Int
      BY <1>0, <2>1
    <3>5. f[x] + (f[y] + F(U)) = f[y] + (f[x] + F(U))
      BY <3>4
    <3>. HIDE DEF U
    <3>. QED BY <2>2, <3>1, <3>2, <3>3, <3>5
  <2>. QED BY <2>3, <2>4
<1>. HIDE DEF G
<1>3. \A U \in SUBSET S : U \in G
  BY <1>1, <1>2, SubsetInduction
<1>. QED BY <1>3, SumEmpty DEF G

(* A new element adds its value.                                            *)
LEMMA SumAdd ==
  ASSUME NEW S, IsFiniteSet(S), NEW y, y \notin S,
         NEW f, \A x \in S \cup {y} : f[x] \in Int
  PROVE  SumFunctionOnSet(f, S \cup {y}) = SumFunctionOnSet(f, S) + f[y]
<1>1. IsFiniteSet(S \cup {y}) /\ (S \cup {y}) \ {y} = S
  BY FS_AddElement
<1>2. SumFunctionOnSet(f, S \cup {y}) = f[y] + SumFunctionOnSet(f, S)
  BY <1>1, SumRemove
<1>3. SumFunctionOnSet(f, S) \in Int
  BY SumInt
<1>. QED BY <1>2, <1>3

(* Functions that agree modulo q on a set have sums that agree modulo q.    *)
LEMMA SumModEqual ==
  ASSUME NEW S, IsFiniteSet(S), NEW f, NEW g,
         \A x \in S : f[x] \in Int /\ g[x] \in Int /\ f[x] % Q = g[x] % Q
  PROVE  SumFunctionOnSet(f, S) % Q = SumFunctionOnSet(g, S) % Q
<1>. DEFINE F(U) == SumFunctionOnSet(f, U)
            H(U) == SumFunctionOnSet(g, U)
            G == { U \in SUBSET S : F(U) % Q = H(U) % Q }
<1>1. {} \in G
  BY SumEmpty
<1>2. ASSUME NEW V \in SUBSET S, V # {}, \A x \in V : V \ {x} \in G
      PROVE  V \in G
  <2>1. PICK x : x \in V
    BY <1>2
  <2>. DEFINE W == V \ {x}
  <2>2. IsFiniteSet(V) /\ IsFiniteSet(W)
    BY FS_Subset
  <2>3. F(V) = f[x] + F(W) /\ H(V) = g[x] + H(W)
    BY <2>1, <2>2, SumRemove
  <2>4. F(W) \in Int /\ H(W) \in Int
    BY <2>2, SumInt
  <2>5. F(W) % Q = H(W) % Q
    BY <1>2, <2>1
  <2>. HIDE DEF F, H, W
  <2>6. \A r, t \in Int : (r + t) % Q = ((r % Q) + (t % Q)) % Q
    <3>. SUFFICES ASSUME NEW r \in Int, NEW t \in Int
                  PROVE  (r + t) % Q = ((r % Q) + (t % Q)) % Q
      OBVIOUS
    <3>1. t % Q \in Int
      BY RingAssumption
    <3>. QED BY <3>1, ModAdd
  <2>7. f[x] \in Int /\ g[x] \in Int /\ f[x] % Q = g[x] % Q
    BY <2>1
  <2>8. (f[x] + F(W)) % Q = ((f[x] % Q) + (F(W) % Q)) % Q
    BY <2>4, <2>6, <2>7
  <2>9. (g[x] + H(W)) % Q = ((g[x] % Q) + (H(W) % Q)) % Q
    BY <2>4, <2>6, <2>7
  <2>11. F(V) % Q = H(V) % Q
    BY <2>3, <2>5, <2>7, <2>8, <2>9
  <2>. QED BY <2>11 DEF F, H
<1>. HIDE DEF G
<1>3. \A U \in SUBSET S : U \in G
  BY <1>1, <1>2, SubsetInduction
<1>. QED BY <1>3 DEF G

(* A sum of equal values is their number times the value.                   *)
LEMMA SumConstant ==
  ASSUME NEW S, IsFiniteSet(S), NEW f, NEW v \in Int, \A x \in S : f[x] = v
  PROVE  SumFunctionOnSet(f, S) = Cardinality(S) * v
<1>. DEFINE F(U) == SumFunctionOnSet(f, U)
            G == { U \in SUBSET S : F(U) = Cardinality(U) * v }
<1>1. {} \in G
  BY SumEmpty, FS_EmptySet
<1>2. ASSUME NEW V \in SUBSET S, V # {}, \A x \in V : V \ {x} \in G
      PROVE  V \in G
  <2>1. PICK x : x \in V
    BY <1>2
  <2>. DEFINE W == V \ {x}
              n == Cardinality(W)
  <2>2. IsFiniteSet(V) /\ IsFiniteSet(W)
    BY FS_Subset
  <2>3. F(V) = v + F(W)
    BY <2>1, <2>2, SumRemove
  <2>4. n \in Nat
    BY <2>2, FS_CardinalityType
  <2>5. Cardinality(V) = n + 1
    <3>1. n = Cardinality(V) - 1 /\ Cardinality(V) \in Nat
      BY <2>1, <2>2, FS_RemoveElement, FS_CardinalityType
    <3>. HIDE DEF n
    <3>. QED BY <3>1
  <2>6. F(W) = n * v
    BY <1>2, <2>1
  <2>. HIDE DEF F, W, n
  <2>7. F(V) = (n + 1) * v
    BY <2>3, <2>4, <2>6
  <2>. QED BY <2>5, <2>7
<1>. HIDE DEF G
<1>3. \A U \in SUBSET S : U \in G
  BY <1>1, <1>2, SubsetInduction
<1>. QED BY <1>3 DEF G

(* The sum over two disjoint sets is the sum of the sums.                   *)
LEMMA SumDisjoint ==
  ASSUME NEW S, IsFiniteSet(S), NEW T, IsFiniteSet(T), S \cap T = {},
         NEW f, \A x \in S \cup T : f[x] \in Int
  PROVE  SumFunctionOnSet(f, S \cup T) = SumFunctionOnSet(f, S) + SumFunctionOnSet(f, T)
<1>. DEFINE F(U) == SumFunctionOnSet(f, U)
            G == { U \in SUBSET T : F(S \cup U) = F(S) + F(U) }
<1>0. F(S) \in Int
  BY SumInt
<1>1. {} \in G
  <2>1. S \cup {} = S
    OBVIOUS
  <2>2. F({}) = 0
    BY SumEmpty
  <2>. HIDE DEF F
  <2>. QED BY <1>0, <2>1, <2>2
<1>2. ASSUME NEW V \in SUBSET T, V # {}, \A x \in V : V \ {x} \in G
      PROVE  V \in G
  <2>1. PICK x : x \in V
    BY <1>2
  <2>. DEFINE W == V \ {x}
              A == S \cup V
              B == S \cup W
  <2>2. /\ IsFiniteSet(V) /\ IsFiniteSet(W) /\ IsFiniteSet(A)
        /\ A \ {x} = B /\ x \in A
    BY <2>1, FS_Subset, FS_Union
  <2>3. F(V) = f[x] + F(W)
    BY <2>1, <2>2, SumRemove
  <2>4. F(A) = f[x] + F(A \ {x})
    <3>1. \A y \in A : f[y] \in Int
      OBVIOUS
    <3>. HIDE DEF A
    <3>. QED BY <2>2, <3>1, SumRemove
  <2>5. F(B) = F(S) + F(W)
    BY <1>2, <2>1
  <2>6. F(W) \in Int /\ f[x] \in Int
    BY <2>1, <2>2, SumInt
  <2>. HIDE DEF F, W, A, B
  <2>7. f[x] + (F(S) + F(W)) = F(S) + (f[x] + F(W))
    BY <1>0, <2>6
  <2>8. F(A) = F(S) + F(V)
    BY <2>2, <2>3, <2>4, <2>5, <2>7
  <2>. QED BY <2>8 DEF A
<1>. HIDE DEF G
<1>3. \A U \in SUBSET T : U \in G
  BY <1>1, <1>2, SubsetInduction
<1>. QED BY <1>3 DEF G

(* A sum is at most the sum of bounds on its terms.                         *)
LEMMA SumBound ==
  ASSUME NEW S, IsFiniteSet(S), NEW f, NEW m \in Nat,
         \A x \in S : f[x] \in Int /\ f[x] <= m /\ f[x] >= -m
  PROVE  /\ SumFunctionOnSet(f, S) <= Cardinality(S) * m
         /\ SumFunctionOnSet(f, S) >= -(Cardinality(S) * m)
<1>. DEFINE F(U) == SumFunctionOnSet(f, U)
            G == { U \in SUBSET S : F(U) <= Cardinality(U) * m /\ F(U) >= -(Cardinality(U) * m) }
<1>1. {} \in G
  BY SumEmpty, FS_EmptySet
<1>2. ASSUME NEW V \in SUBSET S, V # {}, \A x \in V : V \ {x} \in G
      PROVE  V \in G
  <2>1. PICK x : x \in V
    BY <1>2
  <2>. DEFINE W == V \ {x}
              n == Cardinality(W)
  <2>2. IsFiniteSet(V) /\ IsFiniteSet(W)
    BY FS_Subset
  <2>3. F(V) = f[x] + F(W)
    BY <2>1, <2>2, SumRemove
  <2>4. n \in Nat
    BY <2>2, FS_CardinalityType
  <2>5. Cardinality(V) = n + 1
    <3>1. n = Cardinality(V) - 1 /\ Cardinality(V) \in Nat
      BY <2>1, <2>2, FS_RemoveElement, FS_CardinalityType
    <3>. HIDE DEF n
    <3>. QED BY <3>1
  <2>6. F(W) <= n * m /\ F(W) >= -(n * m) /\ F(W) \in Int
    BY <1>2, <2>1, <2>2, SumInt
  <2>7. f[x] \in Int /\ f[x] <= m /\ f[x] >= -m
    BY <2>1
  <2>. HIDE DEF F, W, n
  <2>8. (n + 1) * m = n * m + m /\ n * m \in Int
    BY <2>4
  <2>. DEFINE nm == n * m
  <2>. HIDE DEF nm
  <2>9. F(V) <= nm + m /\ F(V) >= -(nm + m)
    BY <2>3, <2>6, <2>7, <2>8 DEF nm
  <2>10. F(V) <= (n + 1) * m /\ F(V) >= -((n + 1) * m)
    BY <2>8, <2>9 DEF nm
  <2>. QED BY <2>5, <2>10
<1>. HIDE DEF G
<1>3. \A U \in SUBSET S : U \in G
  BY <1>1, <1>2, SubsetInduction
<1>. QED BY <1>3 DEF G

(* A sum depends on the values of the function on the set only.             *)
LEMMA SumEqual ==
  ASSUME NEW S, IsFiniteSet(S), NEW f, NEW g, \A x \in S : f[x] = g[x]
  PROVE  SumFunctionOnSet(f, S) = SumFunctionOnSet(g, S)
<1>. DEFINE F(U) == SumFunctionOnSet(f, U)
            H(U) == SumFunctionOnSet(g, U)
            G == { U \in SUBSET S : F(U) = H(U) }
<1>1. {} \in G
  BY SumEmpty
<1>2. ASSUME NEW V \in SUBSET S, V # {}, \A x \in V : V \ {x} \in G
      PROVE  V \in G
  <2>. DEFINE x == CHOOSE x \in V : TRUE
              W == V \ {x}
  <2>1. x \in V /\ IsFiniteSet(V)
    BY <1>2, FS_Subset
  <2>2. F(V) = f[x] + F(W) /\ H(V) = g[x] + H(W)
    BY <1>2, <2>1, SumChosen
  <2>3. F(W) = H(W)
    BY <1>2, <2>1
  <2>. HIDE DEF x, F, H
  <2>4. F(V) = H(V)
    BY <2>1, <2>2, <2>3
  <2>. QED BY <2>4 DEF F, H
<1>. HIDE DEF G
<1>3. \A U \in SUBSET S : U \in G
  BY <1>1, <1>2, SubsetInduction
<1>. QED BY <1>3 DEF G

(* A scaled sum and a difference of sums, term by term.                     *)
LEMMA SumDifference ==
  ASSUME NEW S, IsFiniteSet(S), NEW f, NEW g, NEW h,
         \A x \in S : f[x] \in Int /\ g[x] \in Int /\ h[x] = f[x] - g[x]
  PROVE  SumFunctionOnSet(h, S) = SumFunctionOnSet(f, S) - SumFunctionOnSet(g, S)
<1>. DEFINE F(U) == SumFunctionOnSet(f, U)
            K(U) == SumFunctionOnSet(g, U)
            H(U) == SumFunctionOnSet(h, U)
            G == { U \in SUBSET S : H(U) = F(U) - K(U) }
<1>1. {} \in G
  BY SumEmpty
<1>2. ASSUME NEW V \in SUBSET S, V # {}, \A x \in V : V \ {x} \in G
      PROVE  V \in G
  <2>1. PICK x : x \in V
    BY <1>2
  <2>. DEFINE W == V \ {x}
  <2>2. IsFiniteSet(V) /\ IsFiniteSet(W)
    BY FS_Subset
  <2>3. \A y \in V : f[y] \in Int /\ g[y] \in Int /\ h[y] \in Int
    OBVIOUS
  <2>4. F(V) = f[x] + F(W) /\ K(V) = g[x] + K(W) /\ H(V) = h[x] + H(W)
    BY <2>1, <2>2, <2>3, SumRemove
  <2>5. F(W) \in Int /\ K(W) \in Int
    BY <2>2, <2>3, SumInt
  <2>6. H(W) = F(W) - K(W)
    BY <1>2, <2>1
  <2>7. f[x] \in Int /\ g[x] \in Int /\ h[x] = f[x] - g[x]
    BY <2>1
  <2>. HIDE DEF F, K, H, W
  <2>8. H(V) = F(V) - K(V)
    BY <2>4, <2>5, <2>6, <2>7
  <2>. QED BY <2>8 DEF F, K, H
<1>. HIDE DEF G
<1>3. \A U \in SUBSET S : U \in G
  BY <1>1, <1>2, SubsetInduction
<1>. QED BY <1>3 DEF G

(* The residue of a product is that of the product of a residue.            *)
LEMMA ModScale ==
  ASSUME NEW a \in Int, NEW b \in Int
  PROVE  ((a % Q) * b) % Q = (a * b) % Q
<1>. DEFINE d == a \div Q
            r == a % Q
<1>1. Q \in Nat \ {0}
  BY RingAssumption
<1>2. d \in Int /\ r \in Int /\ a = Q * d + r
  BY <1>1
<1>. HIDE DEF d, r
<1>3. d * b \in Int /\ r * b \in Int
  BY <1>2
<1>4. a * b = r * b + Q * (d * b)
  <2>1. a * b = (Q * d + r) * b
    BY <1>2
  <2>2. (Q * d + r) * b = r * b + Q * (d * b)
    BY <1>1, <1>2
  <2>. QED BY <2>1, <2>2
<1>5. (r * b + Q * (d * b)) % Q = (r * b) % Q
  BY <1>3, ModShift
<1>. QED BY <1>4, <1>5 DEF r

-----------------------------------------------------------------------------
(* Digits. *)

(* What a number is made of: its first n digits, each at its power of the   *)
(* base, and what n divisions leave.                                        *)
LEMMA DigitExpansion ==
  ASSUME NEW x \in Nat, NEW n \in Nat, NEW f,
         \A e \in 0 .. (n - 1) : f[e] = DigitAt(x, e) * BasePower[e]
  PROVE  /\ Quotients(x)[n] \in Nat
         /\ SumFunctionOnSet(f, 0 .. (n - 1)) \in Nat
         /\ SumFunctionOnSet(f, 0 .. (n - 1)) + BasePower[n] * Quotients(x)[n] = x
<1>. DEFINE B == GADGET_BASE
            r == Quotients(x)
            w == BasePower
            g == [e \in Nat |-> (r[e] % B) * w[e]]
            F(k) == SumFunctionOnSet(g, 0 .. (k - 1))
            K == { k \in Nat : F(k) \in Nat /\ F(k) + w[k] * r[k] = x }
<1>0. B \in Nat \ {0}
  BY GadgetAssumption
<1>1. r \in [Nat -> Nat] /\ r[0] = x /\ \A k \in Nat : r[k + 1] = r[k] \div B
  BY QuotientFacts
<1>2. w \in [Nat -> Nat \ {0}] /\ w[0] = 1 /\ \A k \in Nat : w[k + 1] = B * w[k]
  BY BasePowerFacts
<1>. HIDE DEF B, r, w
<1>3. 0 \in K
  <2>1. 0 .. (0 - 1) = {}
    OBVIOUS
  <2>2. F(0) = 0
    BY <2>1, SumEmpty
  <2>. HIDE DEF F
  <2>. QED BY <1>1, <1>2, <2>2
<1>4. ASSUME NEW k \in Nat, k \in K PROVE k + 1 \in K
  <2>1. /\ 0 .. ((k + 1) - 1) = (0 .. (k - 1)) \cup {k}
        /\ k \notin 0 .. (k - 1) /\ IsFiniteSet(0 .. (k - 1))
    BY FS_Interval
  <2>2. r[k] % B \in Nat /\ r[k] \div B \in Nat /\ r[k] = B * (r[k] \div B) + (r[k] % B)
    <3>1. r[k] \in Nat
      BY <1>1
    <3>2. \A y \in Nat : y % B \in Nat /\ y \div B \in Nat /\ y = B * (y \div B) + (y % B)
      BY <1>0
    <3>. QED BY <3>1, <3>2
  <2>3. \A e \in Nat : g[e] \in Nat
    <3>1. ASSUME NEW e \in Nat PROVE g[e] \in Nat
      <4>1. r[e] % B \in Nat /\ w[e] \in Nat
        BY <1>0, <1>1, <1>2
      <4>2. (r[e] % B) * w[e] \in Nat
        BY <4>1
      <4>. QED BY <4>2
    <3>. QED BY <3>1
  <2>4. \A e \in (0 .. (k - 1)) \cup {k} : g[e] \in Int
    <3>1. \A e \in (0 .. (k - 1)) \cup {k} : e \in Nat
      OBVIOUS
    <3>. HIDE DEF g
    <3>. QED BY <2>3, <3>1
  <2>5. F(k + 1) = F(k) + g[k]
    <3>. HIDE DEF g
    <3>. QED BY <2>1, <2>4, SumAdd
  <2>6. g[k] = (r[k] % B) * w[k]
    OBVIOUS
  <2>7. F(k) \in Nat /\ F(k) + w[k] * r[k] = x /\ g[k] \in Nat
    BY <1>4, <2>3
  <2>. HIDE DEF F, g
  <2>8. w[k + 1] * r[k + 1] = (B * w[k]) * (r[k] \div B)
    BY <1>1, <1>2
  <2>. DEFINE d == r[k] \div B
              m == r[k] % B
              v == w[k]
  <2>9. d \in Nat /\ m \in Nat /\ v \in Nat
    BY <2>2, <1>2
  <2>10. r[k] = B * d + m
    BY <2>2
  <2>. HIDE DEF d, m, v
  <2>11. v * (B * d + m) = m * v + (B * v) * d
    BY <1>0, <2>9
  <2>12. v * r[k] = g[k] + w[k + 1] * r[k + 1]
    BY <2>6, <2>8, <2>10, <2>11 DEF d, m, v
  <2>13. w[k + 1] * r[k + 1] \in Nat
    <3>1. w[k + 1] \in Nat /\ r[k + 1] \in Nat
      BY <1>1, <1>2
    <3>. QED BY <3>1
  <2>14. F(k + 1) \in Nat /\ F(k + 1) + w[k + 1] * r[k + 1] = x
    BY <2>5, <2>7, <2>12, <2>13 DEF v
  <2>. QED BY <2>14 DEF F, g
<1>. HIDE DEF K
<1>5. \A k \in Nat : k \in K
  BY <1>3, <1>4, NaturalInduction
<1>6. SumFunctionOnSet(f, 0 .. (n - 1)) = F(n)
  <2>1. \A e \in 0 .. (n - 1) : f[e] = g[e]
    BY DEF r, w, B, DigitAt
  <2>2. IsFiniteSet(0 .. (n - 1))
    BY FS_Interval
  <2>. HIDE DEF g
  <2>. QED BY <2>1, <2>2, SumEqual
<1>7. F(n) \in Nat /\ F(n) + w[n] * r[n] = x
  BY <1>5 DEF K
<1>. QED BY <1>1, <1>6, <1>7 DEF r, w

(* Enough digits are all of them: repeated division loses nothing of a      *)
(* number below the power of the base they reach (digit_at, base_pow).      *)
THEOREM DigitsExact ==
  ASSUME NEW x \in Nat, NEW n \in Nat, x < BasePower[n]
  PROVE  SumFunction([e \in 0 .. (n - 1) |-> DigitAt(x, e) * BasePower[e]]) = x
<1>. DEFINE f == [e \in 0 .. (n - 1) |-> DigitAt(x, e) * BasePower[e]]
            s == SumFunctionOnSet(f, 0 .. (n - 1))
            v == BasePower[n]
            d == Quotients(x)[n]
<1>1. d \in Nat /\ s \in Nat /\ s + v * d = x
  <2>1. \A e \in 0 .. (n - 1) : f[e] = DigitAt(x, e) * BasePower[e]
    OBVIOUS
  <2>. HIDE DEF f
  <2>. QED BY <2>1, DigitExpansion
<1>2. v \in Nat \ {0} /\ x < v
  BY BasePowerFacts
<1>3. DOMAIN f = 0 .. (n - 1)
  OBVIOUS
<1>4. SumFunction(f) = s
  <2>. HIDE DEF f
  <2>. QED BY <1>3 DEF SumFunction
<1>. HIDE DEF s, v, d, f
<1>5. d = 0
  <2>1. SUFFICES ASSUME d >= 1 PROVE FALSE
    BY <1>1
  <2>2. v * d >= v * 1
    BY <1>1, <1>2, <2>1
  <2>. QED BY <1>1, <1>2, <2>2
<1>6. s = x
  BY <1>1, <1>2, <1>5
<1>. QED BY <1>4, <1>6 DEF f

-----------------------------------------------------------------------------
(* Unit passes. *)

(* Equal residues stay equal when negated.                                  *)
LEMMA ModTermEqual ==
  ASSUME NEW w \in Fp, NEW v \in Int
  PROVE  /\ Magnitude(w) \in 0 .. Q
         /\ (Magnitude(w) * (IF IsNegative(w) THEN -v ELSE v)) % Q = (w * v) % Q
         /\ (Magnitude(w) * (IF ~IsNegative(w) THEN -v ELSE v)) % Q = (-(w * v)) % Q
<1>0. Q \in Nat \ {0} /\ w \in 0 .. (Q - 1) /\ Q \div 2 \in Nat
  BY RingAssumption DEF Fp
<1>1. w * v \in Int /\ Q * v \in Int
  BY <1>0
<1>2. CASE w <= Q \div 2
  <2>1. Magnitude(w) = w /\ ~IsNegative(w)
    BY <1>0, <1>2 DEF Magnitude, IsNegative
  <2>2. w * (-v) = -(w * v)
    BY <1>0
  <2>. QED BY <1>0, <2>1, <2>2
<1>3. CASE w > Q \div 2
  <2>1. Magnitude(w) = Q - w /\ IsNegative(w)
    BY <1>0, <1>3 DEF Magnitude, IsNegative
  <2>2. (Q - w) * (-v) = w * v + Q * (-v) /\ (Q - w) * v = -(w * v) + Q * v
    BY <1>0, <1>1
  <2>3. (w * v + Q * (-v)) % Q = (w * v) % Q
    BY <1>1, ModShift
  <2>4. (-(w * v) + Q * v) % Q = (-(w * v)) % Q
    BY <1>1, ModShift
  <2>. QED BY <1>0, <2>1, <2>2, <2>3, <2>4
<1>. QED BY <1>0, <1>2, <1>3

(* The passes at one position are as many as the coefficient is large.      *)
LEMMA PassesAt ==
  ASSUME NEW c \in Rq, NEW k \in Coeff
  PROVE  LET A == { x \in UnitPasses(c) : x[1] = k }
         IN  IsFiniteSet(A) /\ Cardinality(A) = Magnitude(c[k])
<1>. DEFINE A == { x \in UnitPasses(c) : x[1] = k }
            m == Magnitude(c[k])
            f == [u \in 1 .. m |-> <<k, u>>]
<1>1. m \in 0 .. Q
  BY ModTermEqual DEF Rq
<1>2. A = { <<k, u>> : u \in 1 .. m }
  <2>1. ASSUME NEW x \in A PROVE x \in { <<k, u>> : u \in 1 .. m }
    BY <1>1 DEF UnitPasses
  <2>2. ASSUME NEW u \in 1 .. m PROVE <<k, u>> \in A
    BY <1>1, RingAssumption DEF UnitPasses
  <2>. QED BY <2>1, <2>2
<1>3. f \in Bijection(1 .. m, A)
  <2>. HIDE DEF m, A
  <2>. QED BY <1>2 DEF Bijection, Injection, Surjection, IsInjective
<1>4. ExistsBijection(1 .. m, A)
  <2>. HIDE DEF m, A, f
  <2>. QED BY <1>3 DEF ExistsBijection
<1>5. Cardinality(A) = m
  <2>. HIDE DEF A, m
  <2>. QED BY <1>1, <1>4, FS_CountingElements
<1>6. IsFiniteSet(A)
  BY UnitPassesFinite, FS_Subset
<1>. QED BY <1>5, <1>6

(* The unit passes of an element add up to the schoolbook product.          *)
THEOREM UnitPassesExact ==
  ASSUME NEW c \in Rq, NEW s \in Rq, NEW p \in Coeff
  PROVE  SumFunction([x \in UnitPasses(c) |->
            Signed(c, x[1], p, s[Source(x[1], p)])]) % Q = NegMul(c, s)[p]
<1>. DEFINE v(k) == s[Source(k, p)]
            g == [x \in UnitPasses(c) |-> Signed(c, x[1], p, s[Source(x[1], p)])]
            t == [k \in Coeff |-> LET u == c[k] * s[Source(k, p)]
                                  IN  IF p < k THEN -u ELSE u]
            P(K) == { x \in UnitPasses(c) : x[1] \in K }
            A(k) == { x \in UnitPasses(c) : x[1] = k }
            G == { K \in SUBSET Coeff :
                     SumFunctionOnSet(g, P(K)) % Q = SumFunctionOnSet(t, K) % Q }
<1>0. ASSUME NEW k \in Coeff
      PROVE  v(k) \in Int /\ v(k) \in Nat /\ c[k] \in Fp /\ c[k] \in Int /\ t[k] \in Int
  <2>1. v(k) \in Fp /\ c[k] \in Fp
    BY SourceRange DEF Rq
  <2>2. v(k) \in Nat /\ c[k] \in Nat
    BY <2>1, RingAssumption DEF Fp
  <2>3. c[k] * v(k) \in Int
    BY <2>2
  <2>. QED BY <2>1, <2>2, <2>3
<1>1. ASSUME NEW x \in UnitPasses(c)
      PROVE  x[1] \in Coeff /\ g[x] = Signed(c, x[1], p, v(x[1])) /\ g[x] \in Int
  <2>1. x[1] \in Coeff
    BY UnitPassesFinite
  <2>2. v(x[1]) \in Int
    BY <1>0, <2>1
  <2>. QED BY <2>1, <2>2 DEF Signed
<1>2. IsFiniteSet(Coeff) /\ IsFiniteSet(UnitPasses(c))
  BY RingAssumption, FS_Interval, UnitPassesFinite DEF Coeff
<1>3. {} \in G
  <2>1. P({}) = {}
    OBVIOUS
  <2>2. SumFunctionOnSet(g, P({})) = 0 /\ SumFunctionOnSet(t, {}) = 0
    BY <2>1, SumEmpty
  <2>. HIDE DEF g, t, P
  <2>. QED BY <2>2
<1>4. ASSUME NEW k \in Coeff
      PROVE  SumFunctionOnSet(g, A(k)) % Q = t[k] % Q
  <2>. DEFINE w == Signed(c, k, p, v(k))
              m == Magnitude(c[k])
  <2>1. IsFiniteSet(A(k)) /\ Cardinality(A(k)) = m
    BY PassesAt
  <2>2. w \in Int /\ \A x \in A(k) : g[x] = w
    BY <1>0, <1>1 DEF Signed
  <2>3. SumFunctionOnSet(g, A(k)) = m * w
    <3>. HIDE DEF g, w, A, m
    <3>. QED BY <2>1, <2>2, SumConstant
  <2>4. (m * w) % Q = t[k] % Q
    <3>0. v(k) \in Int /\ c[k] \in Fp
      BY <1>0
    <3>1. CASE p < k
      <4>1. w = IF ~IsNegative(c[k]) THEN -v(k) ELSE v(k)
        BY <3>1 DEF Signed, Subtracts, IsNegative
      <4>2. t[k] = -(c[k] * v(k))
        BY <3>1
      <4>. HIDE DEF v, t, m, w
      <4>. QED BY <4>1, <4>2, <3>0, ModTermEqual DEF m
    <3>2. CASE ~(p < k)
      <4>1. w = IF IsNegative(c[k]) THEN -v(k) ELSE v(k)
        BY <3>2 DEF Signed, Subtracts, IsNegative
      <4>2. t[k] = c[k] * v(k)
        BY <3>2
      <4>. HIDE DEF v, t, m, w
      <4>. QED BY <4>1, <4>2, <3>0, ModTermEqual DEF m
    <3>. QED BY <3>1, <3>2
  <2>. QED BY <2>3, <2>4
<1>5. ASSUME NEW K \in SUBSET Coeff, K # {}, \A k \in K : K \ {k} \in G
      PROVE  K \in G
  <2>1. PICK k : k \in K
    BY <1>5
  <2>. DEFINE W == K \ {k}
  <2>2. /\ P(K) = P(W) \cup A(k) /\ P(W) \cap A(k) = {}
        /\ P(K) \subseteq UnitPasses(c) /\ P(W) \subseteq UnitPasses(c)
        /\ A(k) \subseteq UnitPasses(c)
    BY <2>1
  <2>3. IsFiniteSet(P(W)) /\ IsFiniteSet(A(k)) /\ IsFiniteSet(K) /\ IsFiniteSet(W)
    BY <1>2, <2>2, FS_Subset
  <2>. DEFINE a == SumFunctionOnSet(g, A(k))
              b == SumFunctionOnSet(g, P(W))
              d == SumFunctionOnSet(t, W)
  <2>. HIDE DEF g, P, A, t
  <2>4. SumFunctionOnSet(g, P(K)) = b + a
    BY <1>1, <2>2, <2>3, SumDisjoint
  <2>5. SumFunctionOnSet(t, K) = t[k] + d
    BY <1>0, <2>1, <2>3, SumRemove
  <2>6. a \in Int /\ b \in Int /\ d \in Int /\ t[k] \in Int
    BY <1>0, <1>1, <2>1, <2>2, <2>3, SumInt
  <2>7. a % Q = t[k] % Q /\ b % Q = d % Q
    BY <1>4, <1>5, <2>1 DEF G
  <2>. HIDE DEF a, b, d
  <2>8. (b + a) % Q = (t[k] + d) % Q
    <3>1. (b + a) % Q = ((b % Q) + a) % Q
      BY <2>6, ModAdd
    <3>2. (d + t[k]) % Q = ((d % Q) + t[k]) % Q
      BY <2>6, ModAdd
    <3>3. d % Q \in Int /\ t[k] + d = d + t[k]
      BY <2>6, RingAssumption
    <3>4. ((d % Q) + a) % Q = ((d % Q) + (a % Q)) % Q
      BY <2>6, <3>3, ModAdd
    <3>5. ((d % Q) + t[k]) % Q = ((d % Q) + (t[k] % Q)) % Q
      BY <2>6, <3>3, ModAdd
    <3>. QED BY <2>7, <3>1, <3>2, <3>3, <3>4, <3>5
  <2>. QED BY <2>4, <2>5, <2>8 DEF G
<1>6. Coeff \in G
  <2>. HIDE DEF G
  <2>1. \A K \in SUBSET Coeff : K \in G
    BY <1>2, <1>3, <1>5, SubsetInduction
  <2>. QED BY <2>1
<1>7. P(Coeff) = UnitPasses(c)
  BY <1>1
<1>8. /\ SumFunction(g) = SumFunctionOnSet(g, UnitPasses(c))
      /\ NegMul(c, s)[p] = SumFunction(t) % Q
      /\ SumFunction(t) = SumFunctionOnSet(t, Coeff)
  BY DEF NegMul, SumFunction
<1>9. SumFunctionOnSet(g, P(Coeff)) % Q = SumFunctionOnSet(t, Coeff) % Q
  BY <1>6
<1>10. SumFunction(g) % Q = NegMul(c, s)[p]
  <2>. HIDE DEF g, t, P
  <2>. QED BY <1>7, <1>8, <1>9
<1>. QED BY <1>10
-----------------------------------------------------------------------------
(* Centred words. *)

(* The centred magnitude is the least of all representatives'.              *)
LEMMA MagnitudeLeast ==
  ASSUME NEW a \in Int, NEW m \in Nat, a <= m, -a <= m
  PROVE  Magnitude(a % Q) \in Nat /\ Magnitude(a % Q) <= m
<1>. DEFINE d == a \div Q
            r == a % Q
            h == Q \div 2
<1>1. Q \in Nat \ {0}
  BY RingAssumption
<1>2. d \in Int /\ r \in 0 .. (Q - 1) /\ a = Q * d + r
  BY <1>1
<1>3. h \in Nat /\ 2 * h <= Q /\ Q <= 2 * h + 1
  BY <1>1
<1>. HIDE DEF d, r, h
<1>4. Magnitude(r) = IF r <= h THEN r ELSE Q - r
  BY DEF Magnitude, h
<1>5. Magnitude(r) \in Nat /\ Magnitude(r) <= r /\ Magnitude(r) <= Q - r
  BY <1>1, <1>2, <1>3, <1>4
<1>6. CASE d >= 0
  <2>1. Q * d >= 0
    BY <1>1, <1>2, <1>6
  <2>. QED BY <1>1, <1>2, <1>5, <2>1 DEF r
<1>7. CASE d <= -1
  <2>1. Q * d <= Q * (-1)
    BY <1>1, <1>2, <1>7
  <2>. QED BY <1>1, <1>2, <1>5, <2>1 DEF r
<1>. QED BY <1>2, <1>6, <1>7

(* A word stands for its magnitude with its sign.                           *)
Centred(w) == IF IsNegative(w) THEN -Magnitude(w) ELSE Magnitude(w)

LEMMA CentredFacts ==
  ASSUME NEW w \in Fp
  PROVE  /\ Magnitude(w) \in Nat
         /\ Centred(w) \in Int
         /\ Centred(w) <= Magnitude(w) /\ -Centred(w) <= Magnitude(w)
         /\ \A s \in Int : (Centred(w) + s) % Q = (w + s) % Q
<1>1. Q \in Nat \ {0} /\ w \in 0 .. (Q - 1) /\ Q \div 2 \in Nat
  BY RingAssumption DEF Fp
<1>2. Centred(w) = w \/ Centred(w) = w - Q
  BY <1>1 DEF Centred, Magnitude, IsNegative
<1>3. /\ Magnitude(w) \in Nat /\ Centred(w) \in Int
      /\ Centred(w) <= Magnitude(w) /\ -Centred(w) <= Magnitude(w)
  BY <1>1 DEF Centred, Magnitude, IsNegative
<1>4. ASSUME NEW s \in Int PROVE (Centred(w) + s) % Q = (w + s) % Q
  <2>1. CASE Centred(w) = w
    BY <2>1
  <2>2. CASE Centred(w) = w - Q
    <3>1. (w + s) + Q * (-1) = Centred(w) + s
      BY <1>1, <2>2
    <3>2. w + s \in Int
      BY <1>1
    <3>3. ((w + s) + Q * (-1)) % Q = (w + s) % Q
      BY <3>2, ModShift
    <3>. QED BY <3>1, <3>3
  <2>. QED BY <1>2, <2>1, <2>2
<1>. QED BY <1>3, <1>4

(* Adding to a word adds at most what is added to its magnitude.            *)
LEMMA MagnitudeAdd ==
  ASSUME NEW w \in Fp, NEW s \in Int, NEW m \in Nat, s <= m, -s <= m
  PROVE  Magnitude((w + s) % Q) <= Magnitude(w) + m
<1>1. /\ Magnitude(w) \in Nat /\ Centred(w) \in Int
      /\ Centred(w) <= Magnitude(w) /\ -Centred(w) <= Magnitude(w)
      /\ (Centred(w) + s) % Q = (w + s) % Q
  BY CentredFacts
<1>. DEFINE a == Centred(w) + s
            n == Magnitude(w) + m
<1>2. a \in Int /\ n \in Nat /\ a <= n /\ -a <= n
  BY <1>1
<1>. HIDE DEF a, n
<1>3. Magnitude(a % Q) <= n
  BY <1>2, MagnitudeLeast
<1>. QED BY <1>1, <1>3 DEF a, n

-----------------------------------------------------------------------------
(* Balanced digits, half being half the base. *)

(* A balanced digit lies in the box -b/2 .. b/2 - 1 (in_sb).                *)
Boxed(d, half) == d < half \/ (IsNegative(d) /\ Magnitude(d) <= half)

LEMMA BoxedDigit ==
  ASSUME NEW half \in Nat \ {0}, GADGET_BASE = 2 * half, GADGET_BASE < Q,
         NEW d \in 0 .. (GADGET_BASE - 1)
  PROVE  (d - half) % Q \in Fp /\ Boxed((d - half) % Q, half)
<1>1. /\ Q \in Nat \ {0} /\ half \in Nat \ {0}
      /\ GADGET_BASE = 2 * half /\ GADGET_BASE < Q
  BY RingAssumption
<1>. DEFINE a == d - half
            h == Q \div 2
<1>2. h \in Nat /\ 2 * h <= Q /\ Q <= 2 * h + 1
  BY <1>1
<1>3. a \in Int /\ -half <= a /\ a < half
  BY <1>1
<1>. HIDE DEF a, h
<1>4. a % Q \in Fp
  BY <1>3, ModSmall
<1>5. CASE a >= 0
  <2>1. a \in Fp
    BY <1>1, <1>3, <1>5 DEF Fp
  <2>2. a % Q = a
    BY <1>3, <2>1, ModSmall
  <2>. QED BY <1>3, <1>4, <2>2 DEF Boxed, a
<1>6. CASE a < 0
  <2>1. a + Q \in Fp /\ a + Q * 1 = a + Q
    BY <1>1, <1>3, <1>6 DEF Fp
  <2>2. a + Q \in Int /\ (a + Q) % Q = a + Q
    BY <1>1, <1>3, <2>1, ModSmall
  <2>3. (a + Q * 1) % Q = a % Q
    BY <1>3, ModShift
  <2>4. a % Q = a + Q
    BY <2>1, <2>2, <2>3
  <2>5. a + Q > h /\ Q - (a + Q) <= half
    BY <1>1, <1>2, <1>3, <1>6
  <2>6. IsNegative(a + Q) /\ Magnitude(a + Q) <= half
    BY <1>1, <1>2, <1>3, <2>5 DEF IsNegative, Magnitude, h
  <2>. QED BY <1>4, <2>4, <2>6 DEF Boxed, a
<1>. QED BY <1>3, <1>5, <1>6

(* The digits of a shifted number, half a base taken off each, recompose to *)
(* the number before the shift: the two shifts are one.                     *)
LEMMA BalancedSum ==
  ASSUME NEW half \in Nat, NEW x \in Nat, NEW n \in Nat, x < BasePower[n]
  PROVE  SumFunction([e \in 0 .. (n - 1) |->
                        ((DigitAt(x, e) - half) % Q) * BasePower[e]]) % Q
           = (x - SumFunction([e \in 0 .. (n - 1) |-> half * BasePower[e]])) % Q
<1>. DEFINE E == 0 .. (n - 1)
            f == [e \in E |-> DigitAt(x, e) * BasePower[e]]
            g == [e \in E |-> half * BasePower[e]]
            h == [e \in E |-> f[e] - g[e]]
            k == [e \in E |-> ((DigitAt(x, e) - half) % Q) * BasePower[e]]
<1>1. IsFiniteSet(E) /\ \A e \in E : e \in Nat
  BY FS_Interval
<1>2. half \in Nat /\ GADGET_BASE \in Nat /\ Q \in Nat \ {0}
  BY RingAssumption, GadgetAssumption
<1>3. ASSUME NEW e \in E
      PROVE  /\ f[e] \in Int /\ g[e] \in Int /\ h[e] = f[e] - g[e]
             /\ h[e] \in Int /\ k[e] \in Int /\ k[e] % Q = h[e] % Q
  <2>. DEFINE d == DigitAt(x, e)
              w == BasePower[e]
              y == (d - half) % Q
  <2>1. d \in Int /\ w \in Int
    <3>1. e \in Nat
      BY <1>1
    <3>2. d \in 0 .. (GADGET_BASE - 1) /\ w \in Nat
      BY <3>1, DigitRange, BasePowerFacts
    <3>. HIDE DEF d, w
    <3>. QED BY <1>2, <3>2
  <2>2. f[e] = d * w /\ g[e] = half * w /\ h[e] = f[e] - g[e] /\ k[e] = y * w
    OBVIOUS
  <2>. HIDE DEF d, w, f, g, h, k
  <2>3. f[e] \in Int /\ g[e] \in Int /\ h[e] \in Int
    BY <1>2, <2>1, <2>2
  <2>4. d - half \in Int /\ h[e] = (d - half) * w
    BY <1>2, <2>1, <2>2
  <2>5. y \in Int /\ y * w \in Int
    BY <1>2, <2>1, <2>4
  <2>6. (y * w) % Q = ((d - half) * w) % Q
    BY <2>1, <2>4, ModScale
  <2>. QED BY <2>2, <2>3, <2>4, <2>5, <2>6
<1>4. /\ DOMAIN f = E /\ DOMAIN g = E /\ DOMAIN k = E
  OBVIOUS
<1>5. SumFunction(f) = x
  BY DigitsExact
<1>. HIDE DEF f, g, h, k, E
<1>6. SumFunctionOnSet(h, E) = SumFunctionOnSet(f, E) - SumFunctionOnSet(g, E)
  BY <1>1, <1>3, SumDifference
<1>7. SumFunctionOnSet(k, E) % Q = SumFunctionOnSet(h, E) % Q
  BY <1>1, <1>3, SumModEqual
<1>8. /\ SumFunction(f) = SumFunctionOnSet(f, E)
      /\ SumFunction(g) = SumFunctionOnSet(g, E)
      /\ SumFunction(k) = SumFunctionOnSet(k, E)
  BY <1>4 DEF SumFunction
<1>9. SumFunction(k) % Q = (x - SumFunction(g)) % Q
  BY <1>5, <1>6, <1>7, <1>8
<1>. QED BY <1>9 DEF k, g, E

(* The shift is a natural number.                                           *)
LEMMA ShiftType ==
  ASSUME NEW half \in Nat, NEW n \in Nat
  PROVE  SumFunction([e \in 0 .. (n - 1) |-> half * BasePower[e]]) \in Nat
<1>. DEFINE E == 0 .. (n - 1)
            g == [e \in E |-> half * BasePower[e]]
<1>1. IsFiniteSet(E) /\ \A e \in E : e \in Nat
  BY FS_Interval
<1>2. half \in Nat /\ \A e \in Nat : BasePower[e] \in Nat
  BY BasePowerFacts
<1>3. \A y, w \in Nat : y * w \in Nat
  OBVIOUS
<1>4. \A e \in E : g[e] \in Nat
  BY <1>1, <1>2, <1>3
<1>5. DOMAIN g = E
  OBVIOUS
<1>. HIDE DEF g, E
<1>6. SumFunctionOnSet(g, E) \in Nat
  BY <1>1, <1>4, SumNat
<1>7. SumFunction(g) \in Nat
  BY <1>5, <1>6 DEF SumFunction
<1>. QED BY <1>7 DEF g, E

-----------------------------------------------------------------------------
(* VECTORS *)

LEMMA StoredIs ==
  ASSUME NEW f
  PROVE  Stored(f) = f
BY DEF Stored

(* A stored vector is the vector.                                           *)
LEMMA StoredVecIs ==
  ASSUME NEW n \in Nat, NEW S, NEW f \in [1 .. n -> S]
  PROVE  StoredVec(f) = f /\ f \in Seq(S) /\ Len(f) = n
<1>1. f \in Seq(S) /\ Len(f) = n
  OBVIOUS
<1>. QED BY <1>1, ConcatEmptySeq DEF StoredVec

(* Rows and digits of an index written as row times width plus digit.       *)
LEMMA SplitIndex ==
  ASSUME NEW a \in Nat, NEW e \in Digit
  PROVE  RowOf(GADGET_DIGITS * a + e) = a /\ DigitOf(GADGET_DIGITS * a + e) = e
<1>. DEFINE D == GADGET_DIGITS
            x == D * a + e
            d == x \div D
            r == x % D
            k == a - d
<1>1. D \in Nat \ {0} /\ e \in 0 .. (D - 1)
  BY GadgetAssumption DEF Digit
<1>. HIDE DEF D
<1>2. x \in Int /\ x = D * a + e
  BY <1>1
<1>. HIDE DEF x
<1>3. d \in Int /\ r \in 0 .. (D - 1) /\ x = D * d + r
  BY <1>1, <1>2
<1>. HIDE DEF d, r
<1>4. k \in Int /\ D * k = r - e
  BY <1>1, <1>2, <1>3
<1>. HIDE DEF k
<1>5. ~(k >= 1)
  <2>1. SUFFICES ASSUME k >= 1 PROVE FALSE
    OBVIOUS
  <2>2. D * k >= D * 1
    BY <1>1, <1>4, <2>1
  <2>. QED BY <1>1, <1>3, <1>4, <2>2
<1>6. ~(k <= -1)
  <2>1. SUFFICES ASSUME k <= -1 PROVE FALSE
    OBVIOUS
  <2>2. D * k <= D * (-1)
    BY <1>1, <1>4, <2>1
  <2>. QED BY <1>1, <1>3, <1>4, <2>2
<1>7. k = 0
  BY <1>4, <1>5, <1>6
<1>8. d = a /\ r = e
  BY <1>1, <1>3, <1>4, <1>7 DEF k
<1>. QED BY <1>8 DEF RowOf, DigitOf, d, r, x, D

(* A sum with one term.                                                     *)
LEMMA SumSingle ==
  ASSUME NEW S, IsFiniteSet(S), NEW f, NEW y \in S, f[y] \in Int,
         \A x \in S \ {y} : f[x] = 0
  PROVE  SumFunctionOnSet(f, S) = f[y]
<1>. DEFINE T == S \ {y}
<1>1. \A x \in S : f[x] \in Int
  OBVIOUS
<1>2. SumFunctionOnSet(f, S) = f[y] + SumFunctionOnSet(f, T)
  BY <1>1, SumRemove
<1>3. IsFiniteSet(T) /\ Cardinality(T) \in Nat
  BY FS_Subset, FS_CardinalityType
<1>4. SumFunctionOnSet(f, T) = Cardinality(T) * 0
  <2>. HIDE DEF T
  <2>1. \A x \in T : f[x] = 0
    BY DEF T
  <2>. QED BY <1>3, <2>1, SumConstant
<1>5. Cardinality(T) * 0 = 0
  BY <1>3
<1>. QED BY <1>2, <1>4, <1>5

LEMMA CoeffFacts ==
  /\ IsFiniteSet(Coeff) /\ Cardinality(Coeff) = RING_DEGREE
  /\ 0 \in Coeff
BY RingAssumption, FS_Interval DEF Coeff

-----------------------------------------------------------------------------
(* RING ELEMENTS *)

(* One factor of a term of the product, with its sign.                      *)
LEMMA TermInt ==
  ASSUME NEW a \in Rq, NEW s \in Rq, NEW p \in Coeff, NEW k \in Coeff
  PROVE  (LET v == a[k] * s[Source(k, p)] IN IF p < k THEN -v ELSE v) \in Int
<1>1. a[k] \in Fp /\ s[Source(k, p)] \in Fp
  BY SourceRange DEF Rq
<1>2. a[k] \in Int /\ s[Source(k, p)] \in Int
  BY <1>1, RingAssumption DEF Fp
<1>3. a[k] * s[Source(k, p)] \in Int
  BY <1>2
<1>. QED BY <1>3

LEMMA ProductType ==
  ASSUME NEW a \in Rq, NEW s \in Rq
  PROVE  NegMul(a, s) \in Rq
<1>. SUFFICES ASSUME NEW p \in Coeff
              PROVE  SumFunction([k \in Coeff |-> LET v == a[k] * s[Source(k, p)]
                                                  IN  IF p < k THEN -v ELSE v]) % Q \in Fp
  BY DEF NegMul, Rq
<1>. DEFINE t == [k \in Coeff |-> LET v == a[k] * s[Source(k, p)]
                                  IN  IF p < k THEN -v ELSE v]
<1>1. DOMAIN t = Coeff /\ \A k \in Coeff : t[k] \in Int
  BY TermInt
<1>. HIDE DEF t
<1>2. SumFunction(t) \in Int
  BY <1>1, CoeffFacts, SumInt DEF SumFunction
<1>3. SumFunction(t) % Q \in Fp
  BY <1>2, ModSmall
<1>. QED BY <1>3 DEF t

(* The modulus is at least three: the base is even and below it.            *)
LEMMA ModulusFacts ==
  /\ Q \in Nat /\ Q >= 3 /\ 0 \in Fp /\ 1 \in Fp
  /\ Magnitude(0) = 0 /\ Magnitude(1) = 1
BY RingAssumption, BalancedAssumption DEF Fp, Magnitude

LEMMA OneType ==
  /\ OneRq \in Rq /\ OneRq[0] = 1
  /\ \A p \in Coeff \ {0} : OneRq[p] = 0
BY ModulusFacts, CoeffFacts DEF OneRq, Constant, Rq

(* Rq::one is neutral ("scaling by it changes no norm", commit.rs).         *)
LEMMA OneTimes ==
  ASSUME NEW x \in Rq
  PROVE  NegMul(OneRq, x) = x
<1>1. ASSUME NEW p \in Coeff
      PROVE  SumFunction([k \in Coeff |-> LET v == OneRq[k] * x[Source(k, p)]
                                          IN  IF p < k THEN -v ELSE v]) % Q = x[p]
  <2>. DEFINE t == [k \in Coeff |-> LET v == OneRq[k] * x[Source(k, p)]
                                    IN  IF p < k THEN -v ELSE v]
  <2>1. \A k \in Coeff : Source(k, p) \in Coeff /\ x[Source(k, p)] \in Int
    BY SourceRange, RingAssumption DEF Rq, Fp
  <2>2. x[p] \in Fp /\ x[p] \in Int
    BY RingAssumption DEF Rq, Fp
  <2>3. t[0] = x[p]
    <3>1. Source(0, p) = p /\ ~(p < 0)
      BY RingAssumption DEF Source, Coeff
    <3>. QED BY <2>2, <3>1, OneType, CoeffFacts
  <2>4. \A k \in Coeff \ {0} : t[k] = 0
    BY <2>1, OneType
  <2>5. DOMAIN t = Coeff
    OBVIOUS
  <2>. HIDE DEF t
  <2>6. SumFunctionOnSet(t, Coeff) = t[0]
    BY <2>2, <2>3, <2>4, CoeffFacts, SumSingle
  <2>7. SumFunction(t) % Q = x[p]
    BY <2>2, <2>3, <2>5, <2>6, ModSmall DEF SumFunction
  <2>. QED BY <2>7 DEF t
<1>2. NegMul(OneRq, x) = [p \in Coeff |-> x[p]]
  BY <1>1 DEF NegMul
<1>. QED BY <1>2 DEF Rq

(* Rq::one has norm one.                                                    *)
LEMMA OneNorm == L1Norm(OneRq) = 1
<1>. DEFINE t == [p \in Coeff |-> CenteredAbs(OneRq[p])]
<1>1. /\ t[0] = 1 /\ DOMAIN t = Coeff
      /\ \A p \in Coeff \ {0} : t[p] = 0
  BY OneType, CoeffFacts, ModulusFacts DEF CenteredAbs
<1>. HIDE DEF t
<1>2. SumFunctionOnSet(t, Coeff) = t[0]
  BY <1>1, CoeffFacts, SumSingle
<1>3. SumFunction(t) = 1
  BY <1>1, <1>2 DEF SumFunction
<1>. QED BY <1>3 DEF L1Norm, t

(* Scaling by one is the identity.                                          *)
LEMMA ScaledByOne ==
  ASSUME NEW v \in Seq(Rq)
  PROVE  ScaledVec(OneRq, v) = v
<1>1. Len(v) \in Nat /\ DOMAIN v = 1 .. Len(v) /\ v \in [1 .. Len(v) -> Rq]
  BY LenProperties
<1>2. \A i \in DOMAIN v : NegMul(OneRq, v[i]) = v[i]
  BY <1>1, OneTimes
<1>3. [i \in DOMAIN v |-> NegMul(OneRq, v[i])] = v
  BY <1>1, <1>2
<1>. QED BY <1>1, <1>3, StoredVecIs DEF ScaledVec

-----------------------------------------------------------------------------
(* DIGITS OF EITHER KIND *)

(* gadget_mul after balanced_gadget_decompose is the identity on every      *)
(* canonical word, even when the shift wrapped in the field.                *)
THEOREM BalancedExact ==
  ASSUME Q <= BasePower[GADGET_DIGITS], NEW c \in Fp
  PROVE  /\ \A e \in Digit : Boxed(BalancedDigitAt(c, e), HALF_BASE)
         /\ SumFunction([e \in Digit |-> BalancedDigitAt(c, e) * BasePower[e]]) % Q = c
<1>. DEFINE S == SumFunction([e \in 0 .. (GADGET_DIGITS - 1) |-> HALF_BASE * BasePower[e]])
            x == (c + BALANCED_SHIFT) % Q
            s == SumFunction([e \in 0 .. (GADGET_DIGITS - 1) |->
                   ((DigitAt(x, e) - HALF_BASE) % Q) * BasePower[e]])
<1>1. Q \in Nat \ {0} /\ GADGET_DIGITS \in Nat /\ c \in Int
  BY RingAssumption, GadgetAssumption DEF Fp
<1>2. S \in Int /\ BALANCED_SHIFT = S % Q
  BY <1>1, ShiftType, BalancedAssumption DEF Digit
<1>3. c + BALANCED_SHIFT \in Int
  BY <1>1, <1>2
<1>4. x \in Nat /\ x < Q
  BY <1>1, <1>3
<1>5. x < BasePower[GADGET_DIGITS]
  <2>1. BasePower[GADGET_DIGITS] \in Nat
    BY <1>1, BasePowerFacts
  <2>. HIDE DEF x
  <2>. QED BY <1>1, <1>4, <2>1
<1>6. s % Q = (x - S) % Q
  <2>. HIDE DEF x
  <2>. QED BY <1>1, <1>4, <1>5, BalancedSum, BalancedAssumption
<1>7. (x - S) % Q = c
  <2>1. (c + (S % Q)) % Q = (c + S) % Q
    BY <1>1, <1>2, ModAdd
  <2>2. x = (c + S) % Q
    BY <1>2, <2>1
  <2>. HIDE DEF S, x
  <2>3. (((c + S) % Q) + (-S)) % Q = ((c + S) + (-S)) % Q
    <3>1. c + S \in Int /\ -S \in Int
      BY <1>1, <1>2
    <3>. QED BY <3>1, ModAdd
  <2>4. (c + S) + (-S) = c /\ (c + S) % Q \in Int
    BY <1>1, <1>2
  <2>5. ((c + S) % Q) + (-S) = ((c + S) % Q) - S
    BY <1>2, <2>4
  <2>6. c % Q = c
    BY <1>1, ModSmall
  <2>. QED BY <2>2, <2>3, <2>4, <2>5, <2>6
<1>8. ASSUME NEW e \in Digit PROVE Boxed(BalancedDigitAt(c, e), HALF_BASE)
  <2>1. DigitAt(x, e) \in 0 .. (GADGET_BASE - 1)
    BY <1>4, DigitRange DEF Digit
  <2>. HIDE DEF x
  <2>2. Boxed((DigitAt(x, e) - HALF_BASE) % Q, HALF_BASE)
    BY <2>1, BoxedDigit, BalancedAssumption
  <2>. QED BY <2>2 DEF BalancedDigitAt, x
<1>9. SumFunction([e \in Digit |-> BalancedDigitAt(c, e) * BasePower[e]]) = s
  BY DEF Digit, BalancedDigitAt
<1>. QED BY <1>6, <1>7, <1>8, <1>9

(* Digit e of a word, of the kind asked for.                                *)
DigitOfKind(balanced, w, e) == IF balanced THEN BalancedDigitAt(w, e) ELSE DigitAt(w, e)

(* A word whose centred magnitude stays below the base.                     *)
Small(d) == Magnitude(d) \in Nat /\ Magnitude(d) <= GADGET_BASE - 1

LEMMA BaseFacts ==
  /\ GADGET_BASE \in Nat /\ GADGET_BASE >= 2 /\ GADGET_BASE < Q
  /\ HALF_BASE \in Nat /\ HALF_BASE <= GADGET_BASE - 1
BY BalancedAssumption, RingAssumption

LEMMA BelowBaseSmall ==
  ASSUME NEW d \in 0 .. (GADGET_BASE - 1)
  PROVE  d \in Fp /\ Small(d)
<1>. DEFINE h == Q \div 2
<1>1. h \in Nat /\ 2 * h <= Q /\ Q <= 2 * h + 1
  BY RingAssumption
<1>. HIDE DEF h
<1>2. Magnitude(d) = IF d <= h THEN d ELSE Q - d
  BY DEF Magnitude, h
<1>. QED BY <1>1, <1>2, BaseFacts, RingAssumption DEF Fp, Small

LEMMA BoxedSmall ==
  ASSUME NEW d \in Fp, Boxed(d, HALF_BASE)
  PROVE  Small(d)
<1>1. Magnitude(d) \in Nat
  BY CentredFacts
<1>2. CASE d < HALF_BASE
  <2>1. d \in 0 .. (GADGET_BASE - 1)
    BY <1>2, BaseFacts, RingAssumption DEF Fp
  <2>. QED BY <2>1, BelowBaseSmall
<1>3. CASE Magnitude(d) <= HALF_BASE
  BY <1>1, <1>3, BaseFacts DEF Small
<1>. QED BY <1>2, <1>3 DEF Boxed

(* A digit of either kind is small, and all of them recompose the word.     *)
LEMMA DigitFacts ==
  ASSUME NEW w \in Fp, NEW balanced
  PROVE  /\ \A e \in Digit : /\ DigitOfKind(balanced, w, e) \in Fp
                             /\ Small(DigitOfKind(balanced, w, e))
         /\ SumFunction([e \in Digit |-> DigitOfKind(balanced, w, e) * BasePower[e]]) % Q = w
<1>0. w \in Nat /\ Q \in Nat \ {0} /\ GADGET_DIGITS \in Nat /\ w < Q
  BY RingAssumption, GadgetAssumption DEF Fp
<1>1. Digit \subseteq Nat
  BY <1>0 DEF Digit
<1>2. CASE balanced
  <2>1. ASSUME NEW e \in Digit
        PROVE  BalancedDigitAt(w, e) \in Fp /\ Small(BalancedDigitAt(w, e))
    <3>1. Boxed(BalancedDigitAt(w, e), HALF_BASE)
      BY BalancedExact, FullWidthAssumption
    <3>. DEFINE x == (w + BALANCED_SHIFT) % Q
    <3>2. w + BALANCED_SHIFT \in Int
      BY <1>0, ShiftType, BalancedAssumption, BaseFacts DEF Digit
    <3>3. x \in Nat
      BY <1>0, <3>2
    <3>. HIDE DEF x
    <3>4. DigitAt(x, e) \in 0 .. (GADGET_BASE - 1)
      BY <1>1, <3>3, DigitRange
    <3>5. BalancedDigitAt(w, e) \in Fp
      BY <3>4, BoxedDigit, BalancedAssumption DEF BalancedDigitAt, x
    <3>. QED BY <3>1, <3>5, BoxedSmall
  <2>2. \A e \in Digit : DigitOfKind(balanced, w, e) = BalancedDigitAt(w, e)
    BY <1>2 DEF DigitOfKind
  <2>3. [e \in Digit |-> DigitOfKind(balanced, w, e) * BasePower[e]]
          = [e \in Digit |-> BalancedDigitAt(w, e) * BasePower[e]]
    BY <2>2
  <2>4. SumFunction([e \in Digit |-> BalancedDigitAt(w, e) * BasePower[e]]) % Q = w
    BY BalancedExact, FullWidthAssumption
  <2>. QED BY <2>1, <2>2, <2>3, <2>4
<1>3. CASE ~balanced
  <2>1. ASSUME NEW e \in Digit
        PROVE  DigitAt(w, e) \in Fp /\ Small(DigitAt(w, e))
    BY <1>0, <1>1, DigitRange, BelowBaseSmall
  <2>2. \A e \in Digit : DigitOfKind(balanced, w, e) = DigitAt(w, e)
    BY <1>3 DEF DigitOfKind
  <2>3. [e \in Digit |-> DigitOfKind(balanced, w, e) * BasePower[e]]
          = [e \in 0 .. (GADGET_DIGITS - 1) |-> DigitAt(w, e) * BasePower[e]]
    BY <2>2 DEF Digit
  <2>4. SumFunction([e \in 0 .. (GADGET_DIGITS - 1) |-> DigitAt(w, e) * BasePower[e]]) = w
    <3>1. BasePower[GADGET_DIGITS] \in Nat
      BY <1>0, BasePowerFacts
    <3>2. w < BasePower[GADGET_DIGITS]
      BY <1>0, <3>1, FullWidthAssumption
    <3>. QED BY <1>0, <3>2, DigitsExact
  <2>5. w % Q = w
    BY <1>0, ModSmall
  <2>. QED BY <2>1, <2>2, <2>3, <2>4, <2>5
<1>. QED BY <1>2, <1>3

-----------------------------------------------------------------------------
(* DECOMPOSED VECTORS *)

(* An index of a decomposition of n rows names a row and a digit.           *)
LEMMA IndexFacts ==
  ASSUME NEW n \in Nat, NEW k \in 1 .. (n * GADGET_DIGITS)
  PROVE  RowOf(k - 1) + 1 \in 1 .. n /\ DigitOf(k - 1) \in Digit
<1>. DEFINE D == GADGET_DIGITS
            r == (k - 1) \div D
            e == (k - 1) % D
<1>1. D \in Nat \ {0} /\ k - 1 \in Nat /\ k - 1 < n * D
  BY GadgetAssumption
<1>. HIDE DEF D
<1>2. r \in Int /\ e \in 0 .. (D - 1) /\ k - 1 = D * r + e
  BY <1>1
<1>. HIDE DEF r, e
<1>3. ~(r >= n)
  <2>1. SUFFICES ASSUME r >= n PROVE FALSE
    OBVIOUS
  <2>2. D * r >= D * n /\ D * n = n * D
    BY <1>1, <1>2, <2>1
  <2>. QED BY <1>1, <1>2, <2>2
<1>4. ~(r <= -1)
  <2>1. SUFFICES ASSUME r <= -1 PROVE FALSE
    OBVIOUS
  <2>2. D * r <= D * (-1)
    BY <1>1, <1>2, <2>1
  <2>. QED BY <1>1, <1>2, <2>2
<1>. QED BY <1>2, <1>3, <1>4 DEF RowOf, DigitOf, Digit, r, e, D

(* What either decomposition of a vector is, entry by entry.                *)
LEMMA Decomposition ==
  ASSUME NEW n \in Nat, NEW x \in [1 .. n -> Rq], NEW balanced
  PROVE  LET v == Decompose(balanced, x)
         IN  /\ v \in Seq(Rq) /\ Len(v) = n * GADGET_DIGITS
             /\ \A k \in 1 .. (n * GADGET_DIGITS), p \in Coeff :
                  v[k][p] = DigitOfKind(balanced, x[RowOf(k - 1) + 1][p], DigitOf(k - 1))
<1>. DEFINE m == n * GADGET_DIGITS
            d(k) == [p \in Coeff |->
                      DigitOfKind(balanced, x[RowOf(k - 1) + 1][p], DigitOf(k - 1))]
            w == [k \in 1 .. m |-> d(k)]
<1>1. m \in Nat /\ Len(x) = n
  BY GadgetAssumption
<1>2. ASSUME NEW k \in 1 .. m PROVE d(k) \in Rq
  <2>1. RowOf(k - 1) + 1 \in 1 .. n /\ DigitOf(k - 1) \in Digit
    BY IndexFacts
  <2>2. ASSUME NEW p \in Coeff
        PROVE  DigitOfKind(balanced, x[RowOf(k - 1) + 1][p], DigitOf(k - 1)) \in Fp
    <3>1. x[RowOf(k - 1) + 1][p] \in Fp
      BY <2>1 DEF Rq
    <3>. QED BY <2>1, <3>1, DigitFacts
  <2>. QED BY <2>2 DEF Rq
<1>3. w \in [1 .. m -> Rq]
  BY <1>2
<1>4. Decompose(balanced, x) = StoredVec(w)
  <2>1. CASE balanced
    <3>1. \A k \in 1 .. m : Stored(BalancedPoly(x, k - 1)) = d(k)
      BY <2>1, StoredIs DEF BalancedPoly, DigitOfKind
    <3>. QED BY <1>1, <2>1, <3>1 DEF Decompose, BalancedDecompose
  <2>2. CASE ~balanced
    <3>1. \A k \in 1 .. m : DigitPoly(x, k - 1) = d(k)
      BY <2>2 DEF DigitPoly, DigitOfKind
    <3>. QED BY <1>1, <2>2, <3>1 DEF Decompose, GadgetDecompose
  <2>. QED BY <2>1, <2>2
<1>5. \A k \in 1 .. m, p \in Coeff :
        w[k][p] = DigitOfKind(balanced, x[RowOf(k - 1) + 1][p], DigitOf(k - 1))
  OBVIOUS
<1>. HIDE DEF w, m
<1>6. StoredVec(w) = w /\ w \in Seq(Rq) /\ Len(w) = m
  BY <1>1, <1>3, StoredVecIs
<1>. QED BY <1>4, <1>5, <1>6 DEF m

(* gadget_mul undoes either decomposition.                                  *)
LEMMA Recomposition ==
  ASSUME NEW n \in Nat, NEW x \in [1 .. n -> Rq], NEW balanced
  PROVE  GadgetMul(n, Decompose(balanced, x)) = x
<1>. DEFINE v == Decompose(balanced, x)
<1>1. \A k \in 1 .. (n * GADGET_DIGITS), p \in Coeff :
        v[k][p] = DigitOfKind(balanced, x[RowOf(k - 1) + 1][p], DigitOf(k - 1))
  BY Decomposition
<1>. HIDE DEF v
<1>. DEFINE s(i, e) == ScaledBy(BasePow(e), v[GADGET_DIGITS * (i - 1) + e + 1])
            r(i) == [p \in Coeff |-> SumFunction([e \in Digit |-> s(i, e)[p]]) % Q]
<1>2. ASSUME NEW i \in 1 .. n, NEW p \in Coeff
      PROVE  SumFunction([e \in Digit |-> s(i, e)[p]]) % Q = x[i][p]
  <2>. DEFINE w == x[i][p]
              f == [e \in Digit |-> s(i, e)[p]]
              g == [e \in Digit |-> DigitOfKind(balanced, w, e) * BasePower[e]]
  <2>1. w \in Fp
    BY DEF Rq
  <2>2. ASSUME NEW e \in Digit
        PROVE  f[e] \in Int /\ g[e] \in Int /\ f[e] % Q = g[e] % Q
    <3>. DEFINE k == GADGET_DIGITS * (i - 1) + e + 1
                d == DigitOfKind(balanced, w, e)
                y == BasePower[e]
    <3>1. k \in 1 .. (n * GADGET_DIGITS) /\ k - 1 = GADGET_DIGITS * (i - 1) + e
      <4>1. GADGET_DIGITS \in Nat \ {0} /\ e \in 0 .. (GADGET_DIGITS - 1)
        BY GadgetAssumption DEF Digit
      <4>2. GADGET_DIGITS * (i - 1) <= GADGET_DIGITS * (n - 1)
        BY <4>1
      <4>3. GADGET_DIGITS * (n - 1) = n * GADGET_DIGITS - GADGET_DIGITS
        BY <4>1
      <4>4. GADGET_DIGITS * (i - 1) \in Nat
        BY <4>1
      <4>. QED BY <4>1, <4>2, <4>3, <4>4
    <3>2. RowOf(k - 1) = i - 1 /\ DigitOf(k - 1) = e
      <4>1. i - 1 \in Nat
        OBVIOUS
      <4>. HIDE DEF k
      <4>. QED BY <3>1, <4>1, SplitIndex
    <3>3. v[k][p] = d
      <4>1. v[k][p] = DigitOfKind(balanced, x[RowOf(k - 1) + 1][p], DigitOf(k - 1))
        BY <1>1, <3>1
      <4>2. (i - 1) + 1 = i
        OBVIOUS
      <4>. HIDE DEF k
      <4>. QED BY <3>2, <4>1, <4>2
    <3>4. d \in Int /\ y \in Int
      <4>1. d \in Fp
        <5>. HIDE DEF w
        <5>. QED BY <2>1, DigitFacts
      <4>2. e \in Nat
        BY GadgetAssumption DEF Digit
      <4>3. y \in Nat
        BY <4>2, BasePowerFacts
      <4>. HIDE DEF d, y
      <4>. QED BY <4>1, <4>3, RingAssumption DEF Fp
    <3>5. f[e] = ((y % Q) * d) % Q /\ g[e] = d * y
      <4>1. f[e] = (BasePow(e) * v[k][p]) % Q
        BY StoredIs DEF ScaledBy
      <4>. QED BY <3>3, <4>1 DEF BasePow
    <3>. HIDE DEF f, g, d, y
    <3>6. ((y % Q) * d) % Q = (y * d) % Q
      BY <3>4, ModScale
    <3>7. y * d = d * y /\ d * y \in Int
      BY <3>4
    <3>8. f[e] = (d * y) % Q
      BY <3>5, <3>6, <3>7
    <3>9. (d * y) % Q \in Fp
      BY <3>7, ModSmall
    <3>10. f[e] \in Int
      BY <3>8, <3>9, RingAssumption DEF Fp
    <3>. QED BY <3>5, <3>7, <3>8, <3>9, <3>10, ModSmall
  <2>3. DOMAIN f = Digit /\ DOMAIN g = Digit
    OBVIOUS
  <2>4. SumFunction(g) % Q = w
    <3>. HIDE DEF w
    <3>. QED BY <2>1, DigitFacts
  <2>5. IsFiniteSet(Digit)
    BY GadgetAssumption, FS_Interval DEF Digit
  <2>. HIDE DEF f, g, w
  <2>6. SumFunctionOnSet(f, Digit) % Q = SumFunctionOnSet(g, Digit) % Q
    BY <2>2, <2>5, SumModEqual
  <2>7. SumFunction(f) % Q = w
    BY <2>3, <2>4, <2>6 DEF SumFunction
  <2>. QED BY <2>7 DEF f, w
<1>3. \A i \in 1 .. n : r(i) = x[i]
  BY <1>2 DEF Rq
<1>4. GadgetMul(n, v) = StoredVec([i \in 1 .. n |-> r(i)])
  BY StoredIs DEF GadgetMul, SumRq
<1>5. [i \in 1 .. n |-> r(i)] = x
  BY <1>3
<1>6. StoredVec(x) = x
  BY StoredVecIs
<1>. QED BY <1>4, <1>5, <1>6 DEF v

-----------------------------------------------------------------------------
(* NORMS *)

(* A nonempty set of numbers below a bound has a greatest element.          *)
LEMMA GreatestExists ==
  ASSUME NEW m \in Nat
  PROVE  \A S \in SUBSET (0 .. m) : 0 \in S => \E x \in S : \A y \in S : x >= y
<1>. DEFINE P(n) == \A S \in SUBSET (0 .. n) : 0 \in S => \E x \in S : \A y \in S : x >= y
            G == { n \in Nat : P(n) }
<1>1. P(0)
  OBVIOUS
<1>2. ASSUME NEW n \in Nat, P(n) PROVE P(n + 1)
  <2>. SUFFICES ASSUME NEW S \in SUBSET (0 .. (n + 1)), 0 \in S
                PROVE  \E x \in S : \A y \in S : x >= y
    OBVIOUS
  <2>1. CASE n + 1 \in S
    <3>1. \A y \in S : n + 1 >= y
      OBVIOUS
    <3>. QED BY <2>1, <3>1
  <2>2. CASE n + 1 \notin S
    <3>1. S \in SUBSET (0 .. n)
      BY <2>2
    <3>. QED BY <1>2, <3>1
  <2>. QED BY <2>1, <2>2
<1>3. 0 \in G /\ \A n \in Nat : n \in G => n + 1 \in G
  <2>. HIDE DEF P
  <2>. QED BY <1>1, <1>2
<1>4. \A n \in Nat : n \in G
  <2>. HIDE DEF G
  <2>. QED BY <1>3, NaturalInduction
<1>5. P(m)
  <2>. HIDE DEF P
  <2>. QED BY <1>4
<1>. QED BY <1>5

LEMMA MaxBelow ==
  ASSUME NEW m \in Nat, NEW S, S \subseteq 0 .. m
  PROVE  Max({0} \cup S) \in 0 .. m
<1>. DEFINE U == {0} \cup S
<1>1. U \in SUBSET (0 .. m) /\ 0 \in U
  OBVIOUS
<1>. HIDE DEF U
<1>2. \E x \in U : \A y \in U : x >= y
  BY <1>1, GreatestExists
<1>3. Max(U) \in U
  BY <1>2 DEF Max
<1>. QED BY <1>1, <1>3 DEF U

(* Elements whose coefficients are small, as the entries of a decomposition *)
(* are.                                                                     *)
SmallRq == { x \in Rq : \A p \in Coeff : Small(x[p]) }

LEMMA InftySmall ==
  ASSUME NEW v \in Seq(SmallRq)
  PROVE  VecLInftyNorm(v) \in Nat /\ VecLInftyNorm(v) <= GADGET_BASE - 1
<1>. DEFINE m == GADGET_BASE - 1
<1>1. m \in Nat
  BY BaseFacts
<1>2. \A x \in SmallRq, p \in Coeff : CenteredAbs(x[p]) \in 0 .. m
  BY BaseFacts DEF SmallRq, Small, CenteredAbs
<1>. HIDE DEF m
<1>3. ASSUME NEW x \in SmallRq PROVE LInftyNorm(x) \in 0 .. m
  <2>. DEFINE S == { CenteredAbs(x[p]) : p \in Coeff }
  <2>1. S \subseteq 0 .. m
    BY <1>2
  <2>. HIDE DEF S
  <2>2. Max({0} \cup S) \in 0 .. m
    BY <1>1, <2>1, MaxBelow
  <2>. QED BY <2>2 DEF LInftyNorm, S
<1>. DEFINE S == { LInftyNorm(v[i]) : i \in DOMAIN v }
<1>4. \A i \in DOMAIN v : v[i] \in SmallRq
  BY LenProperties, ElementOfSeq
<1>5. S \subseteq 0 .. m
  BY <1>3, <1>4
<1>. HIDE DEF S
<1>6. Max({0} \cup S) \in 0 .. m
  BY <1>1, <1>5, MaxBelow
<1>7. VecLInftyNorm(v) \in 0 .. m
  BY <1>6 DEF VecLInftyNorm, S
<1>. QED BY <1>1, <1>7 DEF m

LEMMA SquareSmall ==
  ASSUME NEW c \in Nat, NEW m \in Nat, c <= m
  PROVE  c * c \in Nat /\ c * c <= m * m
<1>1. c * c <= c * m
  OBVIOUS
<1>2. c * m <= m * m
  OBVIOUS
<1>. QED BY <1>1, <1>2

LEMMA TwoSmall ==
  ASSUME NEW v \in Seq(SmallRq)
  PROVE  /\ VecL2NormSq(v) \in Nat
         /\ VecL2NormSq(v) <= Len(v) * (RING_DEGREE * ((GADGET_BASE - 1) * (GADGET_BASE - 1)))
<1>. DEFINE m == GADGET_BASE - 1
            b == RING_DEGREE * (m * m)
            n == Len(v)
<1>1. m \in Nat /\ m * m \in Nat /\ RING_DEGREE \in Nat /\ b \in Nat
  BY BaseFacts, RingAssumption
<1>2. ASSUME NEW x \in SmallRq PROVE L2NormSq(x) \in Nat /\ L2NormSq(x) <= b
  <2>. DEFINE f == [p \in Coeff |-> CenteredAbs(x[p]) * CenteredAbs(x[p])]
              s == m * m
  <2>1. ASSUME NEW p \in Coeff PROVE f[p] \in Nat /\ f[p] <= s
    <3>1. CenteredAbs(x[p]) \in Nat /\ CenteredAbs(x[p]) <= m
      BY DEF SmallRq, Small, CenteredAbs
    <3>. HIDE DEF m
    <3>. QED BY <1>1, <3>1, SquareSmall
  <2>2. DOMAIN f = Coeff /\ s \in Nat
    BY <1>1
  <2>. HIDE DEF f, s
  <2>3. \A p \in Coeff : f[p] \in Int /\ f[p] <= s /\ f[p] >= -s
    BY <2>1, <2>2
  <2>4. SumFunctionOnSet(f, Coeff) <= RING_DEGREE * s
    BY <2>2, <2>3, CoeffFacts, SumBound
  <2>5. SumFunctionOnSet(f, Coeff) \in Nat
    BY <2>1, CoeffFacts, SumNat
  <2>. QED BY <2>2, <2>4, <2>5 DEF SumFunction, L2NormSq, f, s
<1>. DEFINE g == [i \in DOMAIN v |-> L2NormSq(v[i])]
<1>3. n \in Nat /\ DOMAIN v = 1 .. n /\ \A i \in 1 .. n : v[i] \in SmallRq
  BY LenProperties, ElementOfSeq
<1>4. IsFiniteSet(1 .. n) /\ Cardinality(1 .. n) = n
  <2>. HIDE DEF n
  <2>. QED BY <1>3, FS_Interval
<1>5. DOMAIN g = 1 .. n
  BY <1>3
<1>6. \A i \in 1 .. n : g[i] \in Nat /\ g[i] <= b
  <2>. HIDE DEF b, n
  <2>. QED BY <1>2, <1>3
<1>. HIDE DEF g, b, n
<1>7. \A i \in 1 .. n : g[i] \in Int /\ g[i] <= b /\ g[i] >= -b
  BY <1>1, <1>6
<1>8. SumFunctionOnSet(g, 1 .. n) <= n * b
  BY <1>1, <1>4, <1>7, SumBound
<1>9. SumFunctionOnSet(g, 1 .. n) \in Nat
  BY <1>4, <1>6, SumNat
<1>10. VecL2NormSq(v) \in Nat /\ VecL2NormSq(v) <= n * b
  BY <1>5, <1>8, <1>9 DEF VecL2NormSq, SumFunction, g
<1>. QED BY <1>10 DEF n, b

(* Either decomposition gives small elements.                               *)
LEMMA DecomposedSmall ==
  ASSUME NEW n \in Nat, NEW x \in [1 .. n -> Rq], NEW balanced
  PROVE  Decompose(balanced, x) \in Seq(SmallRq)
<1>. DEFINE v == Decompose(balanced, x)
            m == n * GADGET_DIGITS
<1>1. /\ v \in Seq(Rq) /\ Len(v) = m
      /\ \A k \in 1 .. m, p \in Coeff :
           v[k][p] = DigitOfKind(balanced, x[RowOf(k - 1) + 1][p], DigitOf(k - 1))
  BY Decomposition
<1>2. ASSUME NEW k \in 1 .. m PROVE v[k] \in SmallRq
  <2>1. RowOf(k - 1) + 1 \in 1 .. n /\ DigitOf(k - 1) \in Digit
    BY IndexFacts
  <2>. HIDE DEF v
  <2>2. v[k] \in Rq
    BY <1>1, ElementOfSeq
  <2>3. ASSUME NEW p \in Coeff PROVE Small(v[k][p])
    <3>1. x[RowOf(k - 1) + 1][p] \in Fp
      BY <2>1 DEF Rq
    <3>2. Small(DigitOfKind(balanced, x[RowOf(k - 1) + 1][p], DigitOf(k - 1)))
      BY <2>1, <3>1, DigitFacts
    <3>. HIDE DEF m
    <3>. QED BY <1>1, <3>2
  <2>. QED BY <2>2, <2>3 DEF SmallRq
<1>. HIDE DEF v, m
<1>3. v \in [1 .. m -> SmallRq]
  BY <1>1, <1>2, LenProperties
<1>4. m \in Nat
  BY <1>1, LenProperties
<1>. QED BY <1>3, <1>4 DEF v

-----------------------------------------------------------------------------
(* CONCATENATION AND PRODUCTS *)

(* The recursion of the concatenation of the first n blocks.                *)
Concatenates(s, n, g) == g = [i \in 1 .. n |-> IF i = 1 THEN s[i] ELSE g[i - 1] \o s[i]]

LEMMA ConcatenationExists ==
  ASSUME NEW s
  PROVE  \A n \in Nat : \E g : Concatenates(s, n, g)
<1>. DEFINE G == { n \in Nat : \E g : Concatenates(s, n, g) }
<1>1. 0 \in G
  <2>. DEFINE g == [i \in 1 .. 0 |-> 0]
  <2>1. g = [i \in 1 .. 0 |-> IF i = 1 THEN s[i] ELSE g[i - 1] \o s[i]]
    OBVIOUS
  <2>2. Concatenates(s, 0, g)
    BY <2>1 DEF Concatenates
  <2>. QED BY <2>2
<1>2. ASSUME NEW n \in Nat, NEW g, Concatenates(s, n, g)
      PROVE  \E h : Concatenates(s, n + 1, h)
  <2>. DEFINE last == IF n = 0 THEN s[n + 1] ELSE g[n] \o s[n + 1]
              h == [i \in 1 .. (n + 1) |-> IF i = n + 1 THEN last ELSE g[i]]
              next(i) == IF i = 1 THEN s[i] ELSE h[i - 1] \o s[i]
  <2>1. \A i \in 1 .. n : g[i] = IF i = 1 THEN s[i] ELSE g[i - 1] \o s[i]
    BY <1>2 DEF Concatenates
  <2>2. ASSUME NEW i \in 1 .. (n + 1) PROVE h[i] = next(i)
    <3>1. CASE i = n + 1
      <4>1. n # 0 => n \in 1 .. (n + 1) /\ n # n + 1 /\ i - 1 = n /\ i # 1
        BY <3>1
      <4>2. n # 0 => h[i - 1] = g[n]
        BY <4>1
      <4>3. h[i] = last
        BY <3>1
      <4>4. n = 0 => i = 1
        BY <3>1
      <4>. HIDE DEF h
      <4>. QED BY <3>1, <4>1, <4>2, <4>3, <4>4
    <3>2. CASE i # n + 1
      <4>1. i \in 1 .. n /\ h[i] = g[i]
        BY <3>2
      <4>2. i # 1 => i - 1 \in 1 .. (n + 1) /\ i - 1 # n + 1
        BY <3>2
      <4>3. i # 1 => h[i - 1] = g[i - 1]
        BY <4>2
      <4>. HIDE DEF h
      <4>. QED BY <2>1, <4>1, <4>3
    <3>. QED BY <3>1, <3>2
  <2>3. h = [i \in 1 .. (n + 1) |-> next(i)]
    <3>1. h = [i \in 1 .. (n + 1) |-> h[i]]
      OBVIOUS
    <3>. HIDE DEF h
    <3>. QED BY <2>2, <3>1
  <2>4. Concatenates(s, n + 1, h)
    <3>. HIDE DEF h
    <3>. QED BY <2>3 DEF Concatenates
  <2>. QED BY <2>4
<1>3. \A n \in Nat : n \in G => n + 1 \in G
  BY <1>2
<1>. HIDE DEF G
<1>4. \A n \in Nat : n \in G
  BY <1>1, <1>3, NaturalInduction
<1>. QED BY <1>4 DEF G

LEMMA FlattenType ==
  ASSUME NEW T, NEW s \in Seq(Seq(T))
  PROVE  FlattenBlocks(s) \in Seq(T)
<1>. DEFINE n == Len(s)
            f == CHOOSE g : Concatenates(s, n, g)
<1>1. n \in Nat /\ \A i \in 1 .. n : s[i] \in Seq(T)
  BY LenProperties, ElementOfSeq
<1>2. FlattenSeq(s) = IF n = 0 THEN s ELSE f[n]
  BY DEF FlattenSeq, Concatenates
<1>. HIDE DEF n
<1>3. Concatenates(s, n, f)
  BY <1>1, ConcatenationExists
<1>. HIDE DEF f
<1>4. \A i \in 1 .. n : f[i] = IF i = 1 THEN s[i] ELSE f[i - 1] \o s[i]
  BY <1>3 DEF Concatenates
<1>. DEFINE G == { k \in Nat : k + 1 \in 1 .. n => f[k + 1] \in Seq(T) }
<1>5. 0 \in G
  BY <1>1, <1>4
<1>6. ASSUME NEW k \in Nat, k \in G, (k + 1) + 1 \in 1 .. n
      PROVE  f[(k + 1) + 1] \in Seq(T)
  <2>1. k + 1 \in 1 .. n /\ (k + 1) + 1 # 1 /\ ((k + 1) + 1) - 1 = k + 1
    BY <1>1, <1>6
  <2>2. f[(k + 1) + 1] = f[k + 1] \o s[(k + 1) + 1]
    BY <1>4, <1>6, <2>1
  <2>3. f[k + 1] \in Seq(T) /\ s[(k + 1) + 1] \in Seq(T)
    BY <1>1, <1>6, <2>1
  <2>. QED BY <2>2, <2>3, ConcatProperties
<1>7. \A k \in Nat : k \in G => k + 1 \in G
  BY <1>6
<1>. HIDE DEF G
<1>8. \A k \in Nat : k \in G
  BY <1>5, <1>7, NaturalInduction
<1>9. n # 0 => f[n] \in Seq(T)
  <2>1. SUFFICES ASSUME n # 0 PROVE f[n] \in Seq(T)
    OBVIOUS
  <2>2. n - 1 \in Nat /\ (n - 1) + 1 = n /\ n \in 1 .. n
    BY <1>1, <2>1
  <2>3. n - 1 \in G
    BY <1>8, <2>2
  <2>. QED BY <2>2, <2>3 DEF G
<1>10. n = 0 => s \in Seq(T)
  BY EmptySeq DEF n
<1>. QED BY <1>2, <1>9, <1>10 DEF FlattenBlocks

(* A matrix times a vector has one element per row.                         *)
LEMMA MatVecType ==
  ASSUME NEW A \in Seq(Seq(Rq)), NEW v \in Seq(Rq)
  PROVE  MatVec(A, v) \in [1 .. Len(A) -> Rq]
<1>. DEFINE n == Len(A)
<1>1. n \in Nat /\ DOMAIN A = 1 .. n
  BY LenProperties
<1>2. ASSUME NEW i \in 1 .. n PROVE Dot(A[i], v) \in Rq
  <2>. DEFINE a == A[i]
              m == Least(Len(a), Len(v))
              I == 1 .. m
              t(p) == [k \in I |-> NegMul(a[k], v[k])[p]]
  <2>1. a \in Seq(Rq)
    BY ElementOfSeq
  <2>. HIDE DEF a
  <2>2. Len(a) \in Nat /\ Len(v) \in Nat
    BY <2>1, LenProperties
  <2>3. m \in Nat /\ m <= Len(a) /\ m <= Len(v)
    BY <2>2 DEF Least
  <2>. HIDE DEF m
  <2>4. \A k \in I : a[k] \in Rq /\ v[k] \in Rq
    <3>1. \A k \in I : k \in 1 .. Len(a) /\ k \in 1 .. Len(v)
      BY <2>2, <2>3
    <3>. QED BY <2>1, <3>1, ElementOfSeq
  <2>5. IsFiniteSet(I)
    BY <2>3, FS_Interval
  <2>. HIDE DEF I
  <2>6. ASSUME NEW p \in Coeff PROVE SumFunction(t(p)) % Q \in Fp
    <3>. DEFINE f == t(p)
    <3>1. ASSUME NEW k \in I PROVE f[k] \in Int
      <4>1. NegMul(a[k], v[k]) \in Rq
        BY <2>4, ProductType
      <4>2. NegMul(a[k], v[k])[p] \in Fp
        BY <4>1 DEF Rq
      <4>. QED BY <4>2, RingAssumption DEF Fp
    <3>2. DOMAIN f = I
      OBVIOUS
    <3>. HIDE DEF f
    <3>3. SumFunction(f) \in Int
      BY <2>5, <3>1, <3>2, SumInt DEF SumFunction
    <3>4. SumFunction(f) % Q \in Fp
      BY <3>3, ModSmall
    <3>. QED BY <3>4 DEF f
  <2>7. Dot(a, v) = [p \in Coeff |-> SumFunction(t(p)) % Q]
    BY StoredIs DEF Dot, SumRq, I, m
  <2>. HIDE DEF t
  <2>8. Dot(a, v) \in Rq
    BY <2>6, <2>7 DEF Rq
  <2>. QED BY <2>8 DEF a
<1>. DEFINE w == [i \in 1 .. n |-> Dot(A[i], v)]
<1>3. w \in [1 .. n -> Rq]
  BY <1>2
<1>4. MatVec(A, v) = StoredVec(w)
  BY <1>1 DEF MatVec
<1>. HIDE DEF w, n
<1>5. StoredVec(w) = w
  BY <1>1, <1>3, StoredVecIs
<1>. QED BY <1>3, <1>4, <1>5 DEF n

-----------------------------------------------------------------------------
(* Bounded digits. *)

(* The number a bounded digit is read from.                                 *)
LEMMA ShiftedFacts ==
  ASSUME NEW c \in Fp
  PROVE  /\ Z_BALANCED_SHIFT \in Int
         /\ Shifted(c) \in Nat
         /\ Magnitude(c) <= Z_BALANCED_SHIFT => Shifted(c) = Centred(c) + Z_BALANCED_SHIFT
<1>1. Z_BALANCED_SHIFT \in Nat
  BY BoundedAssumption, BalancedAssumption, ShiftType DEF ZDigit
<1>2. Q \in Nat \ {0} /\ c \in 0 .. (Q - 1) /\ Q \div 2 \in Nat
  BY RingAssumption DEF Fp
<1>3. Magnitude(c) \in Nat
  BY <1>2 DEF Magnitude
<1>4. ~IsNegative(c) => Magnitude(c) = c
  BY <1>2 DEF Magnitude, IsNegative
<1>. QED BY <1>1, <1>2, <1>3, <1>4 DEF Shifted, Centred

(* Every bounded digit lies in the box, whatever the word                   *)
(* (bounded_z_digit_at, "unconditionally").                                 *)
LEMMA BoundedBox ==
  ASSUME NEW c \in Fp, NEW e \in ZDigit
  PROVE  Boxed(BoundedZDigitAt(c, e), HALF_BASE)
<1>1. Shifted(c) \in Nat /\ e \in Nat
  BY ShiftedFacts, BoundedAssumption DEF ZDigit
<1>2. DigitAt(Shifted(c), e) \in 0 .. (GADGET_BASE - 1)
  BY <1>1, DigitRange
<1>. QED BY <1>2, BoxedDigit, BalancedAssumption DEF BoundedZDigitAt

(* Bounded digits recompose every word short enough: the shift makes it     *)
(* non-negative, and the digits reach past the sum.  Nothing else is asked  *)
(* of it; in particular it may be past Z_BOUND.                             *)
THEOREM BoundedExact ==
  ASSUME NEW c \in Fp, NEW m \in Nat, Magnitude(c) <= m,
         m <= Z_BALANCED_SHIFT, m + Z_BALANCED_SHIFT < BasePower[Z_DIGITS]
  PROVE  SumFunction([e \in ZDigit |-> BoundedZDigitAt(c, e) * BasePower[e]]) % Q = c
<1>. DEFINE x == Shifted(c)
            Z == Z_BALANCED_SHIFT
            s == SumFunction([e \in 0 .. (Z_DIGITS - 1) |->
                   ((DigitAt(x, e) - HALF_BASE) % Q) * BasePower[e]])
<1>1. Z_DIGITS \in Nat /\ Q \in Nat \ {0} /\ c \in Int
  BY BoundedAssumption, RingAssumption DEF Fp
<1>2. /\ Magnitude(c) \in Nat /\ Centred(c) \in Int
      /\ Centred(c) <= Magnitude(c) /\ -Centred(c) <= Magnitude(c)
      /\ (Centred(c) + 0) % Q = (c + 0) % Q
  BY CentredFacts
<1>3. Z \in Int /\ x \in Nat /\ (Magnitude(c) <= Z => x = Centred(c) + Z)
  BY ShiftedFacts
<1>4. BasePower[Z_DIGITS] \in Nat
  BY <1>1, BasePowerFacts
<1>5. x = Centred(c) + Z /\ x < BasePower[Z_DIGITS]
  <2>. HIDE DEF x
  <2>. QED BY <1>2, <1>3, <1>4
<1>6. s % Q = (x - Z) % Q
  <2>1. Z = SumFunction([e \in 0 .. (Z_DIGITS - 1) |-> HALF_BASE * BasePower[e]])
    BY BoundedAssumption DEF ZDigit
  <2>. HIDE DEF x, Z
  <2>2. s % Q = (x - SumFunction([e \in 0 .. (Z_DIGITS - 1) |-> HALF_BASE * BasePower[e]])) % Q
    BY <1>1, <1>3, <1>5, BalancedSum, BalancedAssumption, ZenonT(60)
  <2>. QED BY <2>1, <2>2
<1>7. (x - Z) % Q = c
  <2>. HIDE DEF x, Z
  <2>1. x - Z = Centred(c) + 0 /\ c + 0 = c
    BY <1>1, <1>2, <1>3, <1>5
  <2>2. c % Q = c
    BY <1>1, ModSmall
  <2>. QED BY <1>2, <2>1, <2>2
<1>8. SumFunction([e \in ZDigit |-> BoundedZDigitAt(c, e) * BasePower[e]]) = s
  BY DEF ZDigit, BoundedZDigitAt
<1>. QED BY <1>6, <1>7, <1>8

(* A short challenge times digits: no coefficient outgrows OMEGA (b - 1).   *)
LEMMA ShortProduct ==
  ASSUME NEW c \in Rq, IsShort(c), NEW s \in Rq,
         \A k \in Coeff : s[k] \in 0 .. (GADGET_BASE - 1), NEW p \in Coeff
  PROVE  \E t \in Int : /\ t <= OMEGA * (GADGET_BASE - 1)
                        /\ -t <= OMEGA * (GADGET_BASE - 1)
                        /\ NegMul(c, s)[p] = t % Q
<1>. DEFINE U == UnitPasses(c)
            g == [x \in U |-> Signed(c, x[1], p, s[Source(x[1], p)])]
            t == SumFunctionOnSet(g, U)
            b == GADGET_BASE - 1
            n == Cardinality(U)
<1>1. b \in Nat /\ OMEGA \in Nat
  BY GadgetAssumption, RingAssumption
<1>2. IsFiniteSet(U) /\ n \in Nat /\ n <= OMEGA /\ \A x \in U : x[1] \in Coeff
  BY UnitPassesFinite DEF IsShort
<1>3. ASSUME NEW x \in U PROVE g[x] \in Int /\ g[x] <= b /\ g[x] >= -b
  <2>1. Source(x[1], p) \in Coeff
    BY <1>2, SourceRange
  <2>. DEFINE v == s[Source(x[1], p)]
  <2>2. v \in 0 .. b
    BY <2>1
  <2>3. g[x] = v \/ g[x] = -v
    BY DEF Signed
  <2>. HIDE DEF v, b, g
  <2>. QED BY <1>1, <2>2, <2>3
<1>4. DOMAIN g = U
  OBVIOUS
<1>5. SumFunction(g) % Q = NegMul(c, s)[p]
  BY UnitPassesExact
<1>. HIDE DEF g, U, b
<1>6. t \in Int
  BY <1>2, <1>3, SumInt
<1>7. t <= n * b /\ t >= -(n * b)
  BY <1>1, <1>2, <1>3, SumBound
<1>8. SumFunction(g) = t
  BY <1>4 DEF SumFunction
<1>. HIDE DEF t, n
<1>9. n * b \in Int /\ OMEGA * b \in Int /\ n * b <= OMEGA * b
  BY <1>1, <1>2
<1>10. t <= OMEGA * b /\ -t <= OMEGA * b /\ NegMul(c, s)[p] = t % Q
  BY <1>5, <1>6, <1>7, <1>8, <1>9
<1>. QED BY <1>6, <1>10 DEF b

-----------------------------------------------------------------------------
(* SUMS OF SUMS *)

(* The sum of two functions, term by term.                                  *)
LEMMA SumPlus ==
  ASSUME NEW S, IsFiniteSet(S), NEW f, NEW g, NEW h,
         \A x \in S : f[x] \in Int /\ g[x] \in Int /\ h[x] = f[x] + g[x]
  PROVE  SumFunctionOnSet(h, S) = SumFunctionOnSet(f, S) + SumFunctionOnSet(g, S)
<1>1. \A x \in S : h[x] \in Int /\ f[x] = h[x] - g[x]
  OBVIOUS
<1>2. SumFunctionOnSet(f, S) = SumFunctionOnSet(h, S) - SumFunctionOnSet(g, S)
  BY <1>1, SumDifference
<1>3. /\ SumFunctionOnSet(f, S) \in Int
      /\ SumFunctionOnSet(g, S) \in Int
      /\ SumFunctionOnSet(h, S) \in Int
  BY <1>1, SumInt
<1>. QED BY <1>2, <1>3

(* A factor common to all terms comes out of the sum.                       *)
LEMMA SumScale ==
  ASSUME NEW S, IsFiniteSet(S), NEW w \in Int, NEW f, NEW h,
         \A x \in S : f[x] \in Int /\ h[x] = w * f[x]
  PROVE  SumFunctionOnSet(h, S) = w * SumFunctionOnSet(f, S)
<1>. DEFINE F(U) == SumFunctionOnSet(f, U)
            H(U) == SumFunctionOnSet(h, U)
            G == { U \in SUBSET S : H(U) = w * F(U) }
<1>1. {} \in G
  BY SumEmpty
<1>2. ASSUME NEW V \in SUBSET S, V # {}, \A x \in V : V \ {x} \in G
      PROVE  V \in G
  <2>1. PICK x : x \in V
    BY <1>2
  <2>. DEFINE W == V \ {x}
  <2>2. IsFiniteSet(V) /\ IsFiniteSet(W)
    BY FS_Subset
  <2>3. \A y \in V : f[y] \in Int /\ h[y] \in Int
    OBVIOUS
  <2>4. F(V) = f[x] + F(W) /\ H(V) = h[x] + H(W)
    BY <2>1, <2>2, <2>3, SumRemove
  <2>5. F(W) \in Int
    BY <2>2, <2>3, SumInt
  <2>6. H(W) = w * F(W)
    BY <1>2, <2>1
  <2>7. f[x] \in Int /\ h[x] = w * f[x]
    BY <2>1
  <2>. HIDE DEF F, H, W
  <2>8. H(V) = w * F(V)
    BY <2>4, <2>5, <2>6, <2>7
  <2>. QED BY <2>8 DEF F, H
<1>. HIDE DEF G
<1>3. \A U \in SUBSET S : U \in G
  BY <1>1, <1>2, SubsetInduction
<1>. QED BY <1>3 DEF G

(* A sum may be taken over any renaming of its index.                       *)
LEMMA SumReindex ==
  ASSUME NEW S, IsFiniteSet(S), NEW h, \A x, y \in S : h[x] = h[y] => x = y,
         NEW f, NEW g, \A x \in S : f[h[x]] \in Int /\ g[x] = f[h[x]]
  PROVE  SumFunctionOnSet(g, S) = SumFunctionOnSet(f, { h[x] : x \in S })
<1>. DEFINE I(U) == { h[x] : x \in U }
            F(U) == SumFunctionOnSet(f, I(U))
            H(U) == SumFunctionOnSet(g, U)
            G == { U \in SUBSET S : H(U) = F(U) }
<1>1. {} \in G
  <2>1. I({}) = {}
    OBVIOUS
  <2>. QED BY <2>1, SumEmpty
<1>2. ASSUME NEW V \in SUBSET S, V # {}, \A x \in V : V \ {x} \in G
      PROVE  V \in G
  <2>1. PICK x : x \in V
    BY <1>2
  <2>. DEFINE W == V \ {x}
  <2>2. IsFiniteSet(V) /\ IsFiniteSet(W)
    BY FS_Subset
  <2>3. I(V) \ {h[x]} = I(W)
    BY <2>1
  <2>4. IsFiniteSet(I(V)) /\ h[x] \in I(V) /\ \A z \in I(V) : f[z] \in Int
    <3>1. IsFiniteSet(I(V))
      <4>. DEFINE k == [y \in V |-> h[y]]
      <4>1. k \in Surjection(V, I(V))
        BY DEF Surjection
      <4>. HIDE DEF k, I
      <4>. QED BY <2>2, <4>1, FS_Surjection
    <3>. QED BY <2>1, <3>1
  <2>5. \A y \in V : g[y] \in Int
    OBVIOUS
  <2>6. H(V) = g[x] + H(W)
    BY <2>1, <2>2, <2>5, SumRemove
  <2>7. F(V) = f[h[x]] + F(W)
    <3>. DEFINE J == I(V)
    <3>. HIDE DEF I
    <3>1. SumFunctionOnSet(f, J) = f[h[x]] + SumFunctionOnSet(f, J \ {h[x]})
      <4>. HIDE DEF J
      <4>. QED BY <2>4, SumRemove DEF J
    <3>. QED BY <2>3, <3>1
  <2>8. H(W) = F(W)
    BY <1>2, <2>1
  <2>9. g[x] = f[h[x]]
    BY <2>1
  <2>. HIDE DEF F, H, W
  <2>. QED BY <2>6, <2>7, <2>8, <2>9 DEF F, H
<1>. HIDE DEF G
<1>3. \A U \in SUBSET S : U \in G
  BY <1>1, <1>2, SubsetInduction
<1>. QED BY <1>3 DEF G

(* The order of two summations does not matter.                             *)
LEMMA SumExchange ==
  ASSUME NEW S, IsFiniteSet(S), NEW T, IsFiniteSet(T),
         NEW f, \A x \in S, y \in T : f[x][y] \in Int,
         NEW g, \A x \in S, y \in T : g[y][x] = f[x][y],
         NEW r, \A x \in S : r[x] = SumFunctionOnSet(f[x], T),
         NEW c, \A y \in T : c[y] = SumFunctionOnSet(g[y], S)
  PROVE  SumFunctionOnSet(r, S) = SumFunctionOnSet(c, T)
<1>. DEFINE C(U) == [y \in T |-> SumFunctionOnSet(g[y], U)]
            F(U) == SumFunctionOnSet(C(U), T)
            H(U) == SumFunctionOnSet(r, U)
            G == { U \in SUBSET S : H(U) = F(U) }
<1>0. \A x \in S : r[x] \in Int
  BY SumInt
<1>1. {} \in G
  <2>1. \A y \in T : C({})[y] = 0
    BY SumEmpty
  <2>2. SumFunctionOnSet(C({}), T) = Cardinality(T) * 0
    <3>. DEFINE k == C({})
    <3>1. \A y \in T : k[y] = 0
      BY <2>1
    <3>. HIDE DEF k
    <3>2. SumFunctionOnSet(k, T) = Cardinality(T) * 0
      BY <3>1, SumConstant
    <3>. QED BY <3>2 DEF k
  <2>3. Cardinality(T) * 0 = 0
    BY FS_CardinalityType
  <2>. QED BY <2>2, <2>3, SumEmpty
<1>2. ASSUME NEW V \in SUBSET S, V # {}, \A x \in V : V \ {x} \in G
      PROVE  V \in G
  <2>1. PICK x : x \in V
    BY <1>2
  <2>. DEFINE W == V \ {x}
              k == C(V)
              l == C(W)
  <2>2. IsFiniteSet(V) /\ IsFiniteSet(W)
    BY FS_Subset
  <2>3. H(V) = r[x] + H(W)
    BY <1>0, <2>1, <2>2, SumRemove
  <2>4. ASSUME NEW y \in T
        PROVE  f[x][y] \in Int /\ l[y] \in Int /\ k[y] = f[x][y] + l[y]
    <3>1. \A z \in V : g[y][z] \in Int
      OBVIOUS
    <3>2. SumFunctionOnSet(g[y], V) = g[y][x] + SumFunctionOnSet(g[y], W)
      BY <2>1, <2>2, <3>1, SumRemove
    <3>3. SumFunctionOnSet(g[y], W) \in Int
      BY <2>2, <3>1, SumInt
    <3>4. g[y][x] = f[x][y] /\ f[x][y] \in Int
      BY <2>1
    <3>. QED BY <3>2, <3>3, <3>4
  <2>5. SumFunctionOnSet(k, T) = SumFunctionOnSet(f[x], T) + SumFunctionOnSet(l, T)
    <3>. DEFINE fx == f[x]
    <3>1. \A y \in T : fx[y] \in Int /\ l[y] \in Int /\ k[y] = fx[y] + l[y]
      BY <2>4
    <3>. HIDE DEF fx, k, l
    <3>2. SumFunctionOnSet(k, T) = SumFunctionOnSet(fx, T) + SumFunctionOnSet(l, T)
      BY <3>1, SumPlus
    <3>. QED BY <3>2 DEF fx
  <2>6. H(W) = F(W)
    BY <1>2, <2>1
  <2>7. r[x] = SumFunctionOnSet(f[x], T)
    BY <2>1
  <2>8. SumFunctionOnSet(l, T) \in Int
    <3>1. \A y \in T : l[y] \in Int
      BY <2>4
    <3>. HIDE DEF l
    <3>. QED BY <3>1, SumInt
  <2>9. H(V) = F(V)
    BY <2>3, <2>5, <2>6, <2>7
  <2>. QED BY <2>9
<1>. HIDE DEF G
<1>3. \A U \in SUBSET S : U \in G
  BY <1>1, <1>2, SubsetInduction
<1>4. H(S) = F(S)
  BY <1>3 DEF G
<1>5. SumFunctionOnSet(C(S), T) = SumFunctionOnSet(c, T)
  <2>. DEFINE k == C(S)
  <2>1. \A y \in T : k[y] = c[y]
    OBVIOUS
  <2>. HIDE DEF k
  <2>2. SumFunctionOnSet(k, T) = SumFunctionOnSet(c, T)
    BY <2>1, SumEqual
  <2>. QED BY <2>2 DEF k
<1>. QED BY <1>4, <1>5

-----------------------------------------------------------------------------
(* RING LAWS *)

(* Integer coefficients: what the sums run over before they are reduced.    *)
IntRq == [Coeff -> Int]
Term(a, s, p) == [k \in Coeff |-> LET v == a[k] * s[Source(k, p)]
                                  IN  IF p < k THEN -v ELSE v]

LEMMA RqInt ==
  ASSUME NEW x \in Rq
  PROVE  x \in IntRq /\ \A p \in Coeff : x[p] \in Fp /\ x[p] \in Int /\ x[p] % Q = x[p]
<1>1. \A p \in Coeff : x[p] \in Fp /\ x[p] \in Int
  BY RingAssumption DEF Rq, Fp
<1>2. \A p \in Coeff : x[p] % Q = x[p]
  BY <1>1, ModSmall
<1>. QED BY <1>1, <1>2 DEF Rq, IntRq

LEMMA ProductIs ==
  ASSUME NEW a \in IntRq, NEW s \in IntRq, NEW p \in Coeff
  PROVE  /\ \A k \in Coeff : Term(a, s, p)[k] \in Int /\ a[k] * s[Source(k, p)] \in Int
         /\ SumFunctionOnSet(Term(a, s, p), Coeff) \in Int
         /\ NegMul(a, s)[p] = SumFunctionOnSet(Term(a, s, p), Coeff) % Q
<1>1. ASSUME NEW k \in Coeff PROVE Term(a, s, p)[k] \in Int /\ a[k] * s[Source(k, p)] \in Int
  <2>1. a[k] \in Int /\ s[Source(k, p)] \in Int
    BY SourceRange DEF IntRq
  <2>2. a[k] * s[Source(k, p)] \in Int
    BY <2>1
  <2>. QED BY <2>2 DEF Term
<1>2. SumFunctionOnSet(Term(a, s, p), Coeff) \in Int
  <2>. DEFINE t == Term(a, s, p)
  <2>1. \A k \in Coeff : t[k] \in Int
    BY <1>1
  <2>. HIDE DEF t
  <2>2. SumFunctionOnSet(t, Coeff) \in Int
    BY <2>1, CoeffFacts, SumInt
  <2>. QED BY <2>2 DEF t
<1>3. DOMAIN Term(a, s, p) = Coeff
  BY DEF Term
<1>4. NegMul(a, s)[p] = SumFunction(Term(a, s, p)) % Q
  BY DEF NegMul, Term
<1>. QED BY <1>1, <1>2, <1>3, <1>4 DEF SumFunction

LEMMA IntProductType ==
  ASSUME NEW a \in IntRq, NEW s \in IntRq
  PROVE  NegMul(a, s) \in Rq /\ NegMul(a, s) \in IntRq
<1>1. \A p \in Coeff : NegMul(a, s)[p] \in Fp
  BY ProductIs, ModSmall
<1>2. NegMul(a, s) = [p \in Coeff |-> NegMul(a, s)[p]]
  BY DEF NegMul
<1>3. NegMul(a, s) \in Rq
  BY <1>1, <1>2 DEF Rq
<1>. QED BY <1>3, RqInt

(* Products are equal when their coefficients are.                          *)
LEMMA ProductEqual ==
  ASSUME NEW a \in IntRq, NEW s \in IntRq, NEW x \in IntRq,
         \A p \in Coeff : NegMul(a, s)[p] = x[p]
  PROVE  NegMul(a, s) = x
<1>1. NegMul(a, s) \in IntRq
  BY IntProductType
<1>. QED BY <1>1 DEF IntRq

(* The product depends on the residues of its second factor only.           *)
LEMMA ProductResidue ==
  ASSUME NEW a \in IntRq, NEW s \in IntRq, NEW t \in IntRq,
         \A p \in Coeff : s[p] % Q = t[p] % Q
  PROVE  NegMul(a, s) = NegMul(a, t)
<1>1. ASSUME NEW p \in Coeff PROVE NegMul(a, s)[p] = NegMul(a, t)[p]
  <2>. DEFINE f == Term(a, s, p)
              g == Term(a, t, p)
  <2>1. ASSUME NEW k \in Coeff PROVE f[k] \in Int /\ g[k] \in Int /\ f[k] % Q = g[k] % Q
    <3>. DEFINE u == s[Source(k, p)]
                w == t[Source(k, p)]
    <3>1. u \in Int /\ w \in Int /\ a[k] \in Int /\ u % Q = w % Q
      BY SourceRange DEF IntRq
    <3>2. f[k] = (IF p < k THEN -(a[k] * u) ELSE a[k] * u) /\ g[k] = (IF p < k THEN -(a[k] * w) ELSE a[k] * w)
      BY DEF Term
    <3>. HIDE DEF u, w, f, g
    <3>. DEFINE b == IF p < k THEN -a[k] ELSE a[k]
    <3>3. b \in Int /\ f[k] = u * b /\ g[k] = w * b
      BY <3>1, <3>2
    <3>. HIDE DEF b
    <3>4. ((u % Q) * b) % Q = (u * b) % Q /\ ((w % Q) * b) % Q = (w * b) % Q
      BY <3>1, <3>3, ModScale
    <3>5. u * b \in Int /\ w * b \in Int
      BY <3>1, <3>3
    <3>. QED BY <3>1, <3>3, <3>4, <3>5
  <2>. HIDE DEF f, g
  <2>2. SumFunctionOnSet(f, Coeff) % Q = SumFunctionOnSet(g, Coeff) % Q
    BY <2>1, CoeffFacts, SumModEqual
  <2>. QED BY <2>2, ProductIs DEF f, g
<1>. QED BY <1>1, IntProductType, ProductEqual

(* The shift that moves p to k moves k to p, with the same sign.            *)
LEMMA SourceSwap ==
  ASSUME NEW k \in Coeff, NEW p \in Coeff
  PROVE  /\ Source(k, p) \in Coeff /\ Source(Source(k, p), p) = k
         /\ (p < Source(k, p)) = (p < k)
<1>1. RING_DEGREE \in Nat \ {0} /\ k \in 0 .. (RING_DEGREE - 1) /\ p \in 0 .. (RING_DEGREE - 1)
  BY RingAssumption DEF Coeff
<1>2. Source(k, p) \in Int /\ Source(k, p) = IF p >= k THEN p - k ELSE p - k + RING_DEGREE
  BY <1>1 DEF Source
<1>3. Source(Source(k, p), p) = IF p >= Source(k, p) THEN p - Source(k, p) ELSE p - Source(k, p) + RING_DEGREE
  BY DEF Source
<1>. QED BY <1>1, <1>2, <1>3, SourceRange

(* The ring is commutative.                                                 *)
LEMMA ProductCommutes ==
  ASSUME NEW a \in IntRq, NEW s \in IntRq
  PROVE  NegMul(a, s) = NegMul(s, a)
<1>1. ASSUME NEW p \in Coeff PROVE NegMul(a, s)[p] = NegMul(s, a)[p]
  <2>. DEFINE h == [k \in Coeff |-> Source(k, p)]
              f == Term(s, a, p)
              g == Term(a, s, p)
  <2>1. \A x, y \in Coeff : h[x] = h[y] => x = y
    BY SourceSwap
  <2>2. { h[x] : x \in Coeff } = Coeff
    BY SourceSwap
  <2>3. ASSUME NEW k \in Coeff PROVE f[h[k]] \in Int /\ g[k] = f[h[k]]
    <3>. DEFINE j == Source(k, p)
    <3>1. j \in Coeff /\ Source(j, p) = k /\ (p < j) = (p < k)
      BY SourceSwap
    <3>2. a[k] \in Int /\ s[j] \in Int
      BY <3>1 DEF IntRq
    <3>3. g[k] = IF p < k THEN -(a[k] * s[j]) ELSE a[k] * s[j]
      BY DEF Term
    <3>4. f[j] = IF p < k THEN -(s[j] * a[k]) ELSE s[j] * a[k]
      BY <3>1 DEF Term
    <3>5. s[j] * a[k] = a[k] * s[j] /\ s[j] * a[k] \in Int
      BY <3>2
    <3>. QED BY <3>3, <3>4, <3>5
  <2>. HIDE DEF f, g, h
  <2>4. SumFunctionOnSet(g, Coeff) = SumFunctionOnSet(f, Coeff)
    BY <2>1, <2>2, <2>3, CoeffFacts, SumReindex
  <2>. QED BY <2>4, ProductIs DEF f, g
<1>. QED BY <1>1, IntProductType, ProductEqual

-----------------------------------------------------------------------------
(* Sums of ring elements, as SumRq reduces them.                            *)
SumOf(F, S) == [p \in Coeff |-> SumFunctionOnSet([i \in S |-> F[i][p]], S) % Q]

LEMMA SumOfFacts ==
  ASSUME NEW S, IsFiniteSet(S), NEW F \in [S -> IntRq]
  PROVE  /\ SumOf(F, S) \in Rq
         /\ \A p \in Coeff : /\ \A i \in S : F[i][p] \in Int
                             /\ SumFunctionOnSet([i \in S |-> F[i][p]], S) \in Int
                             /\ SumOf(F, S)[p] = SumFunctionOnSet([i \in S |-> F[i][p]], S) % Q
<1>1. ASSUME NEW p \in Coeff
      PROVE  /\ \A i \in S : F[i][p] \in Int
             /\ SumFunctionOnSet([i \in S |-> F[i][p]], S) \in Int
             /\ SumFunctionOnSet([i \in S |-> F[i][p]], S) % Q \in Fp
  <2>. DEFINE f == [i \in S |-> F[i][p]]
  <2>1. \A i \in S : f[i] \in Int /\ F[i][p] \in Int
    BY DEF IntRq
  <2>. HIDE DEF f
  <2>2. SumFunctionOnSet(f, S) \in Int
    BY <2>1, SumInt
  <2>3. SumFunctionOnSet(f, S) % Q \in Fp
    BY <2>2, ModSmall
  <2>. QED BY <2>1, <2>2, <2>3 DEF f
<1>. QED BY <1>1 DEF SumOf, Rq

(* A product distributes over a sum of any length.                          *)
LEMMA ProductOfSum ==
  ASSUME NEW a \in IntRq, NEW S, IsFiniteSet(S), NEW F \in [S -> IntRq]
  PROVE  NegMul(a, SumOf(F, S)) = SumOf([i \in S |-> NegMul(a, F[i])], S)
<1>. DEFINE tot == [p \in Coeff |-> SumFunctionOnSet([i \in S |-> F[i][p]], S)]
            P == [i \in S |-> NegMul(a, F[i])]
<1>1. tot \in IntRq /\ \A p \in Coeff : tot[p] = SumFunctionOnSet([i \in S |-> F[i][p]], S)
  BY SumOfFacts DEF IntRq
<1>2. SumOf(F, S) \in IntRq /\ \A p \in Coeff : SumOf(F, S)[p] = tot[p] % Q
  BY <1>1, SumOfFacts, RqInt
<1>3. P \in [S -> IntRq]
  BY IntProductType
<1>4. SumOf(P, S) \in IntRq
  BY <1>3, SumOfFacts, RqInt
<1>5. \A i \in S : F[i] \in IntRq
  OBVIOUS
<1>. HIDE DEF tot, P
<1>6. NegMul(a, SumOf(F, S)) = NegMul(a, tot)
  <2>1. \A p \in Coeff : SumOf(F, S)[p] % Q = tot[p] % Q
    <3>1. ASSUME NEW p \in Coeff PROVE SumOf(F, S)[p] % Q = tot[p] % Q
      <4>1. tot[p] \in Int
        BY <1>1 DEF IntRq
      <4>2. (tot[p] % Q) % Q = tot[p] % Q
        BY <4>1, ModSmall, RingAssumption DEF Fp
      <4>. QED BY <1>2, <4>2
    <3>. QED BY <3>1
  <2>. QED BY <1>1, <1>2, <2>1, ProductResidue
<1>7. ASSUME NEW p \in Coeff PROVE NegMul(a, tot)[p] = SumOf(P, S)[p]
  <2>. DEFINE f == [k \in Coeff |-> [i \in S |-> Term(a, F[i], p)[k]]]
              g == [i \in S |-> Term(a, F[i], p)]
              r == Term(a, tot, p)
              c == [i \in S |-> SumFunctionOnSet(Term(a, F[i], p), Coeff)]
              d == [i \in S |-> P[i][p]]
  <2>1. \A k \in Coeff, i \in S : f[k][i] \in Int /\ g[i][k] = f[k][i]
    BY <1>5, ProductIs
  <2>2. ASSUME NEW k \in Coeff PROVE r[k] = SumFunctionOnSet(f[k], S)
    <3>. DEFINE j == Source(k, p)
                h == [i \in S |-> F[i][j]]
                fk == f[k]
                w == IF p < k THEN -a[k] ELSE a[k]
    <3>1. j \in Coeff /\ a[k] \in Int
      BY SourceRange DEF IntRq
    <3>2. tot[j] = SumFunctionOnSet(h, S) /\ tot[j] \in Int
      BY <1>1, <3>1 DEF IntRq
    <3>3. w \in Int
      BY <3>1
    <3>4. ASSUME NEW i \in S PROVE h[i] \in Int /\ fk[i] = w * h[i]
      <4>1. h[i] \in Int
        BY <1>5, <3>1 DEF IntRq
      <4>2. fk[i] = IF p < k THEN -(a[k] * h[i]) ELSE a[k] * h[i]
        BY DEF Term
      <4>. HIDE DEF h, fk
      <4>. QED BY <3>1, <4>1, <4>2
    <3>5. r[k] = w * tot[j]
      <4>1. r[k] = IF p < k THEN -(a[k] * tot[j]) ELSE a[k] * tot[j]
        BY DEF Term
      <4>. HIDE DEF r
      <4>. QED BY <3>1, <3>2, <4>1
    <3>. HIDE DEF h, fk, w, r
    <3>6. SumFunctionOnSet(fk, S) = w * SumFunctionOnSet(h, S)
      BY <3>3, <3>4, SumScale
    <3>. QED BY <3>2, <3>5, <3>6 DEF fk
  <2>3. \A i \in S : c[i] = SumFunctionOnSet(g[i], Coeff)
    OBVIOUS
  <2>4. \A i \in S : c[i] \in Int /\ d[i] = c[i] % Q
    BY <1>5, ProductIs DEF P
  <2>5. SumOf(P, S)[p] = SumFunctionOnSet(d, S) % Q
    BY DEF SumOf
  <2>6. NegMul(a, tot)[p] = SumFunctionOnSet(r, Coeff) % Q
    BY <1>1, ProductIs
  <2>. HIDE DEF f, g, r, c, d
  <2>7. SumFunctionOnSet(r, Coeff) = SumFunctionOnSet(c, S)
    <3>1. \A x \in Coeff, y \in S : f[x][y] \in Int
      BY <2>1
    <3>2. \A x \in Coeff, y \in S : g[y][x] = f[x][y]
      BY <2>1
    <3>3. \A x \in Coeff : r[x] = SumFunctionOnSet(f[x], S)
      BY <2>2
    <3>4. IsFiniteSet(Coeff)
      BY CoeffFacts
    <3>. QED BY <2>3, <3>1, <3>2, <3>3, <3>4, SumExchange
  <2>8. \A i \in S : d[i] \in Int /\ c[i] % Q = d[i] % Q
    BY <2>4, ModSmall, RingAssumption DEF Fp
  <2>9. SumFunctionOnSet(c, S) % Q = SumFunctionOnSet(d, S) % Q
    BY <2>4, <2>8, SumModEqual
  <2>. QED BY <2>5, <2>6, <2>7, <2>9
<1>8. NegMul(a, tot) = SumOf(P, S)
  BY <1>1, <1>4, <1>7, ProductEqual
<1>. QED BY <1>6, <1>8 DEF P

(* Sums whose terms have equal residues are equal.                          *)
LEMMA SumOfResidue ==
  ASSUME NEW S, IsFiniteSet(S), NEW F \in [S -> IntRq], NEW G \in [S -> IntRq],
         \A i \in S, p \in Coeff : F[i][p] % Q = G[i][p] % Q
  PROVE  SumOf(F, S) = SumOf(G, S)
<1>1. ASSUME NEW p \in Coeff PROVE SumOf(F, S)[p] = SumOf(G, S)[p]
  <2>. DEFINE f == [i \in S |-> F[i][p]]
              g == [i \in S |-> G[i][p]]
  <2>1. \A i \in S : f[i] \in Int /\ g[i] \in Int /\ f[i] % Q = g[i] % Q
    BY DEF IntRq
  <2>2. SumOf(F, S)[p] = SumFunctionOnSet(f, S) % Q /\ SumOf(G, S)[p] = SumFunctionOnSet(g, S) % Q
    BY DEF SumOf
  <2>. HIDE DEF f, g
  <2>3. SumFunctionOnSet(f, S) % Q = SumFunctionOnSet(g, S) % Q
    BY <2>1, SumModEqual
  <2>. QED BY <2>2, <2>3
<1>. QED BY <1>1 DEF SumOf

(* One term of a product: w X^k times s.                                    *)
TimesTerm(w, k, s) == [p \in Coeff |-> IF p < k THEN -(w * s[Source(k, p)]) ELSE w * s[Source(k, p)]]

LEMMA TimesTermType ==
  ASSUME NEW w \in Int, NEW k \in Coeff, NEW s \in IntRq
  PROVE  TimesTerm(w, k, s) \in IntRq
<1>1. ASSUME NEW p \in Coeff PROVE TimesTerm(w, k, s)[p] \in Int
  <2>1. s[Source(k, p)] \in Int
    BY SourceRange DEF IntRq
  <2>2. w * s[Source(k, p)] \in Int
    BY <2>1
  <2>. QED BY <2>2 DEF TimesTerm
<1>. QED BY <1>1 DEF TimesTerm, IntRq

LEMMA ProductAsSum ==
  ASSUME NEW a \in IntRq, NEW s \in IntRq
  PROVE  /\ [k \in Coeff |-> TimesTerm(a[k], k, s)] \in [Coeff -> IntRq]
         /\ NegMul(a, s) = SumOf([k \in Coeff |-> TimesTerm(a[k], k, s)], Coeff)
<1>. DEFINE F == [k \in Coeff |-> TimesTerm(a[k], k, s)]
<1>1. F \in [Coeff -> IntRq]
  BY TimesTermType DEF IntRq
<1>2. SumOf(F, Coeff) \in IntRq
  BY <1>1, CoeffFacts, SumOfFacts, RqInt
<1>3. ASSUME NEW p \in Coeff PROVE NegMul(a, s)[p] = SumOf(F, Coeff)[p]
  <2>1. [k \in Coeff |-> F[k][p]] = Term(a, s, p)
    BY DEF TimesTerm, Term
  <2>2. SumOf(F, Coeff)[p] = SumFunctionOnSet([k \in Coeff |-> F[k][p]], Coeff) % Q
    BY DEF SumOf
  <2>. HIDE DEF F
  <2>. QED BY <2>1, <2>2, ProductIs
<1>. HIDE DEF F
<1>4. NegMul(a, s) = SumOf(F, Coeff)
  BY <1>2, <1>3, ProductEqual
<1>. QED BY <1>1, <1>4 DEF F

(* Two shifts commute, and the signs they leave agree.                      *)
LEMMA ShiftsCommute ==
  ASSUME NEW k \in Coeff, NEW j \in Coeff, NEW p \in Coeff
  PROVE  /\ Source(j, Source(k, p)) = Source(k, Source(j, p))
         /\ ((p < k) = (Source(k, p) < j)) = ((p < j) = (Source(j, p) < k))
<1>1. /\ RING_DEGREE \in Nat \ {0} /\ k \in 0 .. (RING_DEGREE - 1)
      /\ j \in 0 .. (RING_DEGREE - 1) /\ p \in 0 .. (RING_DEGREE - 1)
  BY RingAssumption DEF Coeff
<1>. DEFINE x == Source(k, p)
            y == Source(j, p)
<1>2. x \in Int /\ x = IF p >= k THEN p - k ELSE p - k + RING_DEGREE
  BY <1>1 DEF Source
<1>3. y \in Int /\ y = IF p >= j THEN p - j ELSE p - j + RING_DEGREE
  BY <1>1 DEF Source
<1>. HIDE DEF x, y
<1>4. Source(j, x) = IF x >= j THEN x - j ELSE x - j + RING_DEGREE
  BY DEF Source
<1>5. Source(k, y) = IF y >= k THEN y - k ELSE y - k + RING_DEGREE
  BY DEF Source
<1>6. Source(j, x) = Source(k, y)
  BY <1>1, <1>2, <1>3, <1>4, <1>5
<1>7. ((p < k) = (x < j)) = ((p < j) = (y < k))
  BY <1>1, <1>2, <1>3
<1>. QED BY <1>6, <1>7 DEF x, y

(* A product with a shifted element is the shifted product.                 *)
LEMMA ProductOfTerm ==
  ASSUME NEW a \in IntRq, NEW s \in IntRq, NEW w \in Int, NEW k \in Coeff, NEW p \in Coeff
  PROVE  NegMul(a, TimesTerm(w, k, s))[p] % Q = TimesTerm(w, k, NegMul(a, s))[p] % Q
<1>. DEFINE m == TimesTerm(w, k, s)
            q == Source(k, p)
            f == Term(a, m, p)
            g == Term(a, s, q)
            v == IF p < k THEN -w ELSE w
            t == SumFunctionOnSet(g, Coeff)
<1>1. q \in Coeff /\ v \in Int /\ m \in IntRq
  BY SourceRange, TimesTermType
<1>2. ASSUME NEW j \in Coeff PROVE g[j] \in Int /\ f[j] = v * g[j]
  <2>. DEFINE x == Source(j, p)
              y == Source(j, q)
              b == a[j]
              c == s[y]
  <2>1. x \in Coeff /\ y \in Coeff /\ b \in Int /\ c \in Int
    BY <1>1, SourceRange DEF IntRq
  <2>2. y = Source(k, x) /\ ((p < k) = (q < j)) = ((p < j) = (x < k))
    BY ShiftsCommute
  <2>3. m[x] = IF x < k THEN -(w * c) ELSE w * c
    BY <2>1, <2>2 DEF TimesTerm
  <2>4. f[j] = IF p < j THEN -(b * m[x]) ELSE b * m[x]
    BY DEF Term
  <2>5. g[j] = IF q < j THEN -(b * c) ELSE b * c
    BY DEF Term
  <2>. HIDE DEF m, f, g, x, y, b, c, q
  <2>. DEFINE d == w * c
              e == b * c
  <2>6. d \in Int /\ e \in Int /\ b * d = w * e
    BY <2>1
  <2>7. b * (-d) = -(b * d) /\ w * (-e) = -(w * e) /\ (-w) * e = -(w * e) /\ (-w) * (-e) = w * e
        /\ b * d \in Int
    BY <2>1, <2>6
  <2>8. m[x] = (IF x < k THEN -d ELSE d) /\ g[j] = (IF q < j THEN -e ELSE e)
    BY <2>3, <2>5
  <2>. HIDE DEF d, e
  <2>9. f[j] = IF (p < j) = (x < k) THEN b * d ELSE -(b * d)
    BY <2>1, <2>4, <2>6, <2>7, <2>8
  <2>10. v * g[j] = IF (p < k) = (q < j) THEN w * e ELSE -(w * e)
    BY <2>1, <2>6, <2>7, <2>8
  <2>. QED BY <2>2, <2>6, <2>8, <2>9, <2>10
<1>3. t \in Int /\ NegMul(a, s)[q] = t % Q
  BY <1>1, ProductIs
<1>4. NegMul(a, m)[p] = SumFunctionOnSet(f, Coeff) % Q
  BY <1>1, ProductIs
<1>5. TimesTerm(w, k, NegMul(a, s))[p] = IF p < k THEN -(w * (t % Q)) ELSE w * (t % Q)
  BY <1>3 DEF TimesTerm
<1>. HIDE DEF m, f, g
<1>6. SumFunctionOnSet(f, Coeff) = v * t
  BY <1>1, <1>2, CoeffFacts, SumScale
<1>. HIDE DEF t
<1>7. t % Q \in Int
  BY <1>3, ModSmall, RingAssumption DEF Fp
<1>8. TimesTerm(w, k, NegMul(a, s))[p] = (t % Q) * v
  BY <1>5, <1>7
<1>. HIDE DEF v
<1>9. ((t % Q) * v) % Q = (t * v) % Q /\ t * v = v * t /\ v * t \in Int
  BY <1>1, <1>3, ModScale
<1>10. ((v * t) % Q) % Q = (v * t) % Q
  BY <1>9, ModSmall, RingAssumption DEF Fp
<1>. QED BY <1>4, <1>6, <1>8, <1>9, <1>10 DEF m

LEMMA ProductSwap ==
  ASSUME NEW a \in IntRq, NEW b \in IntRq, NEW s \in IntRq
  PROVE  NegMul(a, NegMul(b, s)) = NegMul(b, NegMul(a, s))
<1>. DEFINE F == [k \in Coeff |-> TimesTerm(b[k], k, s)]
            P == [k \in Coeff |-> NegMul(a, F[k])]
            R == [k \in Coeff |-> TimesTerm(b[k], k, NegMul(a, s))]
<1>1. NegMul(a, s) \in IntRq /\ \A k \in Coeff : b[k] \in Int
  BY IntProductType DEF IntRq
<1>2. F \in [Coeff -> IntRq] /\ NegMul(b, s) = SumOf(F, Coeff)
  BY ProductAsSum
<1>3. R \in [Coeff -> IntRq] /\ NegMul(b, NegMul(a, s)) = SumOf(R, Coeff)
  BY <1>1, ProductAsSum
<1>4. \A k \in Coeff, p \in Coeff : P[k][p] % Q = R[k][p] % Q
  BY <1>1, ProductOfTerm
<1>5. P \in [Coeff -> IntRq]
  <2>1. \A k \in Coeff : F[k] \in IntRq
    BY <1>2
  <2>. HIDE DEF F
  <2>. QED BY <2>1, IntProductType
<1>6. NegMul(a, SumOf(F, Coeff)) = SumOf(P, Coeff)
  <2>. HIDE DEF F
  <2>. QED BY <1>2, CoeffFacts, ProductOfSum
<1>7. SumOf(P, Coeff) = SumOf(R, Coeff)
  <2>. HIDE DEF P, R
  <2>. QED BY <1>3, <1>4, <1>5, CoeffFacts, SumOfResidue
<1>. QED BY <1>2, <1>3, <1>6, <1>7

(* The ring is associative.                                                 *)
LEMMA ProductAssociates ==
  ASSUME NEW a \in IntRq, NEW b \in IntRq, NEW s \in IntRq
  PROVE  NegMul(NegMul(a, b), s) = NegMul(a, NegMul(b, s))
<1>1. NegMul(a, b) \in IntRq
  BY IntProductType
<1>2. NegMul(NegMul(a, b), s) = NegMul(s, NegMul(a, b))
  BY <1>1, ProductCommutes
<1>3. NegMul(s, NegMul(a, b)) = NegMul(a, NegMul(s, b))
  BY ProductSwap
<1>4. NegMul(s, b) = NegMul(b, s)
  BY ProductCommutes
<1>. QED BY <1>2, <1>3, <1>4

-----------------------------------------------------------------------------
(* Differences and multiples of ring elements.                              *)
Difference(x, y) == [p \in Coeff |-> (x[p] - y[p]) % Q]
Multiple(w, x)   == [p \in Coeff |-> (w * x[p]) % Q]

LEMMA DifferenceIs ==
  ASSUME NEW x \in IntRq, NEW y \in IntRq
  PROVE  AddRq(x, NegRq(y)) = Difference(x, y) /\ Difference(x, y) \in Rq
<1>1. ASSUME NEW p \in Coeff PROVE (x[p] + ((-y[p]) % Q)) % Q = (x[p] - y[p]) % Q
  <2>1. x[p] \in Int /\ -y[p] \in Int
    BY DEF IntRq
  <2>2. (x[p] + ((-y[p]) % Q)) % Q = (x[p] + (-y[p])) % Q
    BY <2>1, ModAdd
  <2>. QED BY <2>1, <2>2 DEF IntRq
<1>2. NegRq(y) = [p \in Coeff |-> (-y[p]) % Q]
  BY StoredIs DEF NegRq
<1>3. AddRq(x, NegRq(y)) = [p \in Coeff |-> (x[p] + ((-y[p]) % Q)) % Q]
  BY <1>2, StoredIs DEF AddRq
<1>4. ASSUME NEW p \in Coeff PROVE (x[p] - y[p]) % Q \in Fp
  <2>1. x[p] - y[p] \in Int
    BY DEF IntRq
  <2>. QED BY <2>1, ModSmall
<1>. QED BY <1>1, <1>3, <1>4 DEF Difference, Rq

LEMMA MultipleIs ==
  ASSUME NEW w \in Int, NEW x \in IntRq
  PROVE  ScaledBy(w, x) = Multiple(w, x) /\ Multiple(w, x) \in Rq
<1>1. ASSUME NEW p \in Coeff PROVE (w * x[p]) % Q \in Fp
  <2>1. w * x[p] \in Int
    BY DEF IntRq
  <2>. QED BY <2>1, ModSmall
<1>. QED BY <1>1, StoredIs DEF ScaledBy, Multiple, Rq

(* Two elements are equal when their difference is zero.                    *)
LEMMA DifferenceZero ==
  ASSUME NEW x \in Rq, NEW y \in Rq
  PROVE  /\ Difference(x, y) = ZeroRq <=> x = y
         /\ ZeroRq \in Rq
<1>1. ASSUME NEW p \in Coeff, (x[p] - y[p]) % Q = 0 PROVE x[p] = y[p]
  <2>1. x[p] \in Fp /\ y[p] \in Fp /\ x[p] \in Int /\ y[p] \in Int
    BY RqInt
  <2>2. (((x[p] - y[p]) % Q) + y[p]) % Q = ((x[p] - y[p]) + y[p]) % Q
    <3>1. x[p] - y[p] \in Int
      BY <2>1
    <3>. QED BY <2>1, <3>1, ModAdd
  <2>3. (x[p] - y[p]) + y[p] = x[p] /\ 0 + y[p] = y[p]
    BY <2>1
  <2>4. y[p] % Q = x[p] % Q
    BY <1>1, <2>2, <2>3
  <2>. QED BY <2>4, RqInt
<1>2. Difference(x, y) = ZeroRq => \A p \in Coeff : x[p] = y[p]
  BY <1>1 DEF Difference, ZeroRq
<1>3. ASSUME x = y PROVE Difference(x, y) = ZeroRq
  <2>1. ASSUME NEW p \in Coeff PROVE (x[p] - y[p]) % Q = 0
    <3>1. x[p] - y[p] = 0
      BY <1>3, RqInt
    <3>. QED BY <3>1, ModSmall, ModulusFacts
  <2>. QED BY <2>1 DEF Difference, ZeroRq
<1>4. ZeroRq \in Rq
  BY ModulusFacts DEF ZeroRq, Rq
<1>. QED BY <1>2, <1>3, <1>4 DEF Rq

LEMMA ProductOfDifference ==
  ASSUME NEW a \in IntRq, NEW x \in IntRq, NEW y \in IntRq
  PROVE  NegMul(a, Difference(x, y)) = Difference(NegMul(a, x), NegMul(a, y))
<1>. DEFINE d == [p \in Coeff |-> x[p] - y[p]]
            u == NegMul(a, x)
            v == NegMul(a, y)
<1>1. d \in IntRq /\ Difference(x, y) \in IntRq
  BY DifferenceIs, RqInt DEF IntRq
<1>2. u \in IntRq /\ v \in IntRq
  BY IntProductType
<1>3. Difference(u, v) \in IntRq
  BY <1>2, DifferenceIs, RqInt
<1>4. NegMul(a, Difference(x, y)) = NegMul(a, d)
  <2>1. ASSUME NEW p \in Coeff PROVE Difference(x, y)[p] % Q = d[p] % Q
    <3>1. d[p] \in Int /\ Difference(x, y)[p] = d[p] % Q
      BY <1>1 DEF IntRq, Difference
    <3>2. d[p] % Q \in Fp /\ d[p] % Q \in Int
      BY <3>1, ModSmall, RingAssumption DEF Fp
    <3>. QED BY <3>1, <3>2, ModSmall
  <2>. QED BY <1>1, <2>1, ProductResidue
<1>5. ASSUME NEW p \in Coeff PROVE NegMul(a, d)[p] = Difference(u, v)[p]
  <2>. DEFINE f == Term(a, x, p)
              g == Term(a, y, p)
              h == Term(a, d, p)
              s == SumFunctionOnSet(f, Coeff)
              t == SumFunctionOnSet(g, Coeff)
  <2>1. \A k \in Coeff : f[k] \in Int /\ g[k] \in Int
    BY ProductIs
  <2>2. ASSUME NEW k \in Coeff PROVE h[k] = f[k] - g[k]
    <3>. DEFINE m == x[Source(k, p)]
                n == y[Source(k, p)]
    <3>1. m \in Int /\ n \in Int /\ a[k] \in Int /\ d[Source(k, p)] = m - n
      BY SourceRange DEF IntRq
    <3>2. a[k] * (m - n) = a[k] * m - a[k] * n /\ a[k] * m \in Int /\ a[k] * n \in Int
      BY <3>1
    <3>3. h[k] = IF p < k THEN -(a[k] * d[Source(k, p)]) ELSE a[k] * d[Source(k, p)]
      BY DEF Term
    <3>4. f[k] = (IF p < k THEN -(a[k] * m) ELSE a[k] * m) /\ g[k] = (IF p < k THEN -(a[k] * n) ELSE a[k] * n)
      BY DEF Term
    <3>. HIDE DEF f, g, h, d, m, n
    <3>. QED BY <3>1, <3>2, <3>3, <3>4
  <2>3. s \in Int /\ t \in Int /\ u[p] = s % Q /\ v[p] = t % Q
    BY ProductIs
  <2>4. NegMul(a, d)[p] = SumFunctionOnSet(h, Coeff) % Q
    BY <1>1, ProductIs
  <2>. HIDE DEF f, g, h
  <2>5. SumFunctionOnSet(h, Coeff) = s - t
    BY <2>1, <2>2, CoeffFacts, SumDifference
  <2>6. Difference(u, v)[p] = ((s % Q) - (t % Q)) % Q
    BY <2>3 DEF Difference
  <2>. HIDE DEF s, t
  <2>7. s % Q \in Int /\ t % Q \in Int
    BY <2>3, ModSmall, RingAssumption DEF Fp
  <2>8. ((s % Q) - (t % Q)) % Q = (s - t) % Q
    <3>1. ((s % Q) + (-(t % Q))) % Q = (s + (-(t % Q))) % Q
      BY <2>3, <2>7, ModAdd
    <3>2. ((t % Q) * (-1)) % Q = (t * (-1)) % Q
      BY <2>3, ModScale
    <3>3. (t % Q) * (-1) = -(t % Q) /\ t * (-1) = -t
      BY <2>3, <2>7
    <3>4. (s + ((-(t % Q)) % Q)) % Q = (s + (-(t % Q))) % Q
      BY <2>3, <2>7, ModAdd
    <3>5. (s + ((-t) % Q)) % Q = (s + (-t)) % Q
      BY <2>3, ModAdd
    <3>6. s + (-t) = s - t /\ (s % Q) + (-(t % Q)) = (s % Q) - (t % Q)
      BY <2>3, <2>7
    <3>. QED BY <3>1, <3>2, <3>3, <3>4, <3>5, <3>6
  <2>. QED BY <2>4, <2>5, <2>6, <2>8
<1>. HIDE DEF d, u, v
<1>6. NegMul(a, d) = Difference(u, v)
  BY <1>1, <1>3, <1>5, ProductEqual
<1>. QED BY <1>4, <1>6 DEF u, v

LEMMA ProductOfMultiple ==
  ASSUME NEW a \in IntRq, NEW w \in Int, NEW x \in IntRq
  PROVE  NegMul(a, Multiple(w, x)) = Multiple(w, NegMul(a, x))
<1>. DEFINE d == [p \in Coeff |-> w * x[p]]
            u == NegMul(a, x)
<1>1. d \in IntRq /\ Multiple(w, x) \in IntRq /\ u \in IntRq /\ Multiple(w, u) \in IntRq
  BY MultipleIs, RqInt, IntProductType DEF IntRq
<1>2. NegMul(a, Multiple(w, x)) = NegMul(a, d)
  <2>1. ASSUME NEW p \in Coeff PROVE Multiple(w, x)[p] % Q = d[p] % Q
    <3>1. d[p] \in Int /\ Multiple(w, x)[p] = d[p] % Q
      BY <1>1 DEF IntRq, Multiple
    <3>2. d[p] % Q \in Fp /\ d[p] % Q \in Int
      BY <3>1, ModSmall, RingAssumption DEF Fp
    <3>. QED BY <3>1, <3>2, ModSmall
  <2>. QED BY <1>1, <2>1, ProductResidue
<1>3. ASSUME NEW p \in Coeff PROVE NegMul(a, d)[p] = Multiple(w, u)[p]
  <2>. DEFINE f == Term(a, x, p)
              h == Term(a, d, p)
              s == SumFunctionOnSet(f, Coeff)
  <2>1. \A k \in Coeff : f[k] \in Int
    BY ProductIs
  <2>2. ASSUME NEW k \in Coeff PROVE h[k] = w * f[k]
    <3>. DEFINE m == x[Source(k, p)]
                e == a[k] * m
    <3>1. m \in Int /\ a[k] \in Int /\ d[Source(k, p)] = w * m
      BY SourceRange DEF IntRq
    <3>2. a[k] * (w * m) = w * e /\ e \in Int /\ w * (-e) = -(w * e)
      BY <3>1
    <3>3. h[k] = IF p < k THEN -(a[k] * d[Source(k, p)]) ELSE a[k] * d[Source(k, p)]
      BY DEF Term
    <3>4. f[k] = (IF p < k THEN -e ELSE e)
      BY DEF Term
    <3>. HIDE DEF f, h, d, m, e
    <3>. QED BY <3>1, <3>2, <3>3, <3>4
  <2>3. s \in Int /\ u[p] = s % Q
    BY ProductIs
  <2>4. NegMul(a, d)[p] = SumFunctionOnSet(h, Coeff) % Q
    BY <1>1, ProductIs
  <2>. HIDE DEF f, h
  <2>5. SumFunctionOnSet(h, Coeff) = w * s
    BY <2>1, <2>2, CoeffFacts, SumScale
  <2>6. Multiple(w, u)[p] = (w * (s % Q)) % Q
    BY <2>3 DEF Multiple
  <2>. HIDE DEF s
  <2>7. s % Q \in Int
    BY <2>3, ModSmall, RingAssumption DEF Fp
  <2>8. ((s % Q) * w) % Q = (s * w) % Q
    BY <2>3, ModScale
  <2>. DEFINE r == s % Q
  <2>9. r * w = w * r /\ s * w = w * s
    <3>. HIDE DEF r
    <3>. QED BY <2>3, <2>7 DEF r
  <2>. QED BY <2>4, <2>5, <2>6, <2>8, <2>9
<1>. HIDE DEF d, u
<1>4. NegMul(a, d) = Multiple(w, u)
  BY <1>1, <1>3, ProductEqual
<1>. QED BY <1>2, <1>4 DEF u

(* A difference of residues is the residue of the difference.               *)
LEMMA ModDifference ==
  ASSUME NEW s \in Int, NEW t \in Int
  PROVE  ((s % Q) - (t % Q)) % Q = (s - t) % Q
<1>. DEFINE a == s % Q
            b == t % Q
<1>1. a \in Int /\ b \in Int
  BY ModSmall, RingAssumption DEF Fp
<1>2. (a + (-b)) % Q = (s + (-b)) % Q
  <2>1. -b \in Int
    BY <1>1
  <2>. QED BY <2>1, ModAdd
<1>3. (b * (-1)) % Q = (t * (-1)) % Q
  BY ModScale
<1>4. b * (-1) = -b /\ t * (-1) = -t
  <2>. HIDE DEF b
  <2>. QED BY <1>1
<1>5. (s + ((-b) % Q)) % Q = (s + (-b)) % Q
  BY <1>1, ModAdd
<1>6. (s + ((-t) % Q)) % Q = (s + (-t)) % Q
  BY ModAdd
<1>7. s + (-t) = s - t /\ a + (-b) = a - b
  <2>. HIDE DEF a, b
  <2>. QED BY <1>1
<1>. QED BY <1>2, <1>3, <1>4, <1>5, <1>6, <1>7

LEMMA SumOfDifference ==
  ASSUME NEW S, IsFiniteSet(S), NEW F \in [S -> IntRq], NEW G \in [S -> IntRq]
  PROVE  SumOf([i \in S |-> Difference(F[i], G[i])], S) = Difference(SumOf(F, S), SumOf(G, S))
<1>. DEFINE D == [i \in S |-> Difference(F[i], G[i])]
<1>1. ASSUME NEW p \in Coeff PROVE SumOf(D, S)[p] = Difference(SumOf(F, S), SumOf(G, S))[p]
  <2>. DEFINE f == [i \in S |-> F[i][p]]
              g == [i \in S |-> G[i][p]]
              h == [i \in S |-> f[i] - g[i]]
              d == [i \in S |-> D[i][p]]
              s == SumFunctionOnSet(f, S)
              t == SumFunctionOnSet(g, S)
  <2>1. \A i \in S : f[i] \in Int /\ g[i] \in Int
    BY DEF IntRq
  <2>2. SumOf(F, S)[p] = s % Q /\ SumOf(G, S)[p] = t % Q /\ SumOf(D, S)[p] = SumFunctionOnSet(d, S) % Q
    BY DEF SumOf
  <2>3. \A i \in S : d[i] = h[i] % Q /\ h[i] = f[i] - g[i]
    BY DEF Difference
  <2>4. Difference(SumOf(F, S), SumOf(G, S))[p] = (SumOf(F, S)[p] - SumOf(G, S)[p]) % Q
    BY DEF Difference
  <2>. HIDE DEF f, g, h, d, D
  <2>5. s \in Int /\ t \in Int
    BY <2>1, SumInt
  <2>6. SumFunctionOnSet(h, S) = s - t
    BY <2>1, <2>3, SumDifference
  <2>7. ASSUME NEW i \in S PROVE d[i] \in Int /\ h[i] \in Int /\ d[i] % Q = h[i] % Q
    <3>1. h[i] \in Int /\ d[i] = h[i] % Q
      BY <2>1, <2>3
    <3>2. d[i] \in Fp /\ d[i] \in Int
      BY <3>1, ModSmall, RingAssumption DEF Fp
    <3>. QED BY <3>1, <3>2, ModSmall
  <2>8. SumFunctionOnSet(d, S) % Q = SumFunctionOnSet(h, S) % Q
    BY <2>7, SumModEqual
  <2>. HIDE DEF s, t
  <2>9. ((s % Q) - (t % Q)) % Q = (s - t) % Q
    BY <2>5, ModDifference
  <2>. QED BY <2>2, <2>4, <2>6, <2>8, <2>9
<1>. QED BY <1>1 DEF SumOf, Difference

-----------------------------------------------------------------------------
(* VECTORS OF RING ELEMENTS *)

LEMMA SeqEntries ==
  ASSUME NEW v \in Seq(Rq)
  PROVE  /\ Len(v) \in Nat /\ DOMAIN v = 1 .. Len(v) /\ IsFiniteSet(1 .. Len(v))
         /\ \A i \in 1 .. Len(v) : v[i] \in Rq /\ v[i] \in IntRq
         /\ v \in [1 .. Len(v) -> Rq]
<1>1. Len(v) \in Nat /\ DOMAIN v = 1 .. Len(v) /\ v \in [1 .. Len(v) -> Rq]
  BY LenProperties
<1>2. IsFiniteSet(1 .. Len(v))
  BY <1>1, FS_Interval
<1>. QED BY <1>1, <1>2, RqInt

LEMMA LeastFacts ==
  ASSUME NEW m \in Nat, NEW n \in Nat
  PROVE  /\ Least(m, n) \in Nat /\ Least(m, n) <= m /\ Least(m, n) <= n
         /\ (m = n => Least(m, n) = m)
         /\ IsFiniteSet(1 .. Least(m, n))
<1>1. Least(m, n) \in Nat /\ Least(m, n) <= m /\ Least(m, n) <= n /\ (m = n => Least(m, n) = m)
  BY DEF Least
<1>. QED BY <1>1, FS_Interval

(* The product of a row and a column.                                       *)
LEMMA DotIs ==
  ASSUME NEW u \in Seq(Rq), NEW v \in Seq(Rq)
  PROVE  LET I == 1 .. Least(Len(u), Len(v))
         IN  /\ IsFiniteSet(I)
             /\ \A i \in I : i \in 1 .. Len(u) /\ i \in 1 .. Len(v)
             /\ \A i \in I : u[i] \in IntRq /\ v[i] \in IntRq
             /\ [i \in I |-> NegMul(u[i], v[i])] \in [I -> IntRq]
             /\ Dot(u, v) = SumOf([i \in I |-> NegMul(u[i], v[i])], I)
             /\ Dot(u, v) \in Rq
<1>. DEFINE m == Least(Len(u), Len(v))
            I == 1 .. m
            F == [i \in I |-> NegMul(u[i], v[i])]
<1>1. Len(u) \in Nat /\ Len(v) \in Nat
  BY SeqEntries
<1>2. m \in Nat /\ m <= Len(u) /\ m <= Len(v) /\ IsFiniteSet(I)
  BY <1>1, LeastFacts
<1>3. \A i \in I : i \in 1 .. Len(u) /\ i \in 1 .. Len(v)
  <2>. HIDE DEF m
  <2>. QED BY <1>1, <1>2
<1>4. \A i \in I : u[i] \in IntRq /\ v[i] \in IntRq
  BY <1>3, SeqEntries
<1>5. F \in [I -> IntRq]
  BY <1>4, IntProductType
<1>6. Dot(u, v) = SumOf(F, I)
  <2>1. \A p \in Coeff : LET f == [i \in I |-> NegMul(u[i], v[i])[p]]
                         IN  SumFunction(f) = SumFunctionOnSet(f, I)
    BY DEF SumFunction
  <2>2. \A p \in Coeff : [i \in I |-> NegMul(u[i], v[i])[p]] = [i \in I |-> F[i][p]]
    OBVIOUS
  <2>3. Dot(u, v) = [p \in Coeff |-> SumFunction([i \in I |-> NegMul(u[i], v[i])[p]]) % Q]
    BY StoredIs DEF Dot, SumRq
  <2>. HIDE DEF F
  <2>. QED BY <2>1, <2>2, <2>3 DEF SumOf
<1>7. SumOf(F, I) \in Rq
  <2>. HIDE DEF F, I
  <2>. QED BY <1>2, <1>5, SumOfFacts
<1>. QED BY <1>2, <1>3, <1>4, <1>5, <1>6, <1>7

LEMMA MatVecIs ==
  ASSUME NEW A \in Seq(Seq(Rq)), NEW v \in Seq(Rq)
  PROVE  /\ Len(A) \in Nat /\ DOMAIN A = 1 .. Len(A)
         /\ \A i \in 1 .. Len(A) : A[i] \in Seq(Rq)
         /\ MatVec(A, v) = [i \in 1 .. Len(A) |-> Dot(A[i], v)]
         /\ MatVec(A, v) \in Seq(Rq) /\ Len(MatVec(A, v)) = Len(A)
<1>1. Len(A) \in Nat /\ DOMAIN A = 1 .. Len(A) /\ \A i \in 1 .. Len(A) : A[i] \in Seq(Rq)
  BY LenProperties, ElementOfSeq
<1>. DEFINE w == [i \in 1 .. Len(A) |-> Dot(A[i], v)]
<1>2. \A i \in 1 .. Len(A) : Dot(A[i], v) \in Rq
  BY <1>1, DotIs
<1>3. w \in [1 .. Len(A) -> Rq]
  BY <1>2
<1>4. MatVec(A, v) = StoredVec(w)
  BY <1>1 DEF MatVec
<1>. HIDE DEF w
<1>5. StoredVec(w) = w /\ w \in Seq(Rq) /\ Len(w) = Len(A)
  BY <1>1, <1>3, StoredVecIs
<1>. QED BY <1>1, <1>4, <1>5 DEF w

LEMMA ScaledVecIs ==
  ASSUME NEW c \in Rq, NEW v \in Seq(Rq)
  PROVE  /\ ScaledVec(c, v) = [i \in 1 .. Len(v) |-> NegMul(c, v[i])]
         /\ ScaledVec(c, v) \in Seq(Rq) /\ Len(ScaledVec(c, v)) = Len(v)
<1>. DEFINE w == [i \in 1 .. Len(v) |-> NegMul(c, v[i])]
<1>1. Len(v) \in Nat /\ DOMAIN v = 1 .. Len(v)
  BY SeqEntries
<1>2. \A i \in 1 .. Len(v) : NegMul(c, v[i]) \in Rq
  BY SeqEntries, ProductType
<1>3. w \in [1 .. Len(v) -> Rq]
  BY <1>2
<1>4. ScaledVec(c, v) = StoredVec(w)
  BY <1>1 DEF ScaledVec
<1>. HIDE DEF w
<1>5. StoredVec(w) = w /\ w \in Seq(Rq) /\ Len(w) = Len(v)
  BY <1>1, <1>3, StoredVecIs
<1>. QED BY <1>4, <1>5 DEF w

(* A row times a scaled column, and times a difference of columns.          *)
LEMMA DotOfScaled ==
  ASSUME NEW c \in Rq, NEW u \in Seq(Rq), NEW v \in Seq(Rq)
  PROVE  Dot(u, ScaledVec(c, v)) = NegMul(c, Dot(u, v))
<1>. DEFINE w == ScaledVec(c, v)
            I == 1 .. Least(Len(u), Len(v))
            F == [i \in I |-> NegMul(u[i], v[i])]
            G == [i \in I |-> NegMul(u[i], w[i])]
            H == [i \in I |-> NegMul(c, F[i])]
<1>1. c \in IntRq /\ w \in Seq(Rq) /\ Len(w) = Len(v) /\ w = [i \in 1 .. Len(v) |-> NegMul(c, v[i])]
  BY RqInt, ScaledVecIs
<1>2. IsFiniteSet(I) /\ F \in [I -> IntRq] /\ Dot(u, v) = SumOf(F, I)
      /\ \A i \in I : u[i] \in IntRq /\ v[i] \in IntRq
  BY DotIs
<1>3. Dot(u, w) = SumOf(G, I)
  BY <1>1, DotIs
<1>4. ASSUME NEW i \in I PROVE G[i] = H[i]
  <2>1. i \in 1 .. Len(v)
    BY DotIs
  <2>2. w[i] = NegMul(c, v[i])
    BY <1>1, <2>1
  <2>3. NegMul(u[i], NegMul(c, v[i])) = NegMul(c, NegMul(u[i], v[i]))
    BY <1>1, <1>2, ProductSwap
  <2>. QED BY <2>2, <2>3
<1>5. G = H
  BY <1>4
<1>. HIDE DEF F, I, w
<1>6. NegMul(c, SumOf(F, I)) = SumOf(H, I)
  BY <1>1, <1>2, ProductOfSum
<1>. QED BY <1>2, <1>3, <1>5, <1>6 DEF w

(* The difference of two vectors of a length.                               *)
DifferenceVec(v, w) == [i \in 1 .. Len(v) |-> Difference(v[i], w[i])]

LEMMA DifferenceVecIs ==
  ASSUME NEW v \in Seq(Rq), NEW w \in Seq(Rq), Len(v) = Len(w)
  PROVE  /\ DifferenceVec(v, w) \in Seq(Rq) /\ Len(DifferenceVec(v, w)) = Len(v)
         /\ \A i \in 1 .. Len(v) : DifferenceVec(v, w)[i] = Difference(v[i], w[i])
<1>1. Len(v) \in Nat /\ \A i \in 1 .. Len(v) : v[i] \in Rq /\ w[i] \in Rq
  BY SeqEntries
<1>2. \A i \in 1 .. Len(v) : Difference(v[i], w[i]) \in Rq
  BY <1>1, DifferenceIs, RqInt
<1>3. DifferenceVec(v, w) \in [1 .. Len(v) -> Rq]
  BY <1>2 DEF DifferenceVec
<1>4. DifferenceVec(v, w) \in Seq(Rq) /\ Len(DifferenceVec(v, w)) = Len(v)
  BY <1>1, <1>3
<1>. QED BY <1>4 DEF DifferenceVec

LEMMA DotOfDifference ==
  ASSUME NEW u \in Seq(Rq), NEW v \in Seq(Rq), NEW w \in Seq(Rq), Len(v) = Len(w)
  PROVE  Dot(u, DifferenceVec(v, w)) = Difference(Dot(u, v), Dot(u, w))
<1>. DEFINE d == DifferenceVec(v, w)
<1>0. d \in Seq(Rq) /\ Len(d) = Len(v) /\ \A i \in 1 .. Len(v) : d[i] = Difference(v[i], w[i])
  BY DifferenceVecIs
<1>. HIDE DEF d
<1>. DEFINE I == 1 .. Least(Len(u), Len(v))
            F == [i \in I |-> NegMul(u[i], v[i])]
            G == [i \in I |-> NegMul(u[i], w[i])]
            H == [i \in I |-> NegMul(u[i], d[i])]
            K == [i \in I |-> Difference(F[i], G[i])]
<1>1. IsFiniteSet(I) /\ F \in [I -> IntRq] /\ Dot(u, v) = SumOf(F, I)
      /\ \A i \in I : u[i] \in IntRq /\ v[i] \in IntRq
  BY DotIs
<1>2. G \in [I -> IntRq] /\ Dot(u, w) = SumOf(G, I) /\ \A i \in I : w[i] \in IntRq
  BY DotIs
<1>3. Dot(u, d) = SumOf(H, I)
  BY <1>0, DotIs
<1>4. ASSUME NEW i \in I PROVE H[i] = K[i]
  <2>1. i \in 1 .. Len(v)
    BY DotIs
  <2>2. NegMul(u[i], Difference(v[i], w[i])) = Difference(NegMul(u[i], v[i]), NegMul(u[i], w[i]))
    BY <1>1, <1>2, ProductOfDifference
  <2>. QED BY <1>0, <2>1, <2>2
<1>5. H = K
  BY <1>4
<1>. HIDE DEF F, G, I
<1>6. SumOf(K, I) = Difference(SumOf(F, I), SumOf(G, I))
  BY <1>1, <1>2, SumOfDifference
<1>. QED BY <1>1, <1>2, <1>3, <1>5, <1>6 DEF d

-----------------------------------------------------------------------------
(* NORMS *)

LEMMA SumLess ==
  ASSUME NEW S, IsFiniteSet(S), NEW f, NEW g,
         \A x \in S : f[x] \in Int /\ g[x] \in Int /\ f[x] <= g[x]
  PROVE  /\ SumFunctionOnSet(f, S) \in Int /\ SumFunctionOnSet(g, S) \in Int
         /\ SumFunctionOnSet(f, S) <= SumFunctionOnSet(g, S)
<1>. DEFINE h == [x \in S |-> g[x] - f[x]]
<1>1. \A x \in S : h[x] \in Nat /\ h[x] = g[x] - f[x]
  OBVIOUS
<1>. HIDE DEF h
<1>2. SumFunctionOnSet(h, S) \in Nat
  BY <1>1, SumNat
<1>3. SumFunctionOnSet(h, S) = SumFunctionOnSet(g, S) - SumFunctionOnSet(f, S)
  BY <1>1, SumDifference
<1>4. SumFunctionOnSet(f, S) \in Int /\ SumFunctionOnSet(g, S) \in Int
  BY SumInt
<1>. QED BY <1>2, <1>3, <1>4

LEMMA SquareNat ==
  ASSUME NEW a \in Int
  PROVE  a * a \in Nat
<1>1. CASE a >= 0
  BY <1>1
<1>2. CASE a <= 0
  <2>1. -a \in Nat
    BY <1>2
  <2>2. (-a) * (-a) = a * a
    OBVIOUS
  <2>. QED BY <2>1, <2>2
<1>. QED BY <1>1, <1>2

(* One step of the inequality of Cauchy and Schwarz.                        *)
LEMMA CrossTerm ==
  ASSUME NEW A \in Nat, NEW R \in Nat, NEW P \in Int, P * P <= A * R, NEW b \in Int
  PROVE  2 * (P * b) <= A * (b * b) + R
<1>1. b * b \in Nat /\ P * P \in Nat /\ P * b \in Int /\ A * (b * b) \in Nat /\ A * R \in Nat
  BY SquareNat
<1>2. CASE A = 0
  <2>1. P * P <= 0
    BY <1>1, <1>2
  <2>2. P = 0
    <3>1. P >= 1 => P * P >= 1
      OBVIOUS
    <3>2. P <= -1 => P * P >= 1
      <4>1. SUFFICES ASSUME P <= -1 PROVE P * P >= 1
        OBVIOUS
      <4>2. (-P) * (-P) >= 1
        BY <4>1
      <4>3. (-P) * (-P) = P * P
        OBVIOUS
      <4>. QED BY <4>2, <4>3
    <3>. QED BY <1>1, <2>1, <3>1, <3>2
  <2>. QED BY <1>1, <1>2, <2>2
<1>3. CASE A >= 1
  <2>. DEFINE x == A * (b * b) + R - 2 * (P * b)
              d == A * b - P
  <2>1. x \in Int /\ d \in Int
    BY <1>1
  <2>2. A * x = (A * b) * (A * b) + A * R - 2 * ((A * b) * P)
    OBVIOUS
  <2>3. d * d = (A * b) * (A * b) + P * P - 2 * ((A * b) * P)
    OBVIOUS
  <2>4. d * d \in Nat
    BY <2>1, SquareNat
  <2>5. A * x >= 0
    <3>. DEFINE y == (A * b) * (A * b)
                z == (A * b) * P
    <3>1. y \in Int /\ z \in Int
      OBVIOUS
    <3>. HIDE DEF x, d, y, z
    <3>. QED BY <1>1, <2>2, <2>3, <2>4, <3>1 DEF y, z
  <2>. HIDE DEF x
  <2>6. x >= 0
    <3>1. SUFFICES ASSUME x <= -1 PROVE FALSE
      BY <2>1
    <3>2. A * x <= A * (-1)
      BY <2>1, <3>1
    <3>. QED BY <1>3, <2>1, <2>5, <3>2
  <2>. QED BY <1>1, <2>6 DEF x
<1>. QED BY <1>2, <1>3

LEMMA CauchyStep ==
  ASSUME NEW A \in Nat, NEW R \in Nat, NEW P \in Int, P * P <= A * R,
         NEW a \in Nat, NEW b \in Int
  PROVE  /\ a + A \in Nat /\ a * (b * b) + R \in Nat /\ a * b + P \in Int
         /\ (a * b + P) * (a * b + P) <= (a + A) * (a * (b * b) + R)
<1>. DEFINE c == b * b
            s == P * b
<1>1. c \in Nat /\ s \in Int
  BY SquareNat
<1>2. 2 * s <= A * c + R
  BY CrossTerm
<1>3. (a * b + P) * (a * b + P) = a * (a * c) + 2 * (a * s) + P * P
  OBVIOUS
<1>4. (a + A) * (a * c + R) = a * (a * c) + a * (A * c + R) + A * R
  <2>. HIDE DEF c
  <2>. QED BY <1>1
<1>5. a * (2 * s) <= a * (A * c + R)
  <2>. DEFINE u == 2 * s
              w == A * c + R
  <2>1. u \in Int /\ w \in Int /\ u <= w
    BY <1>1, <1>2
  <2>. HIDE DEF u, w
  <2>2. a * u <= a * w
    BY <2>1
  <2>. QED BY <2>2 DEF u, w
<1>6. a * (2 * s) = 2 * (a * s) /\ a * s \in Int /\ a * (A * c + R) \in Int /\ A * R \in Int
      /\ a * (a * c) \in Int /\ P * P \in Int /\ a * c + R \in Nat /\ a * b + P \in Int
  BY <1>1
<1>7. (a * b + P) * (a * b + P) <= (a + A) * (a * c + R)
  <2>. DEFINE u == a * s
              w == a * (A * c + R)
              x == a * (a * c)
              y == A * R
              z == P * P
  <2>1. u \in Int /\ w \in Int /\ x \in Int /\ y \in Int /\ z \in Int /\ 2 * u <= w /\ z <= y
    BY <1>5, <1>6
  <2>. HIDE DEF u, w, x, y, z, c, s
  <2>2. x + 2 * u + z <= x + w + y
    BY <2>1
  <2>. QED BY <1>3, <1>4, <2>2 DEF u, w, x, y, z
<1>. QED BY <1>6, <1>7

LEMMA WeightedSquare ==
  ASSUME NEW S, IsFiniteSet(S), NEW a, NEW b, NEW f, NEW g,
         \A x \in S : a[x] \in Nat /\ b[x] \in Int /\ f[x] = a[x] * b[x] /\ g[x] = a[x] * (b[x] * b[x])
  PROVE  /\ SumFunctionOnSet(a, S) \in Nat /\ SumFunctionOnSet(g, S) \in Nat
         /\ SumFunctionOnSet(f, S) \in Int
         /\ SumFunctionOnSet(f, S) * SumFunctionOnSet(f, S)
              <= SumFunctionOnSet(a, S) * SumFunctionOnSet(g, S)
<1>. DEFINE A(U) == SumFunctionOnSet(a, U)
            R(U) == SumFunctionOnSet(g, U)
            P(U) == SumFunctionOnSet(f, U)
            G == { U \in SUBSET S : A(U) \in Nat /\ R(U) \in Nat /\ P(U) \in Int /\ P(U) * P(U) <= A(U) * R(U) }
<1>1. {} \in G
  <2>1. A({}) = 0 /\ R({}) = 0 /\ P({}) = 0
    BY SumEmpty
  <2>. HIDE DEF A, R, P
  <2>. QED BY <2>1
<1>2. ASSUME NEW V \in SUBSET S, V # {}, \A x \in V : V \ {x} \in G
      PROVE  V \in G
  <2>1. PICK x : x \in V
    BY <1>2
  <2>. DEFINE W == V \ {x}
  <2>2. IsFiniteSet(V)
    BY FS_Subset
  <2>3. \A y \in V : a[y] \in Int /\ f[y] \in Int /\ g[y] \in Int
    <3>1. ASSUME NEW y \in V PROVE a[y] \in Int /\ f[y] \in Int /\ g[y] \in Int
      <4>1. a[y] \in Nat /\ b[y] \in Int /\ f[y] = a[y] * b[y] /\ g[y] = a[y] * (b[y] * b[y])
        OBVIOUS
      <4>. QED BY <4>1
    <3>. QED BY <3>1
  <2>4. A(V) = a[x] + A(W) /\ R(V) = g[x] + R(W) /\ P(V) = f[x] + P(W)
    BY <2>1, <2>2, <2>3, SumRemove
  <2>5. A(W) \in Nat /\ R(W) \in Nat /\ P(W) \in Int /\ P(W) * P(W) <= A(W) * R(W)
    BY <1>2, <2>1
  <2>6. a[x] \in Nat /\ b[x] \in Int /\ f[x] = a[x] * b[x] /\ g[x] = a[x] * (b[x] * b[x])
    BY <2>1
  <2>. HIDE DEF A, R, P, W
  <2>7. /\ a[x] + A(W) \in Nat /\ a[x] * (b[x] * b[x]) + R(W) \in Nat /\ a[x] * b[x] + P(W) \in Int
        /\ (a[x] * b[x] + P(W)) * (a[x] * b[x] + P(W)) <= (a[x] + A(W)) * (a[x] * (b[x] * b[x]) + R(W))
    BY <2>5, <2>6, CauchyStep
  <2>8. A(V) \in Nat /\ R(V) \in Nat /\ P(V) \in Int /\ P(V) * P(V) <= A(V) * R(V)
    BY <2>4, <2>6, <2>7
  <2>. QED BY <2>8
<1>. HIDE DEF G
<1>3. \A U \in SUBSET S : U \in G
  BY <1>1, <1>2, SubsetInduction
<1>. QED BY <1>3 DEF G

(* The centred representatives of an element.                               *)
Cent(x) == [p \in Coeff |-> Centred(x[p])]

LEMMA CentIs ==
  ASSUME NEW x \in Rq
  PROVE  /\ Cent(x) \in IntRq
         /\ \A p \in Coeff : /\ Cent(x)[p] = Centred(x[p]) /\ Cent(x)[p] % Q = x[p] % Q
                             /\ Magnitude(x[p]) \in Nat
                             /\ Cent(x)[p] = Magnitude(x[p]) \/ Cent(x)[p] = -Magnitude(x[p])
                             /\ Cent(x)[p] * Cent(x)[p] = Magnitude(x[p]) * Magnitude(x[p])
<1>1. ASSUME NEW p \in Coeff
      PROVE  /\ Centred(x[p]) \in Int /\ Centred(x[p]) % Q = x[p] % Q
             /\ Magnitude(x[p]) \in Nat
             /\ Centred(x[p]) = Magnitude(x[p]) \/ Centred(x[p]) = -Magnitude(x[p])
             /\ Centred(x[p]) * Centred(x[p]) = Magnitude(x[p]) * Magnitude(x[p])
  <2>1. x[p] \in Fp /\ x[p] \in Int
    BY RqInt
  <2>2. /\ Magnitude(x[p]) \in Nat /\ Centred(x[p]) \in Int
        /\ (Centred(x[p]) + 0) % Q = (x[p] + 0) % Q
    BY <2>1, CentredFacts
  <2>3. Centred(x[p]) + 0 = Centred(x[p]) /\ x[p] + 0 = x[p]
    BY <2>1, <2>2
  <2>4. Centred(x[p]) = Magnitude(x[p]) \/ Centred(x[p]) = -Magnitude(x[p])
    BY DEF Centred
  <2>. DEFINE m == Magnitude(x[p])
  <2>5. (-m) * (-m) = m * m
    <3>. HIDE DEF m
    <3>. QED BY <2>2 DEF m
  <2>. QED BY <2>2, <2>3, <2>4, <2>5
<1>. QED BY <1>1 DEF Cent, IntRq

LEMMA CentredProduct ==
  ASSUME NEW c \in Rq, NEW x \in Rq
  PROVE  NegMul(c, x) = NegMul(Cent(c), Cent(x))
<1>1. c \in IntRq /\ x \in IntRq /\ Cent(c) \in IntRq /\ Cent(x) \in IntRq
  BY CentIs, RqInt
<1>2. NegMul(c, x) = NegMul(c, Cent(x))
  BY <1>1, CentIs, ProductResidue
<1>3. NegMul(c, Cent(x)) = NegMul(Cent(x), c) /\ NegMul(Cent(x), Cent(c)) = NegMul(Cent(c), Cent(x))
  BY <1>1, ProductCommutes
<1>4. NegMul(Cent(x), c) = NegMul(Cent(x), Cent(c))
  BY <1>1, CentIs, ProductResidue
<1>. QED BY <1>2, <1>3, <1>4

(* The magnitude of a residue is at most that of the number.                *)
LEMMA SquareLeast ==
  ASSUME NEW a \in Int
  PROVE  /\ Magnitude(a % Q) \in Nat
         /\ Magnitude(a % Q) * Magnitude(a % Q) <= a * a
<1>. DEFINE m == IF a >= 0 THEN a ELSE -a
            w == Magnitude(a % Q)
<1>1. m \in Nat /\ a <= m /\ -a <= m
  OBVIOUS
<1>2. w \in Nat /\ w <= m
  <2>. HIDE DEF m
  <2>. QED BY <1>1, MagnitudeLeast
<1>3. m * m = a * a
  <2>1. (-a) * (-a) = a * a
    OBVIOUS
  <2>. QED BY <2>1
<1>. HIDE DEF m, w
<1>4. w * w <= m * m
  BY <1>1, <1>2, SquareSmall
<1>. QED BY <1>2, <1>3, <1>4 DEF w

(* The norms are sums of naturals.                                          *)
LEMMA NormTypes ==
  ASSUME NEW x \in Rq
  PROVE  LET a == [p \in Coeff |-> Magnitude(x[p])]
             s == [p \in Coeff |-> Magnitude(x[p]) * Magnitude(x[p])]
         IN  /\ L1Norm(x) = SumFunctionOnSet(a, Coeff) /\ L1Norm(x) \in Nat
             /\ L2NormSq(x) = SumFunctionOnSet(s, Coeff) /\ L2NormSq(x) \in Nat
             /\ \A p \in Coeff : a[p] \in Nat /\ s[p] \in Nat
<1>. DEFINE a == [p \in Coeff |-> Magnitude(x[p])]
            s == [p \in Coeff |-> Magnitude(x[p]) * Magnitude(x[p])]
<1>1. \A p \in Coeff : a[p] \in Nat /\ s[p] \in Nat
  <2>1. ASSUME NEW p \in Coeff PROVE a[p] \in Nat /\ s[p] \in Nat
    <3>1. Magnitude(x[p]) \in Nat
      BY CentIs
    <3>. QED BY <3>1, SquareNat
  <2>. QED BY <2>1
<1>2. L1Norm(x) = SumFunctionOnSet(a, Coeff) /\ L2NormSq(x) = SumFunctionOnSet(s, Coeff)
  BY DEF L1Norm, L2NormSq, CenteredAbs, SumFunction
<1>. HIDE DEF a, s
<1>3. SumFunctionOnSet(a, Coeff) \in Nat /\ SumFunctionOnSet(s, Coeff) \in Nat
  BY <1>1, CoeffFacts, SumNat
<1>. QED BY <1>1, <1>2, <1>3 DEF a, s

(* Every position is moved somewhere by a shift.                            *)
LEMMA ShiftIsBijection ==
  ASSUME NEW k \in Coeff
  PROVE  /\ \A p, r \in Coeff : Source(k, p) = Source(k, r) => p = r
         /\ { Source(k, p) : p \in Coeff } = Coeff
<1>1. RING_DEGREE \in Nat \ {0} /\ k \in 0 .. (RING_DEGREE - 1)
  BY RingAssumption DEF Coeff
<1>2. ASSUME NEW p \in Coeff, NEW r \in Coeff, Source(k, p) = Source(k, r) PROVE p = r
  <2>1. p \in 0 .. (RING_DEGREE - 1) /\ r \in 0 .. (RING_DEGREE - 1)
    BY DEF Coeff
  <2>. QED BY <1>1, <1>2, <2>1 DEF Source
<1>3. ASSUME NEW j \in Coeff PROVE \E p \in Coeff : Source(k, p) = j
  <2>. DEFINE p == IF j + k <= RING_DEGREE - 1 THEN j + k ELSE j + k - RING_DEGREE
  <2>1. j \in 0 .. (RING_DEGREE - 1)
    BY DEF Coeff
  <2>2. p \in 0 .. (RING_DEGREE - 1) /\ Source(k, p) = j
    BY <1>1, <2>1 DEF Source
  <2>. QED BY <2>2 DEF Coeff
<1>. QED BY <1>2, <1>3, SourceRange

(* One coefficient of a product, squared.                                   *)
LEMMA ProductSquare ==
  ASSUME NEW c \in Rq, NEW x \in Rq, NEW p \in Coeff
  PROVE  LET a == [k \in Coeff |-> Magnitude(c[k])]
             s == [k \in Coeff |-> Magnitude(x[k]) * Magnitude(x[k])]
             g == [k \in Coeff |-> a[k] * s[Source(k, p)]]
             y == NegMul(c, x)[p]
         IN  /\ \A k \in Coeff : g[k] \in Nat
             /\ SumFunctionOnSet(g, Coeff) \in Nat
             /\ Magnitude(y) \in Nat
             /\ Magnitude(y) * Magnitude(y) <= L1Norm(c) * SumFunctionOnSet(g, Coeff)
<1>. DEFINE a == [k \in Coeff |-> Magnitude(c[k])]
            s == [k \in Coeff |-> Magnitude(x[k]) * Magnitude(x[k])]
            g == [k \in Coeff |-> a[k] * s[Source(k, p)]]
            C == Cent(c)
            X == Cent(x)
            b == [k \in Coeff |-> IF (C[k] = a[k]) = (p < k) THEN -X[Source(k, p)] ELSE X[Source(k, p)]]
            f == Term(C, X, p)
            t == SumFunctionOnSet(f, Coeff)
<1>1. C \in IntRq /\ X \in IntRq
  BY CentIs
<1>2. ASSUME NEW k \in Coeff
      PROVE  /\ a[k] \in Nat /\ b[k] \in Int /\ f[k] = a[k] * b[k] /\ g[k] = a[k] * (b[k] * b[k])
             /\ g[k] \in Nat
  <2>. DEFINE j == Source(k, p)
              z == X[j]
              w == C[k]
  <2>1. j \in Coeff
    BY SourceRange
  <2>2. z \in Int /\ z * z = s[j] /\ s[j] \in Nat
    <3>1. z \in Int /\ z * z = s[j]
      BY <1>1, <2>1, CentIs DEF IntRq
    <3>. QED BY <3>1, SquareNat
  <2>3. w \in Int /\ a[k] \in Nat /\ (w = a[k] \/ w = -a[k])
    BY <1>1, CentIs DEF IntRq
  <2>4. f[k] = IF p < k THEN -(w * z) ELSE w * z
    BY <2>1 DEF Term
  <2>5. b[k] = (IF (w = a[k]) = (p < k) THEN -z ELSE z) /\ g[k] = a[k] * s[j]
    OBVIOUS
  <2>6. (-z) * (-z) = z * z
    <3>. HIDE DEF z
    <3>. QED BY <2>2
  <2>. DEFINE m == a[k]
  <2>7. b[k] \in Int /\ b[k] * b[k] = s[j] /\ g[k] \in Nat
    <3>1. b[k] \in Int /\ b[k] * b[k] = z * z
      BY <2>2, <2>5, <2>6
    <3>2. m * s[j] \in Nat
      <4>. HIDE DEF m, s
      <4>. QED BY <2>2, <2>3 DEF m
    <3>. QED BY <2>2, <2>5, <3>1, <3>2
  <2>8. f[k] = m * b[k]
    <3>1. m * (-z) = -(m * z) /\ (-m) * z = -(m * z) /\ (-m) * (-z) = m * z /\ -(-(m * z)) = m * z
      <4>. HIDE DEF m, z
      <4>. QED BY <2>2, <2>3 DEF m
    <3>2. CASE w = m
      BY <2>4, <2>5, <3>1, <3>2
    <3>3. CASE w # m
      <4>1. w = -m
        BY <2>3, <3>3
      <4>2. f[k] = IF p < k THEN -((-m) * z) ELSE (-m) * z
        BY <2>4, <4>1
      <4>3. b[k] = IF p < k THEN z ELSE -z
        BY <2>5, <3>3
      <4>. HIDE DEF m, z, b, f
      <4>. QED BY <3>1, <4>2, <4>3
    <3>. QED BY <3>2, <3>3
  <2>9. g[k] = m * (b[k] * b[k])
    BY <2>5, <2>7
  <2>. QED BY <2>3, <2>7, <2>8, <2>9
<1>3. SumFunctionOnSet(a, Coeff) = L1Norm(c)
  BY NormTypes
<1>4. NegMul(c, x)[p] = t % Q /\ t \in Int
  BY <1>1, CentredProduct, ProductIs
<1>. HIDE DEF a, b, f, g, t
<1>5. /\ SumFunctionOnSet(a, Coeff) \in Nat /\ SumFunctionOnSet(g, Coeff) \in Nat
      /\ SumFunctionOnSet(f, Coeff) \in Int
      /\ SumFunctionOnSet(f, Coeff) * SumFunctionOnSet(f, Coeff)
           <= SumFunctionOnSet(a, Coeff) * SumFunctionOnSet(g, Coeff)
  <2>1. \A k \in Coeff : a[k] \in Nat /\ b[k] \in Int /\ f[k] = a[k] * b[k] /\ g[k] = a[k] * (b[k] * b[k])
    BY <1>2
  <2>2. IsFiniteSet(Coeff)
    BY CoeffFacts
  <2>. QED BY <2>1, <2>2, WeightedSquare, Zenon
<1>6. t * t <= L1Norm(c) * SumFunctionOnSet(g, Coeff)
  BY <1>3, <1>5 DEF t
<1>. DEFINE m == Magnitude(t % Q)
            R == L1Norm(c) * SumFunctionOnSet(g, Coeff)
<1>7. m \in Nat /\ m * m <= t * t
  BY <1>4, SquareLeast
<1>8. R \in Nat /\ t * t \in Int
  BY <1>3, <1>4, <1>5
<1>9. m * m <= R
  <2>. HIDE DEF m, R
  <2>1. m * m \in Int
    BY <1>7
  <2>. QED BY <1>6, <1>7, <1>8, <2>1 DEF R
<1>. QED BY <1>2, <1>4, <1>5, <1>7, <1>9 DEF a, g

(* The shifts of an element have its norm; so has the sum of a row of them. *)
LEMMA ShiftedNorm ==
  ASSUME NEW k \in Coeff, NEW s, \A p \in Coeff : s[p] \in Nat, NEW w \in Nat,
         NEW g, \A p \in Coeff : g[p] = w * s[Source(k, p)]
  PROVE  /\ SumFunctionOnSet(s, Coeff) \in Nat
         /\ SumFunctionOnSet(g, Coeff) = SumFunctionOnSet(s, Coeff) * w
<1>. DEFINE h == [p \in Coeff |-> Source(k, p)]
            t == [p \in Coeff |-> s[h[p]]]
<1>1. \A p, r \in Coeff : h[p] = h[r] => p = r
  BY ShiftIsBijection
<1>2. { h[p] : p \in Coeff } = Coeff
  <2>1. { h[p] : p \in Coeff } = { Source(k, p) : p \in Coeff }
    OBVIOUS
  <2>. QED BY <2>1, ShiftIsBijection
<1>3. \A p \in Coeff : s[h[p]] \in Int /\ t[p] = s[h[p]]
  BY SourceRange
<1>4. \A p \in Coeff : t[p] \in Int /\ g[p] = w * t[p]
  BY SourceRange
<1>. HIDE DEF h, t
<1>5. SumFunctionOnSet(t, Coeff) = SumFunctionOnSet(s, { h[p] : p \in Coeff })
  BY <1>1, <1>3, CoeffFacts, SumReindex
<1>6. SumFunctionOnSet(g, Coeff) = w * SumFunctionOnSet(t, Coeff)
  BY <1>4, CoeffFacts, SumScale
<1>7. SumFunctionOnSet(s, Coeff) \in Nat
  BY CoeffFacts, SumNat
<1>. DEFINE z == SumFunctionOnSet(s, Coeff)
<1>8. w * z = z * w /\ z \in Nat
  <2>. HIDE DEF z
  <2>. QED BY <1>7 DEF z
<1>. QED BY <1>2, <1>5, <1>6, <1>8

(* The l2 norm of a product is at most the l1 norm of one factor times the  *)
(* l2 norm of the other.                                                    *)
LEMMA ProductNorm ==
  ASSUME NEW c \in Rq, NEW x \in Rq
  PROVE  /\ L1Norm(c) \in Nat /\ L2NormSq(x) \in Nat
         /\ L2NormSq(NegMul(c, x)) \in Nat
         /\ L2NormSq(NegMul(c, x)) <= L1Norm(c) * (L1Norm(c) * L2NormSq(x))
<1>. DEFINE a == [k \in Coeff |-> Magnitude(c[k])]
            s == [k \in Coeff |-> Magnitude(x[k]) * Magnitude(x[k])]
            y == NegMul(c, x)
            m == [p \in Coeff |-> Magnitude(y[p]) * Magnitude(y[p])]
            f == [p \in Coeff |-> [k \in Coeff |-> a[k] * s[Source(k, p)]]]
            g == [k \in Coeff |-> [p \in Coeff |-> a[k] * s[Source(k, p)]]]
            r == [p \in Coeff |-> SumFunctionOnSet(f[p], Coeff)]
            d == [k \in Coeff |-> SumFunctionOnSet(g[k], Coeff)]
            A == L1Norm(c)
            B == L2NormSq(x)
            b == [p \in Coeff |-> A * r[p]]
<1>1. /\ A = SumFunctionOnSet(a, Coeff) /\ A \in Nat /\ \A k \in Coeff : a[k] \in Nat
      /\ B = SumFunctionOnSet(s, Coeff) /\ B \in Nat /\ \A k \in Coeff : s[k] \in Nat
  <2>1. A = SumFunctionOnSet(a, Coeff) /\ A \in Nat /\ \A k \in Coeff : a[k] \in Nat
    BY NormTypes
  <2>2. B = SumFunctionOnSet(s, Coeff) /\ B \in Nat /\ \A k \in Coeff : s[k] \in Nat
    BY NormTypes
  <2>. QED BY <2>1, <2>2
<1>2. /\ L2NormSq(y) = SumFunctionOnSet(m, Coeff) /\ L2NormSq(y) \in Nat
      /\ \A p \in Coeff : m[p] \in Nat
  <2>1. y \in Rq
    BY ProductType
  <2>. HIDE DEF y
  <2>. QED BY <2>1, NormTypes
<1>3. ASSUME NEW p \in Coeff
      PROVE  /\ \A k \in Coeff : f[p][k] \in Nat /\ f[p][k] \in Int
             /\ r[p] \in Nat /\ m[p] <= b[p]
  <2>. DEFINE e == [k \in Coeff |-> a[k] * s[Source(k, p)]]
  <2>1. /\ \A k \in Coeff : e[k] \in Nat
        /\ SumFunctionOnSet(e, Coeff) \in Nat
        /\ Magnitude(y[p]) \in Nat
        /\ Magnitude(y[p]) * Magnitude(y[p]) <= A * SumFunctionOnSet(e, Coeff)
    BY ProductSquare
  <2>2. f[p] = e /\ r[p] = SumFunctionOnSet(f[p], Coeff)
        /\ m[p] = Magnitude(y[p]) * Magnitude(y[p]) /\ b[p] = A * r[p]
    OBVIOUS
  <2>. HIDE DEF e, f, r, m, b, A, y
  <2>. QED BY <2>1, <2>2
<1>4. ASSUME NEW k \in Coeff PROVE a[k] \in Int /\ d[k] = B * a[k]
  <2>. DEFINE e == g[k]
              w == a[k]
  <2>1. \A p \in Coeff : e[p] = w * s[Source(k, p)]
    OBVIOUS
  <2>2. w \in Nat
    BY <1>1
  <2>. HIDE DEF e, s, w
  <2>3. SumFunctionOnSet(e, Coeff) = SumFunctionOnSet(s, Coeff) * w
    BY <1>1, <2>1, <2>2, ShiftedNorm
  <2>. QED BY <1>1, <2>2, <2>3 DEF e, w
<1>5. SumFunctionOnSet(r, Coeff) = SumFunctionOnSet(d, Coeff)
  <2>1. \A p \in Coeff, k \in Coeff : f[p][k] \in Int
    BY <1>3
  <2>2. \A p \in Coeff, k \in Coeff : g[k][p] = f[p][k]
    OBVIOUS
  <2>3. \A p \in Coeff : r[p] = SumFunctionOnSet(f[p], Coeff)
    OBVIOUS
  <2>4. \A k \in Coeff : d[k] = SumFunctionOnSet(g[k], Coeff)
    OBVIOUS
  <2>. HIDE DEF f, g, r, d
  <2>. QED BY <2>1, <2>2, <2>3, <2>4, CoeffFacts, SumExchange
<1>6. SumFunctionOnSet(d, Coeff) = B * A
  <2>1. \A k \in Coeff : a[k] \in Int /\ d[k] = B * a[k]
    BY <1>4
  <2>. HIDE DEF d, a
  <2>2. SumFunctionOnSet(d, Coeff) = B * SumFunctionOnSet(a, Coeff)
    BY <1>1, <2>1, CoeffFacts, SumScale
  <2>. QED BY <1>1, <2>2
<1>7. SumFunctionOnSet(b, Coeff) = A * SumFunctionOnSet(r, Coeff)
  <2>1. \A p \in Coeff : r[p] \in Int /\ b[p] = A * r[p]
    BY <1>3
  <2>2. A \in Int
    BY <1>1
  <2>. HIDE DEF b, r, A
  <2>. QED BY <2>1, <2>2, CoeffFacts, SumScale
<1>8. SumFunctionOnSet(m, Coeff) <= SumFunctionOnSet(b, Coeff)
  <2>1. \A p \in Coeff : m[p] \in Int /\ b[p] \in Int /\ m[p] <= b[p]
    <3>1. ASSUME NEW p \in Coeff PROVE m[p] \in Int /\ b[p] \in Int /\ m[p] <= b[p]
      <4>1. r[p] \in Nat /\ m[p] <= b[p] /\ m[p] \in Nat
        BY <1>2, <1>3
      <4>2. b[p] = A * r[p]
        OBVIOUS
      <4>. HIDE DEF r, b, m
      <4>3. A * r[p] \in Nat
        BY <1>1, <4>1
      <4>. QED BY <4>1, <4>2, <4>3
    <3>. QED BY <3>1
  <2>. HIDE DEF m, b
  <2>. QED BY <2>1, CoeffFacts, SumLess
<1>9. B * A = A * B /\ A * B \in Nat
  <2>. HIDE DEF A, B
  <2>. QED BY <1>1
<1>. QED BY <1>1, <1>2, <1>5, <1>6, <1>7, <1>8, <1>9

LEMMA SquareOfDifference ==
  ASSUME NEW a \in Int, NEW b \in Int
  PROVE  (a - b) * (a - b) <= 2 * (a * a) + 2 * (b * b)
<1>1. (a + b) * (a + b) \in Nat
  <2>1. a + b \in Int
    OBVIOUS
  <2>. QED BY <2>1, SquareNat
<1>2. (a - b) * (a - b) + (a + b) * (a + b) = 2 * (a * a) + 2 * (b * b)
  OBVIOUS
<1>. DEFINE x == (a - b) * (a - b)
            y == (a + b) * (a + b)
            z == 2 * (a * a) + 2 * (b * b)
<1>3. x \in Int /\ z \in Int
  OBVIOUS
<1>. HIDE DEF x, y, z
<1>4. y \in Nat /\ x + y = z
  BY <1>1, <1>2 DEF x, y, z
<1>5. x <= z
  BY <1>3, <1>4
<1>. QED BY <1>5 DEF x, z

(* The coefficient of a difference is a residue of the difference of the    *)
(* centred coefficients.                                                    *)
LEMMA CentredDifference ==
  ASSUME NEW x \in Rq, NEW y \in Rq, NEW p \in Coeff
  PROVE  LET d == Cent(x)[p] - Cent(y)[p]
         IN  d \in Int /\ Difference(x, y)[p] = d % Q
<1>. DEFINE a == Cent(x)[p]
            b == Cent(y)[p]
<1>1. a \in Int /\ b \in Int /\ a % Q = x[p] % Q /\ b % Q = y[p] % Q
  BY CentIs DEF IntRq
<1>2. x[p] \in Int /\ y[p] \in Int
  BY RqInt
<1>3. ((a % Q) - (b % Q)) % Q = (a - b) % Q
  BY <1>1, ModDifference
<1>4. ((x[p] % Q) - (y[p] % Q)) % Q = (x[p] - y[p]) % Q
  BY <1>2, ModDifference
<1>5. a - b \in Int
  BY <1>1
<1>. QED BY <1>1, <1>3, <1>4, <1>5 DEF Difference

LEMMA DifferenceNorm ==
  ASSUME NEW x \in Rq, NEW y \in Rq
  PROVE  /\ L2NormSq(x) \in Nat /\ L2NormSq(y) \in Nat /\ L2NormSq(Difference(x, y)) \in Nat
         /\ L2NormSq(Difference(x, y)) <= 2 * L2NormSq(x) + 2 * L2NormSq(y)
<1>. DEFINE d == Difference(x, y)
            sx == [p \in Coeff |-> Magnitude(x[p]) * Magnitude(x[p])]
            sy == [p \in Coeff |-> Magnitude(y[p]) * Magnitude(y[p])]
            sd == [p \in Coeff |-> Magnitude(d[p]) * Magnitude(d[p])]
            tx == [p \in Coeff |-> 2 * sx[p]]
            ty == [p \in Coeff |-> 2 * sy[p]]
            b == [p \in Coeff |-> tx[p] + ty[p]]
<1>1. L2NormSq(x) = SumFunctionOnSet(sx, Coeff) /\ L2NormSq(x) \in Nat /\ \A p \in Coeff : sx[p] \in Nat
  BY NormTypes
<1>2. L2NormSq(y) = SumFunctionOnSet(sy, Coeff) /\ L2NormSq(y) \in Nat /\ \A p \in Coeff : sy[p] \in Nat
  BY NormTypes
<1>3. L2NormSq(d) = SumFunctionOnSet(sd, Coeff) /\ L2NormSq(d) \in Nat /\ \A p \in Coeff : sd[p] \in Nat
  <2>1. d \in Rq
    BY DifferenceIs, RqInt
  <2>. HIDE DEF d
  <2>. QED BY <2>1, NormTypes
<1>4. ASSUME NEW p \in Coeff PROVE sd[p] <= b[p]
  <2>. DEFINE a == Cent(x)[p]
              c == Cent(y)[p]
              m == Magnitude((a - c) % Q)
  <2>1. a \in Int /\ c \in Int /\ a * a = sx[p] /\ c * c = sy[p]
    BY CentIs DEF IntRq
  <2>2. a - c \in Int /\ d[p] = (a - c) % Q
    BY CentredDifference
  <2>3. m \in Nat /\ m * m <= (a - c) * (a - c)
    <3>. DEFINE e == a - c
    <3>. HIDE DEF e
    <3>1. Magnitude(e % Q) \in Nat /\ Magnitude(e % Q) * Magnitude(e % Q) <= e * e
      BY <2>2, SquareLeast DEF e
    <3>. QED BY <3>1 DEF e
  <2>4. (a - c) * (a - c) <= 2 * (a * a) + 2 * (c * c)
    BY <2>1, SquareOfDifference
  <2>5. sd[p] = m * m
    BY <2>2
  <2>6. b[p] = 2 * (a * a) + 2 * (c * c)
    BY <2>1
  <2>7. m * m \in Int /\ (a - c) * (a - c) \in Int /\ 2 * (a * a) + 2 * (c * c) \in Int
    <3>. HIDE DEF m, a, c
    <3>. QED BY <2>1, <2>2, <2>3
  <2>. DEFINE u == m * m
              v == (a - c) * (a - c)
              w == 2 * (a * a) + 2 * (c * c)
  <2>. HIDE DEF u, v, w
  <2>8. u <= w
    BY <2>3, <2>4, <2>7 DEF u, v, w
  <2>. QED BY <2>5, <2>6, <2>8 DEF u, w
<1>5. \A p \in Coeff : /\ sx[p] \in Int /\ tx[p] = 2 * sx[p]
                       /\ sy[p] \in Int /\ ty[p] = 2 * sy[p]
                       /\ tx[p] \in Int /\ ty[p] \in Int /\ b[p] = tx[p] + ty[p]
  BY <1>1, <1>2
<1>6. \A p \in Coeff : sd[p] \in Int /\ b[p] \in Int /\ sd[p] <= b[p]
  BY <1>3, <1>4, <1>5
<1>. HIDE DEF sx, sy, sd, tx, ty, b, d
<1>7. SumFunctionOnSet(tx, Coeff) = 2 * SumFunctionOnSet(sx, Coeff)
  <2>1. \A p \in Coeff : sx[p] \in Int /\ tx[p] = 2 * sx[p]
    BY <1>5
  <2>. QED BY <2>1, CoeffFacts, SumScale
<1>8. SumFunctionOnSet(ty, Coeff) = 2 * SumFunctionOnSet(sy, Coeff)
  <2>1. \A p \in Coeff : sy[p] \in Int /\ ty[p] = 2 * sy[p]
    BY <1>5
  <2>. QED BY <2>1, CoeffFacts, SumScale
<1>9. SumFunctionOnSet(b, Coeff) = SumFunctionOnSet(tx, Coeff) + SumFunctionOnSet(ty, Coeff)
  <2>1. \A p \in Coeff : tx[p] \in Int /\ ty[p] \in Int /\ b[p] = tx[p] + ty[p]
    BY <1>5
  <2>. QED BY <2>1, CoeffFacts, SumPlus
<1>10. SumFunctionOnSet(sd, Coeff) <= SumFunctionOnSet(b, Coeff)
  BY <1>6, CoeffFacts, SumLess
<1>. QED BY <1>1, <1>2, <1>3, <1>7, <1>8, <1>9, <1>10 DEF d

-----------------------------------------------------------------------------
(* The norms of vectors.                                                    *)
LEMMA VecNorm ==
  ASSUME NEW v \in Seq(Rq)
  PROVE  LET s == [i \in 1 .. Len(v) |-> L2NormSq(v[i])]
         IN  /\ VecL2NormSq(v) = SumFunctionOnSet(s, 1 .. Len(v)) /\ VecL2NormSq(v) \in Nat
             /\ IsFiniteSet(1 .. Len(v))
             /\ \A i \in 1 .. Len(v) : s[i] \in Nat /\ v[i] \in Rq
<1>. DEFINE I == 1 .. Len(v)
            s == [i \in I |-> L2NormSq(v[i])]
<1>1. DOMAIN v = I /\ IsFiniteSet(I) /\ \A i \in I : v[i] \in Rq
  BY SeqEntries
<1>2. VecL2NormSq(v) = SumFunctionOnSet(s, I)
  BY <1>1 DEF VecL2NormSq, SumFunction
<1>3. \A i \in I : s[i] \in Nat
  BY <1>1, NormTypes
<1>. HIDE DEF s, I
<1>4. SumFunctionOnSet(s, I) \in Nat
  BY <1>1, <1>3, SumNat
<1>. QED BY <1>1, <1>2, <1>3, <1>4 DEF s, I

LEMMA ScaledNorm ==
  ASSUME NEW c \in Rq, NEW v \in Seq(Rq)
  PROVE  /\ L1Norm(c) \in Nat /\ VecL2NormSq(v) \in Nat /\ VecL2NormSq(ScaledVec(c, v)) \in Nat
         /\ VecL2NormSq(ScaledVec(c, v)) <= L1Norm(c) * (L1Norm(c) * VecL2NormSq(v))
<1>. DEFINE w == ScaledVec(c, v)
            I == 1 .. Len(v)
            s == [i \in I |-> L2NormSq(v[i])]
            t == [i \in I |-> L2NormSq(w[i])]
            A == L1Norm(c)
            K == A * A
            b == [i \in I |-> K * s[i]]
<1>1. VecL2NormSq(v) = SumFunctionOnSet(s, I) /\ VecL2NormSq(v) \in Nat /\ IsFiniteSet(I)
      /\ \A i \in I : s[i] \in Nat /\ v[i] \in Rq
  BY VecNorm
<1>2. w \in Seq(Rq) /\ Len(w) = Len(v) /\ w = [i \in 1 .. Len(v) |-> NegMul(c, v[i])]
  BY ScaledVecIs
<1>3. VecL2NormSq(w) = SumFunctionOnSet(t, I) /\ VecL2NormSq(w) \in Nat /\ \A i \in I : t[i] \in Nat
  <2>. HIDE DEF w
  <2>. QED BY <1>2, VecNorm
<1>4. A \in Nat /\ K \in Nat
  <2>1. A \in Nat
    BY NormTypes
  <2>. HIDE DEF A
  <2>. QED BY <2>1
<1>5. ASSUME NEW i \in I PROVE t[i] \in Int /\ b[i] \in Int /\ t[i] <= b[i] /\ s[i] \in Int /\ b[i] = K * s[i]
  <2>1. v[i] \in Rq
    BY <1>1
  <2>. DEFINE x == v[i]
              y == L2NormSq(x)
  <2>2. w[i] = NegMul(c, x)
    BY <1>2
  <2>3. y \in Nat /\ L2NormSq(NegMul(c, x)) \in Nat /\ L2NormSq(NegMul(c, x)) <= A * (A * y)
    BY <2>1, ProductNorm
  <2>4. A * (A * y) = K * y /\ K * y \in Int
    <3>. HIDE DEF A, y
    <3>. QED BY <1>4, <2>3
  <2>. HIDE DEF w, K, A
  <2>. QED BY <2>2, <2>3, <2>4
<1>. HIDE DEF w, I, s, t, b
<1>6. SumFunctionOnSet(t, I) <= SumFunctionOnSet(b, I)
  <2>1. \A i \in I : t[i] \in Int /\ b[i] \in Int /\ t[i] <= b[i]
    BY <1>5
  <2>. QED BY <1>1, <2>1, SumLess
<1>7. SumFunctionOnSet(b, I) = K * SumFunctionOnSet(s, I)
  <2>1. \A i \in I : s[i] \in Int /\ b[i] = K * s[i]
    BY <1>5
  <2>2. K \in Int
    BY <1>4
  <2>. HIDE DEF K
  <2>. QED BY <1>1, <2>1, <2>2, SumScale
<1>. DEFINE z == VecL2NormSq(v)
<1>8. K * z = A * (A * z)
  <2>. HIDE DEF A, z
  <2>. QED BY <1>1, <1>4 DEF z
<1>. QED BY <1>1, <1>3, <1>4, <1>6, <1>7, <1>8 DEF w

LEMMA DifferenceVecNorm ==
  ASSUME NEW v \in Seq(Rq), NEW w \in Seq(Rq), Len(v) = Len(w)
  PROVE  /\ VecL2NormSq(v) \in Nat /\ VecL2NormSq(w) \in Nat /\ VecL2NormSq(DifferenceVec(v, w)) \in Nat
         /\ VecL2NormSq(DifferenceVec(v, w)) <= 2 * VecL2NormSq(v) + 2 * VecL2NormSq(w)
<1>. DEFINE d == DifferenceVec(v, w)
<1>0. d \in Seq(Rq) /\ Len(d) = Len(v) /\ \A i \in 1 .. Len(v) : d[i] = Difference(v[i], w[i])
  BY DifferenceVecIs
<1>. HIDE DEF d
<1>. DEFINE I == 1 .. Len(v)
            sv == [i \in I |-> L2NormSq(v[i])]
            sw == [i \in I |-> L2NormSq(w[i])]
            sd == [i \in I |-> L2NormSq(d[i])]
            tv == [i \in I |-> 2 * sv[i]]
            tw == [i \in I |-> 2 * sw[i]]
            b == [i \in I |-> tv[i] + tw[i]]
<1>1. VecL2NormSq(v) = SumFunctionOnSet(sv, I) /\ VecL2NormSq(v) \in Nat /\ IsFiniteSet(I)
      /\ \A i \in I : sv[i] \in Nat /\ v[i] \in Rq
  BY VecNorm
<1>2. VecL2NormSq(w) = SumFunctionOnSet(sw, I) /\ VecL2NormSq(w) \in Nat
      /\ \A i \in I : sw[i] \in Nat /\ w[i] \in Rq
  BY VecNorm
<1>3. VecL2NormSq(d) = SumFunctionOnSet(sd, I) /\ VecL2NormSq(d) \in Nat
      /\ \A i \in I : sd[i] \in Nat
  BY <1>0, VecNorm
<1>4. ASSUME NEW i \in I
      PROVE  /\ sv[i] \in Int /\ tv[i] = 2 * sv[i] /\ sw[i] \in Int /\ tw[i] = 2 * sw[i]
             /\ tv[i] \in Int /\ tw[i] \in Int /\ b[i] = tv[i] + tw[i]
             /\ sd[i] \in Int /\ b[i] \in Int /\ sd[i] <= b[i]
  <2>1. v[i] \in Rq /\ w[i] \in Rq /\ d[i] = Difference(v[i], w[i])
    BY <1>0, <1>1, <1>2
  <2>2. L2NormSq(d[i]) <= 2 * L2NormSq(v[i]) + 2 * L2NormSq(w[i])
    BY <2>1, DifferenceNorm
  <2>3. sv[i] \in Nat /\ sw[i] \in Nat /\ sd[i] \in Nat
    BY <1>1, <1>2, <1>3
  <2>. QED BY <2>2, <2>3
<1>. HIDE DEF I, sv, sw, sd, tv, tw, b
<1>5. SumFunctionOnSet(tv, I) = 2 * SumFunctionOnSet(sv, I)
  <2>1. \A i \in I : sv[i] \in Int /\ tv[i] = 2 * sv[i]
    BY <1>4
  <2>. QED BY <1>1, <2>1, SumScale
<1>6. SumFunctionOnSet(tw, I) = 2 * SumFunctionOnSet(sw, I)
  <2>1. \A i \in I : sw[i] \in Int /\ tw[i] = 2 * sw[i]
    BY <1>4
  <2>. QED BY <1>1, <2>1, SumScale
<1>7. SumFunctionOnSet(b, I) = SumFunctionOnSet(tv, I) + SumFunctionOnSet(tw, I)
  <2>1. \A i \in I : tv[i] \in Int /\ tw[i] \in Int /\ b[i] = tv[i] + tw[i]
    BY <1>4
  <2>. QED BY <1>1, <2>1, SumPlus
<1>8. SumFunctionOnSet(sd, I) <= SumFunctionOnSet(b, I)
  <2>1. \A i \in I : sd[i] \in Int /\ b[i] \in Int /\ sd[i] <= b[i]
    BY <1>4
  <2>. QED BY <1>1, <2>1, SumLess
<1>. QED BY <1>1, <1>2, <1>3, <1>5, <1>6, <1>7, <1>8 DEF d

(* The greatest magnitude of a vector bounds every one, and is the least    *)
(* such bound.                                                              *)
LEMMA MaxIs ==
  ASSUME NEW m \in Nat, NEW S, S \subseteq 0 .. m
  PROVE  /\ Max({0} \cup S) \in 0 .. m
         /\ \A x \in S : x <= Max({0} \cup S)
<1>. DEFINE U == {0} \cup S
<1>1. U \in SUBSET (0 .. m) /\ 0 \in U
  OBVIOUS
<1>. HIDE DEF U
<1>2. \E x \in U : \A y \in U : x >= y
  BY <1>1, GreatestExists
<1>3. Max(U) \in U /\ \A y \in U : Max(U) >= y
  BY <1>2 DEF Max
<1>4. Max(U) \in 0 .. m
  BY <1>1, <1>3
<1>5. \A y \in U : y <= Max(U)
  <2>1. \A y \in U : y \in 0 .. m
    BY <1>1
  <2>. QED BY <1>3, <1>4, <2>1
<1>. QED BY <1>4, <1>5 DEF U

LEMMA InftyBelow ==
  ASSUME NEW v \in Seq(Rq), NEW m \in Nat,
         \A i \in 1 .. Len(v), p \in Coeff : Magnitude(v[i][p]) <= m
  PROVE  VecLInftyNorm(v) \in Nat /\ VecLInftyNorm(v) <= m
<1>1. DOMAIN v = 1 .. Len(v) /\ \A i \in 1 .. Len(v) : v[i] \in Rq
  BY SeqEntries
<1>2. ASSUME NEW i \in 1 .. Len(v) PROVE LInftyNorm(v[i]) \in 0 .. m
  <2>. DEFINE S == { CenteredAbs(v[i][p]) : p \in Coeff }
  <2>1. ASSUME NEW p \in Coeff PROVE CenteredAbs(v[i][p]) \in 0 .. m
    <3>1. v[i] \in Rq
      BY <1>1
    <3>2. Magnitude(v[i][p]) \in Nat
      BY <3>1, CentIs
    <3>. QED BY <3>2 DEF CenteredAbs
  <2>2. S \subseteq 0 .. m
    BY <2>1
  <2>. HIDE DEF S
  <2>3. Max({0} \cup S) \in 0 .. m
    BY <2>2, MaxIs
  <2>. QED BY <2>3 DEF LInftyNorm, S
<1>. DEFINE T == { LInftyNorm(v[i]) : i \in DOMAIN v }
<1>3. T \subseteq 0 .. m
  BY <1>1, <1>2
<1>. HIDE DEF T
<1>4. Max({0} \cup T) \in 0 .. m
  BY <1>3, MaxIs
<1>. QED BY <1>4 DEF VecLInftyNorm, T

LEMMA MagnitudeBelow ==
  ASSUME NEW x \in Rq, NEW p \in Coeff
  PROVE  Magnitude(x[p]) \in 0 .. Q
<1>1. x[p] \in 0 .. (Q - 1) /\ Q \in Nat \ {0}
  BY RqInt, RingAssumption DEF Fp
<1>. QED BY <1>1 DEF Magnitude

LEMMA InftyAbove ==
  ASSUME NEW v \in Seq(Rq), NEW i \in 1 .. Len(v), NEW p \in Coeff
  PROVE  /\ VecLInftyNorm(v) \in Nat
         /\ Magnitude(v[i][p]) \in Nat /\ Magnitude(v[i][p]) <= VecLInftyNorm(v)
<1>1. DOMAIN v = 1 .. Len(v) /\ (\A j \in 1 .. Len(v) : v[j] \in Rq) /\ Q \in Nat
  BY SeqEntries, RingAssumption
<1>2. ASSUME NEW j \in 1 .. Len(v)
      PROVE  /\ LInftyNorm(v[j]) \in 0 .. Q
             /\ \A r \in Coeff : Magnitude(v[j][r]) <= LInftyNorm(v[j])
  <2>. DEFINE S == { CenteredAbs(v[j][r]) : r \in Coeff }
  <2>1. \A r \in Coeff : CenteredAbs(v[j][r]) \in 0 .. Q
    BY <1>1, MagnitudeBelow DEF CenteredAbs
  <2>2. S \subseteq 0 .. Q
    BY <2>1
  <2>3. \A r \in Coeff : Magnitude(v[j][r]) \in S
    BY DEF CenteredAbs
  <2>. HIDE DEF S
  <2>4. Max({0} \cup S) \in 0 .. Q /\ \A x \in S : x <= Max({0} \cup S)
    BY <1>1, <2>2, MaxIs
  <2>. QED BY <2>3, <2>4 DEF LInftyNorm, S
<1>. DEFINE T == { LInftyNorm(v[j]) : j \in DOMAIN v }
<1>3. T \subseteq 0 .. Q /\ LInftyNorm(v[i]) \in T
  BY <1>1, <1>2
<1>. HIDE DEF T
<1>4. Max({0} \cup T) \in 0 .. Q /\ \A x \in T : x <= Max({0} \cup T)
  BY <1>1, <1>3, MaxIs
<1>5. VecLInftyNorm(v) = Max({0} \cup T)
  BY DEF VecLInftyNorm, T
<1>6. Magnitude(v[i][p]) \in 0 .. Q
  BY <1>1, MagnitudeBelow
<1>7. Magnitude(v[i][p]) <= LInftyNorm(v[i]) /\ LInftyNorm(v[i]) \in 0 .. Q
  BY <1>2
<1>8. LInftyNorm(v[i]) <= VecLInftyNorm(v) /\ VecLInftyNorm(v) \in 0 .. Q
  BY <1>3, <1>4, <1>5
<1>. QED BY <1>1, <1>6, <1>7, <1>8

LEMMA DifferenceInfty ==
  ASSUME NEW v \in Seq(Rq), NEW w \in Seq(Rq), Len(v) = Len(w),
         NEW m \in Nat, VecLInftyNorm(v) <= m, VecLInftyNorm(w) <= m
  PROVE  VecLInftyNorm(DifferenceVec(v, w)) <= 2 * m
<1>. DEFINE d == DifferenceVec(v, w)
<1>0. d \in Seq(Rq) /\ Len(d) = Len(v) /\ \A i \in 1 .. Len(v) : d[i] = Difference(v[i], w[i])
  BY DifferenceVecIs
<1>. HIDE DEF d
<1>1. ASSUME NEW i \in 1 .. Len(d), NEW p \in Coeff PROVE Magnitude(d[i][p]) <= 2 * m
  <2>0. i \in 1 .. Len(v) /\ i \in 1 .. Len(w)
    BY <1>0
  <2>1. v[i] \in Rq /\ w[i] \in Rq /\ d[i] = Difference(v[i], w[i])
    BY <1>0, <2>0, SeqEntries
  <2>. DEFINE a == Cent(v[i])[p]
              b == Cent(w[i])[p]
              e == a - b
              M == Magnitude(v[i][p])
              N == Magnitude(w[i][p])
  <2>2. M \in Nat /\ M <= m /\ N \in Nat /\ N <= m
    <3>1. /\ VecLInftyNorm(v) \in Nat
          /\ M \in Nat /\ M <= VecLInftyNorm(v)
      BY <2>0, InftyAbove
    <3>2. /\ VecLInftyNorm(w) \in Nat
          /\ N \in Nat /\ N <= VecLInftyNorm(w)
      BY <2>0, InftyAbove
    <3>. HIDE DEF M, N
    <3>. QED BY <3>1, <3>2
  <2>3. (a = M \/ a = -M) /\ (b = N \/ b = -N)
    BY <2>1, CentIs
  <2>4. e \in Int /\ d[i][p] = e % Q
    <3>1. e \in Int /\ Difference(v[i], w[i])[p] = e % Q
      BY <2>1, CentredDifference
    <3>. QED BY <2>1, <3>1
  <2>. DEFINE k == 2 * m
  <2>5. e <= k /\ -e <= k /\ k \in Nat
    <3>. HIDE DEF a, b, M, N
    <3>. QED BY <2>2, <2>3
  <2>. HIDE DEF e, k
  <2>6. Magnitude(e % Q) <= k
    BY <2>4, <2>5, MagnitudeLeast
  <2>. QED BY <2>4, <2>6 DEF k
<1>. DEFINE k == 2 * m
<1>2. k \in Nat /\ \A i \in 1 .. Len(d), p \in Coeff : Magnitude(d[i][p]) <= k
  BY <1>1
<1>. HIDE DEF k
<1>3. VecLInftyNorm(d) <= k
  BY <1>0, <1>2, InftyBelow
<1>. QED BY <1>3 DEF k, d

-----------------------------------------------------------------------------
(* VECTORS UNDER A MATRIX *)

LEMMA ProductOfZero ==
  ASSUME NEW a \in IntRq
  PROVE  NegMul(a, ZeroRq) = ZeroRq
<1>1. ZeroRq \in Rq /\ ZeroRq \in IntRq
  <2>1. ZeroRq \in Rq
    BY OneType, DifferenceZero
  <2>. QED BY <2>1, RqInt
<1>2. Difference(ZeroRq, ZeroRq) = ZeroRq
  BY <1>1, DifferenceZero
<1>3. NegMul(a, ZeroRq) \in Rq
  BY <1>1, IntProductType
<1>4. NegMul(a, Difference(ZeroRq, ZeroRq)) = Difference(NegMul(a, ZeroRq), NegMul(a, ZeroRq))
  BY <1>1, ProductOfDifference
<1>. QED BY <1>2, <1>3, <1>4, DifferenceZero

(* What a matrix takes to one vector, it takes to zero on their difference, *)
(* and on every multiple of it.                                             *)
LEMMA KernelOfDifference ==
  ASSUME NEW A \in Seq(Seq(Rq)), NEW v \in Seq(Rq), NEW w \in Seq(Rq), Len(v) = Len(w),
         MatVec(A, v) = MatVec(A, w)
  PROVE  /\ MatVec(A, DifferenceVec(v, w)) = [i \in 1 .. Len(A) |-> ZeroRq]
         /\ \A c \in Rq : MatVec(A, ScaledVec(c, DifferenceVec(v, w))) = [i \in 1 .. Len(A) |-> ZeroRq]
<1>. DEFINE d == DifferenceVec(v, w)
<1>0. d \in Seq(Rq) /\ Len(d) = Len(v) /\ \A i \in 1 .. Len(v) : d[i] = Difference(v[i], w[i])
  BY DifferenceVecIs
<1>. HIDE DEF d
<1>1. MatVec(A, d) = [i \in 1 .. Len(A) |-> Dot(A[i], d)] /\ \A i \in 1 .. Len(A) : A[i] \in Seq(Rq)
  BY <1>0, MatVecIs
<1>2. ASSUME NEW i \in 1 .. Len(A) PROVE Dot(A[i], d) = ZeroRq
  <2>. DEFINE u == A[i]
  <2>1. u \in Seq(Rq)
    BY <1>1
  <2>2. Dot(u, v) = Dot(u, w)
    <3>1. MatVec(A, v) = [j \in 1 .. Len(A) |-> Dot(A[j], v)]
      BY MatVecIs
    <3>2. MatVec(A, w) = [j \in 1 .. Len(A) |-> Dot(A[j], w)]
      BY MatVecIs
    <3>3. MatVec(A, v)[i] = Dot(u, v) /\ MatVec(A, w)[i] = Dot(u, w)
      BY <3>1, <3>2
    <3>. QED BY <3>3
  <2>. HIDE DEF u
  <2>3. Dot(u, d) = Difference(Dot(u, v), Dot(u, w))
    BY <2>1, DotOfDifference DEF d
  <2>4. Dot(u, v) \in Rq
    BY <2>1, DotIs
  <2>. QED BY <2>2, <2>3, <2>4, DifferenceZero DEF u
<1>3. ASSUME NEW c \in Rq PROVE MatVec(A, ScaledVec(c, d)) = [i \in 1 .. Len(A) |-> ZeroRq]
  <2>. DEFINE e == ScaledVec(c, d)
  <2>1. e \in Seq(Rq)
    BY <1>0, ScaledVecIs
  <2>2. ASSUME NEW i \in 1 .. Len(A) PROVE Dot(A[i], e) = ZeroRq
    <3>1. Dot(A[i], e) = NegMul(c, Dot(A[i], d))
      BY <1>0, <1>1, DotOfScaled
    <3>. QED BY <1>2, <3>1, ProductOfZero, RqInt
  <2>. HIDE DEF e
  <2>3. MatVec(A, e) = [i \in 1 .. Len(A) |-> Dot(A[i], e)]
    BY <2>1, MatVecIs
  <2>. QED BY <2>2, <2>3 DEF e
<1>. QED BY <1>1, <1>2, <1>3 DEF d

(* Vectors that differ have a nonzero difference, and a nonzero multiple of *)
(* it under a unit.                                                         *)
LEMMA DifferenceNonzero ==
  ASSUME NEW v \in Seq(Rq), NEW w \in Seq(Rq), Len(v) = Len(w), v # w,
         NEW c \in Rq, NEW y \in Rq, NegMul(c, y) = OneRq
  PROVE  \E i \in 1 .. Len(v) : DifferenceVec(v, w)[i] # ZeroRq /\ ScaledVec(c, DifferenceVec(v, w))[i] # ZeroRq
<1>. DEFINE d == DifferenceVec(v, w)
<1>0. d \in Seq(Rq) /\ Len(d) = Len(v) /\ \A i \in 1 .. Len(v) : d[i] = Difference(v[i], w[i])
  BY DifferenceVecIs
<1>. HIDE DEF d
<1>1. v \in [1 .. Len(v) -> Rq] /\ w \in [1 .. Len(v) -> Rq]
  BY SeqEntries
<1>2. PICK i \in 1 .. Len(v) : v[i] # w[i]
  BY <1>1
<1>3. v[i] \in Rq /\ w[i] \in Rq /\ d[i] \in Rq
  BY <1>0, SeqEntries
<1>4. d[i] # ZeroRq
  BY <1>0, <1>2, <1>3, DifferenceZero
<1>5. ScaledVec(c, d)[i] = NegMul(c, d[i])
  BY <1>0, ScaledVecIs
<1>6. ASSUME NegMul(c, d[i]) = ZeroRq PROVE FALSE
  <2>. DEFINE x == d[i]
  <2>1. x \in IntRq /\ c \in IntRq /\ y \in IntRq /\ x \in Rq
    BY <1>3, RqInt
  <2>. HIDE DEF x
  <2>2. NegMul(x, NegMul(c, y)) = NegMul(c, NegMul(x, y))
    BY <2>1, ProductSwap
  <2>3. NegMul(x, y) = NegMul(y, x)
    BY <2>1, ProductCommutes
  <2>4. NegMul(c, NegMul(y, x)) = NegMul(y, NegMul(c, x))
    BY <2>1, ProductSwap
  <2>5. NegMul(y, NegMul(c, x)) = ZeroRq
    BY <1>6, <2>1, ProductOfZero DEF x
  <2>6. NegMul(x, OneRq) = NegMul(OneRq, x)
    BY <2>1, OneType, RqInt, ProductCommutes
  <2>7. NegMul(OneRq, x) = x
    BY <2>1, OneTimes
  <2>8. x = ZeroRq
    BY <2>2, <2>3, <2>4, <2>5, <2>6, <2>7
  <2>. QED BY <1>4, <2>8 DEF x
<1>. QED BY <1>4, <1>5, <1>6 DEF d

-----------------------------------------------------------------------------
(* Blocks of matching lengths are told apart by their concatenation.        *)
LEMMA FlattenInjective ==
  ASSUME NEW T, NEW s \in Seq(Seq(T)), NEW t \in Seq(Seq(T)), Len(s) = Len(t),
         \A i \in 1 .. Len(s) : Len(s[i]) = Len(t[i])
  PROVE  /\ Len(FlattenBlocks(s)) = Len(FlattenBlocks(t))
         /\ FlattenBlocks(s) = FlattenBlocks(t) => s = t
<1>0. ASSUME NEW a \in Seq(T), NEW b \in Seq(T), NEW x \in Seq(T), NEW y \in Seq(T),
             Len(a) = Len(b), Len(x) = Len(y)
      PROVE  /\ Len(a \o x) = Len(b \o y)
             /\ a \o x = b \o y => a = b /\ x = y
  <2>1. Len(a) \in Nat /\ Len(x) \in Nat /\ Len(a \o x) = Len(a) + Len(x) /\ Len(b \o y) = Len(b) + Len(y)
    BY <1>0, LenProperties, ConcatProperties
  <2>2. ASSUME a \o x = b \o y PROVE a = b /\ x = y
    <3>1. ASSUME NEW i \in 1 .. Len(a) PROVE a[i] = b[i]
      <4>1. i \in 1 .. (Len(a) + Len(x)) /\ i <= Len(a)
        BY <2>1
      <4>2. (a \o x)[i] = a[i] /\ (b \o y)[i] = b[i]
        BY <1>0, <4>1, ConcatProperties
      <4>. QED BY <2>2, <4>2
    <3>2. ASSUME NEW i \in 1 .. Len(x) PROVE x[i] = y[i]
      <4>. DEFINE j == Len(a) + i
      <4>1. j \in 1 .. (Len(a) + Len(x)) /\ ~(j <= Len(a)) /\ j - Len(a) = i
        BY <2>1
      <4>. HIDE DEF j
      <4>2. (a \o x)[j] = x[i] /\ (b \o y)[j] = y[i]
        BY <1>0, <4>1, ConcatProperties
      <4>. QED BY <2>2, <4>2
    <3>3. a \in [1 .. Len(a) -> T] /\ b \in [1 .. Len(a) -> T] /\ x \in [1 .. Len(x) -> T] /\ y \in [1 .. Len(x) -> T]
      BY <1>0, LenProperties
    <3>4. a = [i \in 1 .. Len(a) |-> a[i]] /\ b = [i \in 1 .. Len(a) |-> b[i]]
      BY <3>3
    <3>5. x = [i \in 1 .. Len(x) |-> x[i]] /\ y = [i \in 1 .. Len(x) |-> y[i]]
      BY <3>3
    <3>6. a = b
      BY <3>1, <3>4
    <3>7. x = y
      BY <3>2, <3>5
    <3>. QED BY <3>6, <3>7
  <2>. QED BY <1>0, <2>1, <2>2
<1>. DEFINE n == Len(s)
            f == CHOOSE g : Concatenates(s, n, g)
            h == CHOOSE g : Concatenates(t, n, g)
<1>1. n \in Nat /\ \A i \in 1 .. n : s[i] \in Seq(T) /\ t[i] \in Seq(T) /\ Len(s[i]) = Len(t[i])
  BY LenProperties, ElementOfSeq
<1>2. FlattenSeq(s) = (IF n = 0 THEN s ELSE f[n]) /\ FlattenSeq(t) = (IF n = 0 THEN t ELSE h[n])
  BY DEF FlattenSeq, Concatenates
<1>3. s \in [1 .. n -> Seq(T)] /\ t \in [1 .. n -> Seq(T)]
  BY LenProperties
<1>. HIDE DEF n
<1>4. Concatenates(s, n, f) /\ Concatenates(t, n, h)
  BY <1>1, ConcatenationExists
<1>. HIDE DEF f, h
<1>5. \A i \in 1 .. n : /\ f[i] = IF i = 1 THEN s[i] ELSE f[i - 1] \o s[i]
                        /\ h[i] = IF i = 1 THEN t[i] ELSE h[i - 1] \o t[i]
  BY <1>4 DEF Concatenates
<1>. DEFINE Same(k) == /\ f[k] \in Seq(T) /\ h[k] \in Seq(T) /\ Len(f[k]) = Len(h[k])
                       /\ f[k] = h[k] => \A i \in 1 .. k : s[i] = t[i]
            G == { k \in Nat : k + 1 \in 1 .. n => Same(k + 1) }
<1>6. 0 \in G
  <2>1. ASSUME 1 \in 1 .. n PROVE Same(1)
    <3>1. f[1] = s[1] /\ h[1] = t[1]
      BY <1>5, <2>1
    <3>2. \A i \in 1 .. 1 : i = 1
      OBVIOUS
    <3>. QED BY <1>1, <2>1, <3>1, <3>2
  <2>. HIDE DEF Same
  <2>. QED BY <2>1
<1>7. ASSUME NEW k \in Nat, k + 1 \in 1 .. n => Same(k + 1), (k + 1) + 1 \in 1 .. n
      PROVE  Same((k + 1) + 1)
  <2>. DEFINE j == k + 1
              l == (k + 1) + 1
  <2>1. j \in 1 .. n /\ l # 1 /\ l - 1 = j /\ l \in 1 .. n /\ \A i \in 1 .. l : i \in 1 .. j \/ i = l
    BY <1>1, <1>7
  <2>2. Same(j)
    BY <1>7, <2>1
  <2>. HIDE DEF j, l
  <2>3. f[l] = f[j] \o s[l] /\ h[l] = h[j] \o t[l]
    BY <1>5, <2>1
  <2>4. s[l] \in Seq(T) /\ t[l] \in Seq(T) /\ Len(s[l]) = Len(t[l])
    BY <1>1, <2>1
  <2>5. f[j] \in Seq(T) /\ h[j] \in Seq(T) /\ Len(f[j]) = Len(h[j])
    BY <2>2
  <2>6. /\ Len(f[j] \o s[l]) = Len(h[j] \o t[l])
        /\ f[j] \o s[l] = h[j] \o t[l] => f[j] = h[j] /\ s[l] = t[l]
    <3>. DEFINE S == Seq(T)
                Apart(a, b, x, y) == Len(a) = Len(b) /\ Len(x) = Len(y) =>
                                       /\ Len(a \o x) = Len(b \o y)
                                       /\ a \o x = b \o y => a = b /\ x = y
    <3>1. \A a, b, x, y \in S : Apart(a, b, x, y)
      BY <1>0, ZenonT(60)
    <3>2. f[j] \in S /\ h[j] \in S /\ s[l] \in S /\ t[l] \in S
      BY <2>4, <2>5
    <3>. HIDE DEF S, Apart
    <3>3. Apart(f[j], h[j], s[l], t[l])
      BY <3>1, <3>2
    <3>4. Len(f[j]) = Len(h[j]) /\ Len(s[l]) = Len(t[l])
      BY <2>4, <2>5
    <3>. QED BY <3>3, <3>4, Zenon DEF Apart
  <2>7. f[l] \in Seq(T) /\ h[l] \in Seq(T)
    BY <2>3, <2>4, <2>5, ConcatProperties
  <2>8. f[l] = h[l] => \A i \in 1 .. l : s[i] = t[i]
    BY <2>1, <2>2, <2>3, <2>6
  <2>9. Same(l)
    BY <2>3, <2>6, <2>7, <2>8
  <2>. QED BY <2>9 DEF l
<1>8. 0 \in G /\ \A k \in Nat : k \in G => k + 1 \in G
  <2>. HIDE DEF Same
  <2>. QED BY <1>6, <1>7
<1>9. \A k \in Nat : k \in G
  <2>. HIDE DEF G
  <2>. QED BY <1>8, NaturalInduction
<1>10. n # 0 => Same(n)
  <2>1. SUFFICES ASSUME n # 0 PROVE Same(n)
    OBVIOUS
  <2>2. n - 1 \in Nat /\ (n - 1) + 1 = n /\ n \in 1 .. n
    BY <1>1, <2>1
  <2>. HIDE DEF Same
  <2>3. (n - 1) + 1 \in 1 .. n => Same((n - 1) + 1)
    BY <1>9, <2>2
  <2>. QED BY <2>2, <2>3
<1>11. n = 0 => s = t
  BY <1>3
<1>12. n # 0 => FlattenBlocks(s) = f[n] /\ FlattenBlocks(t) = h[n]
  BY <1>2 DEF FlattenBlocks
<1>14. CASE n = 0
  <2>1. s = t
    BY <1>11, <1>14
  <2>. QED BY <2>1
<1>15. CASE n # 0
  <2>1. Len(f[n]) = Len(h[n]) /\ (f[n] = h[n] => \A i \in 1 .. n : s[i] = t[i])
    BY <1>10, <1>15
  <2>2. s = [i \in 1 .. n |-> s[i]] /\ t = [i \in 1 .. n |-> t[i]]
    BY <1>3
  <2>3. f[n] = h[n] => s = t
    BY <2>1, <2>2
  <2>. QED BY <1>12, <1>15, <2>1, <2>3
<1>. QED BY <1>14, <1>15

(* Quotient and remainder of a number given by its digits.                  *)
LEMMA SplitAt ==
  ASSUME NEW D \in Nat \ {0}, NEW a \in Nat, NEW e \in 0 .. (D - 1)
  PROVE  (D * a + e) \div D = a /\ (D * a + e) % D = e
<1>. DEFINE x == D * a + e
            q == x \div D
            r == x % D
            k == a - q
<1>2. x \in Int /\ x = D * a + e
  OBVIOUS
<1>. HIDE DEF x
<1>3. q \in Int /\ r \in 0 .. (D - 1) /\ x = D * q + r
  BY <1>2
<1>. HIDE DEF q, r
<1>4. k \in Int /\ D * k = r - e
  BY <1>2, <1>3
<1>. HIDE DEF k
<1>5. ~(k >= 1)
  <2>1. SUFFICES ASSUME k >= 1 PROVE FALSE
    OBVIOUS
  <2>2. D * k >= D * 1
    BY <1>4, <2>1
  <2>. QED BY <1>3, <1>4, <2>2
<1>6. ~(k <= -1)
  <2>1. SUFFICES ASSUME k <= -1 PROVE FALSE
    OBVIOUS
  <2>2. D * k <= D * (-1)
    BY <1>4, <2>1
  <2>. QED BY <1>3, <1>4, <2>2
<1>7. k = 0
  BY <1>4, <1>5, <1>6
<1>8. q = a /\ r = e
  BY <1>3, <1>4, <1>7 DEF k
<1>. QED BY <1>8 DEF q, r, x
=============================================================================
