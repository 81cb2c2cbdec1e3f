---------------------------- MODULE ChainProofs -----------------------------
(***************************************************************************)
(* Proofs about the chain, for every ring, table size, matrix, statement,  *)
(* witness and set of tamperings: the types, the exactness of the folded   *)
(* and factored tables, the closed forms of the final check, and soundness *)
(* of the composed run.                                                    *)
(*                                                                         *)
(* A step of the chain is a step of the verifier of RoundVerify, so that   *)
(* its theorems hold of the chain once the sums over the cube are shown to *)
(* split over a coordinate and to end in the closed forms.  The prover's   *)
(* tables need an inductive invariant of their own: which factor of the    *)
(* public table is folded depends on how many rounds have passed.          *)
(***************************************************************************)
EXTENDS Chain, GadgetProofs

-----------------------------------------------------------------------------
(* POWERS AND BITS *)

LEMMA PowersAre ==
  ASSUME NEW x \in Int
  PROVE  /\ Powers(x) \in [Nat -> Int]
         /\ Powers(x)[0] = 1
         /\ \A n \in Nat : Powers(x)[n + 1] = x * Powers(x)[n]
<1>. DEFINE step == [y \in Int |-> x * y]
            Def(f) == f = [n \in Nat |-> IF n = 0 THEN 1 ELSE x * f[n - 1]]
            r == Powers(x)
<1>1. 1 \in Int /\ step \in [Int -> Int]
  OBVIOUS
<1>2. PICK f : Iterates(1, step, f) /\ f \in [Nat -> Int]
  <2>. HIDE DEF step
  <2>. QED BY <1>1, IterationExists
<1>3. Def(f)
  <2>1. \A n \in Nat : f[n] = IF n = 0 THEN 1 ELSE step[f[n - 1]]
    BY <1>2 DEF Iterates
  <2>2. \A n \in Nat : f[n] = IF n = 0 THEN 1 ELSE x * f[n - 1]
    <3>1. ASSUME NEW n \in Nat, n # 0 PROVE f[n] = x * f[n - 1]
      <4>1. n - 1 \in Nat
        BY <3>1
      <4>2. f[n - 1] \in Int
        BY <1>2, <4>1
      <4>. QED BY <2>1, <3>1, <4>2
    <3>. QED BY <2>1, <3>1
  <2>. QED BY <1>2, <2>2
<1>4. Def(r)
  BY <1>3 DEF Powers
<1>. HIDE DEF r
<1>5. r[0] = 1
  BY <1>4
<1>6. ASSUME NEW n \in Nat PROVE r[n + 1] = x * r[n]
  <2>1. n + 1 \in Nat /\ n + 1 # 0 /\ (n + 1) - 1 = n
    OBVIOUS
  <2>. QED BY <1>4, <2>1
<1>. DEFINE K == { n \in Nat : r[n] \in Int }
<1>7. \A n \in Nat : n \in K
  <2>1. 0 \in K
    BY <1>5
  <2>2. ASSUME NEW n \in Nat, n \in K PROVE n + 1 \in K
    BY <1>6, <2>2
  <2>. HIDE DEF K
  <2>. QED BY <2>1, <2>2, NaturalInduction
<1>8. r \in [Nat -> Int]
  BY <1>4, <1>7
<1>. QED BY <1>5, <1>6, <1>8 DEF r

LEMMA PowFacts ==
  ASSUME NEW x \in Int
  PROVE  /\ Pow(x, 0) = 1
         /\ \A n \in Nat : Pow(x, n) \in Int /\ Pow(x, n + 1) = x * Pow(x, n)
BY PowersAre DEF Pow

(* Of a positive number, positive.                                          *)
LEMMA PowPositive ==
  ASSUME NEW x \in Nat \ {0}, NEW n \in Nat
  PROVE  Pow(x, n) \in Nat \ {0}
<1>. DEFINE G == { k \in Nat : Pow(x, k) \in Nat \ {0} }
<1>1. 0 \in G
  <2>1. Pow(x, 0) = 1
    BY PowFacts
  <2>. QED BY <2>1
<1>2. ASSUME NEW k \in Nat, k \in G PROVE k + 1 \in G
  <2>1. Pow(x, k + 1) = x * Pow(x, k) /\ Pow(x, k) \in Nat \ {0}
    BY <1>2, PowFacts
  <2>2. x * Pow(x, k) \in Nat \ {0}
    BY <2>1
  <2>. QED BY <2>1, <2>2
<1>. HIDE DEF G
<1>3. \A k \in Nat : k \in G
  BY <1>1, <1>2, NaturalInduction
<1>. QED BY <1>3 DEF G

LEMMA TwoPow ==
  /\ Pow(2, 0) = 1
  /\ \A n \in Nat : Pow(2, n) \in Nat \ {0} /\ Pow(2, n + 1) = 2 * Pow(2, n)
  /\ \A n \in Nat \ {0} : Pow(2, n) = 2 * Pow(2, n - 1) /\ Pow(2, n) > 1
<1>1. /\ Pow(2, 0) = 1
      /\ \A n \in Nat : Pow(2, n) \in Nat \ {0} /\ Pow(2, n + 1) = 2 * Pow(2, n)
  BY PowFacts, PowPositive
<1>2. ASSUME NEW n \in Nat \ {0} PROVE Pow(2, n) = 2 * Pow(2, n - 1) /\ Pow(2, n) > 1
  <2>1. n - 1 \in Nat /\ (n - 1) + 1 = n
    OBVIOUS
  <2>2. Pow(2, n - 1) \in Nat \ {0} /\ Pow(2, (n - 1) + 1) = 2 * Pow(2, n - 1)
    BY <1>1, <2>1
  <2>. QED BY <2>1, <2>2
<1>. QED BY <1>1, <1>2

LEMMA PowSum ==
  ASSUME NEW n \in Nat, NEW m \in Nat
  PROVE  Pow(2, n + m) = Pow(2, n) * Pow(2, m)
<1>. DEFINE G == { k \in Nat : Pow(2, n + k) = Pow(2, n) * Pow(2, k) }
<1>1. 0 \in G
  BY TwoPow
<1>2. ASSUME NEW k \in Nat, k \in G PROVE k + 1 \in G
  <2>1. n + (k + 1) = (n + k) + 1 /\ n + k \in Nat
    OBVIOUS
  <2>2. Pow(2, n + (k + 1)) = 2 * Pow(2, n + k)
    BY <2>1, TwoPow
  <2>3. Pow(2, k + 1) = 2 * Pow(2, k) /\ Pow(2, n + k) = Pow(2, n) * Pow(2, k)
    BY <1>2, TwoPow
  <2>4. Pow(2, n) \in Nat /\ Pow(2, k) \in Nat
    BY TwoPow
  <2>5. 2 * (Pow(2, n) * Pow(2, k)) = Pow(2, n) * (2 * Pow(2, k))
    BY <2>4
  <2>. QED BY <2>2, <2>3, <2>5
<1>. HIDE DEF G
<1>3. \A k \in Nat : k \in G
  BY <1>1, <1>2, NaturalInduction
<1>. QED BY <1>3 DEF G

LEMMA PowMonotone ==
  ASSUME NEW n \in Nat, NEW m \in Nat
  PROVE  /\ n <= m => Pow(2, n) <= Pow(2, m)
         /\ n < m => Pow(2, n) < Pow(2, m)
<1>1. ASSUME n <= m PROVE Pow(2, n) <= Pow(2, m) /\ (n # m => Pow(2, n) < Pow(2, m))
  <2>. DEFINE a == Pow(2, n)
              b == Pow(2, m - n)
  <2>1. m - n \in Nat /\ n + (m - n) = m /\ (n # m => m - n \in Nat \ {0})
    BY <1>1
  <2>2. Pow(2, m) = a * b
    BY <2>1, PowSum
  <2>3. a \in Nat \ {0} /\ b \in Nat \ {0} /\ (n # m => b > 1)
    BY <2>1, TwoPow
  <2>. HIDE DEF a, b
  <2>4. a * b >= a /\ (b > 1 => a * b > a)
    <3>1. a * b = a + a * (b - 1) /\ a * (b - 1) >= 0 /\ (b > 1 => a * (b - 1) > 0)
      BY <2>3
    <3>. QED BY <2>3, <3>1
  <2>. QED BY <2>2, <2>3, <2>4 DEF a
<1>. QED BY <1>1

(* The bits of an even and of an odd number are those of its half, shifted. *)
LEMMA BitShift ==
  ASSUME NEW y \in Nat, NEW b \in 0 .. 1
  PROVE  /\ Bit(2 * y + b, 1) = b
         /\ \A k \in Nat \ {0} : Bit(2 * y + b, k + 1) = Bit(y, k)
<1>1. Pow(2, 1 - 1) = 1
  BY TwoPow
<1>2. Bit(2 * y + b, 1) = b
  <2>1. (2 * y + b) \div 1 = 2 * y + b /\ (2 * y + b) % 2 = b
    OBVIOUS
  <2>. QED BY <1>1, <2>1 DEF Bit
<1>3. ASSUME NEW k \in Nat \ {0} PROVE Bit(2 * y + b, k + 1) = Bit(y, k)
  <2>. DEFINE p == Pow(2, k - 1)
              q == y \div p
              e == y % p
  <2>1. p \in Nat \ {0} /\ Pow(2, (k + 1) - 1) = 2 * p
    <3>1. k - 1 \in Nat /\ (k + 1) - 1 = (k - 1) + 1
      OBVIOUS
    <3>. QED BY <3>1, TwoPow
  <2>. HIDE DEF p
  <2>2. q \in Nat /\ e \in 0 .. (p - 1) /\ y = p * q + e
    <3>1. y = p * q + e /\ e \in 0 .. (p - 1) /\ q \in Int
      BY <2>1
    <3>. HIDE DEF q, e
    <3>2. ~(q <= -1)
      <4>1. SUFFICES ASSUME q <= -1 PROVE FALSE
        OBVIOUS
      <4>2. p * q <= p * (-1)
        BY <2>1, <3>1, <4>1
      <4>. QED BY <2>1, <3>1, <4>2
    <3>. QED BY <3>1, <3>2
  <2>. HIDE DEF q, e
  <2>3. 2 * y + b = (2 * p) * q + (2 * e + b)
    <3>1. 2 * (p * q + e) = (2 * p) * q + 2 * e /\ (2 * p) * q \in Int
      BY <2>1, <2>2
    <3>. QED BY <2>2, <3>1
  <2>4. 2 * e + b \in 0 .. (2 * p - 1) /\ 2 * p \in Nat \ {0}
    BY <2>1, <2>2
  <2>5. (2 * y + b) \div (2 * p) = q
    <3>. DEFINE v == 2 * y + b
                N == 2 * p
                r == 2 * e + b
    <3>1. v = N * q + r /\ N \in Nat \ {0} /\ r \in 0 .. (N - 1) /\ q \in Nat
      BY <2>2, <2>3, <2>4
    <3>. HIDE DEF v, N, r
    <3>2. v \div N = q
      BY <3>1, SplitAt
    <3>. QED BY <3>2 DEF v, N
  <2>6. Bit(2 * y + b, k + 1) = ((2 * y + b) \div Pow(2, (k + 1) - 1)) % 2
    BY DEF Bit
  <2>7. Bit(y, k) = q % 2
    BY DEF Bit, q, p
  <2>. DEFINE w == 2 * y + b
  <2>8. w \div Pow(2, (k + 1) - 1) = w \div (2 * p)
    BY <2>1
  <2>. HIDE DEF w
  <2>9. w \div Pow(2, (k + 1) - 1) = q
    BY <2>5, <2>8 DEF w
  <2>. QED BY <2>6, <2>7, <2>9 DEF w
<1>. QED BY <1>2, <1>3

(* An index with a top bit put before it: the low bits are its own.         *)
LEMMA BitTop ==
  ASSUME NEW n \in Nat, NEW l \in 0 .. (Pow(2, n) - 1), NEW b \in 0 .. 1
  PROVE  /\ Bit(l + Pow(2, n) * b, n + 1) = b
         /\ \A k \in 1 .. n : Bit(l + Pow(2, n) * b, k) = Bit(l, k)
<1>. DEFINE N == Pow(2, n)
<1>1. N \in Nat \ {0} /\ l \in 0 .. (N - 1)
  BY TwoPow
<1>2. Bit(l + N * b, n + 1) = b
  <2>1. (n + 1) - 1 = n
    OBVIOUS
  <2>. HIDE DEF N
  <2>2. l + N * b = N * b + l /\ b \in Nat
    BY <1>1
  <2>3. (l + N * b) \div N = b /\ b % 2 = b
    BY <1>1, <2>2, SplitAt
  <2>. QED BY <2>1, <2>3 DEF Bit, N
<1>3. ASSUME NEW k \in 1 .. n PROVE Bit(l + N * b, k) = Bit(l, k)
  <2>. DEFINE p == Pow(2, k - 1)
              r == Pow(2, n - k)
              q == l \div p
              e == l % p
              t == r * b
  <2>1. p \in Nat \ {0} /\ r \in Nat \ {0}
    BY TwoPow
  <2>2. N = p * (2 * r)
    <3>1. n = (k - 1) + ((n - k) + 1) /\ n - k \in Nat /\ k - 1 \in Nat /\ (n - k) + 1 \in Nat
      OBVIOUS
    <3>2. N = p * Pow(2, (n - k) + 1)
      BY <3>1, PowSum
    <3>. QED BY <3>1, <3>2, TwoPow
  <2>. HIDE DEF p, r, N
  <2>3. q \in Nat /\ e \in 0 .. (p - 1) /\ l = p * q + e
    <3>1. l = p * q + e /\ e \in 0 .. (p - 1) /\ q \in Int /\ l \in Nat
      BY <1>1, <2>1
    <3>. HIDE DEF q, e
    <3>2. ~(q <= -1)
      <4>1. SUFFICES ASSUME q <= -1 PROVE FALSE
        OBVIOUS
      <4>2. p * q <= p * (-1)
        BY <2>1, <3>1, <4>1
      <4>. QED BY <2>1, <3>1, <4>2
    <3>. QED BY <3>1, <3>2
  <2>. HIDE DEF q, e
  <2>4. t \in Nat /\ N * b = p * (2 * t)
    <3>1. (p * (2 * r)) * b = p * (2 * (r * b)) /\ r * b \in Nat
      BY <2>1
    <3>. QED BY <2>2, <3>1
  <2>. HIDE DEF t
  <2>5. l + N * b = p * (q + 2 * t) + e
    <3>1. p * (q + 2 * t) = p * q + p * (2 * t) /\ p * q \in Int /\ p * (2 * t) \in Int
      BY <2>1, <2>3, <2>4
    <3>. QED BY <2>3, <2>4, <3>1
  <2>6. (l + N * b) \div p = q + 2 * t
    <3>1. q + 2 * t \in Nat
      BY <2>3, <2>4
    <3>. QED BY <2>1, <2>3, <2>5, <3>1, SplitAt
  <2>7. (q + 2 * t) % 2 = q % 2
    BY <2>3, <2>4
  <2>. QED BY <2>6, <2>7 DEF Bit, p, q
<1>. QED BY <1>2, <1>3 DEF N

-----------------------------------------------------------------------------
(* FOLDS ALONG A SEQUENCE *)

(* The values of a recursion of n steps from z.                             *)
Steps(z, n, step, f) == f = [k \in 0 .. n |-> IF k = 0 THEN z ELSE step[k][f[k - 1]]]

LEMMA StepsExist ==
  ASSUME NEW R, NEW z \in R, NEW n \in Nat, NEW step \in [1 .. n -> [R -> R]]
  PROVE  \E f : Steps(z, n, step, f) /\ f \in [0 .. n -> R]
<1>. DEFINE G == { m \in Nat : m <= n => \E f : Steps(z, m, step, f) /\ f \in [0 .. m -> R] }
<1>1. 0 \in G
  <2>. DEFINE f == [k \in 0 .. 0 |-> z]
  <2>1. f = [k \in 0 .. 0 |-> IF k = 0 THEN z ELSE step[k][f[k - 1]]] /\ f \in [0 .. 0 -> R]
    OBVIOUS
  <2>2. Steps(z, 0, step, f)
    BY <2>1 DEF Steps
  <2>. HIDE DEF f
  <2>. QED BY <2>1, <2>2
<1>2. ASSUME NEW m \in Nat, m \in G PROVE m + 1 \in G
  <2>1. SUFFICES ASSUME m + 1 <= n
                 PROVE  \E f : Steps(z, m + 1, step, f) /\ f \in [0 .. (m + 1) -> R]
    OBVIOUS
  <2>2. PICK h : Steps(z, m, step, h) /\ h \in [0 .. m -> R]
    BY <1>2, <2>1
  <2>. DEFINE last == step[m + 1][h[m]]
              f == [k \in 0 .. (m + 1) |-> IF k = m + 1 THEN last ELSE h[k]]
              next(k) == IF k = 0 THEN z ELSE step[k][f[k - 1]]
  <2>3. last \in R
    <3>1. m + 1 \in 1 .. n /\ m \in 0 .. m
      BY <2>1
    <3>2. step[m + 1] \in [R -> R] /\ h[m] \in R
      BY <2>2, <3>1
    <3>. QED BY <3>2
  <2>. HIDE DEF last
  <2>4. f \in [0 .. (m + 1) -> R]
    BY <2>2, <2>3
  <2>5. \A k \in 0 .. m : h[k] = IF k = 0 THEN z ELSE step[k][h[k - 1]]
    BY <2>2 DEF Steps
  <2>6. ASSUME NEW k \in 0 .. (m + 1) PROVE f[k] = next(k)
    <3>1. CASE k = m + 1
      <4>1. k # 0 /\ k - 1 = m /\ m \in 0 .. (m + 1) /\ m # m + 1
        BY <3>1
      <4>2. f[k - 1] = h[m] /\ f[k] = last
        BY <3>1, <4>1
      <4>. HIDE DEF f
      <4>. QED BY <3>1, <4>1, <4>2 DEF last
    <3>2. CASE k # m + 1
      <4>1. k \in 0 .. m /\ f[k] = h[k]
        BY <3>2
      <4>2. k # 0 => k - 1 \in 0 .. (m + 1) /\ k - 1 # m + 1
        BY <3>2
      <4>3. k # 0 => f[k - 1] = h[k - 1]
        BY <4>2
      <4>. HIDE DEF f
      <4>. QED BY <2>5, <4>1, <4>3
    <3>. QED BY <3>1, <3>2
  <2>7. f = [k \in 0 .. (m + 1) |-> next(k)]
    <3>1. f = [k \in 0 .. (m + 1) |-> f[k]]
      OBVIOUS
    <3>. HIDE DEF f
    <3>. QED BY <2>6, <3>1
  <2>. HIDE DEF f
  <2>8. Steps(z, m + 1, step, f)
    BY <2>7 DEF Steps
  <2>. QED BY <2>4, <2>8
<1>. HIDE DEF G
<1>3. n \in G
  BY <1>1, <1>2, NaturalInduction
<1>. QED BY <1>3 DEF G

(* The running products of a sequence of integers, reduced.                 *)
Products(s) ==
  CHOOSE acc : acc = [k \in 0 .. Len(s) |-> IF k = 0 THEN 1 ELSE (acc[k - 1] * s[k]) % Q]

IntSeqs(n) == [1 .. n -> Int]

LEMMA ProductsAre ==
  ASSUME NEW n \in Nat, NEW s \in IntSeqs(n)
  PROVE  /\ Products(s)[0] = 1
         /\ \A k \in 1 .. n : Products(s)[k] = (Products(s)[k - 1] * s[k]) % Q
         /\ \A k \in 0 .. n : Products(s)[k] \in Int
         /\ Product(s) = Products(s)[n]
<1>. DEFINE P == Products(s)
            Def(f) == f = [k \in 0 .. n |-> IF k = 0 THEN 1 ELSE (f[k - 1] * s[k]) % Q]
            step == [k \in 1 .. n |-> [y \in Int |-> (y * s[k]) % Q]]
            G == { j \in Nat : j <= n => P[j] \in Int }
<1>0. Q \in Nat \ {0} /\ Len(s) = n /\ \A k \in 1 .. n : s[k] \in Int
  BY ModulusFacts DEF IntSeqs
<1>1. \E f : Def(f)
  <2>1. step \in [1 .. n -> [Int -> Int]] /\ 1 \in Int
    BY <1>0
  <2>2. PICK f : Steps(1, n, step, f) /\ f \in [0 .. n -> Int]
    <3>. HIDE DEF step
    <3>. QED BY <2>1, StepsExist
  <2>3. ASSUME NEW k \in 0 .. n, k # 0 PROVE step[k][f[k - 1]] = (f[k - 1] * s[k]) % Q
    <3>1. k \in 1 .. n /\ k - 1 \in 0 .. n
      BY <2>3
    <3>2. f[k - 1] \in Int
      BY <2>2, <3>1
    <3>. QED BY <3>1, <3>2
  <2>. HIDE DEF step
  <2>4. Def(f)
    BY <2>2, <2>3 DEF Steps
  <2>. QED BY <2>4
<1>2. Def(P)
  BY <1>0, <1>1 DEF Products
<1>3. Product(s) = P[n]
  BY <1>0 DEF Product, Folded, Products
<1>. HIDE DEF P
<1>4. \A k \in 0 .. n : P[k] = IF k = 0 THEN 1 ELSE (P[k - 1] * s[k]) % Q
  BY <1>2
<1>5. P[0] = 1 /\ \A k \in 1 .. n : P[k] = (P[k - 1] * s[k]) % Q
  BY <1>4
<1>6. 0 \in G
  BY <1>5
<1>7. ASSUME NEW j \in Nat, j \in G PROVE j + 1 \in G
  <2>1. SUFFICES ASSUME j + 1 <= n PROVE P[j + 1] \in Int
    OBVIOUS
  <2>2. j + 1 \in 1 .. n /\ (j + 1) - 1 = j /\ P[j] \in Int
    BY <1>7, <2>1
  <2>. QED BY <1>0, <1>5, <2>2
<1>. HIDE DEF G
<1>8. \A j \in Nat : j \in G
  BY <1>6, <1>7, NaturalInduction
<1>9. \A j \in 0 .. n : P[j] \in Int
  BY <1>8 DEF G
<1>. QED BY <1>3, <1>5, <1>9 DEF P

LEMMA ProductInt ==
  ASSUME NEW n \in Nat, NEW s \in IntSeqs(n)
  PROVE  Product(s) \in Int /\ (n = 0 => Product(s) = 1)
<1>1. /\ Products(s)[0] = 1
      /\ \A k \in 0 .. n : Products(s)[k] \in Int
      /\ Product(s) = Products(s)[n]
  BY ProductsAre
<1>. QED BY <1>1

(* One more factor.                                                         *)
LEMMA ProductStep ==
  ASSUME NEW n \in Nat, NEW s \in IntSeqs(n + 1), NEW r \in IntSeqs(n),
         \A k \in 1 .. n : s[k] = r[k]
  PROVE  Product(s) = (Product(r) * s[n + 1]) % Q
<1>. DEFINE G == { j \in Nat : j <= n => Products(s)[j] = Products(r)[j] }
<1>0. n + 1 \in Nat
  OBVIOUS
<1>1. 0 \in G
  BY <1>0, ProductsAre
<1>2. ASSUME NEW j \in Nat, j \in G PROVE j + 1 \in G
  <2>1. SUFFICES ASSUME j + 1 <= n PROVE Products(s)[j + 1] = Products(r)[j + 1]
    OBVIOUS
  <2>2. j + 1 \in 1 .. n /\ j + 1 \in 1 .. (n + 1) /\ (j + 1) - 1 = j
    BY <2>1
  <2>3. Products(s)[j] = Products(r)[j]
    BY <1>2, <2>1
  <2>4. Products(s)[j + 1] = (Products(s)[j] * s[j + 1]) % Q
    BY <1>0, <2>2, ProductsAre
  <2>5. Products(r)[j + 1] = (Products(r)[j] * r[j + 1]) % Q
    BY <2>2, ProductsAre
  <2>. QED BY <2>2, <2>3, <2>4, <2>5
<1>. HIDE DEF G
<1>3. n \in G
  BY <1>1, <1>2, NaturalInduction
<1>4. Products(s)[n] = Products(r)[n]
  BY <1>3 DEF G
<1>5. n + 1 \in 1 .. (n + 1) /\ (n + 1) - 1 = n
  OBVIOUS
<1>6. Products(s)[n + 1] = (Products(s)[n] * s[n + 1]) % Q /\ Product(s) = Products(s)[n + 1]
  BY <1>0, <1>5, ProductsAre
<1>7. Product(r) = Products(r)[n]
  BY ProductsAre
<1>. QED BY <1>4, <1>6, <1>7

-----------------------------------------------------------------------------
(* SUMS BY HALVES *)

(* A table of length n is its lower and its upper half, and its even and    *)
(* its odd entries.                                                         *)
Halves(n, f, a, b) ==
  /\ \A x \in 0 .. (2 * n - 1) : f[x] \in Int
  /\ \A x \in 0 .. (n - 1) : a[x] = f[x] /\ b[x] = f[n + x]
Parities(n, f, a, b) ==
  /\ \A x \in 0 .. (2 * n - 1) : f[x] \in Int
  /\ \A x \in 0 .. (n - 1) : a[x] = f[2 * x] /\ b[x] = f[2 * x + 1]

LEMMA SumHalves ==
  ASSUME NEW n \in Nat, NEW f, NEW a, NEW b, Halves(n, f, a, b)
  PROVE  SumFunctionOnSet(f, 0 .. (2 * n - 1))
           = SumFunctionOnSet(a, 0 .. (n - 1)) + SumFunctionOnSet(b, 0 .. (n - 1))
<1>. DEFINE S == 0 .. (n - 1)
            T == n .. (2 * n - 1)
            h == [x \in S |-> n + x]
<1>0. /\ \A x \in 0 .. (2 * n - 1) : f[x] \in Int
      /\ \A x \in 0 .. (n - 1) : a[x] = f[x] /\ b[x] = f[n + x]
  BY DEF Halves
<1>1. IsFiniteSet(S) /\ IsFiniteSet(T)
  BY FS_Interval
<1>2. S \cap T = {} /\ S \cup T = 0 .. (2 * n - 1)
  OBVIOUS
<1>3. SumFunctionOnSet(f, S \cup T) = SumFunctionOnSet(f, S) + SumFunctionOnSet(f, T)
  <2>1. \A x \in S \cup T : f[x] \in Int
    BY <1>0, <1>2
  <2>. HIDE DEF S, T
  <2>. QED BY <1>1, <1>2, <2>1, SumDisjoint
<1>4. SumFunctionOnSet(a, S) = SumFunctionOnSet(f, S)
  <2>1. \A x \in S : a[x] = f[x]
    BY <1>0
  <2>. HIDE DEF S
  <2>. QED BY <1>1, <2>1, SumEqual
<1>5. SumFunctionOnSet(b, S) = SumFunctionOnSet(f, T)
  <2>1. \A x, y \in S : h[x] = h[y] => x = y
    OBVIOUS
  <2>2. \A x \in S : f[h[x]] \in Int /\ b[x] = f[h[x]]
    <3>1. ASSUME NEW x \in S PROVE f[h[x]] \in Int /\ b[x] = f[h[x]]
      <4>1. h[x] = n + x /\ n + x \in 0 .. (2 * n - 1)
        OBVIOUS
      <4>. QED BY <1>0, <4>1
    <3>. QED BY <3>1
  <2>3. { h[x] : x \in S } = T
    <3>1. ASSUME NEW y \in T PROVE \E x \in S : y = h[x]
      <4>1. y - n \in S /\ y = n + (y - n)
        OBVIOUS
      <4>. QED BY <4>1
    <3>2. \A x \in S : h[x] \in T
      OBVIOUS
    <3>. HIDE DEF S, T, h
    <3>. QED BY <3>1, <3>2
  <2>. HIDE DEF S, T, h
  <2>4. SumFunctionOnSet(b, S) = SumFunctionOnSet(f, { h[x] : x \in S })
    BY <1>1, <2>1, <2>2, SumReindex
  <2>. QED BY <2>3, <2>4
<1>. HIDE DEF S, T
<1>6. SumFunctionOnSet(f, S \cup T) = SumFunctionOnSet(a, S) + SumFunctionOnSet(b, S)
  BY <1>3, <1>4, <1>5
<1>. QED BY <1>2, <1>6 DEF S

LEMMA SumParity ==
  ASSUME NEW n \in Nat, NEW f, NEW a, NEW b, Parities(n, f, a, b)
  PROVE  SumFunctionOnSet(f, 0 .. (2 * n - 1))
           = SumFunctionOnSet(a, 0 .. (n - 1)) + SumFunctionOnSet(b, 0 .. (n - 1))
<1>. DEFINE S == 0 .. (n - 1)
            h == [x \in S |-> 2 * x]
            g == [x \in S |-> 2 * x + 1]
            E == { h[x] : x \in S }
            O == { g[x] : x \in S }
<1>0. /\ \A x \in 0 .. (2 * n - 1) : f[x] \in Int
      /\ \A x \in 0 .. (n - 1) : a[x] = f[2 * x] /\ b[x] = f[2 * x + 1]
  BY DEF Parities
<1>1. IsFiniteSet(S)
  BY FS_Interval
<1>2. IsFiniteSet(E) /\ IsFiniteSet(O)
  <2>1. E \subseteq 0 .. (2 * n - 1) /\ O \subseteq 0 .. (2 * n - 1)
    OBVIOUS
  <2>2. IsFiniteSet(0 .. (2 * n - 1))
    BY FS_Interval
  <2>. HIDE DEF E, O
  <2>. QED BY <2>1, <2>2, FS_Subset
<1>3. E \cap O = {}
  OBVIOUS
<1>4. E \cup O = 0 .. (2 * n - 1)
  <2>1. ASSUME NEW y \in 0 .. (2 * n - 1) PROVE y \in E \cup O
    <3>1. y \div 2 \in S /\ (y = 2 * (y \div 2) \/ y = 2 * (y \div 2) + 1)
      OBVIOUS
    <3>2. h[y \div 2] = 2 * (y \div 2) /\ g[y \div 2] = 2 * (y \div 2) + 1
      BY <3>1
    <3>. QED BY <3>1, <3>2
  <2>2. \A y \in E \cup O : y \in 0 .. (2 * n - 1)
    OBVIOUS
  <2>. HIDE DEF E, O
  <2>. QED BY <2>1, <2>2
<1>5. SumFunctionOnSet(f, E \cup O) = SumFunctionOnSet(f, E) + SumFunctionOnSet(f, O)
  <2>1. \A x \in E \cup O : f[x] \in Int
    BY <1>0, <1>4
  <2>. HIDE DEF E, O
  <2>. QED BY <1>2, <1>3, <2>1, SumDisjoint
<1>6. SumFunctionOnSet(a, S) = SumFunctionOnSet(f, E)
  <2>1. \A x, y \in S : h[x] = h[y] => x = y
    OBVIOUS
  <2>2. ASSUME NEW x \in S PROVE f[h[x]] \in Int /\ a[x] = f[h[x]]
    <3>1. h[x] = 2 * x /\ 2 * x \in 0 .. (2 * n - 1)
      OBVIOUS
    <3>. QED BY <1>0, <3>1
  <2>. HIDE DEF S, h
  <2>. QED BY <1>1, <2>1, <2>2, SumReindex
<1>7. SumFunctionOnSet(b, S) = SumFunctionOnSet(f, O)
  <2>1. \A x, y \in S : g[x] = g[y] => x = y
    OBVIOUS
  <2>2. ASSUME NEW x \in S PROVE f[g[x]] \in Int /\ b[x] = f[g[x]]
    <3>1. g[x] = 2 * x + 1 /\ 2 * x + 1 \in 0 .. (2 * n - 1)
      OBVIOUS
    <3>. QED BY <1>0, <3>1
  <2>. HIDE DEF S, g
  <2>. QED BY <1>1, <2>1, <2>2, SumReindex
<1>. HIDE DEF S, E, O
<1>8. SumFunctionOnSet(f, E \cup O) = SumFunctionOnSet(a, S) + SumFunctionOnSet(b, S)
  BY <1>5, <1>6, <1>7
<1>. QED BY <1>4, <1>8 DEF S

-----------------------------------------------------------------------------
(* TABLES, KERNELS AND THEIR FOLDS *)

Table(n) == [0 .. (n - 1) -> Fp]
CubeTable(k) == Table(Pow(2, k))

LEMMA TabulateIs ==
  ASSUME NEW f
  PROVE  Tabulate(f) = f
BY DEF Tabulate

LEMMA SizeIs ==
  ASSUME NEW n \in Nat, NEW t, DOMAIN t = 0 .. (n - 1)
  PROVE  Size(t) = n
<1>1. Cardinality(0 .. (n - 1)) = IF 0 <= n - 1 THEN (n - 1) - 0 + 1 ELSE 0
  BY FS_Interval
<1>. QED BY <1>1 DEF Size

LEMMA CubeFacts ==
  ASSUME NEW k \in Nat, NEW t \in CubeTable(k)
  PROVE  /\ Size(t) = Pow(2, k) /\ DOMAIN t = 0 .. (Pow(2, k) - 1)
         /\ \A x \in 0 .. (Pow(2, k) - 1) : t[x] \in Fp /\ t[x] \in Int
<1>1. Pow(2, k) \in Nat \ {0}
  BY TwoPow
<1>2. DOMAIN t = 0 .. (Pow(2, k) - 1) /\ \A x \in 0 .. (Pow(2, k) - 1) : t[x] \in Fp
  BY DEF CubeTable, Table
<1>3. Size(t) = Pow(2, k)
  BY <1>1, <1>2, SizeIs
<1>. QED BY <1>2, <1>3, ModulusFacts DEF Fp

(* An even and an odd index of a table of 2^k entries.                      *)
LEMMA PairIndex ==
  ASSUME NEW k \in Nat \ {0}
  PROVE  /\ Pow(2, k) = 2 * Pow(2, k - 1) /\ Pow(2, k - 1) \in Nat \ {0}
         /\ Pow(2, k) \div 2 = Pow(2, k - 1)
         /\ \A y \in 0 .. (Pow(2, k - 1) - 1) : 2 * y \in 0 .. (Pow(2, k) - 1)
                                             /\ 2 * y + 1 \in 0 .. (Pow(2, k) - 1)
<1>1. Pow(2, k) = 2 * Pow(2, k - 1)
  BY TwoPow
<1>2. Pow(2, k - 1) \in Nat \ {0}
  BY TwoPow
<1>. QED BY <1>1, <1>2

LEMMA LayerType ==
  ASSUME NEW k \in Nat \ {0}, NEW t \in CubeTable(k), NEW a \in Fp
  PROVE  /\ Layer(t, a) \in CubeTable(k - 1)
         /\ \A j \in 0 .. (Pow(2, k - 1) - 1) :
              Layer(t, a)[j] = ((1 - a) * t[2 * j] + a * t[2 * j + 1]) % Q
<1>. DEFINE f == [j \in 0 .. (Size(t) \div 2 - 1) |-> ((1 - a) * t[2 * j] + a * t[2 * j + 1]) % Q]
<1>1. Size(t) \div 2 = Pow(2, k - 1)
  BY CubeFacts, PairIndex
<1>2. Layer(t, a) = f
  BY TabulateIs DEF Layer
<1>3. \A j \in 0 .. (Pow(2, k - 1) - 1) : f[j] = ((1 - a) * t[2 * j] + a * t[2 * j + 1]) % Q
  BY <1>1
<1>4. DOMAIN f = 0 .. (Pow(2, k - 1) - 1) /\ f = [j \in DOMAIN f |-> f[j]]
  BY <1>1
<1>. HIDE DEF f
<1>5. ASSUME NEW j \in 0 .. (Pow(2, k - 1) - 1) PROVE f[j] \in Fp
  <2>1. 2 * j \in 0 .. (Pow(2, k) - 1) /\ 2 * j + 1 \in 0 .. (Pow(2, k) - 1)
    BY PairIndex
  <2>2. t[2 * j] \in Int /\ t[2 * j + 1] \in Int /\ a \in Int
    BY <2>1, CubeFacts, ModulusFacts DEF Fp
  <2>3. (1 - a) * t[2 * j] + a * t[2 * j + 1] \in Int
    BY <2>2
  <2>. QED BY <1>3, <2>3, ModSmall
<1>. QED BY <1>2, <1>3, <1>4, <1>5 DEF CubeTable, Table

(* A layer of residues is a layer of what they are residues of.             *)
LEMMA MixResidue ==
  ASSUME NEW a \in Int, NEW x \in Int, NEW y \in Int
  PROVE  ((1 - a) * (x % Q) + a * (y % Q)) % Q = ((1 - a) * x + a * y) % Q
<1>. DEFINE u == (x % Q) * (1 - a)
            v == (y % Q) * a
            u1 == x * (1 - a)
            v1 == y * a
<1>1. 1 - a \in Int /\ Q \in Nat \ {0} /\ x % Q \in Int /\ y % Q \in Int
  BY ModulusFacts
<1>2. u % Q = u1 % Q /\ v % Q = v1 % Q
  BY <1>1, ModScale
<1>3. (1 - a) * (x % Q) = u /\ a * (y % Q) = v /\ u \in Int /\ v \in Int
  BY <1>1
<1>4. (1 - a) * x = u1 /\ a * y = v1 /\ u1 \in Int /\ v1 \in Int
  BY <1>1
<1>. HIDE DEF u, v, u1, v1
<1>5. (u + v) % Q = ((u % Q) + v) % Q /\ ((u % Q) + v) % Q = ((u % Q) + (v % Q)) % Q
  <2>1. u % Q \in Int
    BY <1>1, <1>3
  <2>. QED BY <1>3, <2>1, ModAdd
<1>6. (u1 + v1) % Q = ((u1 % Q) + v1) % Q /\ ((u1 % Q) + v1) % Q = ((u1 % Q) + (v1 % Q)) % Q
  <2>1. u1 % Q \in Int
    BY <1>1, <1>4
  <2>. QED BY <1>4, <2>1, ModAdd
<1>. QED BY <1>2, <1>3, <1>4, <1>5, <1>6

LEMMA BitType ==
  ASSUME NEW i \in Nat, NEW k \in Nat \ {0}
  PROVE  Bit(i, k) \in 0 .. 1
<1>1. Pow(2, k - 1) \in Nat \ {0}
  BY TwoPow
<1>2. i \div Pow(2, k - 1) \in Int
  BY <1>1
<1>. QED BY <1>2 DEF Bit

LEMMA EqFactorFacts ==
  ASSUME NEW t \in Int, NEW a \in Int
  PROVE  /\ EqFactor(t, a) \in Int /\ EqFactor(t, a) = EqFactor(a, t)
         /\ EqFactor(0, a) = 1 - a /\ EqFactor(1, a) = a
BY DEF EqFactor

(* The factors of the kernel of p at l.                                     *)
KernelFactors(p, l) == [k \in 1 .. Len(p) |-> EqFactor(Bit(l, k), p[k])]

LEMMA KernelFactorsType ==
  ASSUME NEW p \in Seq(Fp), NEW l \in Nat
  PROVE  KernelFactors(p, l) \in IntSeqs(Len(p))
<1>1. ASSUME NEW k \in 1 .. Len(p) PROVE EqFactor(Bit(l, k), p[k]) \in Int
  <2>1. Bit(l, k) \in Int /\ p[k] \in Int
    BY BitType, ModulusFacts DEF Fp
  <2>. QED BY <2>1, EqFactorFacts
<1>. QED BY <1>1 DEF KernelFactors, IntSeqs

LEMMA KernelIs ==
  ASSUME NEW p \in Seq(Fp)
  PROVE  /\ DOMAIN Kernel(p) = 0 .. (Pow(2, Len(p)) - 1)
         /\ \A l \in 0 .. (Pow(2, Len(p)) - 1) :
              Kernel(p)[l] = Product(KernelFactors(p, l)) /\ Kernel(p)[l] \in Int
<1>1. Kernel(p) = [l \in 0 .. (Pow(2, Len(p)) - 1) |-> Product(KernelFactors(p, l))]
  BY TabulateIs DEF Kernel, Pi, KernelFactors
<1>2. ASSUME NEW l \in 0 .. (Pow(2, Len(p)) - 1) PROVE Product(KernelFactors(p, l)) \in Int
  <2>1. l \in Nat /\ Len(p) \in Nat
    OBVIOUS
  <2>. QED BY <2>1, KernelFactorsType, ProductInt
<1>. QED BY <1>1, <1>2

LEMMA KernelEmpty ==
  /\ DOMAIN Kernel(<< >>) = {0} /\ Kernel(<< >>)[0] = 1
<1>1. << >> \in Seq(Fp) /\ Len(<< >>) = 0 /\ Pow(2, 0) = 1
  BY TwoPow
<1>2. KernelFactors(<< >>, 0) \in IntSeqs(0)
  BY <1>1, KernelFactorsType
<1>3. Product(KernelFactors(<< >>, 0)) = 1
  BY <1>2, ProductInt
<1>4. 0 .. (Pow(2, 0) - 1) = {0}
  BY <1>1
<1>. QED BY <1>1, <1>3, <1>4, KernelIs

(* One more coordinate doubles the kernel, the new bit on top.              *)
LEMMA KernelStep ==
  ASSUME NEW p \in Seq(Fp), NEW a \in Fp, NEW l \in 0 .. (Pow(2, Len(p)) - 1), NEW b \in 0 .. 1
  PROVE  /\ l + Pow(2, Len(p)) * b \in 0 .. (Pow(2, Len(p) + 1) - 1)
         /\ Kernel(Append(p, a))[l + Pow(2, Len(p)) * b] = (Kernel(p)[l] * EqFactor(b, a)) % Q
<1>. DEFINE n == Len(p)
            r == Append(p, a)
            x == l + Pow(2, n) * b
<1>1. n \in Nat /\ r \in Seq(Fp) /\ Len(r) = n + 1
  OBVIOUS
<1>2. r[n + 1] = a /\ \A k \in 1 .. n : r[k] = p[k]
  OBVIOUS
<1>3. Pow(2, n + 1) = 2 * Pow(2, n) /\ Pow(2, n) \in Nat \ {0}
  BY <1>1, TwoPow
<1>4. x \in 0 .. (Pow(2, n + 1) - 1) /\ x \in Nat /\ l \in Nat
  <2>1. b = 0 \/ b = 1
    OBVIOUS
  <2>2. Pow(2, n) * 0 = 0 /\ Pow(2, n) * 1 = Pow(2, n)
    BY <1>3
  <2>. QED BY <1>3, <2>1, <2>2
<1>5. Bit(x, n + 1) = b /\ \A k \in 1 .. n : Bit(x, k) = Bit(l, k)
  BY <1>1, BitTop
<1>. HIDE DEF n, r, x
<1>6. KernelFactors(r, x) \in IntSeqs(n + 1) /\ KernelFactors(p, l) \in IntSeqs(n)
  <2>1. KernelFactors(r, x) \in IntSeqs(Len(r))
    BY <1>1, <1>4, KernelFactorsType
  <2>2. KernelFactors(p, l) \in IntSeqs(Len(p))
    BY <1>4, KernelFactorsType
  <2>. QED BY <1>1, <2>1, <2>2 DEF n
<1>7. \A k \in 1 .. n : KernelFactors(r, x)[k] = KernelFactors(p, l)[k]
  BY <1>1, <1>2, <1>5 DEF KernelFactors, n
<1>8. KernelFactors(r, x)[n + 1] = EqFactor(b, a)
  <2>1. n + 1 \in 1 .. Len(r)
    BY <1>1
  <2>. QED BY <1>2, <1>5, <2>1 DEF KernelFactors
<1>9. Product(KernelFactors(r, x)) = (Product(KernelFactors(p, l)) * EqFactor(b, a)) % Q
  BY <1>1, <1>6, <1>7, <1>8, ProductStep
<1>10. Kernel(r)[x] = Product(KernelFactors(r, x))
  BY <1>1, <1>4, KernelIs
<1>11. Kernel(p)[l] = Product(KernelFactors(p, l))
  BY KernelIs
<1>. QED BY <1>4, <1>9, <1>10, <1>11 DEF x, r, n

-----------------------------------------------------------------------------
(* Substituting the first variables. *)

Cell(t, p, x) ==
  [l \in 0 .. (Pow(2, Len(p)) - 1) |-> t[x * Pow(2, Len(p)) + l] * Kernel(p)[l]]

(* The entries under x.                                                     *)
LEMMA CellType ==
  ASSUME NEW k \in Nat, NEW t \in CubeTable(k), NEW p \in Seq(Fp), Len(p) <= k,
         NEW x \in 0 .. (Pow(2, k - Len(p)) - 1)
  PROVE  \A l \in 0 .. (Pow(2, Len(p)) - 1) :
           /\ x * Pow(2, Len(p)) + l \in 0 .. (Pow(2, k) - 1)
           /\ Cell(t, p, x)[l] = t[x * Pow(2, Len(p)) + l] * Kernel(p)[l]
           /\ Cell(t, p, x)[l] \in Int
<1>. DEFINE N == Pow(2, Len(p))
            H == Pow(2, k - Len(p))
<1>1. N \in Nat \ {0} /\ H \in Nat \ {0} /\ Pow(2, k) = N * H
  <2>1. Len(p) \in Nat /\ k - Len(p) \in Nat /\ Len(p) + (k - Len(p)) = k
    OBVIOUS
  <2>2. Pow(2, Len(p) + (k - Len(p))) = N * H
    BY <2>1, PowSum
  <2>. QED BY <2>1, <2>2, TwoPow
<1>2. ASSUME NEW l \in 0 .. (N - 1)
      PROVE  x * N + l \in 0 .. (Pow(2, k) - 1)
  <2>. HIDE DEF N, H
  <2>1. x \in Nat /\ x <= H - 1
    BY <1>1 DEF H
  <2>2. N * x \in Nat /\ N * x <= N * (H - 1)
    BY <1>1, <2>1
  <2>3. N * (H - 1) = N * H - N /\ N * H \in Nat /\ x * N = N * x
    BY <1>1, <2>1
  <2>. QED BY <1>1, <2>2, <2>3
<1>3. ASSUME NEW l \in 0 .. (N - 1)
      PROVE  t[x * N + l] \in Int /\ Kernel(p)[l] \in Int
  BY <1>2, CubeFacts, KernelIs
<1>4. ASSUME NEW l \in 0 .. (N - 1)
      PROVE  Cell(t, p, x)[l] = t[x * N + l] * Kernel(p)[l]
  BY DEF Cell
<1>5. ASSUME NEW l \in 0 .. (N - 1)
      PROVE  Cell(t, p, x)[l] \in Int
  <2>. HIDE DEF N
  <2>. QED BY <1>3, <1>4
<1>. QED BY <1>2, <1>4, <1>5 DEF N

LEMMA BoundIs ==
  ASSUME NEW k \in Nat, NEW t \in CubeTable(k), NEW p \in Seq(Fp), Len(p) <= k
  PROVE  /\ Bound(t, p) \in CubeTable(k - Len(p))
         /\ \A x \in 0 .. (Pow(2, k - Len(p)) - 1) :
              Bound(t, p)[x] = SumFunctionOnSet(Cell(t, p, x), 0 .. (Pow(2, Len(p)) - 1)) % Q
<1>. DEFINE N == Pow(2, Len(p))
            H == Pow(2, k - Len(p))
            S == 0 .. (N - 1)
            f == [x \in 0 .. (Size(t) \div N - 1) |->
                    SumFunction([l \in S |-> t[x * N + l] * Kernel(p)[l]]) % Q]
<1>1. N \in Nat \ {0} /\ H \in Nat \ {0} /\ Pow(2, k) = N * H
  <2>1. Len(p) \in Nat /\ k - Len(p) \in Nat /\ Len(p) + (k - Len(p)) = k
    OBVIOUS
  <2>2. Pow(2, Len(p) + (k - Len(p))) = N * H
    BY <2>1, PowSum
  <2>. QED BY <2>1, <2>2, TwoPow
<1>2. Size(t) \div N = H
  <2>1. Size(t) = N * H
    BY <1>1, CubeFacts
  <2>. HIDE DEF N, H
  <2>2. N * H + 0 = N * H /\ 0 \in 0 .. (N - 1)
    BY <1>1
  <2>. QED BY <1>1, <2>1, <2>2, SplitAt
<1>3. Bound(t, p) = f
  BY TabulateIs DEF Bound, Sigma
<1>4. ASSUME NEW x \in 0 .. (H - 1)
      PROVE  f[x] = SumFunctionOnSet(Cell(t, p, x), S) % Q /\ f[x] \in Fp
  <2>1. f[x] = SumFunction([l \in S |-> t[x * N + l] * Kernel(p)[l]]) % Q
    BY <1>2
  <2>2. [l \in S |-> t[x * N + l] * Kernel(p)[l]] = Cell(t, p, x)
    BY DEF Cell
  <2>3. DOMAIN Cell(t, p, x) = S
    BY DEF Cell
  <2>4. \A l \in S : Cell(t, p, x)[l] \in Int
    BY CellType
  <2>5. IsFiniteSet(S)
    <3>. HIDE DEF N
    <3>. QED BY <1>1, FS_Interval
  <2>. HIDE DEF S, f, N, H
  <2>6. SumFunctionOnSet(Cell(t, p, x), S) \in Int
    BY <2>4, <2>5, SumInt
  <2>7. f[x] = SumFunctionOnSet(Cell(t, p, x), S) % Q
    BY <2>1, <2>2, <2>3 DEF SumFunction
  <2>. QED BY <2>6, <2>7, ModSmall
<1>5. DOMAIN f = 0 .. (H - 1) /\ f = [x \in DOMAIN f |-> f[x]]
  BY <1>2
<1>. HIDE DEF f
<1>. QED BY <1>3, <1>4, <1>5 DEF CubeTable, Table

(* Nothing substituted.                                                     *)
LEMMA BoundEmpty ==
  ASSUME NEW k \in Nat, NEW t \in CubeTable(k)
  PROVE  Bound(t, << >>) = t
<1>. DEFINE e == << >>
<1>1. e \in Seq(Fp) /\ Len(e) = 0 /\ Pow(2, 0) = 1 /\ k - 0 = k
  BY TwoPow
<1>. HIDE DEF e
<1>2. Bound(t, e) \in CubeTable(k)
  <2>1. Len(e) <= k
    BY <1>1
  <2>2. Bound(t, e) \in CubeTable(k - Len(e))
    BY <1>1, <2>1, BoundIs
  <2>. QED BY <1>1, <2>2
<1>3. ASSUME NEW x \in 0 .. (Pow(2, k) - 1) PROVE Bound(t, e)[x] = t[x]
  <2>1. 0 .. (Pow(2, Len(e)) - 1) = {0}
    BY <1>1
  <2>2. Bound(t, e)[x] = SumFunctionOnSet(Cell(t, e, x), {0}) % Q
    <3>1. x \in 0 .. (Pow(2, k - Len(e)) - 1) /\ Len(e) <= k
      BY <1>1
    <3>. DEFINE C == Cell(t, e, x)
                N == 0 .. (Pow(2, Len(e)) - 1)
    <3>2. Bound(t, e)[x] = SumFunctionOnSet(C, N) % Q
      <4>1. /\ Bound(t, e) \in CubeTable(k - Len(e))
            /\ \A y \in 0 .. (Pow(2, k - Len(e)) - 1) :
                 Bound(t, e)[y] = SumFunctionOnSet(Cell(t, e, y), 0 .. (Pow(2, Len(e)) - 1)) % Q
        <5>1. Len(e) <= k
          BY <1>1
        <5>. QED BY <1>1, <5>1, BoundIs
      <4>. DEFINE X == 0 .. (Pow(2, k - Len(e)) - 1)
                  R(y) == SumFunctionOnSet(Cell(t, e, y), 0 .. (Pow(2, Len(e)) - 1)) % Q
      <4>2. x \in X /\ \A y \in X : Bound(t, e)[y] = R(y)
        BY <3>1, <4>1
      <4>. HIDE DEF X, R
      <4>3. Bound(t, e)[x] = R(x)
        BY <4>2
      <4>. QED BY <4>3 DEF R
    <3>3. N = {0}
      BY <2>1
    <3>. HIDE DEF C, N
    <3>4. SumFunctionOnSet(C, N) = SumFunctionOnSet(C, {0})
      BY <3>3
    <3>. QED BY <3>2, <3>4 DEF C
  <2>3. Cell(t, e, x)[0] = t[x]
    <3>1. Cell(t, e, x)[0] = t[x * Pow(2, Len(e)) + 0] * Kernel(e)[0]
      BY <2>1 DEF Cell
    <3>2. x * 1 + 0 = x /\ t[x] \in Int /\ Kernel(e)[0] = 1
      BY CubeFacts, KernelEmpty DEF e
    <3>. QED BY <1>1, <3>1, <3>2
  <2>4. t[x] \in Fp /\ t[x] \in Int
    BY CubeFacts
  <2>5. SumFunctionOnSet(Cell(t, e, x), {0}) = t[x]
    <3>1. IsFiniteSet({0}) /\ 0 \in {0} /\ \A y \in {0} \ {0} : Cell(t, e, x)[y] = 0
      BY FS_Singleton
    <3>. QED BY <2>3, <2>4, <3>1, SumSingle
  <2>. QED BY <2>2, <2>4, <2>5, ModSmall
<1>4. t \in CubeTable(k)
  OBVIOUS
<1>5. Bound(t, e) = t
  <2>. DEFINE D == 0 .. (Pow(2, k) - 1)
  <2>1. Bound(t, e) \in [D -> Fp] /\ t \in [D -> Fp] /\ \A x \in D : Bound(t, e)[x] = t[x]
    BY <1>2, <1>3, <1>4 DEF CubeTable, Table
  <2>. HIDE DEF D
  <2>. QED BY <2>1
<1>. QED BY <1>5 DEF e

(* One variable more: the layer of what is bound already.                   *)
LEMMA BoundStep ==
  ASSUME NEW k \in Nat, NEW t \in CubeTable(k), NEW p \in Seq(Fp), Len(p) < k, NEW a \in Fp,
         NEW y \in 0 .. (Pow(2, k - Len(p) - 1) - 1)
  PROVE  Bound(t, Append(p, a))[y] = ((1 - a) * Bound(t, p)[2 * y] + a * Bound(t, p)[2 * y + 1]) % Q
<1>. DEFINE n == Len(p)
            N == Pow(2, n)
            H == Pow(2, k - n - 1)
            r == Append(p, a)
            c == Cell(t, r, y)
            c0 == Cell(t, p, 2 * y)
            c1 == Cell(t, p, 2 * y + 1)
            lo == [l \in 0 .. (N - 1) |-> (1 - a) * c0[l]]
            hi == [l \in 0 .. (N - 1) |-> a * c1[l]]
            g == [x \in 0 .. (2 * N - 1) |-> IF x < N THEN lo[x] ELSE hi[x - N]]
            s0 == SumFunctionOnSet(c0, 0 .. (N - 1))
            s1 == SumFunctionOnSet(c1, 0 .. (N - 1))
<1>1. /\ n \in Nat /\ k - n \in Nat \ {0} /\ r \in Seq(Fp) /\ Len(r) = n + 1
      /\ a \in Int /\ k - (n + 1) = k - n - 1 /\ n + 1 <= k /\ n <= k /\ k - n - 1 \in Nat
  BY ModulusFacts DEF Fp
<1>2. N \in Nat \ {0} /\ Pow(2, n + 1) = 2 * N /\ H \in Nat \ {0} /\ Pow(2, k - n) = 2 * H
  BY <1>1, TwoPow
<1>3. y \in 0 .. (H - 1) /\ 2 * y \in 0 .. (Pow(2, k - n) - 1) /\ 2 * y + 1 \in 0 .. (Pow(2, k - n) - 1)
  <2>1. y \in 0 .. (H - 1)
    OBVIOUS
  <2>. HIDE DEF H
  <2>. QED BY <1>2, <2>1
<1>4. ASSUME NEW l \in 0 .. (N - 1), NEW b \in 0 .. 1
      PROVE  /\ l + N * b \in 0 .. (2 * N - 1)
             /\ c[l + N * b] = t[(2 * y + b) * N + l] * ((Kernel(p)[l] * EqFactor(b, a)) % Q)
             /\ c[l + N * b] \in Int
  <2>1. /\ l + N * b \in 0 .. (Pow(2, n + 1) - 1)
        /\ Kernel(r)[l + N * b] = (Kernel(p)[l] * EqFactor(b, a)) % Q
    BY KernelStep
  <2>2. y \in 0 .. (Pow(2, k - Len(r)) - 1) /\ Len(r) <= k
    BY <1>1, <1>3
  <2>3. l + N * b \in 0 .. (Pow(2, Len(r)) - 1)
    BY <1>1, <2>1
  <2>4. c[l + N * b] = t[y * Pow(2, Len(r)) + (l + N * b)] * Kernel(r)[l + N * b] /\ c[l + N * b] \in Int
    <3>1. \A z \in 0 .. (Pow(2, Len(r)) - 1) :
            c[z] = t[y * Pow(2, Len(r)) + z] * Kernel(r)[z] /\ c[z] \in Int
      <4>1. r \in Seq(Fp)
        BY <1>1
      <4>. HIDE DEF r, N, n, H
      <4>. QED BY <2>2, <4>1, CellType
    <3>. HIDE DEF c, r, N
    <3>. QED BY <2>3, <3>1
  <2>5. y * Pow(2, Len(r)) + (l + N * b) = (2 * y + b) * N + l
    <3>1. Pow(2, Len(r)) = 2 * N
      BY <1>1, <1>2
    <3>2. y \in Nat /\ l \in Nat /\ b \in Nat
      BY <1>3
    <3>. HIDE DEF N
    <3>3. y * (2 * N) + (l + N * b) = (2 * y + b) * N + l
      <4>1. y * (2 * N) = (2 * y) * N /\ (2 * y + b) * N = (2 * y) * N + N * b
        BY <1>2, <3>2
      <4>2. (2 * y) * N \in Int /\ N * b \in Int
        BY <1>2, <3>2
      <4>. QED BY <3>2, <4>1, <4>2
    <3>. QED BY <3>1, <3>3
  <2>. QED BY <1>2, <2>1, <2>4, <2>5
<1>5. ASSUME NEW l \in 0 .. (N - 1)
      PROVE  /\ c0[l] = t[(2 * y) * N + l] * Kernel(p)[l] /\ c0[l] \in Int
             /\ c1[l] = t[(2 * y + 1) * N + l] * Kernel(p)[l] /\ c1[l] \in Int
             /\ t[(2 * y) * N + l] \in Int /\ t[(2 * y + 1) * N + l] \in Int /\ Kernel(p)[l] \in Int
  <2>1. c0[l] = t[(2 * y) * N + l] * Kernel(p)[l] /\ c0[l] \in Int /\ (2 * y) * N + l \in 0 .. (Pow(2, k) - 1)
    BY <1>1, <1>3, CellType
  <2>2. c1[l] = t[(2 * y + 1) * N + l] * Kernel(p)[l] /\ c1[l] \in Int /\ (2 * y + 1) * N + l \in 0 .. (Pow(2, k) - 1)
    BY <1>1, <1>3, CellType
  <2>. QED BY <2>1, <2>2, CubeFacts, KernelIs
<1>6. ASSUME NEW u \in Int, NEW v \in Int, NEW w \in Int
      PROVE  (u * ((v * w) % Q)) % Q = (w * (u * v)) % Q
  <2>1. v * w \in Int /\ u * ((v * w) % Q) = ((v * w) % Q) * u
    BY <1>6, ModulusFacts
  <2>2. (((v * w) % Q) * u) % Q = ((v * w) * u) % Q
    BY <1>6, <2>1, ModScale
  <2>3. (v * w) * u = w * (u * v)
    BY <1>6
  <2>. QED BY <2>1, <2>2, <2>3
<1>7. EqFactor(0, a) = 1 - a /\ EqFactor(1, a) = a
  BY <1>1, EqFactorFacts
<1>. HIDE DEF N, H, c, c0, c1, n, r
<1>8. ASSUME NEW x \in 0 .. (2 * N - 1)
      PROVE  c[x] \in Int /\ g[x] \in Int /\ c[x] % Q = g[x] % Q
  <2>1. CASE x < N
    <3>1. x \in 0 .. (N - 1) /\ 0 \in 0 .. 1 /\ x + N * 0 = x /\ 2 * y + 0 = 2 * y
      BY <1>2, <1>3, <2>1
    <3>2. c[x] = t[(2 * y) * N + x] * ((Kernel(p)[x] * (1 - a)) % Q) /\ c[x] \in Int
      BY <1>4, <1>7, <3>1
    <3>3. g[x] = (1 - a) * c0[x]
      BY <2>1, <3>1
    <3>4. c0[x] = t[(2 * y) * N + x] * Kernel(p)[x] /\ c0[x] \in Int /\ t[(2 * y) * N + x] \in Int /\ Kernel(p)[x] \in Int
      BY <1>5, <3>1
    <3>5. 1 - a \in Int
      BY <1>1
    <3>6. (t[(2 * y) * N + x] * ((Kernel(p)[x] * (1 - a)) % Q)) % Q = ((1 - a) * (t[(2 * y) * N + x] * Kernel(p)[x])) % Q
      BY <1>6, <3>4, <3>5
    <3>7. (1 - a) * c0[x] \in Int
      BY <3>4, <3>5
    <3>. HIDE DEF g
    <3>. QED BY <3>2, <3>3, <3>4, <3>6, <3>7
  <2>2. CASE ~(x < N)
    <3>. DEFINE z == x - N
    <3>1. z \in 0 .. (N - 1) /\ 1 \in 0 .. 1 /\ z + N * 1 = x /\ x \in 0 .. (2 * N - 1)
      BY <1>2, <2>2
    <3>3. g[x] = a * c1[z]
      BY <2>2, <3>1
    <3>. HIDE DEF z, g
    <3>2. c[x] = t[(2 * y + 1) * N + z] * ((Kernel(p)[z] * a) % Q) /\ c[x] \in Int
      BY <1>4, <1>7, <3>1
    <3>4. c1[z] = t[(2 * y + 1) * N + z] * Kernel(p)[z] /\ c1[z] \in Int /\ t[(2 * y + 1) * N + z] \in Int /\ Kernel(p)[z] \in Int
      BY <1>5, <3>1
    <3>6. (t[(2 * y + 1) * N + z] * ((Kernel(p)[z] * a) % Q)) % Q = (a * (t[(2 * y + 1) * N + z] * Kernel(p)[z])) % Q
      BY <1>1, <1>6, <3>4
    <3>7. a * c1[z] \in Int
      BY <1>1, <3>4
    <3>. QED BY <3>2, <3>3, <3>4, <3>6, <3>7
  <2>. QED BY <2>1, <2>2
<1>9. SumFunctionOnSet(c, 0 .. (2 * N - 1)) % Q = SumFunctionOnSet(g, 0 .. (2 * N - 1)) % Q
  <2>1. IsFiniteSet(0 .. (2 * N - 1))
    BY <1>2, FS_Interval
  <2>. HIDE DEF g
  <2>. QED BY <1>8, <2>1, SumModEqual
<1>10. SumFunctionOnSet(g, 0 .. (2 * N - 1)) = SumFunctionOnSet(lo, 0 .. (N - 1)) + SumFunctionOnSet(hi, 0 .. (N - 1))
  <2>1. \A x \in 0 .. (N - 1) : lo[x] = g[x] /\ hi[x] = g[N + x]
    <3>1. ASSUME NEW x \in 0 .. (N - 1) PROVE lo[x] = g[x] /\ hi[x] = g[N + x]
      <4>1. x \in 0 .. (2 * N - 1) /\ x < N /\ N + x \in 0 .. (2 * N - 1) /\ ~(N + x < N) /\ (N + x) - N = x
        BY <1>2
      <4>2. g[x] = lo[x]
        BY <4>1
      <4>3. g[N + x] = hi[(N + x) - N]
        BY <4>1
      <4>. HIDE DEF g, lo, hi
      <4>. QED BY <4>1, <4>2, <4>3
    <3>. QED BY <3>1
  <2>2. N \in Nat
    BY <1>2
  <2>. HIDE DEF g, lo, hi
  <2>3. Halves(N, g, lo, hi)
    BY <1>8, <2>1 DEF Halves
  <2>. QED BY <2>2, <2>3, SumHalves
<1>11. IsFiniteSet(0 .. (N - 1))
  BY <1>2, FS_Interval
<1>12. s0 \in Int /\ s1 \in Int
  BY <1>5, <1>11, SumInt
<1>13. SumFunctionOnSet(lo, 0 .. (N - 1)) = (1 - a) * s0 /\ SumFunctionOnSet(hi, 0 .. (N - 1)) = a * s1
  <2>1. \A l \in 0 .. (N - 1) : c0[l] \in Int /\ lo[l] = (1 - a) * c0[l] /\ c1[l] \in Int /\ hi[l] = a * c1[l]
    BY <1>5
  <2>2. 1 - a \in Int
    BY <1>1
  <2>. HIDE DEF lo, hi
  <2>3. SumFunctionOnSet(lo, 0 .. (N - 1)) = (1 - a) * s0
    BY <1>11, <2>1, <2>2, SumScale
  <2>4. SumFunctionOnSet(hi, 0 .. (N - 1)) = a * s1
    BY <1>1, <1>11, <2>1, SumScale
  <2>. QED BY <2>3, <2>4
<1>14. Bound(t, r)[y] = ((1 - a) * s0 + a * s1) % Q
  <2>1. Bound(t, r)[y] = SumFunctionOnSet(c, 0 .. (Pow(2, Len(r)) - 1)) % Q
    <3>1. y \in 0 .. (Pow(2, k - Len(r)) - 1) /\ Len(r) <= k
      BY <1>1, <1>3 DEF H
    <3>. QED BY <1>1, <3>1, BoundIs DEF c
  <2>2. Pow(2, Len(r)) = 2 * N
    BY <1>1, <1>2
  <2>. HIDE DEF g, lo, hi, s0, s1
  <2>. QED BY <1>9, <1>10, <1>13, <2>1, <2>2
<1>15. Bound(t, p)[2 * y] = s0 % Q /\ Bound(t, p)[2 * y + 1] = s1 % Q
  <2>1. Bound(t, p)[2 * y] = SumFunctionOnSet(c0, 0 .. (N - 1)) % Q
    BY <1>1, <1>3, BoundIs DEF c0, N, n
  <2>2. Bound(t, p)[2 * y + 1] = SumFunctionOnSet(c1, 0 .. (N - 1)) % Q
    BY <1>1, <1>3, BoundIs DEF c1, N, n
  <2>. QED BY <2>1, <2>2
<1>. HIDE DEF s0, s1
<1>16. ((1 - a) * (s0 % Q) + a * (s1 % Q)) % Q = ((1 - a) * s0 + a * s1) % Q
  BY <1>1, <1>12, MixResidue
<1>. QED BY <1>14, <1>15, <1>16 DEF r

LEMMA BoundLayer ==
  ASSUME NEW k \in Nat, NEW t \in CubeTable(k), NEW p \in Seq(Fp), Len(p) < k, NEW a \in Fp
  PROVE  Bound(t, Append(p, a)) = Layer(Bound(t, p), a)
<1>. DEFINE n == Len(p)
            r == Append(p, a)
            D == 0 .. (Pow(2, k - n - 1) - 1)
<1>1. /\ n \in Nat /\ k - n \in Nat \ {0} /\ r \in Seq(Fp) /\ Len(r) = n + 1
      /\ k - (n + 1) = k - n - 1 /\ (k - n) - 1 = k - n - 1 /\ n + 1 <= k /\ n <= k
  OBVIOUS
<1>2. Bound(t, p) \in CubeTable(k - n)
  BY <1>1, BoundIs
<1>3. Bound(t, r) \in [D -> Fp]
  <2>1. Len(r) <= k /\ k - Len(r) = k - n - 1
    BY <1>1
  <2>2. Bound(t, r) \in CubeTable(k - Len(r))
    BY <1>1, <2>1, BoundIs
  <2>. QED BY <2>1, <2>2 DEF CubeTable, Table
<1>4. /\ Layer(Bound(t, p), a) \in CubeTable(k - n - 1)
      /\ \A j \in D : Layer(Bound(t, p), a)[j] = ((1 - a) * Bound(t, p)[2 * j] + a * Bound(t, p)[2 * j + 1]) % Q
  <2>1. /\ Layer(Bound(t, p), a) \in CubeTable((k - n) - 1)
        /\ \A j \in 0 .. (Pow(2, (k - n) - 1) - 1) :
             Layer(Bound(t, p), a)[j] = ((1 - a) * Bound(t, p)[2 * j] + a * Bound(t, p)[2 * j + 1]) % Q
    <3>. HIDE DEF n
    <3>. QED BY <1>1, <1>2, LayerType
  <2>. QED BY <1>1, <2>1
<1>5. \A j \in D : Bound(t, r)[j] = ((1 - a) * Bound(t, p)[2 * j] + a * Bound(t, p)[2 * j + 1]) % Q
  BY BoundStep
<1>6. Layer(Bound(t, p), a) \in [D -> Fp]
  BY <1>4 DEF CubeTable, Table
<1>7. \A j \in D : Bound(t, r)[j] = Layer(Bound(t, p), a)[j]
  BY <1>4, <1>5
<1>. HIDE DEF D, r
<1>8. Bound(t, r) = Layer(Bound(t, p), a)
  BY <1>3, <1>6, <1>7
<1>. QED BY <1>8 DEF r

(* The first i coordinates of a point, and the j after the first i.         *)
First(p, i)    == [x \in 1 .. i |-> p[x]]
Then(p, i, j)  == [x \in 1 .. j |-> p[i + x]]

LEMMA FirstFacts ==
  ASSUME NEW p \in Seq(Fp)
  PROVE  /\ \A i \in 0 .. Len(p) : First(p, i) \in Seq(Fp) /\ Len(First(p, i)) = i
         /\ \A i \in 0 .. (Len(p) - 1) : First(p, i + 1) = Append(First(p, i), p[i + 1])
         /\ First(p, 0) = << >> /\ First(p, Len(p)) = p
<1>1. ASSUME NEW i \in 0 .. Len(p)
      PROVE  First(p, i) \in Seq(Fp) /\ Len(First(p, i)) = i
  <2>1. \A x \in 1 .. i : p[x] \in Fp
    OBVIOUS
  <2>. QED BY <2>1 DEF First
<1>2. ASSUME NEW i \in 0 .. (Len(p) - 1)
      PROVE  First(p, i + 1) = Append(First(p, i), p[i + 1])
  <2>1. i \in 0 .. Len(p) /\ i + 1 \in 0 .. Len(p) /\ p[i + 1] \in Fp /\ i \in Nat
    OBVIOUS
  <2>2. /\ First(p, i) \in Seq(Fp) /\ Len(First(p, i)) = i
        /\ First(p, i + 1) \in Seq(Fp) /\ Len(First(p, i + 1)) = i + 1
    BY <1>1, <2>1
  <2>3. Append(First(p, i), p[i + 1]) \in Seq(Fp) /\ Len(Append(First(p, i), p[i + 1])) = i + 1
    BY <2>1, <2>2
  <2>4. ASSUME NEW x \in 1 .. (i + 1)
        PROVE  First(p, i + 1)[x] = Append(First(p, i), p[i + 1])[x]
    <3>1. First(p, i + 1)[x] = p[x]
      BY DEF First
    <3>2. CASE x = i + 1
      <4>1. Append(First(p, i), p[i + 1])[x] = p[i + 1]
        BY <2>1, <2>2, <3>2
      <4>. QED BY <3>1, <3>2, <4>1
    <3>3. CASE x # i + 1
      <4>1. x \in 1 .. i
        BY <3>3
      <4>2. Append(First(p, i), p[i + 1])[x] = First(p, i)[x]
        BY <2>1, <2>2, <4>1
      <4>3. First(p, i)[x] = p[x]
        BY <4>1 DEF First
      <4>. QED BY <3>1, <4>2, <4>3
    <3>. QED BY <3>2, <3>3
  <2>. QED BY <2>2, <2>3, <2>4, SeqEqual
<1>3. First(p, 0) = << >> /\ First(p, Len(p)) = p
  <2>1. Len(First(p, 0)) = 0 /\ First(p, 0) \in Seq(Fp)
    BY <1>1
  <2>2. First(p, Len(p)) \in Seq(Fp) /\ Len(First(p, Len(p))) = Len(p)
    BY <1>1
  <2>3. \A x \in 1 .. Len(p) : First(p, Len(p))[x] = p[x]
    BY DEF First
  <2>4. First(p, 0) = << >>
    BY <2>1
  <2>. QED BY <2>2, <2>3, <2>4, SeqEqual
<1>. QED BY <1>1, <1>2, <1>3

(* Folding a table by the coordinates of a point, one after the other.      *)
LEMMA FoldedIsBound ==
  ASSUME NEW k \in Nat, NEW t \in CubeTable(k), NEW p \in Seq(Fp), Len(p) <= k
  PROVE  Folded(Layer, t, p) = Bound(t, p)
<1>. DEFINE n == Len(p)
            Def(f) == f = [i \in 0 .. n |-> IF i = 0 THEN t ELSE Layer(f[i - 1], p[i])]
            F == [i \in 0 .. n |-> Bound(t, First(p, i))]
            acc == CHOOSE f : Def(f)
            G == { i \in Nat : i <= n => acc[i] = F[i] }
<1>1. n \in Nat
  OBVIOUS
<1>2. F[0] = t
  <2>1. F[0] = Bound(t, << >>)
    BY <1>1, FirstFacts
  <2>. QED BY <2>1, BoundEmpty
<1>3. ASSUME NEW i \in 1 .. n PROVE F[i] = Layer(F[i - 1], p[i])
  <2>. DEFINE m == i - 1
  <2>1. m \in 0 .. (Len(p) - 1) /\ m + 1 = i /\ m \in 0 .. Len(p) /\ m < k /\ p[i] \in Fp
    OBVIOUS
  <2>. HIDE DEF m
  <2>2. First(p, m) \in Seq(Fp) /\ Len(First(p, m)) = m /\ First(p, i) = Append(First(p, m), p[i])
    BY <2>1, FirstFacts
  <2>3. Bound(t, First(p, i)) = Layer(Bound(t, First(p, m)), p[i])
    BY <2>1, <2>2, BoundLayer
  <2>. QED BY <2>1, <2>3 DEF m
<1>4. Def(F)
  <2>1. \A i \in 0 .. n : F[i] = IF i = 0 THEN t ELSE Layer(F[i - 1], p[i])
    BY <1>2, <1>3
  <2>2. F = [i \in 0 .. n |-> F[i]]
    OBVIOUS
  <2>. HIDE DEF F
  <2>. QED BY <2>1, <2>2
<1>5. Def(acc)
  <2>. HIDE DEF F
  <2>. QED BY <1>4
<1>6. Folded(Layer, t, p) = acc[n]
  BY DEF Folded
<1>. HIDE DEF acc
<1>7. \A i \in 0 .. n : acc[i] = IF i = 0 THEN t ELSE Layer(acc[i - 1], p[i])
  BY <1>5
<1>. HIDE DEF F, Def
<1>8. 0 \in G
  BY <1>1, <1>2, <1>7
<1>9. ASSUME NEW i \in Nat, i \in G PROVE i + 1 \in G
  <2>1. SUFFICES ASSUME i + 1 <= n PROVE acc[i + 1] = F[i + 1]
    OBVIOUS
  <2>2. i + 1 \in 1 .. n /\ i + 1 \in 0 .. n /\ (i + 1) - 1 = i /\ i + 1 # 0 /\ acc[i] = F[i]
    BY <1>9, <2>1
  <2>. QED BY <1>3, <1>7, <2>2
<1>. HIDE DEF G
<1>10. n \in G
  BY <1>1, <1>8, <1>9, NaturalInduction
<1>11. acc[n] = F[n]
  BY <1>1, <1>10 DEF G
<1>12. F[n] = Bound(t, p)
  BY <1>1, FirstFacts DEF F
<1>. QED BY <1>6, <1>11, <1>12

LEMMA MleIs ==
  ASSUME NEW k \in Nat, NEW t \in CubeTable(k), NEW p \in Seq(Fp), Len(p) <= k
  PROVE  MleEval(t, p) = Bound(t, p)[0] /\ MleEval(t, p) \in Fp
<1>1. MleEval(t, p) = Bound(t, p)[0]
  BY FoldedIsBound DEF MleEval
<1>2. Bound(t, p) \in CubeTable(k - Len(p)) /\ k - Len(p) \in Nat
  BY BoundIs
<1>3. 0 \in 0 .. (Pow(2, k - Len(p)) - 1)
  <2>1. Pow(2, k - Len(p)) \in Nat \ {0}
    BY <1>2, TwoPow
  <2>. DEFINE P == Pow(2, k - Len(p))
  <2>. HIDE DEF P
  <2>2. P \in Nat \ {0} => 0 \in 0 .. (P - 1)
    OBVIOUS
  <2>. QED BY <2>1, <2>2 DEF P
<1>. QED BY <1>1, <1>2, <1>3, CubeFacts

-----------------------------------------------------------------------------
(* A table that is the product of a low and a high factor.                  *)

Factored(lo, hi, t, l, h) ==
  /\ lo \in CubeTable(l) /\ hi \in CubeTable(h) /\ t \in CubeTable(l + h)
  /\ \A i \in 0 .. (Pow(2, l + h) - 1) : (lo[i % Pow(2, l)] * hi[i \div Pow(2, l)]) % Q = t[i]

(* Where an index of the product table falls in the two factors.            *)
LEMMA FactorIndex ==
  ASSUME NEW l \in Nat, NEW h \in Nat, NEW i \in 0 .. (Pow(2, l + h) - 1)
  PROVE  /\ i % Pow(2, l) \in 0 .. (Pow(2, l) - 1)
         /\ i \div Pow(2, l) \in 0 .. (Pow(2, h) - 1)
         /\ i = Pow(2, l) * (i \div Pow(2, l)) + (i % Pow(2, l))
<1>. DEFINE N == Pow(2, l)
            H == Pow(2, h)
            q == i \div N
            e == i % N
<1>1. N \in Nat \ {0} /\ H \in Nat \ {0} /\ Pow(2, l + h) = N * H
  BY TwoPow, PowSum
<1>2. i \in Nat /\ i < N * H
  <2>1. N * H \in Nat
    BY <1>1
  <2>. QED BY <1>1, <2>1
<1>. HIDE DEF N, H
<1>3. q \in Int /\ e \in 0 .. (N - 1) /\ i = N * q + e
  BY <1>1, <1>2
<1>. HIDE DEF q, e
<1>4. ~(q <= -1)
  <2>1. SUFFICES ASSUME q <= -1 PROVE FALSE
    OBVIOUS
  <2>2. N * q <= N * (-1)
    BY <1>1, <1>3, <2>1
  <2>. QED BY <1>1, <1>2, <1>3, <2>2
<1>5. ~(q >= H)
  <2>1. SUFFICES ASSUME q >= H PROVE FALSE
    OBVIOUS
  <2>2. q \in Nat /\ q - H \in Nat
    BY <1>1, <1>3, <1>4, <2>1
  <2>3. N * (q - H) \in Nat /\ N * q = N * H + N * (q - H)
    BY <1>1, <2>2
  <2>. HIDE DEF N, H
  <2>4. N * H \in Nat /\ N * q \in Nat
    BY <1>1, <2>2
  <2>. QED BY <1>2, <1>3, <2>3, <2>4
<1>6. q \in 0 .. (H - 1)
  BY <1>1, <1>3, <1>4, <1>5
<1>. QED BY <1>3, <1>6 DEF N, H, q, e

LEMMA FoldLowFactor ==
  ASSUME NEW l \in Nat \ {0}, NEW h \in Nat, NEW lo, NEW hi, NEW t, Factored(lo, hi, t, l, h), NEW a \in Fp
  PROVE  Factored(Layer(lo, a), hi, Layer(t, a), l - 1, h)
<1>. DEFINE P == Pow(2, l - 1)
            k == l + h
            lo1 == Layer(lo, a)
            t1 == Layer(t, a)
<1>1. /\ lo \in CubeTable(l) /\ hi \in CubeTable(h) /\ t \in CubeTable(k)
      /\ \A i \in 0 .. (Pow(2, k) - 1) : (lo[i % Pow(2, l)] * hi[i \div Pow(2, l)]) % Q = t[i]
  BY DEF Factored
<1>2. k \in Nat \ {0} /\ k - 1 = (l - 1) + h /\ l - 1 \in Nat /\ a \in Int
  BY ModulusFacts DEF Fp
<1>3. P \in Nat \ {0} /\ Pow(2, l) = 2 * P
  BY <1>2, TwoPow
<1>. HIDE DEF k
<1>4. lo1 \in CubeTable(l - 1) /\ t1 \in CubeTable((l - 1) + h)
  BY <1>1, <1>2, LayerType
<1>5. ASSUME NEW i \in 0 .. (Pow(2, (l - 1) + h) - 1)
      PROVE  (lo1[i % P] * hi[i \div P]) % Q = t1[i]
  <2>. DEFINE q == i \div P
              e == i % P
              x == lo[2 * e]
              y == lo[2 * e + 1]
              z == hi[q]
  <2>1. e \in 0 .. (P - 1) /\ q \in 0 .. (Pow(2, h) - 1) /\ i = P * q + e /\ i \in Nat
    BY <1>2, FactorIndex
  <2>. HIDE DEF q, e, P
  <2>2. i \in 0 .. (Pow(2, k - 1) - 1) /\ 2 * i \in 0 .. (Pow(2, k) - 1) /\ 2 * i + 1 \in 0 .. (Pow(2, k) - 1)
    BY <1>2, PairIndex
  <2>3. (2 * i) \div (2 * P) = q /\ (2 * i) % (2 * P) = 2 * e
    <3>1. 2 * i = (2 * P) * q + 2 * e
      <4>1. 2 * (P * q + e) = (2 * P) * q + 2 * e
        BY <1>3, <2>1
      <4>. QED BY <2>1, <4>1
    <3>2. 2 * P \in Nat \ {0} /\ 2 * e \in 0 .. (2 * P - 1) /\ q \in Nat
      BY <1>3, <2>1
    <3>. DEFINE D == 2 * P
                f == 2 * e
    <3>. HIDE DEF D, f
    <3>3. D \in Nat \ {0} /\ f \in 0 .. (D - 1) /\ q \in Nat
      BY <3>2 DEF D, f
    <3>4. (D * q + f) \div D = q /\ (D * q + f) % D = f
      BY <3>3, SplitAt
    <3>. QED BY <3>1, <3>4 DEF D, f
  <2>4. (2 * i + 1) \div (2 * P) = q /\ (2 * i + 1) % (2 * P) = 2 * e + 1
    <3>1. 2 * i + 1 = (2 * P) * q + (2 * e + 1)
      <4>1. 2 * (P * q + e) = (2 * P) * q + 2 * e /\ (2 * P) * q \in Int
        BY <1>3, <2>1
      <4>. QED BY <2>1, <4>1
    <3>2. 2 * P \in Nat \ {0} /\ 2 * e + 1 \in 0 .. (2 * P - 1) /\ q \in Nat
      BY <1>3, <2>1
    <3>. DEFINE D == 2 * P
                f == 2 * e + 1
    <3>. HIDE DEF D, f
    <3>3. D \in Nat \ {0} /\ f \in 0 .. (D - 1) /\ q \in Nat
      BY <3>2 DEF D, f
    <3>4. (D * q + f) \div D = q /\ (D * q + f) % D = f
      BY <3>3, SplitAt
    <3>. QED BY <3>1, <3>4 DEF D, f
  <2>5. 2 * e \in 0 .. (Pow(2, l) - 1) /\ 2 * e + 1 \in 0 .. (Pow(2, l) - 1)
    BY <1>3, <2>1
  <2>6. x \in Int /\ y \in Int /\ z \in Int
    BY <1>1, <2>1, <2>5, CubeFacts
  <2>7. t[2 * i] = (x * z) % Q /\ t[2 * i + 1] = (y * z) % Q
    <3>1. (lo[(2 * i) % Pow(2, l)] * hi[(2 * i) \div Pow(2, l)]) % Q = t[2 * i]
      BY <1>1, <2>2
    <3>2. (lo[(2 * i + 1) % Pow(2, l)] * hi[(2 * i + 1) \div Pow(2, l)]) % Q = t[2 * i + 1]
      BY <1>1, <2>2
    <3>. QED BY <1>3, <2>3, <2>4, <3>1, <3>2
  <2>8. t1[i] = ((1 - a) * t[2 * i] + a * t[2 * i + 1]) % Q
    BY <1>1, <1>2, <2>2, LayerType
  <2>9. lo1[e] = ((1 - a) * x + a * y) % Q
    BY <1>1, <2>1, LayerType DEF P
  <2>. HIDE DEF x, y, z
  <2>10. t1[i] = ((1 - a) * (x * z) + a * (y * z)) % Q
    <3>1. x * z \in Int /\ y * z \in Int
      BY <2>6
    <3>. QED BY <1>2, <2>7, <2>8, <3>1, MixResidue
  <2>11. (lo1[e] * z) % Q = (((1 - a) * x + a * y) * z) % Q
    <3>1. (1 - a) * x + a * y \in Int
      BY <1>2, <2>6
    <3>. QED BY <2>6, <2>9, <3>1, ModScale
  <2>12. ((1 - a) * x + a * y) * z = (1 - a) * (x * z) + a * (y * z)
    <3>. DEFINE c == 1 - a
    <3>1. c \in Int
      BY <1>2
    <3>. HIDE DEF c
    <3>2. (c * x + a * y) * z = c * (x * z) + a * (y * z)
      BY <1>2, <2>6, <3>1
    <3>. QED BY <3>2 DEF c
  <2>. QED BY <2>10, <2>11, <2>12 DEF z, e, q
<1>. QED BY <1>1, <1>4, <1>5 DEF Factored

LEMMA FoldHighFactor ==
  ASSUME NEW h \in Nat \ {0}, NEW lo, NEW hi, NEW t, Factored(lo, hi, t, 0, h), NEW a \in Fp
  PROVE  Factored(lo, Layer(hi, a), Layer(t, a), 0, h - 1)
<1>. DEFINE hi1 == Layer(hi, a)
            t1 == Layer(t, a)
            z == lo[0]
<1>1. /\ lo \in CubeTable(0) /\ hi \in CubeTable(h) /\ t \in CubeTable(0 + h)
      /\ \A i \in 0 .. (Pow(2, 0 + h) - 1) : (lo[i % Pow(2, 0)] * hi[i \div Pow(2, 0)]) % Q = t[i]
  BY DEF Factored
<1>2. 0 + h = h /\ 0 + (h - 1) = h - 1 /\ Pow(2, 0) = 1 /\ a \in Int
  BY TwoPow, ModulusFacts DEF Fp
<1>3. \A i \in Nat : i % 1 = 0 /\ i \div 1 = i
  OBVIOUS
<1>4. \A i \in 0 .. (Pow(2, h) - 1) : (z * hi[i]) % Q = t[i]
  BY <1>1, <1>2, <1>3
<1>5. hi1 \in CubeTable(h - 1) /\ t1 \in CubeTable(h - 1)
  BY <1>1, <1>2, LayerType
<1>6. z \in Int
  <2>1. 0 \in 0 .. (Pow(2, 0) - 1)
    BY <1>2
  <2>. QED BY <1>1, <2>1, CubeFacts
<1>7. ASSUME NEW i \in 0 .. (Pow(2, h - 1) - 1)
      PROVE  (z * hi1[i]) % Q = t1[i]
  <2>. DEFINE x == hi[2 * i]
              y == hi[2 * i + 1]
  <2>1. 2 * i \in 0 .. (Pow(2, h) - 1) /\ 2 * i + 1 \in 0 .. (Pow(2, h) - 1)
    BY PairIndex
  <2>2. x \in Int /\ y \in Int
    BY <1>1, <2>1, CubeFacts
  <2>3. t[2 * i] = (z * x) % Q /\ t[2 * i + 1] = (z * y) % Q
    BY <1>4, <2>1
  <2>4. t1[i] = ((1 - a) * t[2 * i] + a * t[2 * i + 1]) % Q
    BY <1>1, <1>2, LayerType
  <2>5. hi1[i] = ((1 - a) * x + a * y) % Q
    BY <1>1, LayerType
  <2>. HIDE DEF x, y, z, hi1, t1
  <2>6. t1[i] = ((1 - a) * (z * x) + a * (z * y)) % Q
    <3>1. z * x \in Int /\ z * y \in Int
      BY <1>6, <2>2
    <3>. QED BY <1>2, <2>3, <2>4, <3>1, MixResidue
  <2>7. (z * hi1[i]) % Q = (((1 - a) * x + a * y) * z) % Q
    <3>1. (1 - a) * x + a * y \in Int
      BY <1>2, <2>2
    <3>. DEFINE s == (1 - a) * x + a * y
    <3>. HIDE DEF s
    <3>2. z * (s % Q) = (s % Q) * z /\ ((s % Q) * z) % Q = (s * z) % Q
      <4>1. s \in Int /\ s % Q \in Int
        BY <3>1, ModulusFacts DEF s
      <4>2. ((s % Q) * z) % Q = (s * z) % Q
        BY <1>6, <4>1, ModScale
      <4>3. z * (s % Q) = (s % Q) * z
        <5>. DEFINE r == s % Q
        <5>. HIDE DEF r
        <5>1. r \in Int
          BY <4>1 DEF r
        <5>2. z * r = r * z
          BY <1>6, <5>1
        <5>. QED BY <5>2 DEF r
      <4>. QED BY <4>2, <4>3
    <3>. QED BY <2>5, <3>2 DEF s
  <2>8. ((1 - a) * x + a * y) * z = (1 - a) * (z * x) + a * (z * y)
    <3>. DEFINE c == 1 - a
    <3>1. c \in Int
      BY <1>2
    <3>. HIDE DEF c
    <3>2. (c * x + a * y) * z = c * (z * x) + a * (z * y)
      BY <1>2, <1>6, <2>2, <3>1
    <3>. QED BY <3>2 DEF c
  <2>. QED BY <2>6, <2>7, <2>8
<1>8. ASSUME NEW i \in 0 .. (Pow(2, 0 + (h - 1)) - 1)
      PROVE  (lo[i % Pow(2, 0)] * hi1[i \div Pow(2, 0)]) % Q = t1[i]
  <2>1. i \in 0 .. (Pow(2, h - 1) - 1) /\ i % Pow(2, 0) = 0 /\ i \div Pow(2, 0) = i
    BY <1>2, <1>3
  <2>. HIDE DEF hi1, t1
  <2>. QED BY <1>7, <2>1 DEF z
<1>. HIDE DEF hi1, t1
<1>9. Factored(lo, hi1, t1, 0, h - 1)
  BY <1>1, <1>2, <1>5, <1>8 DEF Factored
<1>. QED BY <1>9 DEF hi1, t1

-----------------------------------------------------------------------------
(* THE LIFTED WITNESS AND THE PUBLIC TABLE *)

(* The value of a sum modulo q over a finite set.                           *)
LEMMA SigmaIs ==
  ASSUME NEW S, IsFiniteSet(S), NEW f, DOMAIN f = S, \A x \in S : f[x] \in Int
  PROVE  /\ SumFunction(f) = SumFunctionOnSet(f, S) /\ SumFunction(f) \in Int
         /\ SumFunction(f) % Q \in Fp
<1>1. SumFunction(f) = SumFunctionOnSet(f, S)
  BY DEF SumFunction
<1>2. SumFunctionOnSet(f, S) \in Int
  BY SumInt
<1>. QED BY <1>1, <1>2, ModSmall

LEMMA FpInt == \A x \in Fp : x \in Int /\ x \in Nat
BY ModulusFacts DEF Fp

(* The shape of the linear statement.                                       *)
LEMMA LiftShape ==
  /\ RlinRows \in Nat \ {0} /\ RlinCols \in Nat \ {0} /\ LiftCols \in Nat
  /\ LiftCols = RlinCols + RlinRows * GADGET_DIGITS
  /\ DOMAIN M = 0 .. (RlinRows - 1) /\ IsFiniteSet(DOMAIN M)
  /\ \A i \in DOMAIN M : DOMAIN M[i] = 0 .. (RlinCols - 1)
  /\ \A i \in DOMAIN M : \A u \in 0 .. (RlinCols - 1) : M[i][u] \in Rq
  /\ \A i \in DOMAIN M : Yvec[i] \in Rq
<1>1. PICK rows \in 1 .. LiftCols, cols \in 1 .. LiftCols :
        M \in [0 .. (rows - 1) -> [0 .. (cols - 1) -> Rq]] /\ Yvec \in [0 .. (rows - 1) -> Rq]
  BY LiftAssumption
<1>2. rows \in Nat \ {0} /\ cols \in Nat \ {0}
  OBVIOUS
<1>3. DOMAIN M = 0 .. (rows - 1) /\ \A i \in DOMAIN M : M[i] \in [0 .. (cols - 1) -> Rq] /\ Yvec[i] \in Rq
  BY <1>1
<1>4. 0 \in DOMAIN M
  BY <1>2, <1>3
<1>5. DOMAIN M[0] = 0 .. (cols - 1)
  BY <1>3, <1>4
<1>6. RlinRows = rows /\ IsFiniteSet(DOMAIN M)
  <2>1. Cardinality(0 .. (rows - 1)) = rows /\ IsFiniteSet(0 .. (rows - 1))
    BY <1>2, FS_Interval
  <2>. QED BY <1>3, <2>1 DEF RlinRows
<1>7. RlinCols = cols
  <2>1. Cardinality(0 .. (cols - 1)) = cols
    BY <1>2, FS_Interval
  <2>. QED BY <1>5, <2>1 DEF RlinCols
<1>8. LiftCols \in Nat /\ LiftCols = RlinCols + RlinRows * GADGET_DIGITS
  <2>1. GADGET_DIGITS \in Nat
    BY GadgetAssumption
  <2>2. rows * GADGET_DIGITS \in Nat
    BY <1>2, <2>1
  <2>. QED BY <1>2, <1>6, <1>7, <2>2 DEF LiftCols
<1>. QED BY <1>2, <1>3, <1>6, <1>7, <1>8

(* The variables of a row and of the row number.                            *)
LEMMA LowVarsIs ==
  /\ M_ZERO \in Nat \ {0} /\ LowVars \in 0 .. M_ZERO /\ M_ZERO - LowVars \in Nat
  /\ Pow(2, LowVars) = RING_DEGREE
  /\ Pow(2, M_ZERO) = RING_DEGREE * Pow(2, M_ZERO - LowVars)
  /\ LowVars + (M_ZERO - LowVars) = M_ZERO
  /\ LiftCols <= Pow(2, M_ZERO - LowVars)
<1>. DEFINE Right(k) == /\ k = M_ZERO \/ Pow(2, k) >= RING_DEGREE
                        /\ \A j \in 0 .. (k - 1) : Pow(2, j) < RING_DEGREE
            N == RING_DEGREE
<1>1. M_ZERO \in Nat \ {0} /\ RING_DEGREE \in Nat \ {0} /\ RING_DEGREE * LiftCols <= Pow(2, M_ZERO)
  BY LiftAssumption, RingAssumption, LiftShape
<1>2. PICK n \in 0 .. M_ZERO : RING_DEGREE = Pow(2, n)
  BY LiftAssumption
<1>3. Right(n)
  <2>1. Pow(2, n) >= RING_DEGREE
    BY <1>1, <1>2
  <2>2. ASSUME NEW j \in 0 .. (n - 1) PROVE Pow(2, j) < RING_DEGREE
    <3>1. j \in Nat /\ n \in Nat /\ j < n
      OBVIOUS
    <3>. QED BY <1>2, <3>1, PowMonotone
  <2>. QED BY <2>1, <2>2
<1>4. ASSUME NEW k \in 0 .. M_ZERO, Right(k) PROVE k = n
  <2>1. k \in Nat /\ n \in Nat
    OBVIOUS
  <2>2. ~(n < k)
    <3>1. SUFFICES ASSUME n < k PROVE FALSE
      OBVIOUS
    <3>2. n \in 0 .. (k - 1)
      BY <2>1, <3>1
    <3>3. Pow(2, n) < RING_DEGREE
      BY <1>4, <3>2
    <3>. QED BY <1>1, <1>2, <3>3
  <2>3. ~(k < n)
    <3>1. SUFFICES ASSUME k < n PROVE FALSE
      OBVIOUS
    <3>2. k # M_ZERO
      BY <3>1
    <3>3. Pow(2, k) >= RING_DEGREE
      BY <1>4, <3>2
    <3>4. Pow(2, k) < RING_DEGREE /\ Pow(2, k) \in Nat
      BY <1>2, <2>1, <3>1, PowMonotone, TwoPow
    <3>. QED BY <1>1, <3>3, <3>4
  <2>. QED BY <2>1, <2>2, <2>3
<1>5. LowVars = CHOOSE k \in 0 .. M_ZERO : Right(k)
  BY DEF LowVars
<1>6. LowVars \in 0 .. M_ZERO /\ Right(LowVars)
  <2>1. \E k \in 0 .. M_ZERO : Right(k)
    BY <1>3
  <2>. HIDE DEF Right
  <2>. QED BY <1>5, <2>1
<1>. HIDE DEF Right
<1>7. LowVars = n
  BY <1>4, <1>6
<1>8. M_ZERO - LowVars \in Nat /\ LowVars \in Nat /\ LowVars + (M_ZERO - LowVars) = M_ZERO
  BY <1>1, <1>6
<1>. DEFINE H == Pow(2, M_ZERO - LowVars)
<1>9. Pow(2, M_ZERO) = N * H
  <2>1. Pow(2, LowVars + (M_ZERO - LowVars)) = Pow(2, LowVars) * H
    BY <1>8, PowSum
  <2>. QED BY <1>2, <1>7, <1>8, <2>1
<1>10. H \in Nat
  BY <1>8, TwoPow
<1>11. LiftCols <= H
  <2>1. LiftCols \in Nat
    BY LiftShape
  <2>2. N * LiftCols <= N * H
    BY <1>1, <1>9
  <2>. HIDE DEF H, N
  <2>3. N \in Nat \ {0}
    BY <1>1 DEF N
  <2>4. ~(LiftCols >= H + 1)
    <3>1. SUFFICES ASSUME LiftCols >= H + 1 PROVE FALSE
      OBVIOUS
    <3>2. N * LiftCols >= N * (H + 1)
      BY <1>10, <2>1, <2>3, <3>1
    <3>3. N * (H + 1) = N * H + N /\ N * H \in Int /\ N * LiftCols \in Int
      BY <1>10, <2>1, <2>3
    <3>. QED BY <2>2, <2>3, <3>2, <3>3
  <2>. QED BY <1>10, <2>1, <2>4
<1>. QED BY <1>1, <1>2, <1>6, <1>7, <1>8, <1>9, <1>11

-----------------------------------------------------------------------------
(* Types of the lift and of its table. *)

LEMMA HighHalfType ==
  ASSUME NEW a \in Rq, NEW b \in Rq
  PROVE  HighHalf(a, b) \in [Coeff -> Fp]
<1>1. ASSUME NEW k \in Coeff
      PROVE  Sigma(LAMBDA i : a[i] * b[k + RING_DEGREE - i], (k + 1) .. (RING_DEGREE - 1)) \in Fp
  <2>. DEFINE S == (k + 1) .. (RING_DEGREE - 1)
              f == [i \in S |-> a[i] * b[k + RING_DEGREE - i]]
  <2>1. k \in Nat /\ RING_DEGREE \in Nat /\ k < RING_DEGREE
    BY RingAssumption DEF Coeff
  <2>2. IsFiniteSet(S)
    BY <2>1, FS_Interval
  <2>3. ASSUME NEW i \in S PROVE f[i] \in Int
    <3>1. i \in Coeff /\ k + RING_DEGREE - i \in Coeff
      BY <2>1 DEF Coeff
    <3>2. a[i] \in Int /\ b[k + RING_DEGREE - i] \in Int
      BY <3>1, FpInt DEF Rq
    <3>. QED BY <3>2
  <2>4. DOMAIN f = S
    OBVIOUS
  <2>. HIDE DEF S
  <2>5. SumFunction(f) % Q \in Fp
    <3>. HIDE DEF f
    <3>. QED BY <2>2, <2>3, <2>4, SigmaIs
  <2>. QED BY <2>5 DEF Sigma, S
<1>. QED BY <1>1 DEF HighHalf

LEMMA QuotientType ==
  ASSUME NEW z \in [0 .. (RlinCols - 1) -> Rq], NEW i \in DOMAIN M
  PROVE  Quotient(z, i) \in Rq
<1>1. ASSUME NEW k \in Coeff
      PROVE  Sigma(LAMBDA u : HighHalf(M[i][u], z[u])[k], DOMAIN M[i]) \in Fp
  <2>. DEFINE S == DOMAIN M[i]
              f == [u \in S |-> HighHalf(M[i][u], z[u])[k]]
  <2>1. S = 0 .. (RlinCols - 1) /\ RlinCols \in Nat
    BY LiftShape
  <2>2. IsFiniteSet(S)
    BY <2>1, FS_Interval
  <2>3. ASSUME NEW u \in S PROVE f[u] \in Int
    <3>1. M[i][u] \in Rq /\ z[u] \in Rq
      BY <2>1, LiftShape
    <3>2. HighHalf(M[i][u], z[u])[k] \in Fp
      BY <3>1, HighHalfType
    <3>. QED BY <3>2, FpInt
  <2>4. DOMAIN f = S
    OBVIOUS
  <2>. HIDE DEF S
  <2>5. SumFunction(f) % Q \in Fp
    <3>. HIDE DEF f
    <3>. QED BY <2>2, <2>3, <2>4, SigmaIs
  <2>. QED BY <2>5 DEF Sigma, S
<1>2. Quotient(z, i) = [k \in Coeff |-> Sigma(LAMBDA u : HighHalf(M[i][u], z[u])[k], DOMAIN M[i])]
  BY TabulateIs DEF Quotient
<1>. QED BY <1>1, <1>2 DEF Rq

(* A lifted witness: z, and a quotient row per row of the statement.        *)
LEMMA LiftedIs ==
  ASSUME NEW w \in LiftedWitness
  PROVE  /\ \A u \in 0 .. (RlinCols - 1) : w.z[u] \in Rq
         /\ \A i \in DOMAIN M : w.rho[i] \in Rq
<1>1. PICK p \in Provers : w = OffBy(HonestLift(p[1]), p[2])
  BY DEF LiftedWitness
<1>2. p[1] \in [0 .. (RlinCols - 1) -> Rq] /\ p[2] \in Fp
  BY ChainAssumption
<1>. DEFINE h == HonestLift(p[1])
            z == p[1]
            d == p[2]
<1>3. h.z = z /\ \A i \in DOMAIN M : h.rho[i] = Quotient(z, i)
  BY TabulateIs DEF HonestLift
<1>4. h = [z |-> z, rho |-> h.rho]
  BY DEF HonestLift
<1>. HIDE DEF h
<1>5. w.z = z /\ w.rho = [i \in DOMAIN M |-> [k \in Coeff |-> (h.rho[i][k] + d) % Q]]
  <2>1. \A i \in DOMAIN M : Tabulate([k \in Coeff |-> (h.rho[i][k] + d) % Q]) = [k \in Coeff |-> (h.rho[i][k] + d) % Q]
    BY TabulateIs
  <2>2. Tabulate([i \in DOMAIN M |-> Tabulate([k \in Coeff |-> (h.rho[i][k] + d) % Q])])
          = [i \in DOMAIN M |-> [k \in Coeff |-> (h.rho[i][k] + d) % Q]]
    BY <2>1, TabulateIs
  <2>3. w = [h EXCEPT !.rho = [i \in DOMAIN M |-> [k \in Coeff |-> (h.rho[i][k] + d) % Q]]]
    BY <1>1, <2>2 DEF OffBy, h
  <2>. QED BY <1>3, <1>4, <2>3
<1>6. ASSUME NEW i \in DOMAIN M PROVE w.rho[i] \in Rq
  <2>1. h.rho[i] \in Rq
    BY <1>2, <1>3, QuotientType
  <2>2. ASSUME NEW k \in Coeff PROVE (h.rho[i][k] + d) % Q \in Fp
    <3>1. h.rho[i][k] \in Int /\ d \in Int
      BY <1>2, <2>1, FpInt DEF Rq
    <3>. QED BY <3>1, ModSmall
  <2>. QED BY <1>5, <2>2 DEF Rq
<1>. QED BY <1>2, <1>5, <1>6

LEMMA BalancedType ==
  ASSUME NEW c \in Fp, NEW e \in Nat
  PROVE  BalancedDigitAt(c, e) \in Fp
<1>1. BALANCED_SHIFT \in Int
  <2>1. BALANCED_SHIFT = SumFunction([x \in Digit |-> HALF_BASE * BasePower[x]]) % Q
    BY BalancedAssumption
  <2>2. HALF_BASE \in Nat /\ GADGET_DIGITS \in Nat
    BY BalancedAssumption, GadgetAssumption
  <2>3. SumFunction([x \in 0 .. (GADGET_DIGITS - 1) |-> HALF_BASE * BasePower[x]]) \in Nat
    BY <2>2, ShiftType
  <2>. QED BY <2>1, <2>3, ModulusFacts DEF Digit
<1>2. c + BALANCED_SHIFT \in Int
  BY <1>1, FpInt
<1>3. (c + BALANCED_SHIFT) % Q \in Nat
  BY <1>2, ModSmall, FpInt
<1>4. DigitAt((c + BALANCED_SHIFT) % Q, e) \in Int /\ HALF_BASE \in Int
  <2>1. GADGET_BASE \in Nat /\ HALF_BASE \in Nat
    BY BaseFacts
  <2>. QED BY <1>3, <2>1, DigitRange
<1>5. DigitAt((c + BALANCED_SHIFT) % Q, e) - HALF_BASE \in Int
  BY <1>4
<1>. QED BY <1>5, ModSmall DEF BalancedDigitAt

LEMMA LiftRowType ==
  ASSUME NEW w \in LiftedWitness, NEW u \in Nat
  PROVE  LiftRow(w, u) \in Rq
<1>1. RlinCols \in Nat /\ RlinRows \in Nat /\ GADGET_DIGITS \in Nat \ {0}
  BY LiftShape, GadgetAssumption
<1>2. CASE u < RlinCols
  <2>1. u \in 0 .. (RlinCols - 1)
    BY <1>1, <1>2
  <2>. QED BY <1>2, <2>1, LiftedIs DEF LiftRow
<1>3. CASE ~(u < RlinCols) /\ u - RlinCols < RlinRows * GADGET_DIGITS
  <2>. DEFINE i == (u - RlinCols) \div GADGET_DIGITS
              e == (u - RlinCols) % GADGET_DIGITS
  <2>1. u - RlinCols \in Nat
    BY <1>1, <1>3
  <2>2. i \in Nat /\ e \in Nat /\ i < RlinRows
    <3>. DEFINE v == u - RlinCols
                D == GADGET_DIGITS
                R == RlinRows
    <3>1. v \in Nat /\ D \in Nat \ {0} /\ R \in Nat /\ v < R * D
      BY <1>1, <1>3, <2>1
    <3>. HIDE DEF v, D, R
    <3>. DEFINE q == v \div D
                r == v % D
    <3>2. q \in Nat /\ r \in Nat /\ v = D * q + r
      BY <3>1
    <3>. HIDE DEF q, r
    <3>3. ~(q >= R)
      <4>1. SUFFICES ASSUME q >= R PROVE FALSE
        OBVIOUS
      <4>2. D * q >= D * R /\ D * R = R * D /\ R * D \in Int /\ D * q \in Int
        BY <3>1, <3>2, <4>1
      <4>. QED BY <3>1, <3>2, <4>2
    <3>. QED BY <3>1, <3>2, <3>3 DEF q, r, v, D, R
  <2>. HIDE DEF i, e
  <2>3. i \in DOMAIN M
    BY <1>1, <2>2, LiftShape
  <2>4. w.rho[i] \in Rq
    BY <2>3, LiftedIs
  <2>5. RhoDigits(w.rho[i], e) \in Rq
    <3>1. \A k \in Coeff : w.rho[i][k] \in Fp
      BY <2>4 DEF Rq
    <3>2. \A k \in Coeff : BalancedDigitAt(w.rho[i][k], e) \in Fp
      BY <2>2, <3>1, BalancedType
    <3>. QED BY <3>2 DEF RhoDigits, Rq
  <2>6. LiftRow(w, u) = RhoDigits(w.rho[i], e)
    BY <1>3 DEF LiftRow, i, e
  <2>. QED BY <2>5, <2>6
<1>4. CASE ~(u < RlinCols) /\ ~(u - RlinCols < RlinRows * GADGET_DIGITS)
  <2>1. LiftRow(w, u) = [k \in Coeff |-> 0]
    BY <1>4 DEF LiftRow
  <2>. QED BY <2>1, ModulusFacts DEF Rq
<1>. QED BY <1>2, <1>3, <1>4

LEMMA WTableType ==
  ASSUME NEW w \in LiftedWitness
  PROVE  WTable(w) \in CubeTable(M_ZERO)
<1>1. WTable(w) = [i \in 0 .. (Pow(2, M_ZERO) - 1) |-> LiftRow(w, i \div RING_DEGREE)[i % RING_DEGREE]]
  BY TabulateIs DEF WTable
<1>2. ASSUME NEW i \in 0 .. (Pow(2, M_ZERO) - 1)
      PROVE  LiftRow(w, i \div RING_DEGREE)[i % RING_DEGREE] \in Fp
  <2>1. i \in Nat /\ RING_DEGREE \in Nat \ {0}
    BY RingAssumption
  <2>2. i \div RING_DEGREE \in Nat /\ i % RING_DEGREE \in 0 .. (RING_DEGREE - 1)
    BY <2>1
  <2>3. LiftRow(w, i \div RING_DEGREE) \in Rq
    BY <2>2, LiftRowType
  <2>. QED BY <2>2, <2>3 DEF Rq, Coeff
<1>. QED BY <1>1, <1>2 DEF CubeTable, Table

-----------------------------------------------------------------------------
(* The row weights, the values at alpha and the linear target. *)

LEMMA EqWeightInt ==
  ASSUME NEW tau1 \in Seq(Fp), NEW i \in Nat
  PROVE  EqWeight(tau1, i) \in Int
<1>. DEFINE n == Len(tau1)
            s == [k \in 1 .. n |-> IF Bit(i, k) = 1 THEN tau1[k] ELSE 1 - tau1[k]]
<1>1. n \in Nat
  OBVIOUS
<1>2. ASSUME NEW k \in 1 .. n PROVE s[k] \in Int
  <2>1. tau1[k] \in Fp
    OBVIOUS
  <2>2. tau1[k] \in Int
    BY <2>1, FpInt
  <2>. QED BY <2>2
<1>3. s \in IntSeqs(n)
  <2>1. DOMAIN s = 1 .. n
    OBVIOUS
  <2>2. s = [k \in 1 .. n |-> s[k]]
    OBVIOUS
  <2>. HIDE DEF s
  <2>. QED BY <1>2, <2>2 DEF IntSeqs
<1>4. Product(s) \in Int
  <2>. HIDE DEF s, n
  <2>. QED BY <1>1, <1>3, ProductInt
<1>5. EqWeight(tau1, i) = IF i >= Pow(2, Len(tau1)) THEN 0 ELSE Product(s)
  BY DEF EqWeight, Pi
<1>. HIDE DEF s
<1>. QED BY <1>4, <1>5

LEMMA EvalAtType ==
  ASSUME NEW alpha \in Fp, NEW p \in Rq
  PROVE  EvalAt(alpha, p) \in Fp
<1>. DEFINE f == [k \in Coeff |-> p[k] * Pow(alpha, k)]
<1>1. ASSUME NEW k \in Coeff PROVE f[k] \in Int
  <2>1. k \in Nat /\ alpha \in Int
    BY FpInt DEF Coeff
  <2>2. Pow(alpha, k) \in Int /\ p[k] \in Int
    BY <2>1, PowFacts, FpInt DEF Rq
  <2>. QED BY <2>2
<1>2. DOMAIN f = Coeff
  OBVIOUS
<1>3. SumFunction(f) % Q \in Fp
  <2>. HIDE DEF f
  <2>. QED BY <1>1, <1>2, CoeffFacts, SigmaIs
<1>. QED BY <1>3 DEF EvalAt, Sigma

LEMMA MAlphaInt ==
  ASSUME NEW alpha \in Fp, NEW i \in DOMAIN M, NEW u \in Nat
  PROVE  /\ MAlpha(alpha, i, u) \in Int
         /\ u >= LiftCols => MAlpha(alpha, i, u) = 0
<1>1. RlinCols \in Nat /\ LiftCols \in Nat /\ RlinCols <= LiftCols
  <2>1. RlinCols \in Nat /\ RlinRows \in Nat /\ LiftCols = RlinCols + RlinRows * GADGET_DIGITS
    BY LiftShape
  <2>2. RlinRows * GADGET_DIGITS \in Nat
    BY <2>1, GadgetAssumption
  <2>. QED BY <2>1, <2>2
<1>2. u >= LiftCols => MAlpha(alpha, i, u) = 0
  BY <1>1 DEF MAlpha
<1>3. CASE u < RlinCols
  <2>1. u \in 0 .. (RlinCols - 1)
    BY <1>1, <1>3
  <2>2. M[i][u] \in Rq
    BY <2>1, LiftShape
  <2>3. EvalAt(alpha, M[i][u]) \in Int
    BY <2>2, EvalAtType, FpInt
  <2>4. MAlpha(alpha, i, u) = EvalAt(alpha, M[i][u])
    BY <1>3 DEF MAlpha
  <2>. QED BY <1>2, <2>3, <2>4
<1>4. CASE ~(u < RlinCols) /\ u < LiftCols /\ (u - RlinCols) \div GADGET_DIGITS = i
  <2>. DEFINE e == (u - RlinCols) % GADGET_DIGITS
  <2>1. u - RlinCols \in Nat /\ GADGET_DIGITS \in Nat \ {0}
    BY <1>1, <1>4, GadgetAssumption
  <2>2. e \in Nat
    BY <2>1
  <2>3. BasePower[e] \in Int
    BY <2>2, BasePowerFacts
  <2>4. Pow(alpha, RING_DEGREE) \in Int
    BY FpInt, RingAssumption, PowFacts
  <2>5. Modulus(alpha) \in Int
    BY <2>4 DEF Modulus
  <2>6. -Modulus(alpha) * BasePower[e] \in Int
    BY <2>3, <2>5
  <2>7. (-Modulus(alpha) * BasePower[e]) % Q \in Int
    BY <2>6, ModSmall, FpInt
  <2>8. MAlpha(alpha, i, u) = (-Modulus(alpha) * BasePower[e]) % Q
    BY <1>4 DEF MAlpha
  <2>. QED BY <1>2, <2>7, <2>8
<1>5. CASE ~(u < RlinCols) /\ ~(u < LiftCols /\ (u - RlinCols) \div GADGET_DIGITS = i)
  <2>1. MAlpha(alpha, i, u) = 0
    BY <1>5 DEF MAlpha
  <2>. QED BY <2>1
<1>. QED BY <1>3, <1>4, <1>5

LEMMA RowContractionType ==
  ASSUME NEW alpha \in Fp, NEW tau1 \in Seq(Fp), NEW u \in Nat
  PROVE  /\ RowContraction(alpha, tau1, u) \in Fp
         /\ u >= LiftCols => RowContraction(alpha, tau1, u) = 0
<1>. DEFINE f == [i \in DOMAIN M |-> EqWeight(tau1, i) * MAlpha(alpha, i, u)]
<1>1. \A i \in DOMAIN M : i \in Nat
  BY LiftShape
<1>2. ASSUME NEW i \in DOMAIN M PROVE f[i] \in Int
  <2>1. EqWeight(tau1, i) \in Int /\ MAlpha(alpha, i, u) \in Int
    BY <1>1, EqWeightInt, MAlphaInt
  <2>. QED BY <2>1
<1>3. DOMAIN f = DOMAIN M /\ IsFiniteSet(DOMAIN M)
  BY LiftShape
<1>4. RowContraction(alpha, tau1, u) = SumFunction(f) % Q
  BY DEF RowContraction, Sigma
<1>5. ASSUME u >= LiftCols PROVE SumFunction(f) % Q = 0
  <2>1. ASSUME NEW i \in DOMAIN M PROVE f[i] = 0
    <3>1. EqWeight(tau1, i) \in Int /\ MAlpha(alpha, i, u) = 0
      BY <1>1, <1>5, EqWeightInt, MAlphaInt
    <3>. QED BY <3>1
  <2>. HIDE DEF f
  <2>2. SumFunctionOnSet(f, DOMAIN M) = Cardinality(DOMAIN M) * 0
    BY <1>3, <2>1, SumConstant
  <2>3. Cardinality(DOMAIN M) \in Nat
    BY <1>3, FS_CardinalityType
  <2>4. SumFunctionOnSet(f, DOMAIN M) = 0
    BY <2>2, <2>3
  <2>5. SumFunction(f) = 0
    BY <1>3, <2>4 DEF SumFunction
  <2>6. 0 % Q = 0
    BY ModulusFacts, ModSmall
  <2>. QED BY <2>5, <2>6
<1>. HIDE DEF f
<1>6. SumFunction(f) % Q \in Fp
  BY <1>2, <1>3, SigmaIs
<1>. QED BY <1>4, <1>5, <1>6

LEMMA TargetType ==
  ASSUME NEW alpha \in Fp, NEW tau1 \in Seq(Fp)
  PROVE  TargetAlpha(alpha, tau1) \in Fp
<1>. DEFINE f == [i \in DOMAIN M |-> EqWeight(tau1, i) * EvalAt(alpha, Yvec[i])]
<1>1. ASSUME NEW i \in DOMAIN M PROVE f[i] \in Int
  <2>1. i \in Nat /\ Yvec[i] \in Rq
    BY LiftShape
  <2>2. EqWeight(tau1, i) \in Int /\ EvalAt(alpha, Yvec[i]) \in Int
    BY <2>1, EqWeightInt, EvalAtType, FpInt
  <2>. QED BY <2>2
<1>2. DOMAIN f = DOMAIN M /\ IsFiniteSet(DOMAIN M)
  BY LiftShape
<1>3. TargetAlpha(alpha, tau1) = SumFunction(f) % Q
  BY DEF TargetAlpha, Sigma
<1>. HIDE DEF f
<1>. QED BY <1>1, <1>2, <1>3, SigmaIs

-----------------------------------------------------------------------------
(* The public table is the product of its two factors (alpha_split).        *)

LEMMA AlphaFactored ==
  ASSUME NEW alpha \in Fp, NEW tau1 \in Seq(Fp)
  PROVE  Factored(AlphaLow(alpha), AlphaHigh(alpha, tau1), AlphaTable(alpha, tau1),
                  LowVars, M_ZERO - LowVars)
<1>. DEFINE N == RING_DEGREE
            H == Pow(2, M_ZERO - LowVars)
            L == AlphaLow(alpha)
            U == AlphaHigh(alpha, tau1)
            A == AlphaTable(alpha, tau1)
            R(u) == RowContraction(alpha, tau1, u)
<1>1. /\ LowVars \in Nat /\ M_ZERO - LowVars \in Nat /\ LowVars + (M_ZERO - LowVars) = M_ZERO
      /\ Pow(2, LowVars) = N /\ LiftCols <= H /\ Pow(2, M_ZERO) = N * H
  BY LowVarsIs
<1>2. N \in Nat \ {0} /\ H \in Nat \ {0} /\ LiftCols \in Nat /\ alpha \in Int
  BY <1>1, TwoPow, RingAssumption, LiftShape, FpInt
<1>3. /\ \A l \in 0 .. (N - 1) : L[l] = Pow(alpha, l) % Q
      /\ L \in CubeTable(LowVars)
  <2>1. L = [l \in 0 .. (N - 1) |-> Pow(alpha, l) % Q]
    BY <1>1 DEF AlphaLow
  <2>2. ASSUME NEW l \in 0 .. (N - 1) PROVE Pow(alpha, l) % Q \in Fp
    <3>1. Pow(alpha, l) \in Int
      BY <1>2, PowFacts
    <3>. QED BY <3>1, ModSmall
  <2>. HIDE DEF L
  <2>. QED BY <1>1, <2>1, <2>2 DEF CubeTable, Table
<1>4. \A u \in Nat : R(u) \in Fp /\ (u >= LiftCols => R(u) = 0)
  BY RowContractionType
<1>5. /\ \A u \in 0 .. (H - 1) : U[u] = R(u)
      /\ U \in CubeTable(M_ZERO - LowVars)
  <2>1. U = [u \in 0 .. (H - 1) |-> IF u < LiftCols THEN R(u) ELSE 0]
    BY DEF AlphaHigh
  <2>2. \A u \in 0 .. (H - 1) : (IF u < LiftCols THEN R(u) ELSE 0) = R(u) /\ R(u) \in Fp
    BY <1>2, <1>4
  <2>. HIDE DEF U, R
  <2>3. \A u \in 0 .. (H - 1) : U[u] = R(u)
    BY <2>1, <2>2
  <2>4. U \in [0 .. (H - 1) -> Fp]
    BY <2>1, <2>2
  <2>. QED BY <2>3, <2>4 DEF CubeTable, Table
<1>6. /\ \A i \in 0 .. (Pow(2, M_ZERO) - 1) : A[i] = (Pow(alpha, i % N) * R(i \div N)) % Q
      /\ A = [i \in 0 .. (Pow(2, M_ZERO) - 1) |-> A[i]]
  <2>1. A = [i \in 0 .. (Pow(2, M_ZERO) - 1) |-> (Pow(alpha, i % N) * R(i \div N)) % Q]
    BY TabulateIs DEF AlphaTable
  <2>. HIDE DEF A, R
  <2>. QED BY <2>1
<1>7. ASSUME NEW i \in 0 .. (Pow(2, M_ZERO) - 1)
      PROVE  /\ A[i] \in Fp
             /\ (L[i % N] * U[i \div N]) % Q = A[i]
  <2>. DEFINE l == i % N
              u == i \div N
  <2>1. l \in 0 .. (N - 1) /\ u \in 0 .. (H - 1)
    <3>1. i \in 0 .. (Pow(2, LowVars + (M_ZERO - LowVars)) - 1)
      BY <1>1
    <3>2. i % Pow(2, LowVars) \in 0 .. (Pow(2, LowVars) - 1) /\ i \div Pow(2, LowVars) \in 0 .. (H - 1)
      BY <1>1, <3>1, FactorIndex
    <3>. QED BY <1>1, <3>2
  <2>2. l \in Nat /\ u \in Nat
    BY <2>1
  <2>. HIDE DEF l, u
  <2>3. Pow(alpha, l) \in Int /\ R(u) \in Int
    BY <1>2, <1>4, <2>2, PowFacts, FpInt
  <2>4. A[i] = (Pow(alpha, l) * R(u)) % Q /\ L[l] = Pow(alpha, l) % Q /\ U[u] = R(u)
    BY <1>3, <1>5, <1>6, <2>1 DEF l, u
  <2>. DEFINE x == Pow(alpha, l)
              y == R(u)
  <2>. HIDE DEF x, y
  <2>5. x \in Int /\ y \in Int /\ x * y \in Int
    BY <2>3 DEF x, y
  <2>6. ((x % Q) * y) % Q = (x * y) % Q /\ (x * y) % Q \in Fp
    BY <2>5, ModScale, ModSmall
  <2>. QED BY <2>4, <2>6 DEF x, y, l, u
<1>. HIDE DEF A, L, U
<1>8. A \in CubeTable(M_ZERO)
  BY <1>6, <1>7 DEF CubeTable, Table
<1>. QED BY <1>1, <1>3, <1>5, <1>7, <1>8 DEF Factored, A, L, U

-----------------------------------------------------------------------------
(* Folding the two factors by a whole point. *)

LEMMA ThenFacts ==
  ASSUME NEW p \in Seq(Fp), NEW i \in 0 .. Len(p)
  PROVE  LET r == Then(p, i, Len(p) - i)
         IN  /\ r \in Seq(Fp) /\ Len(r) = Len(p) - i /\ Len(r) \in Nat
             /\ \A x \in 1 .. Len(r) : r[x] = p[i + x]
<1>. DEFINE n == Len(p) - i
            r == Then(p, i, n)
<1>1. n \in Nat /\ i \in Nat
  OBVIOUS
<1>2. \A x \in 1 .. n : p[i + x] \in Fp
  OBVIOUS
<1>. HIDE DEF n
<1>3. r \in Seq(Fp) /\ Len(r) = n /\ \A x \in 1 .. n : r[x] = p[i + x]
  BY <1>1, <1>2 DEF Then
<1>. QED BY <1>1, <1>3 DEF n

(* Substituting the first coordinates and then the others.                  *)
LEMMA BoundThen ==
  ASSUME NEW k \in Nat, NEW t \in CubeTable(k), NEW p \in Seq(Fp), Len(p) <= k, NEW i \in 0 .. Len(p)
  PROVE  Bound(Bound(t, First(p, i)), Then(p, i, Len(p) - i)) = Bound(t, p)
<1>. DEFINE r == Then(p, i, Len(p) - i)
            n == Len(p) - i
            b == Bound(t, First(p, i))
            G == { j \in Nat : j <= n => Bound(b, First(r, j)) = Bound(t, First(p, i + j)) }
<1>1. /\ r \in Seq(Fp) /\ Len(r) = n /\ n \in Nat /\ i \in Nat
      /\ \A x \in 1 .. n : r[x] = p[i + x]
  <2>1. n \in Nat /\ i \in Nat
    OBVIOUS
  <2>2. /\ r \in Seq(Fp) /\ Len(r) = Len(p) - i
        /\ \A x \in 1 .. Len(r) : r[x] = p[i + x]
    BY ThenFacts
  <2>. HIDE DEF r
  <2>. QED BY <2>1, <2>2
<1>2. First(p, i) \in Seq(Fp) /\ Len(First(p, i)) = i /\ i <= k
  BY FirstFacts
<1>3. b \in CubeTable(k - i) /\ k - i \in Nat
  BY <1>2, BoundIs
<1>. HIDE DEF b, r
<1>4. 0 \in G
  <2>1. First(r, 0) = << >> /\ i + 0 = i
    BY <1>1, FirstFacts
  <2>2. Bound(b, << >>) = b
    BY <1>3, BoundEmpty
  <2>. QED BY <2>1, <2>2 DEF b
<1>5. ASSUME NEW j \in Nat, j \in G PROVE j + 1 \in G
  <2>1. SUFFICES ASSUME j + 1 <= n
                 PROVE  Bound(b, First(r, j + 1)) = Bound(t, First(p, i + (j + 1)))
    OBVIOUS
  <2>2. /\ j \in 0 .. n /\ j \in 0 .. (n - 1) /\ j + 1 \in 1 .. n /\ j < k - i
        /\ i + j \in 0 .. Len(p) /\ i + j \in 0 .. (Len(p) - 1) /\ i + (j + 1) = (i + j) + 1 /\ i + j < k
    BY <1>1, <2>1
  <2>3. Bound(b, First(r, j)) = Bound(t, First(p, i + j))
    BY <1>5, <2>2
  <2>4. /\ First(r, j) \in Seq(Fp) /\ Len(First(r, j)) = j /\ First(r, j + 1) = Append(First(r, j), r[j + 1])
        /\ First(p, i + j) \in Seq(Fp) /\ Len(First(p, i + j)) = i + j
        /\ First(p, (i + j) + 1) = Append(First(p, i + j), p[(i + j) + 1])
    BY <1>1, <2>2, FirstFacts
  <2>. DEFINE a == r[j + 1]
  <2>5. a \in Fp /\ a = p[(i + j) + 1]
    <3>1. r[j + 1] \in Fp
      BY <1>1, <2>2
    <3>2. r[j + 1] = p[i + (j + 1)]
      BY <1>1, <2>2
    <3>. QED BY <2>2, <3>1, <3>2
  <2>. HIDE DEF a
  <2>6. Bound(b, Append(First(r, j), a)) = Layer(Bound(b, First(r, j)), a)
    <3>. DEFINE v == First(r, j)
    <3>1. v \in Seq(Fp) /\ Len(v) < k - i
      BY <2>2, <2>4
    <3>. HIDE DEF v
    <3>2. Bound(b, Append(v, a)) = Layer(Bound(b, v), a)
      BY <1>3, <2>5, <3>1, BoundLayer
    <3>. QED BY <3>2 DEF v
  <2>7. Bound(t, Append(First(p, i + j), a)) = Layer(Bound(t, First(p, i + j)), a)
    <3>. DEFINE v == First(p, i + j)
    <3>1. v \in Seq(Fp) /\ Len(v) < k
      BY <2>2, <2>4
    <3>. HIDE DEF v
    <3>2. Bound(t, Append(v, a)) = Layer(Bound(t, v), a)
      BY <2>5, <3>1, BoundLayer
    <3>. QED BY <3>2 DEF v
  <2>. QED BY <2>2, <2>3, <2>4, <2>5, <2>6, <2>7 DEF a
<1>. HIDE DEF G
<1>6. n \in G
  BY <1>1, <1>4, <1>5, NaturalInduction
<1>7. Bound(b, First(r, n)) = Bound(t, First(p, i + n))
  BY <1>1, <1>6 DEF G
<1>8. First(r, n) = r /\ i + n = Len(p) /\ First(p, Len(p)) = p
  BY <1>1, FirstFacts
<1>. QED BY <1>7, <1>8 DEF b, r

LEMMA FoldLow ==
  ASSUME NEW l \in Nat, NEW h \in Nat, NEW lo, NEW hi, NEW t, Factored(lo, hi, t, l, h),
         NEW p \in Seq(Fp), Len(p) <= l
  PROVE  Factored(Bound(lo, p), hi, Bound(t, p), l - Len(p), h)
<1>. DEFINE G == { j \in Nat : j <= Len(p) =>
                     Factored(Bound(lo, First(p, j)), hi, Bound(t, First(p, j)), l - j, h) }
<1>1. lo \in CubeTable(l) /\ t \in CubeTable(l + h) /\ l + h \in Nat
  BY DEF Factored
<1>2. 0 \in G
  <2>1. First(p, 0) = << >> /\ l - 0 = l
    BY FirstFacts
  <2>2. Bound(lo, << >>) = lo /\ Bound(t, << >>) = t
    BY <1>1, BoundEmpty
  <2>. QED BY <2>1, <2>2
<1>3. ASSUME NEW j \in Nat, j \in G PROVE j + 1 \in G
  <2>1. SUFFICES ASSUME j + 1 <= Len(p)
                 PROVE  Factored(Bound(lo, First(p, j + 1)), hi, Bound(t, First(p, j + 1)), l - (j + 1), h)
    OBVIOUS
  <2>2. j \in 0 .. Len(p) /\ j \in 0 .. (Len(p) - 1) /\ j < l /\ j < l + h /\ p[j + 1] \in Fp
    BY <2>1
  <2>3. /\ First(p, j) \in Seq(Fp) /\ Len(First(p, j)) = j
        /\ First(p, j + 1) = Append(First(p, j), p[j + 1])
    BY <2>2, FirstFacts
  <2>4. Factored(Bound(lo, First(p, j)), hi, Bound(t, First(p, j)), l - j, h)
    BY <1>3, <2>1
  <2>5. l - j \in Nat \ {0} /\ (l - j) - 1 = l - (j + 1)
    BY <2>2
  <2>. DEFINE m == l - j
  <2>. HIDE DEF m
  <2>6. Factored(Layer(Bound(lo, First(p, j)), p[j + 1]), hi, Layer(Bound(t, First(p, j)), p[j + 1]), m - 1, h)
    BY <2>2, <2>4, <2>5, FoldLowFactor DEF m
  <2>7. /\ Bound(lo, First(p, j + 1)) = Layer(Bound(lo, First(p, j)), p[j + 1])
        /\ Bound(t, First(p, j + 1)) = Layer(Bound(t, First(p, j)), p[j + 1])
    <3>. DEFINE r == First(p, j)
                a == p[j + 1]
    <3>1. r \in Seq(Fp) /\ Len(r) < l /\ Len(r) < l + h /\ a \in Fp /\ First(p, j + 1) = Append(r, a)
      BY <2>2, <2>3
    <3>. HIDE DEF r, a
    <3>2. Bound(lo, Append(r, a)) = Layer(Bound(lo, r), a)
      BY <1>1, <3>1, BoundLayer
    <3>3. Bound(t, Append(r, a)) = Layer(Bound(t, r), a)
      BY <1>1, <3>1, BoundLayer
    <3>. QED BY <3>1, <3>2, <3>3 DEF r, a
  <2>. QED BY <2>5, <2>6, <2>7 DEF m
<1>. HIDE DEF G
<1>4. Len(p) \in G
  BY <1>2, <1>3, NaturalInduction
<1>5. Factored(Bound(lo, First(p, Len(p))), hi, Bound(t, First(p, Len(p))), l - Len(p), h)
  BY <1>4 DEF G
<1>. QED BY <1>5, FirstFacts

LEMMA FoldHigh ==
  ASSUME NEW h \in Nat, NEW lo, NEW hi, NEW t, Factored(lo, hi, t, 0, h),
         NEW p \in Seq(Fp), Len(p) <= h
  PROVE  Factored(lo, Bound(hi, p), Bound(t, p), 0, h - Len(p))
<1>. DEFINE G == { j \in Nat : j <= Len(p) =>
                     Factored(lo, Bound(hi, First(p, j)), Bound(t, First(p, j)), 0, h - j) }
<1>1. hi \in CubeTable(h) /\ t \in CubeTable(h)
  <2>1. 0 + h = h
    OBVIOUS
  <2>. QED BY <2>1 DEF Factored
<1>2. 0 \in G
  <2>1. First(p, 0) = << >> /\ h - 0 = h
    BY FirstFacts
  <2>2. Bound(hi, << >>) = hi /\ Bound(t, << >>) = t
    BY <1>1, BoundEmpty
  <2>. QED BY <2>1, <2>2
<1>3. ASSUME NEW j \in Nat, j \in G PROVE j + 1 \in G
  <2>1. SUFFICES ASSUME j + 1 <= Len(p)
                 PROVE  Factored(lo, Bound(hi, First(p, j + 1)), Bound(t, First(p, j + 1)), 0, h - (j + 1))
    OBVIOUS
  <2>2. j \in 0 .. Len(p) /\ j \in 0 .. (Len(p) - 1) /\ j < h /\ p[j + 1] \in Fp
    BY <2>1
  <2>3. /\ First(p, j) \in Seq(Fp) /\ Len(First(p, j)) = j
        /\ First(p, j + 1) = Append(First(p, j), p[j + 1])
    BY <2>2, FirstFacts
  <2>4. Factored(lo, Bound(hi, First(p, j)), Bound(t, First(p, j)), 0, h - j)
    BY <1>3, <2>1
  <2>5. h - j \in Nat \ {0} /\ (h - j) - 1 = h - (j + 1)
    BY <2>2
  <2>. DEFINE m == h - j
  <2>. HIDE DEF m
  <2>6. Factored(lo, Layer(Bound(hi, First(p, j)), p[j + 1]), Layer(Bound(t, First(p, j)), p[j + 1]), 0, m - 1)
    BY <2>2, <2>4, <2>5, FoldHighFactor DEF m
  <2>7. /\ Bound(hi, First(p, j + 1)) = Layer(Bound(hi, First(p, j)), p[j + 1])
        /\ Bound(t, First(p, j + 1)) = Layer(Bound(t, First(p, j)), p[j + 1])
    <3>. DEFINE r == First(p, j)
                a == p[j + 1]
    <3>1. r \in Seq(Fp) /\ Len(r) < h /\ Len(r) < h /\ a \in Fp /\ First(p, j + 1) = Append(r, a)
      BY <2>2, <2>3
    <3>. HIDE DEF r, a
    <3>2. Bound(hi, Append(r, a)) = Layer(Bound(hi, r), a)
      BY <1>1, <3>1, BoundLayer
    <3>3. Bound(t, Append(r, a)) = Layer(Bound(t, r), a)
      BY <1>1, <3>1, BoundLayer
    <3>. QED BY <3>1, <3>2, <3>3 DEF r, a
  <2>. QED BY <2>5, <2>6, <2>7 DEF m
<1>. HIDE DEF G
<1>4. Len(p) \in G
  BY <1>2, <1>3, NaturalInduction
<1>5. Factored(lo, Bound(hi, First(p, Len(p))), Bound(t, First(p, Len(p))), 0, h - Len(p))
  BY <1>4 DEF G
<1>. QED BY <1>5, FirstFacts

(* alpha_public_mle_eval is the extension of the public table.              *)
LEMMA AlphaMleIs ==
  ASSUME NEW alpha \in Fp, NEW tau1 \in Seq(Fp), NEW p \in Seq(Fp), Len(p) = M_ZERO
  PROVE  AlphaMle(alpha, tau1, p) = Bound(AlphaTable(alpha, tau1), p)[0]
<1>. DEFINE l == LowVars
            h == M_ZERO - LowVars
            lo == AlphaLow(alpha)
            hi == AlphaHigh(alpha, tau1)
            t == AlphaTable(alpha, tau1)
            p1 == First(p, l)
            p2 == Then(p, l, Len(p) - l)
<1>1. l \in Nat /\ h \in Nat /\ l \in 0 .. Len(p) /\ Len(p) - l = h /\ l + h = Len(p) /\ Len(p) \in Nat
  BY LowVarsIs
<1>2. Factored(lo, hi, t, l, h)
  BY AlphaFactored
<1>3. p1 \in Seq(Fp) /\ Len(p1) = l /\ p2 \in Seq(Fp) /\ Len(p2) = h
  BY <1>1, FirstFacts, ThenFacts
<1>4. SubSeq(p, 1, LowVars) = p1 /\ SubSeq(p, LowVars + 1, Len(p)) = p2
  <2>1. SubSeq(p, 1, l) \in Seq(Fp) /\ Len(SubSeq(p, 1, l)) = l /\ \A x \in 1 .. l : SubSeq(p, 1, l)[x] = p[x]
    BY <1>1
  <2>2. \A x \in 1 .. l : p1[x] = p[x]
    BY DEF First
  <2>3. SubSeq(p, 1, l) = p1
    BY <1>3, <2>1, <2>2, SeqEqual
  <2>4. /\ SubSeq(p, l + 1, Len(p)) \in Seq(Fp) /\ Len(SubSeq(p, l + 1, Len(p))) = h
        /\ \A x \in 1 .. h : SubSeq(p, l + 1, Len(p))[x] = p[l + x]
    BY <1>1
  <2>5. \A x \in 1 .. h : p2[x] = p[l + x]
    BY <1>1, ThenFacts
  <2>6. SubSeq(p, l + 1, Len(p)) = p2
    <3>. DEFINE q == SubSeq(p, l + 1, Len(p))
    <3>. HIDE DEF h, p2
    <3>1. q \in Seq(Fp) /\ Len(q) = h /\ \A x \in 1 .. h : q[x] = p[l + x]
      BY <2>4
    <3>. HIDE DEF q, l
    <3>2. Len(q) = Len(p2) /\ \A x \in 1 .. Len(q) : q[x] = p2[x]
      BY <1>3, <2>5, <3>1
    <3>3. q = p2
      BY <1>3, <3>1, <3>2, SeqEqual
    <3>. QED BY <3>3 DEF q
  <2>. QED BY <2>3, <2>6
<1>5. Bound(Bound(t, p1), p2) = Bound(t, p)
  <2>1. t \in CubeTable(Len(p))
    BY <1>1, <1>2 DEF Factored
  <2>. QED BY <1>1, <2>1, BoundThen
<1>6. MleEval(lo, p1) = Bound(lo, p1)[0] /\ MleEval(hi, p2) = Bound(hi, p2)[0]
  <2>1. lo \in CubeTable(l) /\ hi \in CubeTable(h)
    BY <1>2 DEF Factored
  <2>. QED BY <1>1, <1>3, <2>1, MleIs
<1>7. AlphaMle(alpha, tau1, p) = (MleEval(lo, p1) * MleEval(hi, p2)) % Q
  BY <1>4 DEF AlphaMle
<1>. HIDE DEF l, h, lo, hi, t, p1, p2
<1>8. Factored(Bound(lo, p1), hi, Bound(t, p1), 0, h)
  <2>1. Factored(Bound(lo, p1), hi, Bound(t, p1), l - Len(p1), h)
    BY <1>1, <1>2, <1>3, FoldLow
  <2>2. l - Len(p1) = 0
    BY <1>1, <1>3
  <2>. QED BY <2>1, <2>2
<1>9. Factored(Bound(lo, p1), Bound(hi, p2), Bound(t, p), 0, 0)
  <2>1. Factored(Bound(lo, p1), Bound(hi, p2), Bound(Bound(t, p1), p2), 0, h - Len(p2))
    BY <1>1, <1>3, <1>8, FoldHigh
  <2>2. h - Len(p2) = 0
    BY <1>1, <1>3
  <2>. QED BY <1>5, <2>1, <2>2
<1>10. (Bound(lo, p1)[0] * Bound(hi, p2)[0]) % Q = Bound(t, p)[0]
  <2>1. Pow(2, 0) = 1 /\ 0 + 0 = 0 /\ 0 % 1 = 0 /\ 0 \div 1 = 0 /\ 0 \in 0 .. (1 - 1)
    BY TwoPow
  <2>2. \A i \in 0 .. (Pow(2, 0 + 0) - 1) :
          (Bound(lo, p1)[i % Pow(2, 0)] * Bound(hi, p2)[i \div Pow(2, 0)]) % Q = Bound(t, p)[i]
    BY <1>9 DEF Factored
  <2>. QED BY <2>1, <2>2
<1>. QED BY <1>6, <1>7, <1>10 DEF t

-----------------------------------------------------------------------------
(* THE CLAIMS *)

(* Coordinate i of the point that p starts and the bits of x complete.      *)
Coordinate(p, x, i) == IF i <= Len(p) THEN p[i] ELSE Bit(x, i - Len(p))
EqFactors(tau, p, x) == [i \in 1 .. M_ZERO |-> EqFactor(tau[i], Coordinate(p, x, i))]

(* The summand of a side, over the rest of the cube.                        *)
Rest(p) == 0 .. (Pow(2, M_ZERO - Len(p)) - 1)
Summand(s, w, side, p) ==
  [x \in Rest(p) |->
     IF side = "zero"
     THEN Product(EqFactors(s.tau0, p, x)) * RangeProductBase(Bound(WTable(w), p)[x])
     ELSE Bound(WTable(w), p)[x] * Bound(AlphaTable(s.alpha, s.tau1), p)[x]]

LEMMA StatementIs ==
  ASSUME NEW s \in Statements
  PROVE  /\ s.alpha \in Fp /\ s.tau0 \in [1 .. M_ZERO -> Fp] /\ s.tau1 \in Seq(Fp)
         /\ M_ZERO \in Nat \ {0}
BY ChainAssumption, LiftAssumption

LEMMA AlphaTableType ==
  ASSUME NEW s \in Statements
  PROVE  AlphaTable(s.alpha, s.tau1) \in CubeTable(M_ZERO)
<1>1. Factored(AlphaLow(s.alpha), AlphaHigh(s.alpha, s.tau1), AlphaTable(s.alpha, s.tau1),
               LowVars, M_ZERO - LowVars)
  BY StatementIs, AlphaFactored
<1>2. LowVars + (M_ZERO - LowVars) = M_ZERO
  BY LowVarsIs
<1>. QED BY <1>1, <1>2 DEF Factored

LEMMA CoordinateFacts ==
  ASSUME NEW p \in Seq(Fp), NEW x \in Nat, NEW i \in Nat \ {0}
  PROVE  Coordinate(p, x, i) \in Int
<1>1. CASE i <= Len(p)
  <2>1. p[i] \in Fp
    BY <1>1
  <2>. QED BY <1>1, <2>1, FpInt DEF Coordinate
<1>2. CASE ~(i <= Len(p))
  <2>1. i - Len(p) \in Nat \ {0}
    BY <1>2
  <2>2. Bit(x, i - Len(p)) \in 0 .. 1
    BY <2>1, BitType
  <2>3. Bit(x, i - Len(p)) \in Int
    BY <2>2
  <2>4. Coordinate(p, x, i) = Bit(x, i - Len(p))
    BY <1>2 DEF Coordinate
  <2>. QED BY <2>3, <2>4
<1>. QED BY <1>1, <1>2

LEMMA EqFactorsType ==
  ASSUME NEW s \in Statements, NEW p \in Seq(Fp), NEW x \in Nat
  PROVE  EqFactors(s.tau0, p, x) \in IntSeqs(M_ZERO) /\ Product(EqFactors(s.tau0, p, x)) \in Int
<1>1. ASSUME NEW i \in 1 .. M_ZERO PROVE EqFactor(s.tau0[i], Coordinate(p, x, i)) \in Int
  <2>1. s.tau0[i] \in Int /\ i \in Nat \ {0}
    BY StatementIs, FpInt
  <2>2. Coordinate(p, x, i) \in Int
    BY <2>1, CoordinateFacts
  <2>. QED BY <2>1, <2>2, EqFactorFacts
<1>2. EqFactors(s.tau0, p, x) \in IntSeqs(M_ZERO)
  BY <1>1 DEF EqFactors, IntSeqs
<1>. QED BY <1>2, StatementIs, ProductInt

LEMMA RangeBaseType ==
  ASSUME NEW c \in Int
  PROVE  RangeProductBase(c) \in Fp
<1>. DEFINE n == GADGET_BASE - 1
            f == [k \in 1 .. n |-> c * c - k * k]
<1>1. n \in Nat
  BY BaseFacts
<1>2. f \in IntSeqs(n)
  <2>1. \A k \in 1 .. n : c * c - k * k \in Int
    BY <1>1
  <2>. HIDE DEF n
  <2>. QED BY <2>1 DEF IntSeqs
<1>3. Product(f) \in Int
  <2>. HIDE DEF f, n
  <2>. QED BY <1>1, <1>2, ProductInt
<1>4. RangeProductBase(c) = (c * Product(f)) % Q
  BY DEF RangeProductBase, Pi
<1>. HIDE DEF f
<1>5. c * Product(f) \in Int
  BY <1>3
<1>. QED BY <1>4, <1>5, ModSmall

LEMMA SummandType ==
  ASSUME NEW s \in Statements, NEW w \in LiftedWitness, NEW side \in {"zero", "alpha"},
         NEW p \in Seq(Fp), Len(p) <= M_ZERO
  PROVE  /\ IsFiniteSet(Rest(p)) /\ DOMAIN Summand(s, w, side, p) = Rest(p)
         /\ \A x \in Rest(p) : Summand(s, w, side, p)[x] \in Int
<1>. DEFINE T == WTable(w)
            A == AlphaTable(s.alpha, s.tau1)
            n == M_ZERO - Len(p)
<1>1. n \in Nat /\ M_ZERO \in Nat
  BY StatementIs
<1>2. T \in CubeTable(M_ZERO) /\ A \in CubeTable(M_ZERO)
  BY WTableType, AlphaTableType
<1>. HIDE DEF T, A
<1>3. Bound(T, p) \in CubeTable(n) /\ Bound(A, p) \in CubeTable(n)
  BY <1>1, <1>2, BoundIs
<1>4. Pow(2, n) \in Nat
  BY <1>1, TwoPow
<1>5. IsFiniteSet(Rest(p))
  <2>. DEFINE P == Pow(2, n)
  <2>. HIDE DEF P
  <2>1. IsFiniteSet(0 .. (P - 1))
    BY <1>4, FS_Interval DEF P
  <2>. QED BY <2>1 DEF Rest, P
<1>6. ASSUME NEW x \in Rest(p) PROVE Summand(s, w, side, p)[x] \in Int
  <2>1. x \in 0 .. (Pow(2, n) - 1) /\ x \in Nat
    BY DEF Rest
  <2>2. Bound(T, p)[x] \in Int /\ Bound(A, p)[x] \in Int
    BY <1>1, <1>3, <2>1, CubeFacts
  <2>3. Bound(T, p)[x] * Bound(A, p)[x] \in Int
    BY <2>2
  <2>4. RangeProductBase(Bound(T, p)[x]) \in Int
    BY <2>2, RangeBaseType, FpInt
  <2>5. Product(EqFactors(s.tau0, p, x)) * RangeProductBase(Bound(T, p)[x]) \in Int
    <3>1. Product(EqFactors(s.tau0, p, x)) \in Int
      BY <2>1, EqFactorsType
    <3>. QED BY <2>4, <3>1
  <2>. QED BY <2>3, <2>5 DEF Summand, T, A
<1>. QED BY <1>5, <1>6 DEF Summand

LEMMA ClaimIs ==
  ASSUME NEW s \in Statements, NEW w \in LiftedWitness, NEW side \in {"zero", "alpha"},
         NEW p \in Seq(Fp), Len(p) <= M_ZERO
  PROVE  CubeSum(s, w, side, p) = SumFunctionOnSet(Summand(s, w, side, p), Rest(p)) % Q
<1>. DEFINE v == Bound(WTable(w), p)
            A == Bound(AlphaTable(s.alpha, s.tau1), p)
            Q0(x) == p \o [k \in 1 .. (M_ZERO - Len(p)) |-> Bit(x, k)]
            Eq(x) == Product([k \in 1 .. M_ZERO |-> EqFactor(s.tau0[k], Q0(x)[k])])
            f == Summand(s, w, side, p)
<1>1. M_ZERO - Len(p) \in Nat /\ M_ZERO \in Nat
  BY StatementIs
<1>2. DOMAIN v = Rest(p)
  <2>1. WTable(w) \in CubeTable(M_ZERO)
    BY WTableType
  <2>2. v \in CubeTable(M_ZERO - Len(p))
    BY <1>1, <2>1, BoundIs
  <2>. HIDE DEF v
  <2>. QED BY <1>1, <2>2, CubeFacts DEF Rest
<1>3. ASSUME NEW x \in Rest(p) PROVE Eq(x) = Product(EqFactors(s.tau0, p, x))
  <2>1. x \in Nat
    BY DEF Rest
  <2>2. ASSUME NEW i \in 1 .. M_ZERO PROVE Q0(x)[i] = Coordinate(p, x, i)
    <3>. DEFINE b == [k \in 1 .. (M_ZERO - Len(p)) |-> Bit(x, k)]
                m == M_ZERO - Len(p)
    <3>1. b \in Seq(0 .. 1) /\ Len(b) = m
      <4>1. \A k \in 1 .. m : Bit(x, k) \in 0 .. 1
        BY <2>1, BitType
      <4>. HIDE DEF m
      <4>. QED BY <1>1, <4>1 DEF m
    <3>2. CASE i <= Len(p)
      <4>1. Q0(x)[i] = p[i]
        <5>. HIDE DEF b
        <5>. QED BY <3>1, <3>2
      <4>. QED BY <3>2, <4>1 DEF Coordinate
    <3>3. CASE ~(i <= Len(p))
      <4>1. (p \o b)[i] = b[i - Len(p)]
        <5>. HIDE DEF b
        <5>. QED BY <1>1, <3>1, <3>3
      <4>2. b[i - Len(p)] = Bit(x, i - Len(p))
        BY <1>1, <3>3
      <4>. QED BY <3>3, <4>1, <4>2 DEF Coordinate
    <3>. QED BY <3>2, <3>3
  <2>. HIDE DEF Q0
  <2>. QED BY <2>2 DEF EqFactors
<1>4. f = [x \in Rest(p) |-> IF side = "zero" THEN Product(EqFactors(s.tau0, p, x)) * RangeProductBase(v[x])
                                              ELSE v[x] * A[x]]
  BY DEF Summand
<1>5. CubeSum(s, w, side, p) =
        IF side = "zero" THEN SumFunction([x \in DOMAIN v |-> Eq(x) * RangeProductBase(v[x])]) % Q
                         ELSE SumFunction([x \in DOMAIN v |-> v[x] * A[x]]) % Q
  BY DEF CubeSum, Sigma, Pi
<1>. HIDE DEF v, A, Eq
<1>6. CubeSum(s, w, side, p) = SumFunction(f) % Q
  <2>1. CASE side = "zero"
    <3>1. [x \in DOMAIN v |-> Eq(x) * RangeProductBase(v[x])] = f
      BY <1>2, <1>3, <1>4, <2>1
    <3>. HIDE DEF f
    <3>. QED BY <1>5, <2>1, <3>1
  <2>2. CASE side # "zero"
    <3>1. [x \in DOMAIN v |-> v[x] * A[x]] = f
      BY <1>2, <1>4, <2>2
    <3>. HIDE DEF f
    <3>. QED BY <1>5, <2>2, <3>1
  <2>. QED BY <2>1, <2>2
<1>. HIDE DEF f
<1>7. DOMAIN f = Rest(p)
  BY SummandType DEF f
<1>. QED BY <1>6, <1>7 DEF SumFunction, f

(* A coordinate set to zero or one selects the even or the odd entries.     *)
LEMMA BoundAtBit ==
  ASSUME NEW t \in CubeTable(M_ZERO), NEW p \in Seq(Fp), Len(p) < M_ZERO, NEW b \in 0 .. 1,
         NEW y \in 0 .. (Pow(2, M_ZERO - Len(p) - 1) - 1)
  PROVE  Bound(t, Append(p, b))[y] = Bound(t, p)[2 * y + b]
<1>. DEFINE m == M_ZERO - Len(p)
            v == Bound(t, p)
<1>1. m \in Nat \ {0} /\ M_ZERO \in Nat /\ b \in Fp /\ b \in Int
  BY LiftAssumption, ModulusFacts
<1>2. v \in CubeTable(m)
  BY <1>1, BoundIs
<1>3. Bound(t, Append(p, b))[y] = ((1 - b) * v[2 * y] + b * v[2 * y + 1]) % Q
  BY <1>1, BoundStep
<1>4. 2 * y \in 0 .. (Pow(2, m) - 1) /\ 2 * y + 1 \in 0 .. (Pow(2, m) - 1)
  BY <1>1, PairIndex
<1>. HIDE DEF v, m
<1>5. v[2 * y] \in Fp /\ v[2 * y + 1] \in Fp /\ v[2 * y] \in Int /\ v[2 * y + 1] \in Int
  BY <1>1, <1>2, <1>4, CubeFacts
<1>6. v[2 * y] % Q = v[2 * y] /\ v[2 * y + 1] % Q = v[2 * y + 1]
  BY <1>5, ModSmall
<1>7. CASE b = 0
  <2>1. (1 - b) * v[2 * y] + b * v[2 * y + 1] = v[2 * y] /\ 2 * y + b = 2 * y
    BY <1>5, <1>7
  <2>. QED BY <1>3, <1>6, <2>1 DEF v
<1>8. CASE b = 1
  <2>1. (1 - b) * v[2 * y] + b * v[2 * y + 1] = v[2 * y + 1] /\ 2 * y + b = 2 * y + 1
    BY <1>5, <1>8
  <2>. QED BY <1>3, <1>6, <2>1 DEF v
<1>. QED BY <1>7, <1>8

LEMMA CoordinateAtBit ==
  ASSUME NEW p \in Seq(Fp), NEW b \in 0 .. 1, NEW y \in Nat, NEW i \in Nat \ {0}
  PROVE  Coordinate(Append(p, b), y, i) = Coordinate(p, 2 * y + b, i)
<1>. DEFINE n == Len(p)
            r == Append(p, b)
<1>1. n \in Nat /\ b \in Fp
  BY ModulusFacts
<1>2. Len(r) = n + 1 /\ r[n + 1] = b /\ \A k \in 1 .. n : r[k] = p[k]
  BY <1>1
<1>. HIDE DEF r
<1>3. CASE i <= n
  BY <1>1, <1>2, <1>3 DEF Coordinate
<1>4. CASE i = n + 1
  <2>1. Coordinate(r, y, i) = b
    BY <1>1, <1>2, <1>4 DEF Coordinate
  <2>2. i - n = 1 /\ ~(i <= n)
    BY <1>1, <1>4
  <2>3. Bit(2 * y + b, 1) = b
    BY BitShift
  <2>. QED BY <2>1, <2>2, <2>3 DEF Coordinate, r
<1>5. CASE i > n + 1
  <2>. DEFINE k == i - (n + 1)
  <2>1. k \in Nat \ {0} /\ i - n = k + 1 /\ ~(i <= n) /\ ~(i <= n + 1)
    BY <1>1, <1>5
  <2>2. Coordinate(r, y, i) = Bit(y, k)
    BY <1>2, <2>1 DEF Coordinate
  <2>3. Coordinate(p, 2 * y + b, i) = Bit(2 * y + b, k + 1)
    BY <2>1 DEF Coordinate
  <2>4. Bit(2 * y + b, k + 1) = Bit(y, k)
    <3>. HIDE DEF k
    <3>. QED BY <2>1, BitShift
  <2>. QED BY <2>2, <2>3, <2>4 DEF r
<1>. QED BY <1>1, <1>3, <1>4, <1>5 DEF r

LEMMA SummandAtBit ==
  ASSUME NEW s \in Statements, NEW w \in LiftedWitness, NEW side \in {"zero", "alpha"},
         NEW p \in Seq(Fp), Len(p) < M_ZERO, NEW b \in 0 .. 1,
         NEW y \in 0 .. (Pow(2, M_ZERO - Len(p) - 1) - 1)
  PROVE  /\ y \in Rest(Append(p, b)) /\ 2 * y + b \in Rest(p)
         /\ Summand(s, w, side, Append(p, b))[y] = Summand(s, w, side, p)[2 * y + b]
<1>. DEFINE m == M_ZERO - Len(p)
            x == 2 * y + b
            r == Append(p, b)
<1>1. m \in Nat \ {0} /\ M_ZERO \in Nat /\ b \in Fp /\ b \in Int /\ y \in Nat
  BY LiftAssumption, ModulusFacts
<1>2. r \in Seq(Fp) /\ Len(r) = Len(p) + 1 /\ M_ZERO - Len(r) = m - 1
  BY <1>1
<1>3. y \in Rest(r)
  BY <1>2 DEF Rest
<1>4. x \in Rest(p)
  <2>1. 2 * y \in 0 .. (Pow(2, m) - 1) /\ 2 * y + 1 \in 0 .. (Pow(2, m) - 1)
    BY <1>1, PairIndex
  <2>2. b = 0 \/ b = 1
    OBVIOUS
  <2>. QED BY <2>1, <2>2 DEF Rest
<1>5. Bound(WTable(w), r)[y] = Bound(WTable(w), p)[x]
  BY WTableType, BoundAtBit
<1>6. Bound(AlphaTable(s.alpha, s.tau1), r)[y] = Bound(AlphaTable(s.alpha, s.tau1), p)[x]
  BY AlphaTableType, BoundAtBit
<1>7. EqFactors(s.tau0, r, y) = EqFactors(s.tau0, p, x)
  <2>1. \A i \in 1 .. M_ZERO : Coordinate(r, y, i) = Coordinate(p, x, i)
    <3>1. ASSUME NEW i \in 1 .. M_ZERO PROVE Coordinate(r, y, i) = Coordinate(p, x, i)
      <4>1. i \in Nat \ {0}
        OBVIOUS
      <4>. QED BY <1>1, <4>1, CoordinateAtBit
    <3>. QED BY <3>1
  <2>. QED BY <2>1 DEF EqFactors
<1>. HIDE DEF r, x
<1>8. Summand(s, w, side, r)[y] = Summand(s, w, side, p)[x]
  BY <1>3, <1>4, <1>5, <1>6, <1>7 DEF Summand
<1>. QED BY <1>3, <1>4, <1>8 DEF r, x

(* The claim splits over its first coordinate.                              *)
LEMMA ClaimSplits ==
  ASSUME NEW s \in Statements, NEW w \in LiftedWitness, NEW side \in {"zero", "alpha"},
         NEW p \in Seq(Fp), Len(p) < M_ZERO
  PROVE  CubeSum(s, w, side, p)
           = AddQ(CubeSum(s, w, side, Append(p, 0)), CubeSum(s, w, side, Append(p, 1)))
<1>. DEFINE P == Pow(2, M_ZERO - Len(p) - 1)
            f == Summand(s, w, side, p)
            f0 == Summand(s, w, side, Append(p, 0))
            f1 == Summand(s, w, side, Append(p, 1))
            S0 == SumFunctionOnSet(f0, 0 .. (P - 1))
            S1 == SumFunctionOnSet(f1, 0 .. (P - 1))
<1>1. /\ M_ZERO \in Nat /\ M_ZERO - Len(p) \in Nat \ {0} /\ 0 \in Fp /\ 1 \in Fp
      /\ 0 \in 0 .. 1 /\ 1 \in 0 .. 1
  BY LiftAssumption, ModulusFacts
<1>2. /\ Append(p, 0) \in Seq(Fp) /\ Len(Append(p, 0)) = Len(p) + 1
      /\ Append(p, 1) \in Seq(Fp) /\ Len(Append(p, 1)) = Len(p) + 1
      /\ M_ZERO - (Len(p) + 1) = M_ZERO - Len(p) - 1 /\ Len(p) + 1 <= M_ZERO /\ Len(p) <= M_ZERO
  BY <1>1
<1>3. P \in Nat \ {0} /\ Pow(2, M_ZERO - Len(p)) = 2 * P
  BY <1>1, PairIndex
<1>4. Rest(Append(p, 0)) = 0 .. (P - 1) /\ Rest(Append(p, 1)) = 0 .. (P - 1) /\ Rest(p) = 0 .. (2 * P - 1)
  BY <1>2, <1>3 DEF Rest
<1>5. /\ CubeSum(s, w, side, p) = SumFunctionOnSet(f, 0 .. (2 * P - 1)) % Q
      /\ CubeSum(s, w, side, Append(p, 0)) = S0 % Q
      /\ CubeSum(s, w, side, Append(p, 1)) = S1 % Q
  <2>1. CubeSum(s, w, side, p) = SumFunctionOnSet(f, Rest(p)) % Q
    BY <1>2, ClaimIs
  <2>2. CubeSum(s, w, side, Append(p, 0)) = SumFunctionOnSet(f0, Rest(Append(p, 0))) % Q
    BY <1>2, ClaimIs
  <2>3. CubeSum(s, w, side, Append(p, 1)) = SumFunctionOnSet(f1, Rest(Append(p, 1))) % Q
    BY <1>2, ClaimIs
  <2>. HIDE DEF f, f0, f1, P
  <2>. QED BY <1>4, <2>1, <2>2, <2>3
<1>6. \A x \in 0 .. (2 * P - 1) : f[x] \in Int
  BY <1>2, <1>4, SummandType
<1>7. \A x \in 0 .. (P - 1) : f0[x] = f[2 * x] /\ f1[x] = f[2 * x + 1]
  <2>1. ASSUME NEW x \in 0 .. (P - 1) PROVE f0[x] = f[2 * x + 0] /\ f1[x] = f[2 * x + 1]
    BY <1>1, SummandAtBit
  <2>2. ASSUME NEW x \in 0 .. (P - 1) PROVE 2 * x + 0 = 2 * x
    OBVIOUS
  <2>. HIDE DEF f0, f1, f, P
  <2>. QED BY <2>1, <2>2
<1>8. (\A x \in 0 .. (P - 1) : f0[x] \in Int) /\ (\A x \in 0 .. (P - 1) : f1[x] \in Int)
  BY <1>2, <1>4, SummandType
<1>. HIDE DEF f, f0, f1, P
<1>9. SumFunctionOnSet(f, 0 .. (2 * P - 1)) = S0 + S1
  <2>1. Parities(P, f, f0, f1)
    BY <1>6, <1>7 DEF Parities
  <2>. QED BY <1>3, <2>1, SumParity
<1>10. S0 \in Int /\ S1 \in Int
  <2>1. IsFiniteSet(0 .. (P - 1))
    BY <1>3, FS_Interval
  <2>. QED BY <1>8, <2>1, SumInt
<1>. HIDE DEF S0, S1
<1>11. ((S0 % Q) + (S1 % Q)) % Q = (S0 + S1) % Q
  <2>1. S1 % Q \in Int
    BY <1>10, ModSmall, FpInt
  <2>2. ((S0 % Q) + (S1 % Q)) % Q = (S0 + (S1 % Q)) % Q
    BY <1>10, <2>1, ModAdd
  <2>3. (S0 + (S1 % Q)) % Q = (S0 + S1) % Q
    BY <1>10, ModAdd
  <2>. QED BY <2>2, <2>3
<1>. QED BY <1>5, <1>9, <1>11 DEF AddQ

(* With every coordinate drawn it is the closed form of the final check.    *)
LEMMA ClaimWhole ==
  ASSUME NEW s \in Statements, NEW w \in LiftedWitness, NEW side \in {"zero", "alpha"},
         NEW p \in Seq(Fp), Len(p) = M_ZERO
  PROVE  /\ WTableEval(w, p) \in Fp
         /\ CubeSum(s, w, side, p) = FinalValue(s, side, p, WTableEval(w, p))
<1>. DEFINE f == Summand(s, w, side, p)
            v == Bound(WTable(w), p)
            A == Bound(AlphaTable(s.alpha, s.tau1), p)
            y == WTableEval(w, p)
<1>1. M_ZERO \in Nat /\ Len(p) <= M_ZERO
  BY StatementIs
<1>2. Rest(p) = {0}
  <2>1. M_ZERO - Len(p) = 0 /\ Pow(2, 0) - 1 = 0
    BY <1>1, TwoPow
  <2>. QED BY <2>1 DEF Rest
<1>3. f[0] \in Int /\ f[0] = IF side = "zero" THEN Product(EqFactors(s.tau0, p, 0)) * RangeProductBase(v[0])
                                              ELSE v[0] * A[0]
  <2>1. f[0] \in Int
    BY <1>1, <1>2, SummandType
  <2>. QED BY <1>2, <2>1 DEF Summand
<1>4. y = v[0] /\ y \in Fp
  BY <1>1, WTableType, MleIs DEF WTableEval
<1>5. AlphaMle(s.alpha, s.tau1, p) = A[0]
  BY StatementIs, AlphaMleIs
<1>6. EqPrefix(s.tau0, p) = Product(EqFactors(s.tau0, p, 0))
  <2>1. EqPrefix(s.tau0, p) = Product([k \in 1 .. M_ZERO |-> EqFactor(s.tau0[k], p[k])])
    BY DEF EqPrefix, Pi
  <2>2. \A k \in 1 .. M_ZERO : Coordinate(p, 0, k) = p[k]
    BY <1>1 DEF Coordinate
  <2>3. [k \in 1 .. M_ZERO |-> EqFactor(s.tau0[k], p[k])] = EqFactors(s.tau0, p, 0)
    BY <2>2 DEF EqFactors
  <2>. QED BY <2>1, <2>3
<1>7. RangeProduct(y) = RangeProductBase(y)
  BY <1>4, RangeAssumption
<1>8. CubeSum(s, w, side, p) = f[0] % Q
  <2>1. CubeSum(s, w, side, p) = SumFunctionOnSet(f, {0}) % Q
    <3>. HIDE DEF v, A, y
    <3>1. CubeSum(s, w, side, p) = SumFunctionOnSet(f, Rest(p)) % Q
      BY <1>1, ClaimIs
    <3>. QED BY <3>1, <1>2
  <2>. HIDE DEF f
  <2>2. SumFunctionOnSet(f, {0}) = f[0]
    <3>1. IsFiniteSet({0}) /\ 0 \in {0} /\ \A x \in {0} \ {0} : f[x] = 0
      BY FS_Singleton
    <3>. QED BY <1>3, <3>1, SumSingle
  <2>. QED BY <2>1, <2>2
<1>9. FinalValue(s, side, p, y) = IF side = "zero" THEN (Product(EqFactors(s.tau0, p, 0)) * RangeProductBase(y)) % Q
                                                    ELSE (y * A[0]) % Q
  BY <1>5, <1>6, <1>7 DEF FinalValue
<1>. QED BY <1>3, <1>4, <1>8, <1>9

-----------------------------------------------------------------------------
(* THE MESSAGES ARE POLYNOMIALS *)

LEMMA FactorialFacts ==
  /\ factorial \in [Nat -> Nat \ {0}]
  /\ \A n \in Nat : factorial[n + 1] = (n + 1) * factorial[n]
<1>. DEFINE P == Nat \ {0}
            X == Nat \X P
            step == [y \in X |-> <<y[1] + 1, (y[1] + 1) * y[2]>>]
            Def(f) == f = [n \in Nat |-> IF n = 0 THEN 1 ELSE n * f[n - 1]]
            r == factorial
<1>a. \A n \in Nat, y \in P : (n + 1) * y \in P
  OBVIOUS
<1>1. <<0, 1>> \in X /\ step \in [X -> X]
  BY <1>a
<1>2. PICK f : f \in [Nat -> X] /\ f[0] = <<0, 1>> /\ \A n \in Nat : f[n + 1] = step[f[n]]
  <2>. HIDE DEF step, X
  <2>1. \E f : Iterates(<<0, 1>>, step, f)
    BY <1>1, IterationExists
  <2>2. \A f : Iterates(<<0, 1>>, step, f) =>
          /\ f \in [Nat -> X]
          /\ f[0] = <<0, 1>>
          /\ \A n \in Nat : f[n + 1] = step[f[n]]
    BY <1>1, IterationExists
  <2>. QED BY <2>1, <2>2
<1>3. \A n \in Nat : f[n] \in X /\ f[n + 1] = <<f[n][1] + 1, (f[n][1] + 1) * f[n][2]>>
  BY <1>2
<1>. DEFINE G == { n \in Nat : f[n][1] = n }
<1>4. \A n \in Nat : n \in G
  <2>1. 0 \in G
    BY <1>2
  <2>2. ASSUME NEW n \in Nat, n \in G PROVE n + 1 \in G
    BY <1>3, <2>2
  <2>. HIDE DEF G
  <2>. QED BY <2>1, <2>2, NaturalInduction
<1>. DEFINE g == [n \in Nat |-> f[n][2]]
<1>5. g[0] = 1 /\ \A n \in Nat : g[n] \in P /\ g[n + 1] = (n + 1) * g[n]
  <2>1. g[0] = 1
    BY <1>2
  <2>2. ASSUME NEW n \in Nat PROVE g[n] \in P /\ g[n + 1] = (n + 1) * g[n]
    <3>1. f[n] \in X /\ f[n][1] = n /\ f[n + 1] = <<f[n][1] + 1, (f[n][1] + 1) * f[n][2]>>
      BY <1>3, <1>4
    <3>2. n + 1 \in Nat
      OBVIOUS
    <3>. QED BY <3>1, <3>2
  <2>. QED BY <2>1, <2>2
<1>. HIDE DEF P, X
<1>6. Def(g)
  <2>. DEFINE h == [n \in Nat |-> IF n = 0 THEN 1 ELSE n * g[n - 1]]
  <2>1. ASSUME NEW n \in Nat PROVE g[n] = IF n = 0 THEN 1 ELSE n * g[n - 1]
    <3>1. CASE n = 0
      BY <1>5, <3>1
    <3>2. CASE n # 0
      <4>1. n - 1 \in Nat /\ (n - 1) + 1 = n
        BY <3>2
      <4>. HIDE DEF g
      <4>2. g[(n - 1) + 1] = ((n - 1) + 1) * g[n - 1]
        BY <1>5, <4>1
      <4>. QED BY <3>2, <4>1, <4>2
    <3>. QED BY <3>1, <3>2
  <2>2. g = [n \in Nat |-> g[n]]
    OBVIOUS
  <2>. HIDE DEF g
  <2>. QED BY <2>1, <2>2
<1>. HIDE DEF g
<1>7. Def(r)
  BY <1>6 DEF factorial
<1>. HIDE DEF r
<1>8. r[0] = 1
  BY <1>7
<1>9. ASSUME NEW n \in Nat PROVE r[n + 1] = (n + 1) * r[n]
  <2>1. n + 1 \in Nat /\ n + 1 # 0 /\ (n + 1) - 1 = n
    OBVIOUS
  <2>. QED BY <1>7, <2>1
<1>. DEFINE K == { n \in Nat : r[n] \in Nat \ {0} }
<1>10. \A n \in Nat : n \in K
  <2>1. 0 \in K
    BY <1>8
  <2>2. ASSUME NEW n \in Nat, n \in K PROVE n + 1 \in K
    <3>1. (n + 1) * r[n] \in Nat \ {0}
      BY <2>2
    <3>. QED BY <1>9, <3>1
  <2>. HIDE DEF K
  <2>. QED BY <2>1, <2>2, NaturalInduction
<1>11. r \in [Nat -> Nat \ {0}]
  BY <1>7, <1>10
<1>. QED BY <1>9, <1>11 DEF r

LEMMA ChooseInt ==
  ASSUME NEW n \in Nat, NEW k \in 0 .. n
  PROVE  choose(n, k) \in Int
<1>. DEFINE a == factorial[n]
            b == factorial[k]
            c == factorial[n - k]
<1>1. k \in Nat /\ n - k \in Nat
  OBVIOUS
<1>2. a \in Nat \ {0} /\ b \in Nat \ {0} /\ c \in Nat \ {0}
  BY <1>1, FactorialFacts
<1>. HIDE DEF a, b, c
<1>3. b * c \in Nat \ {0}
  BY <1>2
<1>4. a \div (b * c) \in Int
  BY <1>2, <1>3
<1>. QED BY <1>4 DEF choose, a, b, c

LEMMA RangeCoeffs ==
  /\ GADGET_BASE \in Nat /\ GADGET_BASE >= 2 /\ SHIFT_DEG \in Nat /\ SHIFT_DEG >= 4
  /\ \A j \in 0 .. (GADGET_BASE - 1) : RANGE_Q_COEFFS[j] \in Int
<1>1. GADGET_BASE \in Nat /\ GADGET_BASE >= 2
  BY BaseFacts
<1>2. \A j \in 0 .. (GADGET_BASE - 1) : RANGE_Q_COEFFS[j] \in Fp
  BY RangeAssumption
<1>. QED BY <1>1, <1>2, FpInt DEF SHIFT_DEG

(* A coefficient of the shifted range polynomial.                           *)
LEMMA ShiftInnerType ==
  ASSUME NEW lo \in Int, NEW m \in 0 .. (SHIFT_DEG - 1)
  PROVE  ShiftInner(lo, m) \in Int
<1>. DEFINE S == (m \div 2) .. (GADGET_BASE - 1)
            f == [j \in S |-> choose(2 * j + 1, m) * RANGE_Q_COEFFS[j] * Pow(lo, 2 * j + 1 - m)]
<1>1. m \in Nat /\ m \div 2 \in Nat /\ m <= 2 * (m \div 2) + 1 /\ GADGET_BASE \in Nat
  BY RangeCoeffs
<1>2. IsFiniteSet(S)
  BY <1>1, FS_Interval
<1>3. ASSUME NEW j \in S PROVE f[j] \in Int
  <2>1. j \in Nat /\ j \in 0 .. (GADGET_BASE - 1) /\ 2 * j + 1 \in Nat /\ m \in 0 .. (2 * j + 1) /\ 2 * j + 1 - m \in Nat
    BY <1>1
  <2>2. choose(2 * j + 1, m) \in Int
    BY <2>1, ChooseInt
  <2>3. RANGE_Q_COEFFS[j] \in Int
    BY <2>1, RangeCoeffs
  <2>4. Pow(lo, 2 * j + 1 - m) \in Int
    BY <2>1, PowFacts
  <2>5. \A x \in Int, y \in Int, z \in Int : x * y * z \in Int
    OBVIOUS
  <2>. QED BY <2>2, <2>3, <2>4, <2>5
<1>4. DOMAIN f = S
  OBVIOUS
<1>5. SumFunction(f) % Q \in Fp
  <2>. HIDE DEF f, S
  <2>. QED BY <1>2, <1>3, <1>4, SigmaIs
<1>6. ShiftInner(lo, m) = SumFunction(f) % Q
  BY DEF ShiftInner, Sigma
<1>. QED BY <1>5, <1>6, FpInt

(* The pairs a table must hold for a kernel over 0 .. n - 1.                *)
Pairs(w, n) == \A y \in 0 .. (n - 1) : w[2 * y] \in Int /\ w[2 * y + 1] \in Int
Weights(eq, n) == DOMAIN eq = 0 .. (n - 1) /\ \A y \in 0 .. (n - 1) : eq[y] \in Int

LEMMA ZeroPolyType ==
  ASSUME NEW n \in Nat, NEW w, NEW eq, Pairs(w, n), Weights(eq, n)
  PROVE  ZeroPoly(w, eq) \in [0 .. SHIFT_DEG -> Fp]
<1>. DEFINE live == { y \in DOMAIN eq : ~(w[2 * y] = 0 /\ w[2 * y + 1] = 0) }
            d(y) == (w[2 * y + 1] - w[2 * y]) % Q
            T(m, y) == eq[y] * (Pow(d(y), m) % Q) * ShiftInner(w[2 * y], m)
            c(m) == IF m = SHIFT_DEG THEN 0 ELSE SumFunction([y \in live |-> T(m, y)]) % Q
<1>1. IsFiniteSet(live) /\ \A y \in live : y \in 0 .. (n - 1)
  <2>1. IsFiniteSet(0 .. (n - 1)) /\ live \subseteq 0 .. (n - 1)
    BY FS_Interval DEF Weights
  <2>. QED BY <2>1, FS_Subset
<1>2. ASSUME NEW m \in 0 .. SHIFT_DEG PROVE c(m) \in Fp
  <2>1. CASE m = SHIFT_DEG
    BY <2>1, ModulusFacts
  <2>2. CASE m # SHIFT_DEG
    <3>1. m \in 0 .. (SHIFT_DEG - 1) /\ m \in Nat
      BY <2>2, RangeCoeffs
    <3>. DEFINE f == [y \in live |-> T(m, y)]
    <3>2. ASSUME NEW y \in live PROVE T(m, y) \in Int
      <4>1. w[2 * y] \in Int /\ w[2 * y + 1] \in Int /\ eq[y] \in Int
        BY <1>1 DEF Pairs, Weights
      <4>2. w[2 * y + 1] - w[2 * y] \in Int
        BY <4>1
      <4>3. d(y) \in Int
        BY <4>2, ModSmall, FpInt
      <4>. HIDE DEF d
      <4>4. Pow(d(y), m) \in Int
        BY <3>1, <4>3, PowFacts
      <4>5. Pow(d(y), m) % Q \in Int
        BY <4>4, ModSmall, FpInt
      <4>6. ShiftInner(w[2 * y], m) \in Int
        BY <3>1, <4>1, ShiftInnerType
      <4>7. \A x \in Int, u \in Int, z \in Int : x * u * z \in Int
        OBVIOUS
      <4>. QED BY <4>1, <4>5, <4>6, <4>7
    <3>3. DOMAIN f = live /\ \A y \in live : f[y] \in Int
      BY <3>2
    <3>. HIDE DEF f, live
    <3>4. SumFunction(f) % Q \in Fp
      BY <1>1, <3>3, SigmaIs
    <3>. QED BY <2>2, <3>4 DEF f
  <2>. QED BY <2>1, <2>2
<1>3. ZeroPoly(w, eq) = [m \in 0 .. SHIFT_DEG |-> c(m)]
  BY TabulateIs DEF ZeroPoly, Sigma
<1>. HIDE DEF c
<1>. QED BY <1>2, <1>3

(* The equality kernel of the coordinates to come is a table of the cube.   *)
LEMMA DoubledType ==
  ASSUME NEW k \in Nat, NEW t \in CubeTable(k), NEW x \in Fp
  PROVE  Doubled(t, x) \in CubeTable(k + 1)
<1>. DEFINE n == Pow(2, k)
            f == [j \in 0 .. (2 * n - 1) |->
                    IF j < n THEN (t[j] - t[j] * x) % Q ELSE (t[j - n] * x) % Q]
<1>1. n \in Nat \ {0} /\ Pow(2, k + 1) = 2 * n /\ Size(t) = n /\ x \in Int
  BY TwoPow, CubeFacts, FpInt
<1>2. \A j \in 0 .. (n - 1) : t[j] \in Int
  BY CubeFacts
<1>3. Doubled(t, x) = f
  BY <1>1, TabulateIs DEF Doubled
<1>. HIDE DEF n
<1>4. ASSUME NEW j \in 0 .. (2 * n - 1)
      PROVE  (IF j < n THEN (t[j] - t[j] * x) % Q ELSE (t[j - n] * x) % Q) \in Fp
  <2>1. CASE j < n
    <3>1. t[j] \in Int
      BY <1>1, <1>2, <2>1
    <3>2. t[j] - t[j] * x \in Int
      BY <1>1, <3>1
    <3>. QED BY <2>1, <3>2, ModSmall
  <2>2. CASE ~(j < n)
    <3>1. j - n \in 0 .. (n - 1)
      BY <1>1, <2>2
    <3>2. t[j - n] * x \in Int
      BY <1>1, <1>2, <3>1
    <3>. QED BY <2>2, <3>2, ModSmall
  <2>. QED BY <2>1, <2>2
<1>5. f \in [0 .. (2 * n - 1) -> Fp]
  BY <1>4
<1>. HIDE DEF f
<1>. QED BY <1>1, <1>3, <1>5 DEF CubeTable, Table

LEMMA DoublingType ==
  ASSUME NEW s \in Seq(Fp)
  PROVE  Folded(Doubled, [j \in {0} |-> 1], s) \in CubeTable(Len(s))
<1>. DEFINE n == Len(s)
            z == [j \in {0} |-> 1]
            R == UNION { CubeTable(k) : k \in Nat }
            step == [k \in 1 .. n |-> [t \in R |-> Doubled(t, s[k])]]
            Def(f) == f = [k \in 0 .. n |-> IF k = 0 THEN z ELSE Doubled(f[k - 1], s[k])]
            acc == CHOOSE f : Def(f)
            G == { k \in Nat : k <= n => acc[k] \in CubeTable(k) }
<1>1. n \in Nat /\ \A k \in 1 .. n : s[k] \in Fp
  OBVIOUS
<1>2. z \in CubeTable(0)
  <2>1. Pow(2, 0) = 1 /\ 0 .. (1 - 1) = {0}
    BY TwoPow
  <2>. QED BY <2>1, ModulusFacts DEF CubeTable, Table
<1>3. \A t \in R, x \in Fp : Doubled(t, x) \in R
  <2>1. ASSUME NEW t \in R, NEW x \in Fp PROVE Doubled(t, x) \in R
    <3>1. PICK k \in Nat : t \in CubeTable(k)
      OBVIOUS
    <3>2. Doubled(t, x) \in CubeTable(k + 1) /\ k + 1 \in Nat
      BY <3>1, DoubledType
    <3>. QED BY <3>2
  <2>. QED BY <2>1
<1>4. z \in R
  BY <1>2
<1>. HIDE DEF R, z
<1>5. step \in [1 .. n -> [R -> R]]
  BY <1>1, <1>3
<1>6. PICK f : Steps(z, n, step, f) /\ f \in [0 .. n -> R]
  <2>. HIDE DEF step, n
  <2>. QED BY <1>1, <1>4, <1>5, StepsExist
<1>7. Def(f)
  <2>1. \A k \in 0 .. n : f[k] = IF k = 0 THEN z ELSE step[k][f[k - 1]]
    BY <1>6 DEF Steps
  <2>2. ASSUME NEW k \in 0 .. n PROVE f[k] = IF k = 0 THEN z ELSE Doubled(f[k - 1], s[k])
    <3>1. CASE k = 0
      BY <2>1, <3>1
    <3>2. CASE k # 0
      <4>1. k \in 1 .. n /\ k - 1 \in 0 .. n
        BY <1>1, <3>2
      <4>2. f[k - 1] \in R
        BY <1>6, <4>1
      <4>3. step[k][f[k - 1]] = Doubled(f[k - 1], s[k])
        BY <4>1, <4>2
      <4>. QED BY <2>1, <3>2, <4>3
    <3>. QED BY <3>1, <3>2
  <2>3. f = [k \in 0 .. n |-> f[k]]
    BY <1>6
  <2>. HIDE DEF step, n
  <2>. QED BY <2>2, <2>3
<1>8. Def(acc)
  BY <1>7
<1>9. Folded(Doubled, z, s) = acc[n]
  BY DEF Folded
<1>. HIDE DEF acc
<1>10. \A k \in 0 .. n : acc[k] = IF k = 0 THEN z ELSE Doubled(acc[k - 1], s[k])
  BY <1>8
<1>. HIDE DEF Def
<1>11. 0 \in G
  BY <1>1, <1>2, <1>10
<1>12. ASSUME NEW k \in Nat, k \in G PROVE k + 1 \in G
  <2>1. SUFFICES ASSUME k + 1 <= n PROVE acc[k + 1] \in CubeTable(k + 1)
    OBVIOUS
  <2>2. k + 1 \in 0 .. n /\ k + 1 \in 1 .. n /\ k + 1 # 0 /\ (k + 1) - 1 = k /\ acc[k] \in CubeTable(k)
    BY <1>1, <1>12, <2>1
  <2>3. acc[k + 1] = Doubled(acc[k], s[k + 1]) /\ s[k + 1] \in Fp
    BY <1>1, <1>10, <2>2
  <2>. QED BY <2>2, <2>3, DoubledType
<1>. HIDE DEF G
<1>13. n \in G
  BY <1>1, <1>11, <1>12, NaturalInduction
<1>14. acc[n] \in CubeTable(n)
  BY <1>1, <1>13 DEF G
<1>. QED BY <1>9, <1>14 DEF z

LEMMA EqSuffixType ==
  ASSUME NEW tau \in [1 .. M_ZERO -> Fp], NEW i \in 0 .. (M_ZERO - 1)
  PROVE  EqSuffix(tau, i) \in CubeTable(M_ZERO - i - 1) /\ M_ZERO - i - 1 \in Nat
<1>. DEFINE s == SubSeq(tau, i + 2, Len(tau))
<1>1. M_ZERO \in Nat /\ tau \in Seq(Fp) /\ Len(tau) = M_ZERO /\ M_ZERO - i - 1 \in Nat
  BY LiftAssumption
<1>2. s \in Seq(Fp) /\ Len(s) = M_ZERO - i - 1
  BY <1>1
<1>3. EqSuffix(tau, i) = Folded(Doubled, [j \in {0} |-> 1], s)
  BY DEF EqSuffix
<1>. HIDE DEF s
<1>. QED BY <1>1, <1>2, <1>3, DoublingType

LEMMA EqPrefixInt ==
  ASSUME NEW tau \in [1 .. M_ZERO -> Fp], NEW p \in Seq(Fp), Len(p) <= M_ZERO
  PROVE  EqPrefix(tau, p) \in Int
<1>. DEFINE n == Len(p)
            f == [k \in 1 .. n |-> EqFactor(tau[k], p[k])]
<1>1. n \in Nat
  OBVIOUS
<1>2. f \in IntSeqs(n)
  <2>1. ASSUME NEW k \in 1 .. n PROVE EqFactor(tau[k], p[k]) \in Int
    <3>1. k \in 1 .. M_ZERO
      BY LiftAssumption
    <3>2. tau[k] \in Int /\ p[k] \in Int
      BY <3>1, FpInt
    <3>. QED BY <3>2, EqFactorFacts
  <2>. HIDE DEF n
  <2>. QED BY <2>1 DEF IntSeqs
<1>3. EqPrefix(tau, p) = Product(f)
  BY DEF EqPrefix, Pi
<1>. HIDE DEF f, n
<1>. QED BY <1>1, <1>2, <1>3, ProductInt

-----------------------------------------------------------------------------
(* Folding any table of pairs. *)
LEMMA LayerOf ==
  ASSUME NEW n \in Nat \ {0}, NEW t \in [0 .. (2 * n - 1) -> Fp], NEW a \in Fp
  PROVE  Layer(t, a) \in [0 .. (n - 1) -> Fp]
<1>1. Size(t) = 2 * n
  <2>. DEFINE m == 2 * n
  <2>. HIDE DEF m
  <2>1. m \in Nat /\ DOMAIN t = 0 .. (m - 1)
    BY DEF m
  <2>. QED BY <2>1, SizeIs DEF m
<1>2. Size(t) \div 2 = n
  BY <1>1
<1>3. Layer(t, a) = [j \in 0 .. (n - 1) |-> ((1 - a) * t[2 * j] + a * t[2 * j + 1]) % Q]
  BY <1>2, TabulateIs DEF Layer
<1>4. ASSUME NEW j \in 0 .. (n - 1) PROVE ((1 - a) * t[2 * j] + a * t[2 * j + 1]) % Q \in Fp
  <2>1. 2 * j \in 0 .. (2 * n - 1) /\ 2 * j + 1 \in 0 .. (2 * n - 1)
    OBVIOUS
  <2>2. t[2 * j] \in Int /\ t[2 * j + 1] \in Int /\ a \in Int
    BY <2>1, FpInt
  <2>3. (1 - a) * t[2 * j] + a * t[2 * j + 1] \in Int
    BY <2>2
  <2>. QED BY <2>3, ModSmall
<1>. QED BY <1>3, <1>4

LEMMA PairsOf ==
  ASSUME NEW n \in Nat, NEW t \in [0 .. (2 * n - 1) -> Fp]
  PROVE  Pairs(t, n)
<1>1. ASSUME NEW y \in 0 .. (n - 1) PROVE t[2 * y] \in Int /\ t[2 * y + 1] \in Int
  <2>1. 2 * y \in 0 .. (2 * n - 1) /\ 2 * y + 1 \in 0 .. (2 * n - 1)
    OBVIOUS
  <2>. QED BY <2>1, FpInt
<1>. QED BY <1>1 DEF Pairs

LEMMA AlphabetIs == DIGIT_ALPHABET \in Nat \ {0} /\ HALF_BASE \in Int
BY BaseFacts DEF DIGIT_ALPHABET

LEMMA TypeTableType ==
  ASSUME NEW r \in Nat \ {0}
  PROVE  /\ TypeTable(r) \in [0 .. (r * Pow(DIGIT_ALPHABET, r) - 1) -> Fp]
         /\ Pow(DIGIT_ALPHABET, r) \in Nat \ {0}
<1>. DEFINE n == r * Pow(DIGIT_ALPHABET, r)
            c(k) == ((((k \div r) \div Pow(DIGIT_ALPHABET, r - 1 - (k % r))) % DIGIT_ALPHABET) - HALF_BASE) % Q
<1>1. Pow(DIGIT_ALPHABET, r) \in Nat \ {0}
  BY AlphabetIs, PowPositive
<1>2. ASSUME NEW k \in 0 .. (n - 1) PROVE c(k) \in Fp
  <2>. DEFINE e == r - 1 - (k % r)
              P == Pow(DIGIT_ALPHABET, e)
              A == DIGIT_ALPHABET
  <2>0. k \in Nat
    OBVIOUS
  <2>1. e \in Nat /\ k \div r \in Nat
    BY <2>0
  <2>. HIDE DEF e
  <2>2. P \in Nat \ {0}
    BY <2>1, AlphabetIs, PowPositive
  <2>. HIDE DEF P
  <2>. DEFINE q == (k \div r) \div P
  <2>3. q \in Int
    BY <2>1, <2>2
  <2>. HIDE DEF q, A
  <2>4. A \in Nat \ {0} /\ HALF_BASE \in Int
    BY AlphabetIs DEF A
  <2>5. q % A \in Int
    BY <2>3, <2>4
  <2>6. (q % A) - HALF_BASE \in Int
    BY <2>4, <2>5
  <2>7. ((q % A) - HALF_BASE) % Q \in Fp
    BY <2>6, ModSmall
  <2>. QED BY <2>7 DEF q, A, P, e
<1>3. TypeTable(r) = [k \in 0 .. (n - 1) |-> c(k)]
  BY TabulateIs DEF TypeTable
<1>. HIDE DEF c, n
<1>4. TypeTable(r) \in [0 .. (n - 1) -> Fp]
  BY <1>2, <1>3
<1>. QED BY <1>1, <1>4 DEF n

LEMMA BucketsType ==
  ASSUME NEW n \in Nat, NEW eq, Weights(eq, n), NEW w, NEW r \in Nat \ {0}
  PROVE  Weights(Buckets(w, r, eq), Pow(DIGIT_ALPHABET, r))
<1>. DEFINE type == Tabulate([y \in DOMAIN eq |-> TypeOf(w, r, y)])
            B(t) == { y \in DOMAIN eq : type[y] = t }
            P == Pow(DIGIT_ALPHABET, r)
            c(t) == SumFunction([y \in B(t) |-> eq[y]]) % Q
<1>. HIDE DEF type
<1>1. ASSUME NEW t PROVE c(t) \in Int
  <2>. DEFINE f == [y \in B(t) |-> eq[y]]
  <2>1. IsFiniteSet(B(t)) /\ \A y \in B(t) : y \in 0 .. (n - 1)
    <3>1. IsFiniteSet(0 .. (n - 1)) /\ B(t) \subseteq 0 .. (n - 1)
      BY FS_Interval DEF Weights
    <3>. QED BY <3>1, FS_Subset
  <2>2. DOMAIN f = B(t) /\ \A y \in B(t) : f[y] \in Int
    BY <2>1 DEF Weights
  <2>. HIDE DEF f, B
  <2>3. SumFunction(f) % Q \in Fp
    BY <2>1, <2>2, SigmaIs
  <2>. QED BY <2>3, FpInt DEF f
<1>2. Buckets(w, r, eq) = [t \in 0 .. (P - 1) |-> c(t)]
  BY TabulateIs DEF Buckets, Sigma, type
<1>. HIDE DEF c
<1>. QED BY <1>1, <1>2 DEF Weights

(* Polynomials of degree at most d.                                         *)
Polys(d) == [0 .. d -> Fp]

LEMMA PolySize ==
  ASSUME NEW d \in Nat, NEW g \in Polys(d)
  PROVE  /\ Size(g) = d + 1 /\ DOMAIN g = 0 .. d /\ IsFiniteSet(0 .. d)
         /\ \A k \in 0 .. d : g[k] \in Int /\ g[k] \in Fp
<1>1. DOMAIN g = 0 .. ((d + 1) - 1) /\ d + 1 \in Nat /\ DOMAIN g = 0 .. d
  <2>1. (d + 1) - 1 = d
    OBVIOUS
  <2>. QED BY <2>1 DEF Polys
<1>2. Size(g) = d + 1
  BY <1>1, SizeIs
<1>3. \A k \in 0 .. d : g[k] \in Fp
  BY DEF Polys
<1>4. \A k \in 0 .. d : g[k] \in Int
  BY <1>3, FpInt
<1>5. IsFiniteSet(0 .. d)
  <2>1. 0 \in Int /\ d \in Int
    OBVIOUS
  <2>. QED BY <2>1, FS_Interval
<1>. QED BY <1>1, <1>2, <1>3, <1>4, <1>5

LEMMA PolyEvalType ==
  ASSUME NEW d \in Nat, NEW g \in Polys(d), NEW x \in Fp
  PROVE  PolyEval(g, x) \in Fp
<1>. DEFINE f == [k \in DOMAIN g |-> g[k] * Pow(x, k)]
<1>1. DOMAIN f = 0 .. d /\ IsFiniteSet(0 .. d)
  BY PolySize
<1>2. ASSUME NEW k \in 0 .. d PROVE f[k] \in Int
  <2>1. g[k] \in Int /\ k \in Nat /\ x \in Int /\ k \in DOMAIN g
    BY PolySize, FpInt
  <2>2. Pow(x, k) \in Int
    BY <2>1, PowFacts
  <2>. QED BY <2>1, <2>2
<1>3. PolyEval(g, x) = SumFunction(f) % Q
  BY DEF PolyEval, Sigma
<1>. HIDE DEF f
<1>. QED BY <1>1, <1>2, <1>3, SigmaIs

LEMMA PolyScaleType ==
  ASSUME NEW d \in Nat, NEW g \in Polys(d), NEW c \in Int
  PROVE  PolyScale(g, c) \in Polys(d)
<1>1. PolyScale(g, c) = [k \in 0 .. d |-> (g[k] * c) % Q]
  BY PolySize, TabulateIs DEF PolyScale
<1>2. ASSUME NEW k \in 0 .. d PROVE (g[k] * c) % Q \in Fp
  <2>1. g[k] \in Int
    BY PolySize
  <2>2. g[k] * c \in Int
    BY <2>1
  <2>. QED BY <2>2, ModSmall
<1>. QED BY <1>1, <1>2 DEF Polys

LEMMA PolyMulType ==
  ASSUME NEW d \in Nat, NEW g \in Polys(d), NEW h \in Polys(1)
  PROVE  PolyMul(g, h) \in Polys(d + 1)
<1>. DEFINE S(k) == { i \in DOMAIN g : k - i \in DOMAIN h }
            c(k) == SumFunction([i \in S(k) |-> g[i] * h[k - i]]) % Q
<1>1. /\ Size(g) = d + 1 /\ DOMAIN g = 0 .. d /\ IsFiniteSet(0 .. d) /\ \A k \in 0 .. d : g[k] \in Int
      /\ Size(h) = 2 /\ DOMAIN h = 0 .. 1 /\ \A k \in 0 .. 1 : h[k] \in Int
  <2>1. /\ Size(h) = 1 + 1 /\ DOMAIN h = 0 .. 1 /\ \A k \in 0 .. 1 : h[k] \in Int
    BY PolySize
  <2>. QED BY <2>1, PolySize
<1>2. PolyMul(g, h) = [k \in 0 .. (d + 1) |-> c(k)]
  <2>1. Size(g) + Size(h) - 2 = d + 1
    BY <1>1
  <2>. QED BY <2>1, TabulateIs DEF PolyMul, Sigma
<1>3. ASSUME NEW k \in 0 .. (d + 1) PROVE c(k) \in Fp
  <2>. DEFINE f == [i \in S(k) |-> g[i] * h[k - i]]
  <2>1. IsFiniteSet(S(k)) /\ \A i \in S(k) : i \in 0 .. d /\ k - i \in 0 .. 1
    <3>1. S(k) \subseteq 0 .. d /\ \A i \in S(k) : k - i \in 0 .. 1
      BY <1>1
    <3>. HIDE DEF S
    <3>. QED BY <1>1, <3>1, FS_Subset
  <2>2. DOMAIN f = S(k) /\ \A i \in S(k) : f[i] \in Int
    <3>1. ASSUME NEW i \in S(k) PROVE g[i] * h[k - i] \in Int
      <4>1. g[i] \in Int /\ h[k - i] \in Int
        BY <1>1, <2>1
      <4>. QED BY <4>1
    <3>. QED BY <3>1
  <2>. HIDE DEF f, S
  <2>3. SumFunction(f) % Q \in Fp
    BY <2>1, <2>2, SigmaIs
  <2>. QED BY <2>3 DEF f
<1>. HIDE DEF c
<1>. QED BY <1>2, <1>3 DEF Polys

LEMMA EqFreeType ==
  ASSUME NEW t \in Fp
  PROVE  EqFree(t) \in Polys(1)
<1>1. (1 - t) % Q \in Fp /\ (2 * t - 1) % Q \in Fp
  <2>1. 1 - t \in Int /\ 2 * t - 1 \in Int
    BY FpInt
  <2>. QED BY <2>1, ModSmall
<1>. QED BY <1>1 DEF EqFree, Polys

(* The range side of a message.                                             *)
LEMMA RangePolyType ==
  ASSUME NEW s \in Statements, NEW p \in Seq(Fp), Len(p) < M_ZERO,
         wfp \in CubeTable(M_ZERO), wtab \in CubeTable(M_ZERO - Len(p))
  PROVE  RangePoly(s, p) \in Polys(SHIFT_DEG + 1)
<1>. DEFINE i == Len(p)
            eq == EqSuffix(s.tau0, i)
            m == M_ZERO - i - 1
            n == Pow(2, m)
            inner == IF i = 0 THEN ZeroPolyBase(wfp, eq)
                     ELSE IF i = 1 THEN ZeroPolyFold1(wfp, p[1], eq)
                     ELSE ZeroPoly(wtab, eq)
<1>1. i \in 0 .. (M_ZERO - 1) /\ i \in Nat /\ M_ZERO \in Nat /\ s.tau0 \in [1 .. M_ZERO -> Fp]
  BY StatementIs
<1>2. eq \in CubeTable(m) /\ m \in Nat
  BY <1>1, EqSuffixType
<1>3. n \in Nat \ {0} /\ Weights(eq, n)
  BY <1>2, TwoPow, CubeFacts DEF Weights
<1>4. SHIFT_DEG \in Nat
  BY RangeCoeffs
<1>5. ASSUME NEW t \in CubeTable(m + 1) PROVE Pairs(t, n)
  <2>1. Pow(2, m + 1) = 2 * n
    BY <1>2, TwoPow
  <2>2. t \in [0 .. (2 * n - 1) -> Fp]
    BY <2>1 DEF CubeTable, Table
  <2>. HIDE DEF n
  <2>. QED BY <1>3, <2>2, PairsOf
<1>. HIDE DEF eq
<1>6. ASSUME NEW w, NEW t, NEW r \in Nat \ {0}, t \in [0 .. (2 * Pow(DIGIT_ALPHABET, r) - 1) -> Fp]
      PROVE  ZeroPoly(t, Buckets(w, r, eq)) \in Polys(SHIFT_DEG)
  <2>. DEFINE P == Pow(DIGIT_ALPHABET, r)
  <2>1. P \in Nat \ {0}
    BY TypeTableType
  <2>2. Weights(Buckets(w, r, eq), P)
    <3>. HIDE DEF n
    <3>. QED BY <1>3, BucketsType
  <2>. HIDE DEF P
  <2>3. Pairs(t, P)
    BY <1>6, <2>1, PairsOf DEF P
  <2>. QED BY <2>1, <2>2, <2>3, ZeroPolyType DEF Polys
<1>7. ASSUME NEW w, Pairs(w, n) PROVE ZeroPoly(w, eq) \in Polys(SHIFT_DEG)
  <2>. HIDE DEF n
  <2>. QED BY <1>3, <1>7, ZeroPolyType DEF Polys
<1>8. ASSUME i = 0 PROVE inner \in Polys(SHIFT_DEG)
  <2>1. m + 1 = M_ZERO
    BY <1>1, <1>8
  <2>2. ZeroPoly(wfp, eq) \in Polys(SHIFT_DEG)
    BY <1>5, <1>7, <2>1
  <2>3. ZeroPoly(TypeTable(2), Buckets(wfp, 2, eq)) \in Polys(SHIFT_DEG)
    <3>1. TypeTable(2) \in [0 .. (2 * Pow(DIGIT_ALPHABET, 2) - 1) -> Fp]
      BY TypeTableType
    <3>. QED BY <1>6, <3>1
  <2>4. ZeroPolyBase(wfp, eq) \in Polys(SHIFT_DEG)
    <3>. DEFINE b == Size(eq) >= BUCKET_MIN_PAIRS0 /\ InAlphabet(wfp, 2 * Size(eq))
    <3>1. ZeroPolyBase(wfp, eq) = IF b THEN ZeroPoly(TypeTable(2), Buckets(wfp, 2, eq)) ELSE ZeroPoly(wfp, eq)
      BY DEF ZeroPolyBase
    <3>. HIDE DEF b
    <3>. QED BY <3>1, <2>2, <2>3
  <2>. QED BY <1>8, <2>4
<1>9. ASSUME i = 1 PROVE inner \in Polys(SHIFT_DEG)
  <2>1. m + 1 = M_ZERO - 1 /\ M_ZERO \in Nat \ {0} /\ p[1] \in Fp
    <3>1. 1 \in 1 .. Len(p)
      BY <1>9
    <3>2. p[1] \in Fp
      BY <3>1
    <3>3. m + 1 = M_ZERO - 1 /\ M_ZERO \in Nat \ {0}
      BY <1>1, <1>9
    <3>. QED BY <3>2, <3>3
  <2>2. ZeroPoly(Layer(wfp, p[1]), eq) \in Polys(SHIFT_DEG)
    <3>1. Layer(wfp, p[1]) \in CubeTable(M_ZERO - 1)
      BY <2>1, LayerType
    <3>. QED BY <1>5, <1>7, <2>1, <3>1
  <2>3. ZeroPoly(Layer(TypeTable(4), p[1]), Buckets(wfp, 4, eq)) \in Polys(SHIFT_DEG)
    <3>. DEFINE P == Pow(DIGIT_ALPHABET, 4)
    <3>1. P \in Nat \ {0} /\ TypeTable(4) \in [0 .. (4 * P - 1) -> Fp]
      BY TypeTableType
    <3>2. 2 * (2 * P) = 4 * P /\ 2 * P \in Nat \ {0}
      BY <3>1
    <3>. DEFINE k == 2 * P
    <3>. HIDE DEF k
    <3>3. k \in Nat \ {0} /\ TypeTable(4) \in [0 .. (2 * k - 1) -> Fp]
      BY <3>1, <3>2 DEF k
    <3>4. Layer(TypeTable(4), p[1]) \in [0 .. (k - 1) -> Fp]
      BY <2>1, <3>3, LayerOf
    <3>. QED BY <1>6, <3>4 DEF k
  <2>4. ZeroPolyFold1(wfp, p[1], eq) \in Polys(SHIFT_DEG)
    <3>. DEFINE b == Size(eq) >= BUCKET_MIN_PAIRS1 /\ InAlphabet(wfp, 4 * Size(eq))
    <3>1. ZeroPolyFold1(wfp, p[1], eq) =
            IF b THEN ZeroPoly(Layer(TypeTable(4), p[1]), Buckets(wfp, 4, eq)) ELSE ZeroPoly(Layer(wfp, p[1]), eq)
      BY DEF ZeroPolyFold1
    <3>. HIDE DEF b
    <3>. QED BY <3>1, <2>2, <2>3
  <2>. QED BY <1>9, <2>4
<1>10. ASSUME i # 0, i # 1 PROVE inner \in Polys(SHIFT_DEG)
  <2>1. m + 1 = M_ZERO - i
    BY <1>1
  <2>. QED BY <1>5, <1>7, <1>10, <2>1
<1>11. inner \in Polys(SHIFT_DEG)
  BY <1>8, <1>9, <1>10
<1>12. RangePoly(s, p) = PolyScale(PolyMul(inner, EqFree(s.tau0[i + 1])), EqPrefix(s.tau0, p))
  BY DEF RangePoly, eq
<1>. HIDE DEF inner
<1>13. s.tau0[i + 1] \in Fp
  BY <1>1
<1>14. PolyMul(inner, EqFree(s.tau0[i + 1])) \in Polys(SHIFT_DEG + 1)
  BY <1>4, <1>11, <1>13, EqFreeType, PolyMulType
<1>15. EqPrefix(s.tau0, p) \in Int
  BY <1>1, EqPrefixInt
<1>. QED BY <1>4, <1>12, <1>14, <1>15, PolyScaleType

(* The linear side of a message.                                            *)
PairsFrom(w, base, n) == \A y \in 0 .. (n - 1) : w[base + 2 * y] \in Int /\ w[base + 2 * y + 1] \in Int

LEMMA BlockSumsType ==
  ASSUME NEW n \in Nat, NEW w, NEW a, NEW base, PairsFrom(w, base, n), Pairs(a, n)
  PROVE  BlockSums(w, a, base, n) \in Polys(2)
<1>. DEFINE f0 == [t \in 0 .. (n - 1) |-> w[base + 2 * t] * a[2 * t]]
            f1 == [t \in 0 .. (n - 1) |-> w[base + 2 * t + 1] * a[2 * t + 1]]
            f2 == [t \in 0 .. (n - 1) |-> (w[base + 2 * t + 1] - w[base + 2 * t]) * (a[2 * t + 1] - a[2 * t])]
            s(f) == SumFunction(f) % Q
            c(k) == IF k = 0 THEN s(f0) ELSE IF k = 1 THEN (s(f1) - s(f0) - s(f2)) % Q ELSE s(f2)
<1>1. IsFiniteSet(0 .. (n - 1))
  <2>1. 0 \in Int /\ n - 1 \in Int
    OBVIOUS
  <2>. QED BY <2>1, FS_Interval
<1>2. ASSUME NEW t \in 0 .. (n - 1) PROVE f0[t] \in Int /\ f1[t] \in Int /\ f2[t] \in Int
  <2>1. /\ w[base + 2 * t] \in Int /\ w[base + 2 * t + 1] \in Int
        /\ a[2 * t] \in Int /\ a[2 * t + 1] \in Int
    BY DEF PairsFrom, Pairs
  <2>2. ASSUME NEW u \in Int, NEW v \in Int PROVE u * v \in Int /\ u - v \in Int
    OBVIOUS
  <2>3. /\ w[base + 2 * t + 1] - w[base + 2 * t] \in Int
        /\ a[2 * t + 1] - a[2 * t] \in Int
    BY <2>1, <2>2
  <2>. QED BY <2>1, <2>2, <2>3
<1>3. DOMAIN f0 = 0 .. (n - 1) /\ DOMAIN f1 = 0 .. (n - 1) /\ DOMAIN f2 = 0 .. (n - 1)
  OBVIOUS
<1>4. BlockSums(w, a, base, n) = [k \in 0 .. 2 |-> c(k)]
  BY TabulateIs DEF BlockSums, Sigma
<1>. HIDE DEF f0, f1, f2
<1>5. s(f0) \in Fp /\ s(f1) \in Fp /\ s(f2) \in Fp
  BY <1>1, <1>2, <1>3, SigmaIs
<1>. HIDE DEF s
<1>6. (s(f1) - s(f0) - s(f2)) % Q \in Fp
  <2>1. s(f1) - s(f0) - s(f2) \in Int
    BY <1>5, FpInt
  <2>. QED BY <2>1, ModSmall
<1>7. ASSUME NEW k \in 0 .. 2 PROVE c(k) \in Fp
  BY <1>5, <1>6
<1>. HIDE DEF c
<1>. QED BY <1>4, <1>7 DEF Polys

LEMMA AlphaPolyType ==
  ASSUME NEW l \in Nat, NEW h \in Nat, l + h > 0, low \in CubeTable(l), high \in CubeTable(h),
         NEW w \in CubeTable(l + h)
  PROVE  AlphaPoly(w) \in Polys(2)
<1>. DEFINE half == Pow(2, l + h - 1)
<1>1. /\ Size(w) = Pow(2, l + h) /\ Pow(2, l + h) = 2 * half /\ Size(w) \div 2 = half
      /\ half \in Nat \ {0} /\ w \in [0 .. (2 * half - 1) -> Fp]
  <2>1. l + h \in Nat \ {0}
    OBVIOUS
  <2>2. Pow(2, l + h) = 2 * half /\ half \in Nat \ {0} /\ Pow(2, l + h) \div 2 = half
    BY <2>1, PairIndex
  <2>3. Size(w) = Pow(2, l + h)
    BY <2>1, CubeFacts
  <2>. QED BY <2>2, <2>3 DEF CubeTable, Table
<1>2. Size(low) = Pow(2, l) /\ Size(high) = Pow(2, h) /\ DOMAIN high = 0 .. (Pow(2, h) - 1)
  BY CubeFacts
<1>3. ASSUME Size(low) = 1 PROVE AlphaPoly(w) \in Polys(2)
  <2>0. l = 0
    BY <1>2, <1>3, TwoPow
  <2>1. l = 0 /\ l + h - 1 = h - 1 /\ h \in Nat \ {0} /\ l + h = h
    BY <2>0
  <2>2. high \in [0 .. (2 * half - 1) -> Fp]
    BY <1>1, <2>1 DEF CubeTable, Table
  <2>3. low[0] \in Int
    <3>1. 0 \in 0 .. (Pow(2, l) - 1)
      BY <2>0, TwoPow
    <3>. QED BY <3>1, CubeFacts
  <2>4. AlphaPoly(w) = PolyScale(BlockSums(w, high, 0, half), low[0])
    BY <1>1, <1>3 DEF AlphaPoly
  <2>. HIDE DEF half
  <2>5. Pairs(high, half) /\ Pairs(w, half)
    BY <1>1, <2>2, PairsOf
  <2>6. PairsFrom(w, 0, half)
    BY <2>5 DEF Pairs, PairsFrom
  <2>7. BlockSums(w, high, 0, half) \in Polys(2)
    BY <1>1, <2>5, <2>6, BlockSumsType
  <2>. QED BY <2>3, <2>4, <2>7, PolyScaleType
<1>4. ASSUME Size(low) # 1 PROVE AlphaPoly(w) \in Polys(2)
  <2>. DEFINE lh == Pow(2, l - 1)
              r(b) == IF half - b * lh < lh THEN half - b * lh ELSE lh
              D == { b \in DOMAIN high : b * lh < half }
              block(b) == BlockSums(w, low, 2 * b * lh, r(b))
              f(k) == [b \in D |-> high[b] * block(b)[k]]
  <2>1. l \in Nat \ {0}
    BY <1>2, <1>4, TwoPow
  <2>2. Size(low) \div 2 = lh /\ lh \in Nat \ {0} /\ low \in [0 .. (2 * lh - 1) -> Fp]
    BY <1>2, <2>1, PairIndex DEF CubeTable, Table
  <2>3. AlphaPoly(w) = [k \in 0 .. 2 |-> SumFunction(f(k)) % Q]
    <3>. HIDE DEF half, lh
    <3>1. AlphaPoly(w) = Tabulate([k \in 0 .. 2 |-> SumFunction(f(k)) % Q])
      BY <1>1, <1>4, <2>2 DEF AlphaPoly, Sigma
    <3>. HIDE DEF f
    <3>. QED BY <3>1, TabulateIs
  <2>4. IsFiniteSet(D)
    <3>1. 0 \in Int /\ Pow(2, h) - 1 \in Int
      BY TwoPow
    <3>2. IsFiniteSet(DOMAIN high)
      BY <1>2, <3>1, FS_Interval
    <3>3. D \subseteq DOMAIN high
      OBVIOUS
    <3>. HIDE DEF D
    <3>. QED BY <3>2, <3>3, FS_Subset
  <2>5. ASSUME NEW b \in D PROVE block(b) \in Polys(2) /\ high[b] \in Int
    <3>0. b \in 0 .. (Pow(2, h) - 1)
      BY <1>2
    <3>1. b \in Nat /\ high[b] \in Int
      <4>1. high[b] \in Int
        <5>. HIDE DEF D, block, r, half, lh
        <5>. QED BY <3>0, CubeFacts
      <4>2. b \in Nat
        <5>1. Pow(2, h) \in Nat
          BY TwoPow
        <5>. HIDE DEF D, block, r, half, lh
        <5>. QED BY <3>0, <5>1
      <4>. QED BY <4>1, <4>2
    <3>. DEFINE B == b * lh
    <3>2. B \in Nat /\ 2 * b * lh = 2 * B /\ B < half
      BY <2>2, <3>1
    <3>3. r(b) = IF half - B < lh THEN half - B ELSE lh
      OBVIOUS
    <3>. HIDE DEF B, r, half, lh
    <3>4. r(b) \in Nat /\ r(b) <= lh /\ 2 * B + 2 * r(b) <= 2 * half
      BY <1>1, <2>2, <3>2, <3>3
    <3>. DEFINE n == r(b)
    <3>5. n \in Nat /\ n <= lh /\ 2 * B + 2 * n <= 2 * half
      BY <3>4
    <3>. HIDE DEF n
    <3>6. Pairs(low, n)
      <4>1. ASSUME NEW y \in 0 .. (n - 1) PROVE 2 * y \in 0 .. (2 * lh - 1) /\ 2 * y + 1 \in 0 .. (2 * lh - 1)
        BY <2>2, <3>5
      <4>2. \A y \in 0 .. (n - 1) : low[2 * y] \in Fp /\ low[2 * y + 1] \in Fp
        BY <2>2, <4>1
      <4>. QED BY <4>2, FpInt DEF Pairs
    <3>7. PairsFrom(w, 2 * B, n)
      <4>1. ASSUME NEW y \in 0 .. (n - 1)
            PROVE  2 * B + 2 * y \in 0 .. (2 * half - 1) /\ 2 * B + 2 * y + 1 \in 0 .. (2 * half - 1)
        BY <1>1, <3>2, <3>5
      <4>2. \A y \in 0 .. (n - 1) : w[2 * B + 2 * y] \in Fp /\ w[2 * B + 2 * y + 1] \in Fp
        BY <1>1, <4>1
      <4>. QED BY <4>2, FpInt DEF PairsFrom
    <3>8. BlockSums(w, low, 2 * B, n) \in Polys(2)
      BY <3>5, <3>6, <3>7, BlockSumsType
    <3>. QED BY <3>1, <3>2, <3>8 DEF n
  <2>6. ASSUME NEW k \in 0 .. 2 PROVE SumFunction(f(k)) % Q \in Fp
    <3>1. ASSUME NEW b \in D PROVE high[b] * block(b)[k] \in Int
      <4>. HIDE DEF block, D
      <4>1. block(b)[k] \in Int /\ high[b] \in Int
        <5>1. 2 \in Nat /\ block(b) \in Polys(2)
          BY <2>5
        <5>. QED BY <5>1, <2>5, PolySize
      <4>. QED BY <4>1
    <3>2. DOMAIN f(k) = D /\ \A b \in D : f(k)[b] \in Int
      <4>. HIDE DEF block, D
      <4>. QED BY <3>1
    <3>. HIDE DEF f, D
    <3>. QED BY <2>4, <3>2, SigmaIs
  <2>. HIDE DEF f
  <2>. QED BY <2>3, <2>6 DEF Polys
<1>. QED BY <1>3, <1>4

(* What is sent is a pair of polynomials, tampered with or not.             *)
Messages == UNION { [0 .. d -> Fp] : d \in 1 .. (SHIFT_DEG + 1) }

LEMMA PolyAddType ==
  ASSUME NEW d \in Nat, NEW g \in Polys(d), NEW h, \A k \in DOMAIN h : h[k] \in Int
  PROVE  PolyAdd(g, h) \in Polys(d)
<1>1. DOMAIN g = 0 .. d /\ \A k \in 0 .. d : g[k] \in Int /\ g[k] \in Fp
  BY PolySize
<1>2. ASSUME NEW k \in 0 .. d PROVE (IF k \in DOMAIN h THEN (g[k] + h[k]) % Q ELSE g[k]) \in Fp
  <2>1. CASE k \in DOMAIN h
    <3>1. g[k] + h[k] \in Int
      BY <1>1, <2>1
    <3>. QED BY <2>1, <3>1, ModSmall
  <2>2. CASE k \notin DOMAIN h
    BY <1>1, <2>2
  <2>. QED BY <2>1, <2>2
<1>3. PolyAdd(g, h) = [k \in 0 .. d |-> IF k \in DOMAIN h THEN (g[k] + h[k]) % Q ELSE g[k]]
  BY <1>1, TabulateIs DEF PolyAdd
<1>. QED BY <1>2, <1>3 DEF Polys

LEMMA ChangedType ==
  ASSUME NEW d \in Nat, NEW g \in Polys(d), NEW tamper, NEW x \in Fp
  PROVE  PolyAdd(g,
           IF tamper = "none" THEN [k \in {0} |-> 0]
           ELSE IF tamper = "mend" THEN [k \in {1} |-> (x - PolyEval(g, 0) - PolyEval(g, 1)) % Q]
           ELSE IF tamper = "bend" THEN [k \in 1 .. 2 |-> IF k = 1 THEN Q - 1 ELSE 1]
           ELSE [k \in {0} |-> 1]) \in Polys(d)
<1>. DEFINE e == (x - PolyEval(g, 0) - PolyEval(g, 1)) % Q
            h == IF tamper = "none" THEN [k \in {0} |-> 0]
                 ELSE IF tamper = "mend" THEN [k \in {1} |-> e]
                 ELSE IF tamper = "bend" THEN [k \in 1 .. 2 |-> IF k = 1 THEN Q - 1 ELSE 1]
                 ELSE [k \in {0} |-> 1]
<1>1. e \in Int
  <2>1. 0 \in Fp /\ 1 \in Fp
    BY ModulusFacts DEF Fp
  <2>2. PolyEval(g, 0) \in Int /\ PolyEval(g, 1) \in Int /\ x \in Int
    BY <2>1, PolyEvalType, FpInt
  <2>3. x - PolyEval(g, 0) - PolyEval(g, 1) \in Int
    BY <2>2
  <2>. QED BY <2>3, ModSmall, FpInt
<1>2. Q \in Int
  BY ModulusFacts
<1>3. \A k \in DOMAIN h : h[k] \in Int
  <2>. HIDE DEF e
  <2>. QED BY <1>1, <1>2
<1>. HIDE DEF h
<1>4. PolyAdd(g, h) \in Polys(d)
  BY <1>3, PolyAddType
<1>. QED BY <1>4 DEF h

LEMMA SentType ==
  ASSUME NEW g, g.zero \in Polys(SHIFT_DEG + 1), g.alpha \in Polys(2), NEW tamper,
         target \in [{"zero", "alpha"} -> Fp]
  PROVE  Sent(g, tamper) \in [{"zero", "alpha"} -> Messages]
<1>1. g["zero"] \in Polys(SHIFT_DEG + 1) /\ g["alpha"] \in Polys(2) /\ SHIFT_DEG + 1 \in Nat /\ 2 \in Nat
  BY RangeCoeffs
<1>2. target["zero"] \in Fp /\ target["alpha"] \in Fp
  OBVIOUS
<1>3. Sent(g, tamper).zero \in Polys(SHIFT_DEG + 1)
  BY <1>1, <1>2, ChangedType DEF Sent
<1>4. Sent(g, tamper).alpha \in Polys(2)
  BY <1>1, <1>2, ChangedType DEF Sent
<1>5. Polys(SHIFT_DEG + 1) \subseteq Messages /\ Polys(2) \subseteq Messages
  <2>1. SHIFT_DEG + 1 \in 1 .. (SHIFT_DEG + 1) /\ 2 \in 1 .. (SHIFT_DEG + 1)
    BY RangeCoeffs
  <2>. QED BY <2>1 DEF Messages, Polys
<1>6. Sent(g, tamper) = [zero |-> Sent(g, tamper).zero, alpha |-> Sent(g, tamper).alpha]
  BY DEF Sent
<1>. HIDE DEF Sent
<1>7. ASSUME NEW x \in Messages, NEW y \in Messages PROVE [zero |-> x, alpha |-> y] \in [{"zero", "alpha"} -> Messages]
  OBVIOUS
<1>. QED BY <1>3, <1>4, <1>5, <1>6, <1>7

-----------------------------------------------------------------------------
(* THE REFINEMENT *)

W == INSTANCE RoundVerifyProofs WITH
       Elem <- Fp, Zero <- 0, One <- 1, Add <- AddQ,
       Poly <- UNION { [0 .. d -> Fp] : d \in 1 .. (SHIFT_DEG + 1) }, Value <- PolyEval,
       Stmt <- Statements, Witness <- LiftedWitness,
       Commitment <- { LiftCommit(w) : w \in LiftedWitness },
       Short <- LiftShort, Commit <- LiftCommit, TableEval <- WTableEval

LEMMA AddType ==
  ASSUME NEW x \in Fp, NEW y \in Fp
  PROVE  AddQ(x, y) \in Fp
<1>1. x + y \in Int
  BY FpInt
<1>. QED BY <1>1, ModSmall DEF AddQ

LEMMA VerifierFacts == W!VerifierAssumption
<1>1. \A x \in Fp, y \in Fp : AddQ(x, y) \in Fp
  BY AddType
<1>2. ASSUME NEW g \in Messages, NEW x \in Fp PROVE PolyEval(g, x) \in Fp
  <2>1. PICK d \in 1 .. (SHIFT_DEG + 1) : g \in Polys(d)
    BY DEF Messages, Polys
  <2>2. d \in Nat
    BY <2>1, RangeCoeffs
  <2>. QED BY <2>1, <2>2, PolyEvalType
<1>3. ASSUME NEW s \in Statements, NEW side \in {"zero", "alpha"} PROVE InitialTarget(s, side) \in Fp
  <2>1. TargetAlpha(s.alpha, s.tau1) \in Fp /\ 0 \in Fp
    BY StatementIs, TargetType, ModulusFacts
  <2>. QED BY <2>1 DEF InitialTarget
<1>. QED BY <1>1, <1>2, <1>3, LiftAssumption, ModulusFacts DEF W!VerifierAssumption, Messages

LEMMA PrefixIs ==
  ASSUME NEW p \in W!Prefixes
  PROVE  p \in Seq(Fp) /\ Len(p) \in Nat /\ Len(p) <= M_ZERO
<1>1. PICK k \in 0 .. M_ZERO : p \in [1 .. k -> Fp]
  BY DEF W!Prefixes
<1>2. k \in Nat /\ k <= M_ZERO
  BY <1>1, LowVarsIs
<1>. QED BY <1>1, <1>2

LEMMA SumFacts == W!SumAssumption
<1>1. ASSUME NEW s \in Statements, NEW w \in LiftedWitness, NEW side \in {"zero", "alpha"},
             NEW p \in W!Prefixes
      PROVE  IF Len(p) = M_ZERO
             THEN CubeSum(s, w, side, p) = FinalValue(s, side, p, WTableEval(w, p))
             ELSE CubeSum(s, w, side, p)
                    = AddQ(CubeSum(s, w, side, Append(p, 0)), CubeSum(s, w, side, Append(p, 1)))
  <2>1. p \in Seq(Fp) /\ Len(p) \in Nat /\ Len(p) <= M_ZERO /\ M_ZERO \in Nat
    BY PrefixIs, LowVarsIs
  <2>2. CASE Len(p) = M_ZERO
    BY <2>1, <2>2, ClaimWhole
  <2>3. CASE Len(p) # M_ZERO
    <3>1. Len(p) < M_ZERO
      BY <2>1, <2>3
    <3>2. CubeSum(s, w, side, p)
            = AddQ(CubeSum(s, w, side, Append(p, 0)), CubeSum(s, w, side, Append(p, 1)))
      BY <2>1, <3>1, ClaimSplits
    <3>. QED BY <2>3, <3>2
  <2>. QED BY <2>2, <2>3
<1>. QED BY <1>1 DEF W!SumAssumption, W!Side

(* The inductive invariant: the prover's tables are its witness table and   *)
(* the public table with the challenges substituted.                        *)
ProverInv ==
  /\ wit \in LiftedWitness /\ com = LiftCommit(wit) /\ stmt \in Statements
  /\ challenges \in Seq(Fp) /\ Len(challenges) <= M_ZERO
  /\ target \in [{"zero", "alpha"} -> Fp]
  /\ wfp = WTable(wit)
  /\ wtab = Bound(WTable(wit), challenges)
  /\ \E l \in Nat, h \in Nat :
       /\ Factored(low, high, Bound(AlphaTable(stmt.alpha, stmt.tau1), challenges), l, h)
       /\ l + h = M_ZERO - Len(challenges)
       /\ l = 0 \/ h = M_ZERO - LowVars

LEMMA ProverInit == Init => ProverInv /\ W!Init
<1>. SUFFICES ASSUME Init PROVE ProverInv /\ W!Init
  OBVIOUS
<1>1. /\ wit \in LiftedWitness /\ V!Init /\ com = LiftCommit(wit) /\ InitProver(stmt, wit)
  BY DEF Init
<1>2. W!Init
  BY <1>1 DEF W!Init, V!Init, W!Side, V!Side
<1>3. stmt \in Statements /\ challenges = << >> /\ Len(challenges) = 0 /\ challenges \in Seq(Fp)
  BY <1>1 DEF V!Init
<1>4. target \in [{"zero", "alpha"} -> Fp]
  BY <1>2, <1>3, VerifierFacts DEF W!VerifierAssumption, W!Init, W!Side
<1>5. M_ZERO \in Nat /\ M_ZERO - LowVars \in Nat /\ LowVars \in Nat /\ LowVars + (M_ZERO - LowVars) = M_ZERO - 0
  BY LowVarsIs
<1>6. wfp = WTable(wit) /\ wtab = Bound(WTable(wit), challenges)
  <2>1. Bound(WTable(wit), << >>) = WTable(wit)
    BY <1>1, <1>5, WTableType, BoundEmpty
  <2>. QED BY <1>1, <1>3, <2>1 DEF InitProver
<1>7. Factored(low, high, Bound(AlphaTable(stmt.alpha, stmt.tau1), challenges), LowVars, M_ZERO - LowVars)
  <2>1. Factored(AlphaLow(stmt.alpha), AlphaHigh(stmt.alpha, stmt.tau1), AlphaTable(stmt.alpha, stmt.tau1),
                 LowVars, M_ZERO - LowVars)
    BY <1>3, StatementIs, AlphaFactored
  <2>2. Bound(AlphaTable(stmt.alpha, stmt.tau1), << >>) = AlphaTable(stmt.alpha, stmt.tau1)
    BY <1>3, <1>5, AlphaTableType, BoundEmpty
  <2>. QED BY <1>1, <1>3, <2>1, <2>2 DEF InitProver
<1>8. 0 <= M_ZERO
  BY <1>5
<1>. QED BY <1>1, <1>2, <1>3, <1>4, <1>5, <1>6, <1>7, <1>8 DEF ProverInv

(* The folds of a round substitute its challenge.                           *)
LEMMA FoldStep ==
  ASSUME ProverInv, Len(challenges) < M_ZERO, NEW a \in Fp, ProverFold(a), UNCHANGED <<wit, stmt>>,
         challenges' = Append(challenges, a)
  PROVE  /\ wfp' = WTable(wit)' /\ wtab' = Bound(WTable(wit), challenges)'
         /\ \E l \in Nat, h \in Nat :
              /\ Factored(low', high', Bound(AlphaTable(stmt.alpha, stmt.tau1), challenges)', l, h)
              /\ l + h = M_ZERO - Len(challenges')
              /\ l = 0 \/ h = M_ZERO - LowVars
<1>. DEFINE T == WTable(wit)
            A == AlphaTable(stmt.alpha, stmt.tau1)
            B == Bound(A, challenges)
<1>1. T \in CubeTable(M_ZERO) /\ A \in CubeTable(M_ZERO) /\ M_ZERO \in Nat /\ challenges \in Seq(Fp)
  BY WTableType, AlphaTableType, LowVarsIs DEF ProverInv
<1>2. T' = T /\ A' = A
  OBVIOUS
<1>3. /\ Bound(T, Append(challenges, a)) = Layer(Bound(T, challenges), a)
      /\ Bound(A, Append(challenges, a)) = Layer(B, a)
  <2>. HIDE DEF T, A
  <2>. QED BY <1>1, BoundLayer
<1>4. wfp' = T' /\ wtab' = Bound(T, challenges)'
  <2>1. wfp' = T
    BY DEF ProverFold, ProverInv
  <2>2. wtab' = Layer(Bound(T, challenges), a)
    BY DEF ProverFold, ProverInv
  <2>3. Bound(T, challenges)' = Bound(T', challenges')
    OBVIOUS
  <2>. HIDE DEF T
  <2>. QED BY <1>2, <1>3, <2>1, <2>2, <2>3
<1>5. Bound(A, challenges)' = Layer(B, a)
  <2>1. Bound(A, challenges)' = Bound(A', challenges')
    OBVIOUS
  <2>. HIDE DEF A
  <2>. QED BY <1>2, <1>3, <2>1
<1>6. PICK l \in Nat, h \in Nat : /\ Factored(low, high, B, l, h)
                                  /\ l + h = M_ZERO - Len(challenges)
                                  /\ l = 0 \/ h = M_ZERO - LowVars
  BY DEF ProverInv
<1>7. Len(challenges') = Len(challenges) + 1 /\ Len(challenges) \in Nat
  BY <1>1
<1>. HIDE DEF A, B
<1>8. low \in CubeTable(l) /\ Size(low) = Pow(2, l)
  <2>1. low \in CubeTable(l)
    BY <1>6 DEF Factored
  <2>. QED BY <2>1, CubeFacts
<1>9. ASSUME l # 0
      PROVE  /\ Factored(low', high', Layer(B, a), l - 1, h) /\ l - 1 \in Nat
             /\ (l - 1) + h = M_ZERO - Len(challenges')
             /\ h = M_ZERO - LowVars
  <2>1. Size(low) > 1 /\ l \in Nat \ {0}
    BY <1>8, <1>9, TwoPow
  <2>2. low' = Layer(low, a) /\ high' = high
    BY <2>1 DEF ProverFold, AlphaSplitFold
  <2>3. Factored(Layer(low, a), high, Layer(B, a), l - 1, h)
    BY <1>6, <2>1, FoldLowFactor
  <2>4. l - 1 \in Nat /\ (l - 1) + h = M_ZERO - (Len(challenges) + 1) /\ h = M_ZERO - LowVars
    BY <1>1, <1>6, <1>7, <1>9
  <2>. QED BY <1>7, <2>2, <2>3, <2>4
<1>10. ASSUME l = 0
       PROVE  /\ Factored(low', high', Layer(B, a), 0, h - 1) /\ h - 1 \in Nat
              /\ 0 + (h - 1) = M_ZERO - Len(challenges')
  <2>1. ~(Size(low) > 1)
    BY <1>8, <1>10, TwoPow
  <2>2. low' = low /\ high' = Layer(high, a)
    BY <2>1 DEF ProverFold, AlphaSplitFold
  <2>3. h \in Nat \ {0}
    BY <1>1, <1>6, <1>7, <1>10
  <2>4. Factored(low, Layer(high, a), Layer(B, a), 0, h - 1)
    BY <1>6, <1>10, <2>3, FoldHighFactor
  <2>5. h - 1 \in Nat /\ 0 + (h - 1) = M_ZERO - (Len(challenges) + 1)
    BY <1>1, <1>6, <1>7, <1>10, <2>3
  <2>. QED BY <1>7, <2>2, <2>4, <2>5
<1>11. \E m \in Nat, n \in Nat :
          /\ Factored(low', high', Layer(B, a), m, n)
          /\ m + n = M_ZERO - Len(challenges')
          /\ m = 0 \/ n = M_ZERO - LowVars
  <2>1. CASE l # 0
    BY <1>9, <2>1
  <2>2. CASE l = 0
    BY <1>10, <2>2
  <2>. QED BY <2>1, <2>2
<1>. QED BY <1>4, <1>5, <1>11 DEF A

(* A step of the chain is a step of the verifier, on messages and closing   *)
(* evaluations of the types the verifier expects.                           *)
LEMMA MessageType ==
  ASSUME ProverInv, Len(challenges) < M_ZERO, NEW tamper
  PROVE  Sent(HonestG(stmt, challenges), tamper) \in W!RoundMsg
<1>. DEFINE n == M_ZERO - Len(challenges)
            g == HonestG(stmt, challenges)
<1>1. PICK l \in Nat, h \in Nat :
        /\ Factored(low, high, Bound(AlphaTable(stmt.alpha, stmt.tau1), challenges), l, h)
        /\ l + h = n
  BY DEF ProverInv
<1>2. /\ M_ZERO \in Nat /\ challenges \in Seq(Fp) /\ Len(challenges) \in Nat /\ wit \in LiftedWitness
      /\ stmt \in Statements /\ wfp = WTable(wit) /\ wtab = Bound(WTable(wit), challenges)
      /\ target \in [{"zero", "alpha"} -> Fp]
  BY LowVarsIs DEF ProverInv
<1>3. n > 0 /\ l + h > 0
  BY <1>1, <1>2
<1>4. wfp \in CubeTable(M_ZERO) /\ wtab \in CubeTable(n)
  <2>1. WTable(wit) \in CubeTable(M_ZERO)
    BY <1>2, WTableType
  <2>2. Bound(WTable(wit), challenges) \in CubeTable(n)
    BY <1>2, <2>1, BoundIs
  <2>. QED BY <1>2, <2>1, <2>2
<1>5. RangePoly(stmt, challenges) \in Polys(SHIFT_DEG + 1)
  BY <1>2, <1>4, RangePolyType
<1>6. AlphaPoly(wtab) \in Polys(2)
  <2>1. low \in CubeTable(l) /\ high \in CubeTable(h)
    BY <1>1 DEF Factored
  <2>2. wtab \in CubeTable(l + h)
    BY <1>1, <1>4
  <2>. QED BY <1>3, <2>1, <2>2, AlphaPolyType
<1>7. g.zero \in Polys(SHIFT_DEG + 1) /\ g.alpha \in Polys(2)
  BY <1>5, <1>6 DEF HonestG
<1>. HIDE DEF g
<1>8. Sent(g, tamper) \in [{"zero", "alpha"} -> Messages]
  BY <1>2, <1>7, SentType
<1>. QED BY <1>8 DEF g, W!RoundMsg, W!Side, Messages

LEMMA SameActions ==
  /\ V!RoundsLeft <=> W!RoundsLeft
  /\ \A g : V!Fail(g) <=> W!Fail(g)
  /\ \A g, a : V!Pass(g, a) <=> W!Pass(g, a)
  /\ \A y, w : V!Decide(y, w) <=> W!Decide(y, w)
<1>1. V!RoundsLeft <=> W!RoundsLeft
  BY DEF V!RoundsLeft, W!RoundsLeft
<1>2. ASSUME NEW g PROVE V!RoundCheck(g) <=> W!RoundCheck(g)
  BY DEF V!RoundCheck, W!RoundCheck, V!Side, W!Side
<1>3. ASSUME NEW g PROVE V!Fail(g) <=> W!Fail(g)
  BY <1>1, <1>2 DEF V!Fail, W!Fail
<1>4. ASSUME NEW g, NEW a PROVE V!Pass(g, a) <=> W!Pass(g, a)
  <2>1. V!RoundOut(g, a) = W!RoundOut(g, a)
    BY DEF V!RoundOut, W!RoundOut, V!Side, W!Side
  <2>. QED BY <1>1, <1>2, <2>1 DEF V!Pass, W!Pass
<1>5. ASSUME NEW y, NEW w PROVE V!Decide(y, w) <=> W!Decide(y, w)
  <2>1. V!FinalCheck(y) <=> W!FinalCheck(y)
    BY DEF V!FinalCheck, W!FinalCheck, V!Side, W!Side
  <2>2. V!EndPieceCheck(y, w) <=> W!EndPieceCheck(y, w)
    BY DEF V!EndPieceCheck, W!EndPieceCheck
  <2>. QED BY <2>1, <2>2 DEF V!Decide, W!Decide, V!Closing, W!Closing
<1>. QED BY <1>1, <1>3, <1>4, <1>5

LEMMA ChainStep ==
  ASSUME ProverInv, [Next]_cvars
  PROVE  ProverInv' /\ [W!Next]_W!vvars
<1>1. /\ M_ZERO \in Nat /\ challenges \in Seq(Fp) /\ Len(challenges) \in Nat
      /\ wit \in LiftedWitness /\ target \in [{"zero", "alpha"} -> Fp]
  BY LowVarsIs DEF ProverInv
<1>2. ASSUME UNCHANGED <<wit, pvars, stmt, com, challenges, target>> PROVE ProverInv'
  BY <1>2 DEF ProverInv, pvars
<1>3. ASSUME NEW g \in W!RoundMsg, V!Fail(g), UNCHANGED pvars, UNCHANGED wit
      PROVE  ProverInv' /\ W!Next
  <2>1. W!Fail(g)
    BY <1>3, SameActions
  <2>2. UNCHANGED <<stmt, com, challenges, target>>
    BY <2>1 DEF W!Fail
  <2>3. W!Next
    BY <1>3, <2>1 DEF W!Next
  <2>. QED BY <1>2, <1>3, <2>2, <2>3
<1>4. ASSUME NEW g \in W!RoundMsg, NEW a \in Draws, V!Pass(g, a), ProverFold(a), UNCHANGED wit
      PROVE  ProverInv' /\ W!Next
  <2>1. a \in Fp
    BY <1>4, ChainAssumption
  <2>2. W!Pass(g, a)
    BY <1>4, SameActions
  <2>3. /\ challenges' = Append(challenges, a) /\ UNCHANGED <<stmt, com>> /\ Len(challenges) < M_ZERO
        /\ target' = W!RoundOut(g, a)
    BY <2>2 DEF W!Pass, W!RoundsLeft
  <2>4. challenges' \in Seq(Fp) /\ Len(challenges') = Len(challenges) + 1 /\ Len(challenges') <= M_ZERO
    BY <1>1, <2>1, <2>3
  <2>5. target' \in [{"zero", "alpha"} -> Fp]
    BY <2>1, <2>3, VerifierFacts DEF W!VerifierAssumption, W!RoundOut, W!RoundMsg, W!Side
  <2>6. /\ wfp' = WTable(wit)' /\ wtab' = Bound(WTable(wit), challenges)'
        /\ \E l \in Nat, h \in Nat :
             /\ Factored(low', high', Bound(AlphaTable(stmt.alpha, stmt.tau1), challenges)', l, h)
             /\ l + h = M_ZERO - Len(challenges')
             /\ l = 0 \/ h = M_ZERO - LowVars
    BY <1>4, <2>1, <2>3, FoldStep
  <2>7. wit' \in LiftedWitness /\ com' = LiftCommit(wit)' /\ stmt' \in Statements
    BY <1>4, <2>3 DEF ProverInv
  <2>8. W!Next
    BY <1>4, <2>1, <2>2 DEF W!Next
  <2>. QED BY <2>4, <2>5, <2>6, <2>7, <2>8 DEF ProverInv
<1>5. ASSUME NEW tamper \in Tampers, V!RoundsLeft, Round(tamper), UNCHANGED wit
      PROVE  ProverInv' /\ W!Next
  <2>. DEFINE g == Sent(HonestG(stmt, challenges), tamper)
  <2>1. Len(challenges) < M_ZERO
    BY <1>5 DEF V!RoundsLeft
  <2>2. g \in W!RoundMsg
    BY <2>1, MessageType
  <2>3. \/ V!Fail(g) /\ UNCHANGED pvars
        \/ \E a \in Draws : V!Pass(g, a) /\ ProverFold(a)
    BY <1>5 DEF Round
  <2>. HIDE DEF g
  <2>. QED BY <1>3, <1>4, <1>5, <2>2, <2>3
<1>6. ASSUME NEW lie \in Lies, NEW w \in LiftedWitness, Close(lie, w), UNCHANGED wit
      PROVE  ProverInv' /\ W!Next
  <2>. DEFINE y == AddQ(WTableEval(wit, challenges), lie)
  <2>1. V!Decide(y, w) /\ UNCHANGED pvars
    BY <1>6 DEF Close
  <2>2. W!Decide(y, w)
    BY <2>1, SameActions
  <2>3. Len(challenges) = M_ZERO /\ UNCHANGED <<stmt, com, challenges, target>>
    BY <2>2 DEF W!Decide, W!Closing
  <2>4. y \in Fp
    <3>1. WTableEval(wit, challenges) \in Fp
      BY <1>1, <2>3, WTableType, MleIs DEF WTableEval
    <3>2. lie \in Fp
      BY <1>6, ChainAssumption
    <3>. QED BY <3>1, <3>2, AddType
  <2>. HIDE DEF y
  <2>5. W!Next
    BY <2>2, <2>4 DEF W!Next
  <2>. QED BY <1>2, <1>6, <2>1, <2>3, <2>5
<1>7. CASE UNCHANGED cvars
  <2>1. UNCHANGED <<wit, pvars, stmt, com, challenges, target>> /\ UNCHANGED W!vvars
    BY <1>7 DEF cvars, V!vvars, W!vvars
  <2>. QED BY <1>2, <2>1
<1>. QED BY <1>5, <1>6, <1>7 DEF Next

(* The chain runs the verifier of RoundVerify, at this field, table and     *)
(* commitment, whatever is tampered with on the wire (round_verify_loop,    *)
(* chain_open against chain_verify).                                        *)
THEOREM ChainRefines == Spec => W!Spec /\ []ProverInv
<1>1. Init => ProverInv /\ W!Init
  BY ProverInit
<1>2. ProverInv /\ [Next]_cvars => ProverInv' /\ [W!Next]_W!vvars
  BY ChainStep
<1>. QED BY <1>1, <1>2, PTL DEF Spec, W!Spec

(* The type invariant: the tables a round works on cover the cube that is   *)
(* left (honest_round_messages).                                            *)
THEOREM ChainTypes == Spec => []TypeOK
<1>1. W!Spec => []W!TypeOK
  BY W!TypeCorrect, VerifierFacts, SumFacts
<1>2. ProverInv /\ W!TypeOK => TypeOK
  <2>. SUFFICES ASSUME ProverInv, W!TypeOK PROVE TypeOK
    OBVIOUS
  <2>1. V!TypeOK
    BY DEF V!TypeOK, W!TypeOK, V!RoundMsg, W!RoundMsg, V!Side, W!Side, V!Verdict, W!Verdict
  <2>2. PICK l \in Nat, h \in Nat :
          /\ Factored(low, high, Bound(AlphaTable(stmt.alpha, stmt.tau1), challenges), l, h)
          /\ l + h = M_ZERO - Len(challenges)
          /\ l = 0 \/ h = M_ZERO - LowVars
    BY DEF ProverInv
  <2>3. low \in CubeTable(l) /\ high \in CubeTable(h)
    BY <2>2 DEF Factored
  <2>4. Size(low) = Pow(2, l) /\ Size(high) = Pow(2, h)
    BY <2>3, CubeFacts
  <2>5. wtab \in CubeTable(M_ZERO - Len(challenges)) /\ Size(wtab) = Pow(2, M_ZERO - Len(challenges))
    <3>1. /\ wit \in LiftedWitness /\ wtab = Bound(WTable(wit), challenges) /\ challenges \in Seq(Fp)
          /\ Len(challenges) <= M_ZERO /\ M_ZERO \in Nat
      BY LowVarsIs DEF ProverInv
    <3>2. wtab \in CubeTable(M_ZERO - Len(challenges))
      BY <3>1, WTableType, BoundIs
    <3>. QED BY <2>2, <3>2, CubeFacts
  <2>6. Size(low) * Size(high) = Size(wtab)
    BY <2>2, <2>4, <2>5, PowSum
  <2>7. Size(low) > 1 => Size(high) = Pow(2, M_ZERO - LowVars)
    <3>1. l = 0 => Size(low) = 1
      BY <2>4, TwoPow
    <3>2. l # 0 => Size(high) = Pow(2, M_ZERO - LowVars)
      BY <2>2, <2>4
    <3>. QED BY <3>1, <3>2
  <2>8. wtab \in [0 .. (Pow(2, M_ZERO - Len(challenges)) - 1) -> Fp]
    BY <2>5 DEF CubeTable, Table
  <2>9. wit \in LiftedWitness /\ com = LiftCommit(wit) /\ wfp = WTable(wit)
    BY DEF ProverInv
  <2>. QED BY <2>1, <2>6, <2>7, <2>8, <2>9 DEF TypeOK
<1>. QED BY <1>1, <1>2, ChainRefines, PTL

(* The folded tables are the originals with the challenges substituted      *)
(* (eval_mle_layer_base, alpha_split_fold).                                 *)
THEOREM TablesCorrect == Spec => []TablesExact
<1>1. ProverInv => TablesExact
  <2>. SUFFICES ASSUME ProverInv PROVE TablesExact
    OBVIOUS
  <2>. DEFINE B == Bound(AlphaTable(stmt.alpha, stmt.tau1), challenges)
  <2>1. PICK l \in Nat, h \in Nat : Factored(low, high, B, l, h) /\ l + h = M_ZERO - Len(challenges)
    BY DEF ProverInv
  <2>2. Size(low) = Pow(2, l)
    <3>1. low \in CubeTable(l)
      BY <2>1 DEF Factored
    <3>. QED BY <3>1, CubeFacts
  <2>3. wtab = Bound(WTable(wit), challenges) /\ DOMAIN wtab = 0 .. (Pow(2, l + h) - 1)
    <3>1. /\ wit \in LiftedWitness /\ wtab = Bound(WTable(wit), challenges) /\ challenges \in Seq(Fp)
          /\ Len(challenges) <= M_ZERO /\ M_ZERO \in Nat
      BY LowVarsIs DEF ProverInv
    <3>2. wtab \in CubeTable(M_ZERO - Len(challenges))
      BY <3>1, WTableType, BoundIs
    <3>. QED BY <2>1, <3>1, <3>2, CubeFacts
  <2>4. \A i \in DOMAIN wtab : (low[i % Size(low)] * high[i \div Size(low)]) % Q = B[i]
    <3>. HIDE DEF B
    <3>. QED BY <2>1, <2>2, <2>3 DEF Factored
  <2>. QED BY <2>3, <2>4 DEF TablesExact
<1>. QED BY <1>1, ChainRefines, PTL

(* The closed forms of the final check are the summands of the committed    *)
(* witness at the point of the challenges (final_check).                    *)
THEOREM FinalCorrect == Spec => []FinalExact
<1>1. ProverInv => FinalExact
  <2>. SUFFICES ASSUME ProverInv, Len(challenges) = M_ZERO, NEW side \in {"zero", "alpha"}
                PROVE  FinalValue(stmt, side, challenges, WTableEval(wit, challenges))
                         = CubeSum(stmt, wit, side, challenges)
    BY DEF FinalExact
  <2>1. wit \in LiftedWitness /\ stmt \in Statements /\ challenges \in Seq(Fp)
    BY DEF ProverInv
  <2>. QED BY <2>1, ClaimWhole
<1>. QED BY <1>1, ChainRefines, PTL

(* Soundness of chain_verify on the composed chain: the witness an          *)
(* accepting run was handed opens the commitment, is short and satisfies    *)
(* both claims, unless a round was lucky.                                   *)
THEOREM ChainSound == Spec => []Soundness
<1>1. W!Spec => []W!Soundness
  BY W!SoundnessCorrect, VerifierFacts, SumFacts
<1>2. ASSUME NEW w, NEW side PROVE W!Lucky(w, side) <=> V!Lucky(w, side)
  BY DEF W!Lucky, V!Lucky, W!LuckyAt, V!LuckyAt, W!SumAt, V!SumAt, W!Prefix, V!Prefix
<1>3. W!Soundness => Soundness
  BY <1>2 DEF W!Soundness, Soundness, V!Soundness, W!TrueClaim, V!TrueClaim, W!Side, V!Side
<1>. QED BY <1>1, <1>3, ChainRefines, PTL

-----------------------------------------------------------------------------
(* SUMS BY BLOCKS, AND POWERS *)

(* Zeros outside a set do not count.                                        *)
LEMMA SumSupport ==
  ASSUME NEW S, IsFiniteSet(S), NEW T, T \subseteq S,
         NEW f, \A x \in S : f[x] \in Int, \A x \in S \ T : f[x] = 0
  PROVE  SumFunctionOnSet(f, S) = SumFunctionOnSet(f, T)
<1>. DEFINE R == S \ T
<1>1. IsFiniteSet(T) /\ IsFiniteSet(R) /\ T \cap R = {} /\ T \cup R = S
  BY FS_Subset
<1>2. \A x \in R : f[x] = 0
  OBVIOUS
<1>3. SumFunctionOnSet(f, R) = 0
  <2>. HIDE DEF R
  <2>1. SumFunctionOnSet(f, R) = Cardinality(R) * 0
    BY <1>1, <1>2, SumConstant
  <2>2. Cardinality(R) \in Nat
    BY <1>1, FS_CardinalityType
  <2>. QED BY <2>1, <2>2
<1>4. SumFunctionOnSet(f, T) \in Int
  BY <1>1, SumInt
<1>. HIDE DEF R
<1>5. SumFunctionOnSet(f, T \cup R) = SumFunctionOnSet(f, T) + SumFunctionOnSet(f, R)
  BY <1>1, SumDisjoint
<1>6. SumFunctionOnSet(f, T \cup R) = SumFunctionOnSet(f, S)
  BY <1>1
<1>. QED BY <1>3, <1>4, <1>5, <1>6

(* Two sums of one function whose ranges differ by zeros.                   *)
LEMMA SumSameSupport ==
  ASSUME NEW S, IsFiniteSet(S), NEW T, IsFiniteSet(T),
         NEW f, \A x \in S \cup T : f[x] \in Int, \A x \in (S \ T) \cup (T \ S) : f[x] = 0
  PROVE  SumFunctionOnSet(f, S) = SumFunctionOnSet(f, T)
<1>1. SumFunctionOnSet(f, S) = SumFunctionOnSet(f, S \cap T)
  BY SumSupport
<1>2. SumFunctionOnSet(f, T) = SumFunctionOnSet(f, S \cap T)
  BY SumSupport
<1>. QED BY <1>1, <1>2

(* f over n blocks of N, r the sums of the blocks.                          *)
Blocks(N, n, f, r) ==
  /\ \A x \in 0 .. (N * n - 1) : f[x] \in Int
  /\ \A u \in 0 .. (n - 1) : r[u] = SumFunctionOnSet([l \in 0 .. (N - 1) |-> f[N * u + l]], 0 .. (N - 1))

LEMMA BlockIndex ==
  ASSUME NEW N \in Nat, NEW n \in Nat, NEW u \in 0 .. (n - 1), NEW l \in 0 .. (N - 1)
  PROVE  N * u + l \in 0 .. (N * n - 1)
<1>1. N \in Nat \ {0} /\ u \in Nat /\ n - 1 - u \in Nat /\ l \in Nat
  OBVIOUS
<1>2. N * (n - 1 - u) \in Nat /\ N * u \in Nat
  BY <1>1
<1>3. N * n = N * u + N + N * (n - 1 - u)
  BY <1>1
<1>. QED BY <1>1, <1>2, <1>3

LEMMA SumByBlocks ==
  ASSUME NEW N \in Nat \ {0}, NEW n \in Nat, NEW f, NEW r, Blocks(N, n, f, r)
  PROVE  /\ SumFunctionOnSet(f, 0 .. (N * n - 1)) = SumFunctionOnSet(r, 0 .. (n - 1))
         /\ \A u \in 0 .. (n - 1) : r[u] \in Int
<1>. DEFINE G == { m \in Nat : m <= n =>
                     SumFunctionOnSet(f, 0 .. (N * m - 1)) = SumFunctionOnSet(r, 0 .. (m - 1)) }
            b(u) == [l \in 0 .. (N - 1) |-> f[N * u + l]]
<1>1. \A x \in 0 .. (N * n - 1) : f[x] \in Int
  BY DEF Blocks
<1>2. IsFiniteSet(0 .. (N - 1))
  BY FS_Interval
<1>3. ASSUME NEW u \in 0 .. (n - 1)
      PROVE  /\ \A l \in 0 .. (N - 1) : b(u)[l] \in Int
             /\ r[u] = SumFunctionOnSet(b(u), 0 .. (N - 1)) /\ r[u] \in Int
  <2>1. \A l \in 0 .. (N - 1) : b(u)[l] \in Int
    BY <1>1, BlockIndex
  <2>2. r[u] = SumFunctionOnSet(b(u), 0 .. (N - 1))
    BY DEF Blocks
  <2>. HIDE DEF b
  <2>3. SumFunctionOnSet(b(u), 0 .. (N - 1)) \in Int
    BY <1>2, <2>1, SumInt
  <2>. QED BY <2>1, <2>2, <2>3
<1>4. 0 \in G
  <2>1. 0 .. (N * 0 - 1) = {} /\ 0 .. (0 - 1) = {}
    OBVIOUS
  <2>. QED BY <2>1, SumEmpty
<1>5. ASSUME NEW m \in Nat, m \in G PROVE m + 1 \in G
  <2>1. SUFFICES ASSUME m + 1 <= n
                 PROVE  SumFunctionOnSet(f, 0 .. (N * (m + 1) - 1)) = SumFunctionOnSet(r, 0 .. ((m + 1) - 1))
    OBVIOUS
  <2>. DEFINE A == 0 .. (N * m - 1)
              B == { N * m + l : l \in 0 .. (N - 1) }
              U == 0 .. (m - 1)
  <2>2. N * m \in Nat /\ N * (m + 1) = N * m + N /\ N * (m + 1) \in Nat
    OBVIOUS
  <2>3. A \cup B = 0 .. (N * (m + 1) - 1) /\ A \cap B = {}
    <3>. DEFINE K == N * m
    <3>. HIDE DEF K
    <3>1. K \in Nat /\ N \in Nat /\ N * (m + 1) = K + N
      BY <2>2 DEF K
    <3>2. (0 .. (K - 1)) \cup { K + l : l \in 0 .. (N - 1) } = 0 .. (K + N - 1)
      <4>1. ASSUME NEW x \in 0 .. (K + N - 1), x \notin 0 .. (K - 1) PROVE x \in { K + l : l \in 0 .. (N - 1) }
        <5>1. x - K \in 0 .. (N - 1) /\ x = K + (x - K)
          BY <3>1, <4>1
        <5>. QED BY <5>1
      <4>2. ASSUME NEW l \in 0 .. (N - 1) PROVE K + l \in 0 .. (K + N - 1)
        BY <3>1
      <4>3. \A x \in 0 .. (K - 1) : x \in 0 .. (K + N - 1)
        BY <3>1
      <4>. QED BY <4>1, <4>2, <4>3
    <3>3. (0 .. (K - 1)) \cap { K + l : l \in 0 .. (N - 1) } = {}
      BY <3>1
    <3>4. N * (m + 1) - 1 = K + N - 1
      BY <3>1
    <3>5. A = 0 .. (K - 1) /\ B = { K + l : l \in 0 .. (N - 1) }
      BY DEF K
    <3>. HIDE DEF A, B
    <3>. QED BY <3>2, <3>3, <3>4, <3>5
  <2>4. \A x \in 0 .. (N * (m + 1) - 1) : x \in 0 .. (N * n - 1)
    <3>1. N * (n - (m + 1)) \in Nat /\ N * n = N * (m + 1) + N * (n - (m + 1))
      BY <2>1
    <3>. QED BY <2>2, <3>1
  <2>5. \A x \in A \cup B : f[x] \in Int
    BY <1>1, <2>3, <2>4
  <2>6. m \in 0 .. (n - 1) /\ m <= n
    BY <2>1
  <2>7. SumFunctionOnSet(b(m), 0 .. (N - 1)) = SumFunctionOnSet(f, B)
    <3>. DEFINE h == [l \in 0 .. (N - 1) |-> N * m + l]
                g == b(m)
    <3>1. \A x, y \in 0 .. (N - 1) : h[x] = h[y] => x = y
      BY <2>2
    <3>2. \A x \in 0 .. (N - 1) : f[h[x]] \in Int /\ g[x] = f[h[x]]
      BY <2>5
    <3>3. { h[l] : l \in 0 .. (N - 1) } = B
      OBVIOUS
    <3>. DEFINE I == 0 .. (N - 1)
    <3>. HIDE DEF h, g, B, I
    <3>4. IsFiniteSet(I) /\ (\A x, y \in I : h[x] = h[y] => x = y)
      BY <1>2, <3>1 DEF I
    <3>5. \A x \in I : f[h[x]] \in Int /\ g[x] = f[h[x]]
      BY <3>2 DEF I
    <3>6. SumFunctionOnSet(g, I) = SumFunctionOnSet(f, { h[l] : l \in I })
      BY <3>4, <3>5, SumReindex
    <3>. QED BY <3>3, <3>6 DEF g, I
  <2>8. IsFiniteSet(A) /\ IsFiniteSet(B)
    <3>1. IsFiniteSet(A)
      BY <2>2, FS_Interval
    <3>2. IsFiniteSet(0 .. (N * (m + 1) - 1))
      BY <2>2, FS_Interval
    <3>3. B \subseteq 0 .. (N * (m + 1) - 1)
      <4>. HIDE DEF A, B
      <4>. QED BY <2>3
    <3>. HIDE DEF B
    <3>. QED BY <3>1, <3>2, <3>3, FS_Subset
  <2>9. SumFunctionOnSet(f, A \cup B) = SumFunctionOnSet(f, A) + SumFunctionOnSet(f, B)
    <3>. HIDE DEF A, B
    <3>. QED BY <2>3, <2>5, <2>8, SumDisjoint
  <2>10. SumFunctionOnSet(f, A) = SumFunctionOnSet(r, U)
    BY <1>5, <2>6
  <2>11. SumFunctionOnSet(r, U \cup {m}) = SumFunctionOnSet(r, U) + r[m]
    <3>1. IsFiniteSet(U) /\ m \notin U /\ \A u \in U \cup {m} : u \in 0 .. (n - 1)
      BY <2>6, FS_Interval
    <3>2. \A u \in U \cup {m} : r[u] \in Int
      BY <1>3, <3>1
    <3>. HIDE DEF U
    <3>. QED BY <3>1, <3>2, SumAdd
  <2>12. U \cup {m} = 0 .. ((m + 1) - 1)
    OBVIOUS
  <2>13. r[m] = SumFunctionOnSet(b(m), 0 .. (N - 1))
    BY <1>3, <2>6
  <2>. HIDE DEF A, B, U, b
  <2>. QED BY <2>3, <2>7, <2>9, <2>10, <2>11, <2>12, <2>13
<1>. HIDE DEF G
<1>6. n \in G
  BY <1>4, <1>5, NaturalInduction
<1>7. SumFunctionOnSet(f, 0 .. (N * n - 1)) = SumFunctionOnSet(r, 0 .. (n - 1))
  <2>. HIDE DEF b
  <2>1. n <= n
    OBVIOUS
  <2>. QED BY <1>6, <2>1 DEF G
<1>8. \A u \in 0 .. (n - 1) : r[u] \in Int
  BY <1>3
<1>. QED BY <1>7, <1>8

LEMMA PowPlus ==
  ASSUME NEW x \in Int, NEW n \in Nat, NEW m \in Nat
  PROVE  Pow(x, n + m) = Pow(x, n) * Pow(x, m)
<1>. DEFINE G == { k \in Nat : Pow(x, n + k) = Pow(x, n) * Pow(x, k) }
<1>1. 0 \in G
  <2>1. Pow(x, 0) = 1 /\ n + 0 = n /\ Pow(x, n) \in Int
    BY PowFacts
  <2>. QED BY <2>1
<1>2. ASSUME NEW k \in Nat, k \in G PROVE k + 1 \in G
  <2>1. Pow(x, (n + k) + 1) = x * Pow(x, n + k) /\ Pow(x, k + 1) = x * Pow(x, k)
    BY PowFacts
  <2>2. Pow(x, n) \in Int /\ Pow(x, k) \in Int
    BY PowFacts
  <2>3. Pow(x, n + k) = Pow(x, n) * Pow(x, k)
    BY <1>2
  <2>. DEFINE a == Pow(x, n)
              b == Pow(x, k)
  <2>. HIDE DEF a, b
  <2>4. a \in Int /\ b \in Int => x * (a * b) = a * (x * b)
    OBVIOUS
  <2>5. Pow(x, (n + k) + 1) = Pow(x, n) * Pow(x, k + 1)
    BY <2>1, <2>2, <2>3, <2>4 DEF a, b
  <2>6. (n + k) + 1 = n + (k + 1)
    OBVIOUS
  <2>. QED BY <2>5, <2>6
<1>. HIDE DEF G
<1>3. m \in G
  BY <1>1, <1>2, NaturalInduction
<1>. QED BY <1>3 DEF G

(* THE RANGE CLAIM *)

LEMMA HZeroType ==
  ASSUME NEW w \in LiftedWitness
  PROVE  /\ HZero(w) \in CubeTable(M_ZERO)
         /\ DOMAIN HZero(w) = 0 .. (Pow(2, M_ZERO) - 1)
         /\ \A i \in 0 .. (Pow(2, M_ZERO) - 1) :
              WTable(w)[i] \in Fp /\ HZero(w)[i] = RangeProductBase(WTable(w)[i])
<1>. DEFINE T == WTable(w)
            D == 0 .. (Pow(2, M_ZERO) - 1)
            h == [i \in DOMAIN T |-> RangeProductBase(T[i])]
<1>1. M_ZERO \in Nat /\ T \in CubeTable(M_ZERO)
  BY LowVarsIs, WTableType
<1>2. DOMAIN T = D /\ \A i \in D : T[i] \in Fp /\ T[i] \in Int
  <2>. HIDE DEF T
  <2>. QED BY <1>1, CubeFacts
<1>3. HZero(w) = h
  BY TabulateIs DEF HZero
<1>. HIDE DEF T, D
<1>4. \A i \in D : RangeProductBase(T[i]) \in Fp
  BY <1>2, RangeBaseType
<1>5. h \in [D -> Fp] /\ DOMAIN h = D /\ \A i \in D : h[i] = RangeProductBase(T[i])
  BY <1>2, <1>4
<1>. HIDE DEF h
<1>6. h \in CubeTable(M_ZERO)
  BY <1>5 DEF CubeTable, Table, D
<1>. QED BY <1>2, <1>3, <1>5, <1>6 DEF D, T

(* The initial range claim is zero exactly off by the extended block.       *)
LEMMA RangeClaim ==
  ASSUME NEW s \in Statements, NEW w \in LiftedWitness
  PROVE  CubeSum(s, w, "zero", << >>) = MleEval(HZero(w), s.tau0)
<1>. DEFINE e == << >>
            t == s.tau0
            T == WTable(w)
            D == 0 .. (Pow(2, M_ZERO) - 1)
            f == Summand(s, w, "zero", e)
            g == Cell(HZero(w), t, 0)
<1>1. M_ZERO \in Nat /\ e \in Seq(Fp) /\ Len(e) = 0 /\ M_ZERO - 0 = M_ZERO
  BY LowVarsIs
<1>2. t \in Seq(Fp) /\ Len(t) = M_ZERO /\ \A i \in 1 .. M_ZERO : t[i] \in Int
  <2>1. t \in [1 .. M_ZERO -> Fp]
    BY StatementIs
  <2>. HIDE DEF t
  <2>2. t \in Seq(Fp) /\ Len(t) = M_ZERO
    BY <1>1, <2>1
  <2>. QED BY <2>1, <2>2, FpInt
<1>3. Rest(e) = D
  BY <1>1 DEF Rest
<1>4. IsFiniteSet(D)
  BY <1>1, TwoPow, FS_Interval
<1>5. T \in CubeTable(M_ZERO) /\ Bound(T, e) = T
  BY <1>1, WTableType, BoundEmpty
<1>6. HZero(w) \in CubeTable(M_ZERO)
      /\ \A i \in D : T[i] \in Fp /\ HZero(w)[i] = RangeProductBase(T[i])
  BY HZeroType
<1>. HIDE DEF T, e, t
<1>7. ASSUME NEW x \in D PROVE f[x] = g[x]
  <2>1. x \in Nat /\ x \in Rest(e)
    BY <1>3
  <2>2. f[x] = Product(EqFactors(t, e, x)) * RangeProductBase(Bound(T, e)[x])
    BY <2>1 DEF Summand, t, T
  <2>3. EqFactors(t, e, x) = KernelFactors(t, x)
    <3>1. ASSUME NEW i \in 1 .. M_ZERO PROVE EqFactor(t[i], Coordinate(e, x, i)) = EqFactor(Bit(x, i), t[i])
      <4>1. i \in Nat \ {0} /\ ~(i <= Len(e)) /\ i - Len(e) = i
        BY <1>1
      <4>2. Coordinate(e, x, i) = Bit(x, i)
        BY <4>1 DEF Coordinate
      <4>3. Bit(x, i) \in Int
        BY <2>1, <4>1, BitType
      <4>4. t[i] \in Int
        BY <1>2
      <4>5. EqFactor(t[i], Bit(x, i)) = EqFactor(Bit(x, i), t[i])
        BY <4>3, <4>4, EqFactorFacts
      <4>. QED BY <4>2, <4>5
    <3>. QED BY <1>2, <3>1 DEF EqFactors, KernelFactors
  <2>4. Kernel(t)[x] = Product(KernelFactors(t, x)) /\ Kernel(t)[x] \in Int
    BY <1>2, KernelIs
  <2>5. g[x] = HZero(w)[x] * Kernel(t)[x]
    <3>. DEFINE P == Pow(2, Len(t))
    <3>1. P \in Nat /\ D = 0 .. (P - 1)
      BY <1>1, <1>2, TwoPow
    <3>2. g = [l \in 0 .. (P - 1) |-> HZero(w)[0 * P + l] * Kernel(t)[l]]
      BY DEF Cell
    <3>. HIDE DEF g, P
    <3>3. 0 * P + x = x
      BY <2>1, <3>1
    <3>4. g[x] = HZero(w)[0 * P + x] * Kernel(t)[x]
      BY <3>1, <3>2
    <3>. QED BY <3>3, <3>4
  <2>6. HZero(w)[x] = RangeProductBase(T[x]) /\ RangeProductBase(T[x]) \in Int
    <3>1. T[x] \in Int
      BY <1>6, FpInt
    <3>2. RangeProductBase(T[x]) \in Int
      BY <3>1, RangeBaseType, FpInt
    <3>. QED BY <1>6, <3>2
  <2>. DEFINE a == Product(KernelFactors(t, x))
              b == RangeProductBase(T[x])
  <2>7. f[x] = a * b
    BY <1>5, <2>2, <2>3
  <2>8. g[x] = b * a /\ a \in Int /\ b \in Int
    BY <2>4, <2>5, <2>6
  <2>. HIDE DEF a, b, f, g
  <2>. QED BY <2>7, <2>8
<1>8. CubeSum(s, w, "zero", e) = SumFunctionOnSet(f, D) % Q
  <2>1. CubeSum(s, w, "zero", e) = SumFunctionOnSet(f, Rest(e)) % Q
    <3>1. e \in Seq(Fp) /\ Len(e) <= M_ZERO
      BY <1>1
    <3>. HIDE DEF f
    <3>2. CubeSum(s, w, "zero", e) = SumFunctionOnSet(Summand(s, w, "zero", e), Rest(e)) % Q
      BY <3>1, ClaimIs
    <3>. QED BY <3>2 DEF f
  <2>. QED BY <1>3, <2>1
<1>9. MleEval(HZero(w), t) = SumFunctionOnSet(g, D) % Q
  <2>1. MleEval(HZero(w), t) = Bound(HZero(w), t)[0]
    BY <1>1, <1>2, <1>6, MleIs
  <2>2. Pow(2, M_ZERO - Len(t)) = 1
    BY <1>1, <1>2, TwoPow
  <2>3. 0 \in 0 .. (Pow(2, M_ZERO - Len(t)) - 1) /\ Len(t) <= M_ZERO
    BY <1>1, <1>2, <2>2
  <2>4. /\ Bound(HZero(w), t) \in CubeTable(M_ZERO - Len(t))
        /\ \A x \in 0 .. (Pow(2, M_ZERO - Len(t)) - 1) :
             Bound(HZero(w), t)[x] = SumFunctionOnSet(Cell(HZero(w), t, x), 0 .. (Pow(2, Len(t)) - 1)) % Q
    BY <1>1, <1>2, <1>6, <2>3, BoundIs
  <2>5. Bound(HZero(w), t)[0] = SumFunctionOnSet(Cell(HZero(w), t, 0), 0 .. (Pow(2, Len(t)) - 1)) % Q
    BY <2>3, <2>4
  <2>. QED BY <1>2, <2>1, <2>5
<1>10. SumFunctionOnSet(f, D) = SumFunctionOnSet(g, D)
  <2>. HIDE DEF f, g, D
  <2>. QED BY <1>4, <1>7, SumEqual
<1>. QED BY <1>8, <1>9, <1>10 DEF e, t

-----------------------------------------------------------------------------
(* Short entries are roots of the range polynomial.                         *)

LEMMA ProductVanishes ==
  ASSUME NEW n \in Nat, NEW s \in IntSeqs(n), NEW m \in 1 .. n, s[m] % Q = 0
  PROVE  Product(s) = 0
<1>. DEFINE P == Products(s)
            G == { k \in Nat : m + k <= n => P[m + k] = 0 }
<1>1. /\ \A k \in 1 .. n : P[k] = (P[k - 1] * s[k]) % Q
      /\ \A k \in 0 .. n : P[k] \in Int
      /\ Product(s) = P[n]
  BY ProductsAre
<1>2. Q \in Nat \ {0}
  BY ModulusFacts
<1>. HIDE DEF P
<1>3. 0 \in G
  <2>1. m - 1 \in 0 .. n /\ P[m - 1] \in Int /\ s[m] \in Int
    BY <1>1 DEF IntSeqs
  <2>2. (P[m - 1] * s[m]) % Q = 0
    <3>. DEFINE a == P[m - 1]
                b == s[m]
    <3>1. a \in Int /\ b \in Int /\ b % Q = 0
      BY <2>1
    <3>. HIDE DEF a, b
    <3>2. ((b % Q) * a) % Q = (b * a) % Q
      BY <3>1, ModScale
    <3>3. 0 * a = 0 /\ b * a = a * b /\ 0 % Q = 0
      BY <1>2, <3>1
    <3>4. (a * b) % Q = 0
      BY <3>1, <3>2, <3>3
    <3>. QED BY <3>4 DEF a, b
  <2>3. m + 0 = m
    OBVIOUS
  <2>. QED BY <1>1, <2>2, <2>3
<1>4. ASSUME NEW k \in Nat, k \in G PROVE k + 1 \in G
  <2>1. SUFFICES ASSUME m + (k + 1) <= n PROVE P[m + (k + 1)] = 0
    OBVIOUS
  <2>2. m + (k + 1) \in 1 .. n /\ m + (k + 1) - 1 = m + k /\ m + k <= n
    BY <2>1
  <2>3. P[m + k] = 0
    BY <1>4, <2>2
  <2>4. P[m + (k + 1)] = (P[m + k] * s[m + (k + 1)]) % Q /\ s[m + (k + 1)] \in Int
    BY <1>1, <2>2 DEF IntSeqs
  <2>5. 0 * s[m + (k + 1)] = 0 /\ 0 % Q = 0
    BY <1>2, <2>4
  <2>. QED BY <2>3, <2>4, <2>5
<1>. HIDE DEF G
<1>5. n - m \in Nat /\ m + (n - m) = n /\ n <= n
  OBVIOUS
<1>6. n - m \in G
  BY <1>3, <1>4, <1>5, NaturalInduction
<1>. QED BY <1>1, <1>5, <1>6 DEF G

LEMMA RangeVanishes ==
  ASSUME NEW c \in Fp, Small(c)
  PROVE  RangeProductBase(c) = 0
<1>. DEFINE m == Magnitude(c)
            n == GADGET_BASE - 1
            s == [j \in 1 .. n |-> c * c - j * j]
<1>1. n \in Nat /\ Q \in Nat \ {0} /\ c \in Int /\ 0 <= c /\ c < Q
  BY BaseFacts, ModulusFacts DEF Fp
<1>2. m \in Nat /\ m <= n /\ (m = c \/ m = Q - c)
  BY DEF Small, Magnitude
<1>3. RangeProductBase(c) = (c * Product(s)) % Q
  BY DEF RangeProductBase, Pi
<1>4. CASE m = 0
  <2>1. c = 0
    BY <1>1, <1>2, <1>4
  <2>2. \A j \in 1 .. n : c * c - j * j \in Int
    BY <1>1
  <2>3. s \in IntSeqs(n)
    BY <2>2 DEF IntSeqs
  <2>. HIDE DEF s, n, m
  <2>4. Product(s) \in Int
    BY <1>1, <2>3, ProductInt
  <2>5. 0 * Product(s) = 0 /\ 0 % Q = 0
    BY <1>1, <2>4
  <2>. QED BY <1>3, <2>1, <2>5
<1>5. CASE m # 0
  <2>. HIDE DEF m
  <2>1. m \in 1 .. n
    BY <1>1, <1>2, <1>5
  <2>2. (c * c - m * m) % Q = 0
    <3>1. CASE m = c
      BY <1>1, <3>1
    <3>2. CASE m = Q - c
      <4>1. c = Q - m /\ m \in Int
        BY <1>1, <1>2, <3>2
      <4>2. (Q - m) * (Q - m) - m * m = 0 + Q * (Q - 2 * m) /\ Q - 2 * m \in Int
        BY <1>1, <4>1
      <4>3. (0 + Q * (Q - 2 * m)) % Q = 0 % Q
        BY <4>2, ModShift
      <4>. QED BY <1>1, <4>1, <4>2, <4>3
    <3>. QED BY <1>2, <3>1, <3>2
  <2>3. \A j \in 1 .. n : c * c - j * j \in Int
    BY <1>1
  <2>4. s \in IntSeqs(n) /\ s[m] = c * c - m * m
    BY <2>1, <2>3 DEF IntSeqs
  <2>. HIDE DEF s, n
  <2>5. Product(s) = 0
    BY <1>1, <2>1, <2>2, <2>4, ProductVanishes
  <2>6. c * 0 = 0 /\ 0 % Q = 0
    BY <1>1
  <2>. QED BY <1>3, <2>5, <2>6
<1>. QED BY <1>4, <1>5

-----------------------------------------------------------------------------
(* THE LIFT OF A SHORT SOLUTION IS SHORT *)

LEMMA LiftedZ ==
  ASSUME NEW w \in LiftedWitness
  PROVE  w.z \in [0 .. (RlinCols - 1) -> Rq]
<1>1. PICK p \in Provers : w = OffBy(HonestLift(p[1]), p[2])
  BY DEF LiftedWitness
<1>2. p[1] \in [0 .. (RlinCols - 1) -> Rq]
  BY ChainAssumption
<1>. DEFINE z == p[1]
            r == Tabulate([i \in DOMAIN M |-> Quotient(z, i)])
            t == Tabulate([i \in DOMAIN M |-> Tabulate([k \in Coeff |-> (HonestLift(z).rho[i][k] + p[2]) % Q])])
<1>3. HonestLift(z) = [z |-> z, rho |-> r]
  BY DEF HonestLift
<1>4. w = [HonestLift(z) EXCEPT !.rho = t]
  BY <1>1 DEF OffBy
<1>. HIDE DEF r, t
<1>5. w = [[z |-> z, rho |-> r] EXCEPT !.rho = t]
  BY <1>3, <1>4
<1>6. w.z = z
  BY <1>5
<1>. QED BY <1>2, <1>6

(* Every row of the lift is a row of z, a digit row or padding.             *)
LEMMA RowsShort ==
  ASSUME NEW w \in LiftedWitness,
         \A u \in DOMAIN w.z, k \in Coeff : Magnitude(w.z[u][k]) <= CHAIN_GAMMA,
         NEW u \in Nat, NEW k \in Coeff
  PROVE  /\ LiftRow(w, u)[k] \in Fp /\ Magnitude(LiftRow(w, u)[k]) \in Nat
         /\ Magnitude(LiftRow(w, u)[k]) <= CHAIN_GAMMA
         /\ Small(LiftRow(w, u)[k])
<1>. DEFINE x == LiftRow(w, u)[k]
<1>1. /\ RlinCols \in Nat /\ RlinRows \in Nat /\ GADGET_DIGITS \in Nat \ {0}
      /\ CHAIN_GAMMA \in Nat /\ HALF_BASE <= CHAIN_GAMMA /\ CHAIN_GAMMA <= GADGET_BASE - 1
      /\ HALF_BASE \in Nat /\ GADGET_BASE \in Nat
  <2>1. CHAIN_GAMMA \in HALF_BASE .. (GADGET_BASE - 1)
    BY LiftAssumption
  <2>. QED BY <2>1, LiftShape, GadgetAssumption, BaseFacts
<1>2. x \in Fp
  BY LiftRowType DEF Rq
<1>3. Magnitude(x) \in Nat
  <2>. HIDE DEF x
  <2>. QED BY <1>2, CentredFacts
<1>4. Magnitude(x) <= CHAIN_GAMMA
  <2>1. CASE u < RlinCols
    <3>1. u \in 0 .. (RlinCols - 1)
      BY <1>1, <2>1
    <3>2. DOMAIN w.z = 0 .. (RlinCols - 1)
      BY LiftedZ
    <3>3. x = w.z[u][k]
      BY <2>1 DEF LiftRow
    <3>. QED BY <3>1, <3>2, <3>3
  <2>2. CASE ~(u < RlinCols) /\ u - RlinCols < RlinRows * GADGET_DIGITS
    <3>. DEFINE v == u - RlinCols
                i == v \div GADGET_DIGITS
                e == v % GADGET_DIGITS
    <3>1. v \in Nat /\ v < RlinRows * GADGET_DIGITS /\ v \in 0 .. (RlinRows * GADGET_DIGITS - 1)
      <4>1. RlinRows * GADGET_DIGITS \in Nat
        BY <1>1
      <4>. QED BY <1>1, <2>2, <4>1
    <3>2. x = BalancedDigitAt(w.rho[i][k], e)
      BY <2>2 DEF LiftRow, RhoDigits
    <3>3. i \in 0 .. (RlinRows - 1) /\ e \in 0 .. (GADGET_DIGITS - 1)
      <4>. HIDE DEF v
      <4>1. v + 1 \in 1 .. (RlinRows * GADGET_DIGITS) /\ (v + 1) - 1 = v
        <5>1. RlinRows * GADGET_DIGITS \in Nat
          BY <1>1
        <5>. QED BY <3>1, <5>1
      <4>2. RowOf((v + 1) - 1) + 1 \in 1 .. RlinRows /\ DigitOf((v + 1) - 1) \in Digit
        BY <1>1, <4>1, IndexFacts
      <4>3. RowOf(v) = i /\ DigitOf(v) = e
        BY DEF RowOf, DigitOf
      <4>4. i + 1 \in 1 .. RlinRows /\ e \in Digit
        BY <4>1, <4>2, <4>3
      <4>5. i \in Int
        BY <1>1, <3>1
      <4>. HIDE DEF i, e
      <4>. QED BY <1>1, <4>4, <4>5 DEF Digit
    <3>. HIDE DEF x, i, e
    <3>4. w.rho[i] \in Rq
      BY <3>3, LiftShape, LiftedIs
    <3>5. w.rho[i][k] \in Fp
      BY <3>4 DEF Rq
    <3>6. Boxed(x, HALF_BASE)
      <4>1. e \in Digit
        BY <3>3 DEF Digit
      <4>. QED BY <3>2, <3>5, <4>1, FullWidthAssumption, BalancedExact
    <3>7. Magnitude(x) <= HALF_BASE
      <4>1. CASE x < HALF_BASE
        <5>1. x \in Nat /\ Q \in Nat /\ HALF_BASE \in Nat /\ 2 * HALF_BASE < Q
          BY <1>2, FpInt, ModulusFacts, BalancedAssumption
        <5>2. x <= Q \div 2
          BY <4>1, <5>1
        <5>. QED BY <4>1, <5>1, <5>2 DEF Magnitude
      <4>. QED BY <3>6, <4>1 DEF Boxed
    <3>. QED BY <1>1, <1>3, <3>7
  <2>3. CASE ~(u < RlinCols) /\ ~(u - RlinCols < RlinRows * GADGET_DIGITS)
    <3>1. x = 0
      BY <2>3 DEF LiftRow
    <3>. QED BY <1>1, <3>1, ModulusFacts
  <2>. QED BY <2>1, <2>2, <2>3
<1>5. Small(x)
  <2>. HIDE DEF x
  <2>. QED BY <1>1, <1>3, <1>4 DEF Small
<1>. QED BY <1>2, <1>3, <1>4, <1>5

LEMMA TableEntry ==
  ASSUME NEW w, NEW i \in 0 .. (Pow(2, M_ZERO) - 1)
  PROVE  WTable(w)[i] = LiftRow(w, i \div RING_DEGREE)[i % RING_DEGREE]
<1>1. WTable(w) = [j \in 0 .. (Pow(2, M_ZERO) - 1) |-> LiftRow(w, j \div RING_DEGREE)[j % RING_DEGREE]]
  BY TabulateIs DEF WTable
<1>. QED BY <1>1

LEMMA SolutionShort ==
  ASSUME NEW w \in LiftedWitness,
         \A u \in DOMAIN w.z, k \in Coeff : Magnitude(w.z[u][k]) <= CHAIN_GAMMA
  PROVE  LiftShort(w) /\ HZeroIsZero(w)
<1>1. LiftCols \in Nat /\ RING_DEGREE \in Nat \ {0} /\ Pow(2, M_ZERO) \in Nat
  BY LiftShape, RingAssumption, LowVarsIs, TwoPow
<1>2. LiftShort(w)
  <2>. SUFFICES ASSUME NEW u \in 0 .. (LiftCols - 1), NEW k \in Coeff
                PROVE  Magnitude(LiftRow(w, u)[k]) <= CHAIN_GAMMA
    BY DEF LiftShort
  <2>1. u \in Nat
    BY <1>1
  <2>. QED BY <2>1, RowsShort
<1>3. HZeroIsZero(w)
  <2>1. /\ DOMAIN HZero(w) = 0 .. (Pow(2, M_ZERO) - 1)
        /\ \A i \in 0 .. (Pow(2, M_ZERO) - 1) :
             WTable(w)[i] \in Fp /\ HZero(w)[i] = RangeProductBase(WTable(w)[i])
    BY HZeroType
  <2>2. ASSUME NEW i \in 0 .. (Pow(2, M_ZERO) - 1) PROVE HZero(w)[i] = 0
    <3>. DEFINE u == i \div RING_DEGREE
                k == i % RING_DEGREE
    <3>1. u \in Nat /\ k \in Coeff
      BY <1>1 DEF Coeff
    <3>2. WTable(w)[i] = LiftRow(w, u)[k]
      BY TableEntry
    <3>. HIDE DEF u, k
    <3>3. Small(LiftRow(w, u)[k])
      BY <3>1, RowsShort
    <3>. QED BY <2>1, <3>2, <3>3, RangeVanishes
  <2>. QED BY <2>1, <2>2 DEF HZeroIsZero
<1>. QED BY <1>2, <1>3

(* RING ELEMENTS AT ALPHA *)

LEMMA ModTimes ==
  ASSUME NEW a \in Int, NEW b \in Int, NEW c \in Int, a % Q = b % Q
  PROVE  (a * c) % Q = (b * c) % Q /\ (c * a) % Q = (c * b) % Q
<1>1. ((a % Q) * c) % Q = (a * c) % Q /\ ((b % Q) * c) % Q = (b * c) % Q
  BY ModScale
<1>2. a * c = c * a /\ b * c = c * b
  OBVIOUS
<1>. QED BY <1>1, <1>2

LEMMA ModSum ==
  ASSUME NEW a \in Int, NEW b \in Int, NEW c \in Int, NEW d \in Int, a % Q = b % Q, c % Q = d % Q
  PROVE  (a + c) % Q = (b + d) % Q /\ (a - c) % Q = (b - d) % Q
<1>1. Q \in Nat \ {0}
  BY RingAssumption
<1>2. ((a % Q) + c) % Q = (a + c) % Q /\ ((b % Q) + c) % Q = (b + c) % Q
  <2>1. a % Q \in Int /\ b % Q \in Int
    BY <1>1
  <2>. QED BY ModAdd
<1>3. (b + (c % Q)) % Q = (b + c) % Q /\ (b + (d % Q)) % Q = (b + d) % Q
  BY ModAdd
<1>4. ((a % Q) - (c % Q)) % Q = (a - c) % Q /\ ((b % Q) - (d % Q)) % Q = (b - d) % Q
  BY ModDifference
<1>. QED BY <1>2, <1>3, <1>4

(* The value at alpha before it is reduced.                                 *)
ValueTerms(alpha, p) == [k \in Coeff |-> p[k] * Pow(alpha, k)]
ValueAt(alpha, p)    == SumFunctionOnSet(ValueTerms(alpha, p), Coeff)

LEMMA ValueIs ==
  ASSUME NEW alpha \in Fp, NEW p \in Rq
  PROVE  /\ \A k \in Coeff : ValueTerms(alpha, p)[k] \in Int /\ Pow(alpha, k) \in Int /\ p[k] \in Int
         /\ ValueAt(alpha, p) \in Int
         /\ EvalAt(alpha, p) = ValueAt(alpha, p) % Q
         /\ EvalAt(alpha, p) \in Int /\ EvalAt(alpha, p) % Q = ValueAt(alpha, p) % Q
<1>1. ASSUME NEW k \in Coeff
      PROVE  ValueTerms(alpha, p)[k] \in Int /\ Pow(alpha, k) \in Int /\ p[k] \in Int
  <2>1. k \in Nat /\ alpha \in Int
    BY FpInt DEF Coeff
  <2>2. Pow(alpha, k) \in Int /\ p[k] \in Int
    BY <2>1, PowFacts, FpInt DEF Rq
  <2>. QED BY <2>2 DEF ValueTerms
<1>2. ValueAt(alpha, p) \in Int
  BY <1>1, CoeffFacts, SumInt DEF ValueAt
<1>3. EvalAt(alpha, p) = ValueAt(alpha, p) % Q
  <2>1. DOMAIN ValueTerms(alpha, p) = Coeff
    BY DEF ValueTerms
  <2>2. EvalAt(alpha, p) = SumFunction(ValueTerms(alpha, p)) % Q
    BY DEF EvalAt, Sigma, ValueTerms
  <2>. QED BY <2>1, <2>2 DEF SumFunction, ValueAt
<1>4. EvalAt(alpha, p) \in Fp
  BY EvalAtType
<1>5. EvalAt(alpha, p) \in Int /\ EvalAt(alpha, p) % Q = EvalAt(alpha, p)
  BY <1>4, FpInt, ModSmall
<1>. QED BY <1>1, <1>2, <1>3, <1>5

(* Evaluation is linear.                                                    *)
Combination(Wt, F, S, k) == SumFunctionOnSet([x \in S |-> Wt[x] * F[x][k]], S)
ValuesOf(alpha, Wt, F, S) == [x \in S |-> Wt[x] * EvalAt(alpha, F[x])]

(* The weighted terms, summed over the elements or over the coefficients.   *)
Grid(alpha, Wt, F, S) == [x \in S |-> [k \in Coeff |-> Wt[x] * (F[x][k] * Pow(alpha, k))]]
Transposed(alpha, Wt, F, S) == [k \in Coeff |-> [x \in S |-> Wt[x] * (F[x][k] * Pow(alpha, k))]]

LEMMA GridExchange ==
  ASSUME NEW alpha \in Fp, NEW S, IsFiniteSet(S), NEW Wt, NEW F, \A x \in S : F[x] \in Rq /\ Wt[x] \in Int
  PROVE  SumFunctionOnSet([x \in S |-> SumFunctionOnSet(Grid(alpha, Wt, F, S)[x], Coeff)], S)
           = SumFunctionOnSet([k \in Coeff |-> SumFunctionOnSet(Transposed(alpha, Wt, F, S)[k], S)], Coeff)
<1>. DEFINE f == Grid(alpha, Wt, F, S)
            g == Transposed(alpha, Wt, F, S)
            a == [x \in S |-> SumFunctionOnSet(f[x], Coeff)]
            c == [k \in Coeff |-> SumFunctionOnSet(g[k], S)]
<1>1. ASSUME NEW x \in S, NEW k \in Coeff PROVE f[x][k] \in Int /\ g[k][x] = f[x][k]
  <2>1. F[x] \in Rq /\ Wt[x] \in Int
    OBVIOUS
  <2>2. F[x][k] \in Int /\ Pow(alpha, k) \in Int
    BY <2>1, ValueIs
  <2>3. Wt[x] * (F[x][k] * Pow(alpha, k)) \in Int
    BY <2>1, <2>2
  <2>. QED BY <2>3 DEF Grid, Transposed
<1>2. IsFiniteSet(Coeff)
  BY CoeffFacts
<1>3. (\A x \in S : a[x] = SumFunctionOnSet(f[x], Coeff)) /\ (\A k \in Coeff : c[k] = SumFunctionOnSet(g[k], S))
  OBVIOUS
<1>4. (\A x \in S, k \in Coeff : f[x][k] \in Int) /\ (\A x \in S, k \in Coeff : g[k][x] = f[x][k])
  BY <1>1
<1>. DEFINE I == Coeff
<1>5. \A x \in S, k \in I : f[x][k] \in Int
  BY <1>4
<1>6. \A x \in S, k \in I : g[k][x] = f[x][k]
  BY <1>4
<1>7. \A x \in S : a[x] = SumFunctionOnSet(f[x], I)
  BY <1>3
<1>8. \A k \in I : c[k] = SumFunctionOnSet(g[k], S)
  BY <1>3
<1>9. IsFiniteSet(I)
  BY <1>2
<1>. HIDE DEF f, g, a, c, I
<1>10. SumFunctionOnSet(a, S) = SumFunctionOnSet(c, I)
  BY <1>5, <1>6, <1>7, <1>8, <1>9, SumExchange
<1>. QED BY <1>10 DEF f, g, a, c, I

LEMMA ValueOfCombination ==
  ASSUME NEW alpha \in Fp, NEW S, IsFiniteSet(S), NEW Wt \in [S -> Int], NEW F \in [S -> Rq], NEW r \in Rq,
         \A k \in Coeff : r[k] % Q = Combination(Wt, F, S, k) % Q
  PROVE  /\ EvalAt(alpha, r) = SumFunctionOnSet(ValuesOf(alpha, Wt, F, S), S) % Q
         /\ \A x \in S : ValuesOf(alpha, Wt, F, S)[x] \in Int
<1>. DEFINE f == [x \in S |-> [k \in Coeff |-> Wt[x] * (F[x][k] * Pow(alpha, k))]]
            g == [k \in Coeff |-> [x \in S |-> Wt[x] * (F[x][k] * Pow(alpha, k))]]
            a == [x \in S |-> SumFunctionOnSet(f[x], Coeff)]
            c == [k \in Coeff |-> SumFunctionOnSet(g[k], S)]
            h(k) == [x \in S |-> Wt[x] * F[x][k]]
            e == [x \in S |-> Wt[x] * EvalAt(alpha, F[x])]
            v == ValueTerms(alpha, r)
<1>1. ASSUME NEW x \in S
      PROVE  /\ F[x] \in Rq /\ Wt[x] \in Int
             /\ \A k \in Coeff : F[x][k] \in Int /\ Pow(alpha, k) \in Int /\ F[x][k] * Pow(alpha, k) \in Int
                                 /\ f[x][k] = Wt[x] * (F[x][k] * Pow(alpha, k)) /\ f[x][k] \in Int
  <2>1. F[x] \in Rq /\ Wt[x] \in Int
    OBVIOUS
  <2>2. \A k \in Coeff : F[x][k] \in Int /\ Pow(alpha, k) \in Int
    BY <2>1, ValueIs
  <2>. QED BY <2>1, <2>2
<1>2. IsFiniteSet(Coeff)
  BY CoeffFacts
<1>3. \A x \in S, k \in Coeff : g[k][x] = f[x][k]
  OBVIOUS
<1>4. SumFunctionOnSet(a, S) = SumFunctionOnSet(c, Coeff)
  <2>1. f = Grid(alpha, Wt, F, S) /\ g = Transposed(alpha, Wt, F, S)
    BY DEF Grid, Transposed
  <2>2. \A x \in S : F[x] \in Rq /\ Wt[x] \in Int
    OBVIOUS
  <2>. HIDE DEF f, g
  <2>. QED BY <2>1, <2>2, GridExchange
<1>5. ASSUME NEW x \in S PROVE a[x] \in Int /\ e[x] \in Int /\ a[x] % Q = e[x] % Q
  <2>. DEFINE t == ValueTerms(alpha, F[x])
  <2>1. /\ ValueAt(alpha, F[x]) \in Int
        /\ EvalAt(alpha, F[x]) \in Int /\ EvalAt(alpha, F[x]) % Q = ValueAt(alpha, F[x]) % Q
    BY <1>1, ValueIs
  <2>2. \A k \in Coeff : t[k] \in Int /\ f[x][k] = Wt[x] * t[k]
    BY <1>1 DEF ValueTerms
  <2>. DEFINE fx == f[x]
  <2>3. \A k \in Coeff : t[k] \in Int /\ fx[k] = Wt[x] * t[k]
    BY <2>2
  <2>. HIDE DEF fx, t
  <2>4. SumFunctionOnSet(fx, Coeff) = Wt[x] * SumFunctionOnSet(t, Coeff)
    BY <1>1, <1>2, <2>3, SumScale
  <2>5. a[x] = Wt[x] * ValueAt(alpha, F[x])
    BY <2>4 DEF fx, t, ValueAt
  <2>6. e[x] = Wt[x] * EvalAt(alpha, F[x])
    OBVIOUS
  <2>. HIDE DEF a, e
  <2>7. (Wt[x] * EvalAt(alpha, F[x])) % Q = (Wt[x] * ValueAt(alpha, F[x])) % Q
    BY <1>1, <2>1, ModTimes
  <2>. QED BY <1>1, <2>1, <2>5, <2>6, <2>7
<1>6. SumFunctionOnSet(a, S) % Q = SumFunctionOnSet(e, S) % Q
  <2>. HIDE DEF a, e
  <2>. QED BY <1>5, SumModEqual
<1>7. ASSUME NEW k \in Coeff PROVE c[k] \in Int /\ v[k] \in Int /\ c[k] % Q = v[k] % Q
  <2>. DEFINE s == SumFunctionOnSet(h(k), S)
              gk == g[k]
              P == Pow(alpha, k)
              hk == h(k)
  <2>1. v[k] \in Int /\ P \in Int /\ r[k] \in Int
    BY ValueIs
  <2>2. \A x \in S : hk[x] = Wt[x] * F[x][k] /\ hk[x] \in Int
    BY <1>1
  <2>3. \A x \in S : gk[x] = Wt[x] * (F[x][k] * P)
    OBVIOUS
  <2>4. ASSUME NEW x \in S PROVE gk[x] = P * hk[x]
    <3>. DEFINE w1 == Wt[x]
                f1 == F[x][k]
    <3>1. w1 \in Int /\ f1 \in Int /\ gk[x] = w1 * (f1 * P) /\ hk[x] = w1 * f1
      BY <1>1, <2>2, <2>3
    <3>. HIDE DEF w1, f1, P, gk, hk
    <3>2. w1 * (f1 * P) = P * (w1 * f1)
      BY <2>1, <3>1
    <3>. QED BY <3>1, <3>2
  <2>5. v[k] = r[k] * P
    BY DEF ValueTerms
  <2>6. r[k] % Q = s % Q
    BY DEF Combination
  <2>7. c[k] = SumFunctionOnSet(gk, S)
    OBVIOUS
  <2>8. s = SumFunctionOnSet(hk, S)
    OBVIOUS
  <2>. HIDE DEF gk, hk, P, s, v, c
  <2>9. s \in Int
    BY <2>2, <2>8, SumInt
  <2>10. c[k] = P * s
    BY <2>1, <2>2, <2>4, <2>7, <2>8, SumScale
  <2>11. (r[k] * P) % Q = (s * P) % Q
    BY <2>1, <2>6, <2>9, ModTimes
  <2>12. P * s = s * P /\ P * s \in Int
    BY <2>1, <2>9
  <2>. QED BY <2>1, <2>5, <2>10, <2>11, <2>12
<1>8. SumFunctionOnSet(c, Coeff) % Q = SumFunctionOnSet(v, Coeff) % Q
  <2>. HIDE DEF c, v
  <2>. QED BY <1>2, <1>7, SumModEqual
<1>9. EvalAt(alpha, r) = SumFunctionOnSet(v, Coeff) % Q
  BY ValueIs DEF ValueAt
<1>10. \A x \in S : e[x] \in Int
  BY <1>5
<1>. HIDE DEF a, c, v
<1>. QED BY <1>4, <1>6, <1>8, <1>9, <1>10 DEF ValuesOf

-----------------------------------------------------------------------------
(* A PRODUCT AT ALPHA: the reduced product and X^N + 1 times the high half  *)

(* What wraps round at p, summed over the shifts.                           *)
OverTerms(a, s, p) == [k \in Coeff |-> IF p < k THEN a[k] * s[Source(k, p)] ELSE 0]

LEMMA HighHalfIs ==
  ASSUME NEW a \in Rq, NEW s \in Rq, NEW p \in Coeff
  PROVE  /\ HighHalf(a, s) \in Rq
         /\ \A k \in Coeff : OverTerms(a, s, p)[k] \in Int
         /\ SumFunctionOnSet(OverTerms(a, s, p), Coeff) \in Int
         /\ HighHalf(a, s)[p] = SumFunctionOnSet(OverTerms(a, s, p), Coeff) % Q
<1>. DEFINE o == OverTerms(a, s, p)
            U == (p + 1) .. (RING_DEGREE - 1)
            f == [i \in U |-> a[i] * s[p + RING_DEGREE - i]]
<1>0. RING_DEGREE \in Nat \ {0} /\ p \in Nat /\ p \in 0 .. (RING_DEGREE - 1)
  BY RingAssumption DEF Coeff
<1>1. HighHalf(a, s) \in Rq
  BY HighHalfType DEF Rq
<1>2. ASSUME NEW k \in Coeff PROVE o[k] \in Int /\ a[k] * s[Source(k, p)] \in Int
  <2>1. a[k] \in Int /\ s[Source(k, p)] \in Int
    BY SourceRange, RqInt
  <2>2. a[k] * s[Source(k, p)] \in Int
    BY <2>1
  <2>. QED BY <2>2 DEF OverTerms
<1>3. U \subseteq Coeff /\ IsFiniteSet(Coeff) /\ IsFiniteSet(U)
  BY <1>0, CoeffFacts, FS_Interval DEF Coeff
<1>4. ASSUME NEW k \in Coeff PROVE /\ k \in U <=> p < k
                                   /\ k \in U => f[k] = o[k]
                                   /\ k \notin U => o[k] = 0
  <2>1. k \in 0 .. (RING_DEGREE - 1)
    BY DEF Coeff
  <2>2. k \in U <=> p < k
    BY <1>0, <2>1
  <2>3. p < k => Source(k, p) = p + RING_DEGREE - k
    BY <1>0, <2>1 DEF Source
  <2>. QED BY <2>2, <2>3 DEF OverTerms
<1>5. HighHalf(a, s)[p] = SumFunction(f) % Q
  BY DEF HighHalf, Sigma
<1>6. SumFunction(f) = SumFunctionOnSet(f, U)
  BY DEF SumFunction
<1>. HIDE DEF o, U, f
<1>7. SumFunctionOnSet(f, U) = SumFunctionOnSet(o, U)
  BY <1>3, <1>4, SumEqual
<1>8. SumFunctionOnSet(o, Coeff) = SumFunctionOnSet(o, U)
  BY <1>2, <1>3, <1>4, SumSupport
<1>9. SumFunctionOnSet(o, Coeff) \in Int
  BY <1>2, <1>3, SumInt
<1>. QED BY <1>1, <1>2, <1>5, <1>6, <1>7, <1>8, <1>9 DEF o

LEMMA PowerOfShift ==
  ASSUME NEW alpha \in Fp, NEW k \in Coeff, NEW p \in Coeff
  PROVE  /\ Source(k, p) \in Coeff
         /\ Pow(alpha, k) \in Int /\ Pow(alpha, Source(k, p)) \in Int /\ Pow(alpha, p) \in Int
         /\ Pow(alpha, RING_DEGREE) \in Int
         /\ p < k => Pow(alpha, k) * Pow(alpha, Source(k, p)) = Pow(alpha, p) * Pow(alpha, RING_DEGREE)
         /\ ~(p < k) => Pow(alpha, k) * Pow(alpha, Source(k, p)) = Pow(alpha, p)
<1>1. /\ RING_DEGREE \in Nat \ {0} /\ p \in Nat /\ k \in Nat /\ Source(k, p) \in Coeff
      /\ Source(k, p) \in Nat /\ alpha \in Int
  <2>1. RING_DEGREE \in Nat \ {0} /\ alpha \in Int
    BY RingAssumption, FpInt
  <2>2. Source(k, p) \in Coeff
    BY SourceRange
  <2>3. \A x \in Coeff : x \in Nat
    BY <2>1 DEF Coeff
  <2>. QED BY <2>1, <2>2, <2>3
<1>2. p < k => k + Source(k, p) = p + RING_DEGREE
  BY <1>1 DEF Source
<1>3. ~(p < k) => k + Source(k, p) = p
  BY <1>1 DEF Source
<1>4. /\ Pow(alpha, k + Source(k, p)) = Pow(alpha, k) * Pow(alpha, Source(k, p))
      /\ Pow(alpha, p + RING_DEGREE) = Pow(alpha, p) * Pow(alpha, RING_DEGREE)
  BY <1>1, PowPlus
<1>5. /\ Pow(alpha, k) \in Int /\ Pow(alpha, Source(k, p)) \in Int /\ Pow(alpha, p) \in Int
      /\ Pow(alpha, RING_DEGREE) \in Int
  BY <1>1, PowFacts
<1>. QED BY <1>1, <1>2, <1>3, <1>4, <1>5

(* One pair of terms, at the position it lands on.                          *)
LEMMA TermAt ==
  ASSUME NEW alpha \in Fp, NEW a \in Rq, NEW s \in Rq, NEW k \in Coeff, NEW p \in Coeff
  PROVE  (a[k] * Pow(alpha, k)) * (s[Source(k, p)] * Pow(alpha, Source(k, p)))
           = Pow(alpha, p) * (Term(a, s, p)[k] + Modulus(alpha) * OverTerms(a, s, p)[k])
<1>. DEFINE x == a[k]
            y == s[Source(k, p)]
            A == Pow(alpha, k)
            B == Pow(alpha, Source(k, p))
            C == Pow(alpha, p)
            N == Pow(alpha, RING_DEGREE)
            T == Term(a, s, p)[k]
            O == OverTerms(a, s, p)[k]
            m == Modulus(alpha)
<1>1. x \in Int /\ y \in Int
  BY SourceRange, RqInt
<1>2. /\ A \in Int /\ B \in Int /\ C \in Int /\ N \in Int
      /\ p < k => A * B = C * N
      /\ ~(p < k) => A * B = C
  BY PowerOfShift
<1>3. m = N + 1
  BY DEF Modulus
<1>4. T = IF p < k THEN -(x * y) ELSE x * y
  BY DEF Term
<1>5. O = IF p < k THEN x * y ELSE 0
  BY DEF OverTerms
<1>. HIDE DEF x, y, A, B, C, N, T, O, m
<1>6. (x * A) * (y * B) = (x * y) * (A * B)
  BY <1>1, <1>2
<1>7. CASE p < k
  <2>1. T = -(x * y) /\ O = x * y /\ A * B = C * N
    BY <1>2, <1>4, <1>5, <1>7
  <2>2. C * (-(x * y) + (N + 1) * (x * y)) = (x * y) * (C * N)
    <3>. DEFINE z == x * y
    <3>1. z \in Int
      BY <1>1
    <3>. HIDE DEF z
    <3>2. -z + (N + 1) * z = N * z
      BY <1>2, <3>1
    <3>3. C * (N * z) = z * (C * N)
      BY <1>2, <3>1
    <3>. QED BY <3>2, <3>3 DEF z
  <2>. QED BY <1>3, <1>6, <2>1, <2>2 DEF x, y, A, B, C, N, T, O, m
<1>8. CASE ~(p < k)
  <2>1. T = x * y /\ O = 0 /\ A * B = C
    BY <1>2, <1>4, <1>5, <1>8
  <2>2. C * (x * y + m * 0) = (x * y) * C
    <3>1. m \in Int /\ x * y \in Int
      BY <1>1, <1>2, <1>3
    <3>. QED BY <1>2, <3>1
  <2>. QED BY <1>6, <2>1, <2>2 DEF x, y, A, B, C, N, T, O, m
<1>. QED BY <1>7, <1>8

LEMMA ProductAt ==
  ASSUME NEW alpha \in Fp, NEW a \in Rq, NEW s \in Rq
  PROVE  /\ EvalAt(alpha, a) \in Int /\ EvalAt(alpha, s) \in Int /\ Modulus(alpha) \in Int
         /\ NegMul(a, s) \in Rq /\ HighHalf(a, s) \in Rq
         /\ EvalAt(alpha, NegMul(a, s)) \in Int /\ EvalAt(alpha, HighHalf(a, s)) \in Int
         /\ (EvalAt(alpha, a) * EvalAt(alpha, s)) % Q
              = (EvalAt(alpha, NegMul(a, s)) + Modulus(alpha) * EvalAt(alpha, HighHalf(a, s))) % Q
<1>. DEFINE P(j) == Pow(alpha, j)
            I == Coeff
            va == ValueTerms(alpha, a)
            vs == ValueTerms(alpha, s)
            n == NegMul(a, s)
            h == HighHalf(a, s)
            vn == ValueTerms(alpha, n)
            vh == ValueTerms(alpha, h)
            m == Modulus(alpha)
            f == [k \in I |-> [p \in I |-> va[k] * vs[Source(k, p)]]]
            g == [p \in I |-> [k \in I |-> va[k] * vs[Source(k, p)]]]
            r == [k \in I |-> SumFunctionOnSet(f[k], I)]
            c == [p \in I |-> SumFunctionOnSet(g[p], I)]
            d == [p \in I |-> vn[p] + m * vh[p]]
            mh == [p \in I |-> m * vh[p]]
            A == SumFunctionOnSet(va, I)
            B == SumFunctionOnSet(vs, I)
            C == SumFunctionOnSet(vn, I)
            D == SumFunctionOnSet(vh, I)
<1>1. IsFiniteSet(I) /\ \A k \in I, p \in I : Source(k, p) \in I
  BY CoeffFacts, SourceRange
<1>2. n \in Rq /\ h \in Rq
  BY ProductType, HighHalfType DEF Rq
<1>3. m \in Int
  <2>1. Pow(alpha, RING_DEGREE) \in Int
    BY FpInt, RingAssumption, PowFacts
  <2>. QED BY <2>1 DEF Modulus
<1>4. /\ \A k \in I : va[k] \in Int /\ vs[k] \in Int /\ P(k) \in Int
      /\ A \in Int /\ EvalAt(alpha, a) \in Int /\ EvalAt(alpha, a) % Q = A % Q
      /\ B \in Int /\ EvalAt(alpha, s) \in Int /\ EvalAt(alpha, s) % Q = B % Q
  BY ValueIs DEF ValueAt
<1>5. /\ \A k \in I : vn[k] \in Int /\ vh[k] \in Int
      /\ C \in Int /\ EvalAt(alpha, n) \in Int /\ EvalAt(alpha, n) % Q = C % Q
      /\ D \in Int /\ EvalAt(alpha, h) \in Int /\ EvalAt(alpha, h) % Q = D % Q
  <2>. HIDE DEF n, h
  <2>. QED BY <1>2, ValueIs DEF ValueAt
<1>6. \A k \in I, p \in I : f[k][p] = va[k] * vs[Source(k, p)] /\ g[p][k] = f[k][p]
                            /\ va[k] * vs[Source(k, p)] \in Int
  BY <1>1, <1>4
<1>7. SumFunctionOnSet(r, I) = SumFunctionOnSet(c, I)
  <2>1. (\A k \in I, p \in I : f[k][p] \in Int) /\ (\A k \in I, p \in I : g[p][k] = f[k][p])
    BY <1>6
  <2>2. (\A k \in I : r[k] = SumFunctionOnSet(f[k], I)) /\ (\A p \in I : c[p] = SumFunctionOnSet(g[p], I))
    OBVIOUS
  <2>. HIDE DEF f, g, r, c, I
  <2>. QED BY <1>1, <2>1, <2>2, SumExchange
<1>8. SumFunctionOnSet(r, I) = B * A
  <2>1. ASSUME NEW k \in I PROVE r[k] = B * va[k]
    <3>. DEFINE src == [p \in I |-> Source(k, p)]
                t == [p \in I |-> vs[Source(k, p)]]
                fk == f[k]
    <3>1. /\ \A p, q \in I : src[p] = src[q] => p = q
          /\ { src[p] : p \in I } = I
      BY ShiftIsBijection
    <3>2. \A p \in I : vs[src[p]] \in Int /\ t[p] = vs[src[p]] /\ t[p] \in Int /\ fk[p] = va[k] * t[p]
      BY <1>1, <1>4, <1>6
    <3>3. r[k] = SumFunctionOnSet(fk, I) /\ va[k] \in Int
      BY <1>4
    <3>. HIDE DEF src, t, fk, va, vs, I, r, f, B
    <3>4. SumFunctionOnSet(t, I) = SumFunctionOnSet(vs, { src[p] : p \in I })
      BY <1>1, <3>1, <3>2, SumReindex
    <3>5. SumFunctionOnSet(t, I) = B
      BY <3>1, <3>4 DEF B
    <3>6. SumFunctionOnSet(fk, I) = va[k] * SumFunctionOnSet(t, I)
      BY <1>1, <3>2, <3>3, SumScale
    <3>7. va[k] * B = B * va[k]
      BY <1>4, <3>3
    <3>. QED BY <3>3, <3>5, <3>6, <3>7
  <2>2. \A k \in I : va[k] \in Int
    BY <1>4
  <2>. HIDE DEF va, r, B, I
  <2>. QED BY <1>1, <1>4, <2>1, <2>2, SumScale
<1>9. ASSUME NEW p \in I PROVE c[p] \in Int /\ d[p] \in Int /\ c[p] % Q = d[p] % Q
  <2>. DEFINE T == Term(a, s, p)
              O == OverTerms(a, s, p)
              mO == [k \in I |-> m * O[k]]
              TO == [k \in I |-> T[k] + mO[k]]
              gp == g[p]
              E == P(p)
              ST == SumFunctionOnSet(T, I)
              SO == SumFunctionOnSet(O, I)
  <2>1. (\A k \in I : T[k] \in Int) /\ ST \in Int /\ n[p] = ST % Q
    BY RqInt, ProductIs
  <2>2. (\A k \in I : O[k] \in Int) /\ SO \in Int /\ h[p] = SO % Q
    BY HighHalfIs
  <2>3. ASSUME NEW k \in I PROVE mO[k] \in Int /\ TO[k] \in Int /\ gp[k] = E * TO[k]
    <3>1. O[k] \in Int /\ T[k] \in Int
      BY <2>1, <2>2
    <3>2. m * O[k] \in Int /\ mO[k] = m * O[k] /\ TO[k] = T[k] + m * O[k]
      BY <1>3, <3>1
    <3>3. gp[k] = (a[k] * Pow(alpha, k)) * (s[Source(k, p)] * Pow(alpha, Source(k, p)))
      BY <1>1 DEF ValueTerms
    <3>4. (a[k] * Pow(alpha, k)) * (s[Source(k, p)] * Pow(alpha, Source(k, p))) = E * (T[k] + m * O[k])
      BY TermAt
    <3>. QED BY <3>1, <3>2, <3>3, <3>4
  <2>4. \A k \in I : mO[k] = m * O[k] /\ TO[k] = T[k] + mO[k]
    OBVIOUS
  <2>5. c[p] = SumFunctionOnSet(gp, I) /\ E \in Int
    BY <1>4
  <2>6. d[p] = n[p] * E + m * (h[p] * E)
    BY DEF ValueTerms
  <2>. DEFINE np == n[p]
              hp == h[p]
  <2>. HIDE DEF T, O, mO, TO, gp, E, I, c, d, m
  <2>7. SumFunctionOnSet(mO, I) = m * SO
    BY <1>1, <1>3, <2>2, <2>4, SumScale
  <2>8. SumFunctionOnSet(TO, I) = ST + m * SO
    <3>1. SumFunctionOnSet(TO, I) = SumFunctionOnSet(T, I) + SumFunctionOnSet(mO, I)
      BY <1>1, <2>1, <2>3, <2>4, SumPlus
    <3>. QED BY <2>7, <3>1
  <2>9. SumFunctionOnSet(gp, I) = E * SumFunctionOnSet(TO, I)
    BY <1>1, <2>3, <2>5, SumScale
  <2>. HIDE DEF ST, SO
  <2>10. c[p] = E * (ST + m * SO)
    BY <2>5, <2>8, <2>9
  <2>11. np \in Int /\ np % Q = ST % Q /\ hp \in Int /\ hp % Q = SO % Q
    <3>1. np \in Fp /\ hp \in Fp
      BY <2>1, <2>2, ModSmall
    <3>2. np % Q = np /\ hp % Q = hp /\ np \in Int /\ hp \in Int
      BY <3>1, FpInt, ModSmall
    <3>. QED BY <2>1, <2>2, <3>2
  <2>12. d[p] = np * E + m * (hp * E)
    BY <2>6
  <2>. HIDE DEF np, hp
  <2>13. (np * E) % Q = (ST * E) % Q /\ (hp * E) % Q = (SO * E) % Q
    <3>1. ST \in Int /\ SO \in Int
      BY <2>1, <2>2
    <3>2. (np * E) % Q = (ST * E) % Q
      BY <2>5, <2>11, <3>1, ModTimes
    <3>3. (hp * E) % Q = (SO * E) % Q
      BY <2>5, <2>11, <3>1, ModTimes
    <3>. QED BY <3>2, <3>3
  <2>14. np * E \in Int /\ hp * E \in Int /\ ST * E \in Int /\ SO * E \in Int
    BY <2>1, <2>2, <2>5, <2>11
  <2>15. (m * (hp * E)) % Q = (m * (SO * E)) % Q
    BY <1>3, <2>13, <2>14, ModTimes
  <2>16. m * (hp * E) \in Int /\ m * (SO * E) \in Int
    BY <1>3, <2>14
  <2>17. (np * E + m * (hp * E)) % Q = (ST * E + m * (SO * E)) % Q
    BY <2>13, <2>14, <2>15, <2>16, ModSum
  <2>18. ST * E + m * (SO * E) = E * (ST + m * SO)
    <3>1. E * (ST + m * SO) = E * ST + E * (m * SO)
      BY <1>3, <2>1, <2>2, <2>5
    <3>2. E * (m * SO) = m * (SO * E) /\ E * ST = ST * E
      BY <1>3, <2>1, <2>2, <2>5
    <3>. QED BY <3>1, <3>2
  <2>. QED BY <2>10, <2>12, <2>14, <2>16, <2>17, <2>18
<1>10. SumFunctionOnSet(d, I) = C + m * D
  <2>1. \A p \in I : vn[p] \in Int /\ vh[p] \in Int
    BY <1>5
  <2>2. \A p \in I : mh[p] = m * vh[p] /\ d[p] = vn[p] + mh[p]
    OBVIOUS
  <2>3. \A p \in I : mh[p] \in Int
    BY <1>3, <2>1, <2>2
  <2>. HIDE DEF mh, d, vn, vh, m, I
  <2>4. SumFunctionOnSet(mh, I) = m * SumFunctionOnSet(vh, I)
    BY <1>1, <1>3, <2>1, <2>2, SumScale
  <2>5. SumFunctionOnSet(d, I) = SumFunctionOnSet(vn, I) + SumFunctionOnSet(mh, I)
    BY <1>1, <2>1, <2>2, <2>3, SumPlus
  <2>. QED BY <2>4, <2>5
<1>11. (B * A) % Q = (C + m * D) % Q
  <2>. HIDE DEF c, d, r, I, A, B, C, D
  <2>1. SumFunctionOnSet(c, I) % Q = SumFunctionOnSet(d, I) % Q
    BY <1>1, <1>9, SumModEqual
  <2>. QED BY <1>7, <1>8, <1>10, <2>1
<1>. HIDE DEF A, B, C, D, m, n, h
<1>. DEFINE ea == EvalAt(alpha, a)
            es == EvalAt(alpha, s)
            en == EvalAt(alpha, n)
            eh == EvalAt(alpha, h)
<1>12. /\ ea \in Int /\ es \in Int /\ en \in Int /\ eh \in Int
       /\ ea % Q = A % Q /\ es % Q = B % Q /\ en % Q = C % Q /\ eh % Q = D % Q
  BY <1>4, <1>5
<1>. HIDE DEF ea, es, en, eh
<1>13. (ea * es) % Q = (B * A) % Q
  <2>. HIDE DEF va, vs, f, g, r, c, d, mh, I
  <2>0. A \in Int /\ B \in Int
    BY <1>4
  <2>1. (ea * es) % Q = (A * es) % Q
    BY <1>12, <2>0, ModTimes
  <2>2. (A * es) % Q = (A * B) % Q
    BY <1>12, <2>0, ModTimes
  <2>3. A * B = B * A
    BY <2>0
  <2>. QED BY <2>1, <2>2, <2>3
<1>14. (en + m * eh) % Q = (C + m * D) % Q
  <2>. HIDE DEF vn, vh, f, g, r, c, d, mh, I
  <2>0. C \in Int /\ D \in Int
    BY <1>5
  <2>1. (m * eh) % Q = (m * D) % Q
    BY <1>3, <1>12, <2>0, ModTimes
  <2>2. m * eh \in Int /\ m * D \in Int
    BY <1>3, <1>12, <2>0
  <2>. DEFINE x == m * eh
              y == m * D
  <2>3. x \in Int /\ y \in Int /\ x % Q = y % Q
    BY <2>1, <2>2
  <2>. HIDE DEF x, y
  <2>4. (en + x) % Q = (C + y) % Q
    BY <1>12, <2>0, <2>3, ModSum
  <2>. QED BY <2>4 DEF x, y
<1>. QED BY <1>2, <1>3, <1>11, <1>12, <1>13, <1>14 DEF ea, es, en, eh, m, n, h

-----------------------------------------------------------------------------
(* THE ALPHA CLAIM *)

Columns == 0 .. (LiftCols - 1)

LEMMA ColumnsAre ==
  /\ IsFiniteSet(Columns) /\ \A u \in Columns : u \in Nat
  /\ IsFiniteSet(DOMAIN M) /\ \A i \in DOMAIN M : i \in Nat
  /\ DOMAIN Yvec = DOMAIN M
<1>1. LiftCols \in Nat /\ IsFiniteSet(DOMAIN M) /\ \A i \in DOMAIN M : i \in Nat
  BY LiftShape
<1>2. IsFiniteSet(Columns) /\ \A u \in Columns : u \in Nat
  BY <1>1, FS_Interval DEF Columns
<1>3. DOMAIN Yvec = DOMAIN M
  <2>1. PICK rows \in 1 .. LiftCols, cols \in 1 .. LiftCols :
          M \in [0 .. (rows - 1) -> [0 .. (cols - 1) -> Rq]] /\ Yvec \in [0 .. (rows - 1) -> Rq]
    BY LiftAssumption
  <2>. QED BY <2>1
<1>. QED BY <1>1, <1>2, <1>3

(* The entries of the two tables, row by row.                               *)
LEMMA TableAt ==
  ASSUME NEW w, NEW alpha, NEW tau1,
         NEW u \in 0 .. (Pow(2, M_ZERO - LowVars) - 1), NEW l \in Coeff
  PROVE  /\ RING_DEGREE * u + l \in 0 .. (Pow(2, M_ZERO) - 1)
         /\ WTable(w)[RING_DEGREE * u + l] = LiftRow(w, u)[l]
         /\ AlphaTable(alpha, tau1)[RING_DEGREE * u + l]
              = (Pow(alpha, l) * RowContraction(alpha, tau1, u)) % Q
<1>. DEFINE N == RING_DEGREE
            H == Pow(2, M_ZERO - LowVars)
            x == N * u + l
            D == 0 .. (Pow(2, M_ZERO) - 1)
<1>1. N \in Nat \ {0} /\ H \in Nat /\ Pow(2, M_ZERO) = N * H
  BY RingAssumption, LowVarsIs, TwoPow
<1>2. u \in 0 .. (H - 1) /\ l \in 0 .. (N - 1) /\ u \in Nat
  BY <1>1 DEF Coeff
<1>3. x \in 0 .. (N * H - 1)
  <2>. HIDE DEF N, H
  <2>. QED BY <1>1, <1>2, BlockIndex
<1>4. x \in D
  <2>. HIDE DEF x
  <2>. QED BY <1>1, <1>3
<1>5. x \div N = u /\ x % N = l
  <2>. HIDE DEF N
  <2>. QED BY <1>1, <1>2, SplitAt
<1>6. WTable(w)[x] = LiftRow(w, x \div N)[x % N]
  <2>. HIDE DEF x
  <2>. QED BY <1>4, TableEntry
<1>7. AlphaTable(alpha, tau1)[x] = (Pow(alpha, x % N) * RowContraction(alpha, tau1, x \div N)) % Q
  <2>1. AlphaTable(alpha, tau1)
          = [i \in D |-> (Pow(alpha, i % N) * RowContraction(alpha, tau1, i \div N)) % Q]
    BY TabulateIs DEF AlphaTable
  <2>. HIDE DEF x, D, N
  <2>. QED BY <1>4, <2>1
<1>. HIDE DEF x
<1>8. WTable(w)[x] = LiftRow(w, u)[l] /\ AlphaTable(alpha, tau1)[x] = (Pow(alpha, l) * RowContraction(alpha, tau1, u)) % Q
  BY <1>5, <1>6, <1>7
<1>. QED BY <1>4, <1>8 DEF x

(* Row i of the statement at alpha, column by column.                       *)
RowTerms(alpha, w, i) == [u \in Columns |-> MAlpha(alpha, i, u) * EvalAt(alpha, LiftRow(w, u))]

LEMMA ContractIs ==
  ASSUME NEW w \in LiftedWitness, NEW alpha \in Fp, NEW i \in DOMAIN M
  PROVE  /\ \A u \in Columns : RowTerms(alpha, w, i)[u] \in Int
         /\ SumFunctionOnSet(RowTerms(alpha, w, i), Columns) \in Int
         /\ AlphaContract(alpha, w, i) = SumFunctionOnSet(RowTerms(alpha, w, i), Columns) % Q
         /\ AlphaContract(alpha, w, i) \in Fp
<1>. DEFINE T == WTable(w)
            b(u) == [l \in Coeff |-> T[RING_DEGREE * u + l] * Pow(alpha, l)]
            f == [u \in 0 .. (LiftCols - 1) |-> MAlpha(alpha, i, u) * (SumFunction(b(u)) % Q)]
            r == RowTerms(alpha, w, i)
<1>1. ASSUME NEW u \in Columns
      PROVE  /\ SumFunction(b(u)) % Q = EvalAt(alpha, LiftRow(w, u))
             /\ r[u] = MAlpha(alpha, i, u) * EvalAt(alpha, LiftRow(w, u)) /\ r[u] \in Int
  <2>1. u \in Nat /\ u \in 0 .. (LiftCols - 1)
    BY ColumnsAre DEF Columns
  <2>2. u \in 0 .. (Pow(2, M_ZERO - LowVars) - 1)
    <3>. DEFINE H == Pow(2, M_ZERO - LowVars)
    <3>1. H \in Nat /\ LiftCols <= H /\ LiftCols \in Nat
      BY LowVarsIs, TwoPow, LiftShape
    <3>. HIDE DEF H
    <3>2. u \in 0 .. (H - 1)
      BY <2>1, <3>1
    <3>. QED BY <3>2 DEF H
  <2>3. \A l \in Coeff : T[RING_DEGREE * u + l] = LiftRow(w, u)[l]
    BY <2>2, TableAt
  <2>4. b(u) = [l \in Coeff |-> LiftRow(w, u)[l] * Pow(alpha, l)]
    BY <2>3
  <2>5. SumFunction(b(u)) % Q = EvalAt(alpha, LiftRow(w, u))
    BY <2>4 DEF EvalAt, Sigma
  <2>6. LiftRow(w, u) \in Rq
    BY <2>1, LiftRowType
  <2>7. EvalAt(alpha, LiftRow(w, u)) \in Int /\ MAlpha(alpha, i, u) \in Int
    BY <2>1, <2>6, ValueIs, MAlphaInt
  <2>8. r[u] = MAlpha(alpha, i, u) * EvalAt(alpha, LiftRow(w, u))
    BY DEF RowTerms
  <2>9. MAlpha(alpha, i, u) * EvalAt(alpha, LiftRow(w, u)) \in Int
    BY <2>7
  <2>. QED BY <2>5, <2>8, <2>9
<1>2. f = r
  <2>1. \A u \in Columns : MAlpha(alpha, i, u) * (SumFunction(b(u)) % Q)
                            = MAlpha(alpha, i, u) * EvalAt(alpha, LiftRow(w, u))
    BY <1>1
  <2>. HIDE DEF b
  <2>. QED BY <2>1 DEF RowTerms, Columns
<1>3. AlphaContract(alpha, w, i) = SumFunction(f) % Q
  BY DEF AlphaContract, Sigma
<1>4. DOMAIN r = Columns
  BY DEF RowTerms
<1>5. \A u \in Columns : r[u] \in Int
  BY <1>1
<1>. HIDE DEF r, f
<1>6. SumFunction(r) = SumFunctionOnSet(r, Columns) /\ SumFunction(r) \in Int /\ SumFunction(r) % Q \in Fp
  BY <1>4, <1>5, ColumnsAre, SigmaIs
<1>. QED BY <1>2, <1>3, <1>5, <1>6 DEF r

(* The initial alpha claim, column by column.                               *)
ColumnTerms(alpha, tau1, w) ==
  [u \in Columns |-> RowContraction(alpha, tau1, u) * EvalAt(alpha, LiftRow(w, u))]

LEMMA ClaimByColumns ==
  ASSUME NEW s \in Statements, NEW w \in LiftedWitness
  PROVE  /\ \A u \in Columns : ColumnTerms(s.alpha, s.tau1, w)[u] \in Int
         /\ CubeSum(s, w, "alpha", << >>)
              = SumFunctionOnSet(ColumnTerms(s.alpha, s.tau1, w), Columns) % Q
<1>. DEFINE alpha == s.alpha
            tau1 == s.tau1
            N == RING_DEGREE
            H == Pow(2, M_ZERO - LowVars)
            U == 0 .. (H - 1)
            D == 0 .. (N * H - 1)
            RC(u) == RowContraction(alpha, tau1, u)
            L(u) == LiftRow(w, u)
            e == Summand(s, w, "alpha", << >>)
            f == [x \in D |-> L(x \div N)[x % N] * (Pow(alpha, x % N) * RC(x \div N))]
            r == [u \in U |-> RC(u) * ValueAt(alpha, L(u))]
            c == ColumnTerms(alpha, tau1, w)
<1>1. /\ alpha \in Fp /\ tau1 \in Seq(Fp)
      /\ N \in Nat \ {0} /\ H \in Nat /\ Pow(2, M_ZERO) = N * H /\ LiftCols <= H /\ LiftCols \in Nat
      /\ M_ZERO \in Nat
  BY StatementIs, RingAssumption, LowVarsIs, TwoPow, LiftShape
<1>2. IsFiniteSet(U) /\ IsFiniteSet(D) /\ D = 0 .. (Pow(2, M_ZERO) - 1)
  <2>. HIDE DEF N, H
  <2>1. N * H \in Nat /\ H \in Nat
    BY <1>1
  <2>. DEFINE K == N * H
  <2>. HIDE DEF K
  <2>2. K \in Nat /\ D = 0 .. (K - 1)
    BY <2>1 DEF K
  <2>3. IsFiniteSet(U) /\ IsFiniteSet(0 .. (K - 1))
    BY <2>1, <2>2, FS_Interval
  <2>. QED BY <1>1, <2>2, <2>3
<1>. HIDE DEF alpha, tau1
<1>3. ASSUME NEW u \in U, NEW l \in Coeff
      PROVE  /\ u \in Nat /\ L(u) \in Rq /\ L(u)[l] \in Int /\ RC(u) \in Int /\ Pow(alpha, l) \in Int
             /\ N * u + l \in D
             /\ e[N * u + l] = L(u)[l] * ((Pow(alpha, l) * RC(u)) % Q)
             /\ f[N * u + l] = L(u)[l] * (Pow(alpha, l) * RC(u))
  <2>1. u \in Nat
    BY <1>1
  <2>2. L(u) \in Rq /\ RC(u) \in Fp
    BY <1>1, <2>1, LiftRowType, RowContractionType
  <2>3. L(u)[l] \in Int /\ RC(u) \in Int /\ Pow(alpha, l) \in Int
    BY <1>1, <2>2, ValueIs, FpInt
  <2>. DEFINE x == N * u + l
              T == WTable(w)
              A == AlphaTable(s.alpha, s.tau1)
  <2>4. x \in D /\ T[x] = L(u)[l] /\ A[x] = (Pow(alpha, l) * RC(u)) % Q
    BY <1>2, TableAt DEF alpha, tau1
  <2>5. x \div N = u /\ x % N = l
    <3>1. l \in 0 .. (N - 1)
      BY DEF Coeff
    <3>. HIDE DEF N
    <3>. QED BY <1>1, <2>1, <3>1, SplitAt
  <2>6. e[x] = T[x] * A[x]
    <3>1. Bound(T, << >>) = T /\ Bound(A, << >>) = A
      <4>1. T \in CubeTable(M_ZERO) /\ A \in CubeTable(M_ZERO)
        BY WTableType, AlphaTableType
      <4>. HIDE DEF T, A
      <4>. QED BY <1>1, <4>1, BoundEmpty
    <3>2. x \in Rest(<< >>)
      <4>1. Rest(<< >>) = D
        BY <1>1, <1>2 DEF Rest
      <4>. QED BY <2>4, <4>1
    <3>. HIDE DEF x
    <3>3. e[x] = Bound(T, << >>)[x] * Bound(A, << >>)[x]
      BY <3>2 DEF Summand
    <3>. QED BY <3>1, <3>3
  <2>7. f[x] = L(x \div N)[x % N] * (Pow(alpha, x % N) * RC(x \div N))
    <3>. HIDE DEF x, D
    <3>. QED BY <2>4
  <2>. HIDE DEF x, e, f
  <2>8. e[x] = L(u)[l] * ((Pow(alpha, l) * RC(u)) % Q) /\ f[x] = L(u)[l] * (Pow(alpha, l) * RC(u))
    BY <2>4, <2>5, <2>6, <2>7
  <2>. QED BY <2>1, <2>2, <2>3, <2>4, <2>8 DEF x
<1>4. ASSUME NEW x \in D PROVE e[x] \in Int /\ f[x] \in Int /\ e[x] % Q = f[x] % Q
  <2>. DEFINE u == x \div N
              l == x % N
  <2>1. u \in U /\ l \in Coeff /\ N * u + l = x
    <3>1. x \in Nat /\ u \in Nat /\ l \in 0 .. (N - 1) /\ N * u + l = x
      BY <1>1
    <3>2. u < H
      <4>1. SUFFICES ASSUME u >= H PROVE FALSE
        BY <1>1, <3>1
      <4>. HIDE DEF u, l, N, H
      <4>2. u - H \in Nat /\ N * (u - H) \in Nat /\ N * u = N * H + N * (u - H)
        BY <1>1, <3>1, <4>1
      <4>3. N * H \in Nat /\ x <= N * H - 1
        BY <1>1
      <4>. QED BY <3>1, <4>2, <4>3
    <3>. QED BY <1>1, <3>1, <3>2 DEF Coeff
  <2>. DEFINE y == L(u)[l]
              z == Pow(alpha, l) * RC(u)
  <2>2. y \in Int /\ z \in Int /\ e[x] = y * (z % Q) /\ f[x] = y * z
    <3>1. /\ y \in Int /\ RC(u) \in Int /\ Pow(alpha, l) \in Int
          /\ e[N * u + l] = y * (z % Q) /\ f[N * u + l] = y * z
      <4>. HIDE DEF u, l, e, f
      <4>. QED BY <1>3, <2>1
    <3>2. z \in Int
      BY <3>1
    <3>. HIDE DEF e, f, y, z, u, l
    <3>. QED BY <2>1, <3>1, <3>2
  <2>. HIDE DEF e, f, y, z
  <2>3. z % Q \in Int /\ ((z % Q) * y) % Q = (z * y) % Q
    BY <2>2, ModScale, ModSmall, FpInt
  <2>4. (z % Q) * y = y * (z % Q) /\ z * y = y * z /\ y * z \in Int /\ y * (z % Q) \in Int
    <3>. DEFINE zq == z % Q
    <3>1. zq \in Int
      BY <2>3
    <3>. HIDE DEF zq
    <3>2. zq * y = y * zq /\ z * y = y * z /\ y * z \in Int /\ y * zq \in Int
      BY <2>2, <3>1
    <3>. QED BY <3>2 DEF zq
  <2>. QED BY <2>2, <2>3, <2>4
<1>5. CubeSum(s, w, "alpha", << >>) = SumFunctionOnSet(e, D) % Q
  <2>1. << >> \in Seq(Fp) /\ Len(<< >>) = 0 /\ 0 <= M_ZERO
    BY <1>1
  <2>2. CubeSum(s, w, "alpha", << >>) = SumFunctionOnSet(Summand(s, w, "alpha", << >>), Rest(<< >>)) % Q
    BY <2>1, ClaimIs
  <2>3. Rest(<< >>) = D
    BY <1>1, <1>2 DEF Rest
  <2>. QED BY <2>2, <2>3
<1>6. SumFunctionOnSet(e, D) % Q = SumFunctionOnSet(f, D) % Q
  <2>. HIDE DEF e, f, D
  <2>. QED BY <1>2, <1>4, SumModEqual
<1>7. SumFunctionOnSet(f, D) = SumFunctionOnSet(r, U)
  <2>1. \A x \in D : f[x] \in Int
    BY <1>4
  <2>2. ASSUME NEW u \in U PROVE r[u] = SumFunctionOnSet([l \in 0 .. (N - 1) |-> f[N * u + l]], 0 .. (N - 1))
    <3>. DEFINE b == [l \in Coeff |-> f[N * u + l]]
                t == ValueTerms(alpha, L(u))
    <3>0. 0 \in Coeff
      BY CoeffFacts
    <3>1. RC(u) \in Int /\ L(u) \in Rq
      BY <1>3, <3>0
    <3>2. ASSUME NEW l \in Coeff PROVE t[l] \in Int /\ b[l] = RC(u) * t[l]
      <4>. DEFINE p == Pow(alpha, l)
                  y == L(u)[l]
                  R == RC(u)
      <4>1. y \in Int /\ p \in Int /\ R \in Int /\ f[N * u + l] = y * (p * R)
        BY <1>3
      <4>2. t[l] = y * p /\ b[l] = f[N * u + l]
        BY DEF ValueTerms
      <4>. HIDE DEF y, p, R, t, b, f
      <4>3. y * (p * R) = R * (y * p) /\ y * p \in Int
        BY <4>1
      <4>. QED BY <4>1, <4>2, <4>3 DEF R
    <3>3. r[u] = RC(u) * SumFunctionOnSet(t, Coeff)
      BY DEF ValueAt
    <3>. HIDE DEF b, t, r
    <3>4. SumFunctionOnSet(b, Coeff) = RC(u) * SumFunctionOnSet(t, Coeff)
      <4>. DEFINE R == RC(u)
      <4>1. R \in Int /\ \A l \in Coeff : t[l] \in Int /\ b[l] = R * t[l]
        BY <3>1, <3>2
      <4>. HIDE DEF R
      <4>2. SumFunctionOnSet(b, Coeff) = R * SumFunctionOnSet(t, Coeff)
        BY <4>1, CoeffFacts, SumScale
      <4>. QED BY <4>2 DEF R
    <3>. QED BY <3>3, <3>4 DEF b, Coeff
  <2>. HIDE DEF f, r
  <2>3. Blocks(N, H, f, r)
    BY <2>1, <2>2 DEF Blocks
  <2>. HIDE DEF N, H
  <2>4. SumFunctionOnSet(f, 0 .. (N * H - 1)) = SumFunctionOnSet(r, 0 .. (H - 1))
    BY <1>1, <2>3, SumByBlocks
  <2>. QED BY <2>4
<1>8. ASSUME NEW u \in U PROVE r[u] \in Int
  <2>0. 0 \in Coeff
    BY CoeffFacts
  <2>1. L(u) \in Rq /\ RC(u) \in Int
    BY <1>3, <2>0
  <2>2. ValueAt(alpha, L(u)) \in Int
    BY <1>1, <2>1, ValueIs
  <2>. QED BY <2>1, <2>2
<1>9. Columns \subseteq U
  BY <1>1 DEF Columns
<1>10. SumFunctionOnSet(r, U) = SumFunctionOnSet(r, Columns)
  <2>1. ASSUME NEW u \in U \ Columns PROVE r[u] = 0
    <3>1. u \in Nat /\ u >= LiftCols
      BY <1>1 DEF Columns
    <3>2. RC(u) = 0
      BY <1>1, <3>1, RowContractionType
    <3>3. L(u) \in Rq
      BY <3>1, LiftRowType
    <3>4. ValueAt(alpha, L(u)) \in Int
      BY <1>1, <3>3, ValueIs
    <3>5. r[u] = 0 * ValueAt(alpha, L(u))
      BY <3>2
    <3>. QED BY <3>4, <3>5
  <2>. HIDE DEF r, U
  <2>. QED BY <1>2, <1>8, <1>9, <2>1, SumSupport
<1>11. ASSUME NEW u \in Columns PROVE c[u] \in Int /\ r[u] % Q = c[u] % Q
  <2>0. 0 \in Coeff /\ u \in U
    BY CoeffFacts, <1>9
  <2>1. L(u) \in Rq /\ RC(u) \in Int
    BY <1>3, <2>0
  <2>. DEFINE v == ValueAt(alpha, L(u))
              x == EvalAt(alpha, L(u))
              R == RC(u)
  <2>2. v \in Int /\ x \in Int /\ x % Q = v % Q
    BY <1>1, <2>1, ValueIs
  <2>3. r[u] = R * v /\ c[u] = R * x
    BY <2>0 DEF ColumnTerms
  <2>4. R \in Int
    BY <2>1
  <2>. HIDE DEF v, x, R, r, c
  <2>5. (R * x) % Q = (R * v) % Q /\ R * x \in Int
    <3>1. R * x \in Int
      BY <2>2, <2>4
    <3>2. (R * x) % Q = (R * v) % Q
      BY <2>2, <2>4, ModTimes
    <3>. QED BY <3>1, <3>2
  <2>. QED BY <2>3, <2>5
<1>12. SumFunctionOnSet(r, Columns) % Q = SumFunctionOnSet(c, Columns) % Q
  <2>1. \A u \in Columns : r[u] \in Int
    BY <1>8, <1>9
  <2>. HIDE DEF r, c
  <2>. QED BY <1>11, <2>1, ColumnsAre, SumModEqual
<1>. HIDE DEF r, f, e
<1>. QED BY <1>5, <1>6, <1>7, <1>10, <1>11, <1>12 DEF c, alpha, tau1

(* The same sum, row by row.                                                *)
WeightedRows(alpha, tau1, w) == [i \in DOMAIN M |-> EqWeight(tau1, i) * AlphaContract(alpha, w, i)]

LEMMA ClaimByRows ==
  ASSUME NEW alpha \in Fp, NEW tau1 \in Seq(Fp), NEW w \in LiftedWitness
  PROVE  /\ \A i \in DOMAIN M : WeightedRows(alpha, tau1, w)[i] \in Int
         /\ SumFunctionOnSet(ColumnTerms(alpha, tau1, w), Columns) % Q
              = SumFunctionOnSet(WeightedRows(alpha, tau1, w), DOMAIN M) % Q
<1>. DEFINE I == DOMAIN M
            U == Columns
            E(u) == EvalAt(alpha, LiftRow(w, u))
            X(i) == EqWeight(tau1, i)
            A(i, u) == MAlpha(alpha, i, u)
            f == [u \in U |-> [i \in I |-> X(i) * (A(i, u) * E(u))]]
            g == [i \in I |-> [u \in U |-> X(i) * (A(i, u) * E(u))]]
            r == [u \in U |-> SumFunctionOnSet(f[u], I)]
            d == [i \in I |-> SumFunctionOnSet(g[i], U)]
            c == ColumnTerms(alpha, tau1, w)
            h == WeightedRows(alpha, tau1, w)
<1>1. IsFiniteSet(I) /\ IsFiniteSet(U)
  BY ColumnsAre
<1>2. ASSUME NEW i \in I, NEW u \in U
      PROVE  /\ i \in Nat /\ u \in Nat /\ X(i) \in Int /\ A(i, u) \in Int /\ E(u) \in Int
             /\ f[u][i] = X(i) * (A(i, u) * E(u)) /\ g[i][u] = f[u][i] /\ f[u][i] \in Int
  <2>1. i \in Nat /\ u \in Nat
    BY ColumnsAre
  <2>2. X(i) \in Int /\ A(i, u) \in Int
    BY <2>1, EqWeightInt, MAlphaInt
  <2>3. LiftRow(w, u) \in Rq
    BY <2>1, LiftRowType
  <2>4. E(u) \in Int
    BY <2>3, ValueIs
  <2>5. f[u][i] = X(i) * (A(i, u) * E(u)) /\ g[i][u] = f[u][i]
    OBVIOUS
  <2>6. X(i) * (A(i, u) * E(u)) \in Int
    <3>. HIDE DEF X, A, E
    <3>. QED BY <2>2, <2>4
  <2>. QED BY <2>1, <2>2, <2>4, <2>5, <2>6
<1>3. SumFunctionOnSet(r, U) = SumFunctionOnSet(d, I)
  <2>1. (\A u \in U, i \in I : f[u][i] \in Int) /\ (\A u \in U, i \in I : g[i][u] = f[u][i])
    BY <1>2
  <2>2. (\A u \in U : r[u] = SumFunctionOnSet(f[u], I)) /\ (\A i \in I : d[i] = SumFunctionOnSet(g[i], U))
    OBVIOUS
  <2>. HIDE DEF f, g, r, d, I, U
  <2>. QED BY <1>1, <2>1, <2>2, SumExchange
<1>4. ASSUME NEW u \in U PROVE r[u] \in Int /\ c[u] \in Int /\ r[u] % Q = c[u] % Q
  <2>. DEFINE t == [i \in I |-> X(i) * A(i, u)]
              fu == f[u]
              e == E(u)
              R == RowContraction(alpha, tau1, u)
              S == SumFunctionOnSet(t, I)
  <2>1. u \in Nat /\ e \in Int
    <3>1. u \in Nat
      BY ColumnsAre
    <3>2. LiftRow(w, u) \in Rq
      BY <3>1, LiftRowType
    <3>. QED BY <3>1, <3>2, ValueIs
  <2>2. ASSUME NEW i \in I PROVE t[i] \in Int /\ fu[i] = e * t[i]
    <3>. DEFINE x == X(i)
                a == A(i, u)
    <3>1. x \in Int /\ a \in Int /\ fu[i] = x * (a * e) /\ t[i] = x * a
      BY <1>2
    <3>. HIDE DEF x, a, e, fu, t
    <3>2. x * (a * e) = e * (x * a) /\ x * a \in Int
      BY <2>1, <3>1
    <3>. QED BY <3>1, <3>2
  <2>3. R = S % Q
    <3>1. R = SumFunction(t) % Q
      BY DEF RowContraction, Sigma
    <3>2. SumFunction(t) = SumFunctionOnSet(t, I)
      BY DEF SumFunction
    <3>. QED BY <3>1, <3>2
  <2>4. c[u] = R * e
    BY DEF ColumnTerms
  <2>5. r[u] = SumFunctionOnSet(fu, I)
    OBVIOUS
  <2>. HIDE DEF t, fu, e, c, r, R, I
  <2>6. r[u] = e * S /\ S \in Int
    BY <1>1, <2>1, <2>2, <2>5, SumScale, SumInt
  <2>. HIDE DEF S
  <2>7. R \in Int /\ R % Q = S % Q
    <3>1. S % Q \in Fp
      BY <2>6, ModSmall
    <3>. QED BY <2>3, <3>1, FpInt, ModSmall
  <2>8. (e * S) % Q = (e * R) % Q
    BY <2>1, <2>6, <2>7, ModTimes
  <2>9. e * S \in Int /\ e * R \in Int /\ e * R = R * e
    BY <2>1, <2>6, <2>7
  <2>. QED BY <2>4, <2>6, <2>8, <2>9
<1>5. ASSUME NEW i \in I PROVE d[i] \in Int /\ h[i] \in Int /\ d[i] % Q = h[i] % Q
  <2>. DEFINE t == RowTerms(alpha, w, i)
              gi == g[i]
              x == X(i)
              K == AlphaContract(alpha, w, i)
              S == SumFunctionOnSet(t, U)
  <2>1. i \in Nat /\ x \in Int
    <3>1. i \in Nat
      BY ColumnsAre
    <3>. QED BY <3>1, EqWeightInt
  <2>2. (\A u \in U : t[u] \in Int) /\ S \in Int /\ K = S % Q /\ K \in Fp
    BY ContractIs
  <2>3. ASSUME NEW u \in U PROVE t[u] \in Int /\ gi[u] = x * t[u]
    <3>1. gi[u] = x * (A(i, u) * E(u)) /\ t[u] = A(i, u) * E(u)
      BY DEF RowTerms
    <3>. QED BY <2>2, <3>1
  <2>4. h[i] = x * K
    BY DEF WeightedRows
  <2>5. d[i] = SumFunctionOnSet(gi, U)
    OBVIOUS
  <2>. HIDE DEF t, gi, x, h, d, K, U
  <2>6. d[i] = x * S
    BY <1>1, <2>1, <2>3, <2>5, SumScale
  <2>. HIDE DEF S
  <2>7. K \in Int /\ K % Q = S % Q
    BY <2>2, FpInt, ModSmall
  <2>8. (x * S) % Q = (x * K) % Q
    BY <2>1, <2>2, <2>7, ModTimes
  <2>9. x * S \in Int /\ x * K \in Int
    BY <2>1, <2>2, <2>7
  <2>. QED BY <2>4, <2>6, <2>8, <2>9
<1>6. SumFunctionOnSet(r, U) % Q = SumFunctionOnSet(c, U) % Q
  <2>. HIDE DEF r, c, U
  <2>. QED BY <1>1, <1>4, SumModEqual
<1>7. SumFunctionOnSet(d, I) % Q = SumFunctionOnSet(h, I) % Q
  <2>. HIDE DEF d, h, I
  <2>. QED BY <1>1, <1>5, SumModEqual
<1>. HIDE DEF r, d
<1>. QED BY <1>3, <1>5, <1>6, <1>7 DEF c, h

(* The weight of a row is the kernel's entry, and none past the cube.       *)
LEMMA EqWeightIsKernel ==
  ASSUME NEW tau1 \in Seq(Fp), NEW i \in Nat
  PROVE  /\ i \in 0 .. (Pow(2, Len(tau1)) - 1) => EqWeight(tau1, i) = Kernel(tau1)[i]
         /\ i \notin 0 .. (Pow(2, Len(tau1)) - 1) => EqWeight(tau1, i) = 0
<1>. DEFINE n == Len(tau1)
            P == Pow(2, n)
            s == [k \in 1 .. n |-> IF Bit(i, k) = 1 THEN tau1[k] ELSE 1 - tau1[k]]
<1>1. n \in Nat /\ P \in Nat
  BY TwoPow
<1>2. EqWeight(tau1, i) = IF i >= P THEN 0 ELSE Product(s)
  BY DEF EqWeight, Pi
<1>3. s = KernelFactors(tau1, i)
  <2>1. ASSUME NEW k \in 1 .. n
        PROVE  EqFactor(Bit(i, k), tau1[k]) = IF Bit(i, k) = 1 THEN tau1[k] ELSE 1 - tau1[k]
    <3>1. tau1[k] \in Int
      <4>1. tau1[k] \in Fp
        OBVIOUS
      <4>. QED BY <4>1, FpInt
    <3>2. Bit(i, k) = 0 \/ Bit(i, k) = 1
      <4>1. k \in Nat \ {0}
        OBVIOUS
      <4>2. Bit(i, k) \in 0 .. 1
        BY <4>1, BitType
      <4>. QED BY <4>2
    <3>3. EqFactor(0, tau1[k]) = 1 - tau1[k] /\ EqFactor(1, tau1[k]) = tau1[k]
      BY <3>1, EqFactorFacts
    <3>. QED BY <3>2, <3>3
  <2>. QED BY <2>1 DEF KernelFactors
<1>4. \A l \in 0 .. (P - 1) : Kernel(tau1)[l] = Product(KernelFactors(tau1, l))
  BY KernelIs
<1>. HIDE DEF s, P
<1>5. i \in 0 .. (P - 1) => EqWeight(tau1, i) = Kernel(tau1)[i]
  BY <1>1, <1>2, <1>3, <1>4
<1>6. i \notin 0 .. (P - 1) => EqWeight(tau1, i) = 0
  BY <1>1, <1>2
<1>. QED BY <1>5, <1>6 DEF P

LEMMA DefectIs ==
  ASSUME NEW alpha \in Fp, NEW w \in LiftedWitness, NEW i \in Nat
  PROVE  /\ HAlphaEvals(alpha, w, i) \in Fp
         /\ i \notin DOMAIN M => HAlphaEvals(alpha, w, i) = 0
         /\ i \in DOMAIN M =>
              /\ HAlphaEvals(alpha, w, i) = (AlphaContract(alpha, w, i) - EvalAt(alpha, Yvec[i])) % Q
              /\ AlphaContract(alpha, w, i) \in Int /\ EvalAt(alpha, Yvec[i]) \in Int
<1>1. HAlphaEvals(alpha, w, i) = IF i \in DOMAIN M THEN AlphaDefect(alpha, w, i) ELSE 0
  BY ColumnsAre DEF HAlphaEvals
<1>2. ASSUME i \in DOMAIN M
      PROVE  /\ AlphaDefect(alpha, w, i) = (AlphaContract(alpha, w, i) - EvalAt(alpha, Yvec[i])) % Q
             /\ AlphaDefect(alpha, w, i) \in Fp
             /\ AlphaContract(alpha, w, i) \in Int /\ EvalAt(alpha, Yvec[i]) \in Int
  <2>1. AlphaContract(alpha, w, i) \in Int
    BY <1>2, ContractIs, FpInt
  <2>2. Yvec[i] \in Rq
    BY <1>2, LiftShape
  <2>3. EvalAt(alpha, Yvec[i]) \in Int
    BY <2>2, ValueIs
  <2>4. AlphaContract(alpha, w, i) - EvalAt(alpha, Yvec[i]) \in Int
    BY <2>1, <2>3
  <2>. QED BY <2>1, <2>3, <2>4, ModSmall DEF AlphaDefect
<1>. QED BY <1>1, <1>2, ModulusFacts

(* The initial alpha claim is off by exactly the extended block.            *)
LEMMA AlphaClaim ==
  ASSUME NEW s \in Statements, NEW w \in LiftedWitness
  PROVE  (CubeSum(s, w, "alpha", << >>) - TargetAlpha(s.alpha, s.tau1)) % Q
           = MleEval(HAlpha(s.alpha, w, Len(s.tau1)), s.tau1)
<1>. DEFINE alpha == s.alpha
            tau1 == s.tau1
            m == Len(tau1)
            P == Pow(2, m)
            B == 0 .. (P - 1)
            I == DOMAIN M
            h == HAlpha(alpha, w, m)
            X(i) == EqWeight(tau1, i)
            Hi(i) == HAlphaEvals(alpha, w, i)
            g == [i \in Nat |-> X(i) * Hi(i)]
            c == WeightedRows(alpha, tau1, w)
            y == [i \in I |-> X(i) * EvalAt(alpha, Yvec[i])]
            d == [i \in I |-> c[i] - y[i]]
            cell == Cell(h, tau1, 0)
<1>1. alpha \in Fp /\ tau1 \in Seq(Fp)
  BY StatementIs
<1>. HIDE DEF alpha, tau1
<1>2. m \in Nat /\ P \in Nat \ {0} /\ IsFiniteSet(B) /\ B \subseteq Nat
  <2>1. m \in Nat
    BY <1>1
  <2>2. P \in Nat \ {0}
    BY <2>1, TwoPow
  <2>. HIDE DEF P
  <2>3. IsFiniteSet(B) /\ B \subseteq Nat
    BY <2>2, FS_Interval
  <2>. QED BY <2>1, <2>2, <2>3
<1>3. IsFiniteSet(I) /\ I \subseteq Nat
  BY ColumnsAre
<1>4. \A i \in Nat : X(i) \in Int /\ Hi(i) \in Fp /\ Hi(i) \in Int
  BY <1>1, EqWeightInt, DefectIs, FpInt
<1>5. \A i \in Nat : g[i] = X(i) * Hi(i) /\ g[i] \in Int
  <2>1. ASSUME NEW i \in Nat PROVE X(i) * Hi(i) \in Int
    <3>1. X(i) \in Int /\ Hi(i) \in Int
      BY <1>4
    <3>. HIDE DEF X, Hi
    <3>. QED BY <3>1
  <2>. QED BY <2>1
<1>6. h \in CubeTable(m) /\ \A i \in B : h[i] = Hi(i)
  <2>1. h = [i \in B |-> Hi(i)]
    BY TabulateIs DEF HAlpha
  <2>2. \A i \in B : Hi(i) \in Fp
    BY <1>2, <1>4
  <2>. HIDE DEF h, Hi
  <2>. QED BY <2>1, <2>2 DEF CubeTable, Table
<1>7. ASSUME NEW i \in B PROVE cell[i] = g[i]
  <2>1. i \in Nat /\ X(i) = Kernel(tau1)[i]
    BY <1>1, <1>2, EqWeightIsKernel
  <2>2. cell = [l \in 0 .. (P - 1) |-> h[0 * P + l] * Kernel(tau1)[l]]
    BY DEF Cell
  <2>. HIDE DEF cell, P, h
  <2>3. 0 * P + i = i
    BY <1>2, <2>1
  <2>4. cell[i] = h[0 * P + i] * Kernel(tau1)[i]
    BY <2>2
  <2>5. cell[i] = Hi(i) * X(i)
    BY <1>6, <2>1, <2>3, <2>4
  <2>6. Hi(i) * X(i) = X(i) * Hi(i)
    <3>1. Hi(i) \in Int /\ X(i) \in Int
      BY <1>4, <2>1
    <3>. HIDE DEF Hi, X
    <3>. QED BY <3>1
  <2>. QED BY <1>5, <2>1, <2>5, <2>6
<1>8. MleEval(h, tau1) = SumFunctionOnSet(cell, B) % Q
  <2>. HIDE DEF h
  <2>0. m <= m /\ m - m = 0
    BY <1>2
  <2>1. MleEval(h, tau1) = Bound(h, tau1)[0]
    BY <1>1, <1>2, <1>6, <2>0, MleIs
  <2>2. 0 \in 0 .. (Pow(2, m - Len(tau1)) - 1)
    BY <2>0, TwoPow
  <2>3. \A x \in 0 .. (Pow(2, m - Len(tau1)) - 1) :
          Bound(h, tau1)[x] = SumFunctionOnSet(Cell(h, tau1, x), 0 .. (Pow(2, Len(tau1)) - 1)) % Q
    BY <1>1, <1>2, <1>6, <2>0, BoundIs
  <2>. QED BY <2>1, <2>2, <2>3
<1>9. SumFunctionOnSet(cell, B) = SumFunctionOnSet(g, B)
  <2>. HIDE DEF cell, g, B
  <2>. QED BY <1>2, <1>7, SumEqual
<1>10. SumFunctionOnSet(g, B) = SumFunctionOnSet(g, I)
  <2>1. ASSUME NEW i \in (B \ I) \cup (I \ B) PROVE g[i] = 0
    <3>1. i \in Nat
      BY <1>2, <1>3
    <3>2. X(i) \in Int /\ Hi(i) \in Int /\ g[i] = X(i) * Hi(i)
      BY <1>4, <1>5, <3>1
    <3>3. i \notin I => Hi(i) = 0
      BY <1>1, <3>1, DefectIs
    <3>4. i \notin B => X(i) = 0
      BY <1>1, <3>1, EqWeightIsKernel
    <3>. DEFINE x == X(i)
                v == Hi(i)
    <3>5. x \in Int /\ v \in Int /\ (x = 0 \/ v = 0)
      BY <3>2, <3>3, <3>4
    <3>. HIDE DEF x, v
    <3>6. x * v = 0
      BY <3>5
    <3>. QED BY <3>2, <3>6 DEF x, v
  <2>2. \A i \in B \cup I : g[i] \in Int
    BY <1>2, <1>3, <1>5
  <2>. HIDE DEF g, B, I
  <2>. QED BY <1>2, <1>3, <2>1, <2>2, SumSameSupport
<1>11. ASSUME NEW i \in I
       PROVE  /\ c[i] \in Int /\ y[i] \in Int /\ d[i] \in Int /\ d[i] = c[i] - y[i]
              /\ g[i] \in Int /\ g[i] % Q = d[i] % Q
  <2>1. i \in Nat
    BY <1>3
  <2>. DEFINE x == X(i)
              a == AlphaContract(alpha, w, i)
              e == EvalAt(alpha, Yvec[i])
              v == Hi(i)
  <2>2. x \in Int /\ a \in Int /\ e \in Int /\ v = (a - e) % Q
    BY <1>1, <1>4, <2>1, DefectIs
  <2>3. c[i] = x * a /\ y[i] = x * e /\ d[i] = c[i] - y[i] /\ g[i] = x * v
    BY <2>1 DEF WeightedRows
  <2>. HIDE DEF x, a, e, v, c, y, d, g
  <2>4. x * a \in Int /\ x * e \in Int /\ a - e \in Int /\ x * (a - e) = x * a - x * e
    BY <2>2
  <2>5. v \in Int /\ v % Q = (a - e) % Q
    <3>1. (a - e) % Q \in Fp
      BY <2>4, ModSmall
    <3>. QED BY <2>2, <3>1, FpInt, ModSmall
  <2>6. (x * v) % Q = (x * (a - e)) % Q
    <3>. DEFINE b == a - e
    <3>1. b \in Int /\ v % Q = b % Q
      BY <2>4, <2>5
    <3>. HIDE DEF b
    <3>2. (x * v) % Q = (x * b) % Q
      BY <2>2, <2>5, <3>1, ModTimes
    <3>. QED BY <3>2 DEF b
  <2>7. x * v \in Int
    BY <2>2, <2>5
  <2>. QED BY <2>3, <2>4, <2>6, <2>7
<1>12. SumFunctionOnSet(g, I) % Q = SumFunctionOnSet(d, I) % Q
  <2>. HIDE DEF g, d, I
  <2>. QED BY <1>3, <1>11, SumModEqual
<1>13. /\ SumFunctionOnSet(d, I) = SumFunctionOnSet(c, I) - SumFunctionOnSet(y, I)
       /\ SumFunctionOnSet(c, I) \in Int /\ SumFunctionOnSet(y, I) \in Int
  <2>. HIDE DEF c, d, y, I
  <2>. QED BY <1>3, <1>11, SumDifference, SumInt
<1>14. TargetAlpha(alpha, tau1) = SumFunctionOnSet(y, I) % Q
  <2>1. TargetAlpha(alpha, tau1) = SumFunction(y) % Q
    BY DEF TargetAlpha, Sigma
  <2>2. SumFunction(y) = SumFunctionOnSet(y, I)
    BY DEF SumFunction
  <2>. QED BY <2>1, <2>2
<1>15. CubeSum(s, w, "alpha", << >>) = SumFunctionOnSet(c, I) % Q
  <2>1. CubeSum(s, w, "alpha", << >>) = SumFunctionOnSet(ColumnTerms(alpha, tau1, w), Columns) % Q
    BY ClaimByColumns DEF alpha, tau1
  <2>2. SumFunctionOnSet(ColumnTerms(alpha, tau1, w), Columns) % Q = SumFunctionOnSet(c, I) % Q
    BY <1>1, ClaimByRows
  <2>. QED BY <2>1, <2>2
<1>. DEFINE C == SumFunctionOnSet(c, I)
            Y == SumFunctionOnSet(y, I)
<1>16. ((C % Q) - (Y % Q)) % Q = (C - Y) % Q
  <2>1. C \in Int /\ Y \in Int
    BY <1>13
  <2>. HIDE DEF C, Y
  <2>. QED BY <2>1, ModDifference
<1>. HIDE DEF c, y, d, g, cell, h, I, B
<1>17. (CubeSum(s, w, "alpha", << >>) - TargetAlpha(alpha, tau1)) % Q = MleEval(h, tau1)
  BY <1>8, <1>9, <1>10, <1>12, <1>13, <1>14, <1>15, <1>16
<1>. QED BY <1>17 DEF h, alpha, tau1

-----------------------------------------------------------------------------
(* THE LIFT OF A SOLUTION AT ALPHA *)

(* A sum of ring elements, coefficient by coefficient, and of their values. *)
EntrySum(F, S, k)     == SumFunctionOnSet([x \in S |-> F[x][k]], S)
ValueSum(alpha, F, S) == SumFunctionOnSet([x \in S |-> EvalAt(alpha, F[x])], S)

LEMMA ValueOfSum ==
  ASSUME NEW alpha \in Fp, NEW S, IsFiniteSet(S), NEW F \in [S -> Rq], NEW r \in Rq,
         \A k \in Coeff : r[k] = EntrySum(F, S, k) % Q
  PROVE  /\ EvalAt(alpha, r) = ValueSum(alpha, F, S) % Q
         /\ \A x \in S : EvalAt(alpha, F[x]) \in Int
<1>. DEFINE Wt == [x \in S |-> 1]
            e == [x \in S |-> Wt[x] * EvalAt(alpha, F[x])]
            d == [x \in S |-> EvalAt(alpha, F[x])]
<1>1. Wt \in [S -> Int]
  OBVIOUS
<1>2. ASSUME NEW k \in Coeff
      PROVE  r[k] % Q = SumFunctionOnSet([x \in S |-> Wt[x] * F[x][k]], S) % Q
  <2>1. \A x \in S : F[x][k] \in Int
    BY RqInt
  <2>2. \A x \in S : Wt[x] * F[x][k] = F[x][k]
    BY <2>1
  <2>3. [x \in S |-> Wt[x] * F[x][k]] = [x \in S |-> F[x][k]]
    BY <2>2
  <2>4. r[k] % Q = r[k]
    BY RqInt
  <2>5. r[k] = SumFunctionOnSet([x \in S |-> F[x][k]], S) % Q
    BY DEF EntrySum
  <2>. QED BY <2>3, <2>4, <2>5
<1>3. \A x \in S : F[x] \in Rq /\ EvalAt(alpha, F[x]) \in Int
  BY ValueIs
<1>4. e = d
  <2>1. \A x \in S : Wt[x] * EvalAt(alpha, F[x]) = EvalAt(alpha, F[x])
    BY <1>3
  <2>. QED BY <2>1
<1>. HIDE DEF Wt
<1>5. EvalAt(alpha, r) = SumFunctionOnSet(e, S) % Q
  <2>1. \A k \in Coeff : r[k] % Q = Combination(Wt, F, S, k) % Q
    BY <1>2 DEF Combination
  <2>. HIDE DEF e
  <2>2. EvalAt(alpha, r) = SumFunctionOnSet(ValuesOf(alpha, Wt, F, S), S) % Q
    BY <1>1, <2>1, ValueOfCombination
  <2>. QED BY <2>2 DEF ValuesOf, e
<1>6. ValueSum(alpha, F, S) = SumFunctionOnSet(d, S)
  BY DEF ValueSum
<1>. HIDE DEF d, e
<1>. QED BY <1>3, <1>4, <1>5, <1>6

(* The columns of z and the columns of the digits.                          *)
ZColumns     == 0 .. (RlinCols - 1)
DigitColumns == { RlinCols + v : v \in 0 .. (GADGET_DIGITS * RlinRows - 1) }

LEMMA ColumnsSplit ==
  /\ ZColumns \cup DigitColumns = Columns /\ ZColumns \cap DigitColumns = {}
  /\ IsFiniteSet(ZColumns) /\ IsFiniteSet(DigitColumns)
<1>. DEFINE R == RlinCols
            K == GADGET_DIGITS * RlinRows
            L == LiftCols
<1>1. R \in Nat /\ K \in Nat /\ L = R + K
  <2>1. /\ RlinCols \in Nat /\ RlinRows \in Nat /\ GADGET_DIGITS \in Nat
        /\ LiftCols = RlinCols + RlinRows * GADGET_DIGITS
    BY LiftShape, GadgetAssumption
  <2>2. RlinRows * GADGET_DIGITS = GADGET_DIGITS * RlinRows /\ GADGET_DIGITS * RlinRows \in Nat
    BY <2>1
  <2>. QED BY <2>1, <2>2
<1>2. ZColumns = 0 .. (R - 1) /\ DigitColumns = { R + v : v \in 0 .. (K - 1) } /\ Columns = 0 .. (L - 1)
  BY DEF ZColumns, DigitColumns, Columns
<1>. HIDE DEF R, K, L
<1>3. ASSUME NEW x \in 0 .. (L - 1), x \notin 0 .. (R - 1) PROVE x \in { R + v : v \in 0 .. (K - 1) }
  <2>1. x - R \in 0 .. (K - 1) /\ x = R + (x - R)
    BY <1>1, <1>3
  <2>. QED BY <2>1
<1>4. ASSUME NEW v \in 0 .. (K - 1) PROVE R + v \in 0 .. (L - 1) /\ R + v \notin 0 .. (R - 1)
  BY <1>1
<1>5. \A x \in 0 .. (R - 1) : x \in 0 .. (L - 1)
  BY <1>1
<1>6. (0 .. (R - 1)) \cup { R + v : v \in 0 .. (K - 1) } = 0 .. (L - 1)
  BY <1>3, <1>4, <1>5
<1>7. (0 .. (R - 1)) \cap { R + v : v \in 0 .. (K - 1) } = {}
  BY <1>4
<1>8. IsFiniteSet(Columns)
  BY ColumnsAre
<1>9. ZColumns \subseteq Columns /\ DigitColumns \subseteq Columns
  BY <1>2, <1>6
<1>10. IsFiniteSet(ZColumns) /\ IsFiniteSet(DigitColumns)
  BY <1>8, <1>9, FS_Subset
<1>. QED BY <1>2, <1>6, <1>7, <1>10

(* A digit column, by row and digit.                                        *)
LEMMA DigitColumnIs ==
  ASSUME NEW w \in LiftedWitness, NEW alpha \in Fp, NEW i \in DOMAIN M,
         NEW j \in 0 .. (RlinRows - 1), NEW e \in Digit
  PROVE  LET u == RlinCols + (GADGET_DIGITS * j + e)
         IN  /\ GADGET_DIGITS * j + e \in 0 .. (GADGET_DIGITS * RlinRows - 1)
             /\ LiftRow(w, u) = RhoDigits(w.rho[j], e)
             /\ MAlpha(alpha, i, u) = IF j = i THEN (-Modulus(alpha) * BasePower[e]) % Q ELSE 0
<1>. DEFINE D == GADGET_DIGITS
            v == D * j + e
            u == RlinCols + v
<1>1. /\ D \in Nat \ {0} /\ RlinRows \in Nat /\ RlinCols \in Nat /\ LiftCols \in Nat
      /\ LiftCols = RlinCols + RlinRows * D
  BY LiftShape, GadgetAssumption
<1>2. j \in Nat /\ e \in 0 .. (D - 1)
  BY <1>1 DEF Digit
<1>3. v \in 0 .. (D * RlinRows - 1)
  <2>. HIDE DEF D
  <2>. QED BY <1>1, <1>2, BlockIndex
<1>4. v \div D = j /\ v % D = e
  <2>. HIDE DEF D
  <2>. QED BY <1>1, <1>2, SplitAt
<1>5. v \in Nat /\ v < RlinRows * D /\ D * RlinRows = RlinRows * D
  <2>. HIDE DEF v, D
  <2>1. D * RlinRows = RlinRows * D /\ D * RlinRows \in Nat
    BY <1>1
  <2>. QED BY <1>3, <2>1
<1>. HIDE DEF v
<1>6. u \in Nat /\ ~(u < RlinCols) /\ u - RlinCols = v /\ u < LiftCols
  <2>. HIDE DEF D
  <2>1. RlinRows * D \in Nat
    BY <1>1
  <2>. QED BY <1>1, <1>5, <2>1
<1>. HIDE DEF u
<1>7. LiftRow(w, u) = RhoDigits(w.rho[j], e)
  <2>1. LiftRow(w, u) = RhoDigits(w.rho[(u - RlinCols) \div D], (u - RlinCols) % D)
    BY <1>5, <1>6 DEF LiftRow
  <2>. QED BY <1>4, <1>6, <2>1
<1>8. MAlpha(alpha, i, u) = IF j = i THEN (-Modulus(alpha) * BasePower[e]) % Q ELSE 0
  <2>1. MAlpha(alpha, i, u) = IF (u - RlinCols) \div D = i
                              THEN (-Modulus(alpha) * BasePower[(u - RlinCols) % D]) % Q ELSE 0
    BY <1>6 DEF MAlpha
  <2>. QED BY <1>4, <1>6, <2>1
<1>. QED BY <1>3, <1>7, <1>8 DEF u, v

LEMMA RhoDigitsType ==
  ASSUME NEW r \in Rq, NEW e \in Digit
  PROVE  RhoDigits(r, e) \in Rq /\ \A k \in Coeff : RhoDigits(r, e)[k] = BalancedDigitAt(r[k], e)
<1>1. e \in Nat
  BY GadgetAssumption DEF Digit
<1>2. \A k \in Coeff : BalancedDigitAt(r[k], e) \in Fp
  BY <1>1, RqInt, BalancedType
<1>. QED BY <1>2 DEF RhoDigits, Rq

(* The digits of a quotient row at alpha, weighed by the base.              *)
LEMMA RhoAt ==
  ASSUME NEW alpha \in Fp, NEW r \in Rq
  PROVE  /\ \A e \in Digit : /\ BasePower[e] \in Int /\ EvalAt(alpha, RhoDigits(r, e)) \in Int
                             /\ BasePower[e] * EvalAt(alpha, RhoDigits(r, e)) \in Int
         /\ EvalAt(alpha, r)
              = SumFunctionOnSet([e \in Digit |-> BasePower[e] * EvalAt(alpha, RhoDigits(r, e))], Digit) % Q
<1>. DEFINE Wt == [e \in Digit |-> BasePower[e]]
            F == [e \in Digit |-> RhoDigits(r, e)]
            c == [e \in Digit |-> Wt[e] * EvalAt(alpha, F[e])]
            d == [e \in Digit |-> BasePower[e] * EvalAt(alpha, RhoDigits(r, e))]
<1>1. IsFiniteSet(Digit) /\ \A e \in Digit : e \in Nat
  BY GadgetAssumption, FS_Interval DEF Digit
<1>2. \A e \in Digit : BasePower[e] \in Int
  BY <1>1, BasePowerFacts
<1>3. \A e \in Digit : RhoDigits(r, e) \in Rq /\ EvalAt(alpha, RhoDigits(r, e)) \in Int
  BY RhoDigitsType, ValueIs
<1>4. Wt \in [Digit -> Int] /\ F \in [Digit -> Rq]
  BY <1>2, <1>3
<1>5. ASSUME NEW k \in Coeff
      PROVE  r[k] % Q = SumFunctionOnSet([e \in Digit |-> Wt[e] * F[e][k]], Digit) % Q
  <2>. DEFINE b == [e \in Digit |-> BalancedDigitAt(r[k], e) * BasePower[e]]
              a == [e \in Digit |-> Wt[e] * F[e][k]]
  <2>1. r[k] \in Fp /\ r[k] % Q = r[k]
    BY RqInt
  <2>2. ASSUME NEW e \in Digit PROVE a[e] = b[e]
    <3>1. BalancedDigitAt(r[k], e) \in Int
      BY <1>1, <2>1, BalancedType, FpInt
    <3>2. F[e][k] = BalancedDigitAt(r[k], e) /\ Wt[e] = BasePower[e]
      BY RhoDigitsType
    <3>. DEFINE x == BalancedDigitAt(r[k], e)
                y == BasePower[e]
    <3>3. x \in Int /\ y \in Int /\ a[e] = y * x /\ b[e] = x * y
      BY <1>2, <3>1, <3>2
    <3>. HIDE DEF x, y, a, b
    <3>. QED BY <3>3
  <2>3. SumFunction(b) % Q = r[k]
    BY <2>1, FullWidthAssumption, BalancedExact
  <2>4. SumFunction(b) = SumFunctionOnSet(b, Digit)
    BY DEF SumFunction
  <2>. HIDE DEF a, b
  <2>5. SumFunctionOnSet(a, Digit) = SumFunctionOnSet(b, Digit)
    BY <1>1, <2>2, SumEqual
  <2>. QED BY <2>1, <2>3, <2>4, <2>5 DEF a
<1>6. c = d
  OBVIOUS
<1>7. \A e \in Digit : BasePower[e] * EvalAt(alpha, RhoDigits(r, e)) \in Int
  BY <1>2, <1>3
<1>. HIDE DEF Wt, F
<1>8. EvalAt(alpha, r) = SumFunctionOnSet(c, Digit) % Q
  <2>1. \A k \in Coeff : r[k] % Q = Combination(Wt, F, Digit, k) % Q
    BY <1>5 DEF Combination
  <2>. HIDE DEF c
  <2>2. EvalAt(alpha, r) = SumFunctionOnSet(ValuesOf(alpha, Wt, F, Digit), Digit) % Q
    BY <1>1, <1>4, <2>1, ValueOfCombination
  <2>. QED BY <2>2 DEF ValuesOf, c
<1>. QED BY <1>2, <1>3, <1>6, <1>7, <1>8

LEMMA SumZero ==
  ASSUME NEW S, IsFiniteSet(S), NEW f, \A x \in S : f[x] = 0
  PROVE  SumFunctionOnSet(f, S) = 0
<1>1. SumFunctionOnSet(f, S) = Cardinality(S) * 0
  BY SumConstant
<1>2. Cardinality(S) \in Nat
  BY FS_CardinalityType
<1>. QED BY <1>1, <1>2

LEMMA ModulusInt ==
  ASSUME NEW alpha \in Fp
  PROVE  Modulus(alpha) \in Int
<1>1. Pow(alpha, RING_DEGREE) \in Int
  BY FpInt, RingAssumption, PowFacts
<1>. QED BY <1>1 DEF Modulus

(* The digit columns of row i are minus X^N + 1 times its quotient.         *)
LEMMA DigitColumnsAt ==
  ASSUME NEW w \in LiftedWitness, NEW alpha \in Fp, NEW i \in DOMAIN M
  PROVE  /\ w.rho[i] \in Rq
         /\ SumFunctionOnSet(RowTerms(alpha, w, i), DigitColumns) \in Int
         /\ SumFunctionOnSet(RowTerms(alpha, w, i), DigitColumns) % Q
              = (-Modulus(alpha) * EvalAt(alpha, w.rho[i])) % Q
<1>. DEFINE D == GADGET_DIGITS
            R == RlinRows
            K == D * R
            Vs == 0 .. (K - 1)
            J == 0 .. (R - 1)
            m == Modulus(alpha)
            t == RowTerms(alpha, w, i)
            shift == [v \in Vs |-> RlinCols + v]
            h == [v \in Vs |-> t[RlinCols + v]]
            b(j) == [e \in 0 .. (D - 1) |-> h[D * j + e]]
            r == [j \in J |-> SumFunctionOnSet(b(j), 0 .. (D - 1))]
            E(j, e) == EvalAt(alpha, RhoDigits(w.rho[j], e))
<1>1. D \in Nat \ {0} /\ R \in Nat /\ RlinCols \in Nat /\ K \in Nat /\ i \in J
  BY LiftShape, GadgetAssumption
<1>2. IsFiniteSet(Vs) /\ IsFiniteSet(J) /\ Digit = 0 .. (D - 1) /\ IsFiniteSet(Digit)
  <2>. HIDE DEF D, R, K
  <2>1. IsFiniteSet(Vs) /\ IsFiniteSet(J) /\ IsFiniteSet(0 .. (D - 1))
    <3>1. K - 1 \in Int /\ R - 1 \in Int /\ D - 1 \in Int /\ 0 \in Int
      BY <1>1
    <3>. QED BY <3>1, FS_Interval
  <2>. QED BY <2>1 DEF Digit, D
<1>3. \A j \in J : w.rho[j] \in Rq
  BY LiftShape, LiftedIs
<1>4. \A u \in Columns : t[u] \in Int
  BY ContractIs
<1>5. \A v \in Vs : RlinCols + v \in DigitColumns /\ RlinCols + v \in Columns
  <2>1. \A v \in Vs : RlinCols + v \in DigitColumns
    BY DEF DigitColumns
  <2>. QED BY <2>1, ColumnsSplit
<1>6. SumFunctionOnSet(h, Vs) = SumFunctionOnSet(t, DigitColumns)
  <2>1. \A x, y \in Vs : shift[x] = shift[y] => x = y
    <3>. HIDE DEF K
    <3>. QED BY <1>1
  <2>2. \A v \in Vs : t[shift[v]] \in Int /\ h[v] = t[shift[v]]
    BY <1>4, <1>5
  <2>3. { shift[v] : v \in Vs } = DigitColumns
    BY DEF DigitColumns
  <2>. HIDE DEF shift, h, t, Vs
  <2>4. SumFunctionOnSet(h, Vs) = SumFunctionOnSet(t, { shift[v] : v \in Vs })
    BY <1>2, <2>1, <2>2, SumReindex
  <2>. QED BY <2>3, <2>4
<1>7. \A v \in Vs : h[v] \in Int
  BY <1>4, <1>5
<1>8. ASSUME NEW j \in J, NEW e \in Digit
      PROVE  /\ b(j)[e] = (IF j = i THEN (-m * BasePower[e]) % Q ELSE 0) * E(j, e)
             /\ E(j, e) \in Int /\ BasePower[e] \in Int
  <2>. DEFINE v == D * j + e
              u == RlinCols + v
  <2>1. /\ v \in Vs
        /\ LiftRow(w, u) = RhoDigits(w.rho[j], e)
        /\ MAlpha(alpha, i, u) = IF j = i THEN (-Modulus(alpha) * BasePower[e]) % Q ELSE 0
    BY DigitColumnIs
  <2>2. u \in Columns
    BY <1>5, <2>1
  <2>3. b(j)[e] = h[v]
    BY <1>2
  <2>4. h[v] = t[u]
    BY <2>1
  <2>5. t[u] = MAlpha(alpha, i, u) * EvalAt(alpha, LiftRow(w, u))
    <3>. HIDE DEF u
    <3>. QED BY <2>2 DEF RowTerms
  <2>6. E(j, e) \in Int /\ BasePower[e] \in Int
    BY <1>3, RhoAt
  <2>. HIDE DEF u, v, t, h, b
  <2>. QED BY <2>1, <2>3, <2>4, <2>5, <2>6
<1>9. SumFunctionOnSet(h, Vs) = SumFunctionOnSet(r, J) /\ \A j \in J : r[j] \in Int
  <2>1. \A j \in J : r[j] = SumFunctionOnSet([e \in 0 .. (D - 1) |-> h[D * j + e]], 0 .. (D - 1))
    OBVIOUS
  <2>. HIDE DEF h, r
  <2>2. Blocks(D, R, h, r)
    BY <1>7, <2>1 DEF Blocks
  <2>. HIDE DEF D, R
  <2>. QED BY <1>1, <2>2, SumByBlocks
<1>10. ASSUME NEW j \in J, j # i PROVE r[j] = 0
  <2>. DEFINE bj == b(j)
  <2>1. ASSUME NEW e \in Digit PROVE bj[e] = 0
    <3>1. bj[e] = 0 * E(j, e) /\ E(j, e) \in Int
      BY <1>8, <1>10
    <3>. HIDE DEF bj, E
    <3>. QED BY <3>1
  <2>2. r[j] = SumFunctionOnSet(bj, 0 .. (D - 1))
    OBVIOUS
  <2>. HIDE DEF bj
  <2>3. SumFunctionOnSet(bj, Digit) = 0
    BY <1>2, <2>1, SumZero
  <2>. QED BY <1>2, <2>2, <2>3
<1>11. SumFunctionOnSet(r, J) = r[i]
  <2>1. r[i] \in Int /\ \A j \in J \ {i} : r[j] = 0
    BY <1>1, <1>9, <1>10
  <2>. HIDE DEF r, J
  <2>. QED BY <1>1, <1>2, <2>1, SumSingle
<1>12. r[i] % Q = (-m * EvalAt(alpha, w.rho[i])) % Q
  <2>. DEFINE bi == b(i)
              d == [e \in Digit |-> BasePower[e] * EvalAt(alpha, RhoDigits(w.rho[i], e))]
              c == [e \in Digit |-> -m * d[e]]
              S == SumFunctionOnSet(d, Digit)
              Z == EvalAt(alpha, w.rho[i])
  <2>1. m \in Int /\ -m \in Int
    BY ModulusInt
  <2>2. (\A e \in Digit : d[e] \in Int) /\ Z = S % Q
    BY <1>1, <1>3, RhoAt
  <2>3. ASSUME NEW e \in Digit PROVE bi[e] \in Int /\ c[e] \in Int /\ bi[e] % Q = c[e] % Q
    <3>. DEFINE x == -m * BasePower[e]
                y == E(i, e)
                p == BasePower[e]
    <3>1. bi[e] = (x % Q) * y /\ y \in Int /\ p \in Int
      BY <1>1, <1>8
    <3>2. c[e] = -m * (p * y)
      OBVIOUS
    <3>3. x = -m * p
      OBVIOUS
    <3>. HIDE DEF x, y, p, bi, c, m
    <3>4. x \in Int /\ x * y = -m * (p * y) /\ -m * (p * y) \in Int
      BY <2>1, <3>1, <3>3
    <3>5. ((x % Q) * y) % Q = (x * y) % Q
      BY <3>1, <3>4, ModScale
    <3>6. x % Q \in Int
      BY <3>4, ModSmall, FpInt
    <3>7. (x % Q) * y \in Int
      <4>. DEFINE xq == x % Q
      <4>1. xq \in Int
        BY <3>6
      <4>. HIDE DEF xq
      <4>2. xq * y \in Int
        BY <3>1, <4>1
      <4>. QED BY <4>2 DEF xq
    <3>. QED BY <3>1, <3>2, <3>4, <3>5, <3>7
  <2>4. r[i] = SumFunctionOnSet(bi, Digit)
    BY <1>1, <1>2
  <2>5. \A e \in Digit : c[e] = -m * d[e]
    OBVIOUS
  <2>. DEFINE n == -m
  <2>6. n \in Int /\ \A e \in Digit : d[e] \in Int /\ c[e] = n * d[e]
    BY <2>1, <2>2, <2>5
  <2>. HIDE DEF bi, c, d, r, n
  <2>7. SumFunctionOnSet(bi, Digit) % Q = SumFunctionOnSet(c, Digit) % Q
    BY <1>2, <2>3, SumModEqual
  <2>8. SumFunctionOnSet(c, Digit) = n * S
    BY <1>2, <2>6, SumScale
  <2>9. S \in Int
    BY <1>2, <2>2, SumInt
  <2>. HIDE DEF S, Z, m
  <2>10. Z \in Int /\ Z % Q = S % Q
    BY <2>2, <2>9, ModSmall, FpInt
  <2>11. (n * S) % Q = (n * Z) % Q
    BY <2>6, <2>9, <2>10, ModTimes
  <2>12. r[i] % Q = (n * Z) % Q
    BY <2>4, <2>7, <2>8, <2>11
  <2>13. n * Z = -(m * Z)
    <3>1. n = -m /\ m \in Int /\ Z \in Int
      BY <2>1, <2>10 DEF n
    <3>. HIDE DEF n
    <3>. QED BY <3>1
  <2>. QED BY <2>12, <2>13 DEF Z
<1>13. r[i] \in Int
  BY <1>1, <1>9
<1>. HIDE DEF h, r, Vs, J
<1>. QED BY <1>1, <1>3, <1>6, <1>9, <1>11, <1>12, <1>13 DEF t, m

(* The products of row i, reduced, and their high halves.                   *)
LowProducts(z, i)  == [u \in ZColumns |-> NegMul(M[i][u], z[u])]
HighProducts(z, i) == [u \in ZColumns |-> HighHalf(M[i][u], z[u])]
SumAt(alpha, F)    == ValueSum(alpha, F, ZColumns)

LEMMA ProductsType ==
  ASSUME NEW z \in [ZColumns -> Rq], NEW i \in DOMAIN M, NEW alpha \in Fp
  PROVE  /\ LowProducts(z, i) \in [ZColumns -> Rq] /\ HighProducts(z, i) \in [ZColumns -> Rq]
         /\ \A u \in ZColumns : /\ EvalAt(alpha, LowProducts(z, i)[u]) \in Int
                                /\ EvalAt(alpha, HighProducts(z, i)[u]) \in Int
         /\ SumAt(alpha, LowProducts(z, i)) \in Int /\ SumAt(alpha, HighProducts(z, i)) \in Int
<1>. DEFINE F == LowProducts(z, i)
            G == HighProducts(z, i)
            ef == [u \in ZColumns |-> EvalAt(alpha, F[u])]
            eg == [u \in ZColumns |-> EvalAt(alpha, G[u])]
<1>1. \A u \in ZColumns : M[i][u] \in Rq /\ z[u] \in Rq
  BY LiftShape DEF ZColumns
<1>2. F \in [ZColumns -> Rq] /\ G \in [ZColumns -> Rq]
  BY <1>1, ProductAt DEF LowProducts, HighProducts
<1>. HIDE DEF F, G
<1>3. \A u \in ZColumns : F[u] \in Rq /\ G[u] \in Rq
  BY <1>2
<1>4. \A u \in ZColumns : EvalAt(alpha, F[u]) \in Int /\ EvalAt(alpha, G[u]) \in Int
  BY <1>3, ValueIs
<1>5. (\A u \in ZColumns : ef[u] \in Int) /\ (\A u \in ZColumns : eg[u] \in Int)
  BY <1>4
<1>. HIDE DEF ef, eg
<1>6. SumFunctionOnSet(ef, ZColumns) \in Int /\ SumFunctionOnSet(eg, ZColumns) \in Int
  BY <1>5, ColumnsSplit, SumInt
<1>. QED BY <1>2, <1>4, <1>6 DEF F, G, ef, eg, SumAt, ValueSum

(* The columns of z of row i: the products, reduced and high.               *)
LEMMA ZColumnsAt ==
  ASSUME NEW w \in LiftedWitness, NEW alpha \in Fp, NEW i \in DOMAIN M
  PROVE  /\ SumFunctionOnSet(RowTerms(alpha, w, i), ZColumns) \in Int
         /\ SumFunctionOnSet(RowTerms(alpha, w, i), ZColumns) % Q
              = (SumAt(alpha, LowProducts(w.z, i)) + Modulus(alpha) * SumAt(alpha, HighProducts(w.z, i))) % Q
<1>. DEFINE U == ZColumns
            t == RowTerms(alpha, w, i)
            m == Modulus(alpha)
            F == LowProducts(w.z, i)
            G == HighProducts(w.z, i)
            f == [u \in U |-> EvalAt(alpha, F[u])]
            g == [u \in U |-> EvalAt(alpha, G[u])]
            mg == [u \in U |-> m * g[u]]
            d == [u \in U |-> f[u] + mg[u]]
<1>1. w.z \in [U -> Rq] /\ IsFiniteSet(U)
  BY LiftedZ, ColumnsSplit DEF ZColumns
<1>2. m \in Int
  BY ModulusInt
<1>3. \A u \in U : f[u] \in Int /\ g[u] \in Int
  BY <1>1, ProductsType
<1>4. ASSUME NEW u \in U
      PROVE  /\ mg[u] \in Int /\ mg[u] = m * g[u] /\ d[u] = f[u] + mg[u] /\ d[u] \in Int
             /\ t[u] \in Int /\ t[u] % Q = d[u] % Q
  <2>1. u \in Columns /\ u \in 0 .. (RlinCols - 1) /\ u < RlinCols
    BY ColumnsSplit, LiftShape DEF ZColumns
  <2>2. M[i][u] \in Rq /\ w.z[u] \in Rq
    BY <1>1, <2>1, LiftShape
  <2>3. MAlpha(alpha, i, u) = EvalAt(alpha, M[i][u]) /\ LiftRow(w, u) = w.z[u]
    BY <2>1 DEF MAlpha, LiftRow
  <2>. DEFINE a == EvalAt(alpha, M[i][u])
              b == EvalAt(alpha, w.z[u])
              x == f[u]
              y == g[u]
  <2>4. t[u] = a * b
    BY <2>1, <2>3 DEF RowTerms
  <2>5. a \in Int /\ b \in Int /\ (a * b) % Q = (x + m * y) % Q
    <3>1. F[u] = NegMul(M[i][u], w.z[u]) /\ G[u] = HighHalf(M[i][u], w.z[u])
      BY DEF LowProducts, HighProducts
    <3>2. x = EvalAt(alpha, NegMul(M[i][u], w.z[u])) /\ y = EvalAt(alpha, HighHalf(M[i][u], w.z[u]))
      BY <3>1
    <3>. HIDE DEF x, y
    <3>. QED BY <2>2, <3>2, ProductAt
  <2>6. mg[u] = m * y /\ d[u] = x + mg[u] /\ x \in Int /\ y \in Int
    BY <1>3
  <2>. HIDE DEF x, y, a, b, t, mg, d, m
  <2>7. m * y \in Int /\ a * b \in Int
    BY <1>2, <2>5, <2>6
  <2>. QED BY <2>4, <2>5, <2>6, <2>7 DEF x, y
<1>5. SumFunctionOnSet(t, U) % Q = SumFunctionOnSet(d, U) % Q /\ SumFunctionOnSet(t, U) \in Int
  <2>. HIDE DEF t, d, U
  <2>. QED BY <1>1, <1>4, SumModEqual, SumInt
<1>6. SumFunctionOnSet(mg, U) = m * SumFunctionOnSet(g, U)
  <2>. HIDE DEF mg, g, U, m, d
  <2>. QED BY <1>1, <1>2, <1>3, <1>4, SumScale
<1>7. SumFunctionOnSet(d, U) = SumFunctionOnSet(f, U) + SumFunctionOnSet(mg, U)
  <2>. HIDE DEF mg, f, g, U, m, d
  <2>. QED BY <1>1, <1>3, <1>4, SumPlus
<1>8. SumAt(alpha, F) = SumFunctionOnSet(f, U) /\ SumAt(alpha, G) = SumFunctionOnSet(g, U)
  BY DEF SumAt, ValueSum
<1>. HIDE DEF mg, d, f, g
<1>. QED BY <1>5, <1>6, <1>7, <1>8 DEF t, m, F, G, U

(* The sum of a row as reduced ring elements, and its quotient.             *)
LEMMA RowSumsAt ==
  ASSUME NEW z \in [ZColumns -> Rq], NEW alpha \in Fp, NEW i \in DOMAIN M, NEW y \in Rq,
         \A p \in Coeff : Sigma(LAMBDA u : NegMul(M[i][u], z[u])[p], DOMAIN M[i]) = y[p]
  PROVE  /\ EvalAt(alpha, y) = SumAt(alpha, LowProducts(z, i)) % Q
         /\ EvalAt(alpha, Quotient(z, i)) = SumAt(alpha, HighProducts(z, i)) % Q
<1>. DEFINE F == LowProducts(z, i)
            G == HighProducts(z, i)
            q == Quotient(z, i)
            U == ZColumns
<1>1. F \in [U -> Rq] /\ G \in [U -> Rq]
  BY ProductsType
<1>2. DOMAIN M[i] = U /\ IsFiniteSet(U)
  BY LiftShape, ColumnsSplit DEF ZColumns
<1>3. q \in Rq
  <2>1. z \in [0 .. (RlinCols - 1) -> Rq]
    BY DEF ZColumns
  <2>. QED BY <2>1, QuotientType
<1>4. ASSUME NEW p \in Coeff PROVE y[p] = SumFunctionOnSet([u \in U |-> F[u][p]], U) % Q
  <2>. DEFINE f == [u \in DOMAIN M[i] |-> NegMul(M[i][u], z[u])[p]]
  <2>1. y[p] = SumFunction(f) % Q
    BY DEF Sigma
  <2>2. f = [u \in U |-> F[u][p]]
    BY <1>2 DEF LowProducts
  <2>3. SumFunction([u \in U |-> F[u][p]]) = SumFunctionOnSet([u \in U |-> F[u][p]], U)
    BY DEF SumFunction
  <2>. HIDE DEF f, F
  <2>. QED BY <2>1, <2>2, <2>3
<1>5. ASSUME NEW p \in Coeff PROVE q[p] = SumFunctionOnSet([u \in U |-> G[u][p]], U) % Q
  <2>. DEFINE f == [u \in DOMAIN M[i] |-> HighHalf(M[i][u], z[u])[p]]
  <2>1. q = [k \in Coeff |-> Sigma(LAMBDA u : HighHalf(M[i][u], z[u])[k], DOMAIN M[i])]
    BY TabulateIs DEF Quotient
  <2>2. q[p] = SumFunction(f) % Q
    <3>. HIDE DEF q
    <3>. QED BY <2>1 DEF Sigma
  <2>3. f = [u \in U |-> G[u][p]]
    BY <1>2 DEF HighProducts
  <2>4. SumFunction([u \in U |-> G[u][p]]) = SumFunctionOnSet([u \in U |-> G[u][p]], U)
    BY DEF SumFunction
  <2>. HIDE DEF f, G, q
  <2>. QED BY <2>2, <2>3, <2>4
<1>. HIDE DEF F, G, q
<1>6. \A p \in Coeff : y[p] = EntrySum(F, U, p) % Q
  BY <1>4 DEF EntrySum
<1>7. \A p \in Coeff : q[p] = EntrySum(G, U, p) % Q
  BY <1>5 DEF EntrySum
<1>. HIDE DEF U
<1>8. EvalAt(alpha, y) = ValueSum(alpha, F, U) % Q
  BY <1>1, <1>2, <1>6, ValueOfSum
<1>9. EvalAt(alpha, q) = ValueSum(alpha, G, U) % Q
  BY <1>1, <1>2, <1>3, <1>7, ValueOfSum
<1>. QED BY <1>8, <1>9 DEF F, G, q, U, SumAt

LEMMA SolutionQuotient ==
  ASSUME NEW w \in LiftedWitness, w = HonestLift(w.z), NEW i \in DOMAIN M
  PROVE  w.rho[i] = Quotient(w.z, i)
<1>1. HonestLift(w.z).rho = [j \in DOMAIN M |-> Quotient(w.z, j)]
  BY TabulateIs DEF HonestLift
<1>2. w.rho = HonestLift(w.z).rho
  OBVIOUS
<1>. QED BY <1>1, <1>2

(* Row i of a solution has no defect at any alpha.                          *)
LEMMA SolutionDefect ==
  ASSUME NEW w \in LiftedWitness, SolutionLift(w), NEW alpha \in Fp, NEW i \in DOMAIN M
  PROVE  HAlphaEvals(alpha, w, i) = 0
<1>. DEFINE F == LowProducts(w.z, i)
            G == HighProducts(w.z, i)
            m == Modulus(alpha)
            q == EvalAt(alpha, w.rho[i])
            y == EvalAt(alpha, Yvec[i])
            A == AlphaContract(alpha, w, i)
            t == RowTerms(alpha, w, i)
            S == SumFunctionOnSet(t, ZColumns)
            T == SumFunctionOnSet(t, DigitColumns)
            L == SumAt(alpha, F)
            H == SumAt(alpha, G)
<1>1. w.z \in [ZColumns -> Rq] /\ i \in Nat /\ Yvec[i] \in Rq
  BY LiftedZ, LiftShape, ColumnsAre DEF ZColumns
<1>2. L \in Int /\ H \in Int
  BY <1>1, ProductsType
<1>3. y = L % Q /\ q = H % Q
  <2>1. \A p \in Coeff : Sigma(LAMBDA u : NegMul(M[i][u], w.z[u])[p], DOMAIN M[i]) = Yvec[i][p]
    BY DEF SolutionLift
  <2>2. /\ EvalAt(alpha, Yvec[i]) = SumAt(alpha, LowProducts(w.z, i)) % Q
        /\ EvalAt(alpha, Quotient(w.z, i)) = SumAt(alpha, HighProducts(w.z, i)) % Q
    BY <1>1, <2>1, RowSumsAt
  <2>3. w.rho[i] = Quotient(w.z, i)
    BY SolutionQuotient DEF SolutionLift
  <2>. QED BY <2>2, <2>3
<1>4. S \in Int /\ S % Q = (L + m * H) % Q
  BY ZColumnsAt
<1>5. T \in Int /\ T % Q = (-m * q) % Q
  BY DigitColumnsAt
<1>6. A = (S + T) % Q
  <2>1. A = SumFunctionOnSet(t, Columns) % Q /\ \A u \in Columns : t[u] \in Int
    BY ContractIs
  <2>. HIDE DEF t, A
  <2>2. \A u \in ZColumns \cup DigitColumns : t[u] \in Int
    BY <2>1, ColumnsSplit
  <2>3. SumFunctionOnSet(t, ZColumns \cup DigitColumns) = S + T
    BY <2>2, ColumnsSplit, SumDisjoint
  <2>. QED BY <2>1, <2>3, ColumnsSplit
<1>7. HAlphaEvals(alpha, w, i) = (A - y) % Q /\ A \in Int /\ y \in Int
  BY <1>1, DefectIs
<1>8. m \in Int /\ Q \in Nat \ {0}
  BY ModulusInt, RingAssumption
<1>. HIDE DEF F, G, m, q, y, A, t, S, T, L, H
<1>9. q \in Int /\ q % Q = H % Q
  BY <1>2, <1>3, <1>8, ModSmall, FpInt
<1>10. (m * q) % Q = (m * H) % Q
  BY <1>2, <1>8, <1>9, ModTimes
<1>. DEFINE a == m * H
            b == m * q
<1>11. a \in Int /\ b \in Int /\ T % Q = (-b) % Q /\ S % Q = (L + a) % Q /\ b % Q = a % Q
  <2>1. a \in Int /\ b \in Int
    BY <1>2, <1>8, <1>9
  <2>2. -m * q = -b
    BY <1>8, <1>9
  <2>. QED BY <1>4, <1>5, <1>10, <2>1, <2>2
<1>. HIDE DEF a, b
<1>12. (S + T) % Q = L % Q
  <2>1. -b \in Int /\ L + a \in Int
    BY <1>2, <1>11
  <2>2. (S + T) % Q = ((L + a) + (-b)) % Q
    <3>. DEFINE c == -b
                d == L + a
    <3>1. c \in Int /\ d \in Int /\ S \in Int /\ T \in Int
      BY <1>4, <1>5, <2>1
    <3>2. S % Q = d % Q
      BY <1>11
    <3>3. T % Q = c % Q
      BY <1>11
    <3>. HIDE DEF c, d
    <3>4. (S + T) % Q = (d + c) % Q
      BY <3>1, <3>2, <3>3, ModSum
    <3>. QED BY <3>4 DEF c, d
  <2>3. (L + a) + (-b) = (L + a) - b /\ (L + a) - a = L
    BY <1>2, <1>11
  <2>4. ((L + a) - b) % Q = ((L + a) - a) % Q
    BY <1>11, <2>1, ModSum
  <2>. QED BY <2>2, <2>3, <2>4
<1>13. A = y
  BY <1>3, <1>6, <1>12
<1>14. A - y = 0 /\ 0 % Q = 0
  BY <1>7, <1>8, <1>13
<1>. QED BY <1>7, <1>14

LEMMA SolutionAlpha ==
  ASSUME NEW w \in LiftedWitness, SolutionLift(w), NEW alpha \in Fp, NEW m \in Nat
  PROVE  HAlphaIsZero(alpha, w, m)
<1>. SUFFICES ASSUME NEW i \in 0 .. (Pow(2, m) - 1) PROVE HAlphaEvals(alpha, w, i) = 0
  BY DEF HAlphaIsZero
<1>1. i \in Nat
  <2>1. Pow(2, m) \in Nat
    BY TwoPow
  <2>. QED BY <2>1
<1>2. i \in DOMAIN M => HAlphaEvals(alpha, w, i) = 0
  BY SolutionDefect
<1>3. i \notin DOMAIN M => HAlphaEvals(alpha, w, i) = 0
  BY <1>1, DefectIs
<1>. QED BY <1>2, <1>3

(* What the two sides of the sumcheck claim is what the statement says, and *)
(* the lift of a solution satisfies both (h_zero, h_alpha,                  *)
(* nested_to_round_statement, honest_lift_witness).                         *)
THEOREM SolutionCorrect == Spec => []SolutionClaims
<1>1. ProverInv => SolutionClaims
  <2>. SUFFICES ASSUME ProverInv PROVE SolutionClaims
    OBVIOUS
  <2>1. wit \in LiftedWitness /\ stmt \in Statements
    BY DEF ProverInv
  <2>2. stmt.alpha \in Fp /\ Len(stmt.tau1) \in Nat
    BY <2>1, StatementIs
  <2>3. CubeSum(stmt, wit, "zero", << >>) = MleEval(HZero(wit), stmt.tau0)
    BY <2>1, RangeClaim
  <2>4. (CubeSum(stmt, wit, "alpha", << >>) - TargetAlpha(stmt.alpha, stmt.tau1)) % Q
          = MleEval(HAlpha(stmt.alpha, wit, Len(stmt.tau1)), stmt.tau1)
    BY <2>1, AlphaClaim
  <2>5. ASSUME SolutionLift(wit) PROVE HZeroIsZero(wit) /\ HAlphaIsZero(stmt.alpha, wit, Len(stmt.tau1))
    <3>1. \A u \in DOMAIN wit.z, k \in Coeff : Magnitude(wit.z[u][k]) <= CHAIN_GAMMA
      BY <2>5 DEF SolutionLift
    <3>2. HZeroIsZero(wit)
      BY <2>1, <3>1, SolutionShort
    <3>. QED BY <2>1, <2>2, <2>5, <3>2, SolutionAlpha
  <2>. QED BY <2>3, <2>4, <2>5 DEF SolutionClaims
<1>. QED BY <1>1, ChainRefines, PTL

(* The extension of a table of zeros is zero.                               *)
LEMMA MleZero ==
  ASSUME NEW k \in Nat, NEW t \in CubeTable(k), NEW p \in Seq(Fp), Len(p) = k,
         \A i \in 0 .. (Pow(2, k) - 1) : t[i] = 0
  PROVE  MleEval(t, p) = 0
<1>. DEFINE P == Pow(2, Len(p))
            I == 0 .. (P - 1)
            c == Cell(t, p, 0)
<1>1. P \in Nat \ {0} /\ P = Pow(2, k) /\ Pow(2, k - Len(p)) = 1
  <2>1. k - Len(p) = 0
    OBVIOUS
  <2>. QED BY <2>1, TwoPow
<1>2. IsFiniteSet(I)
  BY <1>1, FS_Interval
<1>3. ASSUME NEW l \in I PROVE c[l] = 0
  <2>1. c = [x \in 0 .. (P - 1) |-> t[0 * P + x] * Kernel(p)[x]]
    BY DEF Cell
  <2>2. Kernel(p)[l] \in Int
    BY KernelIs
  <2>3. t[l] = 0
    BY <1>1
  <2>. HIDE DEF c, P
  <2>4. 0 * P + l = l
    BY <1>1
  <2>5. c[l] = t[l] * Kernel(p)[l]
    BY <2>1, <2>4
  <2>. QED BY <2>2, <2>3, <2>5
<1>4. SumFunctionOnSet(c, I) = 0
  <2>. HIDE DEF c, I
  <2>. QED BY <1>2, <1>3, SumZero
<1>5. MleEval(t, p) = Bound(t, p)[0]
  BY MleIs
<1>6. Bound(t, p)[0] = SumFunctionOnSet(c, I) % Q
  <2>1. 0 \in 0 .. (Pow(2, k - Len(p)) - 1)
    BY <1>1
  <2>2. \A x \in 0 .. (Pow(2, k - Len(p)) - 1) :
          Bound(t, p)[x] = SumFunctionOnSet(Cell(t, p, x), 0 .. (Pow(2, Len(p)) - 1)) % Q
    BY BoundIs
  <2>. QED BY <2>1, <2>2
<1>7. 0 % Q = 0
  BY RingAssumption
<1>. QED BY <1>4, <1>5, <1>6, <1>7

(* Both claims of a solution are true.                                      *)
LEMMA SolutionTrue ==
  ASSUME NEW s \in Statements, NEW w \in LiftedWitness, SolutionLift(w), NEW side \in {"zero", "alpha"}
  PROVE  CubeSum(s, w, side, << >>) = InitialTarget(s, side)
<1>. DEFINE n == Len(s.tau1)
            h == HAlpha(s.alpha, w, n)
            X == CubeSum(s, w, "alpha", << >>)
            Y == TargetAlpha(s.alpha, s.tau1)
<1>1. /\ s.alpha \in Fp /\ s.tau1 \in Seq(Fp) /\ n \in Nat /\ M_ZERO \in Nat
      /\ s.tau0 \in [1 .. M_ZERO -> Fp]
  BY StatementIs
<1>2. CubeSum(s, w, "zero", << >>) = 0
  <2>1. \A u \in DOMAIN w.z, k \in Coeff : Magnitude(w.z[u][k]) <= CHAIN_GAMMA
    BY DEF SolutionLift
  <2>2. HZeroIsZero(w)
    BY <2>1, SolutionShort
  <2>3. HZero(w) \in CubeTable(M_ZERO) /\ DOMAIN HZero(w) = 0 .. (Pow(2, M_ZERO) - 1)
    BY HZeroType
  <2>4. \A i \in 0 .. (Pow(2, M_ZERO) - 1) : HZero(w)[i] = 0
    BY <2>2, <2>3 DEF HZeroIsZero
  <2>5. s.tau0 \in Seq(Fp) /\ Len(s.tau0) = M_ZERO
    BY <1>1
  <2>6. MleEval(HZero(w), s.tau0) = 0
    BY <1>1, <2>3, <2>4, <2>5, MleZero
  <2>. QED BY <2>6, RangeClaim
<1>3. X = Y
  <2>1. HAlphaIsZero(s.alpha, w, n)
    BY <1>1, SolutionAlpha
  <2>2. h = [i \in 0 .. (Pow(2, n) - 1) |-> HAlphaEvals(s.alpha, w, i)]
    BY TabulateIs DEF HAlpha
  <2>3. \A i \in 0 .. (Pow(2, n) - 1) : HAlphaEvals(s.alpha, w, i) = 0
    BY <2>1 DEF HAlphaIsZero
  <2>4. 0 \in Fp
    BY RingAssumption DEF Fp
  <2>5. h \in CubeTable(n) /\ \A i \in 0 .. (Pow(2, n) - 1) : h[i] = 0
    <3>. HIDE DEF h, n
    <3>. QED BY <2>2, <2>3, <2>4 DEF CubeTable, Table
  <2>6. MleEval(h, s.tau1) = 0
    <3>. HIDE DEF h
    <3>. QED BY <1>1, <2>5, MleZero
  <2>7. (X - Y) % Q = 0
    BY <2>6, AlphaClaim
  <2>8. Y \in Fp
    BY <1>1, TargetType
  <2>9. X \in Fp
    <3>. DEFINE C == SumFunctionOnSet(ColumnTerms(s.alpha, s.tau1, w), Columns)
    <3>1. X = C % Q
      BY ClaimByColumns
    <3>2. C \in Int
      BY ClaimByColumns, ColumnsAre, SumInt
    <3>. HIDE DEF C, X
    <3>. QED BY <3>1, <3>2, ModSmall
  <2>. HIDE DEF X, Y
  <2>10. Q \in Nat \ {0} /\ X \in 0 .. (Q - 1) /\ Y \in 0 .. (Q - 1)
    BY <2>8, <2>9, RingAssumption DEF Fp
  <2>11. X >= Y => X - Y \in 0 .. (Q - 1)
    BY <2>10
  <2>12. X < Y => (X - Y) + Q \in 1 .. (Q - 1) /\ ((X - Y) + Q) % Q = (X - Y) % Q
    <3>1. X - Y \in Int
      BY <2>10
    <3>2. ((X - Y) + Q) % Q = (X - Y) % Q
      <4>. DEFINE d == X - Y
      <4>1. d \in Int
        BY <3>1
      <4>. HIDE DEF d
      <4>2. (d + Q) % Q = (d + (Q % Q)) % Q
        <5>1. Q \in Int
          BY <2>10
        <5>. QED BY <4>1, <5>1, ModAdd
      <4>3. Q % Q = 0 /\ d + 0 = d
        BY <2>10, <4>1
      <4>. QED BY <4>2, <4>3 DEF d
    <3>. QED BY <2>10, <3>2
  <2>13. \A x \in 0 .. (Q - 1) : x % Q = x
    BY <2>10
  <2>. QED BY <2>7, <2>10, <2>11, <2>12, <2>13
<1>4. CASE side = "zero"
  BY <1>2, <1>4 DEF InitialTarget
<1>5. CASE side = "alpha"
  BY <1>3, <1>5 DEF InitialTarget
<1>. QED BY <1>4, <1>5

(* The composed chain accepts the honest run of a solution (chain_open      *)
(* against chain_verify).                                                   *)
THEOREM SolutionIsAccepted == Spec => []SolutionAccepted
<1>1. W!Spec => []W!Completeness
  BY W!CompletenessCorrect, VerifierFacts, SumFacts
<1>2. ProverInv /\ W!Completeness => SolutionAccepted
  <2>. SUFFICES ASSUME ProverInv, W!Completeness, SolutionLift(wit), V!Honest(wit), verdict = "reject"
                PROVE  closing # << >> /\ closing # <<WTableEval(wit, challenges), wit>>
    BY DEF SolutionAccepted
  <2>1. wit \in LiftedWitness /\ stmt \in Statements /\ com = LiftCommit(wit)
    BY DEF ProverInv
  <2>2. W!Honest(wit)
    BY DEF W!Honest, V!Honest, W!HonestAt, V!HonestAt, W!SumAt, V!SumAt, W!Prefix, V!Prefix, W!Side, V!Side
  <2>3. \A side \in W!Side : W!TrueClaim(wit, side)
    BY <2>1, SolutionTrue DEF W!Side, W!TrueClaim
  <2>4. BoundHolds(stmt)
    BY <2>1, BoundAssumption
  <2>5. LiftShort(wit)
    BY <2>1, SolutionShort DEF SolutionLift
  <2>. QED BY <2>1, <2>2, <2>3, <2>4, <2>5 DEF W!Completeness
<1>. QED BY <1>1, <1>2, ChainRefines, PTL
=============================================================================
