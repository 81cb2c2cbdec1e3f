----------------------------- MODULE WordProofs -----------------------------
(***************************************************************************)
(* Numbers that must not outgrow their room.  The word arithmetic of the   *)
(* transforms, for every modulus: the conditional subtractions, both       *)
(* reductions and the three reconstructions give what the remainder and    *)
(* the number they stand for are.  The raw lanes of the range side, for    *)
(* every modulus, base, word size, period and table length: a lane never   *)
(* exceeds what the pairs since the last reduction allow, so no addition   *)
(* wraps, and every pair changes every coefficient by exactly its term.    *)
(* The fold of unsigned digits never outgrows its bound, so that the       *)
(* bounded digits of the response lie in their box and recompose it.       *)
(***************************************************************************)
EXTENDS LaneFlush, ZResponse, ModArith, GadgetProofs

-----------------------------------------------------------------------------
(* Remainders. *)

(* A remainder is determined by any quotient that leaves it in range.       *)
LEMMA ModUnique ==
  ASSUME NEW p \in Nat \ {0}, NEW d \in Int, NEW r \in 0 .. (p - 1)
  PROVE  (p * d + r) % p = r
<1>. DEFINE x == p * d + r
            D == x \div p
            R == x % p
<1>1. x \in Int
  OBVIOUS
<1>2. D \in Int /\ R \in 0 .. (p - 1) /\ x = p * D + R
  BY <1>1
<1>3. x = p * d + r
  OBVIOUS
<1>. HIDE DEF x, D, R
<1>. DEFINE k == d - D
<1>4. k \in Int /\ p * k = R - r
  BY <1>2, <1>3
<1>. HIDE DEF k
<1>5. ~(k >= 1)
  <2>1. SUFFICES ASSUME k >= 1 PROVE FALSE
    OBVIOUS
  <2>2. p * k >= p * 1
    BY <1>4, <2>1
  <2>. QED BY <1>2, <1>4, <2>2
<1>6. ~(k <= -1)
  <2>1. SUFFICES ASSUME k <= -1 PROVE FALSE
    OBVIOUS
  <2>2. p * k <= p * (-1)
    BY <1>4, <2>1
  <2>. QED BY <1>2, <1>4, <2>2
<1>7. k = 0
  BY <1>4, <1>5, <1>6
<1>8. R = r
  BY <1>2, <1>4, <1>7
<1>. QED BY <1>8 DEF R, x

(* A number is its quotient and remainder.                                  *)
LEMMA DivMod ==
  ASSUME NEW x \in Int, NEW p \in Nat \ {0}
  PROVE  /\ x \div p \in Int /\ x % p \in 0 .. (p - 1)
         /\ x = p * (x \div p) + (x % p)
OBVIOUS

(* Multiples of the modulus do not change a remainder.                      *)
LEMMA ModShifted ==
  ASSUME NEW p \in Nat \ {0}, NEW x \in Int, NEW n \in Int
  PROVE  (x + p * n) % p = x % p
<1>. DEFINE d == x \div p
            r == x % p
<1>1. d \in Int /\ r \in 0 .. (p - 1) /\ x = p * d + r
  BY DivMod
<1>. HIDE DEF d, r
<1>2. x + p * n = p * (d + n) + r /\ d + n \in Int
  BY <1>1
<1>3. (p * (d + n) + r) % p = r
  BY <1>1, <1>2, ModUnique
<1>. QED BY <1>2, <1>3 DEF r

(* A quotient of a number below a product.                                  *)
LEMMA DivBelow ==
  ASSUME NEW p \in Nat \ {0}, NEW n \in Nat, NEW x \in 0 .. (p * n - 1)
  PROVE  x \div p \in 0 .. (n - 1)
<1>. DEFINE d == x \div p
            r == x % p
<1>1. p * n \in Nat /\ x \in Nat /\ x < p * n
  OBVIOUS
<1>2. d \in Int /\ r \in 0 .. (p - 1) /\ x = p * d + r
  BY <1>1, DivMod
<1>. HIDE DEF d, r
<1>3. d >= 0
  <2>1. SUFFICES ASSUME d <= -1 PROVE FALSE
    BY <1>2
  <2>2. p * d <= p * (-1)
    BY <1>2, <2>1
  <2>. QED BY <1>1, <1>2, <2>2
<1>4. d < n
  <2>1. SUFFICES ASSUME d >= n PROVE FALSE
    BY <1>2
  <2>2. p * d >= p * n
    BY <1>2, <2>1
  <2>. QED BY <1>1, <1>2, <2>2
<1>. QED BY <1>2, <1>3, <1>4 DEF d

-----------------------------------------------------------------------------
(* SUMS AND DIFFERENCES *)

(* aux_add and gold_add: one conditional subtraction is the remainder.      *)
THEOREM AddExact ==
  ASSUME NEW p \in Nat \ {0}, NEW a \in 0 .. (p - 1), NEW b \in 0 .. (p - 1)
  PROVE  AddMod(a, b, p) = (a + b) % p
<1>1. CASE a + b >= p
  <2>1. a + b = p * 1 + (a + b - p) /\ a + b - p \in 0 .. (p - 1)
    BY <1>1
  <2>2. (p * 1 + (a + b - p)) % p = a + b - p
    BY <2>1, ModUnique
  <2>. QED BY <1>1, <2>1, <2>2 DEF AddMod
<1>2. CASE a + b < p
  <2>1. a + b = p * 0 + (a + b) /\ a + b \in 0 .. (p - 1)
    BY <1>2
  <2>2. (p * 0 + (a + b)) % p = a + b
    BY <2>1, ModUnique
  <2>. QED BY <1>2, <2>1, <2>2 DEF AddMod
<1>. QED BY <1>1, <1>2

(* aux_sub and gold_sub.                                                    *)
THEOREM SubExact ==
  ASSUME NEW p \in Nat \ {0}, NEW a \in 0 .. (p - 1), NEW b \in 0 .. (p - 1)
  PROVE  SubMod(a, b, p) = (a - b) % p
<1>1. CASE a >= b
  <2>1. a - b = p * 0 + (a - b) /\ a - b \in 0 .. (p - 1)
    BY <1>1
  <2>2. (p * 0 + (a - b)) % p = a - b
    BY <2>1, ModUnique
  <2>. QED BY <1>1, <2>1, <2>2 DEF SubMod
<1>2. CASE a < b
  <2>1. a - b = p * (-1) + (a + p - b) /\ a + p - b \in 0 .. (p - 1)
    BY <1>2
  <2>2. (p * (-1) + (a + p - b)) % p = a + p - b
    BY <2>1, ModUnique
  <2>. QED BY <1>2, <2>1, <2>2 DEF SubMod
<1>. QED BY <1>1, <1>2

-----------------------------------------------------------------------------
(* REDUCTIONS *)

(* aux_reduce: with m the quotient of the scale by p, the estimate is at    *)
(* most one short of the quotient of every x below the scale, so one        *)
(* conditional subtraction leaves the remainder (ntt.rs, aux_reduce).       *)
THEOREM AuxReduceExact ==
  ASSUME NEW p \in Nat \ {0}, NEW scale \in Nat \ {0}, NEW x \in 0 .. (scale - 1)
  PROVE  AuxReduce(x, p, scale \div p, scale) = x % p
<1>. DEFINE m == scale \div p
            s == scale % p
            e == (x * m) \div scale
            t == (x * m) % scale
            r == x - e * p
<1>1. m \in Int /\ s \in 0 .. (p - 1) /\ scale = p * m + s
  BY DivMod
<1>2. x * m \in Int
  BY <1>1
<1>3. e \in Int /\ t \in 0 .. (scale - 1) /\ x * m = scale * e + t
  <2>. HIDE DEF m
  <2>. QED BY <1>2, DivMod
<1>4. r = x - e * p /\ r \in Int
  BY <1>3
<1>. HIDE DEF m, s, e, t, r
<1>5. scale * r = p * t + x * s
  <2>1. scale * r = scale * x - (scale * e) * p
    BY <1>3, <1>4
  <2>2. (scale * e) * p = (x * m) * p - t * p
    BY <1>2, <1>3
  <2>3. scale * x = (p * m) * x + s * x
    BY <1>1
  <2>4. (x * m) * p = (p * m) * x /\ t * p = p * t /\ s * x = x * s
    BY <1>1, <1>3
  <2>5. /\ scale * x \in Int /\ (scale * e) * p \in Int /\ (x * m) * p \in Int
        /\ t * p \in Int /\ s * x \in Int
    BY <1>1, <1>3
  <2>. QED BY <2>1, <2>2, <2>3, <2>4, <2>5
<1>6. r >= 0
  <2>1. p * t >= 0 /\ x * s >= 0 /\ p * t \in Int /\ x * s \in Int
    BY <1>1, <1>3
  <2>2. scale * r >= 0
    BY <1>5, <2>1
  <2>3. SUFFICES ASSUME r <= -1 PROVE FALSE
    BY <1>4
  <2>4. scale * r <= scale * (-1)
    BY <1>4, <2>3
  <2>. QED BY <1>4, <2>2, <2>4
<1>7. r < 2 * p
  <2>1. p * t <= p * (scale - 1)
    BY <1>3
  <2>2. x * s <= x * p
    BY <1>1
  <2>3. x * p <= (scale - 1) * p
    OBVIOUS
  <2>4. /\ p * t \in Int /\ x * s \in Int /\ x * p \in Int
        /\ (scale - 1) * p = scale * p - p /\ p * (scale - 1) = scale * p - p
        /\ scale * p \in Int
    BY <1>1, <1>3
  <2>5. scale * r < 2 * (scale * p)
    BY <1>5, <2>1, <2>2, <2>3, <2>4
  <2>6. SUFFICES ASSUME r >= 2 * p PROVE FALSE
    BY <1>4
  <2>7. scale * r >= scale * (2 * p)
    BY <1>4, <2>6
  <2>8. scale * (2 * p) = 2 * (scale * p) /\ scale * r \in Int
    BY <1>4
  <2>. QED BY <2>4, <2>5, <2>7, <2>8
<1>8. x = r + p * e
  BY <1>3, <1>4
<1>9. AuxReduce(x, p, scale \div p, scale) = IF r >= p THEN r - p ELSE r
  BY DEF AuxReduce, m, e, r
<1>10. CASE r >= p
  <2>1. x = p * (e + 1) + (r - p) /\ r - p \in 0 .. (p - 1) /\ e + 1 \in Int
    BY <1>3, <1>4, <1>7, <1>8, <1>10
  <2>2. (p * (e + 1) + (r - p)) % p = r - p
    BY <2>1, ModUnique
  <2>. QED BY <1>9, <1>10, <2>1, <2>2
<1>11. CASE r < p
  <2>1. x = p * e + r /\ r \in 0 .. (p - 1)
    BY <1>3, <1>4, <1>6, <1>8, <1>11
  <2>2. (p * e + r) % p = r
    BY <1>3, <2>1, ModUnique
  <2>. QED BY <1>4, <1>9, <1>11, <2>1, <2>2
<1>. QED BY <1>4, <1>10, <1>11
(* gold_reduce: of a number below B^4, whatever the words it splits into,   *)
(* the remainder by B^2 - B + 1.  The low word may exceed the modulus: the  *)
(* difference is then not canonical, the sum is (ntt.rs, gold_reduce).      *)
THEOREM GoldReduceExact ==
  ASSUME NEW B \in Nat, B >= 2, NEW x \in 0 .. ((B * B) * (B * B) - 1)
  PROVE  GoldReduce(x, B) = x % GoldPrime(B)
<1>. DEFINE W == B * B
            G == GoldPrime(B)
            lo == x % W
            hi == x \div W
            hq == hi \div B
            hr == hi % B
<1>1. W \in Nat \ {0} /\ W >= 2 * B /\ W = B * B
  <2>1. B * B >= 2 * B
    OBVIOUS
  <2>. QED BY <2>1
<1>2. G = W - B + 1 /\ G \in Nat \ {0} /\ G > B
  BY <1>1 DEF GoldPrime
<1>. HIDE DEF W, G
<1>3. x \in 0 .. (W * W - 1) /\ W * W \in Nat
  BY <1>1 DEF W
<1>4. lo \in 0 .. (W - 1) /\ hi \in 0 .. (W - 1) /\ x = W * hi + lo
  <2>1. x \in Int /\ W \in Nat \ {0} /\ W \in Nat
    BY <1>1
  <2>2. x % W \in 0 .. (W - 1) /\ x = W * (x \div W) + (x % W)
    BY <2>1, DivMod
  <2>3. x \div W \in 0 .. (W - 1)
    BY <1>3, <2>1, DivBelow
  <2>. QED BY <2>2, <2>3
<1>. HIDE DEF lo, hi
<1>5. hr \in 0 .. (B - 1) /\ hq \in 0 .. (B - 1) /\ hi = B * hq + hr
  <2>1. hi \in 0 .. (B * B - 1) /\ B \in Nat \ {0} /\ hi \in Int
    BY <1>1, <1>4
  <2>2. hi % B \in 0 .. (B - 1) /\ hi = B * (hi \div B) + (hi % B)
    BY <2>1, DivMod
  <2>3. hi \div B \in 0 .. (B - 1)
    BY <2>1, DivBelow
  <2>. QED BY <2>2, <2>3
<1>. HIDE DEF hq, hr
<1>. DEFINE a == SubMod(lo, hq, G)
            b == hr * (B - 1)
            k == IF lo >= hq THEN 0 ELSE 1
<1>6. b \in Nat /\ b <= W - 2 * B + 1
  <2>1. hr * (B - 1) <= (B - 1) * (B - 1)
    BY <1>5
  <2>2. (B - 1) * (B - 1) = W - 2 * B + 1
    BY <1>1
  <2>3. hr * (B - 1) \in Nat
    BY <1>5
  <2>. QED BY <2>1, <2>2, <2>3
<1>7. a \in 0 .. (W - 1) /\ a = lo - hq + k * G /\ k \in Int
  BY <1>1, <1>2, <1>4, <1>5 DEF SubMod
<1>8. GoldReduce(x, B) = AddMod(a, b, G)
  BY DEF GoldReduce, lo, hi, hq, hr, W, G
<1>9. x = (lo - hq + b) + G * ((B + 1) * hq + hr)
  <2>1. W * hi = W * (B * hq) + W * hr
    BY <1>1, <1>4, <1>5
  <2>2. W * hr = G * hr + b
    <3>1. W = G + (B - 1)
      BY <1>1, <1>2
    <3>2. (G + (B - 1)) * hr = G * hr + (B - 1) * hr /\ (B - 1) * hr = hr * (B - 1)
      BY <1>2, <1>5
    <3>. QED BY <3>1, <3>2
  <2>3. W * (B * hq) = G * ((B + 1) * hq) - hq
    <3>1. W * B = G * (B + 1) - 1
      <4>1. G * (B + 1) = (W - B + 1) * (B + 1)
        BY <1>2
      <4>2. (W - B + 1) * (B + 1) = W * B + W - B * B - B + B + 1
        BY <1>1
      <4>. QED BY <1>1, <4>1, <4>2
    <3>2. W * (B * hq) = (W * B) * hq
      BY <1>1, <1>5
    <3>3. (G * (B + 1) - 1) * hq = G * ((B + 1) * hq) - hq
      BY <1>2, <1>5
    <3>. QED BY <3>1, <3>2, <3>3
  <2>4. G * ((B + 1) * hq + hr) = G * ((B + 1) * hq) + G * hr
    BY <1>2, <1>5
  <2>5. /\ G * ((B + 1) * hq) \in Int /\ G * hr \in Int /\ W * hr \in Int
        /\ W * (B * hq) \in Int
    BY <1>1, <1>2, <1>5
  <2>. QED BY <1>4, <1>5, <1>6, <2>1, <2>2, <2>3, <2>4, <2>5
<1>. DEFINE n == (B + 1) * hq + hr
<1>10. n \in Int
  BY <1>5
<1>11. AddMod(a, b, G) \in 0 .. (G - 1)
       /\ \E j \in {0, 1} : AddMod(a, b, G) = a + b - j * G
  <2>1. a + b <= 2 * G - 1
    BY <1>1, <1>2, <1>6, <1>7
  <2>2. a \in Nat /\ b \in Nat
    BY <1>1, <1>6, <1>7
  <2>. HIDE DEF a, b
  <2>. QED BY <1>2, <2>1, <2>2 DEF AddMod
<1>12. PICK j \in {0, 1} : AddMod(a, b, G) = a + b - j * G
  BY <1>11
<1>. DEFINE r == AddMod(a, b, G)
<1>13. r \in 0 .. (G - 1) /\ r = a + b - j * G /\ x = (lo - hq + b) + G * n
  BY <1>9, <1>11, <1>12
<1>. HIDE DEF a, b, k, n, r
<1>14. x = G * (n + j - k) + r /\ n + j - k \in Int
  <2>1. G * (n + j - k) = G * n + G * j - G * k
    BY <1>2, <1>7, <1>10
  <2>2. k * G = G * k /\ j * G = G * j /\ G * n \in Int /\ G * k \in Int /\ G * j \in Int
    BY <1>2, <1>7, <1>10
  <2>. QED BY <1>2, <1>4, <1>5, <1>6, <1>7, <1>10, <1>13, <2>1, <2>2
<1>15. (G * (n + j - k) + r) % G = r
  BY <1>2, <1>13, <1>14, ModUnique
<1>. QED BY <1>8, <1>14, <1>15 DEF r, G

-----------------------------------------------------------------------------
(* RECONSTRUCTIONS *)

(* One digit of Garner: the difference of the residues times the inverse of *)
(* the radix so far is the next digit of the number.                        *)
LEMMA DigitExact ==
  ASSUME NEW p \in Nat \ {0}, NEW g \in Int, NEW inv \in Int, NEW w \in Int,
         g * inv = 1 + p * w,
         NEW k \in 0 .. (p - 1), NEW n \in Int, NEW d \in Int, d = g * k + p * n
  PROVE  (d * inv) % p = k
<1>1. d * inv = (g * inv) * k + p * (n * inv)
  OBVIOUS
<1>2. (g * inv) * k = k + p * (w * k)
  OBVIOUS
<1>. DEFINE m == w * k + n * inv
<1>3. m \in Int /\ d * inv = p * m + k
  <2>1. p * m = p * (w * k) + p * (n * inv)
    OBVIOUS
  <2>2. p * (w * k) \in Int /\ p * (n * inv) \in Int
    OBVIOUS
  <2>. QED BY <1>1, <1>2, <2>1, <2>2
<1>. HIDE DEF m
<1>. QED BY <1>3, ModUnique

(* Taking a remainder changes a number by a multiple.                       *)
LEMMA Remainder ==
  ASSUME NEW p \in Nat \ {0}, NEW x \in Int
  PROVE  x % p \in 0 .. (p - 1) /\ \E n \in Int : x % p = x + p * n
<1>. DEFINE u == x \div p
            r == x % p
<1>1. u \in Int /\ r \in 0 .. (p - 1) /\ x = p * u + r
  BY DivMod
<1>. HIDE DEF u, r
<1>2. r = x + p * (-u) /\ -u \in Int
  BY <1>1
<1>. QED BY <1>1, <1>2 DEF r

(* inv is an inverse of g modulo p.                                         *)
IsInverse(inv, g, p) == \E w \in Int : g * inv = 1 + p * w

(* Modulo p, k is the digit that follows base in x; g is the radix so far.  *)
Follows(k, base, g, x, p) == \E m \in Int : x = base + g * k + p * m
(* b is the residue of base modulo p.                                       *)
IsResidue(b, base, p) == b \in 0 .. (p - 1) /\ \E c \in Int : b = base + p * c

(* The next digit of x in mixed radix, from the residue of what the digits  *)
(* so far make.                                                             *)
LEMMA NextDigit ==
  ASSUME NEW p \in Nat \ {0}, NEW g \in Int, NEW inv \in Int, IsInverse(inv, g, p),
         NEW x \in Int, NEW base \in Int, NEW k \in 0 .. (p - 1), Follows(k, base, g, x, p),
         NEW b, IsResidue(b, base, p)
  PROVE  MulMod(SubMod(x % p, b, p), inv, p) = k
<1>. DEFINE q == x % p
            d == SubMod(q, b, p)
<1>1. q \in 0 .. (p - 1) /\ \E n \in Int : q = x + p * n
  BY Remainder
<1>2. PICK n \in Int : q = x + p * n
  BY <1>1
<1>3. PICK c \in Int : b = base + p * c
  BY DEF IsResidue
<1>0. PICK m \in Int : x = base + g * k + p * m
  BY DEF Follows
<1>b. b \in 0 .. (p - 1)
  BY DEF IsResidue
<1>4. PICK w \in Int : g * inv = 1 + p * w
  BY DEF IsInverse
<1>. HIDE DEF q
<1>5. d = (q - b) % p /\ q - b \in Int
  BY <1>1, <1>b, SubExact
<1>6. PICK e \in Int : d = (q - b) + p * e
  <2>. DEFINE s == q - b
  <2>. HIDE DEF s, d
  <2>1. \E e \in Int : s % p = s + p * e
    BY <1>5, Remainder DEF s
  <2>. QED BY <1>5, <2>1 DEF s
<1>. HIDE DEF d
<1>7. d = g * k + p * (m + n - c + e)
  <2>1. p * (m + n - c + e) = p * m + p * n - p * c + p * e
    OBVIOUS
  <2>2. d = (base + g * k + p * m) + p * n - (base + p * c) + p * e
    BY <1>0, <1>2, <1>3, <1>6
  <2>3. p * m \in Int /\ p * n \in Int /\ p * c \in Int /\ p * e \in Int /\ g * k \in Int
    OBVIOUS
  <2>. QED BY <2>1, <2>2, <2>3
<1>8. d \in Int
  BY <1>5, <1>6
<1>9. (d * inv) % p = k
  <2>. DEFINE h == m + n - c + e
  <2>1. h \in Int /\ d = g * k + p * h
    BY <1>7
  <2>. HIDE DEF h
  <2>. QED BY <1>4, <1>8, <2>1, DigitExact
<1>. QED BY <1>9 DEF MulMod, d, q

(* garner2: two residues of a number below the product of the moduli give   *)
(* it back (ntt.rs, garner2).                                               *)
THEOREM Garner2Exact ==
  ASSUME NEW p1 \in Nat \ {0}, NEW p2 \in Nat, p1 <= p2,
         NEW inv \in Nat, IsInverse(inv, p1, p2),
         NEW x \in 0 .. (p1 * p2 - 1)
  PROVE  Garner2(x % p1, x % p2, p1, p2, inv) = x
<1>. DEFINE r == x % p1
            k == x \div p1
<1>1. x \in Int /\ p2 \in Nat \ {0} /\ p1 \in Int /\ inv \in Int
  OBVIOUS
<1>2. r \in 0 .. (p1 - 1) /\ k \in 0 .. (p2 - 1) /\ x = p1 * k + r
  BY <1>1, DivMod, DivBelow
<1>. HIDE DEF r, k
<1>3. r \in Int /\ Follows(k, r, p1, x, p2) /\ IsResidue(r, r, p2)
  <2>1. r \in 0 .. (p2 - 1) /\ x = r + p1 * k + p2 * 0 /\ r = r + p2 * 0
    BY <1>2
  <2>. QED BY <2>1 DEF Follows, IsResidue
<1>4. MulMod(SubMod(x % p2, r, p2), inv, p2) = k
  BY <1>1, <1>2, <1>3, NextDigit
<1>5. Garner2(r, x % p2, p1, p2, inv) = r + p1 * k
  BY <1>4 DEF Garner2
<1>. QED BY <1>2, <1>5 DEF r

(* garner_ga: the Goldilocks residue is wider than the second prime, and is *)
(* reduced before the difference (ntt.rs, garner_ga).                       *)
THEOREM GarnerGAExact ==
  ASSUME NEW g \in Nat \ {0}, NEW p1 \in Nat \ {0},
         NEW ginv \in Nat, IsInverse(ginv, g, p1),
         NEW x \in 0 .. (g * p1 - 1)
  PROVE  GarnerGA(x % g, x % p1, g, p1, ginv) = x
<1>. DEFINE r == x % g
            k == x \div g
            b == r % p1
<1>1. x \in Int /\ g \in Int /\ ginv \in Int /\ p1 \in Nat
  OBVIOUS
<1>2. r \in 0 .. (g - 1) /\ k \in 0 .. (p1 - 1) /\ x = g * k + r
  BY <1>1, DivMod, DivBelow
<1>. HIDE DEF r, k
<1>3. r \in Int /\ Follows(k, r, g, x, p1)
  <2>1. x = r + g * k + p1 * 0
    BY <1>2
  <2>. QED BY <1>2, <2>1 DEF Follows
<1>4. IsResidue(b, r, p1)
  BY <1>3, Remainder DEF IsResidue
<1>. HIDE DEF b
<1>5. MulMod(SubMod(x % p1, b, p1), ginv, p1) = k
  BY <1>1, <1>2, <1>3, <1>4, NextDigit
<1>6. GarnerGA(r, x % p1, g, p1, ginv) = r + g * k
  BY <1>5 DEF GarnerGA, b
<1>. QED BY <1>2, <1>6 DEF r

(* garner: three residues (ntt.rs, garner).                                 *)
THEOREM Garner3Exact ==
  ASSUME NEW p1 \in Nat \ {0}, NEW p2 \in Nat \ {0}, NEW p3 \in Nat \ {0},
         p1 <= p2, p1 <= p3,
         NEW inv1 \in Nat, IsInverse(inv1, p1, p2),
         NEW inv12 \in Nat, IsInverse(inv12, p1 * p2, p3),
         NEW x \in 0 .. (p1 * (p2 * p3) - 1)
  PROVE  Garner3(x % p1, x % p2, x % p3, p1, p2, p3, inv1, inv12) = x
<1>. DEFINE r == x % p1
            w == x \div p1
            k == w % p2
            top == w \div p2
            partial == AddMod(r, MulMod(p1, k, p3), p3)
<1>1. x \in Int /\ p1 \in Int /\ inv1 \in Int /\ inv12 \in Int /\ p2 * p3 \in Nat
  OBVIOUS
<1>2. r \in 0 .. (p1 - 1) /\ w \in 0 .. (p2 * p3 - 1) /\ x = p1 * w + r
  BY <1>1, DivMod, DivBelow
<1>. HIDE DEF r, w
<1>3. k \in 0 .. (p2 - 1) /\ top \in 0 .. (p3 - 1) /\ w = p2 * top + k
  <2>1. w \in Int
    BY <1>1, <1>2
  <2>2. p3 \in Nat
    OBVIOUS
  <2>. QED BY <1>2, <2>1, <2>2, DivMod, DivBelow
<1>. HIDE DEF k, top
<1>4. x = r + p1 * k + (p1 * p2) * top /\ (p1 * p2) * top = p2 * (p1 * top)
  <2>1. p1 * w = p1 * (p2 * top) + p1 * k
    BY <1>3
  <2>2. p1 * (p2 * top) = (p1 * p2) * top /\ p1 * (p2 * top) = p2 * (p1 * top)
    BY <1>3
  <2>3. p1 * k \in Int /\ p1 * (p2 * top) \in Int
    BY <1>3
  <2>. QED BY <1>2, <2>1, <2>2, <2>3
<1>5. MulMod(SubMod(x % p2, r, p2), inv1, p2) = k
  <2>1. /\ r \in Int /\ r \in 0 .. (p2 - 1) /\ p1 * top \in Int
        /\ x = r + p1 * k + p2 * (p1 * top) /\ r = r + p2 * 0
    BY <1>2, <1>3, <1>4
  <2>2. Follows(k, r, p1, x, p2) /\ IsResidue(r, r, p2)
    BY <2>1 DEF Follows, IsResidue
  <2>3. x \in Int /\ p1 \in Int /\ inv1 \in Int /\ r \in Int /\ k \in 0 .. (p2 - 1)
    BY <1>1, <1>3, <2>1
  <2>. QED BY <2>2, <2>3, NextDigit
<1>6. IsResidue(partial, r + p1 * k, p3)
  <2>. DEFINE a == p1 * k
              s == a % p3
  <2>1. a \in Int /\ r \in 0 .. (p3 - 1) /\ r \in Int
    BY <1>2, <1>3
  <2>. HIDE DEF a
  <2>2. s \in 0 .. (p3 - 1) /\ \E c \in Int : s = a + p3 * c
    BY <2>1, Remainder
  <2>3. PICK c1 \in Int : s = a + p3 * c1
    BY <2>2
  <2>4. partial = AddMod(r, s, p3)
    BY DEF MulMod, a
  <2>. HIDE DEF s, partial
  <2>5. partial = (r + s) % p3 /\ r + s \in Int
    BY <2>1, <2>2, <2>4, AddExact
  <2>. DEFINE t == r + s
  <2>6. t \in Int /\ partial = t % p3
    BY <2>5
  <2>. HIDE DEF t
  <2>7. partial \in 0 .. (p3 - 1) /\ \E c \in Int : partial = t + p3 * c
    BY <2>6, Remainder
  <2>8. PICK c2 \in Int : partial = t + p3 * c2
    BY <2>7
  <2>9. partial = (r + a) + p3 * (c1 + c2) /\ c1 + c2 \in Int
    BY <2>1, <2>2, <2>3, <2>8 DEF t
  <2>. QED BY <2>7, <2>9 DEF a, IsResidue
<1>. HIDE DEF partial
<1>7. MulMod(SubMod(x % p3, partial, p3), inv12, p3) = top
  <2>. DEFINE g    == p1 * p2
              base == r + p1 * k
  <2>1. /\ g \in Int /\ base \in Int /\ IsInverse(inv12, g, p3)
        /\ x = base + g * top + p3 * 0
        /\ IsResidue(partial, base, p3)
    BY <1>1, <1>2, <1>3, <1>4, <1>6
  <2>. HIDE DEF g, base
  <2>2. Follows(top, base, g, x, p3)
    BY <2>1 DEF Follows
  <2>3. /\ x \in Int /\ g \in Int /\ base \in Int /\ inv12 \in Int /\ top \in 0 .. (p3 - 1)
        /\ IsInverse(inv12, g, p3) /\ IsResidue(partial, base, p3)
    BY <1>1, <1>3, <2>1
  <2>. QED BY ONLY p3 \in Nat \ {0}, <2>2, <2>3, NextDigit
<1>8. Garner3(r, x % p2, x % p3, p1, p2, p3, inv1, inv12) = r + p1 * k + p1 * p2 * top
  BY <1>5, <1>7 DEF Garner3, partial
<1>. QED BY <1>4, <1>8 DEF r

-----------------------------------------------------------------------------
(* LANES *)

LEMMA BoundType == LaneBound \in Nat /\ Q - 1 \in Nat
BY RingAssumption DEF LaneBound

(* A lane number names a coefficient and a component.                       *)
LEMMA LaneIndex ==
  ASSUME NEW l \in Lane
  PROVE  /\ l \div 4 \in Coefficient /\ l % 4 \in Component
         /\ l = 4 * (l \div 4) + (l % 4)
BY GadgetAssumption DEF Lane, Coefficient, Component, SHIFT_DEG

(* A product of two canonical words.                                        *)
LEMMA ProductBound ==
  ASSUME NEW u \in Fp, NEW v \in Fp
  PROVE  u * v \in Nat /\ u * v <= (Q - 1) * (Q - 1)
<1>. DEFINE M == Q - 1
<1>1. M \in Nat /\ u \in Nat /\ v \in Nat /\ u <= M /\ v <= M
  BY RingAssumption DEF Fp
<1>. HIDE DEF M
<1>2. u * v <= u * M
  BY <1>1
<1>3. u * M <= M * M
  BY <1>1
<1>4. u * v \in Nat /\ u * M \in Nat /\ M * M \in Nat
  BY <1>1
<1>. QED BY <1>2, <1>3, <1>4 DEF M

(* Every component of an unreduced product is at most seven base products.  *)
LEMMA RawMulBound ==
  ASSUME NEW a \in Ext4, NEW b \in Ext4, NEW r \in Component
  PROVE  RawMul(a, b, r) \in Nat /\ RawMul(a, b, r) <= LaneBound
<1>. DEFINE K == (Q - 1) * (Q - 1)
            P(i, j) == a[i] * b[j]
<1>1. \A i, j \in Component : P(i, j) \in Nat /\ P(i, j) <= K
  BY ProductBound DEF Ext4
<1>2. K \in Nat
  BY BoundType
<1>3. 0 \in Component /\ 1 \in Component /\ 2 \in Component /\ 3 \in Component
  BY DEF Component
<1>4. /\ P(0, 0) \in Nat /\ P(0, 0) <= K /\ P(0, 1) \in Nat /\ P(0, 1) <= K
      /\ P(0, 2) \in Nat /\ P(0, 2) <= K /\ P(0, 3) \in Nat /\ P(0, 3) <= K
  BY <1>1, <1>3
<1>5. /\ P(1, 0) \in Nat /\ P(1, 0) <= K /\ P(1, 1) \in Nat /\ P(1, 1) <= K
      /\ P(1, 2) \in Nat /\ P(1, 2) <= K /\ P(1, 3) \in Nat /\ P(1, 3) <= K
  BY <1>1, <1>3
<1>6. /\ P(2, 0) \in Nat /\ P(2, 0) <= K /\ P(2, 1) \in Nat /\ P(2, 1) <= K
      /\ P(2, 2) \in Nat /\ P(2, 2) <= K /\ P(2, 3) \in Nat /\ P(2, 3) <= K
  BY <1>1, <1>3
<1>7. /\ P(3, 0) \in Nat /\ P(3, 0) <= K /\ P(3, 1) \in Nat /\ P(3, 1) <= K
      /\ P(3, 2) \in Nat /\ P(3, 2) <= K /\ P(3, 3) \in Nat /\ P(3, 3) <= K
  BY <1>1, <1>3
<1>8. RawMul(a, b, r) =
        CASE r = 0 -> P(0, 0) + 2 * (P(1, 3) + P(2, 2) + P(3, 1))
          [] r = 1 -> P(0, 1) + P(1, 0) + 2 * (P(2, 3) + P(3, 2))
          [] r = 2 -> P(0, 2) + P(1, 1) + P(2, 0) + 2 * P(3, 3)
          [] r = 3 -> P(0, 3) + P(1, 2) + P(2, 1) + P(3, 0)
  BY DEF RawMul
<1>9. LaneBound = 7 * K
  BY DEF LaneBound
<1>. HIDE DEF P, K
<1>10. CASE r = 0
  BY <1>2, <1>4, <1>5, <1>6, <1>7, <1>8, <1>9, <1>10
<1>11. CASE r = 1
  BY <1>2, <1>4, <1>5, <1>6, <1>7, <1>8, <1>9, <1>11
<1>12. CASE r = 2
  BY <1>2, <1>4, <1>5, <1>6, <1>7, <1>8, <1>9, <1>12
<1>13. CASE r = 3
  BY <1>2, <1>4, <1>5, <1>6, <1>7, <1>8, <1>9, <1>13
<1>. QED BY <1>10, <1>11, <1>12, <1>13 DEF Component

-----------------------------------------------------------------------------
(* THE INDUCTIVE INVARIANT *)

(* The tables and the counters are in range, the coefficients are made only *)
(* at the end, and a lane holds at most a residue and the products of the   *)
(* pairs since the last reduction.                                          *)
PairsOK == /\ Len(pairs) \in Nat
           /\ \A k \in 1 .. Len(pairs) : pairs[k] \in Pairs
CountersOK == /\ y \in Nat /\ y <= Len(pairs)
              /\ since \in Nat /\ since < FLUSH
              /\ out # << >> => y = Len(pairs)
LanesBounded == \A l \in Lane : /\ lanes[l] \in Nat
                                /\ lanes[l] <= (Q - 1) + since * LaneBound
IInv == PairsOK /\ CountersOK /\ LanesBounded

(* The room a lane has before a pair is added.                              *)
LEMMA Room ==
  ASSUME CountersOK
  PROVE  /\ (since + 1) * LaneBound = since * LaneBound + LaneBound
         /\ since * LaneBound \in Nat
         /\ (Q - 1) + since * LaneBound + LaneBound < LANE_WORD
<1>. DEFINE B == LaneBound
<1>1. B \in Nat /\ Q - 1 \in Nat
  BY BoundType
<1>2. since \in Nat /\ FLUSH \in Nat /\ LANE_WORD \in Nat /\ since + 1 <= FLUSH
  BY PeriodAssumption DEF CountersOK
<1>3. (Q - 1) + FLUSH * B < LANE_WORD
  BY PeriodAssumption
<1>. HIDE DEF B
<1>4. (since + 1) * B <= FLUSH * B
  BY <1>1, <1>2
<1>5. (since + 1) * B = since * B + B /\ since * B \in Nat /\ FLUSH * B \in Nat
  BY <1>1, <1>2
<1>. QED BY <1>1, <1>2, <1>3, <1>4, <1>5 DEF B

(* What the table assumption says of the next pair.                         *)
LEMMA NextPair ==
  ASSUME IInv, y < Len(pairs), NEW m \in Coefficient, NEW r \in Component
  PROVE  /\ EPow(Pair)[m] \in Ext4 /\ Inner(Pair)[m] \in Ext4
         /\ RawMul(EPow(Pair)[m], Inner(Pair)[m], r) % Q = Contribution(Pair)[m][r]
         /\ BothZero(Pair) => Contribution(Pair)[m][r] = 0
<1>1. Pair \in Pairs
  BY DEF IInv, PairsOK, CountersOK, Pair
<1>. QED BY <1>1, TableAssumption

(* Adding a pair wraps no lane and adds its term.                           *)
LEMMA AccumulatedValue ==
  ASSUME IInv, y < Len(pairs), NEW l \in Lane
  PROVE  /\ Accumulated[l] \in Nat
         /\ Accumulated[l] <= (Q - 1) + (since + 1) * LaneBound
         /\ Accumulated[l] % Q
              = ((lanes[l] % Q) + Contribution(Pair)[l \div 4][l % 4]) % Q
<1>. DEFINE raw == RawMul(EPow(Pair)[l \div 4], Inner(Pair)[l \div 4], l % 4)
<1>1. l \div 4 \in Coefficient /\ l % 4 \in Component
  BY LaneIndex
<1>2. raw \in Nat /\ raw <= LaneBound
  BY <1>1, NextPair, RawMulBound
<1>3. raw % Q = Contribution(Pair)[l \div 4][l % 4]
  BY <1>1, NextPair
<1>4. Accumulated[l] = (lanes[l] + raw) % LANE_WORD
  BY DEF Accumulated
<1>. HIDE DEF raw
<1>5. /\ lanes[l] \in Nat /\ lanes[l] <= (Q - 1) + since * LaneBound
      /\ LaneBound \in Nat /\ Q - 1 \in Nat /\ LANE_WORD \in Nat
  BY BoundType, PeriodAssumption DEF IInv, LanesBounded
<1>6. /\ (since + 1) * LaneBound = since * LaneBound + LaneBound
      /\ since * LaneBound \in Nat
      /\ (Q - 1) + since * LaneBound + LaneBound < LANE_WORD
  BY Room DEF IInv
<1>. DEFINE s == since * LaneBound
            t == (since + 1) * LaneBound
<1>7. /\ lanes[l] <= (Q - 1) + s /\ t = s + LaneBound /\ s \in Nat
      /\ (Q - 1) + s + LaneBound < LANE_WORD
  BY <1>5, <1>6
<1>. HIDE DEF s, t
<1>8. /\ lanes[l] + raw \in Nat /\ lanes[l] + raw < LANE_WORD
      /\ lanes[l] + raw <= (Q - 1) + t
  BY <1>2, <1>5, <1>7
<1>9. Accumulated[l] = lanes[l] + raw
  BY <1>4, <1>5, <1>8
<1>10. (lanes[l] + raw) % Q = ((lanes[l] % Q) + (raw % Q)) % Q
  <2>1. lanes[l] \in Int /\ raw \in Int /\ lanes[l] % Q \in Int
    BY <1>2, <1>5, RingAssumption
  <2>2. ((lanes[l] % Q) + raw) % Q = (lanes[l] + raw) % Q
    BY <2>1, ModAdd
  <2>3. ((lanes[l] % Q) + (raw % Q)) % Q = ((lanes[l] % Q) + raw) % Q
    BY <2>1, ModAdd
  <2>. QED BY <2>2, <2>3
<1>. QED BY <1>3, <1>8, <1>9, <1>10 DEF t

(* A reduction leaves residues.                                             *)
LEMMA FlushedValue ==
  ASSUME NEW ls, NEW l \in Lane, ls[l] \in Nat
  PROVE  /\ Flushed(ls)[l] \in Nat /\ Flushed(ls)[l] <= Q - 1
         /\ Flushed(ls)[l] % Q = ls[l] % Q
<1>1. Flushed(ls)[l] = ls[l] % Q
  BY DEF Flushed
<1>2. ls[l] % Q \in Fp
  BY ModSmall
<1>3. (ls[l] % Q) % Q = ls[l] % Q
  BY <1>2, ModSmall, RingAssumption DEF Fp
<1>. QED BY <1>1, <1>2, <1>3, RingAssumption DEF Fp

LEMMA InitIInv == LaneInit => IInv
<1>. SUFFICES ASSUME LaneInit PROVE IInv
  OBVIOUS
<1>1. PICK n \in 0 .. MAX_PAIRS : pairs \in [1 .. n -> Pairs]
  BY DEF LaneInit
<1>2. n \in Nat
  BY <1>1
<1>3. pairs \in Seq(Pairs) /\ Len(pairs) = n
  BY <1>1, <1>2
<1>4. PairsOK
  BY <1>1, <1>2, <1>3 DEF PairsOK
<1>5. CountersOK
  BY <1>2, <1>3, PeriodAssumption DEF LaneInit, CountersOK
<1>6. LanesBounded
  BY BoundType DEF LaneInit, LanesBounded
<1>. QED BY <1>4, <1>5, <1>6 DEF IInv

LEMMA StepIInv == IInv /\ [LaneNext]_lanevars => IInv'
<1>. SUFFICES ASSUME IInv, [LaneNext]_lanevars PROVE IInv'
  OBVIOUS
<1>1. CASE Skip
  BY <1>1 DEF Skip, IInv, PairsOK, CountersOK, LanesBounded
<1>2. CASE Accumulate
  <2>1. /\ y < Len(pairs) /\ y' = y + 1 /\ pairs' = pairs /\ out' = out
        /\ IF MustFlush THEN lanes' = Flushed(Accumulated) /\ since' = 0
                        ELSE lanes' = Accumulated /\ since' = since + 1
    BY <1>2 DEF Accumulate
  <2>2. PairsOK'
    BY <2>1 DEF IInv, PairsOK
  <2>3. CountersOK'
    <3>1. y' \in Nat /\ y' <= Len(pairs') /\ (out' # << >> => y' = Len(pairs'))
      BY <2>1 DEF IInv, PairsOK, CountersOK
    <3>2. since' \in Nat /\ since' < FLUSH
      BY <2>1, PeriodAssumption DEF IInv, CountersOK, MustFlush
    <3>. QED BY <3>1, <3>2 DEF CountersOK
  <2>4. LanesBounded'
    <3>. SUFFICES ASSUME NEW l \in Lane
                  PROVE  lanes'[l] \in Nat /\ lanes'[l] <= (Q - 1) + since' * LaneBound
      BY DEF LanesBounded
    <3>1. Accumulated[l] \in Nat /\ Accumulated[l] <= (Q - 1) + (since + 1) * LaneBound
      BY <2>1, AccumulatedValue
    <3>2. CASE MustFlush
      <4>1. lanes' = Flushed(Accumulated) /\ since' = 0
        BY <2>1, <3>2
      <4>2. Flushed(Accumulated)[l] \in Nat /\ Flushed(Accumulated)[l] <= Q - 1
        BY <3>1, FlushedValue
      <4>. QED BY <4>1, <4>2, BoundType
    <3>3. CASE ~MustFlush
      BY <2>1, <3>1, <3>3
    <3>. QED BY <3>2, <3>3
  <2>. QED BY <2>2, <2>3, <2>4 DEF IInv
<1>3. CASE Finish
  BY <1>3 DEF Finish, IInv, PairsOK, CountersOK, LanesBounded
<1>4. CASE UNCHANGED lanevars
  BY <1>4 DEF lanevars, IInv, PairsOK, CountersOK, LanesBounded
<1>. QED BY <1>1, <1>2, <1>3, <1>4 DEF LaneNext

(* A lane never exceeds what the pairs since the last reduction allow.      *)
THEOREM BoundCorrect == LaneSpec => []IInv
<1>. QED BY InitIInv, StepIInv, PTL DEF LaneSpec

-----------------------------------------------------------------------------
(* EXACTNESS *)

LEMMA ExactStep == IInv /\ [LaneNext]_lanevars => [ExactPair]_lanevars
<1>. SUFFICES ASSUME IInv, LaneNext PROVE ExactPair
  OBVIOUS
<1>. SUFFICES ASSUME NEW l \in Lane
              PROVE  Denoted(l)' =
                       IF y' = y THEN Denoted(l)
                       ELSE (Denoted(l) + Contribution(Pair)[l \div 4][l % 4]) % Q
  BY DEF ExactPair
<1>0. /\ lanes[l] \in Nat /\ lanes[l] \in Int /\ y \in Nat /\ y + 1 # y
      /\ l \div 4 \in Coefficient /\ l % 4 \in Component
  BY LaneIndex DEF IInv, LanesBounded, CountersOK
<1>1. CASE Skip
  <2>1. y < Len(pairs) /\ BothZero(Pair) /\ y' = y + 1 /\ lanes' = lanes /\ out' = out
    BY <1>1 DEF Skip
  <2>2. Contribution(Pair)[l \div 4][l % 4] = 0
    BY <1>0, <2>1, NextPair
  <2>3. out = << >>
    BY <2>1 DEF IInv, PairsOK, CountersOK
  <2>4. Denoted(l) = lanes[l] % Q /\ Denoted(l)' = lanes[l] % Q
    BY <2>1, <2>3 DEF Denoted
  <2>5. lanes[l] % Q \in Int /\ ((lanes[l] % Q) + 0) % Q = lanes[l] % Q
    BY <1>0, ModSmall, RingAssumption DEF Fp
  <2>. QED BY <1>0, <2>1, <2>2, <2>4, <2>5
<1>2. CASE Accumulate
  <2>1. /\ y < Len(pairs) /\ y' = y + 1 /\ out' = out
        /\ IF MustFlush THEN lanes' = Flushed(Accumulated) ELSE lanes' = Accumulated
    BY <1>2 DEF Accumulate
  <2>2. out = << >>
    BY <2>1 DEF IInv, PairsOK, CountersOK
  <2>3. /\ Accumulated[l] \in Nat
        /\ Accumulated[l] % Q
             = ((lanes[l] % Q) + Contribution(Pair)[l \div 4][l % 4]) % Q
    BY <2>1, AccumulatedValue
  <2>4. lanes'[l] % Q = Accumulated[l] % Q
    BY <2>1, <2>3, FlushedValue
  <2>5. Denoted(l) = lanes[l] % Q /\ Denoted(l)' = lanes'[l] % Q
    BY <2>1, <2>2 DEF Denoted
  <2>. QED BY <1>0, <2>1, <2>3, <2>4, <2>5
<1>3. CASE Finish
  <2>1. y' = y /\ out = << >> /\ out' = Coefficients
    BY <1>3 DEF Finish
  <2>2. /\ SHIFT_DEG \in Nat \ {0} /\ l \div 4 \in 0 .. SHIFT_DEG /\ l \div 4 # SHIFT_DEG
    BY <1>0, GadgetAssumption DEF Coefficient, SHIFT_DEG
  <2>3. Coefficients # << >>
    <3>1. DOMAIN Coefficients = 0 .. SHIFT_DEG /\ 0 \in 0 .. SHIFT_DEG
      BY <2>2 DEF Coefficients
    <3>2. 0 \notin DOMAIN << >>
      OBVIOUS
    <3>. QED BY <3>1, <3>2
  <2>4. Coefficients[l \div 4][l % 4] = lanes[4 * (l \div 4) + (l % 4)] % Q
    BY <1>0, <2>2 DEF Coefficients
  <2>5. 4 * (l \div 4) + (l % 4) = l
    BY LaneIndex
  <2>6. Denoted(l) = lanes[l] % Q /\ Denoted(l)' = lanes[l] % Q
    BY <2>1, <2>3, <2>4, <2>5 DEF Denoted
  <2>. QED BY <2>1, <2>6
<1>. QED BY <1>1, <1>2, <1>3 DEF LaneNext

(* However long the table, every pair adds exactly its term and nothing     *)
(* else changes a coefficient.                                              *)
THEOREM ExactCorrect == LaneSpec => ExactPairs
<1>. QED BY BoundCorrect, ExactStep, PTL DEF LaneSpec, ExactPairs

-----------------------------------------------------------------------------
(* THE FOLD OF UNSIGNED DIGITS *)

(* So does what a block adds to a column, in a row it has or has not.       *)
LEMMA ScaledShort ==
  ASSUME NEW b \in BlockSet, NEW c \in Challenges, NEW j \in Column, NEW p \in Coeff
  PROVE  \E t \in Int : /\ t <= OMEGA * (GADGET_BASE - 1)
                        /\ -t <= OMEGA * (GADGET_BASE - 1)
                        /\ Scaled(b, c, j)[p] = t % Q
<1>1. b \in Seq(Rq) /\ c \in Rq /\ IsShort(c)
  BY ZResponseAssumption
<1>2. CASE RowOf(j) < Len(b)
  <2>1. /\ DigitPoly(b, j) \in Rq
        /\ \A k \in Coeff : DigitPoly(b, j)[k] \in 0 .. (GADGET_BASE - 1)
    BY <1>1, <1>2, DigitPolyType
  <2>. QED BY <1>1, <1>2, <2>1, ShortProduct DEF Scaled
<1>3. CASE ~(RowOf(j) < Len(b))
  <2>1. Scaled(b, c, j)[p] = 0 % Q
    BY <1>3, RingAssumption DEF Scaled
  <2>2. OMEGA \in Nat /\ GADGET_BASE - 1 \in Nat
    BY RingAssumption, GadgetAssumption
  <2>3. 0 <= OMEGA * (GADGET_BASE - 1) /\ -0 <= OMEGA * (GADGET_BASE - 1)
    BY <2>2
  <2>. QED BY <2>1, <2>3
<1>. QED BY <1>2, <1>3

-----------------------------------------------------------------------------
(* THE RESPONSE *)

(* The response is nothing, or the digits of the complete sum.              *)
Responded ==
  /\ folded \in 0 .. BLOCKS
  /\ z \in [Column -> Rq]
  /\ resp # << >> => folded = BLOCKS /\ resp = <<DecomposeZ(z)>>

(* A response, whenever there is one, is the digits of the complete sum.    *)
THEOREM RespondedInvariant == ZRSpec => []Responded
<1>1. ZRInit => Responded
  <2>1. 0 \in Fp /\ BLOCKS \in Nat
    BY RingAssumption, ZResponseAssumption DEF Fp
  <2>. QED BY <2>1 DEF ZRInit, Init, Responded, Rq
<1>2. Responded /\ [ZRNext]_zrvars => Responded'
  <2>. SUFFICES ASSUME Responded, [ZRNext]_zrvars PROVE Responded'
    OBVIOUS
  <2>1. CASE Fold
    <3>1. PICK b \in BlockSet, c \in Challenges :
            z' = [j \in Column |-> [p \in Coeff |-> (z[j][p] + Scaled(b, c, j)[p]) % Q]]
      BY <2>1 DEF Fold, AddBlock
    <3>2. ASSUME NEW j \in Column, NEW p \in Coeff
          PROVE  (z[j][p] + Scaled(b, c, j)[p]) % Q \in Fp
      <4>1. PICK t \in Int : Scaled(b, c, j)[p] = t % Q
        BY ScaledShort
      <4>2. z[j][p] \in Int /\ t % Q \in Int
        BY RingAssumption DEF Responded, Rq, Fp
      <4>3. z[j][p] + Scaled(b, c, j)[p] \in Int
        BY <4>1, <4>2
      <4>. QED BY <4>3, ModSmall
    <3>3. z' \in [Column -> Rq]
      BY <3>1, <3>2 DEF Rq
    <3>4. folded < BLOCKS /\ folded' = folded + 1 /\ resp' = resp
      BY <2>1 DEF Fold, AddBlock
    <3>5. folded' \in 0 .. BLOCKS /\ resp' = << >>
      BY <3>4, ZResponseAssumption DEF Responded
    <3>. QED BY <3>3, <3>5 DEF Responded
  <2>2. CASE Respond
    BY <2>2 DEF Respond, Responded, hzvars
  <2>3. CASE UNCHANGED zrvars
    BY <2>3 DEF zrvars, hzvars, Responded, DecomposeZ
  <2>. QED BY <2>1, <2>2, <2>3 DEF ZRNext
<1>. QED BY <1>1, <1>2, PTL DEF ZRSpec

(* What a digit of a response that was made is.                             *)
LEMMA ResponseDigits ==
  ASSUME Responded, resp # << >>
  PROVE  /\ DOMAIN resp[1] = Column
         /\ \A j \in Column, e \in ZDigit, p \in Coeff :
              resp[1][j][e][p] = BoundedZDigitAt(z[j][p], e)
<1>1. resp[1] = DecomposeZ(z) /\ DOMAIN z = Column
  BY DEF Responded
<1>. QED BY <1>1 DEF DecomposeZ

(* The response has its type: every digit lies in the balanced box.         *)
THEOREM TypeCorrect == ZRSpec => []TypeOK
<1>1. Responded => TypeOK
  <2>. SUFFICES ASSUME Responded PROVE TypeOK
    OBVIOUS
  <2>1. ASSUME resp # << >>, NEW j \in Column, NEW e \in ZDigit, NEW p \in Coeff
        PROVE  Boxed(resp[1][j][e][p], HALF_BASE)
    <3>1. z[j][p] \in Fp
      BY DEF Responded, Rq
    <3>2. resp[1][j][e][p] = BoundedZDigitAt(z[j][p], e)
      BY <2>1, ResponseDigits
    <3>. QED BY <3>1, <3>2, BoundedBox
  <2>. QED BY <2>1 DEF TypeOK, Responded, Boxed
<1>. QED BY <1>1, RespondedInvariant, PTL

(* The folded sum of unsigned digits keeps to its bound, block by block.    *)
THEOREM UnsignedBounded == ZRSpec => []UnsignedBound
<1>. DEFINE w == OMEGA * (GADGET_BASE - 1)
<1>0. OMEGA \in Nat /\ GADGET_BASE - 1 \in Nat /\ w \in Nat
  BY RingAssumption, GadgetAssumption
<1>a. ASSUME NEW k \in Nat PROVE /\ k * OMEGA * (GADGET_BASE - 1) = k * w
                                 /\ (k + 1) * w = k * w + w /\ k * w \in Nat
  BY <1>0
<1>1. ZRInit => UnsignedBound
  <2>1. Magnitude(0) = 0
    BY RingAssumption DEF Magnitude
  <2>. QED BY <2>1, <1>0 DEF ZRInit, Init, UnsignedBound
<1>2. Responded /\ UnsignedBound /\ [ZRNext]_zrvars => UnsignedBound'
  <2>. SUFFICES ASSUME Responded, UnsignedBound, [ZRNext]_zrvars PROVE UnsignedBound'
    OBVIOUS
  <2>0. folded \in Nat
    BY ZResponseAssumption DEF Responded
  <2>1. CASE Fold
    <3>1. PICK b \in BlockSet, c \in Challenges :
            z' = [j \in Column |-> [p \in Coeff |-> (z[j][p] + Scaled(b, c, j)[p]) % Q]]
      BY <2>1 DEF Fold, AddBlock
    <3>2. folded' = folded + 1
      BY <2>1 DEF Fold, AddBlock
    <3>3. ASSUME NEW j \in Column, NEW p \in Coeff
          PROVE  Magnitude(z'[j][p]) <= folded' * OMEGA * (GADGET_BASE - 1)
      <4>1. PICK t \in Int : t <= w /\ -t <= w /\ Scaled(b, c, j)[p] = t % Q
        BY ScaledShort
      <4>2. z[j][p] \in Fp /\ z[j][p] \in Int
        BY RingAssumption DEF Responded, Rq, Fp
      <4>3. z'[j][p] = (z[j][p] + t) % Q
        BY <3>1, <4>1, <4>2, ModAdd
      <4>4. Magnitude(z[j][p]) \in Nat /\ Magnitude(z[j][p]) <= folded * w
        BY <4>2, <2>0, <1>a, CentredFacts DEF UnsignedBound
      <4>. HIDE DEF w
      <4>5. Magnitude((z[j][p] + t) % Q) <= Magnitude(z[j][p]) + w
        BY <1>0, <4>1, <4>2, MagnitudeAdd
      <4>6. z[j][p] + t \in Int
        BY <4>1, <4>2
      <4>7. (z[j][p] + t) % Q \in Fp
        BY <4>6, ModSmall
      <4>8. Magnitude(z'[j][p]) \in Nat /\ Magnitude(z'[j][p]) <= Magnitude(z[j][p]) + w
        BY <4>3, <4>5, <4>7, CentredFacts
      <4>9. folded + 1 \in Nat /\ (folded + 1) * w = folded * w + w /\ folded * w \in Nat
        BY <2>0, <1>a
      <4>10. folded' * OMEGA * (GADGET_BASE - 1) = folded * w + w
        BY <3>2, <4>9, <1>a
      <4>. QED BY <1>0, <4>4, <4>8, <4>9, <4>10
    <3>. QED BY <3>3 DEF UnsignedBound
  <2>2. CASE Respond
    BY <2>2 DEF Respond, hzvars, UnsignedBound
  <2>3. CASE UNCHANGED zrvars
    BY <2>3 DEF zrvars, hzvars, UnsignedBound
  <2>. QED BY <2>1, <2>2, <2>3 DEF ZRNext
<1>. QED BY <1>1, <1>2, RespondedInvariant, PTL DEF ZRSpec

(* The verifier's J times the response is the z that was folded, for every  *)
(* sum of unsigned digits.                                                  *)
THEOREM ResponseRecomposes == ZRSpec => []Recomposes
<1>1. Responded /\ UnsignedBound => Recomposes
  <2>. SUFFICES ASSUME Responded, UnsignedBound, resp # << >>
                PROVE  MulZ(resp[1]) = z
    BY DEF Recomposes
  <2>. DEFINE v == resp[1]
  <2>1. DOMAIN v = Column
    BY ResponseDigits
  <2>2. MaxFolded \in Nat /\ folded = BLOCKS
    BY RingAssumption, GadgetAssumption, ZResponseAssumption DEF MaxFolded, Responded
  <2>3. ASSUME NEW j \in Column, NEW p \in Coeff
        PROVE  SumFunction([e \in ZDigit |-> v[j][e][p] * BasePower[e]]) % Q = z[j][p]
    <3>. DEFINE c == z[j][p]
    <3>1. c \in Fp
      BY DEF Responded, Rq
    <3>2. Magnitude(c) <= MaxFolded
      BY <2>2 DEF UnsignedBound, MaxFolded
    <3>3. \A e \in ZDigit : v[j][e][p] = BoundedZDigitAt(c, e)
      BY ResponseDigits
    <3>. HIDE DEF c, v
    <3>4. SumFunction([e \in ZDigit |-> BoundedZDigitAt(c, e) * BasePower[e]]) % Q = c
      BY <2>2, <3>1, <3>2, BoundedExact, RoomAssumption
    <3>5. [e \in ZDigit |-> v[j][e][p] * BasePower[e]]
            = [e \in ZDigit |-> BoundedZDigitAt(c, e) * BasePower[e]]
      BY <3>3
    <3>. QED BY <3>4, <3>5 DEF c
  <2>4. z = [j \in Column |-> [p \in Coeff |-> z[j][p]]]
    BY DEF Responded, Rq
  <2>. HIDE DEF v
  <2>5. MulZ(v) = z
    BY <2>1, <2>3, <2>4 DEF MulZ
  <2>. QED BY <2>5 DEF v
<1>. QED BY <1>1, RespondedInvariant, UnsignedBounded, PTL
=============================================================================
