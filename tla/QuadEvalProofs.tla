---------------------------- MODULE QuadEvalProofs ----------------------------
(***************************************************************************)
(* The evaluation protocol (QuadEval) for every ring, shape, key,          *)
(* polynomial, point and challenge: the split is exact (ClaimExact) and an *)
(* honest response is accepted (HonestInRelation).                         *)
(*                                                                         *)
(* An entry of a basis is the product of the factors the bits of its index *)
(* choose (BasisIs), and the bits of the joint index are those of the row  *)
(* and of the column (FactorsJoin), so the quadratic form is the sum of    *)
(* all entries, column by column (GridSum, SplitValue).                    *)
(*                                                                         *)
(* The fold z is linear in the digits (Folded), so a row of a matrix, and  *)
(* the gadget, go through it: equations four and five are the same sums    *)
(* the carrier and the inner commitments make (DotOfFolded,                *)
(* GadgetOfFolded).  What is sent of z is its bounded digits, and they     *)
(* give z back because a fold of digits by short challenges stays within   *)
(* MaxFolded (ShortSpan, FoldedShort, BoundedRecomposition).  The          *)
(* invariant says that every value a party holds is the function of the    *)
(* earlier ones the code computes.                                         *)
(***************************************************************************)
EXTENDS QuadEval, GadgetProofs

-----------------------------------------------------------------------------
(* EXCHANGING SUMS *)

(* The tables and the margins of an exchange of sums.                       *)
Margins(S, T, f, g, r, d) ==
  /\ \A x \in S, y \in T : f[x][y] \in Int
  /\ \A x \in S, y \in T : g[y][x] = f[x][y]
  /\ \A x \in S : r[x] = SumFunctionOnSet(f[x], T)
  /\ \A y \in T : d[y] = SumFunctionOnSet(g[y], S)

LEMMA MarginsEqual ==
  ASSUME NEW S, IsFiniteSet(S), NEW T, IsFiniteSet(T),
         NEW f, NEW g, NEW r, NEW d, Margins(S, T, f, g, r, d)
  PROVE  SumFunctionOnSet(r, S) = SumFunctionOnSet(d, T)
<1>1. /\ \A x \in S, y \in T : f[x][y] \in Int
      /\ \A x \in S, y \in T : g[y][x] = f[x][y]
      /\ \A x \in S : r[x] = SumFunctionOnSet(f[x], T)
      /\ \A y \in T : d[y] = SumFunctionOnSet(g[y], S)
  BY DEF Margins
<1>. QED BY <1>1, SumExchange

(* The order of two sums of ring elements does not matter.                  *)
LEMMA SumOfExchange ==
  ASSUME NEW S, IsFiniteSet(S), NEW T, IsFiniteSet(T),
         NEW F \in [S -> [T -> IntRq]]
  PROVE  SumOf([i \in S |-> SumOf(F[i], T)], S)
           = SumOf([j \in T |-> SumOf([i \in S |-> F[i][j]], S)], T)
<1>. DEFINE G == [j \in T |-> [i \in S |-> F[i][j]]]
            A == [i \in S |-> SumOf(F[i], T)]
            B == [j \in T |-> SumOf(G[j], S)]
<1>0. B = [j \in T |-> SumOf([i \in S |-> F[i][j]], S)]
  OBVIOUS
<1>1. /\ \A i \in S : F[i] \in [T -> IntRq]
      /\ \A j \in T : G[j] \in [S -> IntRq]
      /\ \A i \in S, j \in T : G[j][i] = F[i][j]
  OBVIOUS
<1>. HIDE DEF G
<1>2. ASSUME NEW p \in Coeff PROVE SumOf(A, S)[p] = SumOf(B, T)[p]
  <2>. DEFINE f == [i \in S |-> [j \in T |-> F[i][j][p]]]
              g == [j \in T |-> [i \in S |-> G[j][i][p]]]
              r == [i \in S |-> SumFunctionOnSet(f[i], T)]
              d == [j \in T |-> SumFunctionOnSet(g[j], S)]
              a == [i \in S |-> A[i][p]]
              b == [j \in T |-> B[j][p]]
  <2>1. \A i \in S, j \in T : f[i][j] \in Int /\ g[j][i] = f[i][j]
    <3>1. ASSUME NEW i \in S, NEW j \in T PROVE f[i][j] \in Int /\ g[j][i] = f[i][j]
      <4>1. F[i][j] \in IntRq /\ G[j][i] = F[i][j]
        BY <1>1
      <4>. QED BY <4>1 DEF IntRq
    <3>. QED BY <3>1
  <2>2. ASSUME NEW i \in S PROVE r[i] \in Int /\ a[i] = r[i] % Q
    <3>1. F[i] \in [T -> IntRq]
      BY <1>1
    <3>. DEFINE Fi == F[i]
    <3>2. Fi \in [T -> IntRq]
      BY <3>1
    <3>. HIDE DEF Fi
    <3>3. /\ SumFunctionOnSet([j \in T |-> Fi[j][p]], T) \in Int
          /\ SumOf(Fi, T)[p] = SumFunctionOnSet([j \in T |-> Fi[j][p]], T) % Q
      BY <3>2, SumOfFacts
    <3>. QED BY <3>3 DEF Fi
  <2>3. ASSUME NEW j \in T PROVE d[j] \in Int /\ b[j] = d[j] % Q
    <3>. DEFINE Gj == G[j]
    <3>2. Gj \in [S -> IntRq]
      BY <1>1
    <3>. HIDE DEF Gj
    <3>3. /\ SumFunctionOnSet([i \in S |-> Gj[i][p]], S) \in Int
          /\ SumOf(Gj, S)[p] = SumFunctionOnSet([i \in S |-> Gj[i][p]], S) % Q
      BY <3>2, SumOfFacts
    <3>. QED BY <3>3 DEF Gj
  <2>4. SumFunctionOnSet(r, S) = SumFunctionOnSet(d, T)
    <3>1. \A i \in S : r[i] = SumFunctionOnSet(f[i], T)
      OBVIOUS
    <3>2. \A j \in T : d[j] = SumFunctionOnSet(g[j], S)
      OBVIOUS
    <3>. HIDE DEF f, g, r, d
    <3>3. \A i \in S, j \in T : f[i][j] \in Int
      BY <2>1
    <3>4. \A i \in S, j \in T : g[j][i] = f[i][j]
      BY <2>1
    <3>5. Margins(S, T, f, g, r, d)
      BY <3>1, <3>2, <3>3, <3>4 DEF Margins
    <3>. QED BY <3>5, MarginsEqual
  <2>5. SumOf(A, S)[p] = SumFunctionOnSet(a, S) % Q /\ SumOf(B, T)[p] = SumFunctionOnSet(b, T) % Q
    BY DEF SumOf
  <2>. HIDE DEF r, d, a, b, A, B
  <2>a. ASSUME NEW t \in Int PROVE t % Q \in Int /\ (t % Q) % Q = t % Q
    BY ModSmall, RingAssumption DEF Fp
  <2>6. \A i \in S : a[i] \in Int /\ r[i] \in Int /\ a[i] % Q = r[i] % Q
    BY <2>2, <2>a
  <2>7. \A j \in T : b[j] \in Int /\ d[j] \in Int /\ b[j] % Q = d[j] % Q
    BY <2>3, <2>a
  <2>8. SumFunctionOnSet(a, S) % Q = SumFunctionOnSet(r, S) % Q
    BY <2>6, SumModEqual
  <2>9. SumFunctionOnSet(b, T) % Q = SumFunctionOnSet(d, T) % Q
    BY <2>7, SumModEqual
  <2>. QED BY <2>4, <2>5, <2>8, <2>9
<1>. HIDE DEF A, B
<1>3. SumOf(A, S) = SumOf(B, T)
  BY <1>2 DEF SumOf
<1>. QED BY <1>0, <1>3 DEF A

(* A combination of combinations, either way round.                         *)
IntMaps(T)      == [T -> IntRq]
IntTables(S, T) == [S -> [T -> IntRq]]
ByColumns(S, T, u, d, X) ==
  SumOf([j \in T |-> NegMul(u[j], SumOf([i \in S |-> NegMul(d[i], X[i][j])], S))], T)
ByRows(S, T, u, d, X) ==
  SumOf([i \in S |-> NegMul(d[i], SumOf([j \in T |-> NegMul(u[j], X[i][j])], T))], S)

LEMMA FoldExchange ==
  ASSUME NEW S, IsFiniteSet(S), NEW T, IsFiniteSet(T),
         NEW u \in IntMaps(T), NEW d \in IntMaps(S), NEW X \in IntTables(S, T)
  PROVE  ByColumns(S, T, u, d, X) = ByRows(S, T, u, d, X)
<1>0. u \in [T -> IntRq] /\ d \in [S -> IntRq] /\ X \in [S -> [T -> IntRq]]
  BY DEF IntMaps, IntTables
<1>. DEFINE Y(j) == [i \in S |-> NegMul(d[i], X[i][j])]
            Z(i) == [j \in T |-> NegMul(u[j], X[i][j])]
            G == [j \in T |-> [i \in S |-> NegMul(u[j], Y(j)[i])]]
            F == [i \in S |-> [j \in T |-> NegMul(d[i], Z(i)[j])]]
<1>1. \A i \in S, j \in T : u[j] \in IntRq /\ d[i] \in IntRq /\ X[i][j] \in IntRq
  BY <1>0
<1>2. \A j \in T : Y(j) \in [S -> IntRq]
  BY <1>1, IntProductType
<1>3. \A i \in S : Z(i) \in [T -> IntRq]
  BY <1>1, IntProductType
<1>4. ASSUME NEW i \in S, NEW j \in T
      PROVE  G[j][i] = F[i][j] /\ G[j][i] \in IntRq /\ F[i][j] \in IntRq
  <2>1. u[j] \in IntRq /\ d[i] \in IntRq /\ X[i][j] \in IntRq
    BY <1>1
  <2>2. NegMul(u[j], NegMul(d[i], X[i][j])) = NegMul(d[i], NegMul(u[j], X[i][j]))
    BY <2>1, ProductSwap
  <2>3. G[j][i] = NegMul(u[j], NegMul(d[i], X[i][j])) /\ F[i][j] = NegMul(d[i], NegMul(u[j], X[i][j]))
    OBVIOUS
  <2>4. NegMul(u[j], NegMul(d[i], X[i][j])) \in IntRq
    BY <2>1, IntProductType
  <2>. HIDE DEF F, G
  <2>. QED BY <2>2, <2>3, <2>4
<1>5. \A j \in T : NegMul(u[j], SumOf(Y(j), S)) = SumOf(G[j], S)
  <2>1. ASSUME NEW j \in T PROVE NegMul(u[j], SumOf(Y(j), S)) = SumOf(G[j], S)
    <3>. DEFINE y == Y(j)
    <3>1. y \in [S -> IntRq] /\ G[j] = [i \in S |-> NegMul(u[j], y[i])]
      BY <1>2
    <3>. HIDE DEF y, G
    <3>2. NegMul(u[j], SumOf(y, S)) = SumOf([i \in S |-> NegMul(u[j], y[i])], S)
      <4>1. u[j] \in IntRq
        BY <1>0
      <4>. QED BY <3>1, <4>1, ProductOfSum
    <3>. QED BY <3>1, <3>2 DEF y
  <2>. QED BY <2>1
<1>6. \A i \in S : NegMul(d[i], SumOf(Z(i), T)) = SumOf(F[i], T)
  <2>1. ASSUME NEW i \in S PROVE NegMul(d[i], SumOf(Z(i), T)) = SumOf(F[i], T)
    <3>. DEFINE y == Z(i)
    <3>1. y \in [T -> IntRq] /\ F[i] = [j \in T |-> NegMul(d[i], y[j])]
      BY <1>3
    <3>. HIDE DEF y, F
    <3>2. NegMul(d[i], SumOf(y, T)) = SumOf([j \in T |-> NegMul(d[i], y[j])], T)
      <4>1. d[i] \in IntRq
        BY <1>0
      <4>. QED BY <3>1, <4>1, ProductOfSum
    <3>. QED BY <3>1, <3>2 DEF y
  <2>. QED BY <2>1
<1>7. F \in [S -> [T -> IntRq]] /\ G \in [T -> [S -> IntRq]] /\ \A i \in S, j \in T : G[j][i] = F[i][j]
  <2>1. \A i \in S : F[i] \in [T -> IntRq]
    BY <1>4
  <2>2. \A j \in T : G[j] \in [S -> IntRq]
    BY <1>4
  <2>. QED BY <1>4, <2>1, <2>2
<1>8. [j \in T |-> NegMul(u[j], SumOf(Y(j), S))] = [j \in T |-> SumOf(G[j], S)]
  <2>. HIDE DEF G, Y
  <2>. QED BY <1>5
<1>9. [i \in S |-> NegMul(d[i], SumOf(Z(i), T))] = [i \in S |-> SumOf(F[i], T)]
  <2>. HIDE DEF F, Z
  <2>. QED BY <1>6
<1>10. SumOf([i \in S |-> SumOf(F[i], T)], S) = SumOf([j \in T |-> SumOf(G[j], S)], T)
  <2>1. \A j \in T : [i \in S |-> F[i][j]] = G[j]
    BY <1>4
  <2>. HIDE DEF F, G, Y, Z
  <2>2. [j \in T |-> SumOf([i \in S |-> F[i][j]], S)] = [j \in T |-> SumOf(G[j], S)]
    BY <2>1
  <2>3. SumOf([i \in S |-> SumOf(F[i], T)], S) = SumOf([j \in T |-> SumOf([i \in S |-> F[i][j]], S)], T)
    <3>1. F \in [S -> [T -> IntRq]]
      BY <1>7
    <3>. QED BY <3>1, SumOfExchange
  <2>. QED BY <2>2, <2>3
<1>. QED BY <1>8, <1>9, <1>10 DEF ByColumns, ByRows

(* Scaling is a product with a constant.                                    *)
LEMMA ConstantTimes ==
  ASSUME NEW w \in Fp, NEW x \in IntRq
  PROVE  Constant(w) \in IntRq /\ NegMul(Constant(w), x) = ScaledBy(w, x)
<1>1. w \in Int /\ RING_DEGREE \in Nat \ {0}
  BY RingAssumption DEF Fp
<1>2. Constant(w) \in IntRq /\ Constant(w)[0] = w /\ \A k \in Coeff \ {0} : Constant(w)[k] = 0
  BY <1>1, CoeffFacts DEF Constant, IntRq
<1>3. ASSUME NEW p \in Coeff PROVE NegMul(Constant(w), x)[p] = Multiple(w, x)[p]
  <2>. DEFINE f == Term(Constant(w), x, p)
  <2>1. f[0] = w * x[p] /\ f[0] \in Int
    <3>1. Source(0, p) = p /\ ~(p < 0)
      BY <1>1 DEF Source, Coeff
    <3>2. f[0] = w * x[p]
      BY <1>2, <3>1, CoeffFacts DEF Term
    <3>. QED BY <1>2, <3>2, CoeffFacts, ProductIs
  <2>2. ASSUME NEW k \in Coeff \ {0} PROVE f[k] = 0
    <3>1. x[Source(k, p)] \in Int
      BY SourceRange DEF IntRq
    <3>2. 0 * x[Source(k, p)] = 0
      BY <3>1
    <3>3. f[k] = IF p < k THEN -(0 * x[Source(k, p)]) ELSE 0 * x[Source(k, p)]
      BY <1>2 DEF Term
    <3>. QED BY <3>2, <3>3
  <2>. HIDE DEF f
  <2>3. SumFunctionOnSet(f, Coeff) = f[0]
    BY <2>1, <2>2, CoeffFacts, SumSingle
  <2>4. NegMul(Constant(w), x)[p] = SumFunctionOnSet(f, Coeff) % Q
    BY <1>2, ProductIs DEF f
  <2>. QED BY <2>1, <2>3, <2>4 DEF Multiple
<1>4. Multiple(w, x) \in IntRq /\ ScaledBy(w, x) = Multiple(w, x)
  BY <1>1, MultipleIs, RqInt
<1>5. NegMul(Constant(w), x) = Multiple(w, x)
  BY <1>2, <1>3, <1>4, ProductEqual
<1>. QED BY <1>2, <1>4, <1>5

-----------------------------------------------------------------------------
(* FOLDED VECTORS *)

(* n ring elements, and n vectors of w of them.                             *)
RingVectors(n)   == [1 .. n -> Rq]
Tables(n, w) == [1 .. n -> [1 .. w -> Rq]]

(* The combination of n vectors of w entries by n ring elements.            *)
Folded(n, d, X, w) ==
  [j \in 1 .. w |-> SumOf([i \in 1 .. n |-> NegMul(d[i], X[i][j])], 1 .. n)]

LEMMA FoldedType ==
  ASSUME NEW n \in Nat, NEW w \in Nat,
         NEW d \in [1 .. n -> Rq], NEW X \in [1 .. n -> [1 .. w -> Rq]]
  PROVE  /\ IsFiniteSet(1 .. n)
         /\ \A i \in 1 .. n, j \in 1 .. w : d[i] \in IntRq /\ X[i][j] \in IntRq
         /\ \A i \in 1 .. n : X[i] \in Seq(Rq) /\ Len(X[i]) = w
         /\ Folded(n, d, X, w) \in [1 .. w -> Rq]
         /\ Folded(n, d, X, w) \in Seq(Rq) /\ Len(Folded(n, d, X, w)) = w
<1>1. IsFiniteSet(1 .. n)
  BY FS_Interval
<1>2. \A i \in 1 .. n : X[i] \in Seq(Rq) /\ Len(X[i]) = w
  <2>1. ASSUME NEW i \in 1 .. n PROVE X[i] \in Seq(Rq) /\ Len(X[i]) = w
    <3>. DEFINE x == X[i]
    <3>1. x \in [1 .. w -> Rq]
      OBVIOUS
    <3>. HIDE DEF x
    <3>2. x \in Seq(Rq) /\ Len(x) = w
      BY <3>1
    <3>. QED BY <3>2 DEF x
  <2>. QED BY <2>1
<1>3. \A i \in 1 .. n, j \in 1 .. w : d[i] \in IntRq /\ X[i][j] \in IntRq
  <2>1. ASSUME NEW i \in 1 .. n, NEW j \in 1 .. w PROVE d[i] \in IntRq /\ X[i][j] \in IntRq
    <3>1. d[i] \in Rq /\ X[i] \in [1 .. w -> Rq]
      OBVIOUS
    <3>2. X[i][j] \in Rq
      BY <3>1
    <3>. QED BY <3>1, <3>2, RqInt
  <2>. QED BY <2>1
<1>4. ASSUME NEW j \in 1 .. w
      PROVE  SumOf([i \in 1 .. n |-> NegMul(d[i], X[i][j])], 1 .. n) \in Rq
  <2>. DEFINE F == [i \in 1 .. n |-> NegMul(d[i], X[i][j])]
  <2>1. F \in [1 .. n -> IntRq]
    BY <1>3, IntProductType
  <2>. HIDE DEF F
  <2>2. SumOf(F, 1 .. n) \in Rq
    BY <1>1, <2>1, SumOfFacts
  <2>. QED BY <2>2 DEF F
<1>5. Folded(n, d, X, w) \in [1 .. w -> Rq]
  BY <1>4 DEF Folded
<1>6. Folded(n, d, X, w) \in Seq(Rq) /\ Len(Folded(n, d, X, w)) = w
  BY <1>5
<1>. QED BY <1>1, <1>2, <1>3, <1>5, <1>6

(* The combination of a row's products, and of gadgets.                     *)
DotsFolded(u, n, d, X) == SumOf([i \in 1 .. n |-> NegMul(d[i], Dot(u, X[i]))], 1 .. n)
GadgetRows(rows, n, X) == [i \in 1 .. n |-> GadgetMul(rows, X[i])]

(* A row times a combination is the combination of its products.            *)
LEMMA DotOfFolded ==
  ASSUME NEW n \in Nat, NEW w \in Nat,
         NEW d \in RingVectors(n), NEW X \in Tables(n, w), NEW u \in Seq(Rq)
  PROVE  Dot(u, Folded(n, d, X, w)) = DotsFolded(u, n, d, X)
<1>0. d \in [1 .. n -> Rq] /\ X \in [1 .. n -> [1 .. w -> Rq]]
  BY DEF RingVectors, Tables
<1>. DEFINE S == 1 .. n
            T == 1 .. Least(Len(u), w)
            y == Folded(n, d, X, w)
            a == [j \in T |-> u[j]]
            b == [i \in S |-> d[i]]
            Y == [i \in S |-> [j \in T |-> X[i][j]]]
<1>1. /\ IsFiniteSet(S)
      /\ \A i \in S, j \in 1 .. w : d[i] \in IntRq /\ X[i][j] \in IntRq
      /\ \A i \in S : X[i] \in Seq(Rq) /\ Len(X[i]) = w
      /\ y \in Seq(Rq) /\ Len(y) = w
  BY <1>0, FoldedType, ZenonT(60)
<1>2. IsFiniteSet(T) /\ \A j \in T : j \in 1 .. Len(u) /\ j \in 1 .. w /\ u[j] \in IntRq
  <2>. HIDE DEF y
  <2>. QED BY <1>1, DotIs
<1>3. Dot(u, y) = SumOf([j \in T |-> NegMul(u[j], y[j])], T)
  <2>. HIDE DEF y
  <2>. QED BY <1>1, DotIs
<1>4. \A i \in S : Dot(u, X[i]) = SumOf([j \in T |-> NegMul(u[j], X[i][j])], T)
  BY <1>1, DotIs
<1>5. \A j \in T : y[j] = SumOf([i \in S |-> NegMul(d[i], X[i][j])], S)
  BY <1>2 DEF Folded
<1>6. a \in [T -> IntRq] /\ b \in [S -> IntRq] /\ Y \in [S -> [T -> IntRq]]
  <2>1. a \in [T -> IntRq]
    BY <1>2
  <2>2. ASSUME NEW i \in S PROVE b[i] \in IntRq
    <3>1. d[i] \in Rq
      BY <1>0
    <3>. QED BY <3>1, RqInt
  <2>3. \A i \in S : Y[i] \in [T -> IntRq]
    BY <1>1, <1>2
  <2>. QED BY <2>1, <2>2, <2>3
<1>7. SumOf([j \in T |-> NegMul(a[j], SumOf([i \in S |-> NegMul(b[i], Y[i][j])], S))], T)
        = SumOf([i \in S |-> NegMul(b[i], SumOf([j \in T |-> NegMul(a[j], Y[i][j])], T))], S)
  <2>. HIDE DEF S, T, a, b, Y
  <2>1. ByColumns(S, T, a, b, Y) = ByRows(S, T, a, b, Y)
    <3>1. IsFiniteSet(S) /\ IsFiniteSet(T)
      BY <1>1, <1>2
    <3>2. a \in IntMaps(T) /\ b \in IntMaps(S) /\ Y \in IntTables(S, T)
      BY <1>6 DEF IntMaps, IntTables
    <3>. QED BY <3>1, <3>2, FoldExchange
  <2>. QED BY <2>1 DEF ByColumns, ByRows
<1>8. [j \in T |-> NegMul(a[j], SumOf([i \in S |-> NegMul(b[i], Y[i][j])], S))]
        = [j \in T |-> NegMul(u[j], y[j])]
  <2>1. ASSUME NEW j \in T
        PROVE  NegMul(a[j], SumOf([i \in S |-> NegMul(b[i], Y[i][j])], S)) = NegMul(u[j], y[j])
    <3>1. [i \in S |-> NegMul(b[i], Y[i][j])] = [i \in S |-> NegMul(d[i], X[i][j])]
      OBVIOUS
    <3>2. y[j] = SumOf([i \in S |-> NegMul(d[i], X[i][j])], S)
      BY <1>5
    <3>. HIDE DEF b, Y, y
    <3>. QED BY <3>1, <3>2
  <2>. HIDE DEF b, Y, y
  <2>. QED BY <2>1
<1>9. [i \in S |-> NegMul(b[i], SumOf([j \in T |-> NegMul(a[j], Y[i][j])], T))]
        = [i \in S |-> NegMul(d[i], Dot(u, X[i]))]
  <2>1. ASSUME NEW i \in S
        PROVE  NegMul(b[i], SumOf([j \in T |-> NegMul(a[j], Y[i][j])], T)) = NegMul(d[i], Dot(u, X[i]))
    <3>1. [j \in T |-> NegMul(a[j], Y[i][j])] = [j \in T |-> NegMul(u[j], X[i][j])]
      OBVIOUS
    <3>2. Dot(u, X[i]) = SumOf([j \in T |-> NegMul(u[j], X[i][j])], T)
      BY <1>4
    <3>3. b[i] = d[i]
      OBVIOUS
    <3>. HIDE DEF a, Y, b
    <3>. QED BY <3>1, <3>2, <3>3
  <2>. HIDE DEF a, b, Y
  <2>. QED BY <2>1
<1>. QED BY <1>3, <1>7, <1>8, <1>9 DEF DotsFolded

(* The gadget as combinations of entries with constants.                    *)
LEMMA GadgetMulIs ==
  ASSUME NEW rows \in Nat, NEW x \in [1 .. (rows * GADGET_DIGITS) -> Rq]
  PROVE  /\ GadgetMul(rows, x) \in [1 .. rows -> Rq]
         /\ \A i \in 1 .. rows :
              GadgetMul(rows, x)[i]
                = SumOf([e \in Digit |-> NegMul(Constant(BasePow(e)), x[GADGET_DIGITS * (i - 1) + e + 1])], Digit)
<1>. DEFINE D == GADGET_DIGITS
            at(i, e) == D * (i - 1) + e + 1
            P(i) == [e \in Digit |-> NegMul(Constant(BasePow(e)), x[at(i, e)])]
            r == [i \in 1 .. rows |-> SumOf(P(i), Digit)]
<1>1. IsFiniteSet(Digit) /\ D \in Nat \ {0}
  BY GadgetAssumption, FS_Interval DEF Digit
<1>2. \A e \in Digit : BasePow(e) \in Fp
  <2>1. \A e \in Digit : BasePower[e] \in Int
    BY GadgetAssumption, BasePowerFacts DEF Digit
  <2>. QED BY <2>1, ModSmall DEF BasePow
<1>3. ASSUME NEW i \in 1 .. rows, NEW e \in Digit PROVE at(i, e) \in 1 .. (rows * D)
  <2>. HIDE DEF D
  <2>1. e \in 0 .. (D - 1) /\ i \in Int /\ 1 <= i /\ i <= rows
    BY DEF Digit, D
  <2>2. D * (i - 1) \in Int /\ D * (i - 1) >= 0
    BY <1>1, <2>1
  <2>3. D * (i - 1) <= D * (rows - 1)
    BY <1>1, <2>1
  <2>4. D * (rows - 1) = rows * D - D /\ rows * D \in Int
    BY <1>1
  <2>. QED BY <1>1, <2>1, <2>2, <2>3, <2>4
<1>4. ASSUME NEW i \in 1 .. rows, NEW e \in Digit
      PROVE  /\ P(i)[e] \in IntRq
             /\ P(i)[e] = ScaledBy(BasePow(e), x[at(i, e)])
  <2>1. x[at(i, e)] \in Rq
    BY <1>3
  <2>2. x[at(i, e)] \in IntRq
    BY <2>1, RqInt
  <2>. DEFINE z == x[at(i, e)]
  <2>. HIDE DEF z
  <2>3. NegMul(Constant(BasePow(e)), z) \in IntRq /\ NegMul(Constant(BasePow(e)), z) = ScaledBy(BasePow(e), z)
    BY <1>2, <2>2, ConstantTimes, IntProductType DEF z
  <2>. QED BY <2>3 DEF z
<1>5. ASSUME NEW i \in 1 .. rows
      PROVE  /\ SumOf(P(i), Digit) \in Rq
             /\ SumRq(LAMBDA e : ScaledBy(BasePow(e), x[at(i, e)]), Digit) = SumOf(P(i), Digit)
  <2>1. P(i) \in [Digit -> IntRq]
    BY <1>4
  <2>2. SumOf(P(i), Digit) \in Rq
    <3>. DEFINE F == P(i)
    <3>. HIDE DEF F
    <3>1. F \in [Digit -> IntRq]
      BY <2>1 DEF F
    <3>2. SumOf(F, Digit) \in Rq
      BY <1>1, <3>1, SumOfFacts
    <3>. QED BY <3>2 DEF F
  <2>3. SumRq(LAMBDA e : ScaledBy(BasePow(e), x[at(i, e)]), Digit)
          = [p \in Coeff |-> SumFunction([e \in Digit |-> ScaledBy(BasePow(e), x[at(i, e)])[p]]) % Q]
    BY StoredIs DEF SumRq
  <2>4. ASSUME NEW p \in Coeff
        PROVE  SumFunction([e \in Digit |-> ScaledBy(BasePow(e), x[at(i, e)])[p]])
                 = SumFunctionOnSet([e \in Digit |-> P(i)[e][p]], Digit)
    <3>. DEFINE F == P(i)
                g == [e \in Digit |-> ScaledBy(BasePow(e), x[at(i, e)])[p]]
    <3>1. \A e \in Digit : F[e] = ScaledBy(BasePow(e), x[at(i, e)])
      BY <1>4
    <3>. HIDE DEF F
    <3>2. g = [e \in Digit |-> F[e][p]]
      BY <3>1
    <3>3. DOMAIN g = Digit
      OBVIOUS
    <3>. HIDE DEF g
    <3>4. SumFunction(g) = SumFunctionOnSet([e \in Digit |-> F[e][p]], Digit)
      BY <3>2, <3>3 DEF SumFunction
    <3>. QED BY <3>4 DEF F, g
  <2>5. SumRq(LAMBDA e : ScaledBy(BasePow(e), x[at(i, e)]), Digit) = SumOf(P(i), Digit)
    <3>. HIDE DEF P
    <3>. QED BY <2>3, <2>4 DEF SumOf
  <2>. QED BY <2>2, <2>5
<1>6. GadgetMul(rows, x) = StoredVec(r)
  <2>1. GadgetMul(rows, x)
          = StoredVec([i \in 1 .. rows |-> SumRq(LAMBDA e : ScaledBy(BasePow(e), x[at(i, e)]), Digit)])
    BY DEF GadgetMul
  <2>2. [i \in 1 .. rows |-> SumRq(LAMBDA e : ScaledBy(BasePow(e), x[at(i, e)]), Digit)] = r
    <3>. HIDE DEF P, at
    <3>. QED BY <1>5
  <2>. HIDE DEF r
  <2>. QED BY <2>1, <2>2
<1>7. r \in [1 .. rows -> Rq]
  <2>. HIDE DEF P
  <2>. QED BY <1>5
<1>8. StoredVec(r) = r
  <2>. HIDE DEF r
  <2>. QED BY <1>7, StoredVecIs
<1>. QED BY <1>6, <1>7, <1>8

(* The gadget of a combination is the combination of the gadgets.           *)
LEMMA GadgetOfFolded ==
  ASSUME NEW n \in Nat, NEW rows \in Nat, NEW d \in RingVectors(n),
         NEW X \in Tables(n, rows * GADGET_DIGITS)
  PROVE  GadgetMul(rows, Folded(n, d, X, rows * GADGET_DIGITS))
           = Folded(n, d, GadgetRows(rows, n, X), rows)
<1>0. d \in [1 .. n -> Rq] /\ X \in [1 .. n -> [1 .. (rows * GADGET_DIGITS) -> Rq]]
  BY DEF RingVectors, Tables
<1>. DEFINE D == GADGET_DIGITS
            w == rows * D
            S == 1 .. n
            y == Folded(n, d, X, w)
            at(k, e) == D * (k - 1) + e + 1
            G == [i \in S |-> GadgetMul(rows, X[i])]
<1>1. w \in Nat /\ IsFiniteSet(Digit) /\ D \in Nat \ {0}
  BY GadgetAssumption, FS_Interval DEF Digit
<1>2. /\ IsFiniteSet(S)
      /\ \A i \in S, j \in 1 .. w : d[i] \in IntRq /\ X[i][j] \in IntRq
      /\ y \in [1 .. w -> Rq]
  BY <1>0, <1>1, FoldedType
<1>3. ASSUME NEW k \in 1 .. rows, NEW e \in Digit PROVE at(k, e) \in 1 .. w
  <2>. HIDE DEF D
  <2>1. e \in 0 .. (D - 1) /\ k \in Int /\ 1 <= k /\ k <= rows
    BY DEF Digit, D
  <2>2. D * (k - 1) \in Int /\ D * (k - 1) >= 0
    BY <1>1, <2>1
  <2>3. D * (k - 1) <= D * (rows - 1)
    BY <1>1, <2>1
  <2>4. D * (rows - 1) = rows * D - D /\ rows * D \in Int
    BY <1>1
  <2>. QED BY <1>1, <2>1, <2>2, <2>3, <2>4
<1>4. \A e \in Digit : Constant(BasePow(e)) \in IntRq
  <2>1. \A e \in Digit : BasePower[e] \in Int
    BY GadgetAssumption, BasePowerFacts DEF Digit
  <2>2. \A e \in Digit : BasePow(e) \in Fp
    BY <2>1, ModSmall DEF BasePow
  <2>3. OneRq \in IntRq
    BY OneType, RqInt
  <2>. QED BY <2>2, <2>3, ConstantTimes
<1>5. ASSUME NEW k \in 1 .. rows
      PROVE  GadgetMul(rows, y)[k] = SumOf([i \in S |-> NegMul(d[i], G[i][k])], S)
  <2>. DEFINE a == [e \in Digit |-> Constant(BasePow(e))]
              b == [i \in S |-> d[i]]
              Y == [i \in S |-> [e \in Digit |-> X[i][at(k, e)]]]
  <2>1. a \in [Digit -> IntRq] /\ b \in [S -> IntRq] /\ Y \in [S -> [Digit -> IntRq]]
    <3>1. a \in [Digit -> IntRq]
      BY <1>4
    <3>2. ASSUME NEW i \in S PROVE b[i] \in IntRq
      <4>1. d[i] \in Rq
        BY <1>0
      <4>. QED BY <4>1, RqInt
    <3>3. \A i \in S : Y[i] \in [Digit -> IntRq]
      <4>. HIDE DEF at
      <4>. QED BY <1>2, <1>3
    <3>. QED BY <3>1, <3>2, <3>3
  <2>2. SumOf([e \in Digit |-> NegMul(a[e], SumOf([i \in S |-> NegMul(b[i], Y[i][e])], S))], Digit)
          = SumOf([i \in S |-> NegMul(b[i], SumOf([e \in Digit |-> NegMul(a[e], Y[i][e])], Digit))], S)
    <3>. HIDE DEF S, a, b, Y
    <3>1. ByColumns(S, Digit, a, b, Y) = ByRows(S, Digit, a, b, Y)
      <4>1. IsFiniteSet(S) /\ IsFiniteSet(Digit)
        BY <1>1, <1>2
      <4>2. a \in IntMaps(Digit) /\ b \in IntMaps(S) /\ Y \in IntTables(S, Digit)
        BY <2>1 DEF IntMaps, IntTables
      <4>. QED BY <4>1, <4>2, FoldExchange
    <3>. QED BY <3>1 DEF ByColumns, ByRows
  <2>3. GadgetMul(rows, y)[k] = SumOf([e \in Digit |-> NegMul(Constant(BasePow(e)), y[at(k, e)])], Digit)
    <3>. HIDE DEF y
    <3>. QED BY <1>2, GadgetMulIs
  <2>4. [e \in Digit |-> NegMul(Constant(BasePow(e)), y[at(k, e)])]
          = [e \in Digit |-> NegMul(a[e], SumOf([i \in S |-> NegMul(b[i], Y[i][e])], S))]
    <3>1. ASSUME NEW e \in Digit
          PROVE  NegMul(Constant(BasePow(e)), y[at(k, e)])
                   = NegMul(a[e], SumOf([i \in S |-> NegMul(b[i], Y[i][e])], S))
      <4>1. y[at(k, e)] = SumOf([i \in S |-> NegMul(d[i], X[i][at(k, e)])], S)
        <5>. HIDE DEF at
        <5>. QED BY <1>3 DEF Folded
      <4>2. [i \in S |-> NegMul(d[i], X[i][at(k, e)])] = [i \in S |-> NegMul(b[i], Y[i][e])]
        <5>. HIDE DEF at
        <5>. QED OBVIOUS
      <4>3. a[e] = Constant(BasePow(e))
        OBVIOUS
      <4>. HIDE DEF a, b, Y, y, at
      <4>. QED BY <4>1, <4>2, <4>3
    <3>. HIDE DEF a, b, Y, y, at
    <3>. QED BY <3>1
  <2>5. [i \in S |-> NegMul(b[i], SumOf([e \in Digit |-> NegMul(a[e], Y[i][e])], Digit))]
          = [i \in S |-> NegMul(d[i], G[i][k])]
    <3>1. ASSUME NEW i \in S
          PROVE  NegMul(b[i], SumOf([e \in Digit |-> NegMul(a[e], Y[i][e])], Digit)) = NegMul(d[i], G[i][k])
      <4>. DEFINE x == X[i]
      <4>1. x \in [1 .. w -> Rq]
        BY <1>0
      <4>. HIDE DEF x
      <4>2. GadgetMul(rows, x)[k] = SumOf([e \in Digit |-> NegMul(Constant(BasePow(e)), x[at(k, e)])], Digit)
        BY <4>1, GadgetMulIs
      <4>3. [e \in Digit |-> NegMul(a[e], Y[i][e])] = [e \in Digit |-> NegMul(Constant(BasePow(e)), x[at(k, e)])]
        <5>. HIDE DEF at
        <5>. QED BY DEF x
      <4>4. G[i] = GadgetMul(rows, x) /\ b[i] = d[i]
        BY DEF x
      <4>. HIDE DEF a, b, Y, G, at
      <4>. QED BY <4>2, <4>3, <4>4
    <3>. HIDE DEF a, b, Y, G
    <3>. QED BY <3>1
  <2>. HIDE DEF a, b, Y, G, y, S
  <2>. QED BY <2>2, <2>3, <2>4, <2>5
<1>6. GadgetMul(rows, y) \in [1 .. rows -> Rq]
  <2>. HIDE DEF y
  <2>. QED BY <1>2, GadgetMulIs
<1>7. GadgetMul(rows, y) = [k \in 1 .. rows |-> SumOf([i \in S |-> NegMul(d[i], G[i][k])], S)]
  <2>. HIDE DEF y, G, S
  <2>. QED BY <1>5, <1>6
<1>. QED BY <1>7 DEF Folded, GadgetRows

-----------------------------------------------------------------------------
(* POWERS OF TWO *)

LEMMA PowerOfTwoFacts ==
  /\ PowerOfTwo \in [Nat -> Nat \ {0}]
  /\ PowerOfTwo[0] = 1
  /\ \A n \in Nat : PowerOfTwo[n + 1] = 2 * PowerOfTwo[n]
<1>. DEFINE V == Nat \ {0}
            step == [y \in V |-> 2 * y]
            Def(f) == f = [n \in Nat |-> IF n = 0 THEN 1 ELSE 2 * f[n - 1]]
            r == PowerOfTwo
<1>1. 1 \in V /\ step \in [V -> V]
  OBVIOUS
<1>2. PICK f : Iterates(1, step, f) /\ f \in [Nat -> V]
  <2>. HIDE DEF step, V
  <2>. QED BY <1>1, IterationExists
<1>3. Def(f)
  <2>1. \A n \in Nat : f[n] = IF n = 0 THEN 1 ELSE step[f[n - 1]]
    BY <1>2 DEF Iterates
  <2>2. \A n \in Nat : f[n] = IF n = 0 THEN 1 ELSE 2 * f[n - 1]
    <3>1. ASSUME NEW n \in Nat, n # 0 PROVE f[n] = 2 * f[n - 1]
      <4>1. n - 1 \in Nat
        BY <3>1
      <4>2. f[n - 1] \in V
        BY <1>2, <4>1
      <4>. QED BY <2>1, <3>1, <4>2
    <3>. QED BY <2>1, <3>1
  <2>. QED BY <1>2, <2>2
<1>4. Def(r)
  BY <1>3 DEF PowerOfTwo
<1>. HIDE DEF r
<1>5. r[0] = 1
  BY <1>4
<1>6. ASSUME NEW n \in Nat PROVE r[n + 1] = 2 * r[n]
  <2>1. n + 1 \in Nat /\ n + 1 # 0 /\ (n + 1) - 1 = n
    OBVIOUS
  <2>. QED BY <1>4, <2>1
<1>. DEFINE K == { n \in Nat : r[n] \in V }
<1>7. \A n \in Nat : n \in K
  <2>1. 0 \in K
    BY <1>5
  <2>2. ASSUME NEW n \in Nat, n \in K PROVE n + 1 \in K
    BY <1>6, <2>2
  <2>. HIDE DEF K
  <2>. QED BY <2>1, <2>2, NaturalInduction
<1>8. r \in [Nat -> V]
  BY <1>4, <1>7
<1>. QED BY <1>5, <1>6, <1>8 DEF r

-----------------------------------------------------------------------------
(* A SHORT COMBINATION OF DIGITS *)

(* A short element times one whose entries are at most m.                   *)
LEMMA ShortSpan ==
  ASSUME NEW d \in Rq, IsShort(d), NEW s \in Rq, NEW m \in Nat,
         \A k \in Coeff : Magnitude(s[k]) <= m, NEW p \in Coeff
  PROVE  \E t \in Int : /\ t <= OMEGA * m /\ -t <= OMEGA * m
                        /\ NegMul(d, s)[p] = t % Q
<1>. DEFINE U == UnitPasses(d)
            g == [x \in U |-> Signed(d, x[1], p, s[Source(x[1], p)])]
            h == [x \in U |-> Signed(d, x[1], p, Centred(s[Source(x[1], p)]))]
            t == SumFunctionOnSet(h, U)
            n == Cardinality(U)
<1>1. OMEGA \in Nat
  BY RingAssumption
<1>2. IsFiniteSet(U) /\ n \in Nat /\ n <= OMEGA /\ \A x \in U : x[1] \in Coeff
  BY UnitPassesFinite DEF IsShort
<1>3. ASSUME NEW x \in U
      PROVE  /\ g[x] \in Int /\ h[x] \in Int /\ g[x] % Q = h[x] % Q
             /\ h[x] <= m /\ h[x] >= -m
  <2>1. Source(x[1], p) \in Coeff
    BY <1>2, SourceRange
  <2>. DEFINE w == s[Source(x[1], p)]
              a == Centred(w)
              z == Subtracts(IsNegative(d[x[1]]), x[1], p)
  <2>2. w \in Fp /\ w \in Int /\ Magnitude(w) <= m
    BY <2>1, RqInt
  <2>3. g[x] = (IF z THEN -w ELSE w) /\ h[x] = (IF z THEN -a ELSE a)
    BY DEF Signed
  <2>. HIDE DEF w, g, h, z
  <2>4. /\ Magnitude(w) \in Nat /\ a \in Int /\ a <= Magnitude(w) /\ -a <= Magnitude(w)
        /\ (a + 0) % Q = (w + 0) % Q
    BY <2>2, CentredFacts
  <2>. HIDE DEF a
  <2>5. a % Q = w % Q
    BY <2>2, <2>4
  <2>6. (-a) % Q = (-w) % Q
    <3>0. -1 \in Int
      OBVIOUS
    <3>1. ((a % Q) * (-1)) % Q = (a * (-1)) % Q /\ ((w % Q) * (-1)) % Q = (w * (-1)) % Q
      BY <2>2, <2>4, <3>0, ModScale
    <3>2. a * (-1) = -a /\ w * (-1) = -w
      BY <2>2, <2>4
    <3>. QED BY <2>5, <3>1, <3>2
  <2>. QED BY <2>2, <2>3, <2>4, <2>5, <2>6
<1>4. DOMAIN g = U
  OBVIOUS
<1>5. SumFunction(g) % Q = NegMul(d, s)[p]
  BY UnitPassesExact
<1>. HIDE DEF g, h, U
<1>6. t \in Int
  BY <1>2, <1>3, SumInt
<1>7. t <= n * m /\ t >= -(n * m)
  BY <1>2, <1>3, SumBound
<1>8. SumFunction(g) % Q = t % Q
  <2>1. SumFunctionOnSet(g, U) % Q = SumFunctionOnSet(h, U) % Q
    BY <1>2, <1>3, SumModEqual
  <2>. QED BY <1>4, <2>1 DEF SumFunction
<1>. HIDE DEF t, n
<1>9. n * m \in Int /\ OMEGA * m \in Int /\ n * m <= OMEGA * m
  BY <1>1, <1>2
<1>10. t <= OMEGA * m /\ -t <= OMEGA * m /\ NegMul(d, s)[p] = t % Q
  BY <1>5, <1>6, <1>7, <1>8, <1>9
<1>. QED BY <1>6, <1>10

(* A combination by short elements of vectors whose entries are at most m.  *)
LEMMA FoldedShort ==
  ASSUME NEW n \in Nat, NEW w \in Nat, NEW m \in Nat,
         NEW d \in [1 .. n -> Rq], \A i \in 1 .. n : IsShort(d[i]),
         NEW X \in [1 .. n -> [1 .. w -> Rq]],
         \A i \in 1 .. n, j \in 1 .. w, k \in Coeff : Magnitude(X[i][j][k]) <= m,
         NEW j \in 1 .. w, NEW p \in Coeff
  PROVE  Magnitude(Folded(n, d, X, w)[j][p]) <= n * (OMEGA * m)
<1>. DEFINE S == 1 .. n
            b == OMEGA * m
            F == [i \in S |-> NegMul(d[i], X[i][j])]
            f == [i \in S |-> F[i][p]]
            Span(i, t) == t \in Int /\ t <= b /\ -t <= b /\ F[i][p] = t % Q
            g == [i \in S |-> CHOOSE t : Span(i, t)]
            s == SumFunctionOnSet(g, S)
<1>1. b \in Nat
  BY RingAssumption
<1>2. IsFiniteSet(S) /\ Cardinality(S) = n
  BY FS_Interval
<1>3. ASSUME NEW i \in S
      PROVE  F[i] \in IntRq /\ \E t : Span(i, t)
  <2>. DEFINE x == X[i][j]
  <2>1. d[i] \in Rq /\ IsShort(d[i]) /\ \A k \in Coeff : Magnitude(x[k]) <= m
    OBVIOUS
  <2>2. x \in Rq
    <3>1. X[i] \in [1 .. w -> Rq]
      OBVIOUS
    <3>. QED BY <3>1
  <2>3. F[i] = NegMul(d[i], x)
    OBVIOUS
  <2>. HIDE DEF x, F
  <2>4. \E t \in Int : t <= b /\ -t <= b /\ NegMul(d[i], x)[p] = t % Q
    BY <2>1, <2>2, ShortSpan
  <2>5. d[i] \in IntRq /\ x \in IntRq
    BY <2>1, <2>2, RqInt
  <2>. QED BY <2>3, <2>4, <2>5, IntProductType
<1>. HIDE DEF b
<1>4. ASSUME NEW i \in S
      PROVE  f[i] \in Int /\ g[i] \in Int /\ f[i] % Q = g[i] % Q /\ g[i] <= b /\ g[i] >= -b
  <2>1. Span(i, g[i])
    BY <1>3
  <2>. HIDE DEF F, g
  <2>2. f[i] \in Int /\ f[i] = F[i][p]
    BY <1>3 DEF IntRq
  <2>3. g[i] \in Int /\ (g[i] % Q) \in Fp
    BY <2>1, ModSmall
  <2>4. (g[i] % Q) % Q = g[i] % Q
    <3>. DEFINE y == g[i] % Q
    <3>1. y \in Fp /\ y \in Int
      BY <2>3, RingAssumption DEF Fp
    <3>. HIDE DEF y
    <3>2. y % Q = y
      BY <3>1, ModSmall
    <3>. QED BY <3>2 DEF y
  <2>. QED BY <1>1, <2>1, <2>2, <2>4
<1>5. F \in [S -> IntRq]
  <2>1. \A i \in S : F[i] \in IntRq
    BY <1>3
  <2>. QED BY <2>1
<1>6. Folded(n, d, X, w)[j] = SumOf(F, S)
  BY DEF Folded
<1>. HIDE DEF S, F
<1>7. SumOf(F, S)[p] = SumFunctionOnSet(f, S) % Q
  BY <1>2, <1>5, SumOfFacts
<1>. HIDE DEF f, g
<1>8. SumFunctionOnSet(f, S) % Q = s % Q
  BY <1>2, <1>4, SumModEqual
<1>9. s \in Int /\ s <= n * b /\ s >= -(n * b)
  BY <1>1, <1>2, <1>4, SumInt, SumBound
<1>. HIDE DEF s
<1>10. n * b \in Nat /\ -s <= n * b
  BY <1>1, <1>9
<1>. DEFINE M == n * b
<1>. HIDE DEF M
<1>11. Magnitude(s % Q) <= M
  BY <1>9, <1>10, MagnitudeLeast DEF M
<1>. QED BY <1>6, <1>7, <1>8, <1>11 DEF M, b

-----------------------------------------------------------------------------
(* BOUNDED DIGITS OF A VECTOR *)

LEMMA IndexAt ==
  ASSUME NEW D \in Nat \ {0}, NEW n \in Nat, NEW k \in 1 .. (n * D)
  PROVE  (k - 1) \div D + 1 \in 1 .. n /\ (k - 1) % D \in 0 .. (D - 1)
<1>. DEFINE r == (k - 1) \div D
            e == (k - 1) % D
<1>1. k - 1 \in Nat /\ k - 1 < n * D
  OBVIOUS
<1>2. r \in Int /\ e \in 0 .. (D - 1) /\ k - 1 = D * r + e
  BY <1>1
<1>. HIDE DEF r, e
<1>3. ~(r >= n)
  <2>1. SUFFICES ASSUME r >= n PROVE FALSE
    OBVIOUS
  <2>2. D * r >= D * n /\ D * n = n * D
    BY <1>1, <1>2, <2>1
  <2>. QED BY <1>1, <1>2, <2>2
<1>4. ~(r <= -1)
  <2>1. SUFFICES ASSUME r <= -1 PROVE FALSE
    OBVIOUS
  <2>2. D * r <= D * (-1)
    BY <1>1, <1>2, <2>1
  <2>. QED BY <1>1, <1>2, <2>2
<1>. QED BY <1>2, <1>3, <1>4 DEF r, e

(* A digit of a decomposition of n rows has a row and a place.              *)
LEMMA PlaceAt ==
  ASSUME NEW D \in Nat \ {0}, NEW n \in Nat, NEW i \in 1 .. n, NEW e \in 0 .. (D - 1)
  PROVE  /\ D * (i - 1) + e + 1 \in 1 .. (n * D)
         /\ ((D * (i - 1) + e + 1) - 1) \div D + 1 = i
         /\ ((D * (i - 1) + e + 1) - 1) % D = e
<1>1. i - 1 \in Nat /\ D * (i - 1) \in Nat
  OBVIOUS
<1>2. D * (i - 1) <= D * (n - 1)
  OBVIOUS
<1>3. D * (n - 1) = n * D - D /\ n * D \in Int
  OBVIOUS
<1>4. (D * (i - 1) + e + 1) - 1 = D * (i - 1) + e
  BY <1>1
<1>5. (D * (i - 1) + e) \div D = i - 1 /\ (D * (i - 1) + e) % D = e
  BY <1>1, SplitAt
<1>6. D * (i - 1) + e + 1 \in 1 .. (n * D)
  BY <1>1, <1>2, <1>3
<1>. QED BY <1>4, <1>5, <1>6

LEMMA BoundedDecomposition ==
  ASSUME NEW n \in Nat, NEW x \in [1 .. n -> Rq]
  PROVE  /\ BoundedDecompose(x) \in [1 .. (n * Z_DIGITS) -> Rq]
         /\ \A k \in 1 .. (n * Z_DIGITS), p \in Coeff :
              /\ BoundedDecompose(x)[k][p]
                   = BoundedZDigitAt(x[(k - 1) \div Z_DIGITS + 1][p], (k - 1) % Z_DIGITS)
              /\ Boxed(BoundedDecompose(x)[k][p], HALF_BASE)
<1>. DEFINE m == n * Z_DIGITS
            row(k) == (k - 1) \div Z_DIGITS + 1
            place(k) == (k - 1) % Z_DIGITS
            y(k) == [p \in Coeff |-> BoundedZDigitAt(x[row(k)][p], place(k))]
            w == [k \in 1 .. m |-> y(k)]
<1>1. m \in Nat /\ Len(x) = n /\ Z_DIGITS \in Nat \ {0}
  BY BoundedAssumption
<1>2. ASSUME NEW k \in 1 .. m, NEW p \in Coeff
      PROVE  /\ BoundedZDigitAt(x[row(k)][p], place(k)) \in Fp
             /\ Boxed(BoundedZDigitAt(x[row(k)][p], place(k)), HALF_BASE)
  <2>. DEFINE r == row(k)
              e == place(k)
              z == x[r][p]
  <2>1. r \in 1 .. n /\ e \in ZDigit
    BY <1>1, IndexAt DEF ZDigit
  <2>. HIDE DEF r, e
  <2>2. z \in Fp
    <3>1. x[r] \in Rq
      BY <2>1
    <3>. QED BY <3>1, RqInt
  <2>. HIDE DEF z
  <2>3. Boxed(BoundedZDigitAt(z, e), HALF_BASE)
    BY <2>1, <2>2, BoundedBox
  <2>4. Shifted(z) \in Nat /\ e \in Nat
    BY <2>1, <2>2, ShiftedFacts, BoundedAssumption DEF ZDigit
  <2>5. DigitAt(Shifted(z), e) \in 0 .. (GADGET_BASE - 1)
    BY <2>4, DigitRange
  <2>6. BoundedZDigitAt(z, e) \in Fp
    BY <2>5, BoxedDigit, BalancedAssumption DEF BoundedZDigitAt
  <2>. QED BY <2>3, <2>6 DEF z, r, e
<1>3. \A k \in 1 .. m : y(k) \in Rq
  BY <1>2 DEF Rq
<1>4. w \in [1 .. m -> Rq]
  BY <1>3
<1>5. BoundedDecompose(x) = StoredVec(w)
  BY <1>1 DEF BoundedDecompose
<1>6. StoredVec(w) = w
  <2>. HIDE DEF w, m
  <2>. QED BY <1>1, <1>4, StoredVecIs
<1>7. \A k \in 1 .. m, p \in Coeff : w[k][p] = BoundedZDigitAt(x[row(k)][p], place(k))
  OBVIOUS
<1>. HIDE DEF w
<1>8. \A k \in 1 .. m, p \in Coeff : Boxed(w[k][p], HALF_BASE)
  BY <1>2, <1>7
<1>. QED BY <1>4, <1>5, <1>6, <1>7, <1>8

(* j_mul undoes the bounded decomposition of a vector short enough.         *)
LEMMA BoundedRecomposition ==
  ASSUME NEW x \in [1 .. InnerCols -> Rq],
         \A i \in 1 .. InnerCols, p \in Coeff : Magnitude(x[i][p]) <= MaxFolded
  PROVE  JMul(BoundedDecompose(x)) = x
<1>. DEFINE n == InnerCols
            u == BoundedDecompose(x)
            D == Z_DIGITS
<1>0. n \in Nat /\ D \in Nat \ {0} /\ MaxFolded \in Nat
  <2>1. BLOCKS \in Nat
    BY SplitAssumption, PowerOfTwoFacts DEF ML_LOW_LEN
  <2>2. OMEGA * (GADGET_BASE - 1) \in Nat
    BY RingAssumption, BaseFacts
  <2>. QED BY <2>1, <2>2, GadgetAssumption, BoundedAssumption DEF InnerCols, MaxFolded
<1>1. \A k \in 1 .. (n * D), p \in Coeff :
        u[k][p] = BoundedZDigitAt(x[(k - 1) \div D + 1][p], (k - 1) % D)
  BY <1>0, BoundedDecomposition
<1>1a. u \in [1 .. (n * D) -> Rq]
  BY <1>0, BoundedDecomposition
<1>. HIDE DEF u, n
<1>. DEFINE s(i, e) == ScaledBy(BasePow(e), u[D * (i - 1) + e + 1])
            r(i) == [p \in Coeff |-> SumFunction([e \in ZDigit |-> s(i, e)[p]]) % Q]
<1>2. ASSUME NEW i \in 1 .. n, NEW p \in Coeff
      PROVE  SumFunction([e \in ZDigit |-> s(i, e)[p]]) % Q = x[i][p]
  <2>. DEFINE w == x[i][p]
              f == [e \in ZDigit |-> s(i, e)[p]]
              g == [e \in ZDigit |-> BoundedZDigitAt(w, e) * BasePower[e]]
  <2>1. w \in Fp /\ Magnitude(w) <= MaxFolded
    BY DEF Rq, n
  <2>2. ASSUME NEW e \in ZDigit
        PROVE  f[e] \in Int /\ g[e] \in Int /\ f[e] % Q = g[e] % Q
    <3>. DEFINE k == D * (i - 1) + e + 1
                d == BoundedZDigitAt(w, e)
                y == BasePower[e]
    <3>1. /\ k \in 1 .. (n * D)
          /\ (k - 1) \div D + 1 = i /\ (k - 1) % D = e
      <4>1. e \in 0 .. (D - 1)
        BY DEF ZDigit
      <4>. QED BY <1>0, <4>1, PlaceAt
    <3>3. u[k][p] = d
      <4>. HIDE DEF k
      <4>1. u[k][p] = BoundedZDigitAt(x[(k - 1) \div D + 1][p], (k - 1) % D)
        BY <1>1, <3>1
      <4>. QED BY <3>1, <4>1
    <3>4. d \in Int /\ y \in Int
      <4>1. u[k] \in Rq
        <5>. HIDE DEF k
        <5>. QED BY <1>1a, <3>1
      <4>2. u[k][p] \in Int
        BY <4>1, RqInt
      <4>3. e \in Nat
        BY BoundedAssumption DEF ZDigit
      <4>4. y \in Nat
        BY <4>3, BasePowerFacts
      <4>. HIDE DEF d, y
      <4>. QED BY <3>3, <4>2, <4>4
    <3>5. f[e] = ((y % Q) * d) % Q /\ g[e] = d * y
      <4>1. f[e] = (BasePow(e) * u[k][p]) % Q
        BY StoredIs DEF ScaledBy
      <4>. QED BY <3>3, <4>1 DEF BasePow
    <3>. HIDE DEF f, g, d, y
    <3>6. ((y % Q) * d) % Q = (y * d) % Q
      BY <3>4, ModScale
    <3>7. y * d = d * y /\ d * y \in Int
      BY <3>4
    <3>8. f[e] = (d * y) % Q
      BY <3>5, <3>6, <3>7
    <3>9. (d * y) % Q \in Fp
      BY <3>7, ModSmall
    <3>10. f[e] \in Int
      BY <3>8, <3>9, RingAssumption DEF Fp
    <3>. QED BY <3>5, <3>7, <3>8, <3>9, <3>10, ModSmall
  <2>3. DOMAIN f = ZDigit /\ DOMAIN g = ZDigit
    OBVIOUS
  <2>4. SumFunction(g) % Q = w
    <3>. HIDE DEF w
    <3>. QED BY <1>0, <2>1, BoundedExact, BoundAssumption
  <2>5. IsFiniteSet(ZDigit)
    BY BoundedAssumption, FS_Interval DEF ZDigit
  <2>. HIDE DEF f, g, w
  <2>6. SumFunctionOnSet(f, ZDigit) % Q = SumFunctionOnSet(g, ZDigit) % Q
    BY <2>2, <2>5, SumModEqual
  <2>7. SumFunction(f) % Q = w
    BY <2>3, <2>4, <2>6 DEF SumFunction
  <2>. QED BY <2>7 DEF f, w
<1>3. \A i \in 1 .. n : r(i) = x[i]
  BY <1>2 DEF Rq, n
<1>4. JMul(u) = StoredVec([i \in 1 .. n |-> r(i)])
  BY StoredIs DEF JMul, SumRq, n
<1>5. [i \in 1 .. n |-> r(i)] = x
  BY <1>3 DEF n
<1>6. StoredVec(x) = x
  BY <1>0, StoredVecIs DEF n
<1>. QED BY <1>4, <1>5, <1>6 DEF u

-----------------------------------------------------------------------------
(* THE BITS OF AN INDEX *)

LEMMA PowerSum ==
  ASSUME NEW a \in Nat, NEW b \in Nat
  PROVE  PowerOfTwo[a + b] = PowerOfTwo[a] * PowerOfTwo[b]
<1>. DEFINE r == PowerOfTwo
            G == { n \in Nat : r[a + n] = r[a] * r[n] }
<1>1. /\ \A n \in Nat : r[n] \in Nat
      /\ r[0] = 1 /\ \A n \in Nat : r[n + 1] = 2 * r[n]
  BY PowerOfTwoFacts
<1>. HIDE DEF r
<1>2. 0 \in G
  <2>1. a + 0 = a
    OBVIOUS
  <2>. QED BY <1>1, <2>1
<1>3. ASSUME NEW n \in Nat, n \in G PROVE n + 1 \in G
  <2>1. a + (n + 1) = (a + n) + 1 /\ a + n \in Nat
    OBVIOUS
  <2>2. r[(a + n) + 1] = 2 * (r[a] * r[n])
    BY <1>1, <1>3, <2>1
  <2>3. 2 * (r[a] * r[n]) = r[a] * (2 * r[n])
    BY <1>1
  <2>. QED BY <1>1, <2>1, <2>2, <2>3
<1>4. \A n \in Nat : n \in G
  <2>. HIDE DEF G
  <2>. QED BY <1>2, <1>3, NaturalInduction
<1>. QED BY <1>4 DEF r

(* The bits below n do not see what is added above.                         *)
LEMMA BitLow ==
  ASSUME NEW n \in Nat, NEW y \in Nat, NEW x \in Nat, NEW j \in 1 .. n
  PROVE  BitSet(y + PowerOfTwo[n] * x, j) <=> BitSet(y, j)
<1>. DEFINE p == PowerOfTwo[j - 1]
            r == PowerOfTwo[n - j]
            L == PowerOfTwo[n]
            q == y \div p
            e == y % p
            t == r * x
<1>1. p \in Nat \ {0} /\ r \in Nat \ {0} /\ L \in Nat \ {0}
  BY PowerOfTwoFacts
<1>2. L = p * (2 * r)
  <2>1. n = (j - 1) + ((n - j) + 1) /\ n - j \in Nat /\ j - 1 \in Nat /\ (n - j) + 1 \in Nat
    OBVIOUS
  <2>2. L = p * PowerOfTwo[(n - j) + 1]
    BY <2>1, PowerSum
  <2>. QED BY <2>1, <2>2, PowerOfTwoFacts
<1>. HIDE DEF p, r, L
<1>3. y = p * q + e /\ e \in 0 .. (p - 1) /\ q \in Nat
  <2>1. y = p * q + e /\ e \in 0 .. (p - 1) /\ q \in Int
    BY <1>1
  <2>. HIDE DEF q, e
  <2>2. ~(q <= -1)
    <3>1. SUFFICES ASSUME q <= -1 PROVE FALSE
      OBVIOUS
    <3>2. p * q <= p * (-1)
      BY <1>1, <2>1, <3>1
    <3>. QED BY <1>1, <2>1, <3>2
  <2>. QED BY <2>1, <2>2
<1>. HIDE DEF q, e
<1>4. t \in Nat
  BY <1>1
<1>5. L * x = p * (2 * t)
  <2>1. (p * (2 * r)) * x = p * (2 * (r * x))
    BY <1>1
  <2>. QED BY <1>2, <2>1
<1>. HIDE DEF t
<1>6. y + L * x = p * (q + 2 * t) + e
  <2>1. p * (q + 2 * t) = p * q + p * (2 * t) /\ p * q \in Int /\ p * (2 * t) \in Int
    BY <1>1, <1>3, <1>4
  <2>. QED BY <1>3, <1>5, <2>1
<1>7. (y + L * x) \div p = q + 2 * t
  <2>1. q + 2 * t \in Nat
    BY <1>3, <1>4
  <2>. QED BY <1>1, <1>3, <1>6, <2>1, SplitAt
<1>8. (q + 2 * t) % 2 = q % 2
  BY <1>3, <1>4
<1>. QED BY <1>7, <1>8 DEF BitSet, p, L, q

(* The bits from n on are those of what is above.                           *)
LEMMA BitHigh ==
  ASSUME NEW n \in Nat, NEW y \in 0 .. (PowerOfTwo[n] - 1), NEW x \in Nat, NEW j \in Nat \ {0}
  PROVE  BitSet(y + PowerOfTwo[n] * x, n + j) <=> BitSet(x, j)
<1>. DEFINE m == PowerOfTwo[j - 1]
            L == PowerOfTwo[n]
            q == x \div m
            e == x % m
            d == y + L * e
<1>1. m \in Nat \ {0} /\ L \in Nat \ {0} /\ j - 1 \in Nat
  BY PowerOfTwoFacts
<1>2. PowerOfTwo[(n + j) - 1] = L * m
  <2>1. (n + j) - 1 = n + (j - 1)
    OBVIOUS
  <2>. QED BY <1>1, <2>1, PowerSum
<1>3. y \in 0 .. (L - 1)
  OBVIOUS
<1>. HIDE DEF m, L
<1>4. x = m * q + e /\ e \in 0 .. (m - 1) /\ q \in Nat
  <2>1. x = m * q + e /\ e \in 0 .. (m - 1) /\ q \in Int
    BY <1>1
  <2>. HIDE DEF q, e
  <2>2. ~(q <= -1)
    <3>1. SUFFICES ASSUME q <= -1 PROVE FALSE
      OBVIOUS
    <3>2. m * q <= m * (-1)
      BY <1>1, <2>1, <3>1
    <3>. QED BY <1>1, <2>1, <3>2
  <2>. QED BY <2>1, <2>2
<1>. HIDE DEF q, e
<1>5. y + L * x = (L * m) * q + d
  <2>1. L * (m * q + e) = (L * m) * q + L * e
    BY <1>1, <1>4
  <2>2. (L * m) * q \in Int /\ L * e \in Int
    BY <1>1, <1>4
  <2>. QED BY <1>3, <1>4, <2>1, <2>2
<1>6. d \in 0 .. (L * m - 1) /\ L * m \in Nat \ {0}
  <2>1. L * e \in Nat /\ L * e <= L * (m - 1)
    BY <1>1, <1>4
  <2>2. L * (m - 1) = L * m - L /\ L * m \in Nat \ {0}
    BY <1>1
  <2>. QED BY <1>1, <1>3, <2>1, <2>2
<1>. HIDE DEF d
<1>7. (y + L * x) \div (L * m) = q
  BY <1>4, <1>5, <1>6, SplitAt
<1>. QED BY <1>2, <1>7 DEF BitSet, L, q, m

(* An index below 2^n has no bit there, and 2^n above it is just that bit.  *)
LEMMA TopBit ==
  ASSUME NEW n \in Nat, NEW y \in 0 .. (PowerOfTwo[n] - 1)
  PROVE  ~BitSet(y, n + 1) /\ BitSet(y + PowerOfTwo[n], n + 1)
<1>1. PowerOfTwo[n] \in Nat \ {0} /\ PowerOfTwo[0] = 1
  BY PowerOfTwoFacts
<1>2. ~BitSet(0, 1) /\ BitSet(1, 1)
  <2>1. 1 - 1 = 0 /\ (0 \div 1) % 2 = 0 /\ (1 \div 1) % 2 = 1
    OBVIOUS
  <2>. QED BY <1>1, <2>1 DEF BitSet
<1>3. y + PowerOfTwo[n] * 0 = y /\ y + PowerOfTwo[n] * 1 = y + PowerOfTwo[n]
  BY <1>1
<1>4. BitSet(y + PowerOfTwo[n] * 0, n + 1) <=> BitSet(0, 1)
  BY BitHigh
<1>5. BitSet(y + PowerOfTwo[n] * 1, n + 1) <=> BitSet(1, 1)
  BY BitHigh
<1>. QED BY <1>2, <1>3, <1>4, <1>5

-----------------------------------------------------------------------------
(* PRODUCTS OF FACTORS *)

(* The products of the first factors of f, up to n of them.                 *)
AreProducts(f, n, P) == P = [j \in 0 .. n |-> IF j = 0 THEN OneRq ELSE NegMul(P[j - 1], f[j])]

LEMMA ProductsExist ==
  ASSUME NEW f
  PROVE  \A n \in Nat : \E P : AreProducts(f, n, P)
<1>. DEFINE G == { n \in Nat : \E P : AreProducts(f, n, P) }
<1>1. 0 \in G
  <2>. DEFINE P == [k \in 0 .. 0 |-> OneRq]
  <2>1. P = [k \in 0 .. 0 |-> IF k = 0 THEN OneRq ELSE NegMul(P[k - 1], f[k])]
    OBVIOUS
  <2>2. AreProducts(f, 0, P)
    BY <2>1 DEF AreProducts
  <2>. QED BY <2>2
<1>2. ASSUME NEW n \in Nat, NEW P, AreProducts(f, n, P)
      PROVE  \E h : AreProducts(f, n + 1, h)
  <2>. DEFINE last == NegMul(P[n], f[n + 1])
              h == [k \in 0 .. (n + 1) |-> IF k = n + 1 THEN last ELSE P[k]]
              next(k) == IF k = 0 THEN OneRq ELSE NegMul(h[k - 1], f[k])
  <2>1. \A k \in 0 .. n : P[k] = IF k = 0 THEN OneRq ELSE NegMul(P[k - 1], f[k])
    BY <1>2 DEF AreProducts
  <2>2. ASSUME NEW k \in 0 .. (n + 1) PROVE h[k] = next(k)
    <3>1. CASE k = n + 1
      <4>1. k # 0 /\ k - 1 = n /\ n \in 0 .. (n + 1) /\ n # n + 1
        BY <3>1
      <4>2. h[k - 1] = P[n] /\ h[k] = last
        BY <3>1, <4>1
      <4>. HIDE DEF h
      <4>. QED BY <3>1, <4>1, <4>2
    <3>2. CASE k # n + 1
      <4>1. k \in 0 .. n /\ h[k] = P[k]
        BY <3>2
      <4>2. k # 0 => k - 1 \in 0 .. (n + 1) /\ k - 1 # n + 1
        BY <3>2
      <4>3. k # 0 => h[k - 1] = P[k - 1]
        BY <4>2
      <4>. HIDE DEF h
      <4>. QED BY <2>1, <4>1, <4>3
    <3>. QED BY <3>1, <3>2
  <2>3. h = [k \in 0 .. (n + 1) |-> next(k)]
    <3>1. h = [k \in 0 .. (n + 1) |-> h[k]]
      OBVIOUS
    <3>. HIDE DEF h
    <3>. QED BY <2>2, <3>1
  <2>4. AreProducts(f, n + 1, h)
    <3>. HIDE DEF h
    <3>. QED BY <2>3 DEF AreProducts
  <2>. QED BY <2>4
<1>3. \A n \in Nat : n \in G => n + 1 \in G
  BY <1>2
<1>. HIDE DEF G
<1>4. \A n \in Nat : n \in G
  BY <1>1, <1>3, NaturalInduction
<1>. QED BY <1>4 DEF G

Products(f, n) == CHOOSE P : AreProducts(f, n, P)

LEMMA ProductsAre ==
  ASSUME NEW n \in Nat, NEW f \in [1 .. n -> Rq]
  PROVE  /\ Products(f, n)[0] = OneRq
         /\ \A j \in 1 .. n : Products(f, n)[j] = NegMul(Products(f, n)[j - 1], f[j])
         /\ \A j \in 0 .. n : Products(f, n)[j] \in Rq
         /\ ProductOver(f) = Products(f, n)[n]
<1>. DEFINE P == Products(f, n)
            G == { j \in Nat : j <= n => P[j] \in Rq }
<1>1. AreProducts(f, n, P)
  BY ProductsExist DEF Products
<1>2. Len(f) = n
  OBVIOUS
<1>3. ProductOver(f) = P[n]
  BY <1>2 DEF ProductOver, Products, AreProducts
<1>. HIDE DEF P
<1>4. \A j \in 0 .. n : P[j] = IF j = 0 THEN OneRq ELSE NegMul(P[j - 1], f[j])
  BY <1>1 DEF AreProducts
<1>5. P[0] = OneRq /\ \A j \in 1 .. n : P[j] = NegMul(P[j - 1], f[j])
  BY <1>4
<1>6. 0 \in G
  BY <1>5, OneType
<1>7. ASSUME NEW j \in Nat, j \in G PROVE j + 1 \in G
  <2>1. SUFFICES ASSUME j + 1 <= n PROVE P[j + 1] \in Rq
    OBVIOUS
  <2>2. j + 1 \in 1 .. n /\ (j + 1) - 1 = j /\ j <= n
    BY <2>1
  <2>3. P[j + 1] = NegMul(P[j], f[j + 1]) /\ P[j] \in Rq /\ f[j + 1] \in Rq
    BY <1>5, <1>7, <2>2
  <2>. QED BY <2>3, ProductType
<1>8. \A j \in Nat : j \in G
  <2>. HIDE DEF G
  <2>. QED BY <1>6, <1>7, NaturalInduction
<1>9. \A j \in 0 .. n : P[j] \in Rq
  BY <1>8
<1>. QED BY <1>3, <1>5, <1>9 DEF P

(* Products of vectors of factors.                                          *)
Factorings(n) == [1 .. n -> Rq]

(* Where the factors agree, the products do.                                *)
LEMMA ProductsAgree ==
  ASSUME NEW n \in Nat, NEW m \in Nat, NEW i \in Nat, i <= n, i <= m,
         NEW f \in Factorings(n), NEW g \in Factorings(m),
         \A j \in 1 .. i : f[j] = g[j]
  PROVE  Products(f, n)[i] = Products(g, m)[i]
<1>. DEFINE P == Products(f, n)
            R == Products(g, m)
            G == { j \in Nat : j <= i => P[j] = R[j] }
<1>1. P[0] = OneRq /\ \A j \in 1 .. n : P[j] = NegMul(P[j - 1], f[j])
  BY ProductsAre DEF Factorings
<1>2. R[0] = OneRq /\ \A j \in 1 .. m : R[j] = NegMul(R[j - 1], g[j])
  BY ProductsAre DEF Factorings
<1>. HIDE DEF P, R
<1>3. 0 \in G
  BY <1>1, <1>2
<1>4. ASSUME NEW j \in Nat, j \in G PROVE j + 1 \in G
  <2>1. SUFFICES ASSUME j + 1 <= i PROVE P[j + 1] = R[j + 1]
    OBVIOUS
  <2>2. j + 1 \in 1 .. i /\ j + 1 \in 1 .. n /\ j + 1 \in 1 .. m /\ (j + 1) - 1 = j /\ j <= i
    BY <2>1
  <2>3. P[j + 1] = NegMul(P[j], f[j + 1]) /\ R[j + 1] = NegMul(R[j], g[j + 1])
    BY <1>1, <1>2, <2>2
  <2>4. P[j] = R[j] /\ f[j + 1] = g[j + 1]
    BY <1>4, <2>2
  <2>. QED BY <2>3, <2>4
<1>5. \A j \in Nat : j \in G
  <2>. HIDE DEF G
  <2>. QED BY <1>3, <1>4, NaturalInduction
<1>. QED BY <1>5 DEF P, R

(* A list of factors in two parts is the product of the parts.              *)
LEMMA ProductInParts ==
  ASSUME NEW n \in Nat, NEW m \in Nat,
         NEW f \in Factorings(n), NEW g \in Factorings(m), NEW h \in Factorings(n + m),
         \A j \in 1 .. n : h[j] = f[j], \A j \in 1 .. m : h[n + j] = g[j]
  PROVE  ProductOver(h) = NegMul(ProductOver(f), ProductOver(g))
<1>. DEFINE P == Products(h, n + m)
            F == Products(f, n)
            R == Products(g, m)
            G == { j \in Nat : j <= m => P[n + j] = NegMul(F[n], R[j]) }
<1>0. n + m \in Nat
  OBVIOUS
<1>1. /\ P[0] = OneRq /\ \A j \in 1 .. (n + m) : P[j] = NegMul(P[j - 1], h[j])
      /\ ProductOver(h) = P[n + m]
  <2>1. h \in [1 .. (n + m) -> Rq]
    BY DEF Factorings
  <2>. QED BY <1>0, <2>1, ProductsAre
<1>2. /\ F[n] \in Rq /\ ProductOver(f) = F[n]
  BY ProductsAre DEF Factorings
<1>3. /\ R[0] = OneRq /\ \A j \in 1 .. m : R[j] = NegMul(R[j - 1], g[j])
      /\ \A j \in 0 .. m : R[j] \in Rq
      /\ ProductOver(g) = R[m]
  BY ProductsAre DEF Factorings
<1>4. P[n] = F[n]
  <2>1. n <= n + m /\ n <= n
    OBVIOUS
  <2>. QED BY <1>0, <2>1, ProductsAgree
<1>. HIDE DEF P, F, R
<1>5. 0 \in G
  <2>1. NegMul(F[n], OneRq) = F[n]
    <3>1. F[n] \in IntRq /\ OneRq \in IntRq
      BY <1>2, OneType, RqInt
    <3>2. NegMul(F[n], OneRq) = NegMul(OneRq, F[n])
      BY <3>1, ProductCommutes
    <3>. QED BY <1>2, <3>2, OneTimes
  <2>2. n + 0 = n
    OBVIOUS
  <2>. QED BY <1>3, <1>4, <2>1, <2>2
<1>6. ASSUME NEW j \in Nat, j \in G PROVE j + 1 \in G
  <2>1. SUFFICES ASSUME j + 1 <= m PROVE P[n + (j + 1)] = NegMul(F[n], R[j + 1])
    OBVIOUS
  <2>2. /\ j + 1 \in 1 .. m /\ n + (j + 1) \in 1 .. (n + m) /\ (n + (j + 1)) - 1 = n + j
        /\ j <= m /\ (j + 1) - 1 = j /\ j \in 0 .. m
    BY <2>1
  <2>3. P[n + (j + 1)] = NegMul(P[n + j], h[n + (j + 1)])
    BY <1>1, <2>2
  <2>4. h[n + (j + 1)] = g[j + 1]
    BY <2>2
  <2>5. P[n + j] = NegMul(F[n], R[j])
    BY <1>6, <2>2
  <2>6. R[j + 1] = NegMul(R[j], g[j + 1])
    BY <1>3, <2>2
  <2>7. F[n] \in IntRq /\ R[j] \in IntRq /\ g[j + 1] \in IntRq
    BY <1>2, <1>3, <2>2, RqInt DEF Factorings
  <2>8. NegMul(NegMul(F[n], R[j]), g[j + 1]) = NegMul(F[n], NegMul(R[j], g[j + 1]))
    BY <2>7, ProductAssociates
  <2>. QED BY <2>3, <2>4, <2>5, <2>6, <2>8
<1>7. \A j \in Nat : j \in G
  <2>. HIDE DEF G
  <2>. QED BY <1>5, <1>6, NaturalInduction
<1>. QED BY <1>1, <1>2, <1>3, <1>7

-----------------------------------------------------------------------------
(* THE BASES OF A POINT *)

(* The vectors built coordinate by coordinate, of either basis.             *)
Kept(lag, out, x) ==
  IF lag THEN StoredVec([i \in DOMAIN out |-> AddRq(out[i], NegRq(TimesEach(out, x)[i]))]) ELSE out
Grown(lag, out, x) == Kept(lag, out, x) \o TimesEach(out, x)
AreGrown(lag, w, n, f) ==
  f = [k \in 0 .. n |-> IF k = 0 THEN <<OneRq>> ELSE Grown(lag, f[k - 1], w[k])]
Basis(lag, w) == IF lag THEN LagrangeBasis(w) ELSE MonomialBasis(w)

(* What a coordinate contributes to an entry, by the bit of its index.      *)
Factor(lag, set, x) == IF set THEN x ELSE IF lag THEN AddRq(OneRq, NegRq(x)) ELSE OneRq
Factors(lag, k, x)  == [j \in DOMAIN x |-> Factor(lag, BitSet(k, j), x[j])]

LEMMA GrownExist ==
  ASSUME NEW lag, NEW w
  PROVE  \A n \in Nat : \E f : AreGrown(lag, w, n, f)
<1>. DEFINE G == { n \in Nat : \E f : AreGrown(lag, w, n, f) }
<1>1. 0 \in G
  <2>. DEFINE f == [k \in 0 .. 0 |-> <<OneRq>>]
  <2>1. f = [k \in 0 .. 0 |-> IF k = 0 THEN <<OneRq>> ELSE Grown(lag, f[k - 1], w[k])]
    OBVIOUS
  <2>2. AreGrown(lag, w, 0, f)
    BY <2>1 DEF AreGrown
  <2>. QED BY <2>2
<1>2. ASSUME NEW n \in Nat, NEW f, AreGrown(lag, w, n, f)
      PROVE  \E h : AreGrown(lag, w, n + 1, h)
  <2>. DEFINE last == Grown(lag, f[n], w[n + 1])
              h == [k \in 0 .. (n + 1) |-> IF k = n + 1 THEN last ELSE f[k]]
              next(k) == IF k = 0 THEN <<OneRq>> ELSE Grown(lag, h[k - 1], w[k])
  <2>1. \A k \in 0 .. n : f[k] = IF k = 0 THEN <<OneRq>> ELSE Grown(lag, f[k - 1], w[k])
    BY <1>2 DEF AreGrown
  <2>2. ASSUME NEW k \in 0 .. (n + 1) PROVE h[k] = next(k)
    <3>1. CASE k = n + 1
      <4>1. k # 0 /\ k - 1 = n /\ n \in 0 .. (n + 1) /\ n # n + 1
        BY <3>1
      <4>2. h[k - 1] = f[n] /\ h[k] = last
        BY <3>1, <4>1
      <4>. HIDE DEF h
      <4>. QED BY <3>1, <4>1, <4>2
    <3>2. CASE k # n + 1
      <4>1. k \in 0 .. n /\ h[k] = f[k]
        BY <3>2
      <4>2. k # 0 => k - 1 \in 0 .. (n + 1) /\ k - 1 # n + 1
        BY <3>2
      <4>3. k # 0 => h[k - 1] = f[k - 1]
        BY <4>2
      <4>. HIDE DEF h
      <4>. QED BY <2>1, <4>1, <4>3
    <3>. QED BY <3>1, <3>2
  <2>3. h = [k \in 0 .. (n + 1) |-> next(k)]
    <3>1. h = [k \in 0 .. (n + 1) |-> h[k]]
      OBVIOUS
    <3>. HIDE DEF h
    <3>. QED BY <2>2, <3>1
  <2>4. AreGrown(lag, w, n + 1, h)
    <3>. HIDE DEF h
    <3>. QED BY <2>3 DEF AreGrown
  <2>. QED BY <2>4
<1>3. \A n \in Nat : n \in G => n + 1 \in G
  BY <1>2
<1>. HIDE DEF G
<1>4. \A n \in Nat : n \in G
  BY <1>1, <1>3, NaturalInduction
<1>. QED BY <1>4 DEF G


LEMMA FactorType ==
  ASSUME NEW lag \in BOOLEAN, NEW set \in BOOLEAN, NEW x \in Rq
  PROVE  Factor(lag, set, x) \in Rq
<1>1. x \in IntRq /\ OneRq \in IntRq
  BY OneType, RqInt
<1>2. AddRq(OneRq, NegRq(x)) \in Rq
  BY <1>1, DifferenceIs
<1>. QED BY <1>2, OneType DEF Factor

LEMMA FactorsType ==
  ASSUME NEW lag \in BOOLEAN, NEW k, NEW n \in Nat, NEW x \in [1 .. n -> Rq]
  PROVE  Factors(lag, k, x) \in [1 .. n -> Rq]
<1>1. \A j \in 1 .. n : Factor(lag, BitSet(k, j), x[j]) \in Rq
  <2>1. \A j \in 1 .. n : BitSet(k, j) \in BOOLEAN /\ x[j] \in Rq
    BY DEF BitSet
  <2>. QED BY <2>1, FactorType
<1>2. DOMAIN x = 1 .. n
  OBVIOUS
<1>. QED BY <1>1, <1>2 DEF Factors

(* A step doubles the vector: each entry times the factor of a clear bit,   *)
(* then each times that of a set one.                                       *)
LEMMA GrownFacts ==
  ASSUME NEW lag \in BOOLEAN, NEW out \in Seq(Rq), NEW x \in Rq
  PROVE  LET n == Len(out)
             g == Grown(lag, out, x)
         IN  /\ g \in Seq(Rq) /\ Len(g) = 2 * n
             /\ \A i \in 1 .. n : /\ g[i] = NegMul(out[i], Factor(lag, FALSE, x))
                                  /\ g[n + i] = NegMul(out[i], Factor(lag, TRUE, x))
<1>. DEFINE n == Len(out)
            t == [i \in 1 .. n |-> NegMul(out[i], x)]
            d == [i \in 1 .. n |-> AddRq(out[i], NegRq(t[i]))]
            z == Factor(lag, FALSE, x)
            u == Kept(lag, out, x)
            g == Grown(lag, out, x)
<1>1. n \in Nat /\ DOMAIN out = 1 .. n /\ x \in IntRq /\ OneRq \in IntRq
      /\ \A i \in 1 .. n : out[i] \in Rq /\ out[i] \in IntRq
  BY SeqEntries, OneType, RqInt
<1>. HIDE DEF n
<1>2. t \in [1 .. n -> Rq]
  BY <1>1, ProductType
<1>3. TimesEach(out, x) = StoredVec(t)
  BY <1>1 DEF TimesEach
<1>4. \A i \in 1 .. n : t[i] = NegMul(out[i], x)
  OBVIOUS
<1>. HIDE DEF t
<1>5. TimesEach(out, x) = t /\ t \in Seq(Rq) /\ Len(t) = n
  BY <1>1, <1>2, <1>3, StoredVecIs
<1>6. ASSUME NEW i \in 1 .. n
      PROVE  /\ NegMul(out[i], OneRq) = out[i]
             /\ AddRq(out[i], NegRq(t[i])) = NegMul(out[i], AddRq(OneRq, NegRq(x)))
             /\ AddRq(out[i], NegRq(t[i])) \in Rq
  <2>1. out[i] \in Rq /\ out[i] \in IntRq /\ t[i] \in IntRq
    BY <1>1, <1>2, RqInt
  <2>2. NegMul(out[i], OneRq) = out[i]
    <3>1. NegMul(out[i], OneRq) = NegMul(OneRq, out[i])
      BY <1>1, <2>1, ProductCommutes
    <3>. QED BY <2>1, <3>1, OneTimes
  <2>3. AddRq(out[i], NegRq(t[i])) = Difference(out[i], t[i]) /\ Difference(out[i], t[i]) \in Rq
    BY <2>1, DifferenceIs
  <2>4. AddRq(OneRq, NegRq(x)) = Difference(OneRq, x)
    BY <1>1, DifferenceIs
  <2>5. NegMul(out[i], Difference(OneRq, x)) = Difference(NegMul(out[i], OneRq), NegMul(out[i], x))
    BY <1>1, <2>1, ProductOfDifference
  <2>. QED BY <1>4, <2>2, <2>3, <2>4, <2>5
<1>7. d \in [1 .. n -> Rq]
  BY <1>6
<1>8. u = IF lag THEN StoredVec(d) ELSE out
  BY <1>1, <1>5 DEF Kept
<1>. HIDE DEF u
<1>9. \A i \in 1 .. n : d[i] = NegMul(out[i], AddRq(OneRq, NegRq(x)))
  BY <1>6
<1>. HIDE DEF d
<1>10. StoredVec(d) = d /\ d \in Seq(Rq) /\ Len(d) = n
  BY <1>1, <1>7, StoredVecIs
<1>11. u \in Seq(Rq) /\ Len(u) = n
  BY <1>8, <1>10 DEF n
<1>12. \A i \in 1 .. n : u[i] = NegMul(out[i], z)
  <2>1. CASE lag
    BY <1>8, <1>9, <1>10, <2>1 DEF Factor
  <2>2. CASE ~lag
    BY <1>6, <1>8, <2>2 DEF Factor
  <2>. QED BY <2>1, <2>2
<1>13. g = u \o t
  BY <1>5 DEF Grown, u
<1>. HIDE DEF g, z
<1>14. g \in Seq(Rq) /\ Len(g) = n + n
  <2>1. u \o t \in Seq(Rq)
    BY <1>5, <1>11, ConcatProperties
  <2>2. Len(u \o t) = Len(u) + Len(t)
    BY <1>5, <1>11, ConcatProperties
  <2>. QED BY <1>5, <1>11, <1>13, <2>1, <2>2
<1>15. ASSUME NEW i \in 1 .. n PROVE g[i] = u[i] /\ g[n + i] = t[i]
  <2>1. i \in 1 .. (n + n) /\ n + i \in 1 .. (n + n) /\ ~(n + i <= n) /\ (n + i) - n = i /\ i <= n
    BY <1>1
  <2>. QED BY <1>5, <1>11, <1>13, <2>1, ConcatProperties
<1>16. Factor(lag, TRUE, x) = x
  BY DEF Factor
<1>17. n + n = 2 * n
  BY <1>1
<1>. QED BY <1>4, <1>12, <1>14, <1>15, <1>16, <1>17 DEF n, g, z

(* Entry k of a basis is the product of the factors of the bits of k.       *)
LEMMA BasisIs ==
  ASSUME NEW lag \in BOOLEAN, NEW n \in Nat, NEW w \in [1 .. n -> Rq]
  PROVE  /\ Basis(lag, w) \in Seq(Rq) /\ Len(Basis(lag, w)) = PowerOfTwo[n]
         /\ \A k \in 0 .. (PowerOfTwo[n] - 1) : Basis(lag, w)[k + 1] = ProductOver(Factors(lag, k, w))
<1>. DEFINE f == CHOOSE g : AreGrown(lag, w, n, g)
            R(k) == Products(Factors(lag, k, w), n)
            b(m) == f[m]
            L(m) == PowerOfTwo[m]
            Good(m) == /\ b(m) \in Seq(Rq) /\ Len(b(m)) = L(m)
                       /\ \A k \in 0 .. (L(m) - 1) : b(m)[k + 1] = R(k)[m]
            G == { m \in Nat : m <= n => Good(m) }
<1>1. Len(w) = n
  OBVIOUS
<1>2. Basis(lag, w) = f[n]
  <2>1. CASE lag
    BY <1>1, <2>1 DEF Basis, LagrangeBasis, Doubling, AreGrown, Grown, Kept
  <2>2. CASE ~lag
    BY <1>1, <2>2 DEF Basis, MonomialBasis, Doubling, AreGrown, Grown, Kept
  <2>. QED BY <2>1, <2>2
<1>3. AreGrown(lag, w, n, f)
  BY GrownExist
<1>. HIDE DEF f
<1>4. \A m \in 0 .. n : f[m] = IF m = 0 THEN <<OneRq>> ELSE Grown(lag, f[m - 1], w[m])
  BY <1>3 DEF AreGrown
<1>5. \A k : Factors(lag, k, w) \in Factorings(n)
  BY FactorsType DEF Factorings
<1>6. \A k : /\ R(k)[0] = OneRq
             /\ \A j \in 1 .. n : R(k)[j] = NegMul(R(k)[j - 1], Factors(lag, k, w)[j])
             /\ ProductOver(Factors(lag, k, w)) = R(k)[n]
  BY <1>5, ProductsAre DEF Factorings
<1>7. \A k, i : i \in Nat /\ i <= n => \A l : (\A j \in 1 .. i : BitSet(k, j) <=> BitSet(l, j)) => R(k)[i] = R(l)[i]
  <2>1. SUFFICES ASSUME NEW k, NEW i \in Nat, i <= n, NEW l, \A j \in 1 .. i : BitSet(k, j) <=> BitSet(l, j)
                 PROVE  R(k)[i] = R(l)[i]
    OBVIOUS
  <2>2. ASSUME NEW j \in 1 .. i PROVE Factors(lag, k, w)[j] = Factors(lag, l, w)[j]
    <3>1. j \in 1 .. n
      BY <2>1
    <3>2. BitSet(k, j) = BitSet(l, j)
      BY <2>1 DEF BitSet
    <3>. QED BY <3>1, <3>2 DEF Factors
  <2>. QED BY <1>5, <2>1, <2>2, ProductsAgree
<1>. HIDE DEF R
<1>8. 0 \in G
  <2>1. f[0] = <<OneRq>> /\ L(0) = 1
    <3>1. 0 \in 0 .. n
      OBVIOUS
    <3>2. f[0] = <<OneRq>>
      BY <1>4, <3>1
    <3>. QED BY <3>2, PowerOfTwoFacts
  <2>2. <<OneRq>> \in Seq(Rq) /\ Len(<<OneRq>>) = 1 /\ <<OneRq>>[1] = OneRq
    BY OneType
  <2>3. \A k \in 0 .. (1 - 1) : k = 0 /\ k + 1 = 1
    OBVIOUS
  <2>. QED BY <1>6, <2>1, <2>2, <2>3
<1>9. ASSUME NEW m \in Nat, m \in G PROVE m + 1 \in G
  <2>1. SUFFICES ASSUME m + 1 <= n PROVE Good(m + 1)
    OBVIOUS
  <2>2. m + 1 \in 0 .. n /\ m + 1 # 0 /\ (m + 1) - 1 = m /\ m <= n /\ m + 1 \in 1 .. n
    BY <2>1
  <2>. DEFINE x == w[m + 1]
              h == f[m]
              g == f[m + 1]
              H == L(m)
  <2>3. g = Grown(lag, h, x)
    BY <1>4, <2>2
  <2>4. x \in Rq /\ H \in Nat \ {0} /\ L(m + 1) = 2 * H
    BY <2>2, PowerOfTwoFacts
  <2>5. h \in Seq(Rq) /\ Len(h) = H /\ \A k \in 0 .. (H - 1) : h[k + 1] = R(k)[m]
    BY <1>9, <2>2
  <2>. HIDE DEF x, h, g
  <2>6. /\ g \in Seq(Rq) /\ Len(g) = 2 * H
        /\ \A i \in 1 .. H : /\ g[i] = NegMul(h[i], Factor(lag, FALSE, x))
                             /\ g[H + i] = NegMul(h[i], Factor(lag, TRUE, x))
    <3>1. LET i == Len(h)
              y == Grown(lag, h, x)
          IN  /\ y \in Seq(Rq) /\ Len(y) = 2 * i
              /\ \A k \in 1 .. i : /\ y[k] = NegMul(h[k], Factor(lag, FALSE, x))
                                   /\ y[i + k] = NegMul(h[k], Factor(lag, TRUE, x))
      BY <2>4, <2>5, GrownFacts
    <3>2. Len(h) = H
      BY <2>5
    <3>. HIDE DEF H
    <3>. QED BY <2>3, <3>1, <3>2
  <2>7. ASSUME NEW k
        PROVE  R(k)[m + 1] = NegMul(R(k)[m], Factor(lag, BitSet(k, m + 1), x))
    <3>1. R(k)[m + 1] = NegMul(R(k)[m], Factors(lag, k, w)[m + 1])
      BY <1>6, <2>2
    <3>. QED BY <2>2, <3>1 DEF Factors, x
  <2>8. ASSUME NEW k \in 0 .. (2 * H - 1) PROVE g[k + 1] = R(k)[m + 1]
    <3>1. CASE k < H
      <4>1. k \in 0 .. (H - 1) /\ k + 1 \in 1 .. H
        BY <2>4, <3>1
      <4>2. BitSet(k, m + 1) = FALSE
        BY <4>1, TopBit DEF BitSet
      <4>3. g[k + 1] = NegMul(h[k + 1], Factor(lag, FALSE, x)) /\ h[k + 1] = R(k)[m]
        BY <2>5, <2>6, <4>1
      <4>. QED BY <2>7, <4>2, <4>3
    <3>2. CASE k >= H
      <4>. DEFINE r == k - H
      <4>1. r \in 0 .. (H - 1) /\ r + 1 \in 1 .. H /\ k = r + H /\ k + 1 = H + (r + 1) /\ k = r + H * 1
        BY <2>4, <3>2
      <4>. HIDE DEF r
      <4>2. BitSet(k, m + 1) = TRUE
        BY <4>1, TopBit DEF BitSet
      <4>3. \A j \in 1 .. m : BitSet(k, j) <=> BitSet(r, j)
        BY <4>1, BitLow
      <4>4. R(k)[m] = R(r)[m]
        BY <1>7, <2>2, <4>3
      <4>5. g[k + 1] = NegMul(h[r + 1], Factor(lag, TRUE, x))
        BY <2>6, <4>1
      <4>6. h[r + 1] = R(r)[m]
        BY <2>5, <4>1
      <4>. QED BY <2>7, <4>2, <4>4, <4>5, <4>6
    <3>. QED BY <2>4, <3>1, <3>2
  <2>. HIDE DEF H
  <2>9. Good(m + 1)
    BY <2>4, <2>6, <2>8 DEF g
  <2>. QED BY <2>9
<1>10. \A m \in Nat : m \in G
  <2>. HIDE DEF G
  <2>. QED BY <1>8, <1>9, NaturalInduction
<1>11. Good(n)
  BY <1>10
<1>. QED BY <1>2, <1>6, <1>11

(* The basis of n coordinates has 2^n elements.                             *)
LEMMA BasisType ==
  ASSUME NEW n \in Nat, NEW w \in [1 .. n -> Rq]
  PROVE  MonomialBasis(w) \in Seq(Rq) /\ Len(MonomialBasis(w)) = PowerOfTwo[n]
<1>1. Basis(FALSE, w) \in Seq(Rq) /\ Len(Basis(FALSE, w)) = PowerOfTwo[n]
  BY BasisIs
<1>. QED BY <1>1 DEF Basis

-----------------------------------------------------------------------------
(* A SUM OVER A GRID *)

(* The sum of a shifted stretch.                                            *)
LEMMA SumShift ==
  ASSUME NEW B \in Nat, NEW L \in Nat, NEW f, NEW g,
         \A i \in 1 .. L : f[i + B] \in Int /\ g[i] = f[i + B]
  PROVE  SumFunctionOnSet(g, 1 .. L) = SumFunctionOnSet(f, (B + 1) .. (B + L))
<1>. DEFINE S == 1 .. L
            shift == [i \in S |-> i + B]
<1>1. \A x, y \in S : shift[x] = shift[y] => x = y
  OBVIOUS
<1>2. \A x \in S : f[shift[x]] \in Int /\ g[x] = f[shift[x]]
  OBVIOUS
<1>3. { shift[x] : x \in S } = (B + 1) .. (B + L)
  <2>1. ASSUME NEW k \in (B + 1) .. (B + L) PROVE k \in { shift[x] : x \in S }
    <3>1. k - B \in S /\ shift[k - B] = k
      OBVIOUS
    <3>. QED BY <3>1
  <2>2. \A i \in S : shift[i] \in (B + 1) .. (B + L)
    OBVIOUS
  <2>. QED BY <2>1, <2>2
<1>4. IsFiniteSet(S)
  BY FS_Interval
<1>. HIDE DEF S, shift
<1>5. SumFunctionOnSet(g, S) = SumFunctionOnSet(f, { shift[x] : x \in S })
  BY <1>1, <1>2, <1>4, SumReindex
<1>. QED BY <1>3, <1>5 DEF S

(* The cells of a column, and the columns' sums.                            *)
ColumnSums(L, H, f, d) ==
  /\ \A k \in 1 .. (L * H) : f[k] \in Int
  /\ \A j \in 1 .. H : d[j] = SumFunctionOnSet([i \in 1 .. L |-> f[i + L * (j - 1)]], 1 .. L)

LEMMA GridColumns ==
  ASSUME NEW L \in Nat \ {0}, NEW H \in Nat, NEW f, NEW d, ColumnSums(L, H, f, d)
  PROVE  SumFunctionOnSet(f, 1 .. (L * H)) = SumFunctionOnSet(d, 1 .. H)
<1>. DEFINE G == { h \in Nat : h <= H => SumFunctionOnSet(f, 1 .. (L * h)) = SumFunctionOnSet(d, 1 .. h) }
<1>0. /\ \A k \in 1 .. (L * H) : f[k] \in Int
      /\ \A j \in 1 .. H : d[j] = SumFunctionOnSet([i \in 1 .. L |-> f[i + L * (j - 1)]], 1 .. L)
  BY DEF ColumnSums
<1>1. 0 \in G
  <2>1. 1 .. (L * 0) = {} /\ 1 .. 0 = {}
    OBVIOUS
  <2>2. SumFunctionOnSet(f, {}) = 0 /\ SumFunctionOnSet(d, {}) = 0
    BY SumEmpty
  <2>. QED BY <2>1, <2>2
<1>2. ASSUME NEW h \in Nat, h \in G PROVE h + 1 \in G
  <2>1. SUFFICES ASSUME h + 1 <= H
                 PROVE  SumFunctionOnSet(f, 1 .. (L * (h + 1))) = SumFunctionOnSet(d, 1 .. (h + 1))
    OBVIOUS
  <2>. DEFINE S == 1 .. L
              B == L * h
              g == [i \in S |-> f[i + B]]
              T == (B + 1) .. (B + L)
  <2>2. h <= H /\ h + 1 \in 1 .. H /\ (h + 1) - 1 = h
    BY <2>1
  <2>3. B \in Nat /\ L * (h + 1) = B + L /\ B + L <= L * H
    <3>1. L * (h + 1) <= L * H
      BY <2>1
    <3>2. L * (h + 1) = L * h + L /\ L * h \in Nat
      OBVIOUS
    <3>. QED BY <3>1, <3>2
  <2>4. d[h + 1] = SumFunctionOnSet(g, S)
    BY <1>0, <2>2
  <2>5. \A i \in S : f[i + B] \in Int
    <3>. HIDE DEF B
    <3>1. \A i \in S : i + B \in 1 .. (L * H)
      BY <2>3
    <3>. QED BY <1>0, <3>1
  <2>. HIDE DEF B
  <2>6. IsFiniteSet(S) /\ IsFiniteSet(1 .. B) /\ IsFiniteSet(1 .. h)
    BY <2>3, FS_Interval
  <2>7. SumFunctionOnSet(g, S) = SumFunctionOnSet(f, T)
    <3>1. \A i \in 1 .. L : f[i + B] \in Int /\ g[i] = f[i + B]
      BY <2>5
    <3>. HIDE DEF g
    <3>. QED BY <2>3, <3>1, SumShift
  <2>. HIDE DEF T
  <2>9. /\ 1 .. (L * (h + 1)) = (1 .. B) \cup T /\ (1 .. B) \cap T = {}
        /\ \A x \in (1 .. B) \cup T : f[x] \in Int
    <3>1. 1 .. (B + L) = (1 .. B) \cup ((B + 1) .. (B + L)) /\ (1 .. B) \cap ((B + 1) .. (B + L)) = {}
      BY <2>3
    <3>2. \A x \in 1 .. (B + L) : x \in 1 .. (L * H)
      BY <2>3
    <3>3. \A x \in 1 .. (B + L) : f[x] \in Int
      BY <1>0, <3>2
    <3>. QED BY <2>3, <3>1, <3>3 DEF T
  <2>10. IsFiniteSet(T)
    BY <2>3, FS_Interval DEF T
  <2>11. SumFunctionOnSet(f, (1 .. B) \cup T) = SumFunctionOnSet(f, 1 .. B) + SumFunctionOnSet(f, T)
    BY <2>6, <2>9, <2>10, SumDisjoint
  <2>12. SumFunctionOnSet(f, 1 .. B) = SumFunctionOnSet(d, 1 .. h)
    BY <1>2, <2>2 DEF B
  <2>13. \A j \in 1 .. (h + 1) : d[j] \in Int
    <3>1. SUFFICES ASSUME NEW j \in 1 .. (h + 1) PROVE d[j] \in Int
      OBVIOUS
    <3>2. j \in 1 .. H
      BY <2>1
    <3>. DEFINE e == [i \in 1 .. L |-> f[i + L * (j - 1)]]
    <3>3. d[j] = SumFunctionOnSet(e, 1 .. L)
      BY <1>0, <3>2
    <3>4. \A i \in 1 .. L : e[i] \in Int
      <4>1. ASSUME NEW i \in 1 .. L PROVE i + L * (j - 1) \in 1 .. (L * H)
        <5>1. L * (j - 1) \in Nat /\ L * (j - 1) <= L * (H - 1) /\ L * (H - 1) = L * H - L
          BY <3>2
        <5>. QED BY <5>1
      <4>. QED BY <1>0, <4>1
    <3>. HIDE DEF e
    <3>. QED BY <2>6, <3>3, <3>4, SumInt
  <2>14. SumFunctionOnSet(d, (1 .. h) \cup {h + 1}) = SumFunctionOnSet(d, 1 .. h) + d[h + 1]
    <3>1. h + 1 \notin 1 .. h /\ (1 .. h) \cup {h + 1} = 1 .. (h + 1)
      OBVIOUS
    <3>. QED BY <2>6, <2>13, <3>1, SumAdd
  <2>15. (1 .. h) \cup {h + 1} = 1 .. (h + 1)
    OBVIOUS
  <2>. QED BY <2>4, <2>7, <2>9, <2>11, <2>12, <2>14, <2>15
<1>3. \A h \in Nat : h \in G
  <2>. HIDE DEF G
  <2>. QED BY <1>1, <1>2, NaturalInduction
<1>. QED BY <1>3

(* A sum of ring elements over the cells of a grid, column by column.       *)
LEMMA GridSum ==
  ASSUME NEW L \in Nat \ {0}, NEW H \in Nat, NEW F \in [1 .. (L * H) -> IntRq]
  PROVE  /\ \A i \in 1 .. L, j \in 1 .. H : i + L * (j - 1) \in 1 .. (L * H)
         /\ SumOf(F, 1 .. (L * H))
              = SumOf([j \in 1 .. H |-> SumOf([i \in 1 .. L |-> F[i + L * (j - 1)]], 1 .. L)], 1 .. H)
<1>. DEFINE S == 1 .. L
            T == 1 .. H
            K == 1 .. (L * H)
            X == [j \in T |-> [i \in S |-> F[i + L * (j - 1)]]]
            A == [j \in T |-> SumOf(X[j], S)]
<1>1. \A i \in S, j \in T : i + L * (j - 1) \in K
  <2>1. SUFFICES ASSUME NEW i \in S, NEW j \in T PROVE i + L * (j - 1) \in K
    OBVIOUS
  <2>2. L * (j - 1) \in Nat /\ L * (j - 1) <= L * (H - 1) /\ L * (H - 1) = L * H - L
    OBVIOUS
  <2>. QED BY <2>2
<1>2. IsFiniteSet(S) /\ IsFiniteSet(T)
  BY FS_Interval
<1>3. \A j \in T : X[j] \in [S -> IntRq]
  BY <1>1
<1>4. ASSUME NEW p \in Coeff PROVE SumOf(F, K)[p] = SumOf(A, T)[p]
  <2>. DEFINE f == [k \in K |-> F[k][p]]
              d == [j \in T |-> SumFunctionOnSet([i \in S |-> f[i + L * (j - 1)]], S)]
              a == [j \in T |-> A[j][p]]
  <2>1. \A k \in K : f[k] \in Int
    BY DEF IntRq
  <2>2. SumFunctionOnSet(f, K) = SumFunctionOnSet(d, T)
    <3>1. \A j \in 1 .. H : d[j] = SumFunctionOnSet([i \in 1 .. L |-> f[i + L * (j - 1)]], 1 .. L)
      OBVIOUS
    <3>2. \A k \in 1 .. (L * H) : f[k] \in Int
      BY <2>1
    <3>. HIDE DEF f, d
    <3>3. ColumnSums(L, H, f, d)
      BY <3>1, <3>2 DEF ColumnSums
    <3>. QED BY <3>3, GridColumns
  <2>3. ASSUME NEW j \in T PROVE d[j] \in Int /\ a[j] \in Int /\ d[j] % Q = a[j] % Q
    <3>. DEFINE x == X[j]
                s == SumFunctionOnSet([i \in S |-> x[i][p]], S)
    <3>1. x \in [S -> IntRq] /\ a[j] = SumOf(x, S)[p]
      BY <1>3
    <3>2. d[j] = s
      <4>1. [i \in S |-> f[i + L * (j - 1)]] = [i \in S |-> x[i][p]]
        BY <1>1
      <4>. QED BY <4>1
    <3>. HIDE DEF x
    <3>3. s \in Int /\ SumOf(x, S)[p] = s % Q
      BY <1>2, <3>1, SumOfFacts
    <3>. HIDE DEF s, a, d
    <3>4. s % Q \in Fp /\ s % Q \in Int
      <4>1. s % Q \in Fp
        BY <3>3, ModSmall
      <4>. HIDE DEF S, T, K, X, f
      <4>. QED BY <4>1, RingAssumption DEF Fp
    <3>. DEFINE y == s % Q
    <3>5. y % Q = y
      <4>1. y \in Fp /\ y \in Int
        BY <3>4
      <4>. HIDE DEF y
      <4>. QED BY <4>1, ModSmall
    <3>. QED BY <3>1, <3>2, <3>3, <3>4, <3>5
  <2>. HIDE DEF f, d, a, A, X
  <2>4. SumFunctionOnSet(d, T) % Q = SumFunctionOnSet(a, T) % Q
    BY <1>2, <2>3, SumModEqual
  <2>. QED BY <2>2, <2>4 DEF SumOf, f, a
<1>. HIDE DEF A
<1>5. SumOf(F, K) = SumOf(A, T)
  BY <1>4 DEF SumOf
<1>. QED BY <1>1, <1>5 DEF A

-----------------------------------------------------------------------------
(* THE SIZES *)

LEMMA Sizes ==
  /\ BLOCKS \in Nat \ {0} /\ MESSAGE_ROWS \in Nat \ {0} /\ INNER_ROWS \in Nat
  /\ GADGET_DIGITS \in Nat \ {0} /\ InnerCols = MESSAGE_ROWS * GADGET_DIGITS /\ InnerCols \in Nat
  /\ GADGET_BASE - 1 \in Nat /\ GADGET_BASE - 1 <= CHAIN_GAMMA /\ CHAIN_GAMMA \in Nat
<1>1. BLOCKS \in Nat \ {0}
  BY SplitAssumption, PowerOfTwoFacts DEF ML_LOW_LEN
<1>2. INNER_ROWS \in Nat
  BY SplitAssumption, LenProperties DEF INNER_ROWS
<1>. QED BY <1>1, <1>2, GadgetAssumption, BaseFacts, BoundAssumption DEF InnerCols

(* The rows of the matrix are over the ring.                                *)
LEMMA MessageType ==
  ASSUME NEW f \in [1 .. (ML_LOW_LEN * ML_HIGH_LEN) -> Rq]
  PROVE  /\ Message(f) \in [1 .. BLOCKS -> [1 .. MESSAGE_ROWS -> Rq]]
         /\ ToMatrix(f) = Message(f)
<1>. DEFINE L == ML_LOW_LEN
            H == ML_HIGH_LEN
<1>1. L \in Nat \ {0} /\ H \in Nat /\ L = BLOCKS /\ H = MESSAGE_ROWS
  BY SplitAssumption, Sizes
<1>. HIDE DEF L, H
<1>2. ASSUME NEW i \in 1 .. L, NEW j \in 1 .. H
      PROVE  f[SplitEquiv(j - 1, i - 1) + 1] \in Rq
  <2>. DEFINE e == i - 1
              k == L * (j - 1) + e + 1
  <2>1. e \in 0 .. (L - 1)
    BY <1>1
  <2>2. k \in 1 .. (H * L)
    <3>. HIDE DEF e
    <3>. QED BY <1>1, <2>1, PlaceAt
  <2>3. SplitEquiv(j - 1, i - 1) + 1 = k
    <3>1. SplitEquiv(j - 1, i - 1) = e + L * (j - 1)
      BY DEF SplitEquiv, L
    <3>2. L * (j - 1) \in Int /\ e \in Int
      BY <1>1, <2>1
    <3>. HIDE DEF e
    <3>. QED BY <3>1, <3>2
  <2>4. H * L = L * H
    BY <1>1
  <2>. HIDE DEF k
  <2>. QED BY <2>2, <2>3, <2>4 DEF L, H
<1>. QED BY <1>1, <1>2 DEF Message, ToMatrix, L, H

-----------------------------------------------------------------------------
(* WHAT IS COMMITTED *)

Bal(g) == g.form = "balanced"
DigitsOf(g) == StoredVec([i \in 1 .. BLOCKS |-> Decompose(Bal(g), Message(g.f)[i])])
InnerOf(g)  == StoredVec([i \in 1 .. BLOCKS |-> Decompose(Bal(g), MatVec(KeyA, DigitsOf(g)[i]))])

(* Ring elements whose entries lie in the box.                              *)
BoxRq == { x \in Rq : \A p \in Coeff : Boxed(x[p], HALF_BASE) }

LEMMA DecomposedBox ==
  ASSUME NEW n \in Nat, NEW x \in [1 .. n -> Rq]
  PROVE  Decompose(TRUE, x) \in Seq(BoxRq)
<1>. DEFINE y == Decompose(TRUE, x)
            m == n * GADGET_DIGITS
<1>1. /\ y \in Seq(Rq) /\ Len(y) = m
      /\ \A k \in 1 .. m, p \in Coeff :
           y[k][p] = DigitOfKind(TRUE, x[RowOf(k - 1) + 1][p], DigitOf(k - 1))
  BY Decomposition
<1>2. ASSUME NEW k \in 1 .. m PROVE y[k] \in BoxRq
  <2>1. RowOf(k - 1) + 1 \in 1 .. n /\ DigitOf(k - 1) \in Digit
    BY IndexFacts
  <2>. HIDE DEF y
  <2>2. y[k] \in Rq
    BY <1>1, ElementOfSeq
  <2>3. ASSUME NEW p \in Coeff PROVE Boxed(y[k][p], HALF_BASE)
    <3>1. x[RowOf(k - 1) + 1][p] \in Fp
      BY <2>1 DEF Rq
    <3>2. Boxed(BalancedDigitAt(x[RowOf(k - 1) + 1][p], DigitOf(k - 1)), HALF_BASE)
      BY <2>1, <3>1, BalancedExact, FullWidthAssumption
    <3>. HIDE DEF m
    <3>. QED BY <1>1, <3>2 DEF DigitOfKind
  <2>. QED BY <2>2, <2>3 DEF BoxRq
<1>. HIDE DEF y, m
<1>3. y \in [1 .. m -> BoxRq]
  BY <1>1, <1>2, LenProperties
<1>4. m \in Nat
  BY <1>1, LenProperties
<1>5. y \in Seq(BoxRq)
  BY <1>3, <1>4
<1>. QED BY <1>5 DEF y

(* A decomposition, typed, and undone.                                      *)
LEMMA DecomposedFacts ==
  ASSUME NEW n \in Nat, NEW x \in [1 .. n -> Rq], NEW balanced \in BOOLEAN
  PROVE  /\ Decompose(balanced, x) \in [1 .. (n * GADGET_DIGITS) -> Rq]
         /\ Decompose(balanced, x) \in Seq(SmallRq)
         /\ balanced => Decompose(balanced, x) \in Seq(BoxRq)
         /\ \A j \in 1 .. (n * GADGET_DIGITS), k \in Coeff :
              Magnitude(Decompose(balanced, x)[j][k]) <= GADGET_BASE - 1
         /\ GadgetMul(n, Decompose(balanced, x)) = x
<1>. DEFINE y == Decompose(balanced, x)
<1>1. y \in Seq(Rq) /\ Len(y) = n * GADGET_DIGITS
  BY Decomposition
<1>2. y \in Seq(SmallRq) /\ GadgetMul(n, y) = x
  BY DecomposedSmall, Recomposition
<1>3. balanced => y \in Seq(BoxRq)
  <2>1. SUFFICES ASSUME balanced PROVE y \in Seq(BoxRq)
    OBVIOUS
  <2>2. balanced = TRUE
    BY <2>1
  <2>. HIDE DEF y
  <2>3. y = Decompose(TRUE, x)
    BY <2>2 DEF y
  <2>. QED BY <2>3, DecomposedBox
<1>. HIDE DEF y
<1>4. ASSUME NEW j \in 1 .. (n * GADGET_DIGITS), NEW k \in Coeff
      PROVE  Magnitude(y[j][k]) <= GADGET_BASE - 1
  <2>1. y[j] \in SmallRq
    BY <1>1, <1>2, ElementOfSeq
  <2>. QED BY <2>1 DEF SmallRq, Small
<1>5. y \in [1 .. (n * GADGET_DIGITS) -> Rq]
  BY <1>1, SeqEntries
<1>. QED BY <1>2, <1>3, <1>4, <1>5 DEF y

LEMMA CommittedFacts ==
  ASSUME NEW g \in Polys
  PROVE  /\ Message(g.f) \in [1 .. BLOCKS -> [1 .. MESSAGE_ROWS -> Rq]]
         /\ DigitsOf(g) \in [1 .. BLOCKS -> [1 .. InnerCols -> Rq]]
         /\ \A i \in 1 .. BLOCKS, j \in 1 .. InnerCols, k \in Coeff :
              Magnitude(DigitsOf(g)[i][j][k]) <= GADGET_BASE - 1
         /\ \A i \in 1 .. BLOCKS : GadgetMul(MESSAGE_ROWS, DigitsOf(g)[i]) = Message(g.f)[i]
         /\ InnerOf(g) \in [1 .. BLOCKS -> [1 .. (INNER_ROWS * GADGET_DIGITS) -> Rq]]
         /\ InnerOf(g) \in Seq(Seq(Rq)) /\ InnerOf(g) \in Seq(Seq(SmallRq))
         /\ Bal(g) => InnerOf(g) \in Seq(Seq(BoxRq))
         /\ \A i \in 1 .. BLOCKS :
              /\ MatVec(KeyA, DigitsOf(g)[i]) \in [1 .. INNER_ROWS -> Rq]
              /\ GadgetMul(INNER_ROWS, InnerOf(g)[i]) = MatVec(KeyA, DigitsOf(g)[i])
<1>. DEFINE B == 1 .. BLOCKS
            M == Message(g.f)
            d == [i \in B |-> Decompose(Bal(g), M[i])]
            w(i) == MatVec(KeyA, DigitsOf(g)[i])
            e == [i \in B |-> Decompose(Bal(g), w(i))]
            b == Bal(g)
<1>1. M \in [B -> [1 .. MESSAGE_ROWS -> Rq]]
  BY SplitAssumption, MessageType
<1>2. b \in BOOLEAN
  BY DEF Bal
<1>. HIDE DEF M, b
<1>3. ASSUME NEW i \in B
      PROVE  /\ d[i] \in [1 .. InnerCols -> Rq]
             /\ \A j \in 1 .. InnerCols, k \in Coeff : Magnitude(d[i][j][k]) <= GADGET_BASE - 1
             /\ GadgetMul(MESSAGE_ROWS, d[i]) = M[i]
  <2>. DEFINE x == M[i]
  <2>1. x \in [1 .. MESSAGE_ROWS -> Rq]
    BY <1>1
  <2>2. d[i] = Decompose(b, x)
    BY DEF b
  <2>. HIDE DEF x, d
  <2>3. /\ Decompose(b, x) \in [1 .. (MESSAGE_ROWS * GADGET_DIGITS) -> Rq]
        /\ \A j \in 1 .. (MESSAGE_ROWS * GADGET_DIGITS), k \in Coeff :
              Magnitude(Decompose(b, x)[j][k]) <= GADGET_BASE - 1
        /\ GadgetMul(MESSAGE_ROWS, Decompose(b, x)) = x
    BY <1>2, <2>1, DecomposedFacts, Sizes
  <2>. QED BY <2>2, <2>3, Sizes DEF x
<1>4. d \in [B -> [1 .. InnerCols -> Rq]]
  <2>1. \A i \in B : d[i] \in [1 .. InnerCols -> Rq]
    BY <1>3
  <2>. QED BY <2>1
<1>5. DigitsOf(g) = d
  <2>1. DigitsOf(g) = StoredVec(d)
    BY DEF DigitsOf, M
  <2>. HIDE DEF d
  <2>. QED BY <1>4, <2>1, Sizes, StoredVecIs
<1>. HIDE DEF d
<1>6. ASSUME NEW i \in B PROVE w(i) \in [1 .. INNER_ROWS -> Rq]
  <2>. DEFINE x == d[i]
  <2>1. x \in [1 .. InnerCols -> Rq]
    BY <1>4
  <2>. HIDE DEF x
  <2>2. x \in Seq(Rq)
    BY <2>1, Sizes
  <2>3. MatVec(KeyA, x) \in [1 .. INNER_ROWS -> Rq]
    BY <2>2, SplitAssumption, MatVecType DEF INNER_ROWS
  <2>. QED BY <1>5, <2>3 DEF x
<1>7. ASSUME NEW i \in B
      PROVE  /\ e[i] \in [1 .. (INNER_ROWS * GADGET_DIGITS) -> Rq]
             /\ e[i] \in Seq(SmallRq) /\ (b => e[i] \in Seq(BoxRq))
             /\ GadgetMul(INNER_ROWS, e[i]) = w(i)
  <2>. DEFINE x == w(i)
  <2>1. x \in [1 .. INNER_ROWS -> Rq]
    BY <1>6
  <2>2. e[i] = Decompose(b, x)
    BY DEF b
  <2>. HIDE DEF x, e
  <2>3. /\ Decompose(b, x) \in [1 .. (INNER_ROWS * GADGET_DIGITS) -> Rq]
        /\ Decompose(b, x) \in Seq(SmallRq)
        /\ b => Decompose(b, x) \in Seq(BoxRq)
        /\ GadgetMul(INNER_ROWS, Decompose(b, x)) = x
    BY <1>2, <2>1, DecomposedFacts, Sizes
  <2>. QED BY <2>2, <2>3 DEF x
<1>8. InnerOf(g) = StoredVec(e)
  BY DEF InnerOf
<1>9. e \in [B -> [1 .. (INNER_ROWS * GADGET_DIGITS) -> Rq]]
  <2>1. \A i \in B : e[i] \in [1 .. (INNER_ROWS * GADGET_DIGITS) -> Rq]
    BY <1>7
  <2>. QED BY <2>1
<1>10. e \in [B -> Seq(SmallRq)] /\ (b => e \in [B -> Seq(BoxRq)])
  <2>1. \A i \in B : e[i] \in Seq(SmallRq) /\ (b => e[i] \in Seq(BoxRq))
    BY <1>7
  <2>. QED BY <2>1
<1>. HIDE DEF e
<1>11. InnerOf(g) = e
  <2>. DEFINE T == [1 .. (INNER_ROWS * GADGET_DIGITS) -> Rq]
  <2>1. e \in [1 .. BLOCKS -> T]
    BY <1>9
  <2>. HIDE DEF T
  <2>2. StoredVec(e) = e
    BY <2>1, Sizes, StoredVecIs
  <2>. QED BY <1>8, <2>2
<1>12. e \in Seq(Seq(SmallRq)) /\ (b => e \in Seq(Seq(BoxRq)))
  BY <1>10, Sizes
<1>13. e \in [B -> Seq(Rq)]
  <2>1. ASSUME NEW i \in B PROVE e[i] \in Seq(Rq)
    <3>. DEFINE x == e[i]
    <3>1. x \in [1 .. (INNER_ROWS * GADGET_DIGITS) -> Rq]
      BY <1>9
    <3>. HIDE DEF x
    <3>2. INNER_ROWS * GADGET_DIGITS \in Nat
      BY Sizes
    <3>3. x \in Seq(Rq)
      BY <3>1, <3>2
    <3>. QED BY <3>3 DEF x
  <2>. QED BY <1>9, <2>1
<1>14. e \in Seq(Seq(Rq))
  BY <1>13, Sizes
<1>. HIDE DEF w
<1>. QED BY <1>1, <1>3, <1>4, <1>5, <1>6, <1>7, <1>9, <1>11, <1>12, <1>14 DEF M, b, w

-----------------------------------------------------------------------------
(* NORMS AND BOXES *)

LEMMA BoxInSb ==
  ASSUME NEW x \in Seq(BoxRq)
  PROVE  VecInSb(x)
<1>1. ASSUME NEW y \in BoxRq PROVE InSb(y)
  <2>1. SUFFICES ASSUME NEW p \in Coeff
                 PROVE  IF IsNegative(y[p]) THEN Magnitude(y[p]) <= HALF_BASE ELSE y[p] <= SB_HI
    BY DEF InSb
  <2>. DEFINE d == y[p]
              h == Q \div 2
  <2>2. d \in Fp /\ d \in Int /\ Boxed(d, HALF_BASE)
    <3>1. y \in Rq /\ Boxed(d, HALF_BASE)
      BY DEF BoxRq
    <3>. QED BY <3>1, RqInt
  <2>. HIDE DEF d
  <2>3. h \in Nat /\ 2 * h <= Q /\ Q <= 2 * h + 1
    BY RingAssumption
  <2>4. HALF_BASE \in Nat /\ 2 * HALF_BASE < Q /\ Q \in Nat /\ SB_HI \in Int /\ HALF_BASE - 1 <= SB_HI
    BY RingAssumption, BalancedAssumption, BoundAssumption
  <2>5. IsNegative(d) <=> d > h
    BY DEF IsNegative
  <2>. HIDE DEF h
  <2>6. Magnitude(d) \in Nat
    BY <2>2, CentredFacts
  <2>7. CASE d < HALF_BASE
    BY <2>2, <2>3, <2>4, <2>5, <2>7 DEF d
  <2>8. CASE IsNegative(d) /\ Magnitude(d) <= HALF_BASE
    BY <2>8 DEF d
  <2>. QED BY <2>2, <2>7, <2>8 DEF Boxed
<1>2. \A i \in DOMAIN x : x[i] \in BoxRq
  BY LenProperties, ElementOfSeq
<1>. QED BY <1>1, <1>2 DEF VecInSb

(* The box is within the bound of the relation.                             *)
LEMMA SbBelow ==
  ASSUME NEW x \in Seq(Rq), VecInSb(x)
  PROVE  VecLInftyNorm(x) <= CHAIN_GAMMA
<1>1. ASSUME NEW i \in 1 .. Len(x), NEW p \in Coeff
      PROVE  Magnitude(x[i][p]) <= CHAIN_GAMMA
  <2>1. i \in DOMAIN x /\ x[i] \in Rq
    BY SeqEntries
  <2>. DEFINE d == x[i][p]
  <2>2. IF IsNegative(d) THEN Magnitude(d) <= HALF_BASE ELSE d <= SB_HI
    BY <2>1 DEF VecInSb, InSb
  <2>3. d \in Fp /\ d \in Int
    BY <2>1, RqInt
  <2>. HIDE DEF d
  <2>4. Magnitude(d) \in Nat
    BY <2>3, CentredFacts
  <2>5. HALF_BASE \in Nat /\ HALF_BASE <= CHAIN_GAMMA /\ SB_HI \in Int /\ SB_HI <= CHAIN_GAMMA
    BY BaseFacts, BoundAssumption
  <2>6. CHAIN_GAMMA \in Int
    BY BoundAssumption
  <2>7. CASE IsNegative(d)
    BY <2>2, <2>4, <2>5, <2>6, <2>7 DEF d
  <2>8. CASE ~IsNegative(d)
    <3>1. Magnitude(d) = d
      BY <2>3, <2>8, RingAssumption DEF Magnitude, IsNegative
    <3>. QED BY <2>2, <2>3, <2>5, <2>6, <2>8, <3>1 DEF d
  <2>. QED BY <2>7, <2>8
<1>. QED BY <1>1, Sizes, InftyBelow

-----------------------------------------------------------------------------
(* THE EQUATIONS *)

ZOf(ch, s) ==
  StoredVec([j \in 1 .. InnerCols |-> SumRq(LAMBDA i : NegMul(ch[i], s[i][j]), 1 .. BLOCKS)])
CarrierOf(g, s, a) ==
  IF g.form = "raw" THEN StoredVec([i \in 1 .. BLOCKS |-> Dot(a, Message(g.f)[i])])
                    ELSE StoredVec([i \in 1 .. BLOCKS |-> CarrierEntry(a, s[i])])

LEMMA DotCommutes ==
  ASSUME NEW x \in Seq(Rq), NEW y \in Seq(Rq)
  PROVE  Dot(x, y) = Dot(y, x)
<1>. DEFINE I == 1 .. Least(Len(x), Len(y))
            J == 1 .. Least(Len(y), Len(x))
            F == [i \in I |-> NegMul(x[i], y[i])]
            G == [i \in J |-> NegMul(y[i], x[i])]
<1>1. Len(x) \in Nat /\ Len(y) \in Nat
  BY SeqEntries
<1>2. I = J
  BY <1>1 DEF Least
<1>3. Dot(x, y) = SumOf(F, I) /\ Dot(y, x) = SumOf(G, J)
  BY DotIs
<1>4. \A i \in I : x[i] \in IntRq /\ y[i] \in IntRq
  BY DotIs
<1>5. \A i \in I : NegMul(x[i], y[i]) = NegMul(y[i], x[i])
  BY <1>4, ProductCommutes
<1>6. F = G
  <2>. HIDE DEF I, J
  <2>. QED BY <1>2, <1>5
<1>. QED BY <1>2, <1>3, <1>6

LEMMA NothingAdded ==
  ASSUME NEW y \in Rq
  PROVE  AddRq(y, Constant(0)) = y
<1>1. \A p \in Coeff : Constant(0)[p] = 0
  BY DEF Constant
<1>2. \A p \in Coeff : (y[p] + Constant(0)[p]) % Q = y[p]
  <2>1. ASSUME NEW p \in Coeff PROVE (y[p] + Constant(0)[p]) % Q = y[p]
    <3>1. y[p] \in Int /\ y[p] % Q = y[p]
      BY RqInt
    <3>2. y[p] + Constant(0)[p] = y[p]
      BY <1>1, <3>1
    <3>. QED BY <3>1, <3>2
  <2>. QED BY <2>1
<1>3. AddRq(y, Constant(0)) = [p \in Coeff |-> (y[p] + Constant(0)[p]) % Q]
  BY StoredIs DEF AddRq
<1>. QED BY <1>2, <1>3 DEF Rq

LEMMA RowsAreVectors ==
  ASSUME NEW n \in Nat, NEW w \in Nat, NEW X \in [1 .. n -> [1 .. w -> Rq]]
  PROVE  \A i \in 1 .. n : X[i] \in Seq(Rq) /\ Len(X[i]) = w
<1>1. ASSUME NEW i \in 1 .. n PROVE X[i] \in Seq(Rq) /\ Len(X[i]) = w
  <2>. DEFINE x == X[i]
  <2>1. x \in [1 .. w -> Rq]
    OBVIOUS
  <2>. HIDE DEF x
  <2>2. x \in Seq(Rq) /\ Len(x) = w
    BY <2>1
  <2>. QED BY <2>2 DEF x
<1>. QED BY <1>1

LEMMA SumRqIs ==
  ASSUME NEW S, NEW F
  PROVE  [p \in Coeff |-> SumFunction([i \in S |-> F[i][p]]) % Q] = SumOf(F, S)
<1>1. \A p \in Coeff : LET f == [i \in S |-> F[i][p]]
                       IN  SumFunction(f) = SumFunctionOnSet(f, S)
  BY DEF SumFunction
<1>. QED BY <1>1 DEF SumOf

(* The fold is the combination of the digits by the challenge.              *)
LEMMA ZOfIs ==
  ASSUME NEW ch \in [1 .. BLOCKS -> Rq], NEW X \in [1 .. BLOCKS -> [1 .. InnerCols -> Rq]]
  PROVE  ZOf(ch, X) = Folded(BLOCKS, ch, X, InnerCols)
<1>. DEFINE S == 1 .. BLOCKS
            r == Folded(BLOCKS, ch, X, InnerCols)
<1>1. ASSUME NEW j \in 1 .. InnerCols
      PROVE  SumRq(LAMBDA i : NegMul(ch[i], X[i][j]), S) = r[j]
  <2>. DEFINE F == [i \in S |-> NegMul(ch[i], X[i][j])]
  <2>1. SumRq(LAMBDA i : NegMul(ch[i], X[i][j]), S)
          = [p \in Coeff |-> SumFunction([i \in S |-> NegMul(ch[i], X[i][j])[p]]) % Q]
    BY StoredIs DEF SumRq
  <2>2. \A p \in Coeff : [i \in S |-> NegMul(ch[i], X[i][j])[p]] = [i \in S |-> F[i][p]]
    OBVIOUS
  <2>3. r[j] = SumOf(F, S)
    BY DEF Folded
  <2>. HIDE DEF F, r
  <2>4. [p \in Coeff |-> SumFunction([i \in S |-> F[i][p]]) % Q] = SumOf(F, S)
    BY SumRqIs
  <2>. QED BY <2>1, <2>2, <2>3, <2>4
<1>2. r \in [1 .. InnerCols -> Rq]
  BY Sizes, FoldedType
<1>. HIDE DEF r, S
<1>3. [j \in 1 .. InnerCols |-> SumRq(LAMBDA i : NegMul(ch[i], X[i][j]), S)] = r
  BY <1>1, <1>2
<1>4. StoredVec(r) = r
  BY <1>2, Sizes, StoredVecIs
<1>. QED BY <1>3, <1>4 DEF ZOf, r, S

(* The fold of what is committed, typed and bounded.                        *)
LEMMA HonestFold ==
  ASSUME NEW g \in Polys, NEW ch \in [1 .. BLOCKS -> Challenges]
  PROVE  LET z == ZOf(ch, DigitsOf(g))
         IN  /\ ch \in [1 .. BLOCKS -> Rq]
             /\ z = Folded(BLOCKS, ch, DigitsOf(g), InnerCols)
             /\ z \in [1 .. InnerCols -> Rq]
             /\ JMul(BoundedDecompose(z)) = z
<1>. DEFINE X == DigitsOf(g)
            z == Folded(BLOCKS, ch, X, InnerCols)
            m == GADGET_BASE - 1
<1>1. ch \in [1 .. BLOCKS -> Rq] /\ \A i \in 1 .. BLOCKS : IsShort(ch[i])
  BY SplitAssumption
<1>2. /\ X \in [1 .. BLOCKS -> [1 .. InnerCols -> Rq]]
      /\ \A i \in 1 .. BLOCKS, j \in 1 .. InnerCols, k \in Coeff : Magnitude(X[i][j][k]) <= m
  BY CommittedFacts
<1>3. BLOCKS \in Nat /\ InnerCols \in Nat /\ m \in Nat
  BY Sizes
<1>. HIDE DEF X, m
<1>4. z \in [1 .. InnerCols -> Rq]
  BY <1>1, <1>2, <1>3, FoldedType
<1>5. \A j \in 1 .. InnerCols, p \in Coeff : Magnitude(z[j][p]) <= BLOCKS * (OMEGA * m)
  BY <1>1, <1>2, <1>3, FoldedShort
<1>6. ZOf(ch, X) = z
  BY <1>1, <1>2, ZOfIs
<1>. HIDE DEF z
<1>7. JMul(BoundedDecompose(z)) = z
  BY <1>4, <1>5, BoundedRecomposition DEF MaxFolded, m
<1>. QED BY <1>1, <1>4, <1>6, <1>7 DEF X, z

(* The carrier, from either side of the decomposition.                      *)
LEMMA CarrierIs ==
  ASSUME NEW g \in Polys, NEW a \in Seq(Rq), Len(a) = MESSAGE_ROWS
  PROVE  /\ CarrierOf(g, DigitsOf(g), a) = [i \in 1 .. BLOCKS |-> Dot(a, Message(g.f)[i])]
         /\ CarrierOf(g, DigitsOf(g), a) \in [1 .. BLOCKS -> Rq]
         /\ \A i \in 1 .. BLOCKS : Message(g.f)[i] \in Seq(Rq)
<1>. DEFINE M == Message(g.f)
            X == DigitsOf(g)
            r == [i \in 1 .. BLOCKS |-> Dot(a, M[i])]
<1>1. /\ M \in [1 .. BLOCKS -> [1 .. MESSAGE_ROWS -> Rq]]
      /\ \A i \in 1 .. BLOCKS : GadgetMul(MESSAGE_ROWS, X[i]) = M[i]
  BY CommittedFacts
<1>. HIDE DEF M, X
<1>2. \A i \in 1 .. BLOCKS : M[i] \in Seq(Rq)
  BY <1>1, Sizes, RowsAreVectors
<1>3. \A i \in 1 .. BLOCKS : Dot(a, M[i]) \in Rq
  BY <1>2, DotIs
<1>4. r \in [1 .. BLOCKS -> Rq]
  BY <1>3
<1>5. \A i \in 1 .. BLOCKS : CarrierEntry(a, X[i]) = Dot(a, M[i])
  BY <1>1 DEF CarrierEntry
<1>6. [i \in 1 .. BLOCKS |-> CarrierEntry(a, X[i])] = r
  BY <1>5
<1>7. CarrierOf(g, X, a) = StoredVec(r)
  BY <1>6 DEF CarrierOf, M
<1>. HIDE DEF r
<1>8. StoredVec(r) = r
  BY <1>4, Sizes, StoredVecIs
<1>. QED BY <1>2, <1>4, <1>7, <1>8 DEF r, M, X

(* Equation 3: the row basis times the carrier is the value.                *)
LEMMA ValueIs ==
  ASSUME NEW g \in Polys, NEW pt \in Points
  PROVE  LET a == MonomialBasis(pt.xh)
             b == MonomialBasis(pt.xl)
         IN  /\ a \in Seq(Rq) /\ Len(a) = MESSAGE_ROWS
             /\ b \in Seq(Rq) /\ Len(b) = BLOCKS
             /\ Dot(b, CarrierOf(g, DigitsOf(g), a)) = AddRq(EvalPoly(g.f, pt.xl, pt.xh), Constant(0))
<1>. DEFINE a == MonomialBasis(pt.xh)
            b == MonomialBasis(pt.xl)
            M == Message(g.f)
            r == [i \in 1 .. BLOCKS |-> Dot(a, M[i])]
            y == EvalPoly(g.f, pt.xl, pt.xh)
<1>1. a \in Seq(Rq) /\ Len(a) = MESSAGE_ROWS /\ b \in Seq(Rq) /\ Len(b) = BLOCKS
  BY SplitAssumption, BasisType DEF ML_LOW_LEN, ML_HIGH_LEN
<1>2. ToMatrix(g.f) = M /\ M \in [1 .. BLOCKS -> [1 .. MESSAGE_ROWS -> Rq]]
  BY SplitAssumption, MessageType
<1>. HIDE DEF a, b
<1>3. /\ CarrierOf(g, DigitsOf(g), a) = r
      /\ CarrierOf(g, DigitsOf(g), a) \in [1 .. BLOCKS -> Rq]
      /\ \A i \in 1 .. BLOCKS : M[i] \in Seq(Rq)
  BY <1>1, CarrierIs
<1>. HIDE DEF M
<1>4. MatVec(M, a) = r
  <2>1. DOMAIN M = 1 .. BLOCKS
    BY <1>2
  <2>2. [i \in DOMAIN M |-> Dot(M[i], a)] = r
    BY <1>1, <1>3, <2>1, DotCommutes
  <2>. HIDE DEF r
  <2>3. StoredVec(r) = r
    BY <1>3, Sizes, StoredVecIs
  <2>. QED BY <2>2, <2>3 DEF MatVec
<1>. HIDE DEF r
<1>5. y = Dot(b, r)
  BY <1>2, <1>4 DEF EvalPoly, SplitForm, a, b
<1>6. r \in Seq(Rq)
  BY <1>3, Sizes
<1>. HIDE DEF y
<1>7. y \in Rq
  BY <1>1, <1>5, <1>6, DotIs
<1>8. AddRq(y, Constant(0)) = y
  BY <1>7, NothingAdded
<1>. QED BY <1>1, <1>3, <1>5, <1>8 DEF a, b, y

(* Equation 4: the challenge times the carrier is the column basis times    *)
(* the recomposed fold.                                                     *)
LEMMA FoldedCarrier ==
  ASSUME NEW g \in Polys, NEW ch \in [1 .. BLOCKS -> Challenges],
         NEW a \in Seq(Rq), Len(a) = MESSAGE_ROWS
  PROVE  Dot(ch, CarrierOf(g, DigitsOf(g), a)) = Dot(a, GadgetMul(MESSAGE_ROWS, ZOf(ch, DigitsOf(g))))
<1>. DEFINE X == DigitsOf(g)
            M == Message(g.f)
            S == 1 .. BLOCKS
            r == [i \in S |-> Dot(a, M[i])]
            z == Folded(BLOCKS, ch, X, InnerCols)
            G == GadgetRows(MESSAGE_ROWS, BLOCKS, X)
<1>1. ch \in [S -> Rq] /\ ZOf(ch, X) = z
  BY HonestFold
<1>2. /\ X \in [S -> [1 .. InnerCols -> Rq]] /\ M \in [S -> [1 .. MESSAGE_ROWS -> Rq]]
      /\ \A i \in S : GadgetMul(MESSAGE_ROWS, X[i]) = M[i]
  BY CommittedFacts
<1>3. CarrierOf(g, X, a) = r /\ r \in [S -> Rq]
  BY CarrierIs
<1>. HIDE DEF X, M
<1>4. GadgetMul(MESSAGE_ROWS, z) = Folded(BLOCKS, ch, G, MESSAGE_ROWS)
  <2>1. ch \in RingVectors(BLOCKS) /\ X \in Tables(BLOCKS, MESSAGE_ROWS * GADGET_DIGITS)
    BY <1>1, <1>2, Sizes DEF RingVectors, Tables
  <2>2. GadgetMul(MESSAGE_ROWS, Folded(BLOCKS, ch, X, MESSAGE_ROWS * GADGET_DIGITS))
          = Folded(BLOCKS, ch, G, MESSAGE_ROWS)
    BY <2>1, Sizes, GadgetOfFolded
  <2>. QED BY <2>2, Sizes
<1>5. G = M
  BY <1>2 DEF GadgetRows
<1>. HIDE DEF G, z
<1>6. Dot(a, Folded(BLOCKS, ch, M, MESSAGE_ROWS)) = SumOf([i \in S |-> NegMul(ch[i], Dot(a, M[i]))], S)
  <2>1. ch \in RingVectors(BLOCKS) /\ M \in Tables(BLOCKS, MESSAGE_ROWS)
    BY <1>1, <1>2 DEF RingVectors, Tables
  <2>2. Dot(a, Folded(BLOCKS, ch, M, MESSAGE_ROWS)) = DotsFolded(a, BLOCKS, ch, M)
    BY <2>1, Sizes, DotOfFolded
  <2>. QED BY <2>2 DEF DotsFolded
<1>7. \A i \in S : r[i] = Dot(a, M[i])
  OBVIOUS
<1>. HIDE DEF r
<1>8. Dot(ch, r) = SumOf([i \in S |-> NegMul(ch[i], r[i])], S)
  <2>1. ch \in Seq(Rq) /\ Len(ch) = BLOCKS /\ r \in Seq(Rq) /\ Len(r) = BLOCKS
    BY <1>1, <1>3, Sizes
  <2>2. Least(Len(ch), Len(r)) = BLOCKS
    BY <2>1, Sizes, LeastFacts
  <2>. QED BY <2>1, <2>2, DotIs
<1>9. [i \in S |-> NegMul(ch[i], r[i])] = [i \in S |-> NegMul(ch[i], Dot(a, M[i]))]
  BY <1>7
<1>. QED BY <1>1, <1>3, <1>4, <1>5, <1>6, <1>8, <1>9 DEF X, z

(* Equation 5: the challenge times the inner commitments is the inner       *)
(* matrix times the fold.                                                   *)
LEMMA FoldedInner ==
  ASSUME NEW g \in Polys, NEW ch \in [1 .. BLOCKS -> Challenges]
  PROVE  TensorG(INNER_ROWS, ch, InnerOf(g)) = MatVec(KeyA, ZOf(ch, DigitsOf(g)))
<1>. DEFINE X == DigitsOf(g)
            T == InnerOf(g)
            S == 1 .. BLOCKS
            R == 1 .. INNER_ROWS
            z == Folded(BLOCKS, ch, X, InnerCols)
            r == [p \in R |-> Dot(KeyA[p], z)]
<1>1. ch \in [S -> Rq] /\ ZOf(ch, X) = z
  BY HonestFold
<1>2. /\ X \in [S -> [1 .. InnerCols -> Rq]] /\ DOMAIN T = S
      /\ \A i \in S : GadgetMul(INNER_ROWS, T[i]) = MatVec(KeyA, X[i])
  <2>1. X \in [S -> [1 .. InnerCols -> Rq]]
    BY CommittedFacts
  <2>2. T \in [S -> [1 .. (INNER_ROWS * GADGET_DIGITS) -> Rq]]
    BY CommittedFacts
  <2>3. \A i \in S : GadgetMul(INNER_ROWS, T[i]) = MatVec(KeyA, X[i])
    BY CommittedFacts
  <2>. QED BY <2>1, <2>2, <2>3
<1>. HIDE DEF X, T
<1>3. z \in Seq(Rq) /\ \A i \in S : X[i] \in Seq(Rq)
  BY <1>1, <1>2, Sizes, FoldedType
<1>. HIDE DEF z
<1>4. /\ DOMAIN KeyA = R /\ \A p \in R : KeyA[p] \in Seq(Rq)
      /\ MatVec(KeyA, z) = r /\ MatVec(KeyA, z) \in Seq(Rq) /\ Len(MatVec(KeyA, z)) = INNER_ROWS
  BY <1>3, SplitAssumption, MatVecIs DEF INNER_ROWS
<1>5. ASSUME NEW p \in R
      PROVE  SumRq(LAMBDA i : NegMul(ch[i], GadgetMul(INNER_ROWS, T[i])[p]), DOMAIN T) = Dot(KeyA[p], z)
  <2>. DEFINE u == KeyA[p]
              F == [i \in S |-> NegMul(ch[i], Dot(u, X[i]))]
              H == [i \in S |-> NegMul(ch[i], GadgetMul(INNER_ROWS, T[i])[p])]
  <2>1. u \in Seq(Rq)
    BY <1>4
  <2>2. ASSUME NEW i \in S PROVE GadgetMul(INNER_ROWS, T[i])[p] = Dot(u, X[i])
    <3>1. MatVec(KeyA, X[i]) = [k \in R |-> Dot(KeyA[k], X[i])]
      BY <1>3, SplitAssumption, MatVecIs DEF INNER_ROWS
    <3>. QED BY <1>2, <3>1
  <2>. HIDE DEF u
  <2>3. Dot(u, z) = SumOf(F, S)
    <3>1. ch \in RingVectors(BLOCKS) /\ X \in Tables(BLOCKS, InnerCols)
      BY <1>1, <1>2 DEF RingVectors, Tables
    <3>2. Dot(u, Folded(BLOCKS, ch, X, InnerCols)) = DotsFolded(u, BLOCKS, ch, X)
      BY <2>1, <3>1, Sizes, DotOfFolded
    <3>. QED BY <3>2 DEF z, DotsFolded
  <2>4. H = F
    BY <2>2
  <2>5. SumRq(LAMBDA i : NegMul(ch[i], GadgetMul(INNER_ROWS, T[i])[p]), DOMAIN T)
          = [k \in Coeff |-> SumFunction([i \in S |-> NegMul(ch[i], GadgetMul(INNER_ROWS, T[i])[p])[k]]) % Q]
    BY <1>2, StoredIs DEF SumRq
  <2>6. \A k \in Coeff : [i \in S |-> NegMul(ch[i], GadgetMul(INNER_ROWS, T[i])[p])[k]] = [i \in S |-> H[i][k]]
    OBVIOUS
  <2>. HIDE DEF F, H
  <2>7. [k \in Coeff |-> SumFunction([i \in S |-> H[i][k]]) % Q] = SumOf(H, S)
    BY SumRqIs
  <2>. QED BY <2>3, <2>4, <2>5, <2>6, <2>7 DEF u
<1>6. [p \in R |-> SumRq(LAMBDA i : NegMul(ch[i], GadgetMul(INNER_ROWS, T[i])[p]), DOMAIN T)] = r
  BY <1>5
<1>. HIDE DEF r
<1>7. StoredVec(r) = r
  <2>1. r \in [1 .. INNER_ROWS -> Rq]
    BY <1>4, SeqEntries
  <2>. QED BY <2>1, Sizes, StoredVecIs
<1>. QED BY <1>1, <1>4, <1>6, <1>7 DEF TensorG, X, T

-----------------------------------------------------------------------------
(* WHAT THE PROTOCOL HOLDS *)

CommittedTo(g) ==
  [s |-> DigitsOf(g), t |-> InnerOf(g), u |-> MatVec(KeyB, FlattenBlocks(InnerOf(g)))]
Claimed(g, pt, lie) ==
  [u |-> CommittedTo(g).u, a |-> MonomialBasis(pt.xh), b |-> MonomialBasis(pt.xl),
   y |-> AddRq(EvalPoly(g.f, pt.xl, pt.xh), Constant(lie)), true |-> lie = 0]
CarrierPart(g, a) == BalancedDecompose(CarrierOf(g, DigitsOf(g), a))
Honest(w, s, t, ch) == [carrier |-> w, inner |-> t, z |-> BoundedDecompose(ZOf(ch, s))]

(* Every value a party holds is a function of what was chosen before it.    *)
CommitInv  == com # << >> => com = CommittedTo(poly)
ClaimInv   == stmt # << >> => /\ com # << >> /\ point \in Points
                              /\ \E lie \in Lies : stmt = Claimed(poly, point, lie)
CarrierInv == what # << >> => /\ stmt # << >>
                              /\ what = CarrierPart(poly, stmt.a) /\ v = MatVec(KeyD, what)
FoldInv    == c # << >> => what # << >> /\ c \in [1 .. BLOCKS -> Challenges]
RespInv    == resp # << >> => /\ c # << >>
                              /\ \E bump \in Bumps : resp = BumpedResp(Honest(what, com.s, com.t, c), bump)
IInv == poly \in Polys /\ CommitInv /\ ClaimInv /\ CarrierInv /\ FoldInv /\ RespInv

-----------------------------------------------------------------------------
(* ALTERED RESPONSES *)

LEMMA BumpedType ==
  ASSUME NEW x \in Seq(Rq), NEW k
  PROVE  Bumped(x, k) \in Seq(Rq)
<1>. DEFINE n == Len(x)
            r == RING_DEGREE - 1
            y == [x[k] EXCEPT ![r] = (@ + 1) % Q]
            z == [i \in 1 .. n |-> IF i = k THEN y ELSE x[i]]
<1>1. /\ n \in Nat /\ x \in [1 .. n -> Rq] /\ DOMAIN x = 1 .. n
      /\ \A i \in 1 .. n : x[i] \in Rq
  BY SeqEntries
<1>2. r \in Coeff
  BY RingAssumption DEF Coeff
<1>3. Bumped(x, k) = [i \in DOMAIN x |-> IF i = k THEN y ELSE x[i]]
  BY DEF Bumped
<1>. HIDE DEF n, r
<1>4. ASSUME k \in 1 .. n PROVE y \in Rq
  <2>. DEFINE w == x[k]
  <2>1. w \in Rq
    BY <1>1, <1>4
  <2>. HIDE DEF w
  <2>2. w[r] \in Int
    BY <1>2, <2>1, RqInt
  <2>3. w[r] + 1 \in Int
    BY <2>2
  <2>4. (w[r] + 1) % Q \in Fp
    BY <2>3, ModSmall
  <2>5. [w EXCEPT ![r] = (@ + 1) % Q] \in [Coeff -> Fp]
    BY <2>1, <2>4 DEF Rq
  <2>. QED BY <2>5 DEF Rq, w
<1>. HIDE DEF y
<1>5. z \in [1 .. n -> Rq]
  BY <1>1, <1>4
<1>6. z \in Seq(Rq)
  <2>. HIDE DEF z
  <2>. QED BY <1>1, <1>5
<1>. QED BY <1>1, <1>3, <1>6

(* Altered or not, the parts of a response are vectors.                     *)
LEMMA BumpedParts ==
  ASSUME NEW w \in Seq(Rq), NEW t \in Seq(Seq(Rq)), NEW z \in Seq(Rq), NEW bump
  PROVE  \A x \in Parts(BumpedResp([carrier |-> w, inner |-> t, z |-> z], bump)) : x \in Seq(Rq)
<1>. DEFINE n == Len(t)
            at(part, x) == IF bump[1] = part THEN Bumped(x, bump[3]) ELSE x
            s == [i \in 1 .. n |-> IF i = bump[2] THEN at("inner", t[i]) ELSE t[i]]
            r == BumpedResp([carrier |-> w, inner |-> t, z |-> z], bump)
<1>1. n \in Nat /\ DOMAIN t = 1 .. n /\ \A i \in 1 .. n : t[i] \in Seq(Rq)
  BY LenProperties, ElementOfSeq
<1>2. \A x \in Seq(Rq) : Bumped(x, bump[3]) \in Seq(Rq)
  BY BumpedType
<1>3. s \in [1 .. n -> Seq(Rq)]
  BY <1>1, <1>2
<1>4. /\ r.carrier = at("carrier", w) /\ r.z = at("z", z) /\ r.inner = StoredVec(s)
  BY <1>1 DEF BumpedResp
<1>. HIDE DEF s, n
<1>5. StoredVec(s) = s /\ s \in Seq(Seq(Rq))
  BY <1>1, <1>3, StoredVecIs
<1>6. FlattenBlocks(s) \in Seq(Rq)
  BY <1>5, FlattenType
<1>7. r.carrier \in Seq(Rq) /\ r.z \in Seq(Rq)
  BY <1>2, <1>4
<1>. HIDE DEF r
<1>8. \A x \in Parts(r) : x \in Seq(Rq)
  BY <1>4, <1>5, <1>6, <1>7 DEF Parts
<1>. QED BY <1>8 DEF r

-----------------------------------------------------------------------------
(* THE HONEST RESPONSE *)

(* The parts of an honest response, typed.                                  *)
LEMMA HonestParts ==
  ASSUME IInv, resp # << >>
  PROVE  /\ HonestResp = Honest(what, com.s, com.t, c)
         /\ \E lie \in Lies : stmt = Claimed(poly, point, lie)
         /\ com = CommittedTo(poly) /\ poly \in Polys /\ point \in Points
         /\ c \in [1 .. BLOCKS -> Challenges]
         /\ what = CarrierPart(poly, stmt.a) /\ v = MatVec(KeyD, what)
         /\ \E bump \in Bumps : resp = BumpedResp(HonestResp, bump)
<1>1. c # << >> /\ what # << >> /\ stmt # << >> /\ com # << >>
  BY DEF IInv, RespInv, FoldInv, CarrierInv, ClaimInv
<1>2. HonestResp = Honest(what, com.s, com.t, c)
  BY DEF HonestResp, Honest, HonestZ, ZOf
<1>3. /\ com = CommittedTo(poly) /\ poly \in Polys /\ point \in Points
      /\ c \in [1 .. BLOCKS -> Challenges]
      /\ what = CarrierPart(poly, stmt.a) /\ v = MatVec(KeyD, what)
  BY <1>1 DEF IInv, FoldInv, CarrierInv, ClaimInv, CommitInv
<1>4. \E lie \in Lies : stmt = Claimed(poly, point, lie)
  BY <1>1 DEF IInv, ClaimInv
<1>5. \E bump \in Bumps : resp = BumpedResp(HonestResp, bump)
  BY <1>2 DEF IInv, RespInv
<1>. QED BY <1>2, <1>3, <1>4, <1>5

LEMMA HonestTypes ==
  ASSUME NEW g \in Polys, NEW pt \in Points, NEW ch \in [1 .. BLOCKS -> Challenges]
  PROVE  LET w == CarrierPart(g, MonomialBasis(pt.xh))
             t == InnerOf(g)
             z == BoundedDecompose(ZOf(ch, DigitsOf(g)))
         IN  /\ w \in Seq(Rq) /\ w \in Seq(SmallRq) /\ w \in Seq(BoxRq)
             /\ t \in Seq(Seq(Rq)) /\ FlattenBlocks(t) \in Seq(SmallRq)
             /\ Bal(g) => FlattenBlocks(t) \in Seq(BoxRq)
             /\ z \in Seq(Rq) /\ z \in Seq(SmallRq) /\ z \in Seq(BoxRq)
<1>. DEFINE a == MonomialBasis(pt.xh)
            k == CarrierOf(g, DigitsOf(g), a)
            w == Decompose(TRUE, k)
            y == ZOf(ch, DigitsOf(g))
            z == BoundedDecompose(y)
            m == InnerCols * Z_DIGITS
<1>1. k \in [1 .. BLOCKS -> Rq]
  <2>1. a \in Seq(Rq) /\ Len(a) = MESSAGE_ROWS
    BY ValueIs
  <2>. HIDE DEF a
  <2>. QED BY <2>1, CarrierIs
<1>2. CarrierPart(g, a) = w
  BY DEF CarrierPart, Decompose
<1>. HIDE DEF k
<1>3. w \in Seq(Rq) /\ w \in Seq(SmallRq) /\ w \in Seq(BoxRq)
  <2>1. w \in Seq(SmallRq) /\ w \in Seq(BoxRq)
    BY <1>1, Sizes, DecomposedSmall, DecomposedBox
  <2>2. w \in Seq(Rq)
    BY <1>1, Sizes, Decomposition
  <2>. QED BY <2>1, <2>2
<1>4. /\ InnerOf(g) \in Seq(Seq(Rq)) /\ FlattenBlocks(InnerOf(g)) \in Seq(SmallRq)
      /\ Bal(g) => FlattenBlocks(InnerOf(g)) \in Seq(BoxRq)
  <2>1. /\ InnerOf(g) \in Seq(Seq(Rq)) /\ InnerOf(g) \in Seq(Seq(SmallRq))
        /\ Bal(g) => InnerOf(g) \in Seq(Seq(BoxRq))
    BY CommittedFacts
  <2>. QED BY <2>1, FlattenType
<1>5. y \in [1 .. InnerCols -> Rq]
  BY HonestFold
<1>. HIDE DEF y
<1>6. z \in [1 .. m -> Rq] /\ \A i \in 1 .. m, p \in Coeff : Boxed(z[i][p], HALF_BASE)
  BY <1>5, Sizes, BoundedDecomposition
<1>7. m \in Nat
  BY Sizes, BoundedAssumption
<1>. HIDE DEF z, m
<1>8. ASSUME NEW i \in 1 .. m PROVE z[i] \in SmallRq /\ z[i] \in BoxRq
  <2>1. z[i] \in Rq /\ \A p \in Coeff : Boxed(z[i][p], HALF_BASE)
    BY <1>6
  <2>2. \A p \in Coeff : z[i][p] \in Fp
    BY <2>1, RqInt
  <2>3. \A p \in Coeff : Small(z[i][p])
    BY <2>1, <2>2, BoxedSmall
  <2>. QED BY <2>1, <2>3 DEF SmallRq, BoxRq
<1>9. z \in [1 .. m -> SmallRq] /\ z \in [1 .. m -> BoxRq]
  BY <1>6, <1>8
<1>10. z \in Seq(Rq) /\ z \in Seq(SmallRq) /\ z \in Seq(BoxRq)
  BY <1>6, <1>7, <1>9
<1>. QED BY <1>2, <1>3, <1>4, <1>10 DEF z, y

(* The five equations, of a true claim.                                     *)
LEMMA HonestEquations ==
  ASSUME IInv, resp # << >>, stmt.true
  PROVE  Equations(HonestResp)
<1>. DEFINE a == MonomialBasis(point.xh)
            b == MonomialBasis(point.xl)
            X == DigitsOf(poly)
            k == CarrierOf(poly, X, a)
            y == ZOf(c, X)
<1>1. /\ HonestResp = Honest(what, com.s, com.t, c)
      /\ com = CommittedTo(poly) /\ poly \in Polys /\ point \in Points
      /\ c \in [1 .. BLOCKS -> Challenges]
      /\ what = CarrierPart(poly, stmt.a) /\ v = MatVec(KeyD, what)
  BY HonestParts
<1>2. PICK lie \in Lies : stmt = Claimed(poly, point, lie)
  BY HonestParts
<1>3. lie = 0
  <2>1. stmt.true = (lie = 0)
    BY <1>2 DEF Claimed
  <2>. QED BY <2>1
<1>4. /\ stmt.u = MatVec(KeyB, FlattenBlocks(InnerOf(poly)))
      /\ stmt.a = a /\ stmt.b = b
      /\ stmt.y = AddRq(EvalPoly(poly.f, point.xl, point.xh), Constant(0))
  BY <1>2, <1>3 DEF Claimed, CommittedTo
<1>5. /\ a \in Seq(Rq) /\ Len(a) = MESSAGE_ROWS
      /\ b \in Seq(Rq) /\ Len(b) = BLOCKS
      /\ Dot(b, k) = stmt.y
  BY <1>1, <1>4, ValueIs
<1>. HIDE DEF a, b
<1>6. k \in [1 .. BLOCKS -> Rq]
  BY <1>1, <1>5, CarrierIs
<1>7. Dot(c, k) = Dot(a, GadgetMul(MESSAGE_ROWS, y))
  BY <1>1, <1>5, FoldedCarrier
<1>8. TensorG(INNER_ROWS, c, InnerOf(poly)) = MatVec(KeyA, y)
  BY <1>1, FoldedInner
<1>9. c \in [1 .. BLOCKS -> Rq] /\ JMul(BoundedDecompose(y)) = y
  BY <1>1, HonestFold
<1>10. what = Decompose(TRUE, k)
  BY <1>1, <1>4 DEF CarrierPart, Decompose
<1>. HIDE DEF k
<1>11. GadgetMul(BLOCKS, what) = k
  BY <1>6, <1>10, Sizes, Recomposition
<1>12. Len(c) = BLOCKS
  BY <1>9, Sizes
<1>13. /\ HonestResp.carrier = what /\ HonestResp.inner = InnerOf(poly)
       /\ HonestResp.z = BoundedDecompose(y)
  BY <1>1 DEF Honest, CommittedTo
<1>. HIDE DEF y
<1>14. TensorG1(c, what) = Dot(c, k)
  BY <1>11, <1>12 DEF TensorG1
<1>15. /\ MatVec(KeyD, HonestResp.carrier) = v
       /\ MatVec(KeyB, FlattenBlocks(HonestResp.inner)) = stmt.u
       /\ Dot(stmt.b, GadgetMul(BLOCKS, HonestResp.carrier)) = stmt.y
       /\ TensorG1(c, HonestResp.carrier) = Dot(stmt.a, GadgetMul(MESSAGE_ROWS, JMul(HonestResp.z)))
       /\ TensorG(INNER_ROWS, c, HonestResp.inner) = MatVec(KeyA, JMul(HonestResp.z))
  BY <1>1, <1>4, <1>5, <1>7, <1>8, <1>9, <1>11, <1>13, <1>14
<1>. QED BY <1>15 DEF Equations

(* The property, from the invariant.                                        *)
LEMMA InvHonest == IInv => HonestInRelation
<1>. SUFFICES ASSUME IInv, resp # << >>
              PROVE  /\ (stmt.true /\ resp = HonestResp)
                          => RelOut(resp) /\ (poly.form = "balanced" => PaperRelOut(resp))
                     /\ PaperRelOut(resp) => RelOut(resp)
  BY DEF HonestInRelation
<1>. DEFINE z == BoundedDecompose(ZOf(c, DigitsOf(poly)))
            t == InnerOf(poly)
            h == [carrier |-> what, inner |-> t, z |-> z]
<1>1. /\ HonestResp = Honest(what, com.s, com.t, c)
      /\ com = CommittedTo(poly) /\ poly \in Polys /\ point \in Points
      /\ c \in [1 .. BLOCKS -> Challenges]
      /\ what = CarrierPart(poly, stmt.a)
  BY HonestParts
<1>2. stmt.a = MonomialBasis(point.xh)
  <2>1. PICK lie \in Lies : stmt = Claimed(poly, point, lie)
    BY HonestParts
  <2>. QED BY <2>1 DEF Claimed
<1>3. HonestResp = h
  BY <1>1 DEF Honest, CommittedTo
<1>4. /\ what \in Seq(Rq) /\ what \in Seq(SmallRq) /\ what \in Seq(BoxRq)
      /\ t \in Seq(Seq(Rq)) /\ FlattenBlocks(t) \in Seq(SmallRq)
      /\ Bal(poly) => FlattenBlocks(t) \in Seq(BoxRq)
      /\ z \in Seq(Rq) /\ z \in Seq(SmallRq) /\ z \in Seq(BoxRq)
  BY <1>1, <1>2, HonestTypes
<1>. HIDE DEF z, t
<1>5. Parts(h) = {what, FlattenBlocks(t), z}
  BY DEF Parts
<1>. HIDE DEF h
<1>6. ASSUME stmt.true, resp = HonestResp
      PROVE  RelOut(resp) /\ (poly.form = "balanced" => PaperRelOut(resp))
  <2>1. Equations(resp)
    BY <1>6, HonestEquations
  <2>2. ASSUME NEW x \in Parts(resp) PROVE VecLInftyNorm(x) <= CHAIN_GAMMA
    <3>1. x \in Seq(SmallRq)
      BY <1>3, <1>4, <1>5, <1>6
    <3>2. VecLInftyNorm(x) \in Nat /\ VecLInftyNorm(x) <= GADGET_BASE - 1
      BY <3>1, InftySmall
    <3>. QED BY <3>2, Sizes
  <2>3. ASSUME poly.form = "balanced", NEW x \in Parts(resp) PROVE VecInSb(x)
    <3>1. Bal(poly)
      BY <2>3 DEF Bal
    <3>2. x \in Seq(BoxRq)
      BY <1>3, <1>4, <1>5, <1>6, <3>1
    <3>. QED BY <3>2, BoxInSb
  <2>. QED BY <2>1, <2>2, <2>3 DEF RelOut, PaperRelOut
<1>7. ASSUME PaperRelOut(resp) PROVE RelOut(resp)
  <2>1. PICK bump \in Bumps : resp = BumpedResp(h, bump)
    BY <1>3, HonestParts
  <2>2. \A x \in Parts(resp) : x \in Seq(Rq)
    BY <1>4, <2>1, BumpedParts DEF h
  <2>. QED BY <1>7, <2>2, SbBelow DEF PaperRelOut, RelOut
<1>. QED BY <1>6, <1>7

-----------------------------------------------------------------------------
(* THE SPLIT *)

(* The factors of an entry of the joint point are those of its row and of   *)
(* its column.                                                              *)
LEMMA FactorsJoin ==
  ASSUME NEW lag \in BOOLEAN, NEW n \in Nat, NEW m \in Nat,
         NEW u \in RingVectors(n), NEW w \in RingVectors(m),
         NEW y \in 0 .. (PowerOfTwo[n] - 1), NEW x \in Nat
  PROVE  ProductOver(Factors(lag, y + PowerOfTwo[n] * x, u \o w))
           = NegMul(ProductOver(Factors(lag, y, u)), ProductOver(Factors(lag, x, w)))
<1>. DEFINE p == u \o w
            k == y + PowerOfTwo[n] * x
            f == Factors(lag, y, u)
            g == Factors(lag, x, w)
            h == Factors(lag, k, p)
<1>1. u \in [1 .. n -> Rq] /\ w \in [1 .. m -> Rq]
  BY DEF RingVectors
<1>2. u \in Seq(Rq) /\ w \in Seq(Rq) /\ Len(u) = n /\ Len(w) = m
  BY <1>1
<1>3. p \in Seq(Rq)
  BY <1>2, ConcatProperties
<1>4. Len(p) = n + m
  BY <1>2, ConcatProperties
<1>5. /\ \A j \in 1 .. n : p[j] = u[j]
      /\ \A j \in 1 .. m : p[n + j] = w[j]
  <2>1. \A j \in 1 .. (n + m) : p[j] = IF j <= n THEN u[j] ELSE w[j - n]
    BY <1>2, ConcatProperties
  <2>2. \A j \in 1 .. n : j \in 1 .. (n + m) /\ j <= n
    OBVIOUS
  <2>3. \A j \in 1 .. m : n + j \in 1 .. (n + m) /\ ~(n + j <= n) /\ (n + j) - n = j
    OBVIOUS
  <2>. HIDE DEF p
  <2>. QED BY <2>1, <2>2, <2>3
<1>. HIDE DEF p
<1>6. p \in [1 .. (n + m) -> Rq]
  BY <1>3, <1>4, SeqEntries
<1>7. PowerOfTwo[n] \in Nat \ {0} /\ k \in Nat
  <2>1. PowerOfTwo[n] \in Nat \ {0}
    BY PowerOfTwoFacts
  <2>2. y \in Nat /\ PowerOfTwo[n] * x \in Nat
    BY <2>1
  <2>. QED BY <2>1, <2>2
<1>8. f \in Factorings(n) /\ g \in Factorings(m) /\ h \in Factorings(n + m)
  <2>1. n + m \in Nat
    OBVIOUS
  <2>. HIDE DEF k
  <2>. QED BY <1>1, <1>6, <2>1, FactorsType DEF Factorings
<1>9. ASSUME NEW j \in 1 .. n PROVE h[j] = f[j]
  <2>1. BitSet(k, j) <=> BitSet(y, j)
    <3>1. y \in Nat
      BY <1>7
    <3>. QED BY <3>1, BitLow
  <2>2. j \in DOMAIN p /\ j \in DOMAIN u
    BY <1>1, <1>6
  <2>. HIDE DEF k
  <2>3. h[j] = Factor(lag, BitSet(k, j), p[j]) /\ f[j] = Factor(lag, BitSet(y, j), u[j])
    BY <2>2 DEF Factors
  <2>4. BitSet(k, j) = BitSet(y, j)
    BY <2>1 DEF BitSet
  <2>. HIDE DEF f, h
  <2>. QED BY <1>5, <2>3, <2>4
<1>10. ASSUME NEW j \in 1 .. m PROVE h[n + j] = g[j]
  <2>1. BitSet(k, n + j) <=> BitSet(x, j)
    BY BitHigh
  <2>2. n + j \in DOMAIN p /\ j \in DOMAIN w
    BY <1>1, <1>6
  <2>. HIDE DEF k
  <2>3. h[n + j] = Factor(lag, BitSet(k, n + j), p[n + j]) /\ g[j] = Factor(lag, BitSet(x, j), w[j])
    BY <2>2 DEF Factors
  <2>4. BitSet(k, n + j) = BitSet(x, j)
    BY <2>1 DEF BitSet
  <2>. HIDE DEF g, h
  <2>. QED BY <1>5, <2>3, <2>4
<1>. HIDE DEF f, g, h
<1>11. ProductOver(h) = NegMul(ProductOver(f), ProductOver(g))
  BY <1>8, <1>9, <1>10, ProductInParts
<1>. QED BY <1>11 DEF f, g, h, k, p

LEMMA FactorsProductType ==
  ASSUME NEW lag \in BOOLEAN, NEW k, NEW n \in Nat, NEW x \in [1 .. n -> Rq]
  PROVE  ProductOver(Factors(lag, k, x)) \in Rq
<1>. DEFINE f == Factors(lag, k, x)
<1>1. f \in [1 .. n -> Rq]
  BY FactorsType
<1>. HIDE DEF f
<1>2. ProductOver(f) = Products(f, n)[n] /\ \A j \in 0 .. n : Products(f, n)[j] \in Rq
  BY <1>1, ProductsAre
<1>3. n \in 0 .. n
  OBVIOUS
<1>4. ProductOver(f) \in Rq
  BY <1>2, <1>3
<1>. QED BY <1>4 DEF f

(* Three factors, the last first.                                           *)
LEMMA ProductRotates ==
  ASSUME NEW a \in IntRq, NEW b \in IntRq, NEW x \in IntRq
  PROVE  NegMul(a, NegMul(b, x)) = NegMul(x, NegMul(b, a))
<1>1. NegMul(b, x) \in IntRq
  BY IntProductType
<1>2. NegMul(a, NegMul(b, x)) = NegMul(NegMul(b, x), a)
  BY <1>1, ProductCommutes
<1>3. NegMul(NegMul(b, x), a) = NegMul(b, NegMul(x, a))
  BY ProductAssociates
<1>4. NegMul(b, NegMul(x, a)) = NegMul(x, NegMul(b, a))
  BY ProductSwap
<1>. QED BY <1>2, <1>3, <1>4

(* The cell of a matrix is the entry at its index.                          *)
LEMMA MatrixCell ==
  ASSUME NEW f \in [1 .. (ML_LOW_LEN * ML_HIGH_LEN) -> Rq],
         NEW i \in 1 .. ML_LOW_LEN, NEW j \in 1 .. ML_HIGH_LEN
  PROVE  /\ ML_LOW_LEN \in Nat \ {0} /\ ML_HIGH_LEN \in Nat
         /\ SplitEquiv(j - 1, i - 1) + 1 = i + ML_LOW_LEN * (j - 1)
         /\ ToMatrix(f)[i][j] = f[i + ML_LOW_LEN * (j - 1)]
<1>. DEFINE L == ML_LOW_LEN
            H == ML_HIGH_LEN
<1>1. L \in Nat \ {0} /\ H \in Nat
  BY SplitAssumption, Sizes
<1>2. SplitEquiv(j - 1, i - 1) + 1 = i + L * (j - 1)
  <2>1. SplitEquiv(j - 1, i - 1) = (i - 1) + L * (j - 1)
    BY DEF SplitEquiv
  <2>. HIDE DEF L, H
  <2>2. L * (j - 1) \in Int /\ i \in Int
    BY <1>1
  <2>. DEFINE t == L * (j - 1)
  <2>3. t \in Int
    BY <2>2
  <2>. HIDE DEF t
  <2>4. ((i - 1) + t) + 1 = i + t
    BY <2>2, <2>3
  <2>. QED BY <2>1, <2>4 DEF t
<1>3. ToMatrix(f)[i][j] = f[SplitEquiv(j - 1, i - 1) + 1]
  BY DEF ToMatrix
<1>. QED BY <1>1, <1>2, <1>3

(* The matrix goes back to the polynomial.                                  *)
LEMMA MatrixBack ==
  ASSUME NEW f \in [1 .. (ML_LOW_LEN * ML_HIGH_LEN) -> Rq]
  PROVE  ToPolynomial(ToMatrix(f)) = f
<1>. DEFINE L == ML_LOW_LEN
            H == ML_HIGH_LEN
<1>1. L \in Nat \ {0} /\ H \in Nat
  BY SplitAssumption, Sizes
<1>2. ASSUME NEW k \in 1 .. (L * H)
      PROVE  ToMatrix(f)[SplitEquivInv(k - 1)[2] + 1][SplitEquivInv(k - 1)[1] + 1] = f[k]
  <2>. DEFINE x == (k - 1) \div L
              y == (k - 1) % L
  <2>1. SplitEquivInv(k - 1) = <<x, y>>
    BY DEF SplitEquivInv
  <2>2. x + 1 \in 1 .. H /\ y \in 0 .. (L - 1)
    <3>1. k \in 1 .. (H * L)
      <4>1. L * H = H * L
        BY <1>1
      <4>. HIDE DEF L, H
      <4>. QED BY <4>1
    <3>. HIDE DEF L, H
    <3>. QED BY <1>1, <3>1, IndexAt
  <2>3. k - 1 = L * x + y /\ x \in Int /\ y \in Int
    <3>. HIDE DEF L, H
    <3>. QED BY <1>1
  <2>. HIDE DEF x, y
  <2>4. y + 1 \in 1 .. L
    <3>. HIDE DEF L, H
    <3>. QED BY <1>1, <2>2
  <2>5. ToMatrix(f)[y + 1][x + 1] = f[(y + 1) + L * ((x + 1) - 1)]
    BY <2>2, <2>4, MatrixCell
  <2>6. (y + 1) + L * ((x + 1) - 1) = k
    <3>1. (x + 1) - 1 = x
      BY <2>3
    <3>. HIDE DEF L, H
    <3>2. L * x \in Int
      BY <1>1, <2>3
    <3>. DEFINE t == L * x
    <3>3. t \in Int /\ k - 1 = t + y
      BY <2>3, <3>2
    <3>. HIDE DEF t
    <3>4. (y + 1) + t = k
      BY <2>3, <3>3
    <3>. QED BY <3>1, <3>4 DEF t
  <2>. QED BY <2>1, <2>5, <2>6
<1>3. ToPolynomial(ToMatrix(f))
        = [k \in 1 .. (L * H) |-> ToMatrix(f)[SplitEquivInv(k - 1)[2] + 1][SplitEquivInv(k - 1)[1] + 1]]
  BY DEF ToPolynomial
<1>. QED BY <1>2, <1>3

(* The quadratic form between two bases is the sum of the entries, each     *)
(* with the factors of its index.                                           *)
LEMMA SplitValue ==
  ASSUME NEW lag \in BOOLEAN, NEW f \in [1 .. (ML_LOW_LEN * ML_HIGH_LEN) -> Rq],
         NEW pl \in RingVectors(ML_VARS_LOW), NEW ph \in RingVectors(ML_VARS_HIGH)
  PROVE  SplitForm(ToMatrix(f), Basis(lag, pl), Basis(lag, ph))
           = SumOf([k \in 1 .. (ML_LOW_LEN * ML_HIGH_LEN) |->
                      NegMul(f[k], ProductOver(Factors(lag, k - 1, pl \o ph)))],
                   1 .. (ML_LOW_LEN * ML_HIGH_LEN))
<1>. DEFINE L == ML_LOW_LEN
            H == ML_HIGH_LEN
            S == 1 .. L
            T == 1 .. H
            M == ToMatrix(f)
            u == Basis(lag, pl)
            w == Basis(lag, ph)
            P(k) == ProductOver(Factors(lag, k - 1, pl \o ph))
            F == [k \in 1 .. (L * H) |-> NegMul(f[k], P(k))]
            r == [i \in S |-> Dot(M[i], w)]
<1>1. /\ L \in Nat \ {0} /\ H \in Nat
      /\ L = PowerOfTwo[ML_VARS_LOW] /\ H = PowerOfTwo[ML_VARS_HIGH]
      /\ ML_VARS_LOW \in Nat /\ ML_VARS_HIGH \in Nat
  BY SplitAssumption, Sizes DEF ML_LOW_LEN, ML_HIGH_LEN
<1>0. L \in Nat \ {0} /\ H \in Nat /\ L \in Int /\ H \in Int
  BY SplitAssumption, Sizes
<1>2. M \in [S -> [T -> Rq]]
  BY SplitAssumption, MessageType
<1>3. pl \in [1 .. ML_VARS_LOW -> Rq] /\ ph \in [1 .. ML_VARS_HIGH -> Rq]
  BY DEF RingVectors
<1>4. /\ u \in Seq(Rq) /\ Len(u) = L
      /\ \A k \in 0 .. (L - 1) : u[k + 1] = ProductOver(Factors(lag, k, pl))
  BY <1>1, <1>3, BasisIs
<1>5. /\ w \in Seq(Rq) /\ Len(w) = H
      /\ \A k \in 0 .. (H - 1) : w[k + 1] = ProductOver(Factors(lag, k, ph))
  BY <1>1, <1>3, BasisIs
<1>6. ASSUME NEW i \in S, NEW j \in T
      PROVE  /\ M[i][j] \in IntRq /\ u[i] \in IntRq /\ w[j] \in IntRq
             /\ M[i][j] = f[i + L * (j - 1)]
             /\ P(i + L * (j - 1)) = NegMul(u[i], w[j])
  <2>1. M[i][j] \in IntRq
    <3>1. M[i] \in [T -> Rq]
      BY <1>2
    <3>2. M[i][j] \in Rq
      BY <3>1
    <3>. QED BY <3>2, RqInt
  <2>2. u[i] \in IntRq /\ w[j] \in IntRq
    <3>. HIDE DEF u, w
    <3>. QED BY <1>4, <1>5, SeqEntries
  <2>3. M[i][j] = f[i + L * (j - 1)]
    BY MatrixCell
  <2>. DEFINE y == i - 1
              x == j - 1
              k == i + L * (j - 1)
  <2>4. y \in 0 .. (L - 1) /\ x \in 0 .. (H - 1) /\ y + 1 = i /\ x + 1 = j
    <3>. HIDE DEF L, H
    <3>. QED BY <1>1
  <2>5. k - 1 = y + L * x
    <3>. HIDE DEF L, H
    <3>1. L * (j - 1) \in Int /\ i \in Int
      BY <1>1
    <3>. DEFINE t == L * (j - 1)
    <3>2. t \in Int /\ k = i + t /\ L * x = t
      BY <3>1
    <3>. HIDE DEF t, k
    <3>3. (i + t) - 1 = (i - 1) + t
      BY <3>1, <3>2
    <3>. QED BY <3>2, <3>3
  <2>6. u[i] = ProductOver(Factors(lag, y, pl)) /\ w[j] = ProductOver(Factors(lag, x, ph))
    <3>. HIDE DEF y, x, u, w, L, H
    <3>. QED BY <1>4, <1>5, <2>4
  <2>7. P(k) = NegMul(u[i], w[j])
    <3>1. x \in Nat /\ y \in 0 .. (PowerOfTwo[ML_VARS_LOW] - 1)
      BY <1>1, <2>4
    <3>. HIDE DEF x, y
    <3>2. ProductOver(Factors(lag, y + PowerOfTwo[ML_VARS_LOW] * x, pl \o ph))
            = NegMul(ProductOver(Factors(lag, y, pl)), ProductOver(Factors(lag, x, ph)))
      BY <1>1, <3>1, FactorsJoin
    <3>. HIDE DEF k, u, w
    <3>. QED BY <1>1, <2>5, <2>6, <3>2
  <2>. QED BY <2>1, <2>2, <2>3, <2>7
<1>. HIDE DEF u, w, M
<1>7. IsFiniteSet(S) /\ IsFiniteSet(T)
  <2>. HIDE DEF L, H
  <2>. QED BY <1>0, FS_Interval
<1>8. ASSUME NEW i \in S
      PROVE  /\ Dot(M[i], w) \in Rq
             /\ Dot(M[i], w) = SumOf([j \in T |-> NegMul(w[j], M[i][j])], T)
  <2>. DEFINE m == M[i]
  <2>1. m \in Seq(Rq) /\ Len(m) = H
    <3>. HIDE DEF L, H
    <3>1. L \in Nat
      BY <1>0
    <3>. QED BY <1>0, <1>2, <3>1, RowsAreVectors
  <2>. HIDE DEF m
  <2>2. Least(Len(w), Len(m)) = H
    BY <1>1, <1>5, <2>1, LeastFacts
  <2>3. Dot(m, w) = Dot(w, m) /\ Dot(m, w) \in Rq
    BY <1>5, <2>1, DotCommutes, DotIs
  <2>4. Dot(w, m) = SumOf([j \in T |-> NegMul(w[j], m[j])], T)
    BY <1>5, <2>1, <2>2, DotIs
  <2>. QED BY <2>3, <2>4 DEF m
<1>9. r \in [S -> Rq]
  BY <1>8
<1>10. MatVec(M, w) = r
  <2>1. DOMAIN M = S
    BY <1>2
  <2>. HIDE DEF S
  <2>2. [i \in DOMAIN M |-> Dot(M[i], w)] = r
    BY <2>1
  <2>. HIDE DEF r
  <2>3. StoredVec(r) = r
    BY <1>1, <1>9, StoredVecIs DEF S
  <2>. QED BY <2>2, <2>3 DEF MatVec
<1>11. \A i \in S : r[i] = SumOf([j \in T |-> NegMul(w[j], M[i][j])], T)
  BY <1>8
<1>. HIDE DEF r
<1>12. Dot(u, r) = SumOf([i \in S |-> NegMul(u[i], r[i])], S)
  <2>1. r \in Seq(Rq) /\ Len(r) = L
    <3>. HIDE DEF L, H
    <3>. QED BY <1>0, <1>9
  <2>2. Least(Len(u), Len(r)) = L
    BY <1>1, <1>4, <2>1, LeastFacts
  <2>. QED BY <1>4, <2>1, <2>2, DotIs
<1>. DEFINE a == [j \in T |-> w[j]]
            d == [i \in S |-> u[i]]
<1>13. Dot(u, r) = ByRows(S, T, a, d, M)
  <2>1. ASSUME NEW i \in S
        PROVE  NegMul(u[i], r[i]) = NegMul(d[i], SumOf([j \in T |-> NegMul(a[j], M[i][j])], T))
    <3>1. [j \in T |-> NegMul(a[j], M[i][j])] = [j \in T |-> NegMul(w[j], M[i][j])]
      OBVIOUS
    <3>2. d[i] = u[i]
      OBVIOUS
    <3>. HIDE DEF S, T, a, d
    <3>. QED BY <1>11, <3>1, <3>2
  <2>. HIDE DEF S, T, a, d
  <2>2. [i \in S |-> NegMul(u[i], r[i])]
          = [i \in S |-> NegMul(d[i], SumOf([j \in T |-> NegMul(a[j], M[i][j])], T))]
    BY <2>1
  <2>. QED BY <1>12, <2>2 DEF ByRows
<1>14. ByColumns(S, T, a, d, M) = ByRows(S, T, a, d, M)
  <2>1. a \in IntMaps(T) /\ d \in IntMaps(S)
    <3>. HIDE DEF L, H
    <3>1. \A j \in T : w[j] \in IntRq
      BY <1>1, <1>5, SeqEntries
    <3>2. \A i \in S : u[i] \in IntRq
      BY <1>1, <1>4, SeqEntries
    <3>. QED BY <3>1, <3>2 DEF IntMaps
  <2>2. M \in IntTables(S, T)
    <3>1. \A i \in S, j \in T : M[i][j] \in IntRq
      BY <1>6
    <3>. HIDE DEF S, T
    <3>. QED BY <1>2, <3>1 DEF IntTables
  <2>. HIDE DEF S, T, a, d
  <2>. QED BY <1>7, <2>1, <2>2, FoldExchange
<1>15. F \in [1 .. (L * H) -> IntRq]
  <2>1. ASSUME NEW k \in 1 .. (L * H) PROVE NegMul(f[k], P(k)) \in IntRq
    <3>1. f[k] \in IntRq
      <4>1. f[k] \in Rq
        OBVIOUS
      <4>. QED BY <4>1, RqInt
    <3>2. P(k) \in IntRq
      <4>1. pl \o ph \in [1 .. (ML_VARS_LOW + ML_VARS_HIGH) -> Rq]
        <5>1. pl \in Seq(Rq) /\ ph \in Seq(Rq) /\ Len(pl) = ML_VARS_LOW /\ Len(ph) = ML_VARS_HIGH
          BY <1>1, <1>3
        <5>2. pl \o ph \in Seq(Rq)
          BY <5>1, ConcatProperties
        <5>3. Len(pl \o ph) = ML_VARS_LOW + ML_VARS_HIGH
          BY <5>1, ConcatProperties
        <5>. QED BY <5>2, <5>3, SeqEntries
      <4>2. P(k) \in Rq
        <5>1. ML_VARS_LOW + ML_VARS_HIGH \in Nat
          BY <1>1
        <5>. QED BY <4>1, <5>1, FactorsProductType
      <4>. HIDE DEF P
      <4>. QED BY <4>2, RqInt
    <3>. HIDE DEF P
    <3>. QED BY <3>1, <3>2, IntProductType
  <2>. HIDE DEF P
  <2>. QED BY <2>1
<1>16. ASSUME NEW j \in T
       PROVE  NegMul(a[j], SumOf([i \in S |-> NegMul(d[i], M[i][j])], S))
                = SumOf([i \in S |-> F[i + L * (j - 1)]], S)
  <2>. DEFINE G == [i \in S |-> NegMul(d[i], M[i][j])]
  <2>1. G \in [S -> IntRq]
    BY <1>6, IntProductType
  <2>2. a[j] = w[j] /\ w[j] \in IntRq
    <3>. HIDE DEF L, H
    <3>. QED BY <1>1, <1>5, SeqEntries
  <2>3. ASSUME NEW i \in S PROVE NegMul(a[j], G[i]) = F[i + L * (j - 1)]
    <3>. DEFINE k == i + L * (j - 1)
                m == M[i][j]
    <3>1. /\ m \in IntRq /\ u[i] \in IntRq /\ w[j] \in IntRq
          /\ m = f[k] /\ P(k) = NegMul(u[i], w[j])
      BY <1>6
    <3>2. k \in 1 .. (L * H)
      <4>. HIDE DEF L, H
      <4>. QED BY <1>1, <1>15, GridSum
    <3>3. G[i] = NegMul(u[i], m) /\ F[k] = NegMul(f[k], P(k))
      BY <3>2
    <3>4. NegMul(w[j], NegMul(u[i], m)) = NegMul(m, NegMul(u[i], w[j]))
      <4>. HIDE DEF m
      <4>. QED BY <3>1, ProductRotates
    <3>. HIDE DEF G, F, P, k, m
    <3>5. NegMul(a[j], G[i]) = F[k]
      BY <2>2, <3>1, <3>3, <3>4
    <3>. QED BY <3>5 DEF k
  <2>. HIDE DEF G, F, P, a, d
  <2>4. NegMul(a[j], SumOf(G, S)) = SumOf([i \in S |-> NegMul(a[j], G[i])], S)
    <3>. HIDE DEF S
    <3>. QED BY <1>7, <2>1, <2>2, ProductOfSum
  <2>5. [i \in S |-> NegMul(a[j], G[i])] = [i \in S |-> F[i + L * (j - 1)]]
    BY <2>3
  <2>. QED BY <2>4, <2>5 DEF G
<1>. HIDE DEF F, P, a, d
<1>17. ByColumns(S, T, a, d, M) = SumOf([j \in T |-> SumOf([i \in S |-> F[i + L * (j - 1)]], S)], T)
  <2>. HIDE DEF S, T
  <2>1. [j \in T |-> NegMul(a[j], SumOf([i \in S |-> NegMul(d[i], M[i][j])], S))]
          = [j \in T |-> SumOf([i \in S |-> F[i + L * (j - 1)]], S)]
    BY <1>16
  <2>. QED BY <2>1 DEF ByColumns
<1>18. SumOf(F, 1 .. (L * H)) = SumOf([j \in T |-> SumOf([i \in S |-> F[i + L * (j - 1)]], S)], T)
  <2>. HIDE DEF L, H
  <2>. QED BY <1>0, <1>15, GridSum
<1>19. SplitForm(M, u, w) = SumOf(F, 1 .. (L * H))
  BY <1>10, <1>13, <1>14, <1>17, <1>18 DEF SplitForm
<1>. QED BY <1>19 DEF M, u, w, F, P

(* The two direct evaluations are those sums.                               *)
LEMMA DirectIs ==
  ASSUME NEW N \in Nat, NEW f \in [1 .. N -> Rq], NEW x
  PROVE  /\ EvalDirect(f, x)
              = SumOf([k \in 1 .. N |-> NegMul(f[k], ProductOver(Factors(FALSE, k - 1, x)))], 1 .. N)
         /\ EvalDirectEval(f, x)
              = SumOf([k \in 1 .. N |-> NegMul(f[k], ProductOver(Factors(TRUE, k - 1, x)))], 1 .. N)
<1>. DEFINE S == 1 .. N
            F(lag) == [k \in S |-> NegMul(f[k], ProductOver(Factors(lag, k - 1, x)))]
<1>1. DOMAIN f = S
  OBVIOUS
<1>2. \A k : Monomial(k, x) = ProductOver(Factors(FALSE, k, x))
  BY DEF Monomial, Factors, Factor
<1>3. \A k : Lagrange(k, x) = ProductOver(Factors(TRUE, k, x))
  BY DEF Lagrange, Factors, Factor
<1>4. ASSUME NEW G
      PROVE  Stored([p \in Coeff |-> SumFunction([k \in S |-> G[k][p]]) % Q]) = SumOf(G, S)
  BY SumRqIs, StoredIs
<1>5. EvalDirect(f, x) = SumOf(F(FALSE), S)
  <2>. DEFINE G == F(FALSE)
  <2>1. \A k \in S : G[k] = NegMul(f[k], Monomial(k - 1, x))
    BY <1>2
  <2>2. \A p \in Coeff : [k \in S |-> NegMul(f[k], Monomial(k - 1, x))[p]] = [k \in S |-> G[k][p]]
    BY <2>1
  <2>3. Stored([p \in Coeff |-> SumFunction([k \in S |-> NegMul(f[k], Monomial(k - 1, x))[p]]) % Q])
          = Stored([p \in Coeff |-> SumFunction([k \in S |-> G[k][p]]) % Q])
    <3>. HIDE DEF G, S
    <3>. QED BY <2>2
  <2>. QED BY <1>1, <1>4, <2>3 DEF EvalDirect, SumRq
<1>6. EvalDirectEval(f, x) = SumOf(F(TRUE), S)
  <2>. DEFINE G == F(TRUE)
  <2>1. \A k \in S : G[k] = NegMul(f[k], Lagrange(k - 1, x))
    BY <1>3
  <2>2. \A p \in Coeff : [k \in S |-> NegMul(f[k], Lagrange(k - 1, x))[p]] = [k \in S |-> G[k][p]]
    BY <2>1
  <2>3. Stored([p \in Coeff |-> SumFunction([k \in S |-> NegMul(f[k], Lagrange(k - 1, x))[p]]) % Q])
          = Stored([p \in Coeff |-> SumFunction([k \in S |-> G[k][p]]) % Q])
    <3>. HIDE DEF G, S
    <3>. QED BY <2>2
  <2>. QED BY <1>1, <1>4, <2>3 DEF EvalDirectEval, SumRq
<1>. QED BY <1>5, <1>6

(* The property, from the invariant.                                        *)
LEMMA InvClaim == IInv => ClaimExact
<1>. SUFFICES ASSUME IInv, stmt # << >>
              PROVE  /\ stmt.true => stmt.y = EvalDirect(poly.f, point.xl \o point.xh)
                     /\ EvalPolyEval(poly.f, point.xl, point.xh)
                          = EvalDirectEval(poly.f, point.xl \o point.xh)
                     /\ ToPolynomial(ToMatrix(poly.f)) = poly.f
  BY DEF ClaimExact
<1>. DEFINE N == ML_LOW_LEN * ML_HIGH_LEN
            f == poly.f
            pl == point.xl
            ph == point.xh
<1>1. poly \in Polys /\ point \in Points /\ \E lie \in Lies : stmt = Claimed(poly, point, lie)
  BY DEF IInv, ClaimInv
<1>2. /\ f \in [1 .. N -> Rq]
      /\ pl \in RingVectors(ML_VARS_LOW) /\ ph \in RingVectors(ML_VARS_HIGH)
      /\ N \in Nat
  <2>1. N \in Nat
    BY SplitAssumption, Sizes
  <2>. QED BY <1>1, <2>1, SplitAssumption DEF RingVectors
<1>3. PICK lie \in Lies : stmt = Claimed(poly, point, lie)
  BY <1>1
<1>4. stmt.true = (lie = 0) /\ stmt.y = AddRq(EvalPoly(f, pl, ph), Constant(lie))
  BY <1>3 DEF Claimed
<1>. HIDE DEF f, pl, ph
<1>5. EvalPoly(f, pl, ph) = EvalDirect(f, pl \o ph)
  <2>1. EvalPoly(f, pl, ph) = SplitForm(ToMatrix(f), Basis(FALSE, pl), Basis(FALSE, ph))
    BY DEF EvalPoly, Basis
  <2>2. SplitForm(ToMatrix(f), Basis(FALSE, pl), Basis(FALSE, ph))
          = SumOf([k \in 1 .. N |-> NegMul(f[k], ProductOver(Factors(FALSE, k - 1, pl \o ph)))], 1 .. N)
    BY <1>2, SplitValue
  <2>. HIDE DEF N
  <2>. QED BY <1>2, <2>1, <2>2, DirectIs
<1>6. EvalPolyEval(f, pl, ph) = EvalDirectEval(f, pl \o ph)
  <2>1. EvalPolyEval(f, pl, ph) = SplitForm(ToMatrix(f), Basis(TRUE, pl), Basis(TRUE, ph))
    BY DEF EvalPolyEval, Basis
  <2>2. SplitForm(ToMatrix(f), Basis(TRUE, pl), Basis(TRUE, ph))
          = SumOf([k \in 1 .. N |-> NegMul(f[k], ProductOver(Factors(TRUE, k - 1, pl \o ph)))], 1 .. N)
    BY <1>2, SplitValue
  <2>. HIDE DEF N
  <2>. QED BY <1>2, <2>1, <2>2, DirectIs
<1>7. EvalPoly(f, pl, ph) \in Rq
  <2>1. EvalPoly(f, pl, ph) = Dot(Basis(FALSE, pl), MatVec(ToMatrix(f), Basis(FALSE, ph)))
    BY DEF EvalPoly, SplitForm, Basis
  <2>2. Basis(FALSE, pl) \in Seq(Rq) /\ Basis(FALSE, ph) \in Seq(Rq)
    BY <1>2, SplitAssumption, BasisIs DEF RingVectors
  <2>3. ToMatrix(f) \in Seq(Seq(Rq))
    <3>. DEFINE M == ToMatrix(f)
    <3>1. M \in [1 .. BLOCKS -> [1 .. MESSAGE_ROWS -> Rq]]
      BY <1>2, MessageType
    <3>. HIDE DEF M
    <3>2. \A i \in 1 .. BLOCKS : M[i] \in Seq(Rq)
      BY <3>1, Sizes, RowsAreVectors
    <3>3. M \in [1 .. BLOCKS -> Seq(Rq)]
      BY <3>1, <3>2
    <3>4. M \in Seq(Seq(Rq))
      BY <3>3, Sizes
    <3>. QED BY <3>4 DEF M
  <2>. QED BY <2>1, <2>2, <2>3, MatVecIs, DotIs
<1>8. stmt.true => stmt.y = EvalDirect(f, pl \o ph)
  <2>1. SUFFICES ASSUME stmt.true PROVE stmt.y = EvalDirect(f, pl \o ph)
    OBVIOUS
  <2>2. lie = 0
    BY <1>4, <2>1
  <2>. QED BY <1>4, <1>5, <1>7, <2>2, NothingAdded
<1>9. ToPolynomial(ToMatrix(f)) = f
  BY <1>2, MatrixBack
<1>. QED BY <1>6, <1>8, <1>9 DEF f, pl, ph

-----------------------------------------------------------------------------
(* THE INVARIANT *)

LEMMA InitInv == Init => IInv
BY DEF Init, IInv, CommitInv, ClaimInv, CarrierInv, FoldInv, RespInv

LEMMA StepInv == IInv /\ [Next]_qvars => IInv'
<1>. SUFFICES ASSUME IInv, [Next]_qvars PROVE IInv'
  OBVIOUS
<1>. USE DEF IInv
<1>1. CASE Commit
  <2>1. /\ com = << >> /\ com' = CommittedTo(poly)
        /\ UNCHANGED <<poly, point, stmt, what, v, c, resp, rlin>>
    BY <1>1 DEF Commit, CommittedTo, DigitsOf, InnerOf, Bal
  <2>2. stmt = << >> /\ what = << >> /\ c = << >> /\ resp = << >>
    BY <2>1 DEF ClaimInv, CarrierInv, FoldInv, RespInv
  <2>. QED BY <2>1, <2>2 DEF CommitInv, ClaimInv, CarrierInv, FoldInv, RespInv
<1>2. CASE Claim
  <2>1. /\ com # << >> /\ stmt = << >>
        /\ UNCHANGED <<poly, com, what, v, c, resp, rlin>>
    BY <1>2 DEF Claim
  <2>2. com = CommittedTo(poly)
    BY <2>1 DEF CommitInv
  <2>3. point' \in Points /\ \E lie \in Lies : stmt' = Claimed(poly, point', lie)
    BY <1>2, <2>2 DEF Claim, Claimed
  <2>4. what = << >> /\ c = << >> /\ resp = << >>
    BY <2>1 DEF CarrierInv, FoldInv, RespInv
  <2>5. CommitInv' /\ ClaimInv'
    BY <2>1, <2>3 DEF CommitInv, ClaimInv
  <2>. QED BY <2>1, <2>4, <2>5 DEF CarrierInv, FoldInv, RespInv
<1>3. CASE SendCarrier
  <2>1. /\ stmt # << >> /\ what = << >>
        /\ what' = CarrierDecomp(stmt.a) /\ v' = MatVec(KeyD, what')
        /\ UNCHANGED <<poly, com, point, stmt, c, resp, rlin>>
    BY <1>3 DEF SendCarrier
  <2>2. com = CommittedTo(poly)
    BY <2>1 DEF CommitInv, ClaimInv
  <2>3. what' = CarrierPart(poly, stmt.a)
    <3>1. com.s = DigitsOf(poly)
      BY <2>2 DEF CommittedTo
    <3>. QED BY <2>1, <3>1 DEF CarrierDecomp, Carrier, CarrierPart, CarrierOf
  <2>4. c = << >> /\ resp = << >>
    BY <2>1 DEF FoldInv, RespInv
  <2>5. CommitInv' /\ ClaimInv' /\ CarrierInv'
    BY <2>1, <2>3 DEF CommitInv, ClaimInv, CarrierInv
  <2>. QED BY <2>1, <2>4, <2>5 DEF FoldInv, RespInv
<1>4. CASE Challenge
  <2>1. /\ what # << >> /\ c = << >> /\ c' \in [1 .. BLOCKS -> Challenges]
        /\ UNCHANGED <<poly, com, point, stmt, what, v, resp, rlin>>
    BY <1>4 DEF Challenge
  <2>2. resp = << >>
    BY <2>1 DEF RespInv
  <2>. QED BY <2>1, <2>2 DEF CommitInv, ClaimInv, CarrierInv, FoldInv, RespInv
<1>5. CASE Respond
  <2>1. /\ c # << >> /\ resp = << >>
        /\ \E bump \in Bumps : resp' = BumpedResp(HonestResp, bump)
        /\ UNCHANGED <<poly, com, point, stmt, what, v, c>>
    BY <1>5 DEF Respond
  <2>2. HonestResp = Honest(what, com.s, com.t, c)
    BY DEF HonestResp, Honest, HonestZ, ZOf
  <2>3. RespInv'
    BY <2>1, <2>2 DEF RespInv
  <2>. QED BY <2>1, <2>3 DEF CommitInv, ClaimInv, CarrierInv, FoldInv
<1>6. CASE UNCHANGED qvars
  BY <1>6 DEF qvars, CommitInv, ClaimInv, CarrierInv, FoldInv, RespInv
<1>. QED BY <1>1, <1>2, <1>3, <1>4, <1>5, <1>6 DEF Next

(* Completeness, for every size, key and challenge: an honest response to a *)
(* true claim satisfies rel_out, whichever digits were committed, and       *)
(* paper_rel_out with balanced ones, which implies rel_out of an altered    *)
(* response too.                                                            *)
THEOREM HonestAccepted == Spec => []HonestInRelation
<1>1. Spec => []IInv
  BY InitInv, StepInv, PTL DEF Spec
<1>. QED BY <1>1, InvHonest, PTL

(* The split evaluates the polynomial, for every size, point and table.     *)
THEOREM ClaimCorrect == Spec => []ClaimExact
<1>1. Spec => []IInv
  BY InitInv, StepInv, PTL DEF Spec
<1>. QED BY <1>1, InvClaim, PTL
=============================================================================
