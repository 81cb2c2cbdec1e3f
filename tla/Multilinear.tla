----------------------------- MODULE Multilinear -----------------------------
(***************************************************************************)
(* Evaluation tables over a Boolean cube and the coefficient vectors of    *)
(* univariate polynomials, with the folds and equality kernels of          *)
(* hachi/src/sumcheck.rs.  A table of 2^k entries is a function on         *)
(* 0 .. 2^k - 1 whose least significant index bit is the first variable; a *)
(* polynomial is a function on 0 .. d.  The extension field the challenges *)
(* live in and the base field of the witness are one prime field here.     *)
(***************************************************************************)
EXTENDS Gadget, Sequences

Tabulate(f) == CHOOSE g \in {f} : g = f   \* f; TLC computes each entry once
Folded(step(_, _), z, s) ==
  LET acc[k \in 0 .. Len(s)] == IF k = 0 THEN z ELSE step(acc[k - 1], s[k])
  IN  acc[Len(s)]
Powers(x) == LET p[n \in Nat] == IF n = 0 THEN 1 ELSE x * p[n - 1] IN p
Pow(x, k) == Powers(x)[k]
Size(t) == Cardinality(DOMAIN t)
Sigma(f(_), S) == SumFunction([x \in S |-> f(x)]) % Q
Product(s)     == Folded(LAMBDA y, x : (y * x) % Q, 1, s)
Pi(f(_), n)    == Product([k \in 1 .. n |-> f(k)])
Bit(i, k)      == (i \div Pow(2, k - 1)) % 2

(* cpoly's eval_mle_layer, and eval_mle_layer_base: the first variable is   *)
(* fixed at a.                                                              *)
LayerHigh(t, a) ==   \* mutant: the last variable is fixed
  Tabulate([j \in 0 .. (Size(t) \div 2 - 1) |-> ((1 - a) * t[j] + a * t[j + Size(t) \div 2]) % Q])
Layer(t, a) == Tabulate([j \in 0 .. (Size(t) \div 2 - 1) |->
                           ((1 - a) * t[2 * j] + a * t[2 * j + 1]) % Q])
MleEval(t, point) == Folded(Layer, t, point)[0]

EqFactor(t, a) == t * a + (1 - t) * (1 - a)

(* eq_prefix: the equality kernel of the coordinates already bound.         *)
EqPrefix(tau, bound) == Pi(LAMBDA k : EqFactor(tau[k], bound[k]), Len(bound))

(* eq_suffix_table: one coordinate at a time, the new one the high bit.     *)
Doubled(tab, t) ==
  LET half == Size(tab)
  IN  Tabulate([j \in 0 .. (2 * half - 1) |->
         IF j < half THEN (tab[j] - tab[j] * t) % Q ELSE (tab[j - half] * t) % Q])
EqSuffixShifted(tau, i) ==   \* mutant: the free coordinate for the last one
  Folded(Doubled, [j \in {0} |-> 1], SubSeq(tau, i + 1, Len(tau) - 1))
EqSuffix(tau, i) == Folded(Doubled, [j \in {0} |-> 1], SubSeq(tau, i + 2, Len(tau)))

-----------------------------------------------------------------------------
(* Coefficient vectors. *)

PolyEval(g, x) == Sigma(LAMBDA k : g[k] * Pow(x, k), DOMAIN g)
PolyScale(g, c) == Tabulate([k \in DOMAIN g |-> (g[k] * c) % Q])
PolyMul(g, h) ==
  Tabulate([k \in 0 .. (Size(g) + Size(h) - 2) |->
     Sigma(LAMBDA i : g[i] * h[k - i], { i \in DOMAIN g : k - i \in DOMAIN h })])

(* eq_free_factor: the kernel of the free coordinate, as a polynomial.      *)
EqFree(t) == [k \in 0 .. 1 |-> IF k = 0 THEN (1 - t) % Q ELSE (2 * t - 1) % Q]

=============================================================================
