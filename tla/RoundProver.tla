---------------------------- MODULE RoundProver -----------------------------
(***************************************************************************)
(* The prover's half of the paired sumcheck (sumcheck.rs,                  *)
(* honest_round_messages): the witness table folded by one coordinate per  *)
(* round, and the public table carried as two factors of which one is      *)
(* folded per round.  Round 0 reads the table over the base field, round 1 *)
(* computes its range side from that table again, and later rounds from    *)
(* the folded one.                                                         *)
(***************************************************************************)
EXTENDS RingSwitch

VARIABLES
  wfp,        \* the base table of round 0, live through round 1
  wtab,       \* the table of the current round; at round 0 the base table
  low, high   \* the factors of the public table

pvars == <<wfp, wtab, low, high>>

InitProver(s, w) ==
  /\ wfp = WTable(w)
  /\ wtab = WTable(w)
  /\ low = AlphaLow(s.alpha)
  /\ high = AlphaHigh(s.alpha, s.tau1)

-----------------------------------------------------------------------------
(* The linear side: three coefficients, linear in the public table.         *)

(* The pairs base/2 .. base/2 + cnt - 1 of w against the first of a.        *)
BlockSums(w, a, base, cnt) ==
  LET W(t) == w[base + 2 * t + 1] - w[base + 2 * t]
      A(t) == a[2 * t + 1] - a[2 * t]
      p0 == Sigma(LAMBDA t : w[base + 2 * t] * a[2 * t], 0 .. (cnt - 1))
      p1 == Sigma(LAMBDA t : w[base + 2 * t + 1] * a[2 * t + 1], 0 .. (cnt - 1))
      p2 == Sigma(LAMBDA t : W(t) * A(t), 0 .. (cnt - 1))
  IN  Tabulate([k \in 0 .. 2 |-> IF k = 0 THEN p0 ELSE IF k = 1 THEN (p1 - p0 - p2) % Q ELSE p2])

(* round_poly_alpha_split, and round_poly_alpha_base_split: one high factor *)
(* per block of pairs, or one low factor for them all.                      *)
AlphaPoly(w) ==
  LET half == Size(w) \div 2
      lh   == Size(low) \div 2
      Rest(b) == IF half - b * lh < lh THEN half - b * lh ELSE lh
  IN  IF Size(low) = 1 THEN PolyScale(BlockSums(w, high, 0, half), low[0])
      ELSE Tabulate([k \in 0 .. 2 |->
              Sigma(LAMBDA b : high[b] * BlockSums(w, low, 2 * b * lh, Rest(b))[k],
                    { b \in DOMAIN high : b * lh < half })])

-----------------------------------------------------------------------------
(* honest_compute_g: the range side is the shifted sum times the kernel of  *)
(* the free coordinate and of the bound ones.                               *)
RangePoly(s, point) ==
  LET i     == Len(point)
      eq    == EqSuffix(s.tau0, i)
      inner == IF i = 0 THEN ZeroPolyBase(wfp, eq)
               ELSE IF i = 1 THEN ZeroPolyFold1(wfp, point[1], eq)
               ELSE ZeroPoly(wtab, eq)
  IN  PolyScale(PolyMul(inner, EqFree(s.tau0[i + 1])), EqPrefix(s.tau0, point))

HonestG(s, point) ==
  [zero |-> RangePoly(s, point), alpha |-> AlphaPoly(wtab)]

(* The folds of one iteration; alpha_split_fold folds low while it can.     *)
AlphaSplitFoldHigh(a) ==   \* mutant: the high factor goes first
  IF Size(high) > 1 THEN low' = low /\ high' = Layer(high, a)
                    ELSE low' = Layer(low, a) /\ high' = high
AlphaSplitFold(a) ==
  IF Size(low) > 1 THEN low' = Layer(low, a) /\ high' = high
                   ELSE low' = low /\ high' = Layer(high, a)
ProverFold(a) ==
  /\ wtab' = Layer(wtab, a)
  /\ AlphaSplitFold(a)
  /\ UNCHANGED wfp
=============================================================================
