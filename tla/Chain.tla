------------------------------- MODULE Chain --------------------------------
(***************************************************************************)
(* The chain from the lifted witness to the decision (chain.rs): the       *)
(* prover of chain_open and the verifier of chain_verify, round against    *)
(* round.  A message may be tampered with on the wire.                     *)
(***************************************************************************)
EXTENDS RoundProver

CONSTANTS
  Provers,      \* <<z, d>>: the z a prover holds, and what it adds to its quotient rows
  Statements,   \* alpha, tau0, tau1 and bound
  Draws,        \* challenges drawn in the rounds
  Tampers,      \* what the wire does to a round message
  Lies,         \* what the wire adds to the claimed evaluation
  GAMMA         \* the bound the final check compares

VARIABLES wit, stmt, com, msgs, challenges, target, closing, verdict

AddQ(x, y) == (x + y) % Q

(* The honest lift, or one with quotient rows that are off by a constant.   *)
OffBy(w, d) ==
  [w EXCEPT !.rho = Tabulate([i \in DOMAIN M |-> Tabulate([k \in Coeff |-> (w.rho[i][k] + d) % Q])])]
LiftedWitness == { OffBy(HonestLift(p[1]), p[2]) : p \in Provers }

(* The two closed forms of final_check.                                     *)
FinalValue(s, side, point, y) ==
  IF side = "zero" THEN (EqPrefix(s.tau0, point) * RangeProduct(y)) % Q
                   ELSE (y * AlphaMle(s.alpha, s.tau1, point)) % Q
InitialTarget(s, side) == IF side = "zero" THEN 0 ELSE TargetAlpha(s.alpha, s.tau1)
BoundHolds(s) == GAMMA <= s.bound

-----------------------------------------------------------------------------
(* The reference the properties hold the chain to: the summands at a point, *)
(* with multilinear extensions by Lagrange interpolation, and their sums.   *)

Kernel(p) ==
  Tabulate([l \in 0 .. (Pow(2, Len(p)) - 1) |-> Pi(LAMBDA k : EqFactor(Bit(l, k), p[k]), Len(p))])

(* t with its first variables substituted by p: the Lagrange interpolation. *)
Bound(t, p) ==
  LET n == Pow(2, Len(p))
      K == Kernel(p)
  IN  Tabulate([x \in 0 .. (Size(t) \div n - 1) |-> Sigma(LAMBDA l : t[x * n + l] * K[l], 0 .. (n - 1))])

CubeSum(s, w, side, p) ==
  LET v    == Bound(WTable(w), p)
      Q0(x) == p \o [k \in 1 .. (M_ZERO - Len(p)) |-> Bit(x, k)]
      Eq(x) == Pi(LAMBDA k : EqFactor(s.tau0[k], Q0(x)[k]), M_ZERO)
      A    == Bound(AlphaTable(s.alpha, s.tau1), p)
  IN  IF side = "zero" THEN Sigma(LAMBDA x : Eq(x) * RangeProductBase(v[x]), DOMAIN v)
                       ELSE Sigma(LAMBDA x : v[x] * A[x], DOMAIN v)

V == INSTANCE RoundVerifyProps WITH
       Elem <- Fp, Zero <- 0, One <- 1, Add <- AddQ,
       Poly <- UNION { [0 .. d -> Fp] : d \in 1 .. (SHIFT_DEG + 1) }, Value <- PolyEval,
       Stmt <- Statements, Witness <- LiftedWitness,
       Commitment <- { LiftCommit(w) : w \in LiftedWitness },
       Short <- LiftShort, Commit <- LiftCommit, TableEval <- WTableEval

cvars == <<wit, pvars, V!vvars>>

-----------------------------------------------------------------------------

(* The prover commits to its witness, and the statement is completed with   *)
(* the challenges drawn before the rounds.                                  *)
Init ==
  /\ wit \in LiftedWitness
  /\ V!Init /\ com = LiftCommit(wit)
  /\ InitProver(stmt, wit)

PolyAdd(g, h) == Tabulate([k \in DOMAIN g |-> IF k \in DOMAIN h THEN (g[k] + h[k]) % Q ELSE g[k]])

(* "mend" makes the sum over {0, 1} the target, "bend" keeps it and changes *)
(* the polynomial, "spoil" breaks it.                                       *)
Sent(g, tamper) ==
  LET Changed(side) ==
        PolyAdd(g[side],
          IF tamper = "none" THEN [k \in {0} |-> 0]
          ELSE IF tamper = "mend" THEN [k \in {1} |-> (target[side] - PolyEval(g[side], 0) - PolyEval(g[side], 1)) % Q]
          ELSE IF tamper = "bend" THEN [k \in 1 .. 2 |-> IF k = 1 THEN Q - 1 ELSE 1]
          ELSE [k \in {0} |-> 1])
  IN  [zero |-> Changed("zero"), alpha |-> Changed("alpha")]

(* One iteration of honest_round_messages and of round_verify_loop.         *)
Round(tamper) ==
  LET g == Sent(HonestG(stmt, challenges), tamper)
  IN  \/ V!Fail(g) /\ UNCHANGED pvars
      \/ \E a \in Draws : V!Pass(g, a) /\ ProverFold(a)

(* The claimed evaluation, and the witness in the clear.                    *)
Close(lie, w) ==
  /\ V!Decide(AddQ(WTableEval(wit, challenges), lie), w)
  /\ UNCHANGED pvars

Next ==
  /\ \/ V!RoundsLeft /\ \E tamper \in Tampers : Round(tamper)
     \/ \E lie \in Lies, w \in LiftedWitness : Close(lie, w)
  /\ UNCHANGED wit

Spec == Init /\ [][Next]_cvars

(* Weak fairness of Next, written out with the guards of the two loops for  *)
(* ENABLED <<Next>>_cvars: a message and a challenge always exist, and a    *)
(* step always appends to msgs or fills closing.                            *)
FairSpec == Spec /\ ([]<>~(V!RoundsLeft \/ V!Closing) \/ []<><<Next>>_cvars)

-----------------------------------------------------------------------------
ASSUME ChainAssumption ==
  /\ \A p \in Provers : p[1] \in [0 .. (RlinCols - 1) -> Rq] /\ p[2] \in Fp
  /\ \A s \in Statements : s.alpha \in Fp /\ s.tau0 \in [1 .. M_ZERO -> Fp] /\ s.tau1 \in Seq(Fp)
  /\ "none" \in Tampers /\ 0 \in Lies /\ Draws \subseteq Fp /\ Lies \subseteq Fp

(* The verifier checks the statement it built against the gamma it built it *)
(* with (rlin_stmt, final_check in chain_verify).                           *)
ASSUME BoundAssumption == \A s \in Statements : BoundHolds(s)

(* The type invariant: after i rounds the tables are those of an            *)
(* (M_ZERO - i)-cube, and the two factors together cover it                 *)
(* (honest_round_messages, chain.rs).                                       *)
TypeOK ==
  /\ wit \in LiftedWitness /\ com = LiftCommit(wit)
  /\ wfp = WTable(wit)
  /\ wtab \in [0 .. (Pow(2, M_ZERO - Len(challenges)) - 1) -> Fp]
  /\ Size(low) * Size(high) = Size(wtab)
  /\ Size(low) > 1 => Size(high) = Pow(2, M_ZERO - LowVars)
  /\ V!TypeOK

(* The prover's tables are the witness table and the public table with the  *)
(* challenges substituted, the public one as a product of its factors       *)
(* (eval_mle_layer_base, alpha_split_fold).                                 *)
TablesExact ==
  LET W == Bound(WTable(wit), challenges)
      A == Bound(AlphaTable(stmt.alpha, stmt.tau1), challenges)
  IN  /\ wtab = W
      /\ \A i \in DOMAIN wtab : (low[i % Size(low)] * high[i \div Size(low)]) % Q = A[i]

(* The message the prover sends next is, at every point of the field, the   *)
(* sum of the side's summand over the rest of the cube: bucketing, Taylor   *)
(* shift, factored kernel and factored table change no value                *)
(* (honest_compute_g and its base, fold1 and split forms).                  *)
MessageExact ==
  V!RoundsLeft =>
    LET g == HonestG(stmt, challenges)
    IN  \A side \in {"zero", "alpha"}, t \in Fp :
          PolyEval(g[side], t) = CubeSum(stmt, wit, side, Append(challenges, t))

(* With every challenge drawn, the closed forms the verifier computes are   *)
(* the summands of the witness the prover committed to (final_check).       *)
FinalExact ==
  Len(challenges) = M_ZERO =>
    \A side \in {"zero", "alpha"} :
      FinalValue(stmt, side, challenges, WTableEval(wit, challenges)) = CubeSum(stmt, wit, side, challenges)

(* The lift of a solution: M z = y in Rq, z short, the quotient the honest  *)
(* one.  Its digit rows are short because they are balanced digits.         *)
SolutionLift(w) ==
  /\ w = HonestLift(w.z)
  /\ \A i \in DOMAIN M, p \in Coeff :
       Sigma(LAMBDA u : NegMul(M[i][u], w.z[u])[p], DOMAIN M[i]) = Yvec[i][p]
  /\ \A u \in DOMAIN w.z, k \in Coeff : Magnitude(w.z[u][k]) <= CHAIN_GAMMA

(* What the sumcheck claims is what the statement says.  The initial claim  *)
(* of either side is off by exactly its block of constraints, extended to   *)
(* tau0 or tau1: batching neither loses nor adds a row, whatever the        *)
(* witness.  And the lift of a solution makes both blocks vanish            *)
(* (h_zero, h_alpha, nested_to_round_statement, honest_lift_witness).       *)
SolutionClaims ==
  /\ CubeSum(stmt, wit, "zero", << >>) = MleEval(HZero(wit), stmt.tau0)
  /\ (CubeSum(stmt, wit, "alpha", << >>) - TargetAlpha(stmt.alpha, stmt.tau1)) % Q
       = MleEval(HAlpha(stmt.alpha, wit, Len(stmt.tau1)), stmt.tau1)
  /\ SolutionLift(wit) => HZeroIsZero(wit) /\ HAlphaIsZero(stmt.alpha, wit, Len(stmt.tau1))

(* The composed chain accepts the honest run of a solution: with untouched  *)
(* messages it is never rejected (chain_open against chain_verify).         *)
SolutionAccepted ==
  (SolutionLift(wit) /\ V!Honest(wit)) =>
    \/ verdict # "reject"
    \/ closing # << >> /\ closing # <<WTableEval(wit, challenges), wit>>

(* Soundness of RoundVerifyProps, at this field, table and commitment.      *)
Soundness == V!Soundness

(* Every run is decided.                                                    *)
Decides == V!Decides
=============================================================================
