------------------------------ MODULE QuadEval -------------------------------
(***************************************************************************)
(* The evaluation protocol of hachi/src/quadeval.rs between a prover and a *)
(* verifier: the claim of a committed polynomial at a point, the carrier   *)
(* message, the folding challenge, the response, the output relation, and  *)
(* the linear statement the chain goes on with.                            *)
(***************************************************************************)
EXTENDS EvalSplit, Rlin

CONSTANTS
  CHAIN_GAMMA,   \* the centred bound of the relation
  SB_HI,         \* the top of the balanced box
  Polys, Points, Challenges,
  Lies,          \* what may be added to the claimed value
  Bumps          \* <<part, block, entry>> of a response or a statement

(* The matrix of the split has a row per block and a column per message     *)
(* row, and the keys, polynomials, points and challenges are over the ring  *)
(* (params.rs: ML_LOW_LEN = BLOCKS, ML_HIGH_LEN = MESSAGE_ROWS; the         *)
(* challenges are the short ones classify_short takes).                     *)
ASSUME SplitAssumption ==
  /\ ML_VARS_LOW \in Nat /\ ML_VARS_HIGH \in Nat
  /\ ML_LOW_LEN = BLOCKS /\ ML_HIGH_LEN = MESSAGE_ROWS
  /\ \A g \in Polys : g.f \in [1 .. (ML_LOW_LEN * ML_HIGH_LEN) -> Rq]
  /\ \A pt \in Points : pt.xl \in [1 .. ML_VARS_LOW -> Rq] /\ pt.xh \in [1 .. ML_VARS_HIGH -> Rq]
  /\ \A x \in Challenges : x \in Rq /\ IsShort(x)
  /\ KeyA \in Seq(Seq(Rq)) /\ KeyB \in Seq(Seq(Rq)) /\ KeyD \in Seq(Seq(Rq))

(* Z_DIGITS digits hold the fold of unsigned digits, and the bound of the   *)
(* relation holds an unsigned digit and the balanced box (params.rs:        *)
(* Z_BALANCED_SHIFT, Z_DIGITS, CHAIN_GAMMA = b - 1, SB_HI = b/2 - 1).       *)
MaxFolded == BLOCKS * (OMEGA * (GADGET_BASE - 1))
ASSUME BoundAssumption ==
  /\ MaxFolded <= Z_BALANCED_SHIFT /\ MaxFolded + Z_BALANCED_SHIFT < BasePower[Z_DIGITS]
  /\ CHAIN_GAMMA \in Nat /\ GADGET_BASE - 1 <= CHAIN_GAMMA
  /\ SB_HI \in (HALF_BASE - 1) .. CHAIN_GAMMA

VARIABLES
  poly,     \* the polynomial, and the form the prover works in
  com,      \* the digits s, the inner decompositions t and the commitment u
  point, stmt,
  what, v,  \* the carrier decomposition the prover keeps, and its commitment
  c,        \* the challenge, one short element per block
  resp,     \* the response as the verifier has it
  rlin      \* the linear statement as the chain has it
qvars == <<poly, com, point, stmt, what, v, c, resp, rlin>>

-----------------------------------------------------------------------------
(* Both sides' computations. *)

Message(f) == ToMatrix(f)              \* block i is row i of the matrix

(* carrier_entry on digits; carrier_from_raw_32 on the raw rows.            *)
CarrierEntry(a, s) == Dot(a, GadgetMul(Len(a), s))
Carrier(a) ==
  IF poly.form = "raw" THEN StoredVec([i \in 1 .. BLOCKS |-> Dot(a, Message(poly.f)[i])])
                       ELSE StoredVec([i \in 1 .. BLOCKS |-> CarrierEntry(a, com.s[i])])
CarrierDecomp(a) == BalancedDecompose(Carrier(a))

(* honest_z, of the digits the form folds; bounded_z_gadget_decompose.      *)
HonestZ ==
  StoredVec([j \in 1 .. InnerCols |-> SumRq(LAMBDA i : NegMul(c[i], com.s[i][j]), 1 .. BLOCKS)])
BoundedDecompose(x) ==
  StoredVec([k \in 1 .. (Len(x) * Z_DIGITS) |->
     [p \in Coeff |-> BoundedZDigitAt(x[(k - 1) \div Z_DIGITS + 1][p], (k - 1) % Z_DIGITS)]])
HonestResp == [carrier |-> what, inner |-> com.t, z |-> BoundedDecompose(HonestZ)]

(* j_mul, through gadget_mul_z.                                             *)
JMul(x) ==
  StoredVec([i \in 1 .. InnerCols |->
     SumRq(LAMBDA e : ScaledBy(BasePow(e), x[Z_DIGITS * (i - 1) + e + 1]), ZDigit)])
TensorG(rows, ch, x) ==
  StoredVec([p \in 1 .. rows |-> SumRq(LAMBDA i : NegMul(ch[i], GadgetMul(rows, x[i])[p]), DOMAIN x)])
TensorG1(ch, x) == Dot(ch, GadgetMul(Len(ch), x))

(* in_sb, one side of the box wider than the other.                         *)
InSb(x) == \A p \in Coeff : IF IsNegative(x[p]) THEN Magnitude(x[p]) <= HALF_BASE ELSE x[p] <= SB_HI
VecInSb(x) == \A i \in DOMAIN x : InSb(x[i])

(* The five equations both relations share.                                 *)
Equations(r) ==
  LET z == JMul(r.z)
  IN  /\ MatVec(KeyD, r.carrier) = v
      /\ MatVec(KeyB, FlattenBlocks(r.inner)) = stmt.u
      /\ Dot(stmt.b, GadgetMul(BLOCKS, r.carrier)) = stmt.y
      /\ TensorG1(c, r.carrier) = Dot(stmt.a, GadgetMul(MESSAGE_ROWS, z))
      /\ TensorG(INNER_ROWS, c, r.inner) = MatVec(KeyA, z)
Parts(r) == {r.carrier, FlattenBlocks(r.inner), r.z}
RelOut(r)      == Equations(r) /\ \A x \in Parts(r) : VecLInftyNorm(x) <= CHAIN_GAMMA
PaperRelOut(r) == Equations(r) /\ \A x \in Parts(r) : VecInSb(x)

-----------------------------------------------------------------------------
(* One entry of a part off by one; "trim" drops a statement's last column.  *)
Bumped(x, k) == [x EXCEPT ![k][RING_DEGREE - 1] = (@ + 1) % Q]
BumpedResp(r, b) ==
  LET at(part, x) == IF b[1] = part THEN Bumped(x, b[3]) ELSE x
  IN  [carrier |-> at("carrier", r.carrier), z |-> at("z", r.z),
       inner |-> StoredVec([i \in DOMAIN r.inner |-> IF i = b[2] THEN at("inner", r.inner[i]) ELSE r.inner[i]])]
BumpedBlocks(x, b) ==
  CASE b[1] = "g_b"        -> [x EXCEPT !.g_b = Bumped(@, b[3])]
    [] b[1] = "neg_jt_g_a" -> [x EXCEPT !.neg_jt_g_a = Bumped(@, b[3])]
    [] b[1] = "neg_aj"     -> [x EXCEPT !.neg_aj[b[2]] = Bumped(@, b[3])]
    [] b[1] = "trim"       -> [x EXCEPT !.cz = @ - b[3]]
    [] OTHER               -> x

Commit ==
  /\ com = << >>
  /\ LET balanced == poly.form = "balanced"
         s == StoredVec([i \in 1 .. BLOCKS |-> Decompose(balanced, Message(poly.f)[i])])
         t == StoredVec([i \in 1 .. BLOCKS |-> Decompose(balanced, MatVec(KeyA, s[i]))])
     IN  com' = [s |-> s, t |-> t, u |-> MatVec(KeyB, FlattenBlocks(t))]
  /\ UNCHANGED <<poly, point, stmt, what, v, c, resp, rlin>>

(* to_quad_eval_statement, of a claim that may be false.                    *)
Claim ==
  /\ com # << >> /\ stmt = << >>
  /\ \E pt \in Points, lie \in Lies :
       /\ point' = pt
       /\ stmt' = [u |-> com.u, a |-> MonomialBasis(pt.xh), b |-> MonomialBasis(pt.xl),
                   y |-> AddRq(EvalPoly(poly.f, pt.xl, pt.xh), Constant(lie)), true |-> lie = 0]
  /\ UNCHANGED <<poly, com, what, v, c, resp, rlin>>

SendCarrier ==
  /\ stmt # << >> /\ what = << >>
  /\ what' = CarrierDecomp(stmt.a)
  /\ v' = MatVec(KeyD, what')
  /\ UNCHANGED <<poly, com, point, stmt, c, resp, rlin>>

Challenge ==
  /\ what # << >> /\ c = << >>
  /\ c' \in [1 .. BLOCKS -> Challenges]
  /\ UNCHANGED <<poly, com, point, stmt, what, v, resp, rlin>>

(* The response, as it was made or altered on the way, and the statement.   *)
Respond ==
  /\ c # << >> /\ resp = << >>
  /\ \E b \in Bumps :
       /\ resp' = BumpedResp(HonestResp, b)
       /\ rlin' = [made |-> RlinBlocks(stmt, c), blocks |-> BumpedBlocks(RlinBlocks(stmt, c), b), bump |-> b]
  /\ UNCHANGED <<poly, com, point, stmt, what, v, c>>

Init ==
  /\ poly \in Polys
  /\ com = << >> /\ point = << >> /\ stmt = << >> /\ what = << >> /\ v = << >>
  /\ c = << >> /\ resp = << >> /\ rlin = << >>
Next == Commit \/ Claim \/ SendCarrier \/ Challenge \/ Respond
Spec == Init /\ [][Next]_qvars

-----------------------------------------------------------------------------
(* The split evaluates the polynomial: the claim is its value at the        *)
(* concatenated point, the other basis evaluates a table the same way, and  *)
(* the matrix goes back to the polynomial (evalsplit.rs).                   *)
ClaimExact ==
  stmt # << >> =>
    /\ stmt.true => stmt.y = EvalDirect(poly.f, point.xl \o point.xh)
    /\ EvalPolyEval(poly.f, point.xl, point.xh) = EvalDirectEval(poly.f, point.xl \o point.xh)
    /\ ToPolynomial(ToMatrix(poly.f)) = poly.f

(* An honest response to a true claim is in the output relation, whatever   *)
(* the challenge and whichever digits were committed; with balanced digits  *)
(* it is in the paper's box, and that box is within the bound (rel_out,     *)
(* paper_rel_out).                                                          *)
HonestInRelation ==
  resp # << >> =>
    /\ (stmt.true /\ resp = HonestResp) => RelOut(resp) /\ (poly.form = "balanced" => PaperRelOut(resp))
    /\ PaperRelOut(resp) => RelOut(resp)

(* The linear statement says what the output relation says, of an honest    *)
(* response and of an altered one: M times the stacked response is y and it *)
(* is short exactly when the relation holds.  The blocks are the rows, and  *)
(* the stack unfolds (rlin_stmt, rlin_row, stack, unstack).                 *)
AdapterExact ==
  resp # << >> =>
    LET zeta == Stack(resp)
        y    == RlinY(stmt, v)
        row(i) == StoredVec([j \in 1 .. Cols(rlin.made) |-> Entry(rlin.made, i, j - 1)])
    IN  /\ Rows(rlin.made) = RlinRows /\ Len(zeta) = Cols(rlin.made)
        /\ \A i \in 0 .. (RlinRows - 1) : row(i) = RlinRow(stmt, c, i)
        /\ RelOut(resp) <=> /\ \A i \in 0 .. (RlinRows - 1) : Dot(row(i), zeta) = y[i + 1]
                            /\ VecLInftyNorm(zeta) <= CHAIN_GAMMA
        /\ Unstack(zeta, Cw, Ct, INNER_ROWS * GADGET_DIGITS) = resp

(* The quotient of every row lifts it to polynomials, also where a group of *)
(* blocks is not scaled, or a band ends within a group: the row sum is the  *)
(* reduced product plus (X^N + 1) times the quotient (c_quotient).          *)
QuotientExact ==
  resp # << >> =>
    LET zeta == Stack(resp)
        b    == rlin.blocks
    IN  \A i \in 0 .. (Rows(b) - 1) :
          LET q    == Stored(Quotient(b, zeta, i))
              wide == Stored(RowSum(b, zeta, i))
              low  == Dot(StoredVec([j \in 1 .. Cols(b) |-> Entry(b, i, j - 1)]), zeta)
              high == RowSumHigh(b, zeta, i)
          IN  /\ \A k \in 0 .. (2 * RING_DEGREE - 2) :
                   wide[k] = (IF k < RING_DEGREE THEN low[k] + q[k] ELSE q[k - RING_DEGREE]) % Q
              /\ \A k \in 0 .. (RING_DEGREE - 2) : high[k] = q[k]
=============================================================================
