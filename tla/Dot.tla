-------------------------------- MODULE Dot ---------------------------------
(***************************************************************************)
(* The fused dot products of ring.rs, and the commitment row of            *)
(* ringswitch.rs: terms are transformed and accumulated lane by lane, a    *)
(* chunk at a time, and a chunk is reconstructed from its lanes.  The      *)
(* forms differ in their lanes, in how they load a term and in how many    *)
(* terms a chunk may take; their buffers are recycled from term to term.   *)
(***************************************************************************)
EXTENDS Transform, BalancedGadget
LOCAL INSTANCE SequencesExt
LOCAL INSTANCE FiniteSetsExt

CONSTANTS
  Aux,              \* the three auxiliary lanes: p, psi, psiinv, ninv
  Gold,             \* the Goldilocks lane
  Inv1, Inv12, GInv, \* the inverses Garner uses
  DOT_CHUNK, DOT_CHUNK_D, LIMB2_CHUNK, LIFT_GOLD_MAX,
  LIMB_BASE,        \* the radix of the two limbs of a prepared coefficient
  CHAIN_GAMMA,      \* the centred bound of the short path
  Inputs            \* [form, a, b]; raw rows for b, or [z, rho] of a witness

Prime(k) == Aux[k].p
ASSUME DotAssumption ==
  /\ \A l \in { Aux[1], Aux[2], Aux[3], Gold } :
       /\ (l.psi ^ 2) % l.p # 1 /\ (l.psi * l.psiinv) % l.p = 1 /\ (RING_DEGREE * l.ninv) % l.p = 1
       /\ PsiTable(l.psi, l.p)[RING_DEGREE - 1] = l.p - l.psiinv
  /\ Prime(1) < Prime(2) /\ Prime(2) < Prime(3)
  /\ (Prime(1) * Inv1) % Prime(2) = 1 /\ (Prime(1) * Prime(2) * Inv12) % Prime(3) = 1
  /\ (Gold.p * GInv) % Prime(1) = 1
  /\ LIMB_BASE * LIMB_BASE >= Q

VARIABLES
  in,              \* what the call was given
  prep,            \* the transformed key, lane after lane, made before the loop
  start, j,        \* the chunk and the term
  accs,            \* the accumulators of the lane at work
  cur, tmp, spare, \* the recycled buffers
  words,           \* the raw words the digits are taken from
  res,             \* the words of the lanes of this chunk already finished
  out              \* the sum of the chunks before
vars == <<in, prep, start, j, accs, cur, tmp, spare, words, res, out>>

-----------------------------------------------------------------------------
(* The operands. *)

Terms == Cardinality(DOMAIN in.a)
Is(forms) == in.form \in forms
Chunked == {"fused", "prepared", "ga"}
OneGold == {"digits_gold", "raw_digits", "limbs2"}

(* word: a raw word may be unreduced, and a row short.                      *)
RawWord(row, i) == IF i \in DOMAIN row THEN row[i] % Q ELSE 0
LoadRaw(row) == [i \in Coeff |-> RawWord(row, i)]

(* rho_digit_as_rq: the balanced digits of a quotient row.                  *)
RhoDigits(r, e) == [k \in Coeff |-> BalancedDigitAt(r[k], e)]
(* lift_message: z, then the digits of the rows of rho.                     *)
LiftMessage(w, i) ==
  IF i < Len(w.z) THEN w.z[i + 1]
  ELSE RhoDigits(w.rho[(i - Len(w.z)) \div GADGET_DIGITS + 1], (i - Len(w.z)) % GADGET_DIGITS)
RhoLen(w) == Len(w.rho) * GADGET_DIGITS

Right(i) ==
  IF Is({"raw_digits"}) THEN [t \in Coeff |-> DigitAt(RawWord(in.b[i \div GADGET_DIGITS], t), i % GADGET_DIGITS)]
  ELSE IF Is({"lift"}) THEN LiftMessage(in.b, i)
  ELSE in.b[i]

(* limb_at: the k-th limb of a prepared coefficient.                        *)
Limb(x, k) == [t \in Coeff |-> (x[t] \div (LIMB_BASE ^ k)) % LIMB_BASE]
Left(i, k) == IF Is({"limbs2"}) THEN Limb(in.a[i], k) ELSE in.a[i]
Keys == IF Is({"limbs2"}) THEN 0 .. 1 ELSE {0}

(* lift_witness_short: narrow enough for one lane, and centred within the   *)
(* bound in every coefficient.                                              *)
NarrowUnchecked(w) ==   \* mutant
  \A i \in 0 .. (Len(w.z) + RhoLen(w) - 1), t \in Coeff : Magnitude(LiftMessage(w, i)[t]) <= CHAIN_GAMMA
LiftWitnessShort(w) ==
  /\ Len(w.z) + RhoLen(w) <= LIFT_GOLD_MAX
  /\ \A i \in 0 .. (Len(w.z) + RhoLen(w) - 1), t \in Coeff : Magnitude(LiftMessage(w, i)[t]) <= CHAIN_GAMMA
Generic == Is({"lift"}) /\ ~LiftWitnessShort(in.b)

-----------------------------------------------------------------------------
(* Lanes, tables, chunks and offsets. *)

Lanes ==
  IF Is({"fused", "prepared"}) THEN Aux
  ELSE IF Is({"ga"}) THEN <<Gold, Aux[1]>>
  ELSE IF Is({"digits"}) THEN <<Aux[1], Aux[2]>>
  ELSE <<Gold>>
Lane == Lanes[Len(res) + 1]

PsiTab == Words([l \in { Aux[1], Aux[2], Aux[3], Gold } |-> PsiTable(l.psi, l.p)])
InvTab == Words([l \in { Aux[1], Aux[2], Aux[3], Gold } |-> PsiTable(l.psiinv, l.p)])
DigitTab == DigitTable(PsiTab[Gold], Gold.p)

TakeAll(remaining) == remaining   \* mutant
Take(remaining) ==
  LET cap == IF Is(Chunked) THEN DOT_CHUNK
             ELSE IF Is({"digits"}) THEN DOT_CHUNK_D
             ELSE IF Is({"limbs2"}) THEN LIMB2_CHUNK
             ELSE remaining
  IN  IF remaining < cap THEN remaining ELSE cap
End == start + Take(Terms - start)

(* A multiple of q that no term can fall below: BOUND, BOUND_D, and so on.  *)
Offset == RING_DEGREE * Q * (IF Is(Chunked) THEN Q
                             ELSE IF Is({"limbs2"}) THEN LIMB_BASE
                             ELSE IF Is({"lift"}) THEN CHAIN_GAMMA
                             ELSE GADGET_BASE)

(* prepare_one, prepare_one_gold: the transformed key, entry after entry.   *)
LaneForward(l, v) == IF l = Gold THEN GoldForward(v, Zeros, PsiTab[l], l.p)
                                 ELSE Forward(v, Zeros, PsiTab[l], l.p)
Prepared(l, k) ==
  LET f == Words([i \in DOMAIN in.a |-> LaneForward(l, Twist(Left(i, k), PsiTab[l], l.p))[1]])
  IN  Words([x \in 0 .. (Terms * RING_DEGREE - 1) |-> f[x \div RING_DEGREE][x % RING_DEGREE]])

-----------------------------------------------------------------------------
(* One term into the accumulators. *)

Prepares == ~Is({"fused", "lift"})
(* prepare_vec, prepare_vec_two, _ga, _gold and _limbs2.                    *)
Prepare ==
  /\ Prepares /\ prep = << >>
  /\ prep' = [n \in 1 .. Len(Lanes) |-> [k \in Keys |-> Prepared(Lanes[n], k)]]
  /\ UNCHANGED <<in, start, j, accs, cur, tmp, spare, words, res, out>>

Working == /\ ~Generic /\ (Prepares => prep # << >>)
           /\ start < Terms /\ Len(res) < Len(Lanes) /\ j < End

(* dot_chunk_mod_p: both operands, one scratch.                             *)
FusedTerm ==
  /\ Working /\ Is({"fused"})
  /\ LET pt  == PsiTab[Lane]
         fwa == Forward(Twist(in.a[j], pt, Lane.p), tmp, pt, Lane.p)
         fwb == Forward(Twist(in.b[j], pt, Lane.p), fwa[2], pt, Lane.p)
     IN  accs' = [accs EXCEPT ![0] = MacInto(@, fwa[1], 0, fwb[1], Lane.p)] /\ tmp' = fwb[2]
  /\ j' = j + 1
  /\ UNCHANGED <<in, prep, start, cur, spare, words, res, out>>

(* dot_prep_chunk_mod_p, dot_prep_chunk_gold: the key's slice at j N.       *)
SliceOffByOne(i) == (i + 1) % Terms   \* mutant
Slice(i) == i
PreparedTerm ==
  /\ Working /\ Is({"prepared", "ga", "digits"})
  /\ LET pt  == PsiTab[Lane]
         tb  == Twist(in.b[j], pt, Lane.p)
         fwb == IF Lane = Gold THEN GoldForward(tb, tmp, pt, Lane.p) ELSE Forward(tb, tmp, pt, Lane.p)
     IN  /\ accs' = [accs EXCEPT ![0] = MacInto(@, prep[Len(res) + 1][0], Slice(j) * RING_DEGREE, fwb[1], Lane.p)]
         /\ tmp' = fwb[2]
  /\ j' = j + 1
  /\ UNCHANGED <<in, prep, start, cur, spare, words, res, out>>

(* The raw words are loaded at the first of their digits only.              *)
ReloadOnce(i) == i = 0   \* mutant
Reload(i) == i % GADGET_DIGITS = 0

(* gold_dif_stage2_mac2: the last stage, for each limb of the key.          *)
MacLimbs(src, at) ==
  [k \in Keys |-> DifStage2Mac(src, accs[k], 4, PsiTab[Gold], prep[1][k], at, Gold.p)]

(* gold_dot_one_fused, _tab and _limbs2: first stage from the operand, last *)
(* into the accumulators, the buffers in between.                           *)
GoldTerm ==
  /\ Working /\ Is(OneGold)
  /\ LET w     == IF Is({"raw_digits"}) /\ Reload(j) THEN LoadRaw(in.b[j \div GADGET_DIGITS]) ELSE words
         pt    == PsiTab[Gold]
         first == IF Is({"raw_digits"})
                  THEN DifStage2Tab(w, j % GADGET_DIGITS, cur, RING_DEGREE, pt, DigitTab, Gold.p)
                  ELSE DifStage2Twist(in.b[j], cur, RING_DEGREE, pt, pt, Gold.p)
         mid   == GoldMiddle(first, tmp, pt, Gold.p)
     IN  /\ accs' = MacLimbs(mid[1], Slice(j) * RING_DEGREE)
         /\ cur' = mid[1] /\ tmp' = mid[2] /\ words' = w
  /\ j' = j + 1
  /\ UNCHANGED <<in, prep, start, spare, res, out>>

(* lift_commit_row_gold: three buffers in rotation, z and then rho.         *)
LiftTerm ==
  /\ Working /\ Is({"lift"})
  /\ LET pt == PsiTab[Gold]
         fk == GoldForward(Twist(in.a[j], pt, Gold.p), tmp, pt, Gold.p)
         fw == GoldForward(TwistSigned(LiftMessage(in.b, j), pt, Gold.p), fk[2], pt, Gold.p)
     IN  /\ accs' = [accs EXCEPT ![0] = MacInto(@, fk[1], 0, fw[1], Gold.p)]
         /\ cur' = fk[1] /\ tmp' = fw[1] /\ spare' = fw[2]
  /\ j' = j + 1
  /\ UNCHANGED <<in, prep, start, words, res, out>>

-----------------------------------------------------------------------------
(* Back from a lane, and from a chunk. *)

(* A lane is inverted and offset by one Offset per term of the chunk.       *)
EndLane ==
  /\ ~Generic /\ start < Terms /\ Len(res) < Len(Lanes) /\ j = End
  /\ LET off  == MulMod(Offset % Lane.p, End - start, Lane.p)
         back(v) == Untwist(Backward(v, tmp, InvTab[Lane], Lane.p)[1], InvTab[Lane], Lane.ninv, off, Lane.p)
     IN  res' = Append(res, [k \in Keys |-> back(accs[k])])
  /\ j' = start
  /\ accs' = [k \in Keys |-> Zeros] /\ cur' = Zeros /\ tmp' = Zeros /\ spare' = Zeros
  /\ UNCHANGED <<in, prep, start, words, out>>

Reconstructed(t) ==
  LET r(k) == res[k][0][t]
  IN  IF Is({"fused", "prepared"})
        THEN Garner3(r(1), r(2), r(3), Prime(1), Prime(2), Prime(3), Inv1, Inv12)
      ELSE IF Is({"ga"})     THEN GarnerGA(r(1), r(2), Gold.p, Prime(1), GInv)
      ELSE IF Is({"digits"}) THEN Garner2(r(1), r(2), Prime(1), Prime(2), Inv1)
      ELSE IF Is({"limbs2"}) THEN r(1) + LIMB_BASE * res[1][1][t]
      ELSE r(1)
EndChunk ==
  /\ ~Generic /\ start < Terms /\ Len(res) = Len(Lanes)
  /\ out' = [t \in Coeff |-> (out[t] + (Reconstructed(t) % Q)) % Q]
  /\ start' = End /\ j' = End /\ res' = << >>
  /\ UNCHANGED <<in, prep, accs, cur, tmp, spare, words>>

(* negconv_mod_p and negconv_mod_q behind Rq::mul: a chunk of one term.     *)
NegConvModP(a, b, l) ==
  LET fwa  == Forward(Twist(a, PsiTab[l], l.p), Zeros, PsiTab[l], l.p)
      fwb  == Forward(Twist(b, PsiTab[l], l.p), fwa[2], PsiTab[l], l.p)
      prod == Words([t \in Coeff |-> MulMod(fwa[1][t], fwb[1][t], l.p)])
  IN  Untwist(Backward(prod, fwb[2], InvTab[l], l.p)[1], InvTab[l], l.ninv, (RING_DEGREE * Q * Q) % l.p, l.p)
RingMul(a, b) ==
  LET r == Words([k \in 1 .. 3 |-> NegConvModP(a, b, Aux[k])])
  IN  Words([t \in Coeff |->
         Garner3(r[1][t], r[2][t], r[3][t], Prime(1), Prime(2), Prime(3), Inv1, Inv12) % Q])

(* lift_commit_row, the row a witness that is wide or not short falls to.   *)
GenericTerm ==
  /\ Generic /\ start < Terms
  /\ LET term == RingMul(in.a[start], LiftMessage(in.b, start))
     IN  out' = [t \in Coeff |-> (out[t] + term[t]) % Q]
  /\ start' = start + 1 /\ j' = start + 1
  /\ UNCHANGED <<in, prep, accs, cur, tmp, spare, words, res>>

-----------------------------------------------------------------------------
Init ==
  /\ in \in Inputs
  /\ prep = << >>
  /\ start = 0 /\ j = 0
  /\ accs = [k \in Keys |-> Zeros]
  /\ cur = Zeros /\ tmp = Zeros /\ spare = Zeros /\ words = Zeros
  /\ res = << >> /\ out = Zeros
Next == Prepare \/ FusedTerm \/ PreparedTerm \/ GoldTerm \/ LiftTerm \/ EndLane \/ EndChunk \/ GenericTerm
Spec == Init /\ [][Next]_vars

-----------------------------------------------------------------------------
(* The digits of a vector, and what the lanes and the sum stand for.        *)

(* The slot a transform leaves the value at psi^(2 r + 1) in: r reversed.   *)
Reversed(s) == MapThenSumSet(LAMBDA k : ((s \div (2 ^ k)) % 2) * (2 ^ (NTT_LOG - 1 - k)), 0 .. (NTT_LOG - 1))
Exponent == Words([s \in Coeff |-> 2 * Reversed(s) + 1])
RootPower(l, e) == IF e % (2 * RING_DEGREE) < RING_DEGREE THEN PsiTab[l][e % RING_DEGREE]
                                                         ELSE l.p - PsiTab[l][e % RING_DEGREE]
Loaded(l, i) == IF Is({"lift"}) THEN Words([t \in Coeff |-> SignedWord(Right(i)[t], l.p)]) ELSE Right(i)
ValueAt(l, x, s) ==
  MapThenSumSet(LAMBDA t : (x[t] * RootPower(l, Exponent[s] * t)) % l.p, Coeff) % l.p

-----------------------------------------------------------------------------
DotSum(n) == [t \in Coeff |-> MapThenSumSet(LAMBDA i : NegMul(in.a[i], Right(i))[t], 0 .. (n - 1)) % Q]

(* The type invariant: every word of a lane stays below its prime, the      *)
(* positions within the call, and the finished lanes of the chunk known.    *)
TypeOK ==
  /\ start \in 0 .. Terms /\ j \in start .. Terms
  /\ Len(res) <= Len(Lanes)
  /\ out \in Rq
  /\ Len(res) < Len(Lanes) => accs \in [Keys -> [Coeff -> 0 .. (Lane.p - 1)]]
  /\ \A n \in DOMAIN res : res[n] \in [Keys -> [Coeff -> 0 .. (Lanes[n].p - 1)]]

(* Mid-chunk, slot s of an accumulator holds the sum of the products of the *)
(* values at one root, of the terms of this chunk so far and of no other:   *)
(* recycled buffers and words leave nothing behind, and key and operand     *)
(* stay aligned (gold_dot_one_fused, dot_prep_chunk_mod_p, slice_out).      *)
LaneExact ==
  (~Generic /\ start < Terms /\ Len(res) < Len(Lanes)) =>
    \A k \in Keys, s \in Coeff :
      accs[k][s] = MapThenSumSet(LAMBDA i : MulMod(ValueAt(Lane, Left(i, k), s), ValueAt(Lane, Loaded(Lane, i), s), Lane.p),
                                 start .. (j - 1)) % Lane.p

(* At every chunk boundary the sum is the exact dot product of the terms    *)
(* before it: no chunk outgrows its lanes, and a witness too wide for one   *)
(* lane takes the generic row (DOT_CHUNK, DOT_CHUNK_D, LIMB2_CHUNK,         *)
(* LIFT_GOLD_MAX).                                                          *)
DotExact == (j = start /\ res = << >>) => out = DotSum(start)
=============================================================================
