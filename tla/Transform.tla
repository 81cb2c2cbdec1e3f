----------------------------- MODULE Transform ------------------------------
(***************************************************************************)
(* The negacyclic number-theoretic transform of hachi/src/ntt.rs and its   *)
(* fused forms of ring.rs, modulo a prime p with a root psi of order 2 N.  *)
(* A stage reads one buffer and writes into another, recycled one: what it *)
(* does not write keeps its old word.                                      *)
(***************************************************************************)
EXTENDS Gadget, ModArith, Sequences
LOCAL INSTANCE SequencesExt
LOCAL INSTANCE TLC

CONSTANT NTT_LOG

ASSUME TransformAssumption == NTT_LOG \in Nat /\ RING_DEGREE = 2 ^ NTT_LOG

Zeros == [t \in Coeff |-> 0]
Words(f) == f @@ << >>                 \* f; TLC computes each entry once

(* psi_table, gold_psi_table: the powers of psi, each from the last.        *)
PsiTable(psi, p) ==
  FoldLeft(LAMBDA tab, i : tab @@ (i :> MulMod(tab[i - 1], psi, p)), 0 :> 1, [i \in 1 .. (RING_DEGREE - 1) |-> i])

(* twist, load_twisted_into; gold_twist_digit_table: the digits in advance. *)
Twist(v, pt, p) == Words([t \in Coeff |-> MulMod(v[t], pt[t], p)])
DigitTable(pt, p) ==
  Words([k \in 0 .. (GADGET_BASE * RING_DEGREE - 1) |-> MulMod(k % GADGET_BASE, pt[k \div GADGET_BASE], p)])

(* load_twisted_signed_into: the centred value, a negative one below p.     *)
SignedWord(v, p) == IF IsNegative(v) THEN p - Magnitude(v) ELSE v
TwistSigned(v, pt, p) == Words([t \in Coeff |-> MulMod(SignedWord(v[t], p), pt[t], p)])

-----------------------------------------------------------------------------
(* The stages: blocks of len words, half of a block against the other.      *)

Filled(len) == UNION { s .. (s + len - 1) : s \in { x \in Coeff : x % len = 0 } }
Step(len)   == 2 * (RING_DEGREE \div len)

DifStage(src, dst, len, tw, p) ==
  LET half == len \div 2
  IN  [i \in Filled(len) |->
         IF i % len < half THEN AddMod(src[i], src[i + half], p)
         ELSE MulMod(SubMod(src[i - half], src[i], p), tw[(i % half) * Step(len)], p)] @@ dst

DitStage(src, dst, len, tw, p) ==
  LET half == len \div 2
      W(i) == MulMod(src[i], tw[(i % half) * Step(len)], p)
  IN  [i \in Filled(len) |-> IF i % len < half THEN AddMod(src[i], W(i + half), p)
                                              ELSE SubMod(src[i - half], W(i), p)] @@ dst

(* Slot i after two stages in one pass, from loaded words x0 .. x3.         *)
Radix4(load(_), i, len, tw, p) ==
  LET quarter == len \div 4
      j       == i % quarter
      side    == (i % len) \div quarter
      x(k)    == load(i + (k - side) * quarter)
      even(k) == AddMod(x(k), x(k + 2), p)
      odd(k)  == MulMod(SubMod(x(k), x(k + 2), p), tw[(j + k * quarter) * Step(len)], p)
      turn(v) == MulMod(v, tw[j * 2 * Step(len)], p)
  IN  CASE side = 0 -> AddMod(even(0), even(1), p)
        [] side = 1 -> turn(SubMod(even(0), even(1), p))
        [] side = 2 -> AddMod(odd(0), odd(1), p)
        [] side = 3 -> turn(SubMod(odd(0), odd(1), p))

(* gold_dif_stage2, and the first stage with the twist done on the load:    *)
(* from a ring element, or from a digit of raw words through the table.     *)
DifStage2(src, dst, len, tw, p) ==
  [i \in Filled(len) |-> Radix4(LAMBDA k : src[k], i, len, tw, p)] @@ dst
DifStage2Twist(a, dst, len, tw, pt, p) ==
  [i \in Filled(len) |-> Radix4(LAMBDA k : MulMod(a[k], pt[k], p), i, len, tw, p)] @@ dst
DifStage2Tab(words, e, dst, len, tw, tab, p) ==
  [i \in Filled(len) |-> Radix4(LAMBDA k : tab[k * GADGET_BASE + DigitAt(words[k], e)], i, len, tw, p)] @@ dst

(* gold_dif_stage2_mac, and each half of gold_dif_stage2_mac2: the last     *)
(* stage multiplies into the accumulator instead of writing a buffer.       *)
DifStage2Mac(src, acc, len, tw, key, base, p) ==
  [i \in Filled(len) |->
     AddMod(acc[i], MulMod(key[base + i], Radix4(LAMBDA k : src[k], i, len, tw, p), p), p)] @@ acc

-----------------------------------------------------------------------------
(* Whole transforms: two buffers take turns; <<result, scratch>>.           *)

Forward(cur, tmp, tw, p) ==
  FoldLeft(LAMBDA bufs, len : <<DifStage(bufs[1], bufs[2], len, tw, p), bufs[1]>>,
           <<cur, tmp>>, [k \in 1 .. NTT_LOG |-> RING_DEGREE \div (2 ^ (k - 1))])

GoldStages(bufs, lens, tw, p) ==
  FoldLeft(LAMBDA b, len : <<DifStage2(b[1], b[2], len, tw, p), b[1]>>, bufs, lens)
GoldForward(cur, tmp, tw, p) ==
  GoldStages(<<cur, tmp>>, [k \in 1 .. (NTT_LOG \div 2) |-> RING_DEGREE \div (4 ^ (k - 1))], tw, p)
(* The stages between the fused first one and the fused last one.           *)
GoldMiddle(cur, tmp, tw, p) ==
  GoldStages(<<cur, tmp>>, [k \in 1 .. (NTT_LOG \div 2 - 2) |-> RING_DEGREE \div (4 ^ k)], tw, p)

Backward(cur, tmp, tw, p) ==
  FoldLeft(LAMBDA bufs, len : <<DitStage(bufs[1], bufs[2], len, tw, p), bufs[1]>>,
           <<cur, tmp>>, [k \in 1 .. NTT_LOG |-> 2 ^ k])

MacInto(acc, key, base, v, p) ==
  Words([t \in Coeff |-> AddMod(acc[t], MulMod(key[base + t], v[t], p), p)])

(* untwist, gold_untwist_off: the offset makes a signed sum a natural one.  *)
Untwist(src, it, ninv, off, p) ==
  Words([t \in Coeff |-> AddMod(MulMod(MulMod(src[t], it[t], p), ninv, p), off, p)])
=============================================================================
