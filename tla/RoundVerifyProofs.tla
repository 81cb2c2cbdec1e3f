-------------------------- MODULE RoundVerifyProofs --------------------------
(***************************************************************************)
(* Soundness and completeness of the verifier of the chain, for every      *)
(* field, number of rounds, set of messages and pair of summands.          *)
(*                                                                         *)
(* Neither invariant is inductive.  Soundness needs, for every witness and *)
(* side at every step, that a false claim stays false until a lucky round  *)
(* (SoundInv): a passing round check on a false target means the message   *)
(* disagrees with the honest one at zero or at one.  Completeness needs    *)
(* that the target of an honest run is the claim it has reached            *)
(* (HonestInv).                                                            *)
(***************************************************************************)
EXTENDS RoundVerifyProps, TLAPS

LEMMA PrefixesSeq ==
  ASSUME NEW p \in Seq(Elem), Len(p) <= M_ZERO
  PROVE  p \in Prefixes
<1>1. Len(p) \in 0 .. M_ZERO
  BY VerifierAssumption
<1>2. p \in [1 .. Len(p) -> Elem]
  OBVIOUS
<1> QED
  BY <1>1, <1>2 DEF Prefixes

(* The claim after k rounds splits over the challenge of round k + 1.       *)
LEMMA Split ==
  ASSUME NEW s \in Stmt, NEW w \in Witness, NEW side \in Side,
         NEW p \in Seq(Elem), Len(p) < M_ZERO
  PROVE  CubeSum(s, w, side, p) = Add(CubeSum(s, w, side, Append(p, Zero)), CubeSum(s, w, side, Append(p, One)))
<1>1. Len(p) \in Nat /\ M_ZERO \in Nat
  BY VerifierAssumption
<1>2. p \in Prefixes /\ Len(p) # M_ZERO
  BY <1>1, PrefixesSeq
<1> QED
  BY <1>2, SumAssumption

LEMMA Whole ==
  ASSUME NEW s \in Stmt, NEW w \in Witness, NEW side \in Side,
         NEW p \in Seq(Elem), Len(p) = M_ZERO
  PROVE  CubeSum(s, w, side, p) = FinalValue(s, side, p, TableEval(w, p))
<1>1. p \in Prefixes
  BY PrefixesSeq, VerifierAssumption
<1> QED
  BY <1>1, SumAssumption

-----------------------------------------------------------------------------
(* Drawing a challenge leaves the earlier rounds as they were.              *)

LEMMA PrefixAll ==
  ASSUME challenges \in Seq(Elem)
  PROVE  Prefix(Len(challenges)) = challenges
BY DEF Prefix

LEMMA RoundsKept ==
  ASSUME TypeOK, NEW g \in RoundMsg, msgs' = Append(msgs, g), stmt' = stmt,
         Len(msgs) = Len(challenges),
         \/ challenges' = challenges
         \/ \E a \in Elem : challenges' = Append(challenges, a),
         NEW w, NEW side, NEW k \in 1 .. Len(challenges)
  PROVE  /\ LuckyAt(w, side, k)' <=> LuckyAt(w, side, k)
         /\ HonestAt(w, side, k)' <=> HonestAt(w, side, k)
<1>0. challenges \in Seq(Elem) /\ msgs \in Seq(RoundMsg)
  BY DEF TypeOK
<1>1. msgs'[k] = msgs[k]
  BY <1>0
<1>2a. \A i \in 1 .. Len(challenges) : challenges'[i] = challenges[i]
  BY <1>0
<1>2b. \A i \in 1 .. (k - 1) : i \in 1 .. Len(challenges)
  BY <1>0
<1>2. Prefix(k - 1)' = Prefix(k - 1)
  BY <1>2a, <1>2b DEF Prefix
<1>3. \A c : SumAt(w, side, k, c)' = SumAt(w, side, k, c)
  BY <1>2 DEF SumAt
<1>4. LuckyAt(w, side, k)' <=> LuckyAt(w, side, k)
  BY <1>1, <1>2a, <1>3 DEF LuckyAt
<1>5. HonestAt(w, side, k)' <=> HonestAt(w, side, k)
  BY <1>1, <1>3 DEF HonestAt
<1> QED
  BY <1>4, <1>5

(* The round being run: the message just received, against the claim that   *)
(* the challenges so far have reached.                                      *)
LEMMA RoundNow ==
  ASSUME TypeOK, NEW g \in RoundMsg, msgs' = Append(msgs, g), stmt' = stmt,
         Len(msgs) = Len(challenges),
         \/ challenges' = challenges
         \/ \E a \in Elem : challenges' = Append(challenges, a),
         NEW w, NEW side, NEW c, NEW k, k = Len(challenges) + 1
  PROVE  /\ msgs'[k] = g
         /\ SumAt(w, side, k, c)' = CubeSum(stmt, w, side, Append(challenges, c))
<1>1. msgs'[k] = g
  BY DEF TypeOK
<1>2. k - 1 = Len(challenges)
  BY DEF TypeOK
<1>3. [i \in 1 .. (k - 1) |-> challenges'[i]] = [i \in 1 .. (k - 1) |-> challenges[i]]
  BY <1>2 DEF TypeOK
<1>4. Prefix(k - 1)' = challenges
  BY <1>2, <1>3, PrefixAll DEF Prefix, TypeOK
<1> QED
  BY <1>1, <1>4 DEF SumAt

-----------------------------------------------------------------------------
(* Type correctness: the loops of round_verify_loop keep messages and       *)
(* challenges in step, and the closing message arrives after the last.      *)
THEOREM TypeCorrect == Spec => []TypeOK
<1>1. Init => TypeOK
  BY VerifierAssumption DEF Init, TypeOK, Side, Verdict
<1>2. TypeOK /\ [Next]_vvars => TypeOK'
  <2> SUFFICES ASSUME TypeOK, [Next]_vvars PROVE TypeOK'
    OBVIOUS
  <2>0. M_ZERO \in Nat /\ M_ZERO > 0 /\ Len(challenges) \in Nat /\ Len(msgs) \in Nat
    BY VerifierAssumption DEF TypeOK
  <2>1. ASSUME NEW g \in RoundMsg, NEW a \in Elem, Pass(g, a) PROVE TypeOK'
    <3>1. target' \in [Side -> Elem]
      BY <2>1, VerifierAssumption DEF Pass, RoundsLeft, RoundOut, RoundMsg
    <3>2. /\ msgs' \in Seq(RoundMsg) /\ Len(msgs') = Len(msgs) + 1
          /\ challenges' \in Seq(Elem) /\ Len(challenges') = Len(challenges) + 1
      BY <2>1 DEF Pass, RoundsLeft, RoundOut, TypeOK
    <3> QED
      BY <2>0, <2>1, <3>1, <3>2 DEF Pass, RoundsLeft, RoundOut, TypeOK, Verdict
  <2>2. ASSUME NEW g \in RoundMsg, Fail(g) PROVE TypeOK'
    <3>1. msgs' \in Seq(RoundMsg) /\ Len(msgs') = Len(msgs) + 1
      BY <2>2 DEF Fail, RoundsLeft, TypeOK
    <3> QED
      BY <2>0, <2>2, <3>1 DEF Fail, RoundsLeft, TypeOK, Verdict
  <2>3. ASSUME NEW y \in Elem, NEW w \in Witness, Decide(y, w) PROVE TypeOK'
    BY <2>0, <2>3 DEF Decide, Closing, TypeOK, Verdict
  <2>4. CASE UNCHANGED vvars
    BY <2>4 DEF TypeOK, vvars
  <2> QED
    BY <2>1, <2>2, <2>3, <2>4 DEF Next
<1> QED
  BY <1>1, <1>2, PTL DEF Spec

-----------------------------------------------------------------------------
(* Soundness. *)

Believed(w, side) ==
  \/ TrueClaim(w, side) \/ Lucky(w, side)
  \/ target[side] # CubeSum(stmt, w, side, challenges)
SoundInv == \A w \in Witness, side \in Side : Believed(w, side)
AcceptInv == verdict = "accept" => FinalCheck(closing[1]) /\ EndPieceCheck(closing[1], closing[2])

LEMMA SoundInit == Init => SoundInv
BY DEF Init, SoundInv, Believed, TrueClaim

LEMMA SoundFail ==
  ASSUME TypeOK, SoundInv, NEW g \in RoundMsg, Fail(g)
  PROVE  SoundInv'
<1> SUFFICES ASSUME NEW w \in Witness, NEW side \in Side PROVE Believed(w, side)'
  BY DEF SoundInv
<1>1. Believed(w, side)
  BY DEF SoundInv
<1>2. /\ msgs' = Append(msgs, g) /\ stmt' = stmt /\ challenges' = challenges /\ target' = target
      /\ Len(msgs) = Len(challenges)
  BY DEF Fail, RoundsLeft, TypeOK
<1>3. \A k \in 1 .. Len(challenges) : LuckyAt(w, side, k)' <=> LuckyAt(w, side, k)
  BY <1>2, RoundsKept
<1>4. Lucky(w, side) => Lucky(w, side)'
  BY <1>2, <1>3 DEF Lucky
<1> QED
  BY <1>1, <1>2, <1>4 DEF Believed, TrueClaim

LEMMA SoundPass ==
  ASSUME TypeOK, SoundInv, NEW g \in RoundMsg, NEW a \in Elem, Pass(g, a)
  PROVE  SoundInv'
<1> SUFFICES ASSUME NEW w \in Witness, NEW side \in Side PROVE Believed(w, side)'
  BY DEF SoundInv
<1> DEFINE n == Len(challenges) + 1
<1>1. Believed(w, side)
  BY DEF SoundInv
<1>2. /\ msgs' = Append(msgs, g) /\ stmt' = stmt /\ challenges' = Append(challenges, a)
      /\ target'[side] = Value(g[side], a)
      /\ target[side] = Add(Value(g[side], Zero), Value(g[side], One))
      /\ Len(msgs) = Len(challenges) /\ Len(challenges) < M_ZERO
      /\ stmt \in Stmt /\ challenges \in Seq(Elem)
  BY DEF Pass, RoundsLeft, RoundOut, RoundCheck, TypeOK
<1>3. Len(challenges') = n /\ challenges'[n] = a /\ n \in 1 .. Len(challenges') /\ Len(challenges) \in Nat
  BY <1>2
<1>4. CASE TrueClaim(w, side)
  BY <1>2, <1>4 DEF Believed, TrueClaim
<1>5. CASE Lucky(w, side)
  <2>1. \A k \in 1 .. Len(challenges) : LuckyAt(w, side, k)' <=> LuckyAt(w, side, k)
    BY <1>2, RoundsKept
  <2>2. PICK k \in 1 .. Len(challenges) : LuckyAt(w, side, k)
    BY <1>5 DEF Lucky
  <2>3. k \in 1 .. Len(challenges') /\ LuckyAt(w, side, k)'
    BY <1>3, <2>1, <2>2
  <2> QED
    BY <2>3 DEF Believed, Lucky
<1>6. CASE target[side] # CubeSum(stmt, w, side, challenges)
  <2>1. PICK c \in {Zero, One} : Value(g[side], c) # CubeSum(stmt, w, side, Append(challenges, c))
    BY <1>2, <1>6, Split
  <2>2. SUFFICES ASSUME target'[side] = CubeSum(stmt, w, side, challenges)' PROVE Lucky(w, side)'
    BY DEF Believed
  <2>3. Value(g[side], a) = CubeSum(stmt, w, side, Append(challenges, a))
    BY <1>2, <2>2
  <2>4. /\ msgs'[n] = g
        /\ \A x : CubeSum(stmt', w, side, Append([i \in 1 .. (n - 1) |-> challenges'[i]], x))
                    = CubeSum(stmt, w, side, Append(challenges, x))
    <3>1. ASSUME NEW k, k = n, NEW x
          PROVE  msgs'[k] = g /\ SumAt(w, side, k, x)' = CubeSum(stmt, w, side, Append(challenges, x))
      BY <1>2, <3>1, RoundNow
    <3> QED
      BY <3>1 DEF SumAt, Prefix
  <2>5. ASSUME NEW k, k = n PROVE LuckyAt(w, side, k)'
    <3>1. \A x : SumAt(w, side, k, x)' = CubeSum(stmt, w, side, Append(challenges, x))
      BY <2>4, <2>5 DEF SumAt, Prefix
    <3>2. msgs'[k] = g /\ challenges'[k] = a
      BY <1>3, <2>4, <2>5
    <3> QED
      BY <2>1, <2>3, <3>1, <3>2 DEF LuckyAt
  <2> QED
    BY <1>3, <2>5 DEF Lucky
<1> QED
  BY <1>1, <1>4, <1>5, <1>6 DEF Believed

LEMMA SoundDecide ==
  ASSUME TypeOK, SoundInv, NEW y, NEW w, Decide(y, w)
  PROVE  SoundInv'
BY DEF Decide, Closing, SoundInv, Believed, TrueClaim, Lucky, LuckyAt, SumAt, Prefix

LEMMA SoundStep == TypeOK /\ SoundInv /\ [Next]_vvars => SoundInv'
<1> SUFFICES ASSUME TypeOK, SoundInv, [Next]_vvars PROVE SoundInv'
  OBVIOUS
<1>1. CASE UNCHANGED vvars
  BY <1>1 DEF vvars, SoundInv, Believed, TrueClaim, Lucky, LuckyAt, SumAt, Prefix
<1> QED
  BY <1>1, SoundFail, SoundPass, SoundDecide DEF Next

(* What chain_verify accepts is what both closing checks accepted.          *)
LEMMA AcceptStep == AcceptInv /\ [Next]_vvars => AcceptInv'
<1> SUFFICES ASSUME AcceptInv, [Next]_vvars PROVE AcceptInv'
  OBVIOUS
<1>1. ASSUME NEW y \in Elem, NEW w \in Witness, Decide(y, w) PROVE AcceptInv'
  BY <1>1 DEF Decide, Closing, AcceptInv, FinalCheck, EndPieceCheck
<1>2. ASSUME NEW g \in RoundMsg, Fail(g) PROVE AcceptInv'
  BY <1>2 DEF Fail, RoundsLeft, AcceptInv
<1>3. ASSUME NEW g \in RoundMsg, NEW a \in Elem, Pass(g, a) PROVE AcceptInv'
  BY <1>3 DEF Pass, RoundsLeft, AcceptInv
<1>4. CASE UNCHANGED vvars
  BY <1>4 DEF vvars, AcceptInv, FinalCheck, EndPieceCheck
<1> QED
  BY <1>1, <1>2, <1>3, <1>4 DEF Next

(* An accepted witness opens the commitment, is short, and satisfies both   *)
(* claims of the statement, up to a lucky round (chain_verify).             *)
THEOREM SoundnessCorrect == Spec => []Soundness
<1>1. Init => SoundInv /\ AcceptInv
  BY SoundInit DEF Init, AcceptInv
<1>2. TypeOK /\ SoundInv /\ AcceptInv => Soundness
  <2> SUFFICES ASSUME TypeOK, SoundInv, AcceptInv, verdict = "accept"
               PROVE  /\ Short(closing[2]) /\ Commit(closing[2]) = com /\ BoundHolds(stmt)
                      /\ \A side \in Side : TrueClaim(closing[2], side) \/ Lucky(closing[2], side)
    BY DEF Soundness
  <2>1. /\ closing[2] \in Witness /\ Len(challenges) = M_ZERO
        /\ challenges \in Seq(Elem) /\ stmt \in Stmt
    BY DEF TypeOK
  <2>2. FinalCheck(closing[1]) /\ EndPieceCheck(closing[1], closing[2])
    BY DEF AcceptInv
  <2>3. ASSUME NEW side \in Side PROVE TrueClaim(closing[2], side) \/ Lucky(closing[2], side)
    <3>1. target[side] = FinalValue(stmt, side, challenges, TableEval(closing[2], challenges))
      BY <2>2 DEF FinalCheck, EndPieceCheck
    <3>2. target[side] = CubeSum(stmt, closing[2], side, challenges)
      BY <2>1, <3>1, Whole
    <3> QED
      BY <2>1, <3>2 DEF SoundInv, Believed
  <2> QED
    BY <2>2, <2>3 DEF FinalCheck, EndPieceCheck
<1> QED
  BY <1>1, <1>2, TypeCorrect, SoundStep, AcceptStep, PTL DEF Spec

-----------------------------------------------------------------------------
(* Completeness. *)

AllTrue(w) == \A side \in Side : TrueClaim(w, side)
OnClaim(w) == \A side \in Side : target[side] = CubeSum(stmt, w, side, challenges)

(* An honest run is at its initial targets, or on true claims all the way.  *)
Faithful(w) ==
  \/ challenges = << >> /\ target = [side \in Side |-> InitialTarget(stmt, side)]
  \/ AllTrue(w) /\ OnClaim(w)
HonestInv == \A w \in Witness : Honest(w) => Faithful(w)

(* A rejection in a round needs a false claim, one at the end a failed check. *)
RejectInv ==
  verdict = "reject" =>
    IF closing = << >> THEN \A w \in Witness : Honest(w) => ~AllTrue(w)
    ELSE ~(FinalCheck(closing[1]) /\ EndPieceCheck(closing[1], closing[2]))

(* The message of a round does not change what the earlier ones were.       *)
LEMMA HonestSoFar ==
  ASSUME TypeOK, NEW g \in RoundMsg, msgs' = Append(msgs, g), stmt' = stmt,
         Len(msgs) = Len(challenges),
         \/ challenges' = challenges
         \/ \E a \in Elem : challenges' = Append(challenges, a),
         NEW w, Honest(w)'
  PROVE  /\ Honest(w)
         /\ \A side \in Side, c \in Elem : Value(g[side], c) = CubeSum(stmt, w, side, Append(challenges, c))
<1>1. Len(msgs') = Len(challenges) + 1 /\ Len(challenges) \in Nat
  BY DEF TypeOK
<1>2. \A k \in 1 .. Len(challenges), side \in Side : HonestAt(w, side, k)' <=> HonestAt(w, side, k)
  BY RoundsKept
<1>3. \A k \in 1 .. (Len(challenges) + 1), side \in Side : HonestAt(w, side, k)'
  BY <1>1 DEF Honest
<1>4. Honest(w)
  BY <1>1, <1>2, <1>3 DEF Honest
<1>5. ASSUME NEW side \in Side, NEW c \in Elem
      PROVE  Value(g[side], c) = CubeSum(stmt, w, side, Append(challenges, c))
  <2>1. ASSUME NEW k, k = Len(challenges) + 1
        PROVE  Value(g[side], c) = CubeSum(stmt, w, side, Append(challenges, c))
    <3>1. k \in 1 .. (Len(challenges) + 1)
      BY <1>1, <2>1
    <3>2. HonestAt(w, side, k)'
      BY <1>3, <3>1
    <3>3. msgs'[k] = g /\ SumAt(w, side, k, c)' = CubeSum(stmt, w, side, Append(challenges, c))
      BY <2>1, RoundNow
    <3> QED
      BY <3>2, <3>3 DEF HonestAt
  <2> QED
    BY <2>1
<1> QED
  BY <1>4, <1>5

(* An honest message sums to the claim its round started from.              *)
LEMMA HonestSplit ==
  ASSUME TypeOK, NEW g \in RoundMsg, NEW w \in Witness, NEW side \in Side, Len(challenges) < M_ZERO,
         \A c \in Elem : Value(g[side], c) = CubeSum(stmt, w, side, Append(challenges, c))
  PROVE  Add(Value(g[side], Zero), Value(g[side], One)) = CubeSum(stmt, w, side, challenges)
<1>1. stmt \in Stmt /\ challenges \in Seq(Elem)
  BY DEF TypeOK
<1>2. Value(g[side], Zero) = CubeSum(stmt, w, side, Append(challenges, Zero))
      /\ Value(g[side], One) = CubeSum(stmt, w, side, Append(challenges, One))
  BY VerifierAssumption
<1> QED
  BY <1>1, <1>2, Split

LEMMA HonestPass ==
  ASSUME TypeOK, HonestInv, NEW g \in RoundMsg, NEW a \in Elem, Pass(g, a)
  PROVE  HonestInv'
<1> SUFFICES ASSUME NEW w \in Witness, Honest(w)' PROVE Faithful(w)'
  BY DEF HonestInv
<1>1. /\ msgs' = Append(msgs, g) /\ stmt' = stmt /\ challenges' = Append(challenges, a)
      /\ Len(msgs) = Len(challenges) /\ Len(challenges) < M_ZERO
  BY DEF Pass, RoundsLeft, RoundOut, TypeOK
<1>2. /\ Honest(w)
      /\ \A side \in Side, c \in Elem : Value(g[side], c) = CubeSum(stmt, w, side, Append(challenges, c))
  BY <1>1, HonestSoFar
<1>3. \A side \in Side : target[side] = CubeSum(stmt, w, side, challenges)
  BY <1>1, <1>2, HonestSplit DEF Pass, RoundsLeft, RoundOut, RoundCheck
<1>4. AllTrue(w)
  BY <1>2, <1>3 DEF HonestInv, Faithful, AllTrue, TrueClaim
<1>5. \A side \in Side : target'[side] = CubeSum(stmt, w, side, Append(challenges, a))
  BY <1>2 DEF Pass, RoundOut
<1> QED
  BY <1>1, <1>4, <1>5 DEF Faithful, AllTrue, TrueClaim, OnClaim

LEMMA HonestFail ==
  ASSUME TypeOK, HonestInv, NEW g \in RoundMsg, Fail(g)
  PROVE  HonestInv' /\ RejectInv'
<1>1. /\ msgs' = Append(msgs, g) /\ stmt' = stmt /\ challenges' = challenges
      /\ target' = target /\ closing' = closing
      /\ Len(msgs) = Len(challenges) /\ Len(challenges) < M_ZERO
  BY DEF Fail, RoundsLeft, TypeOK
<1>2. \A w \in Witness : Honest(w)' =>
        /\ Honest(w)
        /\ \A side \in Side, c \in Elem : Value(g[side], c) = CubeSum(stmt, w, side, Append(challenges, c))
  BY <1>1, HonestSoFar
<1>3. HonestInv'
  BY <1>1, <1>2 DEF HonestInv, Faithful, AllTrue, TrueClaim, OnClaim
<1>4. ASSUME NEW w \in Witness, Honest(w)' PROVE ~AllTrue(w)
  <2>1. \E side \in Side : target[side] # CubeSum(stmt, w, side, challenges)
    BY <1>1, <1>2, <1>4, HonestSplit DEF Fail, RoundsLeft, RoundCheck
  <2>2. challenges = << >> /\ target = [side \in Side |-> InitialTarget(stmt, side)]
    BY <1>2, <1>4, <2>1 DEF HonestInv, Faithful, OnClaim
  <2> QED
    BY <2>1, <2>2 DEF AllTrue, TrueClaim
<1>5. closing = << >>
  BY DEF Fail, RoundsLeft, TypeOK
<1> QED
  BY <1>1, <1>3, <1>4, <1>5 DEF RejectInv, AllTrue, TrueClaim

LEMMA HonestStep == TypeOK /\ HonestInv /\ RejectInv /\ [Next]_vvars => HonestInv' /\ RejectInv'
<1> SUFFICES ASSUME TypeOK, HonestInv, RejectInv, [Next]_vvars PROVE HonestInv' /\ RejectInv'
  OBVIOUS
<1>1. ASSUME NEW g \in RoundMsg, NEW a \in Elem, Pass(g, a) PROVE HonestInv' /\ RejectInv'
  BY <1>1, HonestPass DEF Pass, RoundsLeft, RejectInv
<1>2. ASSUME NEW g \in RoundMsg, Fail(g) PROVE HonestInv' /\ RejectInv'
  BY <1>2, HonestFail
<1>3. ASSUME NEW y \in Elem, NEW v \in Witness, Decide(y, v) PROVE HonestInv' /\ RejectInv'
  <2>1. UNCHANGED <<stmt, com, msgs, challenges, target>>
    BY <1>3 DEF Decide, Closing
  <2>2. HonestInv'
    BY <2>1 DEF HonestInv, Honest, HonestAt, SumAt, Prefix, Faithful, AllTrue, TrueClaim, OnClaim
  <2>3. RejectInv'
    BY <1>3, <2>1 DEF Decide, Closing, RejectInv, FinalCheck, EndPieceCheck
  <2> QED
    BY <2>2, <2>3
<1>4. CASE UNCHANGED vvars
  BY <1>4 DEF vvars, HonestInv, RejectInv, Honest, HonestAt, SumAt, Prefix, Faithful, AllTrue,
              TrueClaim, OnClaim, FinalCheck, EndPieceCheck
<1> QED
  BY <1>1, <1>2, <1>3, <1>4 DEF Next

LEMMA HonestInit == Init => HonestInv /\ RejectInv
BY DEF Init, HonestInv, RejectInv, Faithful

(* Honest messages over true claims are rejected by the closing checks only, *)
(* and then for shortness, the commitment or the bound (chain_verify).       *)
THEOREM CompletenessCorrect == Spec => []Completeness
<1>1. TypeOK /\ HonestInv /\ RejectInv => Completeness
  <2> SUFFICES ASSUME TypeOK, HonestInv, RejectInv, NEW w \in Witness, verdict = "reject", Honest(w),
                      \A side \in Side : TrueClaim(w, side)
               PROVE  /\ closing # << >>
                      /\ \/ closing # <<TableEval(w, challenges), w>>
                         \/ ~BoundHolds(stmt) \/ ~Short(w) \/ Commit(w) # com
    BY DEF Completeness
  <2>1. closing # << >>
    BY DEF RejectInv, AllTrue
  <2>2. /\ Len(challenges) = M_ZERO /\ challenges \in Seq(Elem) /\ stmt \in Stmt
        /\ challenges # << >>
    BY <2>1, VerifierAssumption DEF TypeOK
  <2>3. \A side \in Side : target[side] = FinalValue(stmt, side, challenges, TableEval(w, challenges))
    BY <2>2, Whole DEF HonestInv, Faithful, OnClaim
  <2> QED
    BY <2>1, <2>3 DEF RejectInv, FinalCheck, EndPieceCheck
<1> QED
  BY <1>1, TypeCorrect, HonestInit, HonestStep, PTL DEF Spec

(* An honest run over a false claim never draws a second challenge          *)
(* (round_verify_loop; tests/chain_semantics.rs:320).                       *)
THEOREM FirstRoundCorrect == Spec => []FirstRoundOnly
<1>1. HonestInv => FirstRoundOnly
  BY DEF HonestInv, FirstRoundOnly, Faithful, AllTrue
<1> QED
  BY <1>1, TypeCorrect, HonestInit, HonestStep, PTL DEF Spec
=============================================================================
