-------------------------- MODULE RoundVerifyProps ---------------------------
(***************************************************************************)
(* What the verifier promises about a witness w.  CubeSum(s, w, side, p)   *)
(* is the sum, over the cube of the coordinates after p, of the side's     *)
(* summand at p: the claim of the round that has drawn p.  All that is     *)
(* assumed of it is that a sum splits over its first coordinate, and that  *)
(* with every coordinate drawn it is the closed form of the final check.   *)
(***************************************************************************)
EXTENDS RoundVerify

CONSTANT CubeSum(_, _, _, _)

Prefixes == UNION { [1 .. k -> Elem] : k \in 0 .. M_ZERO }

ASSUME SumAssumption ==
  \A s \in Stmt, w \in Witness, side \in Side, p \in Prefixes :
    IF Len(p) = M_ZERO
    THEN CubeSum(s, w, side, p) = FinalValue(s, side, p, TableEval(w, p))
    ELSE CubeSum(s, w, side, p) = Add(CubeSum(s, w, side, Append(p, Zero)), CubeSum(s, w, side, Append(p, One)))

Prefix(k) == [i \in 1 .. k |-> challenges[i]]
SumAt(w, side, k, c) == CubeSum(stmt, w, side, Append(Prefix(k - 1), c))

TrueClaim(w, side) == CubeSum(stmt, w, side, << >>) = InitialTarget(stmt, side)

(* The honest message of round k is the claim with its coordinate left free. *)
HonestAt(w, side, k) == \A c \in Elem : Value(msgs[k][side], c) = SumAt(w, side, k, c)
Honest(w) == \A k \in 1 .. Len(msgs), side \in Side : HonestAt(w, side, k)

(* Round k is lucky for a prover that disagrees with the honest message at   *)
(* zero or at one: the challenge hits a point where they agree.              *)
LuckyAt(w, side, k) ==
  /\ \E c \in {Zero, One} : Value(msgs[k][side], c) # SumAt(w, side, k, c)
  /\ Value(msgs[k][side], challenges[k]) = SumAt(w, side, k, challenges[k])
Lucky(w, side) == \E k \in 1 .. Len(challenges) : LuckyAt(w, side, k)

-----------------------------------------------------------------------------
(* The type invariant: messages and challenges advance together, the        *)
(* closing message arrives after the last round only, and an accepting      *)
(* verifier has received everything (chain_verify).                         *)
TypeOK ==
  /\ stmt \in Stmt /\ com \in Commitment
  /\ msgs \in Seq(RoundMsg) /\ challenges \in Seq(Elem)
  /\ target \in [Side -> Elem]
  /\ closing = << >> \/ closing \in Elem \X Witness
  /\ verdict \in Verdict
  /\ Len(challenges) <= M_ZERO
  /\ \/ Len(msgs) = Len(challenges)
     \/ verdict = "reject" /\ closing = << >> /\ Len(msgs) = Len(challenges) + 1
  /\ (closing # << >>) <=> (Len(challenges) = M_ZERO /\ verdict # "rounds")
  /\ verdict = "accept" => closing # << >>

(* Soundness of chain_verify: when it accepts, the witness it was handed    *)
(* opens the commitment, is short, and satisfies BOTH initial claims, unless *)
(* a side that was false became true at a round whose forged message the    *)
(* challenge failed to tell from the honest one.                            *)
Soundness ==
  verdict = "accept" =>
    /\ Short(closing[2]) /\ Commit(closing[2]) = com /\ BoundHolds(stmt)
    /\ \A side \in Side : TrueClaim(closing[2], side) \/ Lucky(closing[2], side)

(* Completeness of chain_verify: messages that are the honest ones for a    *)
(* witness whose two claims are true are never rejected in a round, and are *)
(* rejected at the end only for what the end piece decides.                 *)
Completeness ==
  \A w \in Witness :
    (verdict = "reject" /\ Honest(w) /\ \A side \in Side : TrueClaim(w, side)) =>
      /\ closing # << >>
      /\ \/ closing # <<TableEval(w, challenges), w>>
         \/ ~BoundHolds(stmt) \/ ~Short(w) \/ Commit(w) # com

(* The test tests/chain_semantics.rs:320: honest messages over a witness    *)
(* whose claims are not both true never get past the first round.           *)
FirstRoundOnly ==
  \A w \in Witness :
    (Honest(w) /\ \E side \in Side : ~TrueClaim(w, side)) => challenges = << >>

(* Every run of the loops ends in a decision, whatever is received.         *)
Decides == <>(verdict \in {"accept", "reject"})

=============================================================================
