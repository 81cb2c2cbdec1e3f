---------------------------- MODULE RoundVerify -----------------------------
(***************************************************************************)
(* The verifier of the chain (chain.rs, sumcheck.rs, endpiece.rs): a pair  *)
(* of sumchecks, one on the range claim and one on the linear claim, run   *)
(* in lockstep over one list of challenges, then the final evaluation      *)
(* claim, then the end piece on the witness sent in the clear.  The        *)
(* verifier holds no table: all it reads are messages, whose values it     *)
(* takes at zero, at one and at the challenge.  The field, the messages,   *)
(* the commitment and the two closed forms of the final check are          *)
(* parameters.                                                             *)
(***************************************************************************)
EXTENDS Naturals, Sequences

CONSTANTS
  Elem, Zero, One, Add(_, _),   \* the challenge field
  M_ZERO,                       \* variables of the cube, one round each
  Poly, Value(_, _),            \* round polynomials and their evaluation
  Stmt, Commitment, Witness,    \* statements, commitments, lifted witnesses
  InitialTarget(_, _),          \* of a statement, on a side
  FinalValue(_, _, _, _),       \* of a statement, a side, a point and a claimed y'
  BoundHolds(_),                \* the bound-sanity conjunct, of a statement
  Short(_), Commit(_),          \* the end piece's tests on a witness
  TableEval(_, _)               \* of a witness at a point

ASSUME VerifierAssumption ==
  /\ M_ZERO \in Nat \ {0}
  /\ Zero \in Elem /\ One \in Elem
  /\ \A x \in Elem, y \in Elem : Add(x, y) \in Elem
  /\ \A g \in Poly, x \in Elem : Value(g, x) \in Elem
  /\ \A s \in Stmt, side \in {"zero", "alpha"} : InitialTarget(s, side) \in Elem

VARIABLES
  stmt, com,    \* the statement the chain is about, and the commitment received
  msgs,         \* the round messages received
  challenges,   \* the challenges drawn
  target,       \* the running target of each side
  closing,      \* <<y', w>> once received
  verdict

vvars == <<stmt, com, msgs, challenges, target, closing, verdict>>

Side     == {"zero", "alpha"}
RoundMsg == [Side -> Poly]
Verdict  == {"rounds", "accept", "reject"}

(* nested_to_round_statement: the empty prefix and the two initial targets. *)
Init ==
  /\ stmt \in Stmt /\ com \in Commitment
  /\ msgs = << >> /\ challenges = << >> /\ closing = << >>
  /\ target = [side \in Side |-> InitialTarget(stmt, side)]
  /\ verdict = "rounds"

-----------------------------------------------------------------------------
(* round_check *)
RoundCheckRangeOnly(g) ==   \* mutant: the linear sum is not compared
  Add(Value(g["zero"], Zero), Value(g["zero"], One)) = target["zero"]
RoundCheckNotFirst(g) ==    \* mutant: the initial targets are not compared
  \A side \in Side : challenges # << >> => Add(Value(g[side], Zero), Value(g[side], One)) = target[side]
RoundCheck(g) == \A side \in Side : Add(Value(g[side], Zero), Value(g[side], One)) = target[side]

(* round_out *)
RoundOutAtOne(g, a) == [side \in Side |-> Value(g[side], One)]   \* mutant
RoundOut(g, a) == [side \in Side |-> Value(g[side], a)]

(* round_verify_loop *)
RoundsLeftOneMore == verdict = "rounds" /\ Len(challenges) <= M_ZERO      \* mutant
RoundsLeftOneLess == verdict = "rounds" /\ Len(challenges) + 1 < M_ZERO   \* mutant
RoundsLeft == verdict = "rounds" /\ Len(challenges) < M_ZERO

Pass(g, a) ==
  /\ RoundsLeft /\ RoundCheck(g)
  /\ target' = RoundOut(g, a)
  /\ challenges' = Append(challenges, a)
  /\ msgs' = Append(msgs, g)
  /\ UNCHANGED <<stmt, com, closing, verdict>>

Fail(g) ==
  /\ RoundsLeft /\ ~RoundCheck(g)
  /\ verdict' = "reject"
  /\ msgs' = Append(msgs, g)
  /\ UNCHANGED <<stmt, com, challenges, target, closing>>

-----------------------------------------------------------------------------
(* final_check and end_piece_check *)

Closing == verdict = "rounds" /\ Len(challenges) = M_ZERO

FinalCheck(y) ==
  /\ \A side \in Side : FinalValue(stmt, side, challenges, y) = target[side]
  /\ BoundHolds(stmt)
EndPieceUnbound(y, w) == Short(w) /\ TableEval(w, challenges) = y   \* mutant
EndPieceCheck(y, w) == Short(w) /\ Commit(w) = com /\ TableEval(w, challenges) = y

Decide(y, w) ==
  /\ Closing
  /\ closing' = <<y, w>>
  /\ verdict' = IF FinalCheck(y) /\ EndPieceCheck(y, w) THEN "accept" ELSE "reject"
  /\ UNCHANGED <<stmt, com, msgs, challenges, target>>

Next ==
  \/ \E g \in RoundMsg : Fail(g) \/ \E a \in Elem : Pass(g, a)
  \/ \E y \in Elem, w \in Witness : Decide(y, w)

Spec == Init /\ [][Next]_vvars
=============================================================================
