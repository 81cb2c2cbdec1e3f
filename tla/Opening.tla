------------------------------ MODULE Opening -------------------------------
(***************************************************************************)
(* Weak openings of a commitment and their verifier (hachi/src/commit.rs): *)
(* per block the digits of the message, the inner decomposition and a      *)
(* challenge the digits are short under.                                   *)
(***************************************************************************)
EXTENDS Committer

CONSTANTS
  KAPPA, BETA_SQ, GAMMA,   \* bounds on a challenge, a scaled block, the inner digits
  Candidates               \* openings [s, t, c] a verifier may be shown

(* A message is a vector of blocks of MESSAGE_ROWS canonical elements.      *)
ASSUME OpeningAssumption ==
  /\ KeyA \in Seq(Seq(Rq)) /\ KeyB \in Seq(Seq(Rq))
  /\ \A c \in Calls : Keeps(c) => c.blocks \in Seq([1 .. MESSAGE_ROWS -> Rq])

(* The bounds leave room for digits below b (params.rs: KAPPA = 32,         *)
(* GAMMA = 16, BETA_SQ > 2^65, b = 16).                                     *)
ASSUME RoomAssumption ==
  /\ KAPPA \in Nat \ {0}
  /\ GAMMA \in Nat /\ GADGET_BASE - 1 <= GAMMA
  /\ BETA_SQ \in Nat
  /\ (MESSAGE_ROWS * GADGET_DIGITS) * (RING_DEGREE * ((GADGET_BASE - 1) * (GADGET_BASE - 1))) <= BETA_SQ

(* The openings shown have the shape of the scheme: one number of blocks,   *)
(* and in each the digits of MESSAGE_ROWS and of INNER_ROWS elements.       *)
INNER_ROWS == Len(KeyA)
ASSUME ShapeAssumption ==
  \A o \in Candidates :
    /\ o.s \in Seq(Seq(Rq)) /\ o.t \in Seq(Seq(Rq)) /\ o.c \in Seq(Rq)
    /\ Len(o.t) = Len(o.s) /\ Len(o.c) = Len(o.s)
    /\ \A i \in DOMAIN o.s : /\ Len(o.s[i]) = MESSAGE_ROWS * GADGET_DIGITS
                            /\ Len(o.t[i]) = INNER_ROWS * GADGET_DIGITS
    /\ \A p \in Candidates : Len(o.s) = Len(p.s)

(* Why a nonzero norm will do for invertibility: a short challenge is a unit *)
(* (isUnit_of_l1Norm_le, from q % 8 = 5 and KAPPA^2 < q).                   *)
ASSUME UnitAssumption ==
  \A c \in Rq : L1Norm(c) \in 1 .. KAPPA => \E y \in Rq : NegMul(c, y) = OneRq

VARIABLE accepted          \* the openings of u accepted so far

ovars == <<cvars, accepted>>

(* Opening::honest pairs a Decomp with challenges of one.                   *)
Honest == [s |-> kept, t |-> ts, c |-> [i \in DOMAIN kept |-> OneRq]]
(* derived_message: the message is not stored but recomposed.               *)
DerivedMessage(o) == StoredVec([i \in DOMAIN o.s |-> GadgetMul(MESSAGE_ROWS, o.s[i])])

-----------------------------------------------------------------------------
(* verify_weak, block by block: the code runs every check and keeps one     *)
(* flag.                                                                    *)
ChallengeAny(c) == L1Norm(c) <= KAPPA   \* mutant
ChallengeOk(c) == L1Norm(c) # 0 /\ L1Norm(c) <= KAPPA
BlockOk(o, i) ==
  /\ ChallengeOk(o.c[i])
  /\ VecL2NormSq(ScaledVec(o.c[i], o.s[i])) <= BETA_SQ
  /\ GadgetMul(INNER_ROWS, o.t[i]) = MatVec(KeyA, o.s[i])
VerifyWeak(o) ==
  /\ \A i \in DOMAIN o.s : BlockOk(o, i)
  /\ VecLInftyNorm(FlattenBlocks(o.t)) <= GAMMA
  /\ MatVec(KeyB, FlattenBlocks(o.t)) = u
Verify(m, o) == DerivedMessage(o) = m /\ VerifyWeak(o)

-----------------------------------------------------------------------------
CommitStep == Next /\ UNCHANGED accepted
Show ==
  /\ u # << >> /\ Cardinality(accepted) < 2
  /\ \E o \in Candidates : VerifyWeak(o) /\ accepted' = accepted \cup {o}
  /\ UNCHANGED cvars

OInit == Init /\ accepted = {}
ONext == CommitStep \/ Show
OSpec == OInit /\ [][ONext]_ovars /\ Fairness

-----------------------------------------------------------------------------
(* What the committer made opens to its message: the bounds leave room for  *)
(* honest digits of either kind (Opening::honest, verify).                  *)
HonestAccepted == (u # << >> /\ Keeps(call)) => Verify(call.blocks, Honest)

(* Binding: two accepted openings of one commitment to different messages   *)
(* hold a nonzero short vector of the kernel of A or of B.                  *)
IsZeroVec(v) == v = ZeroVec(Len(v))
MinusVec(v, w) == AddVec(v, StoredVec([i \in DOMAIN w |-> NegRq(w[i])]))
OuterRelation(o, p) ==
  LET d == MinusVec(FlattenBlocks(o.t), FlattenBlocks(p.t))
  IN  ~IsZeroVec(d) /\ IsZeroVec(MatVec(KeyB, d)) /\ VecLInftyNorm(d) <= 2 * GAMMA
InnerRelation(o, p, i) ==
  LET d == ScaledVec(NegMul(o.c[i], p.c[i]), MinusVec(o.s[i], p.s[i]))
  IN  ~IsZeroVec(d) /\ IsZeroVec(MatVec(KeyA, d)) /\ VecL2NormSq(d) <= 4 * KAPPA * KAPPA * BETA_SQ
Binding ==
  \A o, p \in accepted :
    DerivedMessage(o) # DerivedMessage(p) =>
      OuterRelation(o, p) \/ \E i \in DOMAIN o.s : InnerRelation(o, p, i)
=============================================================================
