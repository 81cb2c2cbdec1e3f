--------------------------- MODULE OpeningProofs ----------------------------
(***************************************************************************)
(* The committers implement the one-step committer, for every pool of      *)
(* workers, key, message and form: in whatever order the workers claim,    *)
(* finish and store their blocks, the call's only visible step is the one  *)
(* of the serial committer.  What they kept opens the commitment to the    *)
(* message: digits of either kind recompose and are short.  And two        *)
(* accepted openings of one commitment to different messages give a short  *)
(* vector that a key sends to zero (Binding).                              *)
(***************************************************************************)
EXTENDS Opening, GadgetProofs

(* A worker between blocks or at a block of the call; what it computed and  *)
(* what is stored is what that block gives, at its index.                   *)
JobsOK ==
  /\ job = [w \in Worker |-> job[w]]
  /\ \A w \in Worker :
       /\ job[w] = [at |-> job[w].at, inner |-> job[w].inner]
       /\ job[w].at # 0 =>
         /\ job[w].at \in Blocks(call)
         /\ job[w].inner # << >> => job[w].inner = <<InnerOf(call, job[w].at)>>
SlotsOK ==
  /\ DOMAIN slots \subseteq Blocks(call)
  /\ \A i \in DOMAIN slots : slots[i] = Decomposed(call, InnerOf(call, i))
(* A Decomp keeps the digits of each block that is stored; the result is    *)
(* what the serial committer returns.                                       *)
KeptOK ==
  Keeps(call) =>
    /\ kept = [i \in DOMAIN slots |-> kept[i]]
    /\ \A i \in DOMAIN slots : kept[i] = Decomposed(call, BlockOf(call, i))
DoneOK ==
  u # << >> =>
    /\ DOMAIN slots = Blocks(call)
    /\ ts = [i \in Blocks(call) |-> Decomposed(call, InnerOf(call, i))]
    /\ u = Outer(ts)
IInv == call \in Calls /\ JobsOK /\ SlotsOK /\ KeptOK /\ DoneOK

LEMMA InitIInv == Init => IInv
<1>. SUFFICES ASSUME Init PROVE IInv
  OBVIOUS
<1>1. JobsOK
  BY DEF Init, JobsOK, Idle
<1>2. SlotsOK
  <2>1. slots = << >>
    BY DEF Init
  <2>2. DOMAIN slots = {}
    BY <2>1
  <2>. QED BY <2>2 DEF SlotsOK
<1>3. KeptOK
  <2>1. slots = << >> /\ kept = << >>
    BY DEF Init
  <2>2. DOMAIN slots = {} /\ kept = [i \in {} |-> kept[i]]
    BY <2>1
  <2>. QED BY <2>2 DEF KeptOK
<1>4. call \in Calls /\ DoneOK
  BY DEF Init, DoneOK
<1>. QED BY <1>1, <1>2, <1>3, <1>4 DEF IInv

(* A claim takes a block of the call and computes nothing yet.              *)
LEMMA ClaimStep ==
  ASSUME IInv, NEW w \in Worker, Claim(w)
  PROVE  IInv'
<1>1. PICK i \in Unclaimed : job' = [job EXCEPT ![w] = [at |-> i, inner |-> << >>]]
  BY DEF Claim
<1>2. i \in Blocks(call) /\ call' = call /\ slots' = slots
  BY <1>1 DEF Unclaimed, Claim
<1>3. JobsOK'
  BY <1>1, <1>2 DEF IInv, JobsOK, Blocks
<1>4. UNCHANGED <<kept, ts, u>>
  BY DEF Claim
<1>. QED BY <1>2, <1>3, <1>4 DEF IInv, SlotsOK, KeptOK, DoneOK, Blocks

(* Applying A gives the inner product of the block the worker holds.        *)
LEMMA ApplyStep ==
  ASSUME IInv, NEW w \in Worker, Apply(w)
  PROVE  IInv'
<1>1. /\ job[w].at # 0 /\ call' = call /\ slots' = slots
      /\ job' = [job EXCEPT ![w].inner = <<InnerOf(call, job[w].at)>>]
  BY DEF Apply
<1>. DEFINE i == job[w].at
<1>2. job[w] = [at |-> i, inner |-> job[w].inner] /\ i \in Blocks(call)
  BY <1>1 DEF IInv, JobsOK
<1>3. job' = [job EXCEPT ![w] = [at |-> i, inner |-> <<InnerOf(call, i)>>]]
  <2>. DEFINE x == <<InnerOf(call, i)>>
              n == job[w].inner
  <2>1. job' = [job EXCEPT ![w] = [job[w] EXCEPT !.inner = x]]
    BY <1>1
  <2>2. job[w] = [at |-> i, inner |-> n]
    BY <1>2
  <2>. HIDE DEF x, n, i
  <2>3. [[at |-> i, inner |-> n] EXCEPT !.inner = x] = [at |-> i, inner |-> x]
    OBVIOUS
  <2>. QED BY <2>1, <2>2, <2>3 DEF x
<1>4. JobsOK'
  BY <1>1, <1>2, <1>3 DEF IInv, JobsOK
<1>5. UNCHANGED <<kept, ts, u>>
  BY DEF Apply
<1>. QED BY <1>1, <1>4, <1>5 DEF IInv, SlotsOK, KeptOK, DoneOK

(* Storing writes the block's decomposition at the block's index.           *)
LEMMA StoreStep ==
  ASSUME IInv, NEW w \in Worker, Store(w)
  PROVE  IInv'
<1>. DEFINE i == job[w].at
            t == Decomposed(call, InnerOf(call, i))
<1>1. /\ i # 0 /\ job[w].inner # << >> /\ call' = call
      /\ slots' = Placed(slots, i, Decomposed(call, job[w].inner[1]))
      /\ job' = [job EXCEPT ![w] = Idle]
  BY DEF Store
<1>2. i \in Blocks(call) /\ job[w].inner = <<InnerOf(call, i)>>
  BY <1>1 DEF IInv, JobsOK
<1>3. slots' = Placed(slots, i, t)
  BY <1>1, <1>2
<1>4. SlotsOK'
  BY <1>1, <1>2, <1>3 DEF IInv, SlotsOK, Placed
<1>5. JobsOK'
  BY <1>1 DEF IInv, JobsOK, Idle
<1>6. KeptOK'
  <2>1. DOMAIN slots' = DOMAIN slots \cup {i}
    BY <1>3 DEF Placed
  <2>2. SUFFICES ASSUME Keeps(call)
                 PROVE  /\ kept' = [k \in DOMAIN slots' |-> kept'[k]]
                        /\ \A k \in DOMAIN slots' : kept'[k] = Decomposed(call, BlockOf(call, k))
    BY <1>1 DEF KeptOK
  <2>3. kept' = Placed(kept, i, Decomposed(call, BlockOf(call, i)))
    BY <2>2 DEF Store
  <2>4. /\ kept = [k \in DOMAIN slots |-> kept[k]]
        /\ \A k \in DOMAIN slots : kept[k] = Decomposed(call, BlockOf(call, k))
    BY <2>2 DEF IInv, KeptOK
  <2>. HIDE DEF i
  <2>. QED BY <2>1, <2>3, <2>4 DEF Placed
<1>7. DoneOK'
  <2>1. DOMAIN slots' = DOMAIN slots \cup {i}
    BY <1>3 DEF Placed
  <2>2. UNCHANGED <<call, ts, u>>
    BY DEF Store
  <2>. QED BY <1>2, <2>1, <2>2 DEF IInv, DoneOK
<1>. QED BY <1>1, <1>4, <1>5, <1>6, <1>7 DEF IInv

LEMMA StepIInv == IInv /\ [Next]_cvars => IInv'
<1>. SUFFICES ASSUME IInv, [Next]_cvars PROVE IInv'
  OBVIOUS
<1>1. CASE Collect
  <2>1. /\ DOMAIN slots = Blocks(call)
        /\ ts' = [i \in Blocks(call) |-> slots[i]] /\ u' = Outer(ts')
        /\ UNCHANGED <<call, job, slots, kept>>
    BY <1>1 DEF Collect
  <2>2. JobsOK' /\ SlotsOK' /\ KeptOK' /\ call' \in Calls
    BY <2>1 DEF IInv, JobsOK, SlotsOK, KeptOK
  <2>3. DoneOK'
    BY <2>1 DEF IInv, SlotsOK, DoneOK
  <2>. QED BY <2>2, <2>3 DEF IInv
<1>2. ASSUME NEW w \in Worker, Work(w) PROVE IInv'
  BY <1>2, ClaimStep, ApplyStep, StoreStep DEF Work
<1>3. CASE UNCHANGED cvars
  BY <1>3 DEF cvars, IInv, JobsOK, SlotsOK, KeptOK, DoneOK
<1>. QED BY <1>1, <1>2, <1>3 DEF Next

(* Every block finished so far is stored at its own index, with what the    *)
(* serial committer computes for it; so is the finished result.             *)
THEOREM SlotsCorrect == Spec => []IInv
<1>. QED BY InitIInv, StepIInv, PTL DEF Spec

-----------------------------------------------------------------------------
(* THE REFINEMENT *)

LEMMA MessageOf ==
  /\ Message(call).balanced = (Form(call) = "balanced")
  /\ DOMAIN Message(call).blocks = Blocks(call)
  /\ \A i \in Blocks(call) : Message(call).blocks[i] = BlockOf(call, i)
BY DEF Message

LEMMA InitMaps == Init => Atomic!Init
BY DEF Init, Atomic!Init

LEMMA StepMaps == IInv /\ [Next]_cvars => [Atomic!Commit]_Atomic!cmvars
<1>. SUFFICES ASSUME IInv, [Next]_cvars PROVE [Atomic!Commit]_Atomic!cmvars
  OBVIOUS
<1>1. CASE Collect
  <2>1. /\ u = << >> /\ DOMAIN slots = Blocks(call) /\ call' = call
        /\ ts' = [i \in Blocks(call) |-> slots[i]]
        /\ u' = Outer(ts')
    BY <1>1 DEF Collect
  <2>2. ASSUME NEW i \in Blocks(call)
        PROVE  slots[i] = InnerDecomp(Message(call).balanced, Message(call).blocks[i])
    BY <2>1, <2>2, MessageOf DEF IInv, SlotsOK, Decomposed, InnerOf, InnerDecomp
  <2>3. ts' = [i \in DOMAIN Message(call).blocks |->
                 InnerDecomp(Message(call).balanced, Message(call).blocks[i])]
    BY <2>1, <2>2, MessageOf
  <2>. QED BY <2>1, <2>3 DEF Atomic!Commit
<1>2. ASSUME NEW w \in Worker, Work(w) PROVE UNCHANGED Atomic!cmvars
  BY <1>2 DEF Work, Claim, Apply, Store, Atomic!cmvars
<1>3. CASE UNCHANGED cvars
  BY <1>3 DEF cvars, Atomic!cmvars
<1>. QED BY <1>1, <1>2, <1>3 DEF Next

(* Whatever the interleaving of the pool, the call takes the one step of    *)
(* the serial committer.                                                    *)
THEOREM RefinesCommitment == Spec => CommitsAtomically
<1>. QED BY SlotsCorrect, InitMaps, StepMaps, PTL DEF Spec, CommitsAtomically, Atomic!Spec

-----------------------------------------------------------------------------
(* HONEST OPENINGS *)

(* What the committer kept, when it is done, is the digits of the message   *)
(* and of the inner products, in the order of the blocks.                   *)
LEMMA KeptOpening ==
  ASSUME IInv, u # << >>, Keeps(call)
  PROVE  LET n == Len(call.blocks)
             balanced == Form(call) = "balanced"
         IN  /\ n \in Nat /\ call.blocks \in [1 .. n -> [1 .. MESSAGE_ROWS -> Rq]]
             /\ kept = [i \in 1 .. n |-> Decompose(balanced, call.blocks[i])]
             /\ ts = [i \in 1 .. n |-> Decompose(balanced, MatVec(KeyA, kept[i]))]
             /\ MatVec(KeyB, FlattenBlocks(ts)) = u
<1>. DEFINE n == Len(call.blocks)
            balanced == Form(call) = "balanced"
<1>1. call.blocks \in Seq([1 .. MESSAGE_ROWS -> Rq])
  BY OpeningAssumption DEF IInv
<1>2. n \in Nat /\ call.blocks \in [1 .. n -> [1 .. MESSAGE_ROWS -> Rq]] /\ DOMAIN call.blocks = 1 .. n
  BY <1>1, LenProperties
<1>3. \A i \in 1 .. n : BlockOf(call, i) = call.blocks[i]
  BY DEF Keeps, BlockOf
<1>4. DOMAIN slots = 1 .. n
  BY <1>2 DEF IInv, DoneOK, Blocks
<1>. HIDE DEF n
<1>5. kept = [i \in 1 .. n |-> Decompose(balanced, call.blocks[i])]
  BY <1>3, <1>4 DEF IInv, KeptOK, Decomposed
<1>6. \A i \in 1 .. n : InnerOf(call, i) = MatVec(KeyA, kept[i])
  BY <1>3, <1>5 DEF InnerOf, Decomposed
<1>7. ts = [i \in 1 .. n |-> Decompose(balanced, MatVec(KeyA, kept[i]))]
  BY <1>2, <1>6 DEF IInv, DoneOK, Decomposed, Blocks
<1>8. MatVec(KeyB, FlattenBlocks(ts)) = u
  BY DEF IInv, DoneOK, Outer
<1>. QED BY <1>2, <1>5, <1>7, <1>8 DEF n

LEMMA HonestVerifies ==
  ASSUME IInv
  PROVE  HonestAccepted
<1>. SUFFICES ASSUME u # << >>, Keeps(call) PROVE Verify(call.blocks, Honest)
  BY DEF HonestAccepted
<1>. DEFINE n == Len(call.blocks)
            balanced == Form(call) = "balanced"
            x == call.blocks
            rows == Len(KeyA)
            inner(i) == MatVec(KeyA, kept[i])
<1>1. /\ n \in Nat /\ x \in [1 .. n -> [1 .. MESSAGE_ROWS -> Rq]]
      /\ kept = [i \in 1 .. n |-> Decompose(balanced, x[i])]
      /\ ts = [i \in 1 .. n |-> Decompose(balanced, inner(i))]
      /\ MatVec(KeyB, FlattenBlocks(ts)) = u
  BY KeptOpening
<1>2. MESSAGE_ROWS \in Nat /\ rows \in Nat
  BY GadgetAssumption, OpeningAssumption, LenProperties
<1>. HIDE DEF n, x, balanced
<1>3. /\ Honest.s = kept /\ Honest.t = ts /\ DOMAIN kept = 1 .. n
      /\ \A i \in 1 .. n : Honest.c[i] = OneRq
  BY <1>1 DEF Honest
<1>. HIDE DEF inner
<1>4. ASSUME NEW i \in 1 .. n
      PROVE  /\ kept[i] \in Seq(SmallRq) /\ kept[i] \in Seq(Rq)
             /\ Len(kept[i]) = MESSAGE_ROWS * GADGET_DIGITS
             /\ GadgetMul(MESSAGE_ROWS, kept[i]) = x[i]
             /\ inner(i) \in [1 .. rows -> Rq]
             /\ ts[i] \in Seq(SmallRq)
             /\ GadgetMul(rows, ts[i]) = inner(i)
  <2>1. x[i] \in [1 .. MESSAGE_ROWS -> Rq] /\ kept[i] = Decompose(balanced, x[i])
    BY <1>1
  <2>2. /\ kept[i] \in Seq(SmallRq) /\ kept[i] \in Seq(Rq)
        /\ Len(kept[i]) = MESSAGE_ROWS * GADGET_DIGITS
        /\ GadgetMul(MESSAGE_ROWS, kept[i]) = x[i]
    BY <1>2, <2>1, DecomposedSmall, Decomposition, Recomposition
  <2>3. inner(i) \in [1 .. rows -> Rq]
    BY <2>2, OpeningAssumption, MatVecType DEF inner
  <2>4. ts[i] = Decompose(balanced, inner(i))
    BY <1>1
  <2>. HIDE DEF rows
  <2>5. ts[i] \in Seq(SmallRq) /\ GadgetMul(rows, ts[i]) = inner(i)
    BY <1>2, <2>3, <2>4, DecomposedSmall, Recomposition
  <2>. QED BY <2>2, <2>3, <2>5
<1>5. DerivedMessage(Honest) = x
  <2>. DEFINE d == [i \in DOMAIN kept |-> GadgetMul(MESSAGE_ROWS, kept[i])]
  <2>1. d = [i \in 1 .. n |-> x[i]]
    BY <1>3, <1>4
  <2>2. d = x
    BY <1>1, <2>1
  <2>3. StoredVec(x) = x
    BY <1>1, StoredVecIs
  <2>. QED BY <1>3, <2>2, <2>3 DEF DerivedMessage
<1>6. ASSUME NEW i \in 1 .. n PROVE BlockOk(Honest, i)
  <2>1. ChallengeOk(OneRq)
    BY OneNorm, RoomAssumption DEF ChallengeOk
  <2>2. ScaledVec(OneRq, kept[i]) = kept[i]
    BY <1>4, ScaledByOne
  <2>3. VecL2NormSq(kept[i]) <= BETA_SQ
    <3>. DEFINE y == VecL2NormSq(kept[i])
                z == (MESSAGE_ROWS * GADGET_DIGITS)
                       * (RING_DEGREE * ((GADGET_BASE - 1) * (GADGET_BASE - 1)))
    <3>1. y \in Nat /\ y <= z
      BY <1>4, TwoSmall
    <3>2. z <= BETA_SQ /\ BETA_SQ \in Nat
      BY RoomAssumption
    <3>3. z \in Int
      BY <1>2, GadgetAssumption, BaseFacts, RingAssumption
    <3>. HIDE DEF y, z
    <3>4. y <= BETA_SQ
      BY <3>1, <3>2, <3>3
    <3>. QED BY <3>4 DEF y
  <2>4. GadgetMul(INNER_ROWS, ts[i]) = MatVec(KeyA, kept[i])
    BY <1>4 DEF INNER_ROWS, inner
  <2>. QED BY <1>3, <2>1, <2>2, <2>3, <2>4 DEF BlockOk
<1>7. VecLInftyNorm(FlattenBlocks(ts)) <= GAMMA
  <2>1. ts \in Seq(Seq(SmallRq))
    BY <1>1, <1>4
  <2>2. FlattenBlocks(ts) \in Seq(SmallRq)
    BY <2>1, FlattenType
  <2>. DEFINE y == VecLInftyNorm(FlattenBlocks(ts))
  <2>3. y \in Nat /\ y <= GADGET_BASE - 1
    BY <2>2, InftySmall
  <2>. HIDE DEF y
  <2>4. y <= GAMMA
    BY <2>3, BaseFacts, RoomAssumption
  <2>. QED BY <2>4 DEF y
<1>. QED BY <1>1, <1>3, <1>5, <1>6, <1>7 DEF Verify, VerifyWeak, x

(* The decompositions of a message, taken with challenges of one, open its  *)
(* commitment (Opening::honest then Opening::verify), whatever the key, the *)
(* message, the kind of digits and the sizes.                               *)
THEOREM HonestOpens == OSpec => []HonestAccepted
<1>1. OInit => IInv
  BY InitIInv DEF OInit
<1>2. IInv /\ [ONext]_ovars => IInv'
  <2>1. [ONext]_ovars => [Next]_cvars
    BY DEF ONext, CommitStep, Show, ovars, cvars
  <2>. QED BY <2>1, StepIInv
<1>3. IInv => HonestAccepted
  BY HonestVerifies
<1>. QED BY <1>1, <1>2, <1>3, PTL DEF OSpec

-----------------------------------------------------------------------------
(* BINDING *)

(* What is accepted is a candidate the verifier takes for the commitment,   *)
(* which does not change once it is made.                                   *)
AcceptedOK ==
  /\ accepted \subseteq Candidates
  /\ accepted # {} => u # << >>
  /\ \A o \in accepted : VerifyWeak(o)

LEMMA AcceptedInit == OInit => AcceptedOK
BY DEF OInit, AcceptedOK

LEMMA AcceptedStep == AcceptedOK /\ [ONext]_ovars => AcceptedOK'
<1>. SUFFICES ASSUME AcceptedOK, [ONext]_ovars PROVE AcceptedOK'
  OBVIOUS
<1>1. CASE accepted' = accepted /\ u' = u
  BY <1>1 DEF AcceptedOK, VerifyWeak, BlockOk
<1>2. CASE Show
  BY <1>2 DEF AcceptedOK, Show, cvars, VerifyWeak, BlockOk
<1>3. CASE Collect /\ UNCHANGED accepted
  BY <1>3 DEF AcceptedOK, Collect
<1>. QED BY <1>1, <1>2, <1>3 DEF ONext, CommitStep, Next, Work, Claim, Apply, Store, ovars, cvars

LEMMA MinusVecIs ==
  ASSUME NEW v \in Seq(Rq), NEW w \in Seq(Rq), Len(v) = Len(w)
  PROVE  MinusVec(v, w) = DifferenceVec(v, w)
<1>1. /\ Len(v) \in Nat /\ DOMAIN v = 1 .. Len(v) /\ DOMAIN w = 1 .. Len(v)
      /\ \A i \in 1 .. Len(v) : v[i] \in Rq /\ w[i] \in Rq
  BY SeqEntries
<1>. DEFINE n == [i \in 1 .. Len(v) |-> NegRq(w[i])]
<1>2. ASSUME NEW i \in 1 .. Len(v) PROVE NegRq(w[i]) \in Rq
  <2>1. w[i] \in Rq
    BY <1>1
  <2>2. NegRq(w[i]) = [p \in Coeff |-> (-w[i][p]) % Q]
    BY StoredIs DEF NegRq
  <2>3. ASSUME NEW p \in Coeff PROVE (-w[i][p]) % Q \in Fp
    <3>1. -w[i][p] \in Int
      BY <2>1, RqInt
    <3>. QED BY <3>1, ModSmall
  <2>. QED BY <2>2, <2>3 DEF Rq
<1>3. n \in [1 .. Len(v) -> Rq]
  BY <1>2
<1>4. StoredVec(n) = n
  <2>. HIDE DEF n
  <2>. QED BY <1>1, <1>3, StoredVecIs
<1>5. \A i \in 1 .. Len(v) : AddRq(v[i], n[i]) = Difference(v[i], w[i])
  BY <1>1, DifferenceIs, RqInt
<1>6. MinusVec(v, w) = StoredVec([i \in 1 .. Len(v) |-> AddRq(v[i], n[i])])
  BY <1>1, <1>4 DEF MinusVec, AddVec
<1>7. [i \in 1 .. Len(v) |-> AddRq(v[i], n[i])] = DifferenceVec(v, w)
  <2>. HIDE DEF n
  <2>. QED BY <1>5 DEF DifferenceVec
<1>8. StoredVec(DifferenceVec(v, w)) = DifferenceVec(v, w)
  <2>1. DifferenceVec(v, w) \in [1 .. Len(v) -> Rq]
    BY DifferenceVecIs, SeqEntries
  <2>. QED BY <1>1, <2>1, StoredVecIs
<1>. QED BY <1>6, <1>7, <1>8

(* Two inner decompositions of one commitment that differ: the kernel of B. *)
LEMMA OuterCollision ==
  ASSUME NEW v \in Seq(Rq), NEW w \in Seq(Rq), Len(v) = Len(w), v # w,
         MatVec(KeyB, v) = MatVec(KeyB, w),
         VecLInftyNorm(v) <= GAMMA, VecLInftyNorm(w) <= GAMMA
  PROVE  LET d == MinusVec(v, w)
         IN  ~IsZeroVec(d) /\ IsZeroVec(MatVec(KeyB, d)) /\ VecLInftyNorm(d) <= 2 * GAMMA
<1>. DEFINE d == DifferenceVec(v, w)
<1>1. MinusVec(v, w) = d
  BY MinusVecIs
<1>2. d \in Seq(Rq) /\ Len(d) = Len(v) /\ Len(v) \in Nat
  BY DifferenceVecIs, SeqEntries
<1>3. ~IsZeroVec(d)
  <2>1. OneRq \in Rq /\ NegMul(OneRq, OneRq) = OneRq
    BY OneType, OneTimes
  <2>2. \E i \in 1 .. Len(v) : d[i] # ZeroRq
    BY <2>1, DifferenceNonzero
  <2>. HIDE DEF d
  <2>. QED BY <1>2, <2>2 DEF IsZeroVec, ZeroVec
<1>4. IsZeroVec(MatVec(KeyB, d))
  <2>1. MatVec(KeyB, d) = [i \in 1 .. Len(KeyB) |-> ZeroRq]
    BY OpeningAssumption, KernelOfDifference
  <2>2. Len(MatVec(KeyB, d)) = Len(KeyB)
    BY <1>2, OpeningAssumption, MatVecIs
  <2>. QED BY <2>1, <2>2 DEF IsZeroVec, ZeroVec
<1>5. VecLInftyNorm(d) <= 2 * GAMMA
  BY RoomAssumption, DifferenceInfty
<1>. QED BY <1>1, <1>3, <1>4, <1>5

LEMMA UnitProduct ==
  ASSUME NEW c \in Rq, NEW e \in Rq, NEW x \in Rq, NEW y \in Rq,
         NegMul(c, x) = OneRq, NegMul(e, y) = OneRq
  PROVE  NegMul(c, e) \in Rq /\ NegMul(x, y) \in Rq /\ NegMul(NegMul(c, e), NegMul(x, y)) = OneRq
<1>1. c \in IntRq /\ e \in IntRq /\ x \in IntRq /\ y \in IntRq
  BY RqInt
<1>2. NegMul(c, e) \in Rq /\ NegMul(x, y) \in Rq /\ NegMul(x, y) \in IntRq
  BY <1>1, IntProductType
<1>3. NegMul(NegMul(c, e), NegMul(x, y)) = NegMul(c, NegMul(e, NegMul(x, y)))
  BY <1>1, <1>2, ProductAssociates
<1>4. NegMul(e, NegMul(x, y)) = NegMul(x, NegMul(e, y))
  BY <1>1, ProductSwap
<1>5. NegMul(x, OneRq) = x
  BY <1>1, OneType, RqInt, ProductCommutes, OneTimes
<1>. QED BY <1>2, <1>3, <1>4, <1>5

(* The difference scaled by both challenges is the difference of what each  *)
(* challenge makes of the other's short vector.                             *)
LEMMA CrossScaled ==
  ASSUME NEW c \in Rq, NEW e \in Rq, NEW v \in Seq(Rq), NEW w \in Seq(Rq), Len(v) = Len(w)
  PROVE  ScaledVec(NegMul(c, e), DifferenceVec(v, w))
           = DifferenceVec(ScaledVec(e, ScaledVec(c, v)), ScaledVec(c, ScaledVec(e, w)))
<1>. DEFINE d == DifferenceVec(v, w)
            cv == ScaledVec(c, v)
            ew == ScaledVec(e, w)
            x == ScaledVec(e, cv)
            y == ScaledVec(c, ew)
            I == 1 .. Len(v)
<1>1. NegMul(c, e) \in Rq /\ c \in IntRq /\ e \in IntRq
  BY RqInt, IntProductType
<1>2. d \in Seq(Rq) /\ Len(d) = Len(v) /\ \A i \in I : d[i] = Difference(v[i], w[i])
  BY DifferenceVecIs
<1>3. cv \in Seq(Rq) /\ Len(cv) = Len(v) /\ \A i \in I : cv[i] = NegMul(c, v[i])
  BY ScaledVecIs
<1>4. ew \in Seq(Rq) /\ Len(ew) = Len(v) /\ \A i \in I : ew[i] = NegMul(e, w[i])
  BY ScaledVecIs
<1>. HIDE DEF cv, ew, d
<1>5. x \in Seq(Rq) /\ Len(x) = Len(v) /\ \A i \in I : x[i] = NegMul(e, cv[i])
  BY <1>3, ScaledVecIs
<1>6. y \in Seq(Rq) /\ Len(y) = Len(v) /\ \A i \in I : y[i] = NegMul(c, ew[i])
  BY <1>4, ScaledVecIs
<1>7. ScaledVec(NegMul(c, e), d) = [i \in I |-> NegMul(NegMul(c, e), d[i])]
  BY <1>1, <1>2, ScaledVecIs
<1>8. ASSUME NEW i \in I PROVE NegMul(NegMul(c, e), d[i]) = Difference(x[i], y[i])
  <2>. DEFINE a == v[i]
              b == w[i]
              z == NegMul(c, e)
  <2>1. a \in IntRq /\ b \in IntRq
    BY SeqEntries
  <2>2. x[i] = NegMul(e, NegMul(c, a)) /\ y[i] = NegMul(c, NegMul(e, b)) /\ d[i] = Difference(a, b)
    BY <1>2, <1>3, <1>4, <1>5, <1>6
  <2>. HIDE DEF a, b
  <2>3. NegMul(z, Difference(a, b)) = Difference(NegMul(z, a), NegMul(z, b))
    BY <1>1, <2>1, RqInt, ProductOfDifference
  <2>4. NegMul(z, a) = NegMul(c, NegMul(e, a)) /\ NegMul(c, NegMul(e, a)) = NegMul(e, NegMul(c, a))
    BY <1>1, <2>1, ProductAssociates, ProductSwap
  <2>5. NegMul(z, b) = NegMul(c, NegMul(e, b))
    BY <1>1, <2>1, ProductAssociates
  <2>. QED BY <2>2, <2>3, <2>4, <2>5
<1>9. DifferenceVec(x, y) = [i \in I |-> Difference(x[i], y[i])]
  <2>. HIDE DEF x, y
  <2>. QED BY <1>5 DEF DifferenceVec
<1>. HIDE DEF x, y
<1>10. ScaledVec(NegMul(c, e), d) = DifferenceVec(x, y)
  BY <1>7, <1>8, <1>9
<1>. QED BY <1>10 DEF x, y, d, cv, ew

LEMMA ShortScaled ==
  ASSUME NEW e \in Rq, L1Norm(e) <= KAPPA, NEW v \in Seq(Rq), VecL2NormSq(v) <= BETA_SQ
  PROVE  VecL2NormSq(ScaledVec(e, v)) \in Nat
         /\ VecL2NormSq(ScaledVec(e, v)) <= KAPPA * (KAPPA * BETA_SQ)
<1>. DEFINE k == L1Norm(e)
            m == VecL2NormSq(v)
            n == VecL2NormSq(ScaledVec(e, v))
<1>1. k \in Nat /\ m \in Nat /\ n \in Nat /\ n <= k * (k * m)
  BY ScaledNorm
<1>2. k <= KAPPA /\ m <= BETA_SQ /\ KAPPA \in Nat /\ BETA_SQ \in Nat
  BY RoomAssumption
<1>. HIDE DEF k, m, n
<1>3. k * m \in Nat /\ KAPPA * BETA_SQ \in Nat
  BY <1>1, <1>2
<1>4. k * m <= KAPPA * BETA_SQ
  <2>1. k * m <= k * BETA_SQ
    BY <1>1, <1>2
  <2>2. k * BETA_SQ <= KAPPA * BETA_SQ
    BY <1>1, <1>2
  <2>3. k * BETA_SQ \in Int
    BY <1>1, <1>2
  <2>. QED BY <1>3, <2>1, <2>2, <2>3
<1>5. k * (k * m) <= KAPPA * (KAPPA * BETA_SQ)
  <2>. DEFINE a == k * m
              b == KAPPA * BETA_SQ
  <2>1. a \in Nat /\ b \in Nat /\ a <= b
    BY <1>3, <1>4
  <2>. HIDE DEF a, b
  <2>2. k * a <= k * b /\ k * a \in Int /\ k * b \in Int
    BY <1>1, <2>1
  <2>3. k * b <= KAPPA * b /\ KAPPA * b \in Int
    BY <1>1, <1>2, <2>1
  <2>4. k * a <= KAPPA * b
    BY <2>2, <2>3
  <2>. QED BY <2>4 DEF a, b
<1>6. k * (k * m) \in Int /\ KAPPA * (KAPPA * BETA_SQ) \in Int
  BY <1>1, <1>2
<1>7. n \in Nat /\ n <= KAPPA * (KAPPA * BETA_SQ)
  BY <1>1, <1>5, <1>6
<1>. QED BY <1>7 DEF n

(* Two digit blocks with one image that differ: the kernel of A.            *)
LEMMA InnerCollision ==
  ASSUME NEW c \in Rq, NEW e \in Rq, ChallengeOk(c), ChallengeOk(e),
         NEW v \in Seq(Rq), NEW w \in Seq(Rq), Len(v) = Len(w), v # w,
         VecL2NormSq(ScaledVec(c, v)) <= BETA_SQ, VecL2NormSq(ScaledVec(e, w)) <= BETA_SQ,
         MatVec(KeyA, v) = MatVec(KeyA, w)
  PROVE  LET d == ScaledVec(NegMul(c, e), MinusVec(v, w))
         IN  ~IsZeroVec(d) /\ IsZeroVec(MatVec(KeyA, d)) /\ VecL2NormSq(d) <= 4 * KAPPA * KAPPA * BETA_SQ
<1>. DEFINE f == DifferenceVec(v, w)
            d == ScaledVec(NegMul(c, e), f)
<1>1. MinusVec(v, w) = f
  BY MinusVecIs
<1>2. f \in Seq(Rq) /\ Len(f) = Len(v) /\ Len(v) \in Nat
  BY DifferenceVecIs, SeqEntries
<1>3. NegMul(c, e) \in Rq
  BY ProductType
<1>4. d \in Seq(Rq) /\ Len(d) = Len(v)
  <2>. HIDE DEF f
  <2>. QED BY <1>2, <1>3, ScaledVecIs
<1>5. ~IsZeroVec(d)
  <2>1. L1Norm(c) \in Nat /\ L1Norm(e) \in Nat /\ KAPPA \in Nat
    BY NormTypes, RoomAssumption
  <2>2. L1Norm(c) \in 1 .. KAPPA /\ L1Norm(e) \in 1 .. KAPPA
    BY <2>1 DEF ChallengeOk
  <2>3. PICK x \in Rq : NegMul(c, x) = OneRq
    BY <2>2, UnitAssumption
  <2>4. PICK y \in Rq : NegMul(e, y) = OneRq
    BY <2>2, UnitAssumption
  <2>5. NegMul(x, y) \in Rq /\ NegMul(NegMul(c, e), NegMul(x, y)) = OneRq
    BY <2>3, <2>4, UnitProduct
  <2>6. \E i \in 1 .. Len(v) : d[i] # ZeroRq
    BY <1>3, <2>5, DifferenceNonzero
  <2>. HIDE DEF d
  <2>. QED BY <1>4, <2>6 DEF IsZeroVec, ZeroVec
<1>6. IsZeroVec(MatVec(KeyA, d))
  <2>1. MatVec(KeyA, d) = [i \in 1 .. Len(KeyA) |-> ZeroRq]
    BY <1>3, OpeningAssumption, KernelOfDifference
  <2>. HIDE DEF d
  <2>2. Len(MatVec(KeyA, d)) = Len(KeyA)
    BY <1>4, OpeningAssumption, MatVecIs
  <2>. QED BY <2>1, <2>2 DEF IsZeroVec, ZeroVec
<1>7. VecL2NormSq(d) <= 4 * KAPPA * KAPPA * BETA_SQ
  <2>. DEFINE cv == ScaledVec(c, v)
              ew == ScaledVec(e, w)
              x == ScaledVec(e, cv)
              y == ScaledVec(c, ew)
              b == KAPPA * (KAPPA * BETA_SQ)
              X == VecL2NormSq(x)
              Y == VecL2NormSq(y)
              D == VecL2NormSq(d)
  <2>1. d = DifferenceVec(x, y)
    BY CrossScaled
  <2>2. cv \in Seq(Rq) /\ ew \in Seq(Rq) /\ Len(cv) = Len(v) /\ Len(ew) = Len(v)
    BY ScaledVecIs
  <2>3. VecL2NormSq(cv) <= BETA_SQ /\ VecL2NormSq(ew) <= BETA_SQ /\ L1Norm(c) <= KAPPA /\ L1Norm(e) <= KAPPA
    BY DEF ChallengeOk
  <2>. HIDE DEF cv, ew, d
  <2>4. x \in Seq(Rq) /\ y \in Seq(Rq) /\ Len(x) = Len(y)
    BY <2>2, ScaledVecIs
  <2>5. X \in Nat /\ X <= b /\ Y \in Nat /\ Y <= b
    BY <2>2, <2>3, ShortScaled
  <2>. HIDE DEF x, y
  <2>6. D \in Nat /\ D <= 2 * X + 2 * Y
    BY <2>1, <2>4, DifferenceVecNorm
  <2>7. b \in Int
    BY RoomAssumption
  <2>8. 4 * KAPPA * KAPPA * BETA_SQ = 4 * b
    BY RoomAssumption
  <2>. HIDE DEF b, X, Y, D
  <2>9. D <= 4 * b
    BY <2>5, <2>6, <2>7
  <2>. QED BY <2>8, <2>9 DEF D
<1>. QED BY <1>1, <1>5, <1>6, <1>7

LEMMA AcceptedBinds == AcceptedOK => Binding
<1>. SUFFICES ASSUME AcceptedOK, NEW o \in accepted, NEW p \in accepted,
                     DerivedMessage(o) # DerivedMessage(p)
              PROVE  OuterRelation(o, p) \/ \E i \in DOMAIN o.s : InnerRelation(o, p, i)
  BY DEF Binding
<1>. DEFINE n == Len(o.s)
            v == FlattenBlocks(o.t)
            w == FlattenBlocks(p.t)
<1>1. o \in Candidates /\ p \in Candidates /\ VerifyWeak(o) /\ VerifyWeak(p)
  BY DEF AcceptedOK
<1>2. /\ o.s \in Seq(Seq(Rq)) /\ o.t \in Seq(Seq(Rq)) /\ o.c \in Seq(Rq)
      /\ Len(o.t) = n /\ Len(o.c) = n /\ n \in Nat /\ DOMAIN o.s = 1 .. n
      /\ \A i \in 1 .. n : /\ Len(o.s[i]) = MESSAGE_ROWS * GADGET_DIGITS
                           /\ Len(o.t[i]) = INNER_ROWS * GADGET_DIGITS
  BY <1>1, ShapeAssumption, LenProperties
<1>3. /\ p.s \in Seq(Seq(Rq)) /\ p.t \in Seq(Seq(Rq)) /\ p.c \in Seq(Rq)
      /\ Len(p.s) = n /\ Len(p.t) = n /\ Len(p.c) = n /\ DOMAIN p.s = 1 .. n
      /\ \A i \in 1 .. n : /\ Len(p.s[i]) = MESSAGE_ROWS * GADGET_DIGITS
                           /\ Len(p.t[i]) = INNER_ROWS * GADGET_DIGITS
  BY <1>1, <1>2, ShapeAssumption, LenProperties
<1>. HIDE DEF n
<1>4. v \in Seq(Rq) /\ w \in Seq(Rq)
  BY <1>2, <1>3, FlattenType
<1>5. Len(v) = Len(w) /\ (v = w => o.t = p.t)
  <2>1. Len(o.t) = Len(p.t) /\ \A i \in 1 .. Len(o.t) : Len(o.t[i]) = Len(p.t[i])
    BY <1>2, <1>3
  <2>. QED BY <1>2, <1>3, <2>1, FlattenInjective
<1>6. /\ VecLInftyNorm(v) <= GAMMA /\ VecLInftyNorm(w) <= GAMMA
      /\ MatVec(KeyB, v) = MatVec(KeyB, w)
  BY <1>1 DEF VerifyWeak
<1>7. CASE v # w
  <2>. HIDE DEF v, w
  <2>1. LET d == MinusVec(v, w)
        IN  ~IsZeroVec(d) /\ IsZeroVec(MatVec(KeyB, d)) /\ VecLInftyNorm(d) <= 2 * GAMMA
    BY <1>4, <1>5, <1>6, <1>7, OuterCollision
  <2>. QED BY <2>1 DEF OuterRelation, v, w
<1>8. CASE v = w
  <2>1. o.t = p.t
    BY <1>5, <1>8
  <2>2. PICK i \in 1 .. n : o.s[i] # p.s[i]
    <3>1. SUFFICES ASSUME \A i \in 1 .. n : o.s[i] = p.s[i] PROVE FALSE
      OBVIOUS
    <3>2. [i \in DOMAIN o.s |-> GadgetMul(MESSAGE_ROWS, o.s[i])] = [i \in DOMAIN p.s |-> GadgetMul(MESSAGE_ROWS, p.s[i])]
      BY <1>2, <1>3, <3>1
    <3>. QED BY <3>2 DEF DerivedMessage
  <2>. DEFINE c == o.c[i]
              e == p.c[i]
              x == o.s[i]
              y == p.s[i]
  <2>3. c \in Rq /\ e \in Rq /\ x \in Seq(Rq) /\ y \in Seq(Rq) /\ Len(x) = Len(y) /\ x # y
    BY <1>2, <1>3, <2>2, ElementOfSeq
  <2>4. BlockOk(o, i) /\ BlockOk(p, i)
    BY <1>1, <1>2, <1>3 DEF VerifyWeak
  <2>5. /\ ChallengeOk(c) /\ ChallengeOk(e)
        /\ VecL2NormSq(ScaledVec(c, x)) <= BETA_SQ /\ VecL2NormSq(ScaledVec(e, y)) <= BETA_SQ
        /\ MatVec(KeyA, x) = MatVec(KeyA, y)
    BY <2>1, <2>4 DEF BlockOk
  <2>. HIDE DEF c, e, x, y
  <2>6. LET d == ScaledVec(NegMul(c, e), MinusVec(x, y))
        IN  ~IsZeroVec(d) /\ IsZeroVec(MatVec(KeyA, d)) /\ VecL2NormSq(d) <= 4 * KAPPA * KAPPA * BETA_SQ
    BY <2>3, <2>5, InnerCollision
  <2>7. InnerRelation(o, p, i)
    BY <2>6 DEF InnerRelation, c, e, x, y
  <2>. QED BY <1>2, <2>7
<1>. QED BY <1>7, <1>8

(* Two accepted openings of one commitment to different messages give a     *)
(* short nonzero vector of the kernel of B, or of A, for every key, bound   *)
(* and shape: the reduction of binding to the two module-SIS problems.      *)
THEOREM OpeningsBind == OSpec => []Binding
<1>. QED BY AcceptedInit, AcceptedStep, AcceptedBinds, PTL DEF OSpec
=============================================================================
