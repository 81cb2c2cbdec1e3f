------------------------------ MODULE Committer ------------------------------
(***************************************************************************)
(* The committers of hachi/src/commit.rs.  Every form runs one job for     *)
(* each block (decompose, apply A, decompose again) and then the outer     *)
(* product.  The serial forms run them in order in one thread; with the    *)
(* parallel feature commit_streamed_32 leaves them to the workers of a     *)
(* pool, which claim and finish blocks in any order and write each result  *)
(* at the index of its block.                                              *)
(***************************************************************************)
EXTENDS Linalg

CONSTANTS
  KeyA, KeyB,
  Worker, Main,         \* the pool, and the thread of the serial forms
  Calls                 \* [form, parallel, blocks]

ASSUME CommitterAssumption == Main \in Worker

VARIABLES
  call,    \* the call being served
  job,     \* per worker: the block it holds, 0 for none, and its inner product
  slots,   \* the inner decompositions finished so far, by block
  kept,    \* the digits a Decomp keeps, by block
  ts, u    \* the result
cvars == <<call, job, slots, kept, ts, u>>

-----------------------------------------------------------------------------
Form(c)   == c.form
Blocks(c) == DOMAIN c.blocks
Parallel(c) == Form(c) = "streamed_32" /\ c.parallel
Pool(c)   == IF Parallel(c) THEN Worker ELSE {Main}
Keeps(c)  == Form(c) \in {"plain", "balanced"}

(* A raw word is reduced when read; a word the row does not have is zero.   *)
Expand(row) == Stored([p \in Coeff |-> IF p \in DOMAIN row THEN row[p] % Q ELSE 0])
BlockOf(c, i) ==
  IF Form(c) = "streamed_32" THEN StoredVec([r \in DOMAIN c.blocks[i] |-> Expand(c.blocks[i][r])])
                             ELSE c.blocks[i]
Decomposed(c, x) == Decompose(Form(c) = "balanced", x)
InnerOf(c, i)    == MatVec(KeyA, Decomposed(c, BlockOf(c, i)))

(* commit_with_decomps: the outer matrix on the concatenation.              *)
Outer(t) == MatVec(KeyB, FlattenBlocks(t))

Idle == [at |-> 0, inner |-> << >>]
Held == { job[w].at : w \in Worker }

-----------------------------------------------------------------------------
(* The pool takes any block nobody holds; a serial loop the next one.       *)
UnclaimedShort == (Blocks(call) \ {Len(call.blocks)}) \ (Held \cup DOMAIN slots)   \* mutant
Unclaimed == Blocks(call) \ (Held \cup DOMAIN slots)
InTurn(i) == Parallel(call) \/ \A k \in Unclaimed : i <= k

Claim(w) ==
  /\ w \in Pool(call) /\ job[w] = Idle
  /\ \E i \in Unclaimed : InTurn(i) /\ job' = [job EXCEPT ![w] = [at |-> i, inner |-> << >>]]
  /\ UNCHANGED <<call, slots, kept, ts, u>>

Apply(w) ==
  /\ job[w].at # 0 /\ job[w].inner = << >>
  /\ job' = [job EXCEPT ![w].inner = <<InnerOf(call, job[w].at)>>]
  /\ UNCHANGED <<call, slots, kept, ts, u>>

(* Written at the index of the block, whenever the block is finished.       *)
Pushed(s, i, t) == [k \in DOMAIN s \cup {Cardinality(DOMAIN s) + 1} |-> IF k \in DOMAIN s THEN s[k] ELSE t]   \* mutant
Placed(s, i, t) == [k \in DOMAIN s \cup {i} |-> IF k = i THEN t ELSE s[k]]
Store(w) ==
  /\ job[w].at # 0 /\ job[w].inner # << >>
  /\ slots' = Placed(slots, job[w].at, Decomposed(call, job[w].inner[1]))
  /\ kept' = IF Keeps(call) THEN Placed(kept, job[w].at, Decomposed(call, BlockOf(call, job[w].at))) ELSE kept
  /\ job' = [job EXCEPT ![w] = Idle]
  /\ UNCHANGED <<call, ts, u>>

Work(w) == Claim(w) \/ Apply(w) \/ Store(w)

(* The outer product, after the last block.                                 *)
Collect ==
  /\ u = << >> /\ DOMAIN slots = Blocks(call)
  /\ ts' = [i \in Blocks(call) |-> slots[i]]
  /\ u' = Outer(ts')
  /\ UNCHANGED <<call, job, slots, kept>>

-----------------------------------------------------------------------------
Init ==
  /\ call \in Calls
  /\ job = [w \in Worker |-> Idle]
  /\ slots = << >> /\ kept = << >>
  /\ ts = << >> /\ u = << >>
Next == Collect \/ \E w \in Worker : Work(w)
(* A thread that can go on does: the pool joins its workers.                *)
Fairness == WF_cvars(Collect) /\ \A w \in Worker : WF_cvars(Work(w))
Spec == Init /\ [][Next]_cvars /\ Fairness

Message(c) == [balanced |-> Form(c) = "balanced", blocks |-> [i \in Blocks(c) |-> BlockOf(c, i)]]
InnerDecomp(balanced, b) == Decompose(balanced, MatVec(KeyA, Decompose(balanced, b)))
Atomic == INSTANCE Commitment WITH
  MessageSet <- { Message(c) : c \in Calls }, msg <- Message(call)

(* Whatever order the blocks finish in, the call takes the one step of the  *)
(* serial committer (IndexedParallelIterator::collect).                     *)
CommitsAtomically == Atomic!Spec

(* Every call ends with a commitment: no block is lost, none waits for      *)
(* ever.                                                                    *)
Finishes == <>(u # << >>)
=============================================================================
