# TLA+ models of the Hachi commitment

Hachi (`src/hachi`) is a lattice polynomial commitment in Rust: a committer, an
evaluation prover and a verifier over the ring `Z_q[X]/(X^N + 1)` with
`q = 2^32 - 99`. It runs in one thread, except for one committer that hands its
blocks to a Rayon pool under the `parallel` feature. The program has no server,
no store and no clock. What is hard in it is elsewhere: fast paths with
deferred, packed, chunked or factored state that must compute exactly what a
simple reference computes, on schedules that small tests never reach; and an
interactive protocol whose prover and verifier thread the same statement
through separate code. The models are about those two things.

## 1. The system

### 1.1 Components

Paths are under `src/hachi/src`.

| Component | State it keeps | Operations | What makes it correct |
|---|---|---|---|
| Ring (`ring.rs`, `ntt.rs`) | prepared keys between calls; inside one, word accumulators per lane, recycled buffers and the raw words of a row | `Rq::mul`, `add`, `mul_short_add_into`, transforms, dot products | every product is the negacyclic one modulo q, no machine word wraps, no chunk outgrows its lanes |
| Gadgets (`gadget.rs`) | none | `digit_at`, `gadget_decompose`, `balanced_digit_at`, `bounded_z_gadget_decompose`, `gadget_mul`, `gadget_mul_z`, `gadget_transpose_mul` | digits lie in their box and recompose the value |
| Committer (`commit.rs`) | the inner decomposition of every block; under the `parallel` feature one Rayon job per block | `commit`, `commit_balanced`, `commit_streamed`, `commit_streamed_32`, `verify`, `verify_weak` | the block order is the input order, serial and parallel agree; accepted openings bind |
| z fold (`quadeval.rs`) | the accumulator; on lanes also packed words, a counter per row and a flush budget | `honest_z`, `honest_z_from_raw`, `honest_z_from_raw_32` | all three compute `z = sum_i c_i s_i` |
| Response (`quadeval.rs`) | none | `honest_compute_resp` and its raw forms | the digits of z recompose z, so the verifier's linear checks hold |
| QuadEval (`quadeval.rs`) | the claim, the carrier digits, the challenge and the response, between calls | `to_quad_eval_statement`, `carrier_commit`, `honest_compute_resp`, `rel_out` | an honest response to a true claim is in the relation |
| R^lin adapter (`quadeval.rs`, `ringswitch.rs`) | the matrix as blocks | `rlin_stmt`, `rlin_row`, stack and unstack, quotients over scaled groups | the linear statement says what the relation says, and one index layout serves both sides |
| Lift (`ringswitch.rs`) | the lifted witness: z and one quotient per row | `honest_lift_witness`, `lift_commit`, `lift_short` | `M z = y + (X^N + 1) rho` over polynomials |
| Tables (`zerocheck.rs`, `ringswitch.rs`) | the witness table; the public table as two factors | `w_table_row`, `alpha_public_table`, `alpha_public_mle_eval` | the closed form of the verifier is the extension of the prover's table |
| Round prover (`sumcheck.rs`) | base table, folded table, two factors; 128-bit lanes inside a round | `honest_round_messages`, `round_poly_zero` | the message is the sum of the summand over the rest of the cube |
| Verifier (`sumcheck.rs`, `endpiece.rs`, `chain.rs`) | prefix of challenges, two running targets | `round_check`, `round_out`, `round_verify_loop`, `final_check`, `end_piece_check` | acceptance means what the protocol claims |
| Chain (`chain.rs`) | the statement between rows, on each side | `chain_open`, `chain_verify` | an honest run of a solution is accepted, a false one is not, except by luck |
| Evaluation split (`evalsplit.rs`) | none | reindexing of an evaluation claim | the two vectors recompose the point |
| Containers (`linalg.rs`) | vectors and matrices | access, products, prepared matrices | none of their own |
| Parameters (`params.rs`, `lib.rs`) | literals | none | the relations between them that the code relies on |

Outside the crate's own logic: the Lean development (`hachi/lean`), the frozen
copies and timing harness (`hachi/benches`), and `hachi-jazz`, a rejected
experiment. `PROJECT.json` lists every component with what is covered.

### 1.2 How they interact

Everything is a direct call with values; there is no shared mutable state
between components and no callback. Four interactions matter.

* The committer's parallel form runs one closure per block on the workers of a
  pool and joins them; the results are collected by index.
* Every component above the ring reaches it through a dot product, which picks
  lanes, chunk length and load by what the operand is promised to be: any word,
  an unsigned digit, a raw word, or centred within a bound.
* The committer's message is read again by the z fold, block by block, with one
  challenge per block. Short challenges (1-norm at most `OMEGA`) take the fast
  path, all others the ring product. Blocks of the two kinds may alternate.
* Prover and verifier exchange a commitment, a claim, a carrier commitment and a
  folding challenge; the response stays with the prover and becomes the witness
  of a linear statement that both sides build. Then they exchange a commitment
  to the lifted witness, one pair of polynomials per
  round against one challenge, then a claimed evaluation, then the witness in
  the clear. Neither sees the other's tables.

### 1.3 What is hard to test here

1. A 16-bit lane that carries into its neighbour, or a slot of a deferred
   buffer that wraps. At the real constants the flush fires every 127 blocks
   and the inner reduction of the buffer never.
2. Per-row counters, and three places one value lives in at once.
3. Numeric edges: a shift that wraps the field, a sign that flips where
   `X^N = -1`, five digits where a full decomposition has eight.
4. Fast paths gated by table size (2048 and 2^21 pairs) and alphabet.
5. Order of variables: which factor is folded first, which end of the point a
   factor takes, which bit of the index a kernel coordinate is.
6. The verifier on messages no honest prover sends, and openings no honest
   committer makes.
7. Dot products on residues: a chunk one term too long, an operand that breaks
   the promise its lane relies on, or a buffer, a key offset or a loaded word
   that belongs to another term gives a plausible wrong sum.
8. 128-bit lanes that wrap after 2^61 pairs without a flush that at the
   real sizes never fires.
9. Workers of a pool that finish in any order.
10. Two digit counts and two index orders in one linear statement, and a
    quotient that takes a group of entries for multiples of its first.

Each is a row of `hazards` in `PROJECT.json`, at its line.

## 2. Modules

    Negacyclic   coefficients, the negacyclic product, sources and signs of a pass
      Gadget     columns, digits, decomposition
        BalancedGadget, BoundedGadget   balanced digits, and the digits of z
        HonestZ      the abstract fold
          ZResponse   the fold, then its bounded digits
        ModArith     word arithmetic and reconstruction
          Transform  tables, radix-2 and radix-4 stages
            Dot                      the fused dot products
        Linalg     vectors, matrices, decompositions, norms
          Commitment                 the committer in one step
          Committer                  serial loop and worker pool
            Opening, OpeningProofs   weak openings and their verifier
          EvalSplit  the split of an evaluation
          Rlin       the linear statement by blocks, its quotients
            QuadEval, QuadEvalProofs  claim, carrier, response, relation
        LaneFlush    accumulation lanes and their flush
        Lanes, ZFold, ZFoldProps, ZFoldProofs          fold on packed lanes
        ColumnFold, ColumnFoldProofs                   fold on a deferred buffer
        Multilinear  tables, kernels, coefficient vectors
          RangeCheck   range polynomial, Taylor shift, buckets
            RingSwitch   lift, tables, commitment
              RoundProver  the prover's loop
                Chain, ChainProofs   prover against verifier
    RoundVerify, RoundVerifyProps, RoundVerifyProofs   the verifier alone
    GadgetProofs   lemmas on sums, digits, passes, the ring and its norms
    WordProofs     word arithmetic, reconstruction, accumulation lanes, response

`MC*` modules only give constants their values.

### 2.1 The z fold on lanes (`ZFold`, `quadeval.rs` 480-877)

`zp` is the packed accumulator, `cnt` the per-row pass counters, `left` what the
schedule still allows before a flush, `acc` the field accumulator. `StartShort`
is the head of a block with a short challenge, including the flush it may force;
`Pass` is one unit pass of `z_pass_lanes` over one row (a coefficient of
magnitude m makes m passes); `EndRow` and `EndShort` are the counter update and
the end of the block; `Dense` is the fallback, with the out-of-range access of a
block that misses rows as `pc = "panic"`; `Finish` is the merge. Lane arithmetic
is modulo the word size and nothing in the actions says that a lane does not
carry: that is `LanesHold`.

The passes of a challenge are taken coefficient by coefficient, as the loops of
the code take them.

### 2.2 The z fold on a buffer (`ColumnFold`, `quadeval.rs` 340-460, `ring.rs` 480-640)

`buf` is the unreduced copy of the column being folded, `left` the passes until
it is reduced. `Load`, `Pass` and `Store` are `mul_short_add_into`.

### 2.3 The abstract fold (`HonestZ`) and the response (`ZResponse`)

`HonestZ!AddBlock` adds one block times its challenge. Both fast paths are
checked to implement it, under the mapping that takes the passes of an
unfinished block back out of the accumulated value: the block counts when it is
complete. `ZResponse` adds the decomposition into `Z_DIGITS` digits to it.

### 2.4 The verifier (`RoundVerify`)

`Pass`/`Fail` are an iteration of `round_verify_loop`; `Decide` is `final_check`
and `end_piece_check`. Messages are arbitrary. The field, the polynomials, the
closed forms and the witness table are parameters, about which
`VerifierAssumption` only says that values lie in the field. `RoundVerifyProps`
adds `CubeSum`, the true claim after a prefix of challenges, of which
`SumAssumption` says that it splits over its first coordinate and ends in the
closed form. Nothing is assumed about degrees or sizes.

### 2.5 The chain (`RoundProver`, `Chain`)

The prover's four tables are the program's: the base table of round 0 (kept
through round 1), the current table, and the low and high factor of the public
table. `HonestG` is `honest_compute_g` with its base, first-fold and split
forms; `ProverFold` folds one coordinate. `Chain` runs them against an instance
of `RoundVerify` at a prime field, with `CubeSum` the actual sum over the cube.
`FinalExact` is the part of `SumAssumption` that is about the code: the closed
form of the final check is the fully drawn summand. With the other part (a sum
splits over its first coordinate) it makes the theorems of `RoundVerify` hold of
the chain, see section 4; `Soundness` is also checked for these concrete sums.
`SolutionClaims` relates what the rounds start from to the
relation they stand for, the blocks `HZero` and `HAlpha` that `chain.rs` says no
verifier evaluates: each initial claim is off by exactly its block, extended to
the batching point, for every witness, and both blocks vanish on the lift of a
solution. The wire may leave a message alone, change it so that it still passes
("mend"), add a polynomial that vanishes at zero and one ("bend"), or break it
("spoil").

### 2.6 Dot products (`Dot`, over `ModArith` and `Transform`)

One module for the whole family (`ring.rs` 640-1931, `ringswitch.rs` 200-420):
`dot_fused`, the prepared forms with three, two and one lane, the digit forms,
the form on raw words, the form on two limbs, and the commitment row. Their
loops are the same: `Prepare` transforms the key once; `FusedTerm`,
`PreparedTerm`, `GoldTerm` and `LiftTerm` load and transform one term and
multiply it into the accumulators `accs`; `EndLane` inverts a lane and adds its
offset, one per term; `EndChunk` reconstructs from the residues and adds to the
sum. `GenericTerm` is the row a wide or long witness falls back to, one
`Rq::mul` at a time. `cur`, `tmp` and `spare` are the buffers handed from term to
term, `words` the raw words loaded at the first digit of a row. The transforms
are the program's stage by stage (a stage fills the buffer it is given, so what
a recycled buffer held is part of the model), including the radix-4 stages that
absorb the first twist, the digit table and the last multiplication.
`AuxReduce` and `GoldReduce` are the reductions of the two kinds of lane;
`MulMod` is a product through either, which is what `AuxReduceExact` and
`GoldReduceExact` prove and the run evaluates on every product of two words.

### 2.7 The lanes of the range side (`LaneFlush`, `sumcheck.rs` 258-565)

`lanes` are the four words per coefficient, counting modulo the word size;
`since` the pairs since the last flush. `Accumulate` is `shift_accum_lanes` and
the flush it may force, `Skip` the guard for a pair of zeros, `Finish` is
`lanes_to_coeffs`. `RawMul` is the unreduced product of `ext4_mul_raw` over
`Y^4 = 2`. The reference is the range polynomial multiplied out.

### 2.8 The committer (`Commitment`, `Committer`, `Opening`)

A job claims a block (`Claim`), applies A to its digits (`Apply`) and stores the
second decomposition at the block's index (`Store`); `Collect` is the outer
product after the last block. The serial forms are the same jobs of one thread
taken in turn. `Commitment` is the committer in one step, over any functions;
`Committer` implements it with `msg` the message the call denotes. `Opening`
adds a verifier that is shown openings: `Show` runs `verify_weak`.

### 2.9 Evaluation and linear statement (`EvalSplit`, `Rlin`, `QuadEval`)

`QuadEval` runs commit, claim, carrier commitment, challenge and response, with
digits of either kind, a claim that may be false and a response or a block of
the statement that may be altered. `EvalSplit` and `Rlin` are its operators: the
reshaped matrix between two bases; the rows of the relation, written out
(`RlinRow`) and as borrowed blocks (`Entry`); the stack; and the quotient of a
row, dense and over groups.

### 2.10 Abstractions

* In the chain the base field and its quartic extension are one prime field:
  what the chain does with challenges uses field operations only. `AlphaMle` and
  the base-field forms keep their own control. `LaneFlush` has the extension.
* Coefficient vectors are not trimmed of leading zeros; only their values are
  read.
* The bucket tables hold `DIGIT_ALPHABET^2` and `^4` types; the program pads
  them to `PAIR_TYPES` and `QUAD_TYPES` with entries nothing is added to.
* `RangeCheck` sums exactly; that the lanes it sums on do not wrap is
  `LaneFlush`. Likewise `NegMul` and `Linalg!Dot` are exact products, and that
  the transforms compute them is `Dot`. A composition would check nothing more:
  each is a pure function of its operands.
* The matrix is dense in the chain; its blocks are `Rlin`.
* A machine word inside a lane is a number: that intermediate words fit 64 or
  128 bits is arithmetic on the constants, and the invariants bound the values
  (`TypeOK` of `Dot`, `IInv` of `WordProofs`).
* The verifier's bound conjunct is kept as a parameter of the statement.

## 3. What the runs check

| Run | Distinct states | Question |
|---|---|---|
| `zfold` | 8 373 | Is packing invisible? |
| `zfold_total` | violated | Is the packed fold total, as documented? It is not. |
| `columnfold` | 2 761 | Is the deferred reduction invisible? |
| `zresponse` | 436 | How large is z, and do its digits recompose it? |
| `zresponse_short` | violated | Is z within `Z_BOUND`, as documented? It is not. |
| `roundverify` | 226 298 | What does acceptance mean against arbitrary messages? |
| `chain` | 13 070 | Do prover and verifier agree, and is every run decided? |
| `dotlanes` | 5 114 | Are chunked dot products on auxiliary lanes exact at their ceiling? |
| `dotgold` | 740 | Are the one-lane forms and their fallbacks exact, and do recycled buffers leave nothing behind? |
| `opening` | 1 330 | Does the pool make the commitment of the serial loop, always end, and bind? |
| `quadeval` | 1 332 | Do split, relation, linear statement and quotients say the same thing? |
| `laneflush` | 4 492 | Do the accumulation lanes stay exact across flushes? |

**zfold.** `N = 2, q = 17, b = 2`, eight digits in two words of four lanes of
size 13, two rows, three blocks, `OMEGA = 2`, `Z_LANE_CHUNK = 5`: four passes,
which is two short blocks, so the third flushes mid-run with counters of both rows live.
Blocks are full, partial and over-long; challenges are zero, signed, of
magnitude two, and dense, so every disjunct is taken in every order. Lane size 13
is the least unit the assumption `(2b - 1)(chunk - 1) < unit` admits here: one
extra pass would carry. `LanesHold` and `ChargeCoversPasses` are the schedule's
claims; `ExactPasses` says of each step what it does to the value the three
places hold together; `ImplementsHonestZ` is the refinement.

**columnfold.** `q = 5`, three digits, two rows, `SHORT_CHUNK = 2` against
`OMEGA = 3` so that the inner reduction fires, with the word 15, the least the
bound `(SHORT_CHUNK + 1) q` allows. The real constants make the reduction
unreachable from the protocol, which is why it deserves the model.

**zresponse.** `q = 61, b = 4`, three digits of capacity 21 over two blocks with
`OMEGA = 2`: the documented bound is 8, the unsigned sum reaches 12 and three
digits hold -42 .. 21, in the same order as in the program (131072, 245760,
-559240 .. 489335).

**roundverify.** Field F_3, two rounds, every pair of messages with `g(0)` in
`{0, 1}` (a function on F_3 is a polynomial of degree two, as the linear side's
messages are), every challenge, every closing. Two witnesses of which one opens
the commitment, two linear targets. Two rounds are enough for each of: a lie in
the first round, a lie in a later round, luck in either.

**chain.** F_5, `N = 2, b = 2`, two rows and one column of the matrix, sixteen
table entries of which fourteen are used: one row of padding and every kind of
row the table has. Both bucket thresholds are reached, by tables inside the
alphabet and by one outside it, for which the program falls back.
`alpha` is 4, 1 or 0: at 2 and 3 the modulus `X^2 + 1` vanishes and the quotient
would not matter. Four provers (a solution; the same with a wrong quotient; a
short non-solution; a long one), three statements, two challenges per round, four
tamperings in every round, a true and a false evaluation, any witness in the
clear. The row weights have one, two and no variables: two rows on a cube of
two, of four (padded) and of one (a row past the cube, which must weigh zero in
the table, the target and the closed form alike). Acceptance of an honest solution, acceptance by luck, rejection in a
round and at each closing test all occur.

**dotlanes.** `N = 4, q = 257, b = 2`. The primes 97, 113, 137 and the Goldilocks
prime 12433 = 112 * 112 - 112 + 1 satisfy the code's own inequality
(`2 L N q^2 < p1 p2 p3`, and its forms for one Goldilocks and one auxiliary lane
and for digits) for two terms of a chunk and not for three, as 12468 and 3332
are the ceilings of the real constants. One to five terms make one to three
chunks, the last one short; operands are all `q - 1` or mixed in every pattern,
so an extra term per chunk is off by a multiple of the product.

**dotgold.** `N = 64, q = 13, b = 4`, three radix-4 stages, so that the twisted
first, the plain middle and the multiplying last stage are different stages, as
at N = 1024. The lane holds four digit or limb terms; five limb terms make a
second chunk. Raw rows are short and hold unreduced words. Commitment rows are
short, of an edge coefficient, too long in a coefficient, and too wide for the
lane.

**opening.** Three workers, four blocks of different lengths, so a worker may
finish before, after or between the others and one may do everything. `q = 31,
N = 2, b = 2`, five digits; both keys repeat a column, so short kernel vectors
exist and openings of different messages are indeed accepted: by a collision
under A, by one under B, and under a challenge that alone makes a vector short.
Zero and long challenges are among the candidates. Bounds are tight enough that
honest digits of either kind just pass.

**quadeval.** `q = 251, N = 4, b = 4`, four digits and three z digits, two blocks
of two rows and two inner rows: six rows of 48 columns, no two of the three
bands equal. Both digit kinds and the raw form; a polynomial of maximal
coefficients; units, and a challenge of norm two. Responses are altered in each
part; blocks of the statement are altered within a group (which is then no
scaled group), and cut in the middle of one.

**laneflush.** `q = 5, b = 2`, sixteen lanes modulo 256: two pairs of the largest
products fit, three do not. Up to four pairs of five kinds, zero pairs anywhere,
so a table passes the flush twice. `b = 2` has the whole structure of the shift
table (two odd rows); the program's table for `b = 16` is data.

### 3.1 Fairness

`Finishes` assumes weak fairness of every worker's next step and of `Collect`:
a pool runs each of its jobs to its end and joins them before the call goes on,
and a serial loop never waits. Nothing is assumed about who claims a block.

`Decides` needs fairness of the verifier. `chain_verify` is a loop over finite lists that runs
without waiting on anyone, so a step that can be taken is taken: weak fairness of
`Next`. `FairSpec` writes it with the guards of the loop and of the closing
checks in place of `ENABLED`, which is the same because a message, a challenge
and a closing always exist and every step changes `msgs` or `closing`. No
fairness among the alternatives is assumed: the messages may be tampered with
forever.

### 3.2 Deadlock

Every run ends (`done`, `panic`, a verdict, a response made), so the
configurations turn the deadlock check off. For the chain `Decides` stands in
for it, and for the committer `Finishes`. For the folds a run that got stuck before `done` would be a flaw of the
model rather than of a loop over a finite range.

### 3.3 Findings

* `honest_z_from_raw_32` is documented as total for any challenge, partial
  blocks included; its dense branch indexes every column of a decomposition
  that a partial block does not have (`zfold_total`). The protocol never sends
  a partial block.
* `params.rs` derives `Z_BOUND` for balanced digits and calls the honest z
  deterministically short; the provers that stream a raw message fold unsigned
  digits and pass it (`zresponse_short`). Nothing breaks: five digits
  hold the larger value, which is what `Recomposes` shows.

### 3.4 What each property would catch

Each property of a passing run has at least one mutant in `PROJECT.json`, a
definition of the model changed as a plausible bug would change the code (a
skipped flush, a dropped bias, a sign that does not flip, a target taken at the
wrong point, a factor folded in the wrong order, a chunk one term too long, a
result pushed instead of placed), under which the run finds the
property violated.

## 4. What is proved

All proofs are for every value of the constants that satisfies the named
assumptions.

**`GadgetProofs`.** What the folds and the response share. Sums over a finite set
are `SumFunction` of the community modules, recursive functions rather than
recursive operators, so they can be reasoned about: `NaturalInduction` and
`SubsetInduction` are induction written over a *set* of numbers or of subsets
(which needs no operator parameter), and from them come the laws of a sum
(`SumAdd`, `SumRemove`, `SumDisjoint`, `SumModEqual`, `SumBound`, ...). On these
rest `DigitsExact` (the digits of a number recompose it once they reach past it)
and `UnitPassesExact` (the unit passes of an element, with source and sign as the
fast paths take them, add up to the schoolbook product).

The same module has the laws of the ring that `Binding` and the relation need,
all from the definition of the product as a sum of signed coefficients: it
commutes and associates (`ProductCommutes`, `ProductAssociates`), distributes over
sums, differences and multiples (`ProductOfSum`, `ProductOfDifference`,
`ProductOfMultiple`), and so do dot products and matrix products. The bookkeeping
is exchange and re-indexing of sums (`SumExchange`, `SumReindex`, with
`ShiftIsBijection`: the sources of one coefficient run through all of them).
Norms: the 2-norm of a product is at most the 1-norm of one factor times the
2-norm of the other (`ProductNorm`, which is Cauchy's inequality with weights,
`WeightedSquare`), the norms of a difference, and those of vectors. Finally what
decompositions give: `BalancedExact` and `BoundedExact` for a word, `Recomposition`
and `DecomposedSmall` for a vector of any length.

**`ZFoldProofs`.** `TypeCorrect`, `ChargeCorrect`, `LanesCorrect`, `ExactCorrect`,
`RefinesHonestZ`.
The inductive invariant is `TypeOK /\ ChargeCoversPasses /\ LanesHold`. The
charge is needed because lanes alone do not say how many passes may still come:
`ChargeCoversPasses` bounds the passes a row has seen by what was charged since
the flush, and bounds the counters of the rows still to come in the block.
`LanesHold` then follows from the packing lemmas of the same module
(`LaneOfPack`, `PackOfLanes`, `LaneAdd`: addition of words is addition of lanes
when no lane passes its unit), and the unit is large enough by
`ScheduleAssumption`. `ExactCorrect` needs all three: a flush decodes a lane
minus the bias of the row's passes and must not wrap below zero. Assumptions:
`RingAssumption`, `GadgetAssumption`, `LaneUnitAssumption`, `LaneAssumption`,
`ScheduleAssumption`, `InputAssumption`; the real constants satisfy them
(16-bit lanes, `31 * 2047 < 2^16`, `16 * 2047 <= q`).

`RefinesHonestZ` is the refinement of `HonestZ`, for every message, challenge and
interleaving of short, dense, partial and over-long blocks. A pass is a stutter:
`ExactCorrect` says what it adds to a column and `SumAdd` that the passes taken
back out grow by the same. The end of a block takes nothing back out any more,
and by `UnitPassesExact` what is left is the product with the challenge. The
panic of a partial block is a stutter. The dense branch calls `Rq::mul`,
which these modules leave as a parameter, so the theorem has the hypothesis that
it is the schoolbook product; that the transforms make it so is `Dot`.

**`ColumnFoldProofs`.** `TypeCorrect`, `BufferCorrect`, `ExactCorrect`, from
`TypeOK /\ BufferBounded`, and `RefinesHonestZ` along the same lines as above
(here the passes are taken column by column, and a panic may leave some columns
of a block passed and others not). `BufferBounded` is inductive with the type invariant:
a pass adds at most q and takes one from `left`. Assumption `BufferAssumption`
is `(SHORT_CHUNK + 1) q <= 2^64`.

**`RoundVerifyProofs`.** `TypeCorrect`, `SoundnessCorrect`,
`CompletenessCorrect`, `FirstRoundCorrect`. `Soundness` is not inductive: it only
speaks of accepting states. `SoundInv` says, during the rounds, that for every
witness and side the claim is true, or the current target differs from the
true sum at the challenges drawn, or some round was lucky; a passed round keeps
it because a false claim splits into two sums of which one is false.
`AcceptInv` keeps what the closing checks established. `HonestInv` says that
honest messages keep the target equal to the true sum, `RejectInv` that a
rejection is either at a round whose check failed or at a closing check that
did. The proofs use `VerifierAssumption` and `SumAssumption` only, so they hold for
any field, degree and number of rounds.

**`OpeningProofs`.** `SlotsCorrect`, `RefinesCommitment`: for every pool, key,
message and form, the committers implement `Commitment`. The invariant is that a
worker holds no block or one of the call with its own product, that every
stored slot, and the digits kept with it, are what the block of its index gives,
and that a finished result is the outer product of them all. `Claim`, `Apply` and `Store`
map to stutters, `Collect` to the one step, because it waits for all blocks.
That no block is done twice is not needed: a second result would be the same.

`HonestOpens`: completeness of the weak opening. In a finished state the invariant
gives the three parts of the honest opening; each check of `verify_weak` is then
a lemma. `Recomposition` says that `gadget_mul` undoes the decomposition of a vector of
any length, with digits of either kind (`DigitsExact` of `GadgetProofs`, and
`BalancedExact`, for which the shift may wrap in the field and which needs only
`q <= b^GADGET_DIGITS`): this makes the message the derived one, and the inner
equation true. A challenge of one has norm one and changes nothing (`OneNorm`,
`OneTimes`), and digits are below the base or within half of it, so that the two
norms keep to `RoomAssumption` (`TwoSmall`, `InftySmall`). `RoomAssumption` is what
the bounds must leave room for: a challenge of one, `b - 1 <= GAMMA`
(`15 <= 16`), and a whole block of digits `b - 1` below `BETA_SQ`.
`OpeningAssumption` is that keys and messages have canonical elements and messages full
blocks: `derived_message` recomposes `MESSAGE_ROWS` rows of every block, so no other
message could come back. Raw words are reduced when read, and are no part of it. `Show`
leaves the committer alone, so the invariant holds under it.

`OpeningsBind`: the reduction of binding, for every set of openings, honest or
not. `AcceptedOK` (only candidates that `verify_weak` passes are accepted) is the
invariant; the rest is about two such openings that show different messages. If
the flattened inner digits differ, their difference is a nonzero vector that B
maps to zero, within twice the bound (`OuterCollision`). If they agree, so do the
blocks (`FlattenInjective` needs that they have the shape of the scheme,
`ShapeAssumption`), some block differs in its message digits, and A maps both to
one image; scaled by both challenges the difference is still in the kernel
(`KernelOfDifference`), its norm is at most `4 KAPPA^2 BETA_SQ` because the
bound of `verify_weak` is on the block scaled by its own challenge and the other
challenge costs at most KAPPA (`ShortScaled`), and it is not zero because
short nonzero challenges are units (`UnitProduct`). That last fact is number theory of
the field (`q % 8 = 5`, `KAPPA^2 < q`, cited in `commit.rs`) and is assumed, as
`UnitAssumption`; TLC checks it at the run's constants.

**`QuadEvalProofs`.** `ClaimCorrect`: the split of an evaluation, for every number of
low and high variables and both bases. The code builds a basis by doubling and
reads a matrix between two bases; the reference takes each entry times one factor
per index bit. `BasisIs` says that entry k of a basis is the product of the factors
chosen by the bits of k: the doubling puts a coordinate where the next bit is set
(`TopBit`) and leaves the bits below alone (`BitLow`). Index `y + 2^n x` has the
bits of the row y and then those of the column x (`BitLow`, `BitHigh`), so its
factors are those of both (`FactorsJoin`, from `ProductInParts`); summing a matrix by
rows or by index is `FoldExchange` and `GridSum`. `MatrixBack` is the way back to
the polynomial. The claim is this value because `ClaimInv`, below, says that a
statement is the polynomial's, with a lie added.

`HonestAccepted`: completeness of the first round, from the
claim to `rel_out`. The invariant says of every value the actions hand on what
it is a function of: the commitment of the polynomial (`CommitInv`), the statement
of the polynomial, the point and the lie (`ClaimInv`), the carrier of the
message (`CarrierInv`), one short challenge per block (`FoldInv`), and the
response as an altered honest one (`RespInv`). It is needed because the relation only reads
the statement and the response, while it holds for what they were made
from; TLC checks it on the run's instance too. Each equation of `rel_out` is then an
exchange of sums. The value is `b . (a-folded message)` by `ValueIs`; the two
equations in the challenge say that folding over the blocks and applying
`gadget_mul` or a key commute (`GadgetOfFolded`, `DotOfFolded`, from `FoldExchange` and
associativity), with `Recomposition` under the carrier and the inner digits and
`BoundedRecomposition` under z. The latter needs that every coefficient of z is
within `MaxFolded` (`FoldedShort`, from `ShortProduct`), the bound for unsigned
digits, so it holds for both kinds. That balanced parts are in the
box of `paper_rel_out` is `BoxInSb`, and that the box is within the bound is
`SbBelow`, for altered responses too. `SplitAssumption` is the shape of the scheme
(`2^ML_VARS_LOW = BLOCKS`, `2^ML_VARS_HIGH = MESSAGE_ROWS`, short challenges, values
over the ring); `BoundAssumption` is `MaxFolded = 245760 <= 559240`, the sum of
both below `16^5`, `CHAIN_GAMMA = 15 >= b - 1` and `SB_HI = 7` between `b/2 - 1` and
`CHAIN_GAMMA`.

**`WordProofs`.** Arithmetic that the runs evaluate at small primes, for all:
conditional addition and subtraction, the reduction by a truncated reciprocal
(one correction is enough for `x` below the scale), the Goldilocks folding for
any half word (the first subtraction gets a low word that may exceed the modulus
and is exact all the same), and the three reconstructions, which return any
value below the product of the moduli from its residues. They assume that the
inverses are inverses and that the first prime is not the largest, as it is not
in the code; nothing needs the moduli to be prime.

`BoundCorrect`, `ExactCorrect`: the accumulation lanes of `LaneFlush`. `ExactPairs` needs that no
addition wraps, which no single lane shows: `IInv` says that a lane is at most
`q - 1` plus seven products `(q - 1)^2` per pair since the last flush, and that
`since` stays below the period. It is inductive because a flush leaves less than
q and a skipped pair changes neither side. `PeriodAssumption` is that a whole
period fits the word; `2^31 * 7 (q - 1)^2 + q < 2^98` against 128 bits at the real
constants. `TableAssumption` says that the literal shift table is that of the
range polynomial: TLC evaluates it, the proof does not derive it.

`TypeCorrect`, `UnsignedBounded`, `ResponseRecomposes`: everything the run
checks of the response (`ZResponse`). `UnsignedBounded` is by induction on
the blocks: a coefficient of a digit block times a short challenge is a sum over
the challenge of magnitudes times digits below b (`ShortProduct`), and magnitudes
add (`MagnitudeAdd`: a sum that wraps is closer to zero, not further).
`Responded` says that a response is the digits of the complete sum; with
`RoomAssumption` the bound leaves room for the shift on both sides, and
`BoundedExact` gives the recomposition. `RoomAssumption` is what five digits have
to do with the parameters: `1024 * 16 * 15 = 245760 <= 559240`, and both together
below `16^5`. `Z_BOUND` does not occur in it, and the theorem holds for sums past
it.

**`ChainProofs`.** `ChainRefines`: a run of the chain is a run of the verifier of
`RoundVerify`, with `CubeSum` for the claims and nothing assumed of it. The two
facts `RoundVerifyProps` asks of a sum are lemmas here. `ClaimSplits`: substituting
a coordinate in a table is taking the layer (`BoundLayer`), the bits of a cube
index shift by one (`BitShift`), so the sums at zero and at one are the even and
the odd part of the sum (`SumParity`). `ClaimWhole`: when every coordinate is
drawn one cell of the cube is left, the equality kernel is the product of its
factors, the witness entry is its multilinear extension and the public table the
product of a low and a high one. The step is then: `V!Pass` and
`ProverFold` together are `W!Pass`, and so on; what the prover does to its own
tables never changes what the verifier sees except through the message.

The other half of the theorem is the prover's invariant, `ProverInv`: the base table
is the witness's, the current table is the witness table with the challenges
substituted, and the two factors of the public table multiply to the
public table with the challenges substituted, where either the low factor is used
up or the high one is still whole. The last part is what `TablesExact` lacks to be
inductive: which factor a round folds depends on how many rounds have passed, and
folding the high one is only right when the low one is a single entry
(`FoldLowFactor`, `FoldHighFactor`). The first rounds keep the base table instead of
folding it, and the message of round 1 reads both.

`TablesCorrect` and `FinalCorrect` follow from `ProverInv` (the latter with
`ClaimWhole`), `ChainTypes` from it and the verifier's `TypeCorrect`, and
`ChainSound` from the verifier's `SoundnessCorrect` by the refinement. They hold
for every ring, matrix, table size, witness, statement and tampering. Powers and
coordinate vectors are recursive functions here, and what is proved of them is
proved by induction over sets of naturals (`PowersAre`, `StepsExist`).

`SolutionCorrect` is about what the rounds start from. The range claim is the sum
of kernel entries times table entries, which is the extension of `HZero`
(`RangeClaim`). The alpha claim is summed three ways: by cells, by columns
(`ClaimByColumns`: the powers of alpha in a row of the table evaluate it at alpha)
and by rows of the statement (`ClaimByRows`), so that it differs from the target by
the weighted defects (`AlphaClaim`). That a solution has no defect
(`SolutionDefect`) is the identity behind the lift: the product of two ring
elements at alpha is the reduced product plus `alpha^N + 1` times its high half
(`ProductAt`), so the columns of z of a row come to `y_i + (alpha^N + 1) rho_i`
(`ZColumnsAt`, `RowSumsAt`), and the digit columns, which recompose the quotient,
take the second part back (`DigitColumnsAt`). Its entries are short because balanced
digits are (`SolutionShort`), and a short entry is a root of the range polynomial
(`RangeVanishes`). `SolutionIsAccepted` follows with the verifier's
`CompletenessCorrect` by the refinement: an extension of zeros is zero, so both
claims are true (`SolutionTrue`).

Assumptions: `ChainAssumption` and
`LiftAssumption` are the shapes of inputs; `LiftAssumption` places the bound of the
shortness test between `b/2` and `b - 1` (`params.rs` pins `b - 1`, because the
honest quotient digits reach `b/2`), and `BoundAssumption`, used for acceptance only,
says that the bound in the statement is not below the one compared with it
(`chain_verify` uses one gamma for both). `RangeAssumption` says that the literal
coefficients of the range polynomial are that polynomial, which TLC evaluates.
Nothing needs the modulus to be prime.

**Only model-checked.**

* The messages of the honest prover (`MessageExact` of `Chain`): the bucketed
  Taylor shift is the binomial theorem over a literal table. `SolutionAccepted` is
  about honest messages whoever computes them; that the prover's are honest is this
  property.
* That the transforms multiply (`LaneExact`, `DotExact`, `TypeOK` of `Dot`): this is
  the theory of the number-theoretic transform, roots of unity included.
* The adapter and the quotients (`AdapterExact`, `QuotientExact` of `QuadEval`):
  their rows are bands joined with `FoldLeft` and chosen with CASE, which the
  provers do not see through.
* Liveness (`Finishes`, `Decides`), which this prover does not do.

## 5. What is not modelled

* Rows 1 to 3 and rows 4 to 9 of the chain are checked apart. They meet in the
  linear statement: `QuadEval` shows that the statement says what the relation
  says, `Chain` starts from any statement, solved or not. One instance of both
  would need a field large enough for the digits and small enough for every
  table, and would not add an interaction: nothing of the first half is read
  again later but that statement and its witness.
* The literals of `params.rs`, apart from the relations between them that the
  modules assume, and the literal roots and inverses of `ntt.rs`.
* The Lean development is another verification of the same sources; the frozen
  copies under `benches`, the harness and `hachi-jazz` are not part of the
  program.
* The probability that a challenge is lucky is not a property of behaviours:
  the models say when luck is needed, not how rare it is. That short kernel
  vectors are hard to find is the assumption `Binding` reduces to.

## 6. Plan

Done: every component of section 2 modelled and checked; the folds, their
refinement of the abstract fold, the response, the verifier, that the chain implements
it, is sound and accepts honest messages over a solution, the accumulation lanes, the committer, its openings and their
binding, the evaluation split, completeness of the output relation, and the word
arithmetic proved. Left, most important first:

1. That the honest message is the sum (`MessageExact`): with `SolutionAccepted`, the
   completeness of the chain.
2. That the linear statement says what the relation says (`AdapterExact`): the ring
   laws it rests on are proved, the index arithmetic of its bands is not.
3. That the transforms multiply.
