------------------------------ MODULE MCZFold -------------------------------
(* The z pass at N = 2, q = 17, b = 2: eight one-bit digits in two words,   *)
(* two rows, and a chunk of four passes, so that the third short block      *)
(* flushes mid-run.  Blocks are full, partial and over-long; challenges are *)
(* zero, signed, doubled and dense.                                         *)
EXTENDS ZFoldProps

LOCAL INSTANCE TLC

P(x, y) == (0 :> x) @@ (1 :> y)

MCBlocks == { <<P(13, 16), P(5, 10)>>, <<P(16, 7)>>, <<P(3, 15), P(1, 16), P(9, 9)>> }
MCChallenges == { P(0, 0), P(1, 16), P(0, 2), P(15, 0), P(3, 5) }
=============================================================================
