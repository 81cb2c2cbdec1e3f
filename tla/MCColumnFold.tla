---------------------------- MODULE MCColumnFold ----------------------------
(* The streamed fold at N = 2, q = 5, b = 2, three digits and two rows: six *)
(* columns.  A chunk of two passes against a budget of three makes the      *)
(* inner reduction fire.                                                    *)
EXTENDS ColumnFold

LOCAL INSTANCE TLC

P(x, y) == (0 :> x) @@ (1 :> y)

MCBlocks == { <<P(3, 4), P(1, 2)>>, <<P(4, 0)>>, <<P(2, 3), P(4, 1), P(1, 1)>> }
MCChallenges == { P(0, 0), P(1, 3), P(4, 1), P(3, 4), P(2, 2) }
=============================================================================
