---------------------------- MODULE MCZResponse -----------------------------
(* Two blocks over F_61 with b = 4: Z_BOUND is 8, the unsigned sum reaches  *)
(* 12, three balanced digits hold 21.                                       *)
EXTENDS ZResponse
LOCAL INSTANCE TLC

P(x, y) == (0 :> x) @@ (1 :> y)

MCBlocks == { <<P(15, 60)>>, <<P(7, 33)>>, <<P(58, 0)>>, << >>, <<P(21, 42), P(3, 3)>> }
MCChallenges == { P(0, 0), P(1, 60), P(2, 0), P(0, 59), P(60, 60), P(1, 1) }
=============================================================================
