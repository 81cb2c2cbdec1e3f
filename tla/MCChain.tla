------------------------------- MODULE MCChain -------------------------------
(* Two rows and one column over F_5 with b = 2 and three digits: seven rows *)
(* of the table, fourteen of its sixteen entries, one row of padding.  The  *)
(* openings are a solution, a short z that solves nothing, and one outside  *)
(* the digit alphabet, for which the bucketed paths fall back.  The row    *)
(* weights are as many as the rows, twice as many, and one for two rows.    *)
EXTENDS Chain
LOCAL INSTANCE TLC

P(x, y) == (0 :> x) @@ (1 :> y)
One1(x) == 0 :> x

MCM    == (0 :> One1(P(2, 3))) @@ (1 :> One1(P(4, 1)))
MCYvec == (0 :> P(0, 1)) @@ (1 :> P(0, 2))   \* M (1 + 4 X)
MCDKey == 0 :> [u \in 0 .. 6 |-> P((u + 1) % 5, (3 * u) % 5)]
MCRange == (0 :> 4) @@ (1 :> 1)              \* v^2 - 1

MCProvers == { <<One1(P(1, 4)), 0>>, <<One1(P(1, 4)), 1>>, <<One1(P(0, 1)), 0>>, <<One1(P(2, 0)), 0>> }
MCStatements ==
  { [alpha |-> 4, tau0 |-> <<2, 3, 4, 1>>, tau1 |-> <<3>>, bound |-> 8],
    [alpha |-> 1, tau0 |-> <<0, 4, 2, 3>>, tau1 |-> <<4, 2>>, bound |-> 8],
    [alpha |-> 0, tau0 |-> <<3, 0, 1, 2>>, tau1 |-> << >>, bound |-> 8] }
=============================================================================
