----------------------------- MODULE MCQuadEval ------------------------------
(* Two blocks of two rows over F_251[X]/(X^4 + 1), b = 4, four digits and   *)
(* three z digits, two inner rows: six rows of 48 columns.                  *)
EXTENDS QuadEval

P(w, x, y, z) == (0 :> w) @@ (1 :> x) @@ (2 :> y) @@ (3 :> z)
Key(rows, cols, seed) ==
  [i \in 1 .. rows |-> StoredVec([j \in 1 .. cols |->
     P((seed * i + 37 * j * j) % 251, (seed + 91 * i * j + j) % 251, (seed * j + i) % 251, (5 * j + 11 * i) % 251)])]
MCKeyA == StoredVec(Key(2, 8, 17))
MCKeyB == StoredVec(Key(1, 16, 101))
MCKeyD == StoredVec(Key(1, 8, 29))

Top == P(250, 250, 250, 250)
MCPolys ==
  { [form |-> m, f |-> g] : m \in {"plain", "balanced", "raw"},
      g \in { <<Top, Top, Top, Top>>, <<P(1, 40, 0, 9), P(0, 0, 0, 0), P(77, 129, 200, 3), P(200, 5, 125, 126)>> } }
MCPoints == { [xl |-> <<P(3, 249, 0, 8)>>, xh |-> <<P(120, 7, 1, 250)>>] }
MCChallenges == { P(1, 0, 0, 0), P(0, 249, 0, 0), P(0, 0, 250, 1) }
MCBumps ==
  { <<"none", 0, 0>>, <<"carrier", 0, 2>>, <<"carrier", 0, 7>>, <<"inner", 1, 3>>, <<"inner", 2, 8>>,
    <<"z", 0, 1>>, <<"z", 0, 24>>, <<"g_b", 0, 3>>, <<"neg_jt_g_a", 0, 20>>, <<"neg_aj", 2, 1>>, <<"trim", 0, 2>> }
=============================================================================
