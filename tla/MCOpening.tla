------------------------------ MODULE MCOpening ------------------------------
(* Over F_31[X]/(X^2 + 1) with b = 2 and five digits.  A and B repeat an    *)
(* entry, so that short collisions of both exist: the openings shown take   *)
(* the digits of a block, of a block that collides with it under A, of one  *)
(* that collides only with swapped inner digits, and a vector that is short *)
(* under the challenge 2 alone.                                             *)
EXTENDS Opening

P(x, y) == (0 :> x) @@ (1 :> y)

MCKeyA == << <<P(3, 5), P(3, 5), P(7, 20), P(1, 0), P(11, 2)>> >>
MCKeyB == << <<P(4, 9), P(4, 9), P(2, 17), P(30, 1), P(8, 8), P(5, 6), P(13, 0), P(21, 3), P(1, 29), P(9, 14),
               P(6, 6), P(0, 12), P(19, 4), P(2, 2), P(27, 10)>> >>

One1 == <<P(1, 0)>>
Plain(f, bs) == [form |-> f, parallel |-> FALSE, blocks |-> bs]
MCCalls ==
  { Plain(f, <<One1, <<P(22, 9)>>>>) : f \in {"plain", "balanced", "streamed"} } \cup
  { Plain("plain", <<<<P(30, 30)>>, <<P(17, 4)>>>>), Plain("balanced", <<<<P(15, 16)>>>>) } \cup
  { [form |-> "streamed_32", parallel |-> p,
     blocks |-> << <<P(1, 31)>>, << >>, << 0 :> 60, P(3, 3)>>, <<P(33, 5)>> >>] : p \in BOOLEAN }

Swap(t) == <<t[2], t[1], t[3], t[4], t[5]>>
Toggle(s) == [s EXCEPT ![4] = P(s[4][0], 1 - s[4][1])]
Inner(s) == GadgetDecompose(MatVec(KeyA, s))
Base == { GadgetDecompose(One1), GadgetDecompose(<<P(2, 0)>>), Toggle(GadgetDecompose(One1)) }
Long == <<P(16, 0), P(16, 0), ZeroRq, ZeroRq, ZeroRq>>
Second == GadgetDecompose(<<P(22, 9)>>)
MCCandidates ==
  { [s |-> <<s, Second>>, t |-> <<t, Inner(Second)>>, c |-> <<c, OneRq>>] :
      s \in Base \cup {Long},
      t \in UNION { {Inner(x), Swap(Inner(x))} : x \in Base },
      c \in { OneRq, P(2, 0), P(0, 30), ZeroRq, P(2, 1) } }
=============================================================================
