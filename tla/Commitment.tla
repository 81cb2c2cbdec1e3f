----------------------------- MODULE Commitment ------------------------------
(***************************************************************************)
(* What a committer promises (commit.rs), whatever it computes with: from  *)
(* a message it makes, in one step, the inner decompositions in the order  *)
(* of the blocks and the outer product of them all.                        *)
(***************************************************************************)
EXTENDS Sequences

CONSTANTS
  MessageSet,           \* [balanced, blocks]: the digits to use, the blocks
  InnerDecomp(_, _),    \* the inner decomposition of one block
  Outer(_)              \* the outer product of all inner decompositions

VARIABLES msg, ts, u

cmvars == <<msg, ts, u>>

Init == msg \in MessageSet /\ ts = << >> /\ u = << >>

Commit ==
  /\ u = << >>
  /\ ts' = [i \in DOMAIN msg.blocks |-> InnerDecomp(msg.balanced, msg.blocks[i])]
  /\ u' = Outer(ts')
  /\ UNCHANGED msg

Spec == Init /\ [][Commit]_cmvars
=============================================================================
