-------------------------- MODULE MCGroupedKvCache --------------------------
(***************************************************************************)
(* Groups and prompts for TLC: a rolling group with pages of 2 tokens and  *)
(* a window of one page, and a full-history group with pages of 4.         *)
(*                                                                         *)
(* The ring holds what build_deepseek_v4_cache_group_specs asks for: its   *)
(* window and two steps of Chunk tokens, 4 pages.  The prompts of Prompts3 *)
(* have hits of 4 and 8 tokens in common, and the long ones go round the   *)
(* ring.                                                                   *)
(***************************************************************************)
EXTENDS GroupedKvCache

EagleGroups ==
  <<[cap |-> 2, max |-> 4, window |-> 2, eagle |-> TRUE, blocks |-> 6],
    [cap |-> 4, max |-> 3, window |-> 0, eagle |-> FALSE, blocks |-> 4]>>

Prompts3 == <<<<0, 1, 0, 0, 1, 1, 0, 1, 1, 0, 1>>, <<0, 1, 0, 0, 1, 1>>,
              <<0, 1, 0, 0, 1, 1, 0, 1, 1, 1, 0>>>>
=============================================================================
