---------------------------- MODULE MCScheduler ----------------------------
(***************************************************************************)
(* Requests for TLC.  The prompts of Prompts3 share their first block, so  *)
(* that prefix hits happen, and two of them end inside a block.            *)
(***************************************************************************)
EXTENDS Scheduler

Prompts3 == <<<<0, 1, 1>>, <<0, 1, 0, 1>>, <<0, 1, 1, 1, 0>>>>
SharedPrompts == <<<<0, 1, 1>>, <<0, 1, 0, 1, 0>>, <<0, 1, 0, 1>>>>
SharedNew == <<2, 1, 3>>

SpecNew == <<3, 4, 2>>

AsyncMode == [async |-> TRUE, chunk |-> TRUE, maxPrefill |-> None]
SyncMode == [async |-> FALSE, chunk |-> FALSE, maxPrefill |-> 3]

Pipelined == {AsyncMode}
BothModes == {AsyncMode, SyncMode}
=============================================================================
