---------------------------- MODULE MC_LoopQueue ----------------------------
(* Model-checking instance of LoopQueue: a ring of two values (three      *)
(* slots), so that both branches of the full test and the wrap of both    *)
(* indexes are reached with five values pushed.                           *)
EXTENDS LoopQueue
=============================================================================
