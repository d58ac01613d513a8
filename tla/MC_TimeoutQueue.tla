-------------------------- MODULE MC_TimeoutQueue --------------------------
(* Model-checking instance of TimeoutQueue: two caller threads, a 2-bit   *)
(* id counter so that generateId wraps onto ids still outstanding, and    *)
(* a timeout of one tick.                                                 *)
EXTENDS TimeoutQueue

CONSTANTS c1, c2

MCCallers == {c1, c2}
=============================================================================
