---------------------------- MODULE MC_ThreadPool ----------------------------
(* Model-checking instance of ThreadPool: two workers, so that one can be *)
(* idle() while the other is between pop_front and _busthread.insert.     *)
EXTENDS ThreadPool
=============================================================================
