------------------------ MODULE MC_AsyncProcThread ------------------------
(* Model-checking instance of AsyncProcThread.  Cap 2 with four responses *)
(* fills the ring while the worker is slow; Cap 1 makes push_back fail.   *)
EXTENDS AsyncProcThread
=============================================================================
