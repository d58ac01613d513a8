--------------------------- MODULE MC_Communicator ---------------------------
(* Model values for the threads of Communicator. *)
EXTENDS Communicator

CONSTANTS b1, b2

MCBiz == {b1, b2}

=============================================================================
