------------------------------ MODULE MC_Logger ------------------------------
(* Model values for the threads of Logger. *)
EXTENDS Logger

CONSTANTS w1, p1, p2

MCWriters == {w1}
MCPool == {p1, p2}

=============================================================================
