-------------------------- MODULE MC_ConsistentHash --------------------------
(* Model-checking instance of ConsistentHash: two nodes, hashes 0..4, up  *)
(* to four entries, so that rings with equal hashes, with one node's      *)
(* entries on both sides of another's, and of every length up to four    *)
(* are all reached.                                                       *)
EXTENDS ConsistentHash
=============================================================================
