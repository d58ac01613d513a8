----------------------------- MODULE MC_Factory -----------------------------
EXTENDS Factory, TLC

CONSTANTS t1, t2, n1

MCThreads == {t1, t2}
MCNames == {n1}
MCSymmetry == Permutations(MCThreads)
=============================================================================
