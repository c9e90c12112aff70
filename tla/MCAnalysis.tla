------------------------------ MODULE MCAnalysis ------------------------------
EXTENDS Analysis

CONSTANTS t1, t2, t3

MCSymmetry == Permutations({t2, t3})
=============================================================================
