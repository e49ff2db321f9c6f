---------------------------- MODULE MC_Evaluator ----------------------------
EXTENDS Evaluator

CONSTANTS i1, i2, noOne

MCInds == {i1, i2}
=============================================================================
