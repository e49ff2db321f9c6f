----------------------------- MODULE MC_Targeting -----------------------------
EXTENDS Targeting

CONSTANTS v1, v2, none
=============================================================================
