------------------------------ MODULE MC_Repair ------------------------------
EXTENDS Repair

CONSTANTS slither, etc, noLimit

MCDetectors == {slither, etc}
MCDetectorOrder == <<slither, etc>>
==============================================================================
