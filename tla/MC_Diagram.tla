----------------------------- MODULE MC_Diagram -----------------------------
EXTENDS Diagram

\* Three gates: g1 may list g2 and g3, g2 may list g3.
MCGateOrder == <<"g1", "g2", "g3">>
=============================================================================
