------------------------ MODULE MCConfigDistribution ------------------------
EXTENDS ConfigDistribution, TLC

CONSTANTS p1, p2, g1, a, b

TwoPublishers == {p1, p2}
MCGates == {g1}
MCContents == {a, b}
EveryFault == AllFaults
=============================================================================
