---------------------------- MODULE MCGateServer ----------------------------
EXTENDS GateServer

CONSTANTS c1, c2, c3

MCConns == {c1, c2, c3}
============================================================================
