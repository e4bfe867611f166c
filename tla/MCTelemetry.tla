---------------------------- MODULE MCTelemetry ----------------------------
EXTENDS Telemetry

CONSTANTS r1, none, t1

MCRoutes == {r1}
MCTraces == {t1}
============================================================================
