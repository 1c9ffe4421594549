------------------------ MODULE MCReleaseProjection ------------------------
EXTENDS ReleaseProjection

CONSTANTS registry, nebula, runtime1, runtime2, graph1

MCBatches == [t \in Targets |-> IF t = nebula THEN 2 ELSE 1]
MCServes == [w \in Workers |-> IF w = graph1 THEN {nebula} ELSE Targets \ {nebula}]
============================================================================
