SPECIFICATION Spec
CONSTANTS
    registry = registry
    nebula = nebula
    runtime1 = runtime1
    runtime2 = runtime2
    graph1 = graph1
    NoOne = NoOne
    Targets = {registry, nebula}
    Graph = {nebula}
    Shared = {nebula}
    Workers = {runtime1, runtime2, graph1}
    Batches <- MCBatches
    Serves <- MCServes
    MaxAttempts = 2
    Retries = 1
CHECK_DEADLOCK FALSE
INVARIANTS
    ProjectionTypeOK
    ReadyReleaseIsProjected
PROPERTIES
    FinishedWorkIsKept
    ProjectionSettles
