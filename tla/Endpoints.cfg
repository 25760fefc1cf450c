CONSTANTS
    AskedBuffers = 3
    Geometries = {requested, adjusted}
    Requested = requested
    MaxOpens = 2
    MaxUnmapFailures = 2
    MaxFrames = 2
    Sizes = {small, large}
    Frames = 5
    QueueBSize = 2
    WireMod = 8
    FirstId = 5
    FirstMs = 4
SPECIFICATION Spec
INVARIANTS NothingLeaks BuffersAgree GeometryAgrees MetaIsOwn 
\* A run of a process ends, and nothing follows.
CHECK_DEADLOCK FALSE
