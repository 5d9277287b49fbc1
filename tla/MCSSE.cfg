\* Two clients on two channels, two fan-outs, queues of one.
CONSTANTS
    Streams = {s1, s2}
    Channels = {a, b}
    Emitters = {p1, p2}
    MaxQueue = 1
    None = None
    MaxEvents = 3
    MaxCloses = 1
SPECIFICATION StreamFairSpec
INVARIANTS
    StreamTypeOK
    EveryEventAccounted
PROPERTIES
    CloseAndEmitEnd
CHECK_DEADLOCK FALSE
