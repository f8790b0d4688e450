SPECIFICATION Spec
CONSTANTS
    r1 = r1
    r2 = r2
    r3 = r3
    Req <- MCReq
    Pool = 2
    MaxChunks = 2
INVARIANT OneGeneration
CHECK_DEADLOCK FALSE
