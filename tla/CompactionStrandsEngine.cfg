\* As Daemon.cfg, with one project fewer.
CONSTANTS
    Project = {p1, p2}
    Indexed = {p1}
    Client = {c1, c2}
    MaxProjects = 1
    MaxLoads = 3
    MaxCompactions = 2
    MaxRequests = 3
    NoProject = NoProject
    Proc = {d1, d2, d3}
    NoProc = NoProc
    VectorId = {a, b}
    MaxVectors = 4
    NoKey = NoKey
    NoVector = NoVector
    NoFile = NoFile
SPECIFICATION Spec
INVARIANTS
    EngineHasVectors
\* The daemon stops.
CHECK_DEADLOCK FALSE
