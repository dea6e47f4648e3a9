\* Two clients, a cache of one project, one of the three projects without an index;
\* two compactions, three requests; three daemon processes; two vectors' ids.
CONSTANTS
    Project = {p1, p2, p3}
    Indexed = {p1, p2}
    Client = {c1, c2}
    MaxProjects = 1
    MaxLoads = 3
    MaxCompactions = 2
    MaxRequests = 3
    NoProject = NoProject
    Proc = {d1, d2, d3}
    NoProc = NoProc
    VectorId = {a, b}
    MaxVectors = 4
    NoKey = NoKey
    NoVector = NoVector
    NoFile = NoFile
SPECIFICATION Spec
\* The daemon stops; processes and bounds run out.
CHECK_DEADLOCK FALSE
INVARIANTS
    StoresStayOpen
    ServingIsReachable
    VectorsAreTheirs
PROPERTIES
    CompactionIsSafe
    ShutdownEnds
