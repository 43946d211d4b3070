\* Three renders in two processes, one commit, one kill or failed write.
CONSTANTS
    p1 = p1
    p2 = p2
    r1 = r1
    r2 = r2
    r3 = r3
    Processes  = {p1, p2}
    Renders    = {r1, r2, r3}
    Home       <- MCHome
    NoFile     = NoFile
    Nothing    = Nothing
    Size       <- MCSize
    MaxCommits = 1
    MaxFaults  = 1
SPECIFICATION Spec
SYMMETRY Symmetric
INVARIANTS
    DigestInv
    WholeInOneProcess
    DigestKeepsUp
PROPERTY
    AloneRenderIsComplete
\* Renders are not started again once all are over and the bounds are reached.
