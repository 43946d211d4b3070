\* resources.py:76 with one server that is killed while it renders, and started again.
CONSTANTS
    p1 = p1
    p2 = p2
    r1 = r1
    r2 = r2
    r3 = r3
    Processes  = {p1}
    Renders    = {r1}
    Home       <- MCOneHome
    NoFile     = NoFile
    Nothing    = Nothing
    Size       <- MCSize
    MaxCommits = 1
    MaxFaults  = 1
SPECIFICATION Spec
INVARIANT
    ServesDigestOrPlaceholder
