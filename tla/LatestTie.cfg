\* Two calls with one stamp for both, and one reader.
CONSTANTS
    v1 = v1
    blank = blank
    plain = plain
    synth1 = synth1
    other1 = other1
    Stamps      <- MCStamps
    Blank       = blank
    Plain       = plain
    RubricTexts <- MCRubricTexts
    NoFile      = NoFile
    Objects     <- MCObjects
    Opens       = {}
    Body        <- MCBody
    Replies     <- MCReplies
    MaxScore    = 1
    Synth       <- MCSynth
    Others      <- MCOthers
    Strangers   = {}
    Nobody      = Nobody
    NoRow       = NoRow
    MaxClock    = 0
    Calls       = {c1, c2}
    Seeders     = {}
    Info        <- MCInfo
    Unset         = Unset
    MaxLimit    = 2
    Readers     = {r1}
    Requests    <- MCRequests
    NoRequest   = NoRequest
    MaxTags     = 1
SPECIFICATION ReadsSpec
SYMMETRY Symmetric
INVARIANT
    OneLatestRow
\* Every call, script and reader ends and is not started again.
CHECK_DEADLOCK FALSE
