\* seed_db.py:3: a lone run of the script after a score was stored.
CONSTANTS
    v1 = v1
    v2 = v2
    blank = blank
    plain = plain
    synth1 = synth1
    other1 = other1
    stranger = stranger
    Stamps      <- MCStamps
    Blank       = blank
    Plain       = plain
    RubricTexts <- MCRubricTexts
    NoFile      = NoFile
    Objects     <- MCObjects
    Opens       = {}
    Body        <- MCBody
    Replies     <- MCReplies
    MaxScore    = 1
    Synth       <- MCSynth
    Others      <- MCOthers
    Strangers   <- MCStrangers
    Nobody      = Nobody
    NoRow       = NoRow
    MaxClock    = 0
    Calls       = {c1}
    Seeders     = {s1}
SPECIFICATION HistorySpec
INVARIANT
    SeedSafeToRerun
\* Every call ends and is not started again.
CHECK_DEADLOCK FALSE
