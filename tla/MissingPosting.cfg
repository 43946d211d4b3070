\* tools.py:86-87: a posting that goes away while the LLM answers.
CONSTANTS
    v1 = v1
    v2 = v2
    blank = blank
    plain = plain
    synth1 = synth1
    other1 = other1
    stranger = stranger
    Stamps      <- MCStamps
    Blank       = blank
    Plain       = plain
    RubricTexts <- MCRubricTexts
    NoFile      = NoFile
    Objects     <- MCObjects
    Opens       = {}
    Body        <- MCBody
    Replies     <- MCReplies
    MaxScore    = 1
    Synth       <- MCSynth
    Others      <- MCOthers
    Strangers   <- MCStrangers
    Nobody      = Nobody
    NoRow       = NoRow
    MaxClock    = 0
    Calls       = {c1}
    Seeders     = {s1}
SPECIFICATION HistorySpec
INVARIANT
    MissingPostingRaisesValueError
\* Every call ends and is not started again.
CHECK_DEADLOCK FALSE
