\* Two concurrent calls and two runs of the seed script.
CONSTANTS
    v1 = v1
    v2 = v2
    blank = blank
    plain = plain
    synth1 = synth1
    other1 = other1
    stranger = stranger
    Stamps      <- MCStamps
    Blank       = blank
    Plain       = plain
    RubricTexts <- MCRubricTexts
    NoFile      = NoFile
    Objects     <- MCObjects
    Opens       = {}
    Body        <- MCBody
    Replies     <- MCFewReplies
    MaxScore    = 1
    Synth       <- MCSynth
    Others      <- MCOthers
    Strangers   = {}
    Nobody      = Nobody
    NoRow       = NoRow
    MaxClock    = 0
    Calls       = {c1, c2}
    Seeders     = {s1, s2}
SPECIFICATION FairHistorySpec
CONSTRAINT OneSynthetic
INVARIANTS
    TypeOK
    IInv
    ReferentialIntegrity
    OutcomeMatchesStore
    ScoreTracedToRubric
    LockHeldByTransaction
    SynthLostOnlyBetweenCommits
    FailuresExplained
PROPERTIES
    ImplementsStore
    CallsTerminate
    LockReleased
\* Every call ends and is not started again.
CHECK_DEADLOCK FALSE
