\* Two calls that tag, one that is refused, two prompts, a rubric replaced and removed, two instants.
CONSTANTS
    t1 = t1
    t2 = t2
    t3 = t3
    p1 = p1
    p2 = p2
    textA = textA
    textB = textB
    Tags        <- MCTags
    BlankTags   <- MCBlankTags
    Prompts     <- MCPrompts
    Limits      <- MCLimits
    MaxLimit    = 2
    RubricTexts <- MCRubricTexts
    NoFile      = NoFile
    Nobody      = Nobody
    NoRow       = NoRow
    MaxClock    = 1
SPECIFICATION Spec
CONSTRAINTS OneRefused BlankLast
SYMMETRY Symmetric
INVARIANTS
    TaggingTypeOK
    TaggingInv
    AckNamesRow
    PromptRubricIsLive
    PromptKeepsNewestTags
PROPERTY
    ImplementsJournal
\* Every call and prompt ends and is not started again.
CHECK_DEADLOCK FALSE
