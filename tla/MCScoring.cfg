\* Every completion of at most three tokens over nine objects, three openings, a stray brace and prose.
CONSTANTS
    Objects   <- MCObjects
    Opens     <- MCOpens
    Body      <- MCBody
    Tokens    <- MCTokens
    Replies   <- MCReplies
    MaxScore  = 2
    MaxTokens = 3
SPECIFICATION Spec
INVARIANTS
    ScoresOnlyTheFirstObject
    FailsForCause
\* A reply is scored once; the state after it has no successor.
CHECK_DEADLOCK FALSE
