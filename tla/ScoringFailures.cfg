\* client.py:28 against every failure a reply can cause.
CONSTANTS
    Objects   <- MCObjects
    Opens     <- MCOpens
    Body      <- MCBody
    Tokens    <- MCTokens
    Replies   <- MCReplies
    MaxScore  = 2
    MaxTokens = 2
SPECIFICATION Spec
INVARIANTS
    AllFailuresCollapse
\* A reply is scored once; the state after it has no successor.
CHECK_DEADLOCK FALSE
