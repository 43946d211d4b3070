\* client.py:16-17 against a completion that holds two objects.
CONSTANTS
    Objects   <- MCObjects
    Opens     <- MCOpens
    Body      <- MCBody
    Tokens    <- MCTokens
    Replies   <- MCReplies
    MaxScore  = 2
    MaxTokens = 2
SPECIFICATION Spec
INVARIANTS
    FirstObjectIsIsolated
\* A reply is scored once; the state after it has no successor.
CHECK_DEADLOCK FALSE
