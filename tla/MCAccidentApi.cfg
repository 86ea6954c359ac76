SPECIFICATION FairSpec
CONSTANTS
    Recording = {r1, r2}
    Stream = {s}
    NumUsers = 2
INVARIANTS
    AnswerIsTrue
    SentIsAccepted
PROPERTY BuilderGoesOn
CHECK_DEADLOCK FALSE
