SPECIFICATION FairSpec
CONSTANTS
    Channels = {c1, c2, c3}
    Uncached = {c3}
    Queries = {q1}
    NoCommand = NoCommand
    MaxCommands = 3
    MaxSessions = 2
    MaxResults = 4
INVARIANTS
    TypeOK
    NeverUnderOlder
    OneAnswerEach
PROPERTIES
    LoneCommandAnswered
CHECK_DEADLOCK FALSE
