SPECIFICATION Spec
CONSTANTS
    Channels = {c1, c2, c3}
    Uncached = {c3}
    Queries = {q1, q2}
    NoCommand = NoCommand
    MaxCommands = 3
    MaxSessions = 2
    MaxResults = 4
INVARIANT AnsweredAboutItsName
CHECK_DEADLOCK FALSE
