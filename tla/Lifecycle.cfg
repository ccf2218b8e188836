SPECIFICATION FairSpec
CONSTANTS
    MaxExponent = 3
    MaxCount = 3
INVARIANTS
    TypeOK
    SocketsAccounted
    StaleWorldOnlyAfterTimeout
    OutageFlagged
    StopsOnlyForGoodReason
PROPERTIES
    FirstRetryAtBase
    FollowsFeed
    AttemptsEnd
    LossAnnounced
    Recovers
CHECK_DEADLOCK FALSE
