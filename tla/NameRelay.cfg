SPECIFICATION FairSpec
CONSTANTS
    Mappings <- MCMappings
    Lower <- MCLower
    Said <- MCSaid
    Guids = {1, 2}
    System = 0
    Nobody = Nobody
    MaxSessions = 2
    MaxSent = 3
INVARIANTS
    OneNamePerSender
    StrandedOnlyByException
    NothingVanishes
PROPERTIES
    FollowsOrder
    FreshQueueServed
CHECK_DEADLOCK FALSE
