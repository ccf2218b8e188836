SPECIFICATION FairSpec
CONSTANTS
    Mappings <- MCMappings
    Lower <- MCLower
    Said <- MCPlainSaid
    Guids = {1}
    System = 0
    Nobody = Nobody
    MaxSessions = 2
    MaxSent = 2
PROPERTY NothingWaitsForever
CHECK_DEADLOCK FALSE
