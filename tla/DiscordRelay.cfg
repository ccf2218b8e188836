SPECIFICATION Spec
CONSTANTS
    Mappings <- MCMappings
    Lower <- MCLower
    Posts <- MCPosts
    Commands = {"!who"}
    MaxExponent = 0
    MaxCount = 1
    MaxPosts = 2
    MaxClients = 2
INVARIANTS
    WholeInSession
    FirstMappingInOrder
    OneClientPerMessage
PROPERTIES
    SendsMeetASession
CHECK_DEADLOCK FALSE
