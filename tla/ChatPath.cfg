SPECIFICATION ChatSpec
CONSTANTS
    WhoLists <- MCWhoLists
    Rosters <- MCRosters
    Events <- MCEvents
    Chats <- MCChats
    NameAnswers <- MCNameAnswers
    CharacterLists <- MCCharacterLists
    Commands <- MCCommands
    HexDigits <- MCHexDigits
    Digits = 2
    Links = {1}
    Tags = {11, 12, 13}
    Roles <- MCRoles
    Members <- MCMembers
    Words <- MCWords
    Mappings <- MCMappings
    Sender <- MCSender
    Label <- MCLabel
    Clock <- MCClock
INVARIANTS
    WholePacketsUnderstood
    CutListsKeepEntries
    NothingInvented
    LinksReadable
    MarkersGo
    PostedAsConfigured
    PingsAreUnambiguous
