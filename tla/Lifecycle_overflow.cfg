SPECIFICATION Spec
CONSTANTS
    MaxExponent = 1023
    MaxCount = 1
INVARIANT OnlyDiscordStopsTheLoop
CHECK_DEADLOCK FALSE
