SPECIFICATION Spec
CONSTANTS
    N = 79
    G = 3
    Base = 3
    Width = 4
    Passwords = {"right", "wrong"}
    X <- MCX
    Ephemerals = {1, 2, 3, 5, 8, 13, 17, 21, 26, 34, 40, 51, 55, 60, 71, 77}
    Scramble <- MCScramble
INVARIANTS
    RightPasswordAccepted
    WrongKeyRejected
    KeysAgree
CHECK_DEADLOCK FALSE
