SPECIFICATION Spec
CONSTANTS
    Tasks = {ping, roster, discord}
    Plain = Plain
    MaxOut = 6
    MaxIn = 7
    MaxDrained = 3
SYMMETRY Symmetric
INVARIANTS
    TypeOK
    AllReadable
    InWorldIsAdmitted
    SlowRetryOnlyIfRefused
CHECK_DEADLOCK FALSE
