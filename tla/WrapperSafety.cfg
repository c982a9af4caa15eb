SPECIFICATION Spec
CONSTANTS
    h1 = h1
    h2 = h2
    h3 = h3
    Nil = Nil
    Fields <- MCFields
    Values = {1}
    TransferSessionState = TRUE
    ResetSessionState = TRUE
    Hosts <- MCHosts
    Conns = {1, 2, 3, 4, 5}
    Allowed <- MCAllowed
    RollbackOnSwitch = TRUE
    Home <- MCHome
    Configs <- MCConfigs
    RestrictWriterToHome = FALSE
    RestrictReaderToHome = FALSE
    Writers = {h1}
    MaxFaults = 1
    Modes = {TRUE, FALSE, Nil}
CHECK_DEADLOCK FALSE
INVARIANTS
    TypeOK
    NoLeak
    IdleConnectionsClean
PROPERTIES
    KeepsContract
    SessionCarried
