SPECIFICATION FairSpec
CONSTANTS
    Nil = Nil
    BlueIp = BlueIp
    GreenIp = GreenIp
    NoIp = NoIp
    Endpoint <- MCEndpoint
    ReaderEndpoint <- MCReaderEndpoint
    Instances <- MCInstances
    SuspendBlue = TRUE
    InitialPhases = {1}
    MaxFaults = 1
    MaxLag = 1
    FaultKinds = {"refused", "rollback"}
    Callers = {1}
    Requested = {"b1"}
    IamInUse = TRUE
CHECK_DEADLOCK FALSE
PROPERTIES
    CallsReturn
    RoutingsEnd
