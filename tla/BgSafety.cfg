SPECIFICATION Spec
CONSTANTS
    Nil = Nil
    BlueIp = BlueIp
    GreenIp = GreenIp
    NoIp = NoIp
    Endpoint <- MCEndpoint
    ReaderEndpoint <- MCReaderEndpoint
    Instances <- MCInstances
    SuspendBlue = FALSE
    InitialPhases = {1}
    MaxFaults = 1
    MaxLag = 1
    FaultKinds = {"lost", "topology", "rollback", "dial"}
    Callers = {1}
    Requested <- MCRequested
    IamInUse = TRUE
CHECK_DEADLOCK FALSE
INVARIANTS
    TypeOK
    StatementsHeld
    RedirectedToGreen

    
