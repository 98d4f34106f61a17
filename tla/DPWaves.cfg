SPECIFICATION FairSpec
CONSTANTS
    Engine = {0, 1}
    FrontEnd = {"f1", "f2"}
    Request = {"r1", "r2"}
    FrontOf <- MCFrontOf
    Steps <- MCSteps
    SyncInterval = 2
    MayAbort = {"r2"}
    EarlyAbort = FALSE
    Burst = FALSE

    
    
PROPERTIES
    WavesAdvance
    
