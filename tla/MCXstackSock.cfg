CONSTANTS
    ALen = 3
    MaxRx = 4
    MaxTx = 3
    MaxBoots = 2
    MaxClients = 2
    Dispositions = {"default", "ignore"}
    CreateMayFail = TRUE
SPECIFICATION Spec
INVARIANTS TypeOK AttachedIsNotified StateTellsThreads
PROPERTIES ClientSurvives EgressNoLoss IngressNoLoss IngressInOrder
CONSTRAINT OneDirection
CHECK_DEADLOCK FALSE
