CONSTANTS
    ALen = 2
    MaxRx = 2
    MaxTx = 2
    MaxBoots = 1
    MaxClients = 1
    Dispositions = {"ignore"}
    CreateMayFail = FALSE
SPECIFICATION FairSpec
PROPERTIES IngressDelivered EgressHanded StopUnlessSendto
CHECK_DEADLOCK FALSE
