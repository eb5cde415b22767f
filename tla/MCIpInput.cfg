CONSTANTS
    A = A
    B = B
    Hosts <- MCHosts
    Station = Station
    Nobody = Nobody
    None = None
    Ports = {"open", "closed"}
    OpenPorts = {"open"}
    Injected <- MCInjected
    Datagrams <- MCDatagrams
    Budget = 2
    SizeBits = 16
SPECIFICATION FairSpec
INVARIANTS TypeOK CacheTruthful RepliesGoBack DeliveredAsSent 
PROPERTIES Quiet
CHECK_DEADLOCK FALSE
