CONSTANTS
    QSize = 3
    Mtu = 24
    HLen = 8
    BufLen = 6
    Dsts = {d1, d2}
    Sizes = {4, 20, 27}
    Requests = {TRUE, FALSE}
    MaxPackets = 3
SPECIFICATION FairSpec
INVARIANTS TypeOK SentExactlyIfWhole DeferredInOrder
PROPERTIES DeferredLeaves
CHECK_DEADLOCK FALSE
