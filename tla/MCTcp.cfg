CONSTANTS
    c1 = c1
    c2 = c2
    Conns <- MCConns
    Cmp <- MCCmp
    MaxBlocks = 2
    Isn <- MCIsn
    SeqBits = 3
    MaxRuns = 3
    MaxData = 3
    HdrOk = {TRUE, FALSE}
SPECIFICATION Spec
INVARIANTS TypeOK HandshakeAgreed AcksOnlySent CloseAgreed
CHECK_DEADLOCK FALSE
