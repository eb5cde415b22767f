CONSTANTS
    NumBuf = 2
    FragMax = 16
    Packets <- MCPackets
    Key <- MCKey
    Fragments <- MCFragments
    Nothing = Nothing
    Small = {s1, s2}
    Big = {b1, b2}
    Long = {l1}
SPECIFICATION Spec
INVARIANTS TypeOK OneBufferPerPacket SmallWhole CompleteOrReset
CHECK_DEADLOCK FALSE
