CONSTANTS
    NumBuf = 2
    FragMax = 16
    Packets <- MCPackets
    Key <- MCKey
    Fragments <- MCFragments
    Nothing = Nothing
    Small = {}
    Big = {b1, b2}
    Long = {}
SPECIFICATION Spec
INVARIANT AllWhole
