CONSTANTS
    Nodes = {1, 2, 3}
    Null = 0
    Width = 3
    Own = 1
    OwnMac = m0
    Hosts = {1, 3, 6}
    Wanted = {3}
    Macs = {m0, m1}
    NoMac = NoMac
    AgeMax = 0
    Deltas = {1}
SPECIFICATION Spec
INVARIANTS TypeOK OneSlotPerAddress ResolvesToLatest LookupIsLatest
PROPERTIES LearnedIsFound
CONSTRAINT LookupBound
CHECK_DEADLOCK FALSE
