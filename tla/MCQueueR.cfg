CONSTANTS
    ALen = 4
    Values = {a, b}
    Torn = Torn
    NoValue = NoValue
    MaxDiscard = 2
SPECIFICATION Spec
INVARIANTS RingInv SlotExclusion
PROPERTY FifoSpec
