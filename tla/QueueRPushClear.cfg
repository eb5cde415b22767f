CONSTANTS
    ALen = 3
    Values = {a, b}
    Torn = Torn
    NoValue = NoValue
    MaxDiscard = 1
SPECIFICATION SpecPushClear
INVARIANT DeliveredWhole
