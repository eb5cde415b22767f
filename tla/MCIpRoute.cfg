CONSTANTS
    Nodes = {n1, n2, n3, n4, n5, n6}
    Null = Null
    Width = 4
    Routes <- MCRoutes
SPECIFICATION Spec
INVARIANTS TypeOK TreesHoldUsedEntries NoEntryLeaks LookupsAgree
SYMMETRY Naming
CHECK_DEADLOCK FALSE
