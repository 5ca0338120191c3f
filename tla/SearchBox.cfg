CONSTANTS
    Words = {"ab", "a b"}
    Label = "Search"
    Compact <- MCCompact
    Filters = 2
    Indexed <- MCIndexed
    Hits <- MCHits
    MaxTimers = 2
SPECIFICATION FairSpec
INVARIANTS
    TypeOK
    PanelConsistent
    MenuStaysUnderMouse
PROPERTIES
    TextIsSearched
