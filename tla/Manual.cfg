\* One word, one filter and one timer: SearchBox.cfg has more of each, this
\* run is about what happens in the frame.
CONSTANTS
    Words = {"ab"}
    Label = "Search"
    Compact <- ManualCompact
    Filters = 1
    Indexed <- ManualIndexed
    Hits <- ManualIndexed
    MaxTimers = 1
    Rows = 3
    Kids <- ManualKids
    NavKeys = {"up", "down", "left", "right", "escape", "edit"}
    Found <- ManualFound
    Nodes = 5
    Parent <- ManualParent
    Link <- ManualLink
    NoLink = "none"
    Urls = {"index", "annotated", "class", "file", "members"}
    Index = "index"
    MaxSlides = 3
    Tabs = {"t1", "t2"}
    Widths = {200, 300}
    Default = 200
    Handle = 6
    Heights = {90, 900}
    Frame = 90
    NoCookie = NoCookie
SPECIFICATION ManualSpec
INVARIANTS
    ManualTypeOK
    FocusIsDisplayed
    KeysWalkTheList
    TreeAgrees
PROPERTIES
    WidthRemembered
