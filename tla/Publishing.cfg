SPECIFICATION PubSpec
CONSTANTS
    u1 = u1
    s1 = s1
    e1 = e1
    p1 = p1
    Users = {u1}
    Stories = {s1}
    KeyStories = {}
    Editors = {e1, p1}
    Ways = {3}
    None = None
    Publications = {p1}
INVARIANTS
    EveryStoryCovered
    DuplicatesNeedOverlap
    OneMailEach
    KeenAreMailed
PROPERTIES
    QuietAreSpared
