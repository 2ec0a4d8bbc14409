\* The bounds of each part are explained in the README.
CONSTANTS
    h1 = h1
    h2 = h2
    Cycle = {k1, k2}
    OfflineAge = 1
    WindowAge = 1
    FleetHost = {h1, h2}
    Samples <- SomeSamples
    MaxOpen = 2
    MaxLosses = 1
    Window = 4
    Hour = 2
    GroupHost = {h1, h2}
    Group = {a, b}
    MaxDoings = 3
    MaxEdits = 2
    MaxOthers = 1
    Sibling = {a, b}
    MaxMoves = 2
    MaxAsked = 2
    MaxChanges = 1
SPECIFICATION ViewsSpec
INVARIANTS
    ViewsTypeOK
    ScoresAgree
    PagesAgree
    SettingsHold
PROPERTIES
    AlertsClose
    BoardIsTrue
    PageIsSound
\* The bounds on losses and on edits stop some parts.
CHECK_DEADLOCK FALSE
