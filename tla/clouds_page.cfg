SPECIFICATION FairSpec
CONSTANTS
    NoAccount = NoAccount
    A = A
    B = B
    Account <- MCAccount
    AtFirst <- MCAtFirst
    MaxPosts = 2
    MaxScans = 2
    MaxMoves = 4
INVARIANTS
    TypeOK
    FileIsOwn
    InventoryIsOwn
    JackIsTrue
    FormKeepsTyped
PROPERTIES
    PanelMovesOn
CHECK_DEADLOCK FALSE
