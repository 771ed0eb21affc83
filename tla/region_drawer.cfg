SPECIFICATION Spec
CONSTANTS
    i = i
    v = v
    s = s
    n = n
    e = e
    w = w
    g = g
    r1 = r1
    r2 = r2
    P = P
    None = None
    Res <- MCRes
    Kind <- MCKind
    Region = {r1, r2}
    Contents <- MCContents
    Project = {P}
    ProviderIds <- MCProviderIds
    HasCases = {"gcp"}
    Home = "gcp"
    Stranger = "xyz"
    Link <- MCLink
    MaxMoves = 3
INVARIANTS
    TypeOK
    FlashFinds
    UrlIsState
    ClosingReturns
PROPERTIES
    ChoiceIsKept
CHECK_DEADLOCK FALSE
