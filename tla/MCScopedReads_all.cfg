\* An owner and a member, one bank more, every endpoint.
SPECIFICATION Spec
CONSTANTS
    c1 = c1
    c2 = c2
    elsewhere = elsewhere
    ana = ana
    bia = bia
    w1 = w1
    w2 = w2
    NoConn = NoConn
    NoMember = NoMember
    NoRow = NoRow
    Connections <- BothConnections
    FirstConnected <- OneConnection
    Members <- Family
    Owners <- OneOwner
    CreatorOf <- Creators
    Payloads <- SomeIds
    Writers <- TwoWriters
    Targets <- JustBia
    MaxPuts = 2
    Rows <- AllRows
    FirstRows <- AtFirst
    DayOf <- Days
    TransferPairs <- Pairs
    Start = 10
    End = 12
    Chips <- SomeChips
    MaxEdits = 1
SYMMETRY Symmetry
INVARIANTS
    TypeOK
    OnlyScopedRows
    CountedOnce
    ReferencesResolve
    BreakdownsAgree
PROPERTY
    PutReplaces
