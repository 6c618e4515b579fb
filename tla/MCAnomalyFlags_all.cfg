\* One worker, two members' requests, two days.
SPECIFICATION Spec
CONSTANTS
    a1 = a1
    b1 = b1
    bankA = bankA
    bankB = bankB
    ana = ana
    shop = shop
    rent = rent
    food = food
    NoMember = NoMember
    NoCategory = NoCategory
    Uncategorized = Uncategorized
    NoText = NoText
    Ledger <- TheLedger
    ConnectionOf <- Connections
    OwnerOf <- Owners
    Stored <- AtFirst
    Batches <- TheBatches
    Ties <- BothTies
    LargeMinSample = 2
    LargeWindowDays = 4
    DuplicateWindowDays = 1
    MerchantMinHistoryDays = 2
    MerchantMinAmount = 500
    RecurringMinPrior = 1
    PeriodDays = 2
    PeriodFloor = 2000
    Workers = {w1}
    m1 = m1
    m2 = m2
    Clients <- TwoClients
    FirstDay = 4
    LastDay = 5
    Handled <- HandledFlags
    MaxRequests = 3
SYMMETRY Symmetry
INVARIANTS
    TypeOK
    EveryDuplicateFlagged
    BaselinesApart
PROPERTIES
    OnlyMembersReview
    DismissalsAreSeen
    FirstOfItsMerchant
