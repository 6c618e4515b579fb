\* One worker process, two connections in two households, crashes and restarts.
SPECIFICATION FairSpec
CONSTANTS
    Workers = {w1}
    Households = {h1, h2}
    Connections = {c1, c2}
    HouseholdOf <- TwoHouseholds
    Accounts = {checking, card}
    AccountsOf <- CardAndNone
    Credit = {card}
    ItemStatuses = {updated, outdated}
    MaxAttempts = 2
    NoConnection = NoConnection
    NoStatus = NoStatus
    h1 = h1
    h2 = h2
    c1 = c1
    c2 = c2
    checking = checking
    card = card
PROPERTIES
    ImplementsSyncJobs
    QueuedIsServed
CHECK_DEADLOCK FALSE
