\* Two worker processes that may read the same queued jobs.
SPECIFICATION Spec
CONSTANTS
    Workers = {w1, w2}
    Households = {h1}
    Connections = {c1}
    HouseholdOf <- OneHousehold
    Accounts = {checking, card}
    AccountsOf <- CheckingAndCard
    Credit = {card}
    ItemStatuses = {updated, outdated}
    MaxAttempts = 2
    NoConnection = NoConnection
    NoStatus = NoStatus
    h1 = h1
    h2 = h2
    c1 = c1
    c2 = c2
    checking = checking
    card = card
INVARIANTS
    TypeOK
    RunsKeepCount
    CompletedIsComplete
PROPERTIES
    StatusPublishedWithAccounts
    AbandonedIsFinal
CHECK_DEADLOCK FALSE
