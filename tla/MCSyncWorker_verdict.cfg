\* The docstring's promise that a run ends with a status, without any crash.
SPECIFICATION QuietSpec
CONSTANTS
    Workers = {w1}
    Households = {h1}
    Connections = {c1}
    HouseholdOf <- OneHousehold
    Accounts = {checking, card}
    AccountsOf <- CheckingAndCard
    Credit = {card}
    ItemStatuses = {updated, outdated}
    MaxAttempts = 1
    NoConnection = NoConnection
    NoStatus = NoStatus
    h1 = h1
    h2 = h2
    c1 = c1
    c2 = c2
    checking = checking
    card = card
INVARIANT
    RunsToCompletion
CHECK_DEADLOCK FALSE
