\* Two workers, rows of three accounts arriving between and during their runs.
SPECIFICATION Spec
CONSTANTS
    Workers = {w1, w2}
    Transactions <- AllTxns
    Amount <- Amounts
    Day <- Days
    d1 = d1
    d2 = d2
    c1 = c1
    c2 = c2
    own = own
    AccountOf <- Accounts
    TransferMatchWindowDays = 2
    Moments = 2
INVARIANTS
    TypeOK
    SerialRunsMarkPairs
    NoLegAlone
    NothingLeftToMatch
