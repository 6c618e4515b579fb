\* Two owners delete a full household while rows are inserted; requests may be killed.
SPECIFICATION Spec
CONSTANTS
    Deleters = {d1, d2}
    Rows <- AllRows
    TableOf <- Table
    Parents <- Refers
    Initially <- Full
    home = home
    owner = owner
    grant = grant
    invite = invite
    message = message
    flag = flag
    bill = bill
    snapshot = snapshot
    investment = investment
    loan = loan
    txn = txn
    account = account
    job = job
    connection = connection
    newAccount = newAccount
    newTxn = newTxn
    newSnapshot = newSnapshot
    split = split
INVARIANTS
    TypeOK
    AuditedOnce
PROPERTIES
    ImplementsAtomicDeletion
    DeletionHappens
CHECK_DEADLOCK FALSE
