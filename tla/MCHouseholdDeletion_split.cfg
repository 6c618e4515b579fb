\* One owner deletes a household with a split transaction, nobody else is there.
SPECIFICATION Spec
CONSTANTS
    Deleters = {d1}
    Rows <- FewRows
    TableOf <- TableOfFew
    Parents <- RefersFew
    Initially <- FewRows
    home = home
    owner = owner
    grant = grant
    invite = invite
    message = message
    flag = flag
    bill = bill
    snapshot = snapshot
    investment = investment
    loan = loan
    txn = txn
    account = account
    job = job
    connection = connection
    newAccount = newAccount
    newTxn = newTxn
    newSnapshot = newSnapshot
    split = split
INVARIANT
    NeverRefused
CHECK_DEADLOCK FALSE
