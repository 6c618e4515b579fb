------------------------ MODULE MCHouseholdDeletion ------------------------
(***************************************************************************)
(* A household with a row in every table. An account with a transaction, a *)
(* balance snapshot, a split and an invite can be inserted later.          *)
(***************************************************************************)
EXTENDS HouseholdDeletion, TLC

CONSTANTS home, owner, grant, invite, message, flag, bill, snapshot, investment, loan,
          txn, account, job, connection, newAccount, newTxn, newSnapshot, split

Table ==
    (home :> "households") @@ (owner :> "household_members") @@
    (grant :> "connection_access_grants") @@ (invite :> "household_invites") @@
    (message :> "assistant_messages") @@ (flag :> "anomaly_flags") @@
    (bill :> "credit_card_bills") @@ (snapshot :> "balance_snapshots") @@
    (investment :> "investments") @@ (loan :> "loans") @@ (txn :> "transactions") @@
    (account :> "accounts") @@ (job :> "sync_jobs") @@ (connection :> "pluggy_connections") @@
    (newAccount :> "accounts") @@ (newTxn :> "transactions") @@
    (newSnapshot :> "balance_snapshots") @@ (split :> "transaction_splits")

Refers ==
    (home :> {}) @@ (owner :> {home}) @@ (grant :> {owner, connection}) @@
    (invite :> {home}) @@ (message :> {home}) @@ (flag :> {home, txn, owner}) @@
    (bill :> {home, account}) @@ (snapshot :> {home, account}) @@
    (investment :> {home, connection}) @@ (loan :> {home, connection}) @@
    (txn :> {home, account}) @@ (account :> {home, connection}) @@
    (job :> {home, connection}) @@ (connection :> {home}) @@
    (newAccount :> {home, connection}) @@ (newTxn :> {home, newAccount}) @@
    (newSnapshot :> {home, newAccount}) @@ (split :> {txn})

AllRows == DOMAIN Table
Full == AllRows \ {newAccount, newTxn, newSnapshot, split}

\* Without a connection's data beyond one account and its transaction.
FewRows == {home, owner, connection, job, account, txn, split}
TableOfFew == [r \in FewRows |-> Table[r]]
RefersFew == [r \in FewRows |-> Refers[r]]
=============================================================================
