----------------------------- MODULE SyncParts -----------------------------
(***************************************************************************)
(* What one synchronisation of a Pluggy connection consists of: the parts  *)
(* that run_sync_job (workers/sync_worker.py) commits one by one, and the  *)
(* order in which it goes through them.                                    *)
(***************************************************************************)
EXTENDS Naturals, FiniteSets

CONSTANTS
    Households,
    Connections,    \* pluggy_connections rows, each with its one sync_jobs row
    HouseholdOf,    \* [Connections -> Households]
    Accounts,       \* bank accounts known to Pluggy
    AccountsOf,     \* [Connections -> SUBSET Accounts]: what get_accounts returns
    Credit          \* the accounts of type CREDIT

ASSUME PartsAssumption ==
    /\ HouseholdOf \in [Connections -> Households]
    /\ AccountsOf \in [Connections -> SUBSET Accounts]
    /\ Credit \subseteq Accounts
    /\ Connections \cap Accounts = {}

\* The calls that save data, one database transaction each.
AccountKinds == {"transactions", "bills"}
JobKinds == {"accounts", "snapshots", "investments", "loans", "anomalies", "transfers"}

Part == [kind : AccountKinds \cup JobKinds, of : Accounts \cup Connections]

\* Where the loop ends up after the last part.
PlaceKinds == AccountKinds \cup JobKinds \cup {"finished"}
Place == [kind : PlaceKinds, of : Accounts \cup Connections]

At(kind, of) == [kind |-> kind, of |-> of]

\* Everything a fully successful run of connection c commits.
PartsOf(c) ==
    {At(k, c) : k \in JobKinds}
        \cup {At("transactions", a) : a \in AccountsOf[c]}
        \cup {At("bills", a) : a \in AccountsOf[c] \cap Credit}

\* The account loop comes after the account rows and before the rest.
Before(j, k) ==
    \/ j = "accounts" /\ k # "accounts"
    \/ j \in AccountKinds /\ k \notin AccountKinds \cup {"accounts"}
    \/ j = "snapshots" /\ k \in {"investments", "loans", "anomalies", "transfers", "finished"}
    \/ j = "investments" /\ k \in {"loans", "anomalies", "transfers", "finished"}
    \/ j = "loans" /\ k \in {"anomalies", "transfers", "finished"}
    \/ j = "anomalies" /\ k \in {"transfers", "finished"}
    \/ j = "transfers" /\ k = "finished"

\* The next pass of the account loop, or the code below it. The order of
\* Pluggy's accounts is arbitrary.
NextAccount(c, left, q) ==
    \/ left = {} /\ q = At("snapshots", c)
    \/ \E a \in left : q = At("transactions", a)

\* run_sync_job of connection c goes on to q when it is done with p and the
\* accounts in left are still to be visited.
Follows(c, p, left, q) ==
    \/ p.kind = "transactions" /\ p.of \in Credit /\ q = At("bills", p.of)
    \/ p.kind = "transactions" /\ p.of \notin Credit /\ NextAccount(c, left, q)
    \/ p.kind \in {"accounts", "bills"} /\ NextAccount(c, left, q)
    \/ p.kind = "snapshots" /\ q = At("investments", c)
    \/ p.kind = "investments" /\ q = At("loans", c)
    \/ p.kind = "loans" /\ q = At("anomalies", c)
    \/ p.kind = "anomalies" /\ q = At("transfers", c)
    \/ p.kind = "transfers" /\ q = At("finished", c)

\* The parts of c that lie behind a run standing at place p.
Behind(c, p, left) ==
    {q \in PartsOf(c) :
        \/ Before(q.kind, p.kind)
        \/ /\ q.kind \in AccountKinds
           /\ p.kind \in AccountKinds
           /\ q.of \notin left
           /\ q.of # p.of \/ (q.kind = "transactions" /\ p.kind = "bills")}
=============================================================================
