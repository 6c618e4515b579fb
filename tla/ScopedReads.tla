---------------------------- MODULE ScopedReads ----------------------------
(***************************************************************************)
(* The reading endpoints of a household: dashboard, transactions,          *)
(* categories, spending by member, balances, bills, investments, loans,    *)
(* anomalies, export, and the context of an assistant's question. Each is  *)
(* a sequence of statements, and under READ COMMITTED each statement sees  *)
(* what was committed when it began. Meanwhile banks are connected, sync   *)
(* jobs insert, transactions are split and marked as transfers, and an     *)
(* owner replaces what a member may see.                                   *)
(***************************************************************************)
EXTENDS AccessGrants, Sequences, Functions

CONSTANTS
    Rows,           \* the rows there may be: [table, id, of, conn, member]
    FirstRows,      \* those there are at first
    NoConn, NoRow,
    DayOf,
    TransferPairs,  \* what detect_internal_transfers may mark
    Start, End,     \* start_date and end_date
    Chips,          \* the member_ids of requests
    MaxEdits        \* bound: how often splits are replaced

\* Transactions, balances and bills are of an account; accounts, investments,
\* loans and sync jobs of a connection; an anomaly flag of a transaction, of
\* a member, or of neither.
OfAccount == {"transactions", "balances", "bills"}
OfConnection == {"accounts", "investments", "loans", "jobs"}

\* "conn" is denormalised: a row has the connection of the row it is of. Ids are
\* UUIDs, and the first rows refer to first rows and connections.
ASSUME RowsAssumption ==
    /\ FirstRows \subseteq Rows
    /\ \A r, o \in Rows : r.of = o.id => r.conn = o.conn
    /\ \A r, o \in Rows : r.id = o.id => r = o
    /\ \A r \in Rows : r.id \notin Connections
    /\ \A r \in FirstRows :
           /\ r.table \in OfConnection => r.conn \in FirstConnected
           /\ r.table \in OfAccount =>
                  \E a \in FirstRows : a.table = "accounts" /\ a.id = r.of
    /\ Chips \subseteq SUBSET Members
    /\ {Start, End} \subseteq Int
    /\ MaxEdits \in Nat

VARIABLES
    db,             \* the rows of the tables below
    split,          \* the transactions that have at least one split
    transfer,       \* those that is_transfer holds for
    edits,
    read            \* the request that is being served

dataVars == <<db, split, transfer, edits>>
vars == <<grantVars, dataVars, read>>

-----------------------------------------------------------------------------
(* Rows *)

Table(t) == {r \in db : r.table = t}
Ids(S) == {r.id : r \in S}
Transactions == {r \in Rows : r.table = "transactions"}

\* The foreign keys.
MayInsert(r) ==
    CASE r.table \in OfAccount -> r.of \in Ids(Table("accounts"))
      [] r.table \in OfConnection -> r.conn \in connected
      [] r.table = "flags" -> r.of # NoRow => r.of \in Ids(Table("transactions"))

\* pluggy_connections, as rows.
ConnectionRows ==
    {[table |-> "connections", id |-> c, of |-> NoRow, conn |-> c, member |-> NoMember] :
        c \in connected}

-----------------------------------------------------------------------------
(* Statements *)

Period == Start..End

\* A different program: the day the period begins is in both.
PreviousEndOverlapping == Start

\* The days right before, as many of them.
PreviousEnd == Start - 1
PreviousPeriod == (PreviousEnd - (End - Start + 1) + 1)..PreviousEnd

Spending(t, days) == t.id \notin transfer /\ DayOf[t.id] \in days

\* A different program: the splits of transfers are counted.
SplitsOfAll(days) ==
    {t \in Table("transactions") : DayOf[t.id] \in days /\ t.id \in split}

\* The two slices of _category_totals.
Unsplit(days) == {t \in Table("transactions") : Spending(t, days) /\ t.id \notin split}
Splits(days) == {t \in Table("transactions") : Spending(t, days) /\ t.id \in split}

\* A statement: what it is read as, the rows it selects from, what it is
\* restricted by.
Q(name, from, by) == [name |-> name, from |-> from, by |-> by]
Plain(t) == Q(t, t, "connection")

Source(from) ==
    CASE from = "connections" -> ConnectionRows
      [] from = "unsplit" -> Unsplit(Period)
      [] from = "splits" -> Splits(Period)
      [] from = "prior_unsplit" -> Unsplit(PreviousPeriod)
      [] from = "prior_splits" -> Splits(PreviousPeriod)
      [] from = "spending" -> {t \in Table("transactions") : Spending(t, Period)}
      [] from = "cash_flow" -> {t \in Table("transactions") : t.id \notin transfer}
      [] OTHER -> Table(from)

\* "accounts": by the ids of the accounts the export has read. "exported":
\* joined with transactions of those. "listed": of the listed transactions.
\* "flags": of the member, or of a transaction of the connections.
Selected(q, rd) ==
    {r \in Source(q.from) :
        CASE q.by = "household" -> TRUE
          [] q.by = "connection" -> In(rd.scope, r.conn)
          [] q.by = "accounts" -> rd.scope.none \/ r.of \in Ids(rd.got["accounts"])
          [] q.by = "exported" ->
                 \/ rd.scope.none
                 \/ \E t \in Table("transactions") :
                        t.id = r.of /\ t.of \in Ids(rd.got["accounts"])
          [] q.by = "listed" -> r.of \in Ids(rd.got["recent"])
          [] q.by = "flags" ->
                 rd.scope.none \/ r.member = rd.who \/ r.conn \in rd.scope.ids}

-----------------------------------------------------------------------------
(* Endpoints *)

\* The transactions, which of them have open flags, and (not a row here) their splits.
Listed == <<Q("recent", "transactions", "connection"), Q("flags", "flags", "listed")>>

\* A different program: the connections are read before the accounts.
DashboardConnectionsFirst ==
    <<Q("statuses", "connections", "household"), Q("owners", "connections", "connection"),
      Plain("accounts")>>
        \o Listed
        \o <<Plain("cash_flow"), Q("count", "connections", "connection"), Plain("jobs")>>

\* The latest job and all jobs are read alike.
Dashboard ==
    <<Plain("accounts"), Q("statuses", "connections", "household"),
      Q("owners", "connections", "connection")>>
        \o Listed
        \o <<Plain("cash_flow"), Q("count", "connections", "connection"), Plain("jobs")>>

Categories ==
    <<Plain("unsplit"), Plain("splits"), Plain("prior_unsplit"), Plain("prior_splits")>>

SpendingByMember == <<Q("owners", "connections", "connection"), Plain("spending")>>

Export ==
    <<Plain("connections"), Plain("accounts"), Q("transactions", "transactions", "accounts"),
      Q("balances", "balances", "accounts"), Q("bills", "bills", "accounts"),
      Plain("investments"), Plain("loans"), Q("flags", "flags", "exported")>>

\* build_household_context: its totals know neither transfers nor splits.
Context ==
    <<Plain("accounts"), Q("recent", "transactions", "connection"),
      Q("cash_flow", "transactions", "connection"), Plain("investments"), Plain("loans"),
      Plain("bills"), Plain("balances"), Q("categories", "transactions", "connection")>>

Endpoints ==
    [dashboard    |-> Dashboard,
     transactions |-> Listed,
     categories   |-> Categories,
     spending     |-> SpendingByMember,
     balances     |-> <<Plain("balances")>>,
     bills        |-> <<Plain("bills")>>,
     investments  |-> <<Plain("investments")>>,
     loans        |-> <<Plain("loans")>>,
     anomalies    |-> <<Q("flags", "flags", "flags")>>,
     export       |-> Export,
     context      |-> Context]

\* Those without a member_ids parameter.
Unchipped == {"anomalies", "export", "context"}

\* Those that add up what was spent.
Breakdowns == {"categories", "spending"}

Names == UNION {{q.name : q \in Range(Endpoints[e])} : e \in DOMAIN Endpoints}

-----------------------------------------------------------------------------
(* A request *)

AnyRow == Rows \cup {[table |-> "connections", id |-> c, of |-> NoRow, conn |-> c,
                      member |-> NoMember] : c \in Connections}

\* "all" and "granted" are what the scope was decided from, "got" what each
\* statement has read. "old" and "touched" are history, kept where a property
\* needs it: the rows there were when the request began, and the transactions
\* that were split, unsplit or marked since.
Request ==
    [pc      : {"idle", "all", "granted", "chips", "reading", "done"},
     e       : DOMAIN Endpoints,
     at      : Nat,
     who     : Members \cup {NoMember},
     chips   : Chips \cup {{}},
     all     : SUBSET Connections,
     granted : SUBSET Connections,
     scope   : Scope,
     got     : [Names -> SUBSET AnyRow],
     old     : SUBSET AnyRow,
     touched : SUBSET Ids(Transactions)]

Idle ==
    [pc |-> "idle", e |-> "dashboard", at |-> 0, who |-> NoMember, chips |-> {},
     all |-> {}, granted |-> {}, scope |-> Only({}), got |-> [n \in Names |-> {}],
     old |-> {}, touched |-> {}]

TypeOK ==
    /\ GrantsTypeOK
    /\ db \subseteq Rows
    /\ split \cup transfer \subseteq Ids(Transactions)
    /\ edits \in 0..MaxEdits
    /\ read \in Request
    /\ read.at \in 0..Len(Endpoints[read.e]) + 1

Init ==
    /\ GrantsInit
    /\ db = FirstRows
    /\ split = {} /\ transfer = {} /\ edits = 0
    /\ read = Idle

\* get_household_membership: a member of the household asks; an owner is
\* unrestricted.
Authorize(m, e, chips) ==
    /\ read.pc = "idle"
    /\ e \in Unchipped => chips = {}
    /\ read' = [Idle EXCEPT !.pc = IF m \in Owners THEN "chips" ELSE "all",
                            !.e = e, !.who = m, !.chips = chips,
                            !.scope = Everything,
                            !.old = IF e \in Breakdowns \cup {"export"}
                                    THEN db \cup ConnectionRows ELSE {}]
    /\ UNCHANGED <<grantVars, dataVars>>

ReadConnections ==
    /\ read.pc = "all"
    /\ read' = [read EXCEPT !.pc = "granted", !.all = connected]
    /\ UNCHANGED <<grantVars, dataVars>>

ReadGrants ==
    /\ read.pc = "granted"
    /\ read' = [read EXCEPT !.pc = "chips", !.granted = GrantedTo(read.who),
                            !.scope = Accessible(read.all, GrantedTo(read.who))]
    /\ UNCHANGED <<grantVars, dataVars>>

ResolveMembers ==
    /\ read.pc = "chips"
    /\ read' = [read EXCEPT !.pc = "reading", !.at = 1,
                            !.scope = NarrowedTo(@, read.chips, connected)]
    /\ UNCHANGED <<grantVars, dataVars>>

Statement ==
    /\ read.pc = "reading"
    /\ LET q == Endpoints[read.e][read.at]
           last == read.at = Len(Endpoints[read.e])
       IN read' = [read EXCEPT !.got[q.name] = Selected(q, read),
                               !.at = @ + 1,
                               !.pc = IF last THEN "done" ELSE "reading"]
    /\ UNCHANGED <<grantVars, dataVars>>

Respond ==
    /\ read.pc = "done"
    /\ read' = Idle
    /\ UNCHANGED <<grantVars, dataVars>>

Serve ==
    \/ \E m \in Members, e \in DOMAIN Endpoints, chips \in Chips : Authorize(m, e, chips)
    \/ ReadConnections \/ ReadGrants \/ ResolveMembers \/ Statement \/ Respond

-----------------------------------------------------------------------------
(* What is committed meanwhile *)

\* create_connection.
Connect(c) ==
    /\ c \notin connected
    /\ connected' = connected \cup {c}
    /\ UNCHANGED <<grants, put, puts, dataVars, read>>

\* A stage of a sync job, or a member's manual flag.
Insert(r) ==
    /\ r \notin db
    /\ MayInsert(r)
    /\ db' = db \cup {r}
    /\ UNCHANGED <<grantVars, split, transfer, edits, read>>

Touched(S) ==
    read' = IF read.pc # "idle" /\ read.e \in Breakdowns
            THEN [read EXCEPT !.touched = @ \cup S] ELSE read

\* The commit of update_transaction_splits: with a body, the transaction has splits;
\* with an empty list it has none, unless another PUT has committed a body that the
\* DELETE did not see. (TransactionDetail has the two statements, and whose rows stay.)
UpdateTransactionSplits(t) ==
    /\ t \in db
    /\ edits < MaxEdits
    /\ edits' = edits + 1
    /\ split' \in {split \cup {t.id}, split \ {t.id}, split}
    /\ Touched({t.id})
    /\ UNCHANGED <<grantVars, db, transfer>>

\* detect_internal_transfers marks both legs of a pair.
DetectInternalTransfers(p) ==
    /\ p \subseteq Ids(Table("transactions"))
    /\ ~(p \subseteq transfer)
    /\ transfer' = transfer \cup p
    /\ Touched(p)
    /\ UNCHANGED <<grantVars, db, split, edits>>

Next ==
    \/ Serve
    \/ \E o \in Writers : UpdateMemberAccess(o) /\ UNCHANGED <<dataVars, read>>
    \/ \E c \in Connections : Connect(c)
    \/ \E r \in Rows : Insert(r)
    \/ \E t \in Transactions : UpdateTransactionSplits(t)
    \/ \E p \in TransferPairs : DetectInternalTransfers(p)

Spec == Init /\ [][Next]_vars

-----------------------------------------------------------------------------
(* Properties *)

Decided == read.pc \in {"reading", "done"}

\* Whether the scope was decided as the code says: "an owner, or a member granted
\* every connection in the household".
Unrestricted == read.who \in Owners \/ read.all \subseteq read.granted

\* "a restricted member's questions can only ever be answered from data they're
\* allowed to see" (build_household_context), and so is every other response:
\* it holds rows of granted connections, the member's own flags and, where the
\* member had been granted every connection there was, rows that are of no
\* connection or of one that was connected since. Chips narrow it further.
OnlyScopedRows ==
    Decided =>
        \A n \in Names \ {"statuses"} : \A r \in read.got[n] :
            /\ \/ read.who \in Owners
               \/ r.conn \in read.granted
               \/ r.member = read.who
               \/ Unrestricted /\ r.conn \notin read.all
            /\ read.chips # {} => CreatorOf[r.conn] \in read.chips

Slices == {"unsplit", "splits", "prior_unsplit", "prior_splits"}

\* "a transaction is either counted via its own category or via its splits, never
\* both" (_category_totals) and in one period only, however the statements
\* interleave with syncs and with edits of other transactions. (One that is split
\* or marked between the statements may be counted twice or not at all, and of one
\* that two PUTs have given a body each, both bodies are in the one slice of splits.)
CountedOnce ==
    read.pc = "done" /\ read.e = "categories" =>
        \A t \in Transactions : t.id \notin read.touched =>
            LET times == Cardinality({n \in Slices : t \in read.got[n]})
            IN /\ times <= 1
               /\ /\ t \in read.old /\ In(read.scope, t.conn)
                  /\ Spending(t, Period \cup PreviousPeriod)
                  => times = 1

\* What a breakdown has counted in the period.
Counted ==
    IF read.e = "categories" THEN read.got["unsplit"] \cup read.got["splits"]
    ELSE read.got["spending"]

\* "Splitting never changes the total" (_category_totals): by category or by member,
\* with splits or without, a breakdown counts the same transactions of the period.
\* Whatever is synced and edited between its statements, each that it counts is
\* spending, and no spending in scope that was there at the start is left out.
BreakdownsAgree ==
    read.pc = "done" /\ read.e \in Breakdowns =>
        \A t \in Transactions : t.id \notin read.touched =>
            /\ t \in Counted => Spending(t, Period)
            /\ t \in read.old /\ In(read.scope, t.conn) /\ Spending(t, Period)
                   => t \in Counted

\* What a row refers to is among the rows read as n, or is newer than the request
\* and the scope unrestricted.
Finds(id, n) ==
    \/ id \in Ids(read.got[n])
    \/ read.scope.none /\ id \notin Ids(read.old)

\* What a response refers to is in it: an account's connection has a status and an
\* entry in the map of creators (which may be nobody); an exported transaction,
\* balance or bill has its account and the account its connection, and spending is
\* of a connection in the map, unless that is newer than the request and the scope
\* unrestricted.
ReferencesResolve ==
    read.pc = "done" =>
        /\ read.e = "dashboard" =>
               \A a \in read.got["accounts"] :
                   a.conn \in Ids(read.got["statuses"]) \cap Ids(read.got["owners"])
        /\ read.e = "export" =>
               /\ \A r \in read.got["transactions"] \cup read.got["balances"] \cup read.got["bills"] :
                      Finds(r.of, "accounts")
               /\ \A a \in read.got["accounts"] : Finds(a.conn, "connections")
        /\ read.e = "spending" =>
               \A t \in read.got["spending"] : Finds(t.conn, "owners")

=============================================================================
