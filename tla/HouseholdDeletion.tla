------------------------- MODULE HouseholdDeletion -------------------------
(***************************************************************************)
(* DELETE /v1/households/{id} (api/households.py and delete_household in   *)
(* services/household_deletion.py) statement by statement, for one         *)
(* household, while other requests and the sync worker insert rows and     *)
(* other owners ask for the same deletion. PostgreSQL runs each request in *)
(* a READ COMMITTED transaction, checks a foreign key at the statement     *)
(* that would break it, makes a statement wait for the rows another        *)
(* transaction has deleted or locked, and breaks deadlocks.                *)
(***************************************************************************)
EXTENDS Naturals, Sequences, FiniteSets

CONSTANTS
    Deleters,   \* deletion requests
    Rows,       \* the rows the household may have, itself included
    TableOf,    \* [Rows -> Tables]
    Parents,    \* [Rows -> SUBSET Rows]: the rows its foreign keys name
    Initially   \* the rows that are there when the requests arrive

\* A different program: members are deleted before the flags that name them.
MembersFirst == <<"connection_access_grants", "household_invites", "assistant_messages",
                  "household_members", "anomaly_flags", "credit_card_bills",
                  "balance_snapshots", "investments", "loans", "transactions", "accounts",
                  "sync_jobs", "pluggy_connections", "households">>

\* The statements of delete_household, in their order.
Order == <<"connection_access_grants", "household_invites", "assistant_messages",
           "anomaly_flags", "credit_card_bills", "balance_snapshots", "investments",
           "loans", "transactions", "accounts", "sync_jobs", "pluggy_connections",
           "household_members", "households">>

Tables == {Order[i] : i \in 1..Len(Order)} \cup {"transaction_splits"}

Household == {r \in Rows : TableOf[r] = "households"}

\* The foreign keys of the models, but for audit_events and app_users.
ForeignKeys ==
    {<<t, "households">> : t \in Tables \ {"households", "connection_access_grants",
                                           "transaction_splits"}} \cup
    {<<"connection_access_grants", "household_members">>,
     <<"connection_access_grants", "pluggy_connections">>,
     <<"sync_jobs", "pluggy_connections">>,
     <<"accounts", "pluggy_connections">>,
     <<"investments", "pluggy_connections">>,
     <<"loans", "pluggy_connections">>,
     <<"credit_card_bills", "accounts">>,
     <<"balance_snapshots", "accounts">>,
     <<"transactions", "accounts">>,
     <<"transaction_splits", "transactions">>,
     <<"anomaly_flags", "transactions">>,
     <<"anomaly_flags", "household_members">>}

\* The transaction and the member of an anomaly flag may be null.
Nullable == {<<"anomaly_flags", "transactions">>, <<"anomaly_flags", "household_members">>}

ASSUME DeletionAssumption ==
    /\ TableOf \in [Rows -> Tables]
    /\ Parents \in [Rows -> SUBSET Rows]
    /\ \E h \in Rows : Household = {h}
    /\ \A r \in Rows, p \in Rows : p \in Parents[r] => <<TableOf[r], TableOf[p]>> \in ForeignKeys
    /\ \A r \in Rows, k \in ForeignKeys \ Nullable :
           k[1] = TableOf[r] => \E p \in Parents[r] : TableOf[p] = k[2]
    /\ Household \subseteq Initially
    /\ Initially \subseteq Rows
    /\ \A r \in Initially : Parents[r] \subseteq Initially

VARIABLES
    rows,       \* the committed rows
    audit,      \* the requests whose "household.deleted" event is committed
    del         \* the transaction of each request

vars == <<rows, audit, del>>

Open == {"audit", "read_members", "read_accounts", "delete", "commit"}
Ended == {"deleted", "refused", "killed"}

Transaction ==
    [pc   : {"idle"} \cup Open \cup Ended,
     next : 1..Len(Order) + 1,      \* the delete statement that comes next
     ids  : SUBSET Rows,            \* member_ids and account_ids
     gone : SUBSET Rows]            \* rows deleted, not yet committed

\* A different program: the statements are counted from zero.
ReadyAtZero(pc) == [pc |-> pc, next |-> 0, ids |-> {}, gone |-> {}]

Ready(pc) == [pc |-> pc, next |-> 1, ids |-> {}, gone |-> {}]

TypeOK ==
    /\ rows \subseteq Rows
    /\ audit \subseteq Deleters
    /\ del \in [Deleters -> Transaction]

Init ==
    /\ rows = Initially
    /\ audit = {}
    /\ del = [d \in Deleters |-> Ready("idle")]

Exists(t) == \E r \in rows : TableOf[r] = t

-----------------------------------------------------------------------------
(* What PostgreSQL does *)

\* The rows of the next statement: its WHERE clause names the ids read before
\* for three tables, household_id for the others.
ByIds == {"connection_access_grants", "credit_card_bills", "balance_snapshots"}

Targets(d) ==
    {r \in rows \ del[d].gone :
        /\ TableOf[r] = Order[del[d].next]
        /\ TableOf[r] \in ByIds => Parents[r] \cap del[d].ids # {}}

References(S) == {r \in rows : Parents[r] \cap S # {}}

\* Grants have ON DELETE CASCADE, everything else refuses.
Cascaded(S) == {r \in References(S) : TableOf[r] = "connection_access_grants"}
Dangling(d, S) == References(S) \ (Cascaded(S) \cup S \cup del[d].gone)

\* Rows that another transaction has deleted hold up an insert that refers to
\* them and a delete that touches them. Deleting the household also waits for
\* every transaction that has inserted an audit event: the foreign key locks it.
Touched(d) == (Targets(d) \cup References(Targets(d))) \ del[d].gone

WaitsFor(d, e) ==
    /\ e # d
    /\ \/ del[d].pc = "audit" /\ Household \cap del[e].gone # {}
       \/ /\ del[d].pc = "delete"
          /\ \/ Touched(d) \cap del[e].gone # {}
             \/ Targets(d) \cap Household # {} /\ del[e].pc \in Open \ {"audit"}

Free(d) == \A e \in Deleters : ~WaitsFor(d, e)

\* A different program: the audit event has a transaction of its own.
RollbackButAudit(d) ==
    /\ del' = [del EXCEPT ![d] = Ready("refused")]
    /\ audit' = audit \cup {d}
    /\ UNCHANGED rows

Rollback(d) ==
    /\ del' = [del EXCEPT ![d] = Ready("refused")]
    /\ UNCHANGED <<rows, audit>>

\* Two transactions wait for each other: PostgreSQL picks one and aborts it.
Deadlock(d) ==
    /\ \E e \in Deleters : WaitsFor(d, e) /\ WaitsFor(e, d)
    /\ Rollback(d)

-----------------------------------------------------------------------------
(* The request *)

\* require_role("owner") and db.get(Household) succeed.
Authorize(d) ==
    /\ del[d].pc = "idle"
    /\ Exists("households") /\ Exists("household_members")
    /\ del' = [del EXCEPT ![d].pc = "audit"]
    /\ UNCHANGED <<rows, audit>>

\* The db.flush() of the audit event, whose foreign key needs the household.
RecordAuditEvent(d) ==
    /\ del[d].pc = "audit"
    /\ Free(d)
    /\ IF Exists("households")
       THEN del' = [del EXCEPT ![d].pc = "read_members"] /\ UNCHANGED <<rows, audit>>
       ELSE Rollback(d)

Read(d, pc, table, then) ==
    /\ del[d].pc = pc
    /\ del' = [del EXCEPT ![d] = [pc   |-> then,
                                  next |-> del[d].next,
                                  ids  |-> del[d].ids \cup {r \in rows : TableOf[r] = table},
                                  gone |-> del[d].gone]]
    /\ UNCHANGED <<rows, audit>>

ReadMemberIds(d) == Read(d, "read_members", "household_members", "read_accounts")
ReadAccountIds(d) == Read(d, "read_accounts", "accounts", "delete")

\* A different program: every statement is committed at once.
DeleteNextAndCommit(d) ==
    /\ del[d].pc = "delete"
    /\ Free(d)
    /\ Dangling(d, Targets(d)) = {}
    /\ rows' = rows \ (Targets(d) \cup Cascaded(Targets(d)))
    /\ del' = [del EXCEPT ![d].pc = IF del[d].next = Len(Order) THEN "commit" ELSE "delete",
                          ![d].next = @ + 1]
    /\ UNCHANGED audit

DeleteNext(d) ==
    /\ del[d].pc = "delete"
    /\ Free(d)
    /\ Dangling(d, Targets(d)) = {}
    /\ del' = [del EXCEPT ![d] =
                 [pc   |-> IF del[d].next = Len(Order) THEN "commit" ELSE "delete",
                  next |-> del[d].next + 1,
                  ids  |-> del[d].ids,
                  gone |-> del[d].gone \cup Targets(d) \cup Cascaded(Targets(d))]]
    /\ UNCHANGED <<rows, audit>>

\* IntegrityError: nothing catches it, the session is closed without a commit.
DeleteRefused(d) ==
    /\ del[d].pc = "delete"
    /\ Free(d)
    /\ Dangling(d, Targets(d)) # {}
    /\ Rollback(d)

Commit(d) ==
    /\ del[d].pc = "commit"
    /\ rows' = rows \ del[d].gone
    /\ audit' = audit \cup {d}
    /\ del' = [del EXCEPT ![d] = Ready("deleted")]

\* The server process or its connection dies: the transaction is rolled back.
Killed(d) ==
    /\ del[d].pc \in Open
    /\ del' = [del EXCEPT ![d] = Ready("killed")]
    /\ UNCHANGED <<rows, audit>>

DeleterStep(d) ==
    \/ RecordAuditEvent(d)
    \/ ReadMemberIds(d)
    \/ ReadAccountIds(d)
    \/ DeleteNext(d)
    \/ DeleteRefused(d)
    \/ Commit(d)
    \/ Deadlock(d)

-----------------------------------------------------------------------------
(* Everybody else *)

\* Another request or the sync worker inserts a row and commits.
Insert(r) ==
    /\ r \notin rows
    /\ Parents[r] \subseteq rows
    /\ \A d \in Deleters : Parents[r] \cap del[d].gone = {}
    /\ Household \subseteq rows
    /\ rows' = rows \cup {r}
    /\ UNCHANGED <<audit, del>>

Next ==
    \/ \E d \in Deleters : Authorize(d) \/ DeleterStep(d) \/ Killed(d)
    \/ \E r \in Rows : Insert(r)

\* A request that has begun runs on; PostgreSQL resolves every deadlock.
Fairness == \A d \in Deleters : WF_vars(DeleterStep(d))

Spec == Init /\ [][Next]_vars /\ Fairness

-----------------------------------------------------------------------------
(* Properties *)

\* From outside a household disappears as a whole, with its audit event and in
\* one step, or not at all, whatever is inserted between two statements and
\* wherever the request stops.
Atomic == INSTANCE AtomicDeletion
ImplementsAtomicDeletion == Atomic!Spec

\* The audit trail has one "household.deleted" event exactly if the household
\* is gone, however many owners asked and however many attempts failed.
AuditedOnce ==
    /\ Cardinality(audit) <= 1
    /\ audit # {} <=> ~Exists("households")

\* Splits, and rows inserted since the first request, are what may refuse it.
Inserted == rows \ Initially # {}

\* If nobody inserts anything, no transaction is split and no request is killed,
\* somebody's deletion succeeds: the statements respect the foreign keys, and of
\* several owners that wait for each other one is let through.
DeletionHappens ==
    (\E d \in Deleters : del[d].pc = "audit") ~>
        \/ ~Exists("households")
        \/ Inserted
        \/ Exists("transaction_splits")
        \/ \E d \in Deleters : del[d].pc = "killed"

\* "Deletes a household and every row that belongs to it, in dependency order"
\* (docstring of delete_household)
NeverRefused == \A d \in Deleters : del[d].pc # "refused"
=============================================================================
