------------------------------ MODULE SyncJobs ------------------------------
(***************************************************************************)
(* What a household is promised about its sync jobs (PLAN.md, "Sync" and   *)
(* the statuses queued, running, completed, failed, partially_completed):  *)
(* a job runs once, and its final status tells which data was saved.       *)
(* SyncWorker implements this specification when one worker runs.          *)
(***************************************************************************)
EXTENDS SyncParts

CONSTANTS
    ItemStatuses,   \* values of a Pluggy item's "status"
    NoStatus        \* stands for the status of a connection that has no row

VARIABLES
    households,     \* the households that exist
    jobStatus,      \* sync_jobs.status of each connection
    connStatus,     \* pluggy_connections.status
    stored          \* the parts of each connection that have been committed

vars == <<households, jobStatus, connStatus, stored>>

Verdicts == {"completed", "partially_completed", "failed"}
Statuses == {"absent", "queued", "running", "deleted"} \cup Verdicts

Exists(c) == jobStatus[c] \in {"queued", "running"} \cup Verdicts

TypeOK ==
    /\ households \subseteq Households
    /\ jobStatus \in [Connections -> Statuses]
    /\ connStatus \in [Connections -> ItemStatuses \cup {NoStatus}]
    /\ stored \in [Connections -> SUBSET Part]

Init ==
    /\ households = Households
    /\ jobStatus = [c \in Connections |-> "absent"]
    /\ connStatus = [c \in Connections |-> NoStatus]
    /\ stored = [c \in Connections |-> {}]

SetStatus(c, s) == jobStatus' = [jobStatus EXCEPT ![c] = s]

Create(c) ==
    /\ jobStatus[c] = "absent"
    /\ HouseholdOf[c] \in households
    /\ \E st \in ItemStatuses : connStatus' = [connStatus EXCEPT ![c] = st]
    /\ SetStatus(c, "queued")
    /\ UNCHANGED <<households, stored>>

Begin(c) ==
    /\ jobStatus[c] = "queued"
    /\ SetStatus(c, "running")
    /\ UNCHANGED <<households, connStatus, stored>>

\* The account rows and the connection's status are published together.
StoreAccounts(c) ==
    /\ jobStatus[c] = "running"
    /\ stored[c] = {}
    /\ stored' = [stored EXCEPT ![c] = {At("accounts", c)}]
    /\ \E st \in ItemStatuses : connStatus' = [connStatus EXCEPT ![c] = st]
    /\ UNCHANGED <<households, jobStatus>>

StorePart(c) ==
    /\ jobStatus[c] = "running"
    /\ At("accounts", c) \in stored[c]
    /\ \E p \in PartsOf(c) \ stored[c] :
           stored' = [stored EXCEPT ![c] = @ \cup {p}]
    /\ UNCHANGED <<households, jobStatus, connStatus>>

\* The verdict is a function of what was saved.
Complete(c) ==
    /\ jobStatus[c] = "running"
    /\ stored[c] # {}
    /\ SetStatus(c, IF stored[c] = PartsOf(c) THEN "completed" ELSE "partially_completed")
    /\ UNCHANGED <<households, connStatus, stored>>

Fail(c) ==
    /\ jobStatus[c] = "running"
    /\ stored[c] = {}
    /\ SetStatus(c, "failed")
    /\ \E st \in ItemStatuses : connStatus' = [connStatus EXCEPT ![c] = st]
    /\ UNCHANGED <<households, stored>>

Delete(h) ==
    /\ h \in households
    /\ households' = households \ {h}
    /\ jobStatus' = [c \in Connections |->
                        IF HouseholdOf[c] = h /\ Exists(c) THEN "deleted" ELSE jobStatus[c]]
    /\ stored' = [c \in Connections |-> IF HouseholdOf[c] = h THEN {} ELSE stored[c]]
    /\ connStatus' = [c \in Connections |-> IF HouseholdOf[c] = h THEN NoStatus ELSE connStatus[c]]

Next ==
    \/ \E c \in Connections :
           \/ Create(c)
           \/ Begin(c)
           \/ StoreAccounts(c)
           \/ StorePart(c)
           \/ Complete(c)
           \/ Fail(c)
    \/ \E h \in Households : Delete(h)

Spec == Init /\ [][Next]_vars
=============================================================================
