----------------------------- MODULE SyncWorker -----------------------------
(***************************************************************************)
(* The sync worker (backend/app/workers/sync_worker.py) beside the API     *)
(* handlers that create its jobs and delete the rows it works on. A step   *)
(* of a worker ends at a commit, at a rollback or at an answer of Pluggy.  *)
(*                                                                         *)
(* SQLAlchemy expires the job and connection objects at each commit and    *)
(* rollback, so the next attribute access reads the row again and raises   *)
(* when it is gone; the except clauses log job.id and raise once more, and *)
(* nothing above them catches: the worker process ends (LoseRow).          *)
(***************************************************************************)
EXTENDS SyncParts

CONSTANTS
    Workers,        \* worker processes
    ItemStatuses,   \* values of a Pluggy item's "status"
    MaxAttempts,    \* MAX_ATTEMPTS of _call_with_retry
    NoConnection,   \* run[w].conn between two jobs
    NoStatus        \* no status: get_item has not answered, or there is no row

ASSUME WorkerAssumption ==
    /\ MaxAttempts \in Nat \ {0}
    /\ NoConnection \notin Connections
    /\ NoStatus \notin ItemStatuses

VARIABLES
    households,     \* the households that exist
    jobStatus,      \* sync_jobs.status of each connection
    connStatus,     \* pluggy_connections.status
    stored,         \* the parts of each connection that have been committed
    run             \* the local state of each worker process

dbVars == <<households, jobStatus, connStatus, stored>>
vars == <<households, jobStatus, connStatus, stored, run>>

Verdicts == {"completed", "partially_completed", "failed"}
Statuses == {"absent", "queued", "running", "deleted"} \cup Verdicts

\* Where a worker can be: not running, between two jobs, or in a job.
Calling == {"authenticate", "item", "accounts", "fetch"}
Saving == {"upsert_accounts", "save", "finish"}
InJob == Calling \cup Saving
PCs == {"dead", "polling", "picking"} \cup InJob

NoPlace == At("finished", NoConnection)

RunType ==
    [pc      : PCs,
     todo    : SUBSET Connections,                \* the jobs list not yet run
     conn    : Connections \cup {NoConnection},   \* job and connection of this run
     place   : Place \cup {NoPlace},              \* the part being worked on
     left    : SUBSET Accounts,                   \* accounts the loop has not reached
     attempt : 1..MaxAttempts,
     failed  : BOOLEAN,                           \* any_account_failed
     item    : ItemStatuses \cup {NoStatus},      \* connection.status, not yet flushed
     tx      : BOOLEAN]                           \* a database transaction is open

TypeOK ==
    /\ households \subseteq Households
    /\ jobStatus \in [Connections -> Statuses]
    /\ connStatus \in [Connections -> ItemStatuses \cup {NoStatus}]
    /\ stored \in [Connections -> SUBSET Part]
    /\ run \in [Workers -> RunType]

Exists(c) == jobStatus[c] \in {"queued", "running"} \cup Verdicts

\* A worker without a job.
Idle(pc, todo) ==
    [pc |-> pc, todo |-> todo, conn |-> NoConnection, place |-> NoPlace, left |-> {},
     attempt |-> 1, failed |-> FALSE, item |-> NoStatus, tx |-> FALSE]

Init ==
    /\ households = Households
    /\ jobStatus = [c \in Connections |-> "absent"]
    /\ connStatus = [c \in Connections |-> NoStatus]
    /\ stored = [c \in Connections |-> {}]
    /\ run = [w \in Workers |-> Idle("polling", {})]

-----------------------------------------------------------------------------
(* The API processes *)

\* create_connection once Pluggy has confirmed the item: the connection and
\* its queued job are committed together.
CreateConnection(c, st) ==
    /\ jobStatus[c] = "absent"
    /\ HouseholdOf[c] \in households
    /\ connStatus' = [connStatus EXCEPT ![c] = st]
    /\ jobStatus' = [jobStatus EXCEPT ![c] = "queued"]
    /\ UNCHANGED <<households, stored, run>>

\* delete_household_endpoint, one transaction (HouseholdDeletion has its steps).
DeleteHousehold(h) ==
    /\ h \in households
    /\ households' = households \ {h}
    /\ jobStatus' = [c \in Connections |->
                        IF HouseholdOf[c] = h /\ Exists(c) THEN "deleted" ELSE jobStatus[c]]
    /\ stored' = [c \in Connections |-> IF HouseholdOf[c] = h THEN {} ELSE stored[c]]
    /\ connStatus' = [c \in Connections |-> IF HouseholdOf[c] = h THEN NoStatus ELSE connStatus[c]]
    /\ UNCHANGED run

-----------------------------------------------------------------------------
(* The polling loop *)

\* A different program: jobs that were left "running" are picked up again.
QueuedOrRunning == {c \in Connections : jobStatus[c] \in {"queued", "running"}}

Queued == {c \in Connections : jobStatus[c] = "queued"}

\* The list is read once, and nothing locks or claims its rows.
Poll(w) ==
    /\ run[w].pc = "polling"
    /\ Queued # {}
    /\ run' = [run EXCEPT ![w].pc = "picking", ![w].todo = Queued]
    /\ UNCHANGED dbVars

ListDone(w) ==
    /\ run[w].pc = "picking"
    /\ run[w].todo = {}
    /\ run' = [run EXCEPT ![w].pc = "polling"]
    /\ UNCHANGED dbVars

\* The status is written whatever it has become since the list was read.
StartJob(w, c) ==
    /\ run[w].pc = "picking"
    /\ c \in run[w].todo
    /\ Exists(c)
    /\ jobStatus' = [jobStatus EXCEPT ![c] = "running"]
    /\ run' = [run EXCEPT ![w] = [Idle("authenticate", @.todo \ {c}) EXCEPT
                                      !.conn = c, !.place = At("accounts", c)]]
    /\ UNCHANGED <<households, connStatus, stored>>

-----------------------------------------------------------------------------
(* Calls of Pluggy *)

\* Arguments that are attributes of the connection are read from the
\* database before the first attempt: that opens a transaction.
ReadsItemId(r) ==
    \/ r.pc = "item"
    \/ r.pc = "fetch" /\ r.place.kind \in {"investments", "loans"}

ReadItemId(w) ==
    /\ ReadsItemId(run[w])
    /\ ~run[w].tx
    /\ Exists(run[w].conn)
    /\ run' = [run EXCEPT ![w].tx = TRUE]
    /\ UNCHANGED dbVars

\* The arguments are evaluated and the coroutine awaits Pluggy.
Awaiting(r) == r.pc \in Calling /\ (ReadsItemId(r) => r.tx)

\* A different program: the attempts are counted from zero.
CallFailsOnceMore(w) ==
    /\ Awaiting(run[w])
    /\ run[w].attempt <= MaxAttempts
    /\ run' = [run EXCEPT ![w].attempt = @ + 1]
    /\ UNCHANGED dbVars

CallFails(w) ==
    /\ Awaiting(run[w])
    /\ run[w].attempt < MaxAttempts
    /\ run' = [run EXCEPT ![w].attempt = @ + 1]
    /\ UNCHANGED dbVars

Authenticate(w) ==
    /\ run[w].pc = "authenticate"
    /\ run' = [run EXCEPT ![w].pc = "item", ![w].attempt = 1]
    /\ UNCHANGED dbVars

\* A different program: the item's status is committed at once.
GetItemAndCommit(w, st) ==
    /\ run[w].pc = "item"
    /\ Awaiting(run[w])
    /\ Exists(run[w].conn)
    /\ connStatus' = [connStatus EXCEPT ![run[w].conn] = st]
    /\ run' = [run EXCEPT ![w].pc = "accounts", ![w].attempt = 1, ![w].tx = FALSE]
    /\ UNCHANGED <<households, jobStatus, stored>>

GetItem(w, st) ==
    /\ run[w].pc = "item"
    /\ Awaiting(run[w])
    /\ run' = [run EXCEPT ![w].pc = "accounts", ![w].attempt = 1, ![w].item = st]
    /\ UNCHANGED dbVars

GetAccounts(w) ==
    /\ run[w].pc = "accounts"
    /\ run' = [run EXCEPT ![w].pc = "upsert_accounts", ![w].attempt = 1,
                          ![w].left = AccountsOf[run[w].conn]]
    /\ UNCHANGED dbVars

\* Transactions (all pages), bills, investments or loans.
Fetch(w) ==
    /\ run[w].pc = "fetch"
    /\ Awaiting(run[w])
    /\ run' = [run EXCEPT ![w].pc = "save", ![w].attempt = 1]
    /\ UNCHANGED dbVars

-----------------------------------------------------------------------------
(* Commits and rollbacks *)

PcAt(p) ==
    IF p.kind = "finished" THEN "finish"
    ELSE IF p.kind \in AccountKinds \cup {"investments", "loans"} THEN "fetch"
    ELSE "save"

\* A different program: any_account_failed is assigned after each part.
AdvanceForgetting(w, failure) ==
    LET r == run[w] IN
    \E p \in Place :
        /\ Follows(r.conn, r.place, r.left, p)
        /\ run' = [run EXCEPT ![w] = [r EXCEPT !.pc = PcAt(p), !.place = p,
                                               !.left = @ \ {p.of}, !.attempt = 1,
                                               !.failed = failure, !.tx = FALSE]]

\* Leaves the current part with its outcome for the next one.
Advance(w, failure) ==
    LET r == run[w] IN
    \E p \in Place :
        /\ Follows(r.conn, r.place, r.left, p)
        /\ run' = [run EXCEPT ![w] = [r EXCEPT !.pc = PcAt(p), !.place = p,
                                               !.left = @ \ {p.of}, !.attempt = 1,
                                               !.failed = @ \/ failure, !.tx = FALSE]]

\* The commit in the finally clause flushes the item status get_item returned.
ItemStatus(r) == IF r.item = NoStatus THEN connStatus[r.conn] ELSE r.item

\* A different program: the failed job's status is not written.
FailJobSilently(w) ==
    LET c == run[w].conn IN
    /\ Exists(c)
    /\ connStatus' = [connStatus EXCEPT ![c] = ItemStatus(run[w])]
    /\ run' = [run EXCEPT ![w] = Idle("picking", @.todo)]
    /\ UNCHANGED <<households, jobStatus, stored>>

FailJob(w) ==
    LET c == run[w].conn IN
    /\ Exists(c)
    /\ jobStatus' = [jobStatus EXCEPT ![c] = "failed"]
    /\ connStatus' = [connStatus EXCEPT ![c] = ItemStatus(run[w])]
    /\ run' = [run EXCEPT ![w] = Idle("picking", @.todo)]
    /\ UNCHANGED <<households, stored>>

\* The last attempt at authenticate, get_item or get_accounts fails.
GiveUpJob(w) ==
    /\ run[w].pc \in {"authenticate", "item", "accounts"}
    /\ Awaiting(run[w])
    /\ run[w].attempt = MaxAttempts
    /\ FailJob(w)

\* An account that upsert_accounts cannot turn into a row: no SQL has run yet.
AccountsMalformed(w) ==
    /\ run[w].pc = "upsert_accounts"
    /\ run[w].left # {}
    /\ FailJob(w)

\* The statement itself fails. Nothing rolls the transaction back before the
\* commit in the finally clause, which raises: the job stays "running".
UpsertAccountsFails(w) ==
    /\ run[w].pc = "upsert_accounts"
    /\ run[w].left # {}
    /\ Exists(run[w].conn)
    /\ run' = [run EXCEPT ![w] = Idle("dead", {})]
    /\ UNCHANGED dbVars

UpsertAccounts(w) ==
    LET c == run[w].conn IN
    /\ run[w].pc = "upsert_accounts"
    /\ Exists(c)
    /\ stored' = [stored EXCEPT ![c] = @ \cup {At("accounts", c)}]
    /\ connStatus' = [connStatus EXCEPT ![c] = ItemStatus(run[w])]
    /\ Advance(w, FALSE)
    /\ UNCHANGED <<households, jobStatus>>

\* A different program: a call given up is logged but not counted.
GiveUpFetchUncounted(w) ==
    /\ run[w].pc = "fetch"
    /\ Awaiting(run[w])
    /\ run[w].attempt = MaxAttempts
    /\ Exists(run[w].conn)
    /\ Advance(w, FALSE)
    /\ UNCHANGED dbVars

\* The last attempt at a part's call fails: log, rollback, go on.
GiveUpFetch(w) ==
    /\ run[w].pc = "fetch"
    /\ Awaiting(run[w])
    /\ run[w].attempt = MaxAttempts
    /\ Exists(run[w].conn)
    /\ Advance(w, TRUE)
    /\ UNCHANGED dbVars

Save(w) ==
    LET c == run[w].conn IN
    /\ run[w].pc = "save"
    /\ Exists(c)
    /\ stored' = [stored EXCEPT ![c] = @ \cup {run[w].place}]
    /\ Advance(w, FALSE)
    /\ UNCHANGED <<households, jobStatus, connStatus>>

\* A different program: a failed save is logged but not counted.
SaveFailsUncounted(w) ==
    /\ run[w].pc = "save"
    /\ Exists(run[w].conn)
    /\ Advance(w, FALSE)
    /\ UNCHANGED dbVars

SaveFails(w) ==
    /\ run[w].pc = "save"
    /\ Exists(run[w].conn)
    /\ Advance(w, TRUE)
    /\ UNCHANGED dbVars

FinishJob(w) ==
    LET c == run[w].conn IN
    /\ run[w].pc = "finish"
    /\ Exists(c)
    /\ jobStatus' = [jobStatus EXCEPT ![c] =
                        IF run[w].failed THEN "partially_completed" ELSE "completed"]
    /\ run' = [run EXCEPT ![w] = Idle("picking", @.todo)]
    /\ UNCHANGED <<households, connStatus, stored>>

-----------------------------------------------------------------------------
(* The end of a worker process *)

\* The next thing the worker does reads or writes a row.
TouchesRow(r) ==
    \/ r.pc \in Saving
    \/ ReadsItemId(r) /\ ~r.tx
    \/ Awaiting(r) /\ r.attempt = MaxAttempts

LoseRow(w) ==
    /\ \/ run[w].pc = "picking" /\ \E c \in run[w].todo : ~Exists(c)
       \/ run[w].pc \in InJob /\ TouchesRow(run[w]) /\ ~Exists(run[w].conn)
    /\ run' = [run EXCEPT ![w] = Idle("dead", {})]
    /\ UNCHANGED dbVars

\* The process is killed; an open transaction is rolled back by the server.
Crash(w) ==
    /\ run[w].pc # "dead"
    /\ run' = [run EXCEPT ![w] = Idle("dead", {})]
    /\ UNCHANGED dbVars

Restart(w) ==
    /\ run[w].pc = "dead"
    /\ run' = [run EXCEPT ![w].pc = "polling"]
    /\ UNCHANGED dbVars

-----------------------------------------------------------------------------
WorkerStep(w) ==
    \/ Poll(w)
    \/ ListDone(w)
    \/ \E c \in Connections : StartJob(w, c)
    \/ ReadItemId(w)
    \/ CallFails(w)
    \/ Authenticate(w)
    \/ \E st \in ItemStatuses : GetItem(w, st)
    \/ GetAccounts(w)
    \/ Fetch(w)
    \/ GiveUpJob(w)
    \/ AccountsMalformed(w)
    \/ UpsertAccountsFails(w)
    \/ UpsertAccounts(w)
    \/ GiveUpFetch(w)
    \/ Save(w)
    \/ SaveFails(w)
    \/ FinishJob(w)
    \/ LoseRow(w)

Api ==
    \/ \E c \in Connections, st \in ItemStatuses : CreateConnection(c, st)
    \/ \E h \in Households : DeleteHousehold(h)

Processes ==
    \/ Api
    \/ \E w \in Workers : WorkerStep(w)

Next ==
    \/ Processes
    \/ \E w \in Workers : Crash(w) \/ Restart(w)

Spec == Init /\ [][Next]_vars

\* A worker process is never blocked: Pluggy's client has a timeout and the
\* loop runs for ever. Nobody promises that a dead worker is restarted.
Fairness == \A w \in Workers : WF_vars(WorkerStep(w))

FairSpec == Spec /\ Fairness

\* No process is killed from outside.
QuietSpec == Init /\ [][Processes]_vars /\ Fairness

-----------------------------------------------------------------------------
(* Properties *)

\* A job that reads "completed" has saved every part of its connection, also
\* when several workers run the same job (run_sync_job keeps going after a
\* failed part, and any_account_failed must remember it).
CompletedIsComplete ==
    \A c \in Connections : jobStatus[c] = "completed" => PartsOf(c) \subseteq stored[c]

\* What each run knows of its connection: nothing it has left behind is missing
\* unless any_account_failed is set. This is what makes "completed" true.
RunKnows(r) ==
    /\ \A c \in r.todo : jobStatus[c] # "absent"
    /\ r.pc \in InJob =>
            /\ r.conn \in Connections
            /\ jobStatus[r.conn] # "absent"
            /\ r.left \subseteq AccountsOf[r.conn]
            /\ r.pc \in {"authenticate", "item", "accounts", "upsert_accounts"} =>
                   r.place = At("accounts", r.conn)
            /\ r.pc = "upsert_accounts" => r.left = AccountsOf[r.conn]
            /\ r.pc \in {"fetch", "save"} =>
                   r.place \in PartsOf(r.conn) \ {At("accounts", r.conn)}
            /\ r.pc = "finish" => r.place = At("finished", r.conn)
            /\ Exists(r.conn) /\ ~r.failed =>
                   Behind(r.conn, r.place, r.left) \subseteq stored[r.conn]

RunsKeepCount == \A w \in Workers : RunKnows(run[w])

\* The status get_item reported becomes visible together with the account rows
\* of that run, or with the verdict "failed"; never on its own.
StatusPublishedWithAccounts ==
    [][\A c \in Connections :
          connStatus'[c] # connStatus[c] =>
              \/ jobStatus[c] = "absent"
              \/ jobStatus'[c] = "deleted"
              \/ jobStatus'[c] = "failed"
              \/ At("accounts", c) \in stored'[c]]_vars

\* A "running" job that no worker holds any more is never taken up again: only
\* "queued" rows are read, so after a crash its status is final until the
\* household is deleted.
Held(c) == \E w \in Workers : run[w].conn = c \/ c \in run[w].todo

AbandonedIsFinal ==
    [][\A c \in Connections :
          jobStatus[c] = "running" /\ ~Held(c) =>
              jobStatus'[c] \in {"running", "deleted"} /\ ~Held(c)']_vars

\* A queued job gets its verdict, unless its household is deleted or the
\* workers die on the way.
QueuedIsServed ==
    \A c \in Connections :
        jobStatus[c] = "queued" ~>
            \/ jobStatus[c] \in Verdicts \cup {"deleted"}
            \/ \E w \in Workers : run[w].pc = "dead"

\* With one worker, jobs behave as SyncJobs promises: each runs at most once,
\* and the verdict says exactly whether all, some or no parts were saved.
Jobs == INSTANCE SyncJobs WITH
            households <- households, jobStatus <- jobStatus,
            connStatus <- connStatus, stored <- stored
ImplementsSyncJobs == Jobs!Spec

\* "Never leaves a database transaction open while waiting on Pluggy" (docstring
\* of run_sync_job).
NeverOpenWhileWaiting == \A w \in Workers : Awaiting(run[w]) => ~run[w].tx

\* "Runs one sync job to completion, updating its status as it goes"
\* (docstring of run_sync_job): a worker that leaves a job leaves a verdict.
RunsToCompletion ==
    \A c \in Connections : jobStatus[c] = "running" => \E w \in Workers : run[w].conn = c
=============================================================================
