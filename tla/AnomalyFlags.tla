---------------------------- MODULE AnomalyFlags ----------------------------
(***************************************************************************)
(* The life of the rows of anomaly_flags: the detection at the end of a    *)
(* sync job reads the transactions rule by rule and inserts what is new    *)
(* (run_anomaly_detection); members flag a transaction by hand             *)
(* (api/dashboard.py), review flags and ask for explanations               *)
(* (api/anomalies.py), while other jobs bring in transactions, older ones  *)
(* among them. Every run and every request is one READ COMMITTED           *)
(* transaction, but for the explanation, which commits its rate-limit hit  *)
(* before it calls the provider.                                           *)
(***************************************************************************)
EXTENDS AnomalyRules, Sequences

CONSTANTS
    Workers, Clients,
    Stored,             \* the transactions of earlier jobs, and
    Batches,            \* the sets of them that further syncs bring in
    Ties,               \* the orders the database may give the debits of a day
    FirstDay, LastDay,  \* bound: the days detection runs on
    Handled,            \* bound: the flags that members have requests about
    MaxRequests         \* bound: how many requests are made

ASSUME FlagsAssumption ==
    /\ Stored \subseteq Ledger
    /\ Batches \subseteq SUBSET Ledger
    /\ \A t \in Ledger : t.amount \in Int /\ t.date \in Int
    /\ \A tie \in Ties :
           /\ tie \in [Ledger -> Int]
           /\ \A t, o \in Ledger : tie[t] = tie[o] => t = o
    /\ {FirstDay, LastDay, MaxRequests} \subseteq Nat
    /\ FirstDay <= LastDay

VARIABLES
    txns,       \* the table of transactions
    today,
    status,     \* of each flag, "none" where there is no row
    run, req,   \* the transaction of each worker, the request of each client
    requests,   \* how many requests were made
    checked     \* history: the transactions that a finished run has read

vars == <<txns, today, status, run, req, requests, checked>>

RULES == <<"large_transaction", "duplicate_transaction", "new_merchant",
           "recurring_payment_changed", "category_deviation", "member_deviation">>

InTwoPeriods == {5, 6}

Labels == ({t.category : t \in Ledger} \ {NoCategory}) \cup {Uncategorized}
Members == {OwnerOf[Connection(t)] : t \in Ledger} \ {NoMember}

\* A flag's identity: its rule and its dedupe_key.
Flag(rule, of) == [rule |-> rule, of |-> of]

OfTransaction == {Flag(r, t) : r \in {RULES[i] : i \in 1..4} \cup {"manual"}, t \in Ledger}

OfPeriod ==
    {Flag("category_deviation", [of |-> l, day |-> d]) : l \in Labels, d \in FirstDay..LastDay}
        \cup {Flag("member_deviation", [of |-> m, day |-> d]) : m \in Members, d \in FirstDay..LastDay}

Flags == OfTransaction \cup OfPeriod

\* "confirmed" is to the code as "dismissed" is.
Statuses == {"open", "dismissed"}

ASSUME HandledAssumption == Handled \subseteq Flags

Run ==
    [at    : 0..Len(RULES) + 1,     \* the rule it reads for, 0 before it begins
     half  : BOOLEAN,               \* the current period has been read ...
     rows  : SUBSET Ledger,         \* ... and held these debits ...
     day   : FirstDay..LastDay,     \* ... on this day
     found : SUBSET Flags,
     saw   : SUBSET Ledger]         \* history: what the duplicate rule read

Idle == [at |-> 0, half |-> FALSE, rows |-> {}, day |-> FirstDay, found |-> {}, saw |-> {}]

Request ==
    [pc    : {"flagging", "reviewing", "explaining"},
     flag  : Flags,
     was   : Statuses \cup {"none"},    \* the status it loaded
     wants : Statuses]

NoRequest == [pc |-> "idle"]

TypeOK ==
    /\ txns \subseteq Ledger
    /\ today \in FirstDay..LastDay
    /\ status \in [Flags -> Statuses \cup {"none"}]
    /\ run \in [Workers -> Run]
    /\ req \in [Clients -> Request \cup {NoRequest}]
    /\ requests \in Nat
    /\ checked \subseteq Ledger

Init ==
    /\ txns = Stored
    /\ today = FirstDay
    /\ status = [f \in Flags |-> "none"]
    /\ run = [w \in Workers |-> Idle]
    /\ req = [m \in Clients |-> NoRequest]
    /\ requests = 0
    /\ checked = {}

-----------------------------------------------------------------------------
(* run_anomaly_detection *)

\* What the i-th rule finds in the table, having read r.rows before.
Candidates(i, r, tie) ==
    {Flag(RULES[i], of) : of \in
        CASE i = 1 -> LargeTransactions(txns, today, tie)
          [] i = 2 -> DuplicateTransactions(txns, tie)
          [] i = 3 -> NewMerchants(txns, tie)
          [] i = 4 -> ChangedPayments(txns, tie)
          [] i = 5 -> CategoryDeviations(r.rows, PriorDebits(txns, r.day), r.day)
          [] i = 6 -> MemberDeviations(r.rows, PriorDebits(txns, r.day), r.day)}

Begin(w) ==
    /\ run[w].at = 0
    /\ run' = [run EXCEPT ![w].at = 1]
    /\ UNCHANGED <<txns, today, status, req, requests, checked>>

\* The first statement of a rule that compares two periods ...
ReadCurrent(w) ==
    /\ run[w].at \in InTwoPeriods
    /\ ~run[w].half
    /\ run' = [run EXCEPT ![w].half = TRUE, ![w].rows = CurrentDebits(txns, today),
                          ![w].day = today]
    /\ UNCHANGED <<txns, today, status, req, requests, checked>>

\* ... and the last one of any rule.
ReadRule(w, tie) ==
    /\ run[w].at \in 1..Len(RULES)
    /\ run[w].at \in InTwoPeriods => run[w].half
    /\ run' = [run EXCEPT ![w] = [at    |-> @.at + 1,
                                  half  |-> FALSE,
                                  rows  |-> {},
                                  day   |-> FirstDay,
                                  found |-> @.found \cup Candidates(@.at, @, tie),
                                  saw   |-> IF @.at = 2 THEN txns ELSE @.saw]]
    /\ UNCHANGED <<txns, today, status, req, requests, checked>>

\* A different program: ON CONFLICT DO UPDATE opens what was reviewed.
UpsertFlags(w) ==
    /\ run[w].at = Len(RULES) + 1
    /\ status' = [f \in Flags |-> IF f \in run[w].found THEN "open" ELSE status[f]]
    /\ checked' = checked \cup run[w].saw
    /\ run' = [run EXCEPT ![w] = Idle]
    /\ UNCHANGED <<txns, today, req, requests>>

\* ON CONFLICT DO NOTHING, and the commit in run_sync_job. It waits for a row
\* of the same key that another run has not committed yet.
InsertFlags(w) ==
    /\ run[w].at = Len(RULES) + 1
    /\ status' = [f \in Flags |->
                    IF f \in run[w].found /\ status[f] = "none" THEN "open" ELSE status[f]]
    /\ checked' = checked \cup run[w].saw
    /\ run' = [run EXCEPT ![w] = Idle]
    /\ UNCHANGED <<txns, today, req, requests>>

RollBack(w) ==
    /\ run[w].at # 0
    /\ run' = [run EXCEPT ![w] = Idle]
    /\ UNCHANGED <<txns, today, status, req, requests, checked>>

Detect(w) ==
    \/ Begin(w) \/ ReadCurrent(w) \/ InsertFlags(w) \/ RollBack(w)
    \/ \E tie \in Ties : ReadRule(w, tie)

-----------------------------------------------------------------------------
(* The members' requests *)

\* Every request begins by loading the row of flag f, or finding none.
Load(m, pc, f, s) ==
    /\ req[m].pc = "idle"
    /\ requests < MaxRequests
    /\ requests' = requests + 1
    /\ req' = [req EXCEPT ![m] = [pc |-> pc, flag |-> f, was |-> status[f], wants |-> s]]
    /\ UNCHANGED <<txns, today, status, run, checked>>

LoadForReview(m) ==
    \E f \in Handled, s \in Statuses : status[f] # "none" /\ Load(m, "reviewing", f, s)

LoadForExplain(m) ==
    \E f \in Handled : status[f] # "none" /\ Load(m, "explaining", f, "open")

LoadForFlag(m) ==
    \E f \in Handled :
        f.rule = "manual" /\ f.of \in txns /\ Load(m, "flagging", f, "open")

Answer(m) == req' = [req EXCEPT ![m] = NoRequest]

\* update_anomaly_status: the status it was loaded with emits no UPDATE.
Review(m) ==
    /\ req[m].pc = "reviewing"
    /\ status' = IF req[m].wants = req[m].was THEN status
                 ELSE [status EXCEPT ![req[m].flag] = req[m].wants]
    /\ Answer(m)
    /\ UNCHANGED <<txns, today, run, requests, checked>>

\* A different program: the row is written as it was before the call.
ExplainStale(m) ==
    /\ req[m].pc = "explaining"
    /\ status' = [status EXCEPT ![req[m].flag] = req[m].was]
    /\ Answer(m)
    /\ UNCHANGED <<txns, today, run, requests, checked>>

\* explain_anomaly: after the provider's answer only the explanation and its
\* time are written, which no property tells apart.
Explain(m) ==
    /\ req[m].pc = "explaining"
    /\ Answer(m)
    /\ UNCHANGED <<txns, today, status, run, requests, checked>>

\* A different program: a flag that is there by now is overwritten.
FlagOverwriting(m) ==
    /\ req[m].pc = "flagging"
    /\ status' = IF req[m].was = "open" THEN status
                 ELSE [status EXCEPT ![req[m].flag] = "open"]
    /\ Answer(m)
    /\ UNCHANGED <<txns, today, run, requests, checked>>

\* flag_transaction: an open flag is returned as it is, a reviewed one opened,
\* a missing one inserted.
FlagTransaction(m) ==
    /\ req[m].pc = "flagging"
    /\ req[m].was = "none" => status[req[m].flag] = "none"
    /\ status' = IF req[m].was = "open" THEN status
                 ELSE [status EXCEPT ![req[m].flag] = "open"]
    /\ Answer(m)
    /\ UNCHANGED <<txns, today, run, requests, checked>>

\* The unique constraint when somebody else's insert came first, an error of the
\* provider (which leaves an audit event), or the end of the process.
Fail(m) ==
    /\ req[m].pc # "idle"
    /\ Answer(m)
    /\ UNCHANGED <<txns, today, status, run, requests, checked>>

Serve(m) ==
    \/ LoadForReview(m) \/ LoadForExplain(m) \/ LoadForFlag(m)
    \/ Review(m) \/ Explain(m) \/ FlagTransaction(m) \/ Fail(m)

-----------------------------------------------------------------------------

\* Another job's upsert of what Pluggy reports.
Sync(b) ==
    /\ ~(b \subseteq txns)
    /\ txns' = txns \cup b
    /\ UNCHANGED <<today, status, run, req, requests, checked>>

NextDay ==
    /\ today < LastDay
    /\ today' = today + 1
    /\ UNCHANGED <<txns, status, run, req, requests, checked>>

Next ==
    \/ \E w \in Workers : Detect(w)
    \/ \E m \in Clients : Serve(m)
    \/ \E b \in Batches : Sync(b)
    \/ NextDay

Spec == Init /\ [][Next]_vars

-----------------------------------------------------------------------------
(* Properties *)

\* "a flag the user already reviewed is never resurrected or overwritten by a
\* later sync" (run_anomaly_detection), nor by an explanation that comes late:
\* the status of an existing flag changes only as a member's request says, and
\* only a manual flag is opened by anything but a review.
OnlyMembersReview ==
    [][\A f \in Flags :
          status[f] # "none" /\ status'[f] # status[f] =>
              \E m \in Clients :
                  /\ req[m].pc = "reviewing" \/ (req[m].pc = "flagging" /\ f.rule = "manual")
                  /\ req[m].flag = f
                  /\ status'[f] = req[m].wants]_vars

\* "that constraint alone can't distinguish "never flagged" from "flagged, then
\* dismissed"" (flag_transaction): however requests to flag, review and explain
\* overlap with each other and with runs, a dismissal is taken back only for a member
\* whose request has found the flag dismissed, never for one that found no flag
\* yet, or an open one.
DismissalsAreSeen ==
    [][\A f \in Flags :
          status[f] = "dismissed" /\ status'[f] # "dismissed" =>
              \E m \in Clients :
                  req[m].pc # "idle" /\ req[m].flag = f /\ req[m].was = "dismissed"]_vars

\* In whatever order two equal charges are synced, once a run has read both
\* one of them has been flagged; no debit between them hides the pair.
EveryDuplicateFlagged ==
    \A t, o \in Debits(checked) :
        t # o /\ IsDuplicate(o, t) =>
            \E u \in {t, o} : status[Flag("duplicate_transaction", u)] # "none"

\* "First transaction with ...": of the transactions a run has read, none that
\* comes after a flagged one of the same merchant and bank is flagged. Only a
\* sync of older ones raises the flag again, or another one of the very same day
\* that the database returns first this time.
FirstOfItsMerchant ==
    [][\A w \in Workers :
          InsertFlags(w) =>
              \A t, u \in run[w].saw :
                  /\ t.text = u.text /\ Connection(t) = Connection(u)
                  /\ status[Flag("new_merchant", t)] = "none"
                  /\ status'[Flag("new_merchant", t)] # "none"
                  /\ status'[Flag("new_merchant", u)] # "none"
                  => t.date <= u.date]_vars

\* "never mix spending patterns across unrelated banks": what a run is about to
\* find at one bank does not depend on the transactions of another
\* (_household_debits_by_connection).
BaselinesApart ==
    (\E w \in Workers : run[w].at \in {1, 3}) =>
        \A tie \in Ties : \A c \in {Connection(t) : t \in txns} :
            LET own == {t \in txns : Connection(t) = c}
                at(S) == {t \in S : Connection(t) = c}
            IN /\ at(LargeTransactions(txns, today, tie)) = LargeTransactions(own, today, tie)
               /\ at(NewMerchants(txns, tie)) = NewMerchants(own, tie)
=============================================================================
