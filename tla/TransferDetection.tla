------------------------- MODULE TransferDetection -------------------------
(***************************************************************************)
(* detect_internal_transfers (services/transfer_detection.py) of one       *)
(* household. It runs near the end of every sync job, so rows of other     *)
(* connections arrive between two runs, and two workers may run it at the  *)
(* same time. A run reads the rows not yet marked, pairs debits with       *)
(* credits in memory, and marks both legs of every pair in one commit.     *)
(***************************************************************************)
EXTENDS Integers, FiniteSets

CONSTANTS
    Transactions,   \* the transactions Pluggy may ever report
    Workers,
    AccountOf, Amount, Day,     \* what Pluggy says of each transaction
    TransferMatchWindowDays,
    Moments                     \* bound: the times rows are inserted at

ASSUME TransferAssumption ==
    /\ IsFiniteSet(Transactions)
    /\ Amount \in [Transactions -> Int]
    /\ Day \in [Transactions -> Int]
    /\ TransferMatchWindowDays \in Nat
    /\ Moments \in Nat

VARIABLES
    createdAt,  \* when a row was inserted, 0 if it was not yet
    isTransfer, \* the rows whose is_transfer is true
    run,        \* the run of each worker
    paired,     \* history: the pairs <<debit, credit>> committed so far
    overlap     \* history: one run began during another

vars == <<createdAt, isTransfer, run, paired, overlap>>

Stored == {t \in Transactions : createdAt[t] > 0}

Legs(pairs) == {p[1] : p \in pairs} \cup {p[2] : p \in pairs}

Run ==
    [pc    : {"idle", "matching", "done"},
     seen  : SUBSET Transactions,      \* the list "unmatched"
     left  : SUBSET Transactions,      \* debits the loop has not reached
     pairs : SUBSET (Transactions \X Transactions)]

Idle == [pc |-> "idle", seen |-> {}, left |-> {}, pairs |-> {}]

TypeOK ==
    /\ createdAt \in [Transactions -> Nat]
    /\ isTransfer \subseteq Transactions
    /\ run \in [Workers -> Run]
    /\ paired \subseteq Transactions \X Transactions
    /\ overlap \in BOOLEAN

Init ==
    /\ createdAt = [t \in Transactions |-> 0]
    /\ isTransfer = {}
    /\ run = [w \in Workers |-> Idle]
    /\ paired = {}
    /\ overlap = FALSE

-----------------------------------------------------------------------------
(* upsert_transactions *)

\* The rows of one account are inserted in one statement and share their
\* created_at, the start of the transaction, which says nothing of the order of
\* the commits. is_transfer starts as false and is never part of an update.
UpsertTransactions(S) ==
    /\ S # {}
    /\ S \cap Stored = {}
    /\ \A t, u \in S : AccountOf[t] = AccountOf[u]
    /\ \E now \in 1..Moments :
           createdAt' = [t \in Transactions |-> IF t \in S THEN now ELSE createdAt[t]]
    /\ UNCHANGED <<isTransfer, run, paired, overlap>>

-----------------------------------------------------------------------------
(* detect_internal_transfers *)

Unmatched == {t \in Stored : t \notin isTransfer /\ Amount[t] # 0}

Debits(S) == {t \in S : Amount[t] < 0}
Credits(S) == {t \in S : Amount[t] > 0}

\* t comes no later than u in ORDER BY transaction_date, created_at. Rows of
\* one statement on one day come in any order.
NoLater(t, u) ==
    \/ Day[t] < Day[u]
    \/ Day[t] = Day[u] /\ createdAt[t] <= createdAt[u]

First(S) == {t \in S : \A u \in S : NoLater(t, u)}

DateGap(t, u) == IF Day[t] < Day[u] THEN Day[u] - Day[t] ELSE Day[t] - Day[u]

\* A different program: the window is one day shorter.
EligibleWithin(d, r) ==
    {c \in Credits(r.seen) \ Legs(r.pairs) :
        /\ AccountOf[c] # AccountOf[d]
        /\ Amount[c] = -Amount[d]
        /\ DateGap(d, c) < TransferMatchWindowDays}

\* A different program: matched_credit_ids is forgotten.
EligibleTwice(d, r) ==
    {c \in Credits(r.seen) :
        /\ AccountOf[c] # AccountOf[d]
        /\ Amount[c] = -Amount[d]
        /\ DateGap(d, c) <= TransferMatchWindowDays}

\* The credits _find_match does not pass over for debit d.
Eligible(d, r) ==
    {c \in Credits(r.seen) \ Legs(r.pairs) :
        /\ AccountOf[c] # AccountOf[d]
        /\ Amount[c] = -Amount[d]
        /\ DateGap(d, c) <= TransferMatchWindowDays}

ReadUnmatched(w) ==
    /\ run[w].pc # "matching"
    /\ run' = [run EXCEPT ![w] = [pc |-> "matching", seen |-> Unmatched,
                                  left |-> Debits(Unmatched), pairs |-> {}]]
    /\ overlap' = (overlap \/ \E v \in Workers : run[v].pc = "matching")
    /\ UNCHANGED <<createdAt, isTransfer, paired>>

\* A different program: the case without a match is not skipped.
MatchDebitOrNone(w) ==
    /\ run[w].pc = "matching"
    /\ \E d \in First(run[w].left) :
           \/ \E c \in First(Eligible(d, run[w])) :
                  run' = [run EXCEPT ![w].left = @ \ {d}, ![w].pairs = @ \cup {<<d, c>>}]
           \/ /\ Eligible(d, run[w]) = {}
              /\ run' = [run EXCEPT ![w].left = @ \ {d}, ![w].pairs = @ \cup {<<d>>}]
    /\ UNCHANGED <<createdAt, isTransfer, paired, overlap>>

\* One round of the loop over the debits, with a match or without.
MatchDebit(w) ==
    /\ run[w].pc = "matching"
    /\ \E d \in First(run[w].left) :
           \/ \E c \in First(Eligible(d, run[w])) :
                  run' = [run EXCEPT ![w].left = @ \ {d}, ![w].pairs = @ \cup {<<d, c>>}]
           \/ /\ Eligible(d, run[w]) = {}
              /\ run' = [run EXCEPT ![w].left = @ \ {d}]
    /\ UNCHANGED <<createdAt, isTransfer, paired, overlap>>

\* A different program: the debit is marked, its match is not.
CommitDebitsOnly(w) ==
    /\ run[w].pc = "matching"
    /\ run[w].left = {}
    /\ isTransfer' = isTransfer \cup {p[1] : p \in run[w].pairs}
    /\ paired' = paired \cup run[w].pairs
    /\ run' = [run EXCEPT ![w].pc = "done"]
    /\ UNCHANGED <<createdAt, overlap>>

\* The commit in run_sync_job writes both legs of every pair.
Commit(w) ==
    /\ run[w].pc = "matching"
    /\ run[w].left = {}
    /\ isTransfer' = isTransfer \cup Legs(run[w].pairs)
    /\ paired' = paired \cup run[w].pairs
    /\ run' = [run EXCEPT ![w].pc = "done"]
    /\ UNCHANGED <<createdAt, overlap>>

\* An error, or the end of the process: nothing is written.
RollBack(w) ==
    /\ run[w].pc = "matching"
    /\ run' = [run EXCEPT ![w] = Idle]
    /\ UNCHANGED <<createdAt, isTransfer, paired, overlap>>

Detect(w) == ReadUnmatched(w) \/ MatchDebit(w) \/ Commit(w) \/ RollBack(w)

Next ==
    \/ \E S \in SUBSET Transactions : UpsertTransactions(S)
    \/ \E w \in Workers : Detect(w)

Spec == Init /\ [][Next]_vars

-----------------------------------------------------------------------------
(* Properties *)

\* design.md, Data Model: "match on amount, direction, and a short time window
\* across linked accounts".
Counterparts(d, c) ==
    /\ Amount[d] < 0
    /\ Amount[d] + Amount[c] = 0
    /\ AccountOf[d] # AccountOf[c]
    /\ Day[c] - Day[d] \in -TransferMatchWindowDays..TransferMatchWindowDays

\* The marked rows fall into disjoint pairs of counterparts, so that they net
\* out ("net out both legs", docstring and design.md) ...
MarkedInPairs ==
    /\ isTransfer = Legs(paired)
    /\ \A p \in paired : Counterparts(p[1], p[2])
    /\ \A p, q \in paired : p # q => p[1] # q[1] /\ p[2] # q[2]

\* ... whatever arrived between and during the runs that made them, as long as no
\* two runs overlapped. (Two that do may pair one debit with two credits.)
SerialRunsMarkPairs == ~overlap => MarkedInPairs

\* No row is hidden from the totals alone: with any number of workers, whose
\* runs read before each other's commits, the other half of a marked row is marked.
NoLegAlone ==
    \A t \in isTransfer : \E u \in isTransfer : Counterparts(t, u) \/ Counterparts(u, t)

\* A finished run has left no two counterparts among the rows it saw: first
\* come, first served loses no match that is still possible.
NothingLeftToMatch ==
    \A w \in Workers : run[w].pc = "done" =>
        \A d, c \in run[w].seen : Counterparts(d, c) => d \in isTransfer \/ c \in isTransfer
=============================================================================
