------------------------- MODULE TransactionDetail -------------------------
(***************************************************************************)
(* The edits of one transaction (api/dashboard.py): PATCH of its category  *)
(* and PUT of its splits, by several clients of a household, while a sync  *)
(* may report the transaction again. Every request is one READ COMMITTED   *)
(* transaction: its DELETE sees the rows committed when the statement      *)
(* began, waits for rows another open transaction has deleted, and never   *)
(* sees rows committed later.                                              *)
(*                                                                         *)
(* Amounts are in tenths of a cent: the API takes floats, the column is    *)
(* NUMERIC(18, 2).                                                         *)
(***************************************************************************)
EXTENDS Integers, FiniteSets, Sequences, Functions

CONSTANTS
    Clients,        \* who has a request open, one at a time each
    Bodies,         \* the amounts of the "splits" lists clients send
    Amounts,        \* the amounts Pluggy may report
    Categories,
    SplitSumTolerance,
    MaxPuts,        \* bound: no PUT begins after so many commits
    MaxUpserts      \* bound: how often a sync reports the transaction again

ASSUME DetailAssumption ==
    /\ Bodies \subseteq Seq(Int)
    /\ Amounts \subseteq Int
    /\ SplitSumTolerance \in Nat
    /\ MaxPuts \in Nat
    /\ MaxUpserts \in Nat

VARIABLES
    amount, category,   \* the row of transactions
    splits,             \* the rows of transaction_splits
    req,                \* the request of each client
    puts, upserts,      \* how many were committed
    cleared             \* history: what committed PUTs have cleared, as the
                        \* number of the last commit that one of them could see

vars == <<amount, category, splits, req, puts, upserts, cleared>>

-----------------------------------------------------------------------------
(* Amounts *)

Abs(x) == IF x < 0 THEN -x ELSE x

\* NUMERIC(18, 2): half a cent is rounded away from zero.
Rounded(x) ==
    LET cents == 10 * ((Abs(x) + 5) \div 10) IN IF x < 0 THEN -cents ELSE cents

Total(b) == SumFunction(b)

-----------------------------------------------------------------------------
(* State *)

\* The n-th row a PUT inserted. "id" numbers the commits, the rest of a PUT
\* is its client, the amount it loaded and its body.
Put == [id : Nat, by : Clients, of : Amounts, body : Bodies \cup {<< >>}]

Rows(p) == {[put |-> p, n |-> n] : n \in DOMAIN p.body}

Split == [put : Put, n : Nat]

AmountOf(r) == Rounded(r.put.body[r.n])

Request ==
    [pc   : {"idle", "checked", "deleting", "deleted", "patching"},
     body : Bodies \cup {<< >>},
     of   : Amounts,            \* the amount and the category it loaded
     was  : Categories, wants : Categories,
     sees : SUBSET Split,   \* what the DELETE's snapshot holds
     from : Nat,            \* how many commits it holds (history)
     gone : SUBSET Split]   \* what it has deleted, locked until the end

NoRequest(r) == [r EXCEPT !.pc = "idle", !.body = << >>, !.sees = {}, !.from = 0, !.gone = {}]

TypeOK ==
    /\ amount \in Amounts
    /\ category \in Categories
    /\ splits \subseteq Split
    /\ req \in [Clients -> Request]
    /\ puts \in Nat
    /\ upserts \in Nat
    /\ cleared \in Nat

Init ==
    /\ amount \in Amounts
    /\ category \in Categories
    /\ splits = {}
    /\ req = [m \in Clients |-> [pc |-> "idle", body |-> << >>, of |-> amount,
                                 was |-> category, wants |-> category,
                                 sees |-> {}, from |-> 0, gone |-> {}]]
    /\ puts = 0
    /\ upserts = 0
    /\ cleared = 0

-----------------------------------------------------------------------------
(* PUT /transactions/{id}/splits *)

\* A different program: the sign of each split is not compared.
AcceptsAnySign(b) ==
    b # << >> => Abs(Total(b) - amount) <= SplitSumTolerance

\* Neither 400. A difference of exactly the tolerance falls on either side of
\* the comparison of floats; a refused request changes nothing.
Accepts(b) ==
    b # << >> =>
        /\ Abs(Total(b) - amount) <= SplitSumTolerance
        /\ \A n \in DOMAIN b : b[n] < 0 <=> amount < 0

CheckSplits(m) ==
    /\ req[m].pc = "idle"
    /\ puts < MaxPuts
    /\ \E b \in Bodies :
           /\ Accepts(b)
           /\ req' = [req EXCEPT ![m].pc = "checked", ![m].body = b, ![m].of = amount]
    /\ UNCHANGED <<amount, category, splits, puts, upserts, cleared>>

\* The DELETE takes its snapshot ...
StartDelete(m) ==
    /\ req[m].pc = "checked"
    /\ req' = [req EXCEPT ![m].pc = "deleting", ![m].sees = splits, ![m].from = puts]
    /\ UNCHANGED <<amount, category, splits, puts, upserts, cleared>>

\* A different program: one row of the old splits is deleted by its id.
DeleteFirstOnly(m) ==
    /\ req[m].pc = "deleting"
    /\ \A o \in Clients \ {m} : req[o].gone \cap req[m].sees = {}
    /\ req' = [req EXCEPT ![m].pc = "deleted",
                          ![m].gone = {r \in req[m].sees \cap splits : r.n = 1}]
    /\ UNCHANGED <<amount, category, splits, puts, upserts, cleared>>

\* A different program: nothing is deleted when there is nothing to insert.
DeleteUnlessEmpty(m) ==
    /\ req[m].pc = "deleting"
    /\ \A o \in Clients \ {m} : req[o].gone \cap req[m].sees = {}
    /\ req' = [req EXCEPT ![m].pc = "deleted",
                          ![m].gone = IF req[m].body = << >> THEN {} ELSE req[m].sees \cap splits]
    /\ UNCHANGED <<amount, category, splits, puts, upserts, cleared>>

\* ... and ends when nobody else holds a row of it. Rows that were deleted by
\* then are skipped.
EndDelete(m) ==
    /\ req[m].pc = "deleting"
    /\ \A o \in Clients \ {m} : req[o].gone \cap req[m].sees = {}
    /\ req' = [req EXCEPT ![m].pc = "deleted", ![m].gone = req[m].sees \cap splits]
    /\ UNCHANGED <<amount, category, splits, puts, upserts, cleared>>

CommitSplits(m) ==
    /\ req[m].pc = "deleted"
    /\ splits' = (splits \ req[m].gone)
                     \cup Rows([id |-> puts + 1, by |-> m,
                                of |-> req[m].of, body |-> req[m].body])
    /\ puts' = puts + 1
    /\ cleared' = IF req[m].from > cleared THEN req[m].from ELSE cleared
    /\ req' = [req EXCEPT ![m] = NoRequest(@)]
    /\ UNCHANGED <<amount, category, upserts>>

-----------------------------------------------------------------------------
(* PATCH /transactions/{id} *)

LoadCategory(m) ==
    /\ req[m].pc = "idle"
    /\ \E c \in Categories :
           req' = [req EXCEPT ![m].pc = "patching", ![m].was = category, ![m].wants = c]
    /\ UNCHANGED <<amount, category, splits, puts, upserts, cleared>>

\* An attribute set to the value it was loaded with emits no UPDATE.
CommitCategory(m) ==
    /\ req[m].pc = "patching"
    /\ category' = IF req[m].wants = req[m].was THEN category ELSE req[m].wants
    /\ req' = [req EXCEPT ![m] = NoRequest(@)]
    /\ UNCHANGED <<amount, splits, puts, upserts, cleared>>

-----------------------------------------------------------------------------

\* The request fails or the process ends: its transaction is rolled back.
Abort(m) ==
    /\ req[m].pc # "idle"
    /\ req' = [req EXCEPT ![m] = NoRequest(@)]
    /\ UNCHANGED <<amount, category, splits, puts, upserts, cleared>>

\* A different program: an amount Pluggy leaves out is stored as 0.
UpsertMissingAmount ==
    /\ upserts < MaxUpserts
    /\ upserts' = upserts + 1
    /\ amount' = 0
    /\ category' \in Categories
    /\ UNCHANGED <<splits, req, puts, cleared>>

\* upsert_transactions: a second run of the job, by another worker, overwrites
\* what Pluggy reports and leaves the splits alone.
UpsertTransactions ==
    /\ upserts < MaxUpserts
    /\ upserts' = upserts + 1
    /\ amount' \in Amounts
    /\ category' \in Categories
    /\ UNCHANGED <<splits, req, puts, cleared>>

Edit(m) ==
    \/ CheckSplits(m) \/ StartDelete(m) \/ EndDelete(m) \/ CommitSplits(m)
    \/ LoadCategory(m) \/ CommitCategory(m)
    \/ Abort(m)

Next == UpsertTransactions \/ \E m \in Clients : Edit(m)

Spec == Init /\ [][Next]_vars

-----------------------------------------------------------------------------
(* Properties *)

\* A set of rows that holds every row of each PUT it holds a row of.
Whole(S) == \A r \in S : Rows(r.put) \subseteq S

\* However requests interleave, the splits are whole bodies: a PUT's rows come
\* and go together, so a breakdown by category never shows half of somebody's edit.
NoHalfBody == Whole(splits)

\* What is true of "Full-replace semantics [...] deletes whatever splits exist"
\* (docstring of update_transaction_splits): what was committed when the DELETE of a
\* PUT began is gone for good once the PUT has committed, also if the PUT only
\* clears the splits. Bodies stand side by side only if their PUTs overlapped, and
\* leftovers do not pile up.
OnlyOverlappingStay == \A r \in splits : r.put.id > cleared

\* What the rows of a PUT that are still there add up to.
StoredTotal(p) ==
    SumFunctionOnSet([n \in DOMAIN p.body |-> AmountOf([put |-> p, n |-> n])],
                     {r.n : r \in {s \in splits : s.put = p}})

\* What is true of "it never changes the total" (the same docstring) of each PUT by
\* itself: its rows miss the amount it was checked against by the tolerance and half
\* a cent of rounding for each row, and none has the other sign. (Two bodies that
\* overlapping PUTs have left side by side add up to about twice the amount.)
SumNearChecked ==
    \A p \in {r.put : r \in splits} :
        /\ Abs(StoredTotal(p) - p.of) <= SplitSumTolerance + 5 * Len(p.body)
        /\ \A n \in DOMAIN p.body :
               Rounded(p.body[n]) # 0 => (Rounded(p.body[n]) < 0 <=> p.of < 0)
=============================================================================
