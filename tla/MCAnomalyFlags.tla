--------------------------- MODULE MCAnomalyFlags ---------------------------
(***************************************************************************)
(* Two banks of two members, with histories that each rule finds something *)
(* in: equal charges with another debit between them, a merchant whose     *)
(* older charge is synced later, a payment that changes, and a period that *)
(* outspends the one before, under both spellings of "no category". The    *)
(* windows and samples are scaled down.                                    *)
(***************************************************************************)
EXTENDS AnomalyFlags, TLC

CONSTANTS
    a1, b1,             \* accounts, one at each bank
    bankA, bankB, ana, shop, rent, food,
    m1, m2

Txn(n, a, d, amount, x, c) ==
    [n |-> n, account |-> a, date |-> d, amount |-> amount, text |-> x, category |-> c]

Old == {Txn(1, a1, 0, -1000, rent, food), Txn(2, a1, 1, -1000, NoText, NoCategory)}
Older == {Txn(3, a1, 2, -1200, shop, food)}
Recent == {Txn(4, a1, 3, -6000, shop, NoCategory), Txn(5, a1, 3, -2000, rent, food),
           Txn(6, a1, 4, -6000, shop, Uncategorized)}
OtherBank == {Txn(7, b1, 1, -9000, rent, food), Txn(8, b1, 2, 500, NoText, food)}

TheLedger == Old \cup Older \cup Recent \cup OtherBank
AtFirst == Old \cup OtherBank
TheBatches == {Older, Recent}

Connections == a1 :> bankA @@ b1 :> bankB
Owners == bankA :> ana @@ bankB :> NoMember

Forward == [t \in TheLedger |-> t.n]
Backward == [t \in TheLedger |-> -t.n]
BothTies == {Forward, Backward}

HandledFlags ==
    LET t == CHOOSE x \in TheLedger : x.n = 6
    IN {Flag("duplicate_transaction", t), Flag("manual", t)}

TwoClients == {m1, m2}
Symmetry == Permutations(TwoClients)
=============================================================================
