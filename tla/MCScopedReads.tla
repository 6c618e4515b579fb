--------------------------- MODULE MCScopedReads ---------------------------
(***************************************************************************)
(* The first bank is nobody's: who connected it is no longer a member. Bia *)
(* connects the second, which is synced while requests are served. A       *)
(* transaction of the first bank can be split, and marked as a transfer to *)
(* the second.                                                             *)
(***************************************************************************)
EXTENDS ScopedReads, TLC

CONSTANTS c1, c2, elsewhere, ana, bia, w1, w2

Row(t, id, of, c, m) == [table |-> t, id |-> id, of |-> of, conn |-> c, member |-> m]
Own(t, id, of, c) == Row(t, id, of, c, NoMember)

AtFirst ==
    {Own("accounts", "account1", NoRow, c1),
     Own("transactions", "paid", "account1", c1),
     Own("transactions", "earlier", "account1", c1),
     Own("balances", "balance1", "account1", c1),
     Own("loans", "loan1", NoRow, c1),
     Own("flags", "flag1", "paid", c1),
     Own("flags", "deviation", NoRow, NoConn),
     Row("flags", "deviation_of_bia", NoRow, NoConn, bia)}

Synced ==
    {Own("accounts", "account2", NoRow, c2),
     Own("transactions", "received", "account2", c2)}

AllRows == AtFirst \cup Synced

BothConnections == {c1, c2}
OneConnection == {c1}
Family == {ana, bia}
OneOwner == {ana}
Creators == c1 :> NoMember @@ c2 :> bia
SomeIds == {{}, {c1, c2, elsewhere}}
JustBia == {bia}
TwoWriters == {w1, w2}
Symmetry == Permutations(TwoWriters)

Days == [paid |-> 10, earlier |-> 9, received |-> 12]
Pairs == {{"paid", "received"}}
SomeChips == {{}, {bia}}
=============================================================================
