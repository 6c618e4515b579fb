----------------------- MODULE MCTransactionDetail -----------------------
(***************************************************************************)
(* A transaction of -10.00 (or, after a second sync, -4.00), two clients,  *)
(* bodies that fit to the cent, only by their exact decimals, only but for *)
(* the sign, or not at all.                                                *)
(***************************************************************************)
EXTENDS TransactionDetail, TLC

CONSTANTS m1, m2

Both == {m1, m2}

Halves == <<-5000, -5000>>
Decimals == <<-2004, -2004, -2004, -3988>>
Mixed == <<-15000, 5000>>
Small == <<-1500, -2500>>

AllBodies == {<< >>, Halves, Decimals, Mixed, Small}

TwoAmounts == {-10000, -4000}

Symmetry == Permutations(Both)
=============================================================================
