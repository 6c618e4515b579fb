------------------------ MODULE MCTransferDetection ------------------------
(***************************************************************************)
(* Three accounts of one household. Two debits and two credits of 10 are   *)
(* near enough to be paired in more than one way, one credit is on the     *)
(* debit's own account. The days differ by up to one more than the window. *)
(***************************************************************************)
EXTENDS TransferDetection, TLC

CONSTANTS d1, d2, c1, c2, own

AllTxns == {d1, d2, c1, c2, own}

Accounts == (d1 :> "a") @@ (d2 :> "b") @@ (c1 :> "b") @@ (c2 :> "c") @@
            (own :> "a")
Amounts == (d1 :> -10) @@ (d2 :> -10) @@ (c1 :> 10) @@ (c2 :> 10) @@
           (own :> 10)
Days == (d1 :> 3) @@ (d2 :> 4) @@ (c1 :> 1) @@ (c2 :> 3) @@
        (own :> 3)
=============================================================================
