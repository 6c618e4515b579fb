---------------------------- MODULE MCSyncWorker ----------------------------
(***************************************************************************)
(* Instances of SyncWorker: one or two connections, whose bank accounts    *)
(* are a checking account, a credit card, both, or none at all.            *)
(***************************************************************************)
EXTENDS SyncWorker, TLC

CONSTANTS h1, h2, c1, c2, checking, card

OneHousehold == [c \in Connections |-> h1]
TwoHouseholds == (c1 :> h1) @@ (c2 :> h2)

CardAndNone == (c1 :> {card}) @@ (c2 :> {})
CheckingAndCard == [c \in Connections |-> {checking, card}]
=============================================================================
