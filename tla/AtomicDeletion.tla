--------------------------- MODULE AtomicDeletion ---------------------------
(***************************************************************************)
(* What DELETE /v1/households/{id} looks like from outside: a household is *)
(* a set of rows that grows, and one request takes all of it away at once  *)
(* and leaves its audit event behind. HouseholdDeletion implements this,   *)
(* and SyncWorker deletes a household in this one step.                    *)
(***************************************************************************)

CONSTANTS
    Deleters,   \* deletion requests
    Rows,       \* the rows the household may have, itself included
    Parents,    \* [Rows -> SUBSET Rows]: the rows its foreign keys name
    Initially   \* the rows that are there at first

VARIABLES
    rows,       \* the rows that can be read
    audit       \* the requests whose "household.deleted" event can be read

vars == <<rows, audit>>

Init ==
    /\ rows = Initially
    /\ audit = {}

Insert(r) ==
    /\ rows # {}
    /\ r \notin rows
    /\ Parents[r] \subseteq rows
    /\ rows' = rows \cup {r}
    /\ UNCHANGED audit

Delete(d) ==
    /\ rows # {}
    /\ audit = {}
    /\ rows' = {}
    /\ audit' = {d}

Next ==
    \/ \E r \in Rows : Insert(r)
    \/ \E d \in Deleters : Delete(d)

Spec == Init /\ [][Next]_vars
=============================================================================
