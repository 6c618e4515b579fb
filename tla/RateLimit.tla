----------------------------- MODULE RateLimit -----------------------------
(***************************************************************************)
(* One scope of check_and_record_rate_limit (services/rate_limiting.py):   *)
(* concurrent requests count the hits of a sliding window and then add one *)
(* in the same READ COMMITTED transaction. Rows age one tick at a time; a  *)
(* row older than the window is never counted again, so its identity may   *)
(* be used for a new row.                                                  *)
(***************************************************************************)
EXTENDS Naturals, FiniteSets

CONSTANTS
    Slots,      \* requests of this scope that can be in flight at a time
    Hits,       \* identities for rate_limit_hits rows that are in the window; the
                \* assumption gives Record one whenever it needs one
    MaxCalls,   \* max_calls
    Window      \* window, in ticks

ASSUME RateAssumption ==
    /\ IsFiniteSet(Slots)
    /\ IsFiniteSet(Hits)
    /\ MaxCalls \in Nat \ {0}
    /\ Window \in Nat
    /\ Cardinality(Hits) + 1 >= MaxCalls + Cardinality(Slots)

VARIABLES
    age,    \* of each row since its created_at; Expired if there is no such row
    req     \* where each request is, and how long ago its transaction began

rateVars == <<age, req>>

Expired == Window + 1
Ages == 0..Expired

Request == [pc : {"idle", "begun", "counted"}, age : Ages]
NoRequest == [pc |-> "idle", age |-> 0]

RateTypeOK ==
    /\ age \in [Hits -> Ages]
    /\ req \in [Slots -> Request]

RateInit ==
    /\ age = [h \in Hits |-> Expired]
    /\ req = [s \in Slots |-> NoRequest]

\* created_at >= window_start
InWindow == {h \in Hits : age[h] <= Window}
RecentCount == Cardinality(InWindow)

\* The authentication dependency's query begins the transaction, whose start
\* is what created_at's func.now() will return.
Begin(s) ==
    /\ req[s].pc = "idle"
    /\ req' = [req EXCEPT ![s].pc = "begun"]
    /\ UNCHANGED age

\* A different program: the comparison is off by one.
CountPastLimit(s) ==
    /\ req[s].pc = "begun"
    /\ RecentCount <= MaxCalls
    /\ req' = [req EXCEPT ![s].pc = "counted"]
    /\ UNCHANGED age

Count(s) ==
    /\ req[s].pc = "begun"
    /\ RecentCount < MaxCalls
    /\ req' = [req EXCEPT ![s].pc = "counted"]
    /\ UNCHANGED age

\* A different program: refused calls are hits, too.
RefuseAndRecord(s) ==
    /\ req[s].pc = "begun"
    /\ RecentCount >= MaxCalls
    /\ \E h \in Hits \ InWindow : age' = [age EXCEPT ![h] = req[s].age]
    /\ req' = [req EXCEPT ![s] = NoRequest]

\* 429: nothing is recorded.
Refuse(s) ==
    /\ req[s].pc = "begun"
    /\ RecentCount >= MaxCalls
    /\ req' = [req EXCEPT ![s] = NoRequest]
    /\ UNCHANGED age

\* The insert and its commit, before the caller's work is done.
Record(s) ==
    /\ req[s].pc = "counted"
    /\ \E h \in Hits \ InWindow : age' = [age EXCEPT ![h] = req[s].age]
    /\ req' = [req EXCEPT ![s] = NoRequest]

\* The request ends without a hit: it has no work that is limited, or the server
\* process dies under it.
Leave(s) ==
    /\ req[s].pc # "idle"
    /\ req' = [req EXCEPT ![s] = NoRequest]
    /\ UNCHANGED age

\* A different program: ages are never capped.
OlderForever(a) == a + 1

Older(a) == IF a = Expired THEN Expired ELSE a + 1

Tick ==
    /\ age' = [h \in Hits |-> Older(age[h])]
    /\ req' = [s \in Slots |->
                  IF req[s].pc = "idle" THEN req[s] ELSE [req[s] EXCEPT !.age = Older(@)]]

RateNext ==
    \/ \E s \in Slots : Begin(s) \/ Count(s) \/ Refuse(s) \/ Record(s) \/ Leave(s)
    \/ Tick

RateSpec == RateInit /\ [][RateNext]_rateVars

-----------------------------------------------------------------------------
(* Properties *)

Counted == {s \in Slots : req[s].pc = "counted"}

\* A window admits at most as many calls beyond max_calls as there are other
\* requests in flight, also when requests die between count and insert.
OverrunBounded == RecentCount + Cardinality(Counted) < MaxCalls + Cardinality(Slots)

\* A scope that reached its limit opens again however often it is called:
\* only calls that were let through use up the window.
Reopens == RecentCount >= MaxCalls ~> RecentCount < MaxCalls

\* "so limits hold across server restarts and multiple worker processes"
\* (docstring of RateLimitHit)
LimitHolds == RecentCount <= MaxCalls
=============================================================================
