---------------------------- MODULE AccessGrants ----------------------------
(***************************************************************************)
(* Which bank connections a member may see: the rows of                    *)
(* connection_access_grants, which an owner replaces as a whole            *)
(* (update_member_access), and the scope that every read derives from them *)
(* (auth/access_scope.py). Connections appear meanwhile.                   *)
(***************************************************************************)
EXTENDS Integers, FiniteSets

CONSTANTS
    Connections,
    FirstConnected,     \* those there are at first
    Members, Owners,    \* the members of the household, those with role "owner"
    CreatorOf,          \* the member who created each connection
    NoMember,           \* the creator of a connection that is unattributed, or whose
                        \* creator is no longer a member
    Payloads,           \* the connection_ids of requests, of other households too
    Writers,            \* owners' requests that replace grants
    Targets,            \* bound: the members whose grants they replace
    MaxPuts             \* bound: how many of them begin

ASSUME GrantsAssumption ==
    /\ FirstConnected \subseteq Connections
    /\ Owners \cup Targets \subseteq Members
    /\ NoMember \notin Members
    /\ CreatorOf \in [Connections -> Members \cup {NoMember}]
    /\ MaxPuts \in Nat

VARIABLES
    connected,  \* the rows of pluggy_connections
    grants,     \* the rows of connection_access_grants
    put,        \* the request of each writer
    puts        \* how many have begun

grantVars == <<connected, grants, put, puts>>

-----------------------------------------------------------------------------

\* A row, with the number of the request that inserted it for an id.
Grant == [member : Members, conn : Connections, by : 0..MaxPuts]

Put ==
    [pc     : {"idle", "checked", "deleting", "deleted"},
     member : Members,
     valid  : SUBSET Connections,
     by     : 0..MaxPuts,
     sees   : SUBSET Grant,     \* what the DELETE's snapshot holds
     gone   : SUBSET Grant]     \* what it has deleted, locked until the end

NoPut(m) == [pc |-> "idle", member |-> m, valid |-> {}, by |-> 0, sees |-> {}, gone |-> {}]

GrantedTo(m) == {g.conn : g \in {r \in grants : r.member = m}}

GrantsTypeOK ==
    /\ connected \subseteq Connections
    /\ grants \subseteq Grant
    /\ put \in [Writers -> Put]
    /\ puts \in 0..MaxPuts

GrantsInit ==
    /\ connected = FirstConnected
    /\ grants = {}
    /\ \E m \in Targets : put = [o \in Writers |-> NoPut(m)]
    /\ puts = 0

-----------------------------------------------------------------------------
(* PUT /members/{id}/access *)

\* A different program: the ids are taken as they come.
CheckNothing(o) ==
    /\ put[o].pc = "idle"
    /\ puts < MaxPuts
    /\ puts' = puts + 1
    /\ \E m \in Targets, ids \in Payloads :
           put' = [put EXCEPT ![o].pc = "checked", ![o].member = m, ![o].by = puts + 1,
                              ![o].valid = ids]
    /\ UNCHANGED <<connected, grants>>

\* Ids that are no connections of the household are left out.
CheckAccess(o) ==
    /\ put[o].pc = "idle"
    /\ puts < MaxPuts
    /\ puts' = puts + 1
    /\ \E m \in Targets, ids \in Payloads :
           put' = [put EXCEPT ![o].pc = "checked", ![o].member = m, ![o].by = puts + 1,
                              ![o].valid = ids \cap connected]
    /\ UNCHANGED <<connected, grants>>

\* The DELETE takes its snapshot ...
StartRevoke(o) ==
    /\ put[o].pc = "checked"
    /\ put' = [put EXCEPT ![o].pc = "deleting",
                          ![o].sees = {g \in grants : g.member = put[o].member}]
    /\ UNCHANGED <<connected, grants, puts>>

\* Nobody else holds a row of that snapshot.
Unlocked(o) == \A p \in Writers \ {o} : put[p].gone \cap put[o].sees = {}

\* A different program: only the connections of the request are deleted.
RevokeListed(o) ==
    /\ put[o].pc = "deleting"
    /\ Unlocked(o)
    /\ put' = [put EXCEPT ![o].pc = "deleted",
                          ![o].gone = {g \in put[o].sees \cap grants : g.conn \in put[o].valid}]
    /\ UNCHANGED <<connected, grants, puts>>

\* ... waits for rows that another request has deleted, and skips them.
EndRevoke(o) ==
    /\ put[o].pc = "deleting"
    /\ Unlocked(o)
    /\ put' = [put EXCEPT ![o].pc = "deleted", ![o].gone = put[o].sees \cap grants]
    /\ UNCHANGED <<connected, grants, puts>>

Asked(o) == {[member |-> put[o].member, conn |-> c, by |-> put[o].by] : c \in put[o].valid}

\* uq_connection_access_grants_identity.
Collides(o) ==
    \E g \in grants \ put[o].gone : g.member = put[o].member /\ g.conn \in put[o].valid

CommitAccess(o) ==
    /\ put[o].pc = "deleted"
    /\ ~Collides(o)
    /\ grants' = (grants \ put[o].gone) \cup Asked(o)
    /\ put' = [put EXCEPT ![o] = NoPut(@.member)]
    /\ UNCHANGED <<connected, puts>>

\* A grant that a concurrent request has inserted meanwhile, another error, or
\* the end of the process.
AbortAccess(o) ==
    /\ put[o].pc # "idle"
    /\ put' = [put EXCEPT ![o] = NoPut(@.member)]
    /\ UNCHANGED <<connected, grants, puts>>

UpdateMemberAccess(o) ==
    CheckAccess(o) \/ StartRevoke(o) \/ EndRevoke(o) \/ CommitAccess(o) \/ AbortAccess(o)

-----------------------------------------------------------------------------
(* get_accessible_connection_ids and resolve_member_ids *)

\* A scope: "none" is the code's None, unrestricted; else the ids.
Everything == [none |-> TRUE, ids |-> {}]
Only(ids) == [none |-> FALSE, ids |-> ids]
Scope == [none : BOOLEAN, ids : SUBSET Connections]

In(scope, c) == scope.none \/ c \in scope.ids

\* From two statements: the connections there were, then the member's grants.
Accessible(all, granted) == IF all \subseteq granted THEN Everything ELSE Only(granted)

\* A different program: the chips add to the scope.
WidenedTo(scope, ms, all) == Only(scope.ids \cup {c \in all : CreatorOf[c] \in ms})

\* The members chosen in the scope bar, none for all of them. A connection without
\* a creator is chosen by no chip.
NarrowedTo(scope, ms, all) ==
    IF ms = {} THEN scope
    ELSE Only({c \in all : CreatorOf[c] \in ms /\ In(scope, c)})

-----------------------------------------------------------------------------

\* "Full-replace semantics, same shape as `PUT /members/{id}/access`"
\* (api/dashboard.py:396): once a request has committed, its member
\* has all it asked for, and of what the member had when the DELETE began nothing
\* else is left. (What a concurrent request inserts later may be left.)
PutReplaces ==
    [][\A o \in Writers :
          CommitAccess(o) =>
              /\ Asked(o) \subseteq grants'
              /\ put[o].sees \cap grants' = {}]_grantVars
=============================================================================
