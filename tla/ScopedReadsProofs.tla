-------------------------- MODULE ScopedReadsProofs --------------------------
(***************************************************************************)
(* For any household, any connections, grants and rows, and however many   *)
(* requests replace grants: a response holds only what its scope allows,   *)
(* a request that replaces grants leaves nothing that it saw, and exactly  *)
(* what it was asked for if nobody disturbs it; a breakdown by category    *)
(* counts each transaction once, the breakdowns by category and by member  *)
(* count the same ones, and a response holds what its rows refer to.       *)
(***************************************************************************)
EXTENDS ScopedReads, FiniteSetTheorems, SequenceTheorems, TLAPS

\* Why a DELETE covers what it saw: grants only grow under it, and what others
\* insert carries a number of theirs.
Numbered ==
    /\ \A g \in grants : g.by <= puts
    /\ \A o \in Writers :
           /\ put[o].sees \cup put[o].gone \subseteq Grant
           /\ \A g \in put[o].sees : g.by <= puts
           /\ put[o].pc # "idle" =>
                  /\ put[o].by <= puts
                  /\ \A g \in grants : g.by # put[o].by
                  /\ \A p \in Writers : \A g \in put[p].sees : g.by # put[o].by
                  /\ \A p \in Writers \ {o} : put[p].pc # "idle" => put[p].by # put[o].by
           /\ put[o].pc = "deleted" => put[o].sees \cap grants \subseteq put[o].gone

GrantsInv == GrantsTypeOK /\ Numbered

\* What a scope allows, once it is decided.
Allowed(r) ==
    \/ read.who \in Owners
    \/ r.conn \in read.granted
    \/ Unrestricted /\ r.conn \notin read.all

Chosen(r) == read.chips # {} => CreatorOf[r.conn] \in read.chips

\* The chips may be resolved while the scope is still that of the grants.
ScopeInv ==
    /\ read.pc = "chips" => \A r \in AnyRow : In(read.scope, r.conn) => Allowed(r)
    /\ Decided => \A r \in AnyRow : In(read.scope, r.conn) => Allowed(r) /\ Chosen(r)

Words ==
    {"accounts", "connections", "transactions", "balances", "bills", "investments", "loans",
     "jobs", "flags", "unsplit", "splits", "prior_unsplit", "prior_splits", "spending",
     "cash_flow", "categories", "statuses", "owners", "recent", "count",
     "household", "connection", "listed", "exported"}

\* How a statement of endpoint e may be restricted.
Queries(e) ==
    {q \in [name : Words, from : Words, by : Words] :
        /\ q.name # "statuses" =>
               q.by \in {"connection", "listed"}
                   \cup (IF e \in Unchipped THEN {"accounts", "exported", "flags"} ELSE {})
        /\ q.by \in {"listed", "accounts", "exported", "flags"} => q.from # "connections"
        /\ q.name \in {"accounts", "recent"} => q.by = "connection" /\ q.from # "connections"}

\* Why what has been read is in scope.
ReadInv ==
    /\ read.pc = "reading" => read.at \in 1..Len(Endpoints[read.e])
    /\ read.pc = "idle" \/ (read.e \in Unchipped => read.chips = {})
    /\ ~Decided => read.got = [n \in Names |-> {}]
    /\ Decided =>
           \A n \in Names \ {"statuses"} : \A r \in read.got[n] :
               /\ In(read.scope, r.conn) \/ (r.member = read.who /\ read.chips = {})
               /\ n \in {"accounts", "recent"} => r \in Rows /\ In(read.scope, r.conn)

Inv == TypeOK /\ Numbered /\ ScopeInv /\ ReadInv

-----------------------------------------------------------------------------
(* The endpoints *)

LEMMA FormOfQuery ==
    ASSUME NEW e, NEW n \in Words, NEW f \in Words, NEW c \in Words,
           n # "statuses" =>
               \/ c \in {"connection", "listed"}
               \/ e \in Unchipped /\ c \in {"accounts", "exported", "flags"},
           c \in {"listed", "accounts", "exported", "flags"} => f # "connections",
           n \in {"accounts", "recent"} => c = "connection" /\ f # "connections"
    PROVE  Q(n, f, c) \in Queries(e)
<1> DEFINE q == Q(n, f, c)
<1>1. q \in [name : Words, from : Words, by : Words] /\ q.name = n /\ q.from = f /\ q.by = c
  BY DEF Q
<1> HIDE DEF q
<1>2. q \in Queries(e)  BY <1>1 DEF Queries
<1> QED  BY <1>2 DEF q

LEMMA FormOfPlain ==
    ASSUME NEW e, NEW t \in Words, t \notin {"statuses", "recent"}
    PROVE  Plain(t) \in Queries(e)
<1>1. "connection" \in Words  BY DEF Words
<1> QED  BY <1>1, FormOfQuery DEF Plain

LEMMA EndpointsAreQueries ==
    ASSUME NEW e \in DOMAIN Endpoints
    PROVE  Endpoints[e] \in Seq(Queries(e)) /\ Endpoints[e] # << >>
<1>1. /\ Q("recent", "transactions", "connection") \in Queries(e)
      /\ Q("owners", "connections", "connection") \in Queries(e)
  BY FormOfQuery DEF Words
<1>2. /\ Plain("accounts") \in Queries(e) /\ Plain("investments") \in Queries(e)
      /\ Plain("loans") \in Queries(e) /\ Plain("bills") \in Queries(e)
      /\ Plain("balances") \in Queries(e)
  BY FormOfPlain DEF Words
<1>3. Listed \in Seq(Queries(e)) /\ Listed # << >>
  <2>1. Q("flags", "flags", "listed") \in Queries(e)  BY FormOfQuery DEF Words
  <2> QED  BY <1>1, <2>1 DEF Listed
<1>4. CASE e = "dashboard"
  <2> DEFINE first == <<Plain("accounts"), Q("statuses", "connections", "household"),
                        Q("owners", "connections", "connection")>>
  <2> DEFINE rest == <<Plain("cash_flow"), Q("count", "connections", "connection"), Plain("jobs")>>
  <2>1. Q("statuses", "connections", "household") \in Queries(e)
        /\ Q("count", "connections", "connection") \in Queries(e)
    BY FormOfQuery DEF Words
  <2>2. Plain("cash_flow") \in Queries(e) /\ Plain("jobs") \in Queries(e)  BY FormOfPlain DEF Words
  <2>3. first \in Seq(Queries(e)) /\ rest \in Seq(Queries(e)) /\ first # << >>
    BY <1>1, <1>2, <2>1, <2>2
  <2>4. Endpoints[e] = first \o Listed \o rest  BY <1>4 DEF Endpoints, Dashboard
  <2> HIDE DEF first, rest
  <2> QED  BY <1>3, <2>3, <2>4
<1>5. CASE e = "transactions"  BY <1>3, <1>5 DEF Endpoints
<1>6. CASE e = "categories"
  <2>1. /\ Plain("unsplit") \in Queries(e) /\ Plain("splits") \in Queries(e)
        /\ Plain("prior_unsplit") \in Queries(e) /\ Plain("prior_splits") \in Queries(e)
    BY FormOfPlain DEF Words
  <2>2. Categories \in Seq(Queries(e)) /\ Categories # << >>  BY <2>1 DEF Categories
  <2> QED  BY <1>6, <2>2 DEF Endpoints
<1>7. CASE e = "spending"
  <2>1. Plain("spending") \in Queries(e)  BY FormOfPlain DEF Words
  <2>2. SpendingByMember \in Seq(Queries(e)) /\ SpendingByMember # << >>  BY <1>1, <2>1 DEF SpendingByMember
  <2> QED  BY <1>7, <2>2 DEF Endpoints
<1>8. CASE e \in {"balances", "bills", "investments", "loans"}
  <2>1. Endpoints[e] = <<Plain(e)>>  BY <1>8 DEF Endpoints
  <2>2. Plain(e) \in Queries(e)  BY <1>2, <1>8
  <2> QED  BY <2>1, <2>2
<1>9. CASE e = "anomalies"
  <2>1. Endpoints[e] = <<Q("flags", "flags", "flags")>>  BY <1>9 DEF Endpoints
  <2>2. Q("flags", "flags", "flags") \in Queries(e)  BY <1>9, FormOfQuery DEF Words, Unchipped
  <2> QED  BY <2>1, <2>2
<1>10. CASE e = "export"
  <2>1. Plain("connections") \in Queries(e)  BY FormOfPlain DEF Words
  <2>2. e \in Unchipped  BY <1>10 DEF Unchipped
  <2>3. /\ Q("transactions", "transactions", "accounts") \in Queries(e)
        /\ Q("balances", "balances", "accounts") \in Queries(e)
        /\ Q("bills", "bills", "accounts") \in Queries(e)
        /\ Q("flags", "flags", "exported") \in Queries(e)
    BY <2>2, FormOfQuery DEF Words
  <2>4. Export \in Seq(Queries(e)) /\ Export # << >>  BY <1>2, <2>1, <2>3 DEF Export
  <2> QED  BY <1>10, <2>4 DEF Endpoints
<1>11. CASE e = "context"
  <2>1. /\ Q("cash_flow", "transactions", "connection") \in Queries(e)
        /\ Q("categories", "transactions", "connection") \in Queries(e)
    BY FormOfQuery DEF Words
  <2>2. Context \in Seq(Queries(e)) /\ Context # << >>  BY <1>1, <1>2, <2>1 DEF Context
  <2> QED  BY <1>11, <2>2 DEF Endpoints
<1> QED  BY <1>4, <1>5, <1>6, <1>7, <1>8, <1>9, <1>10, <1>11 DEF Endpoints

LEMMA StatementIsQuery ==
    ASSUME NEW e \in DOMAIN Endpoints, NEW i \in 1..Len(Endpoints[e])
    PROVE  Endpoints[e][i] \in Queries(e) /\ Endpoints[e][i].name \in Names
<1>1. Endpoints[e] \in Seq(Queries(e))  BY EndpointsAreQueries
<1>2. Endpoints[e][i] \in Range(Endpoints[e])  BY <1>1 DEF Range
<1> QED  BY <1>1, <1>2 DEF Names

\* A statement reads rows, those of pluggy_connections where it says so.
LEMMA SourceIsRows ==
    ASSUME TypeOK, NEW from
    PROVE  /\ Source(from) \subseteq AnyRow
           /\ from # "connections" => Source(from) \subseteq Rows
<1>1. \A t : Table(t) \subseteq Rows  BY DEF Table, TypeOK
<1>2. ConnectionRows \subseteq AnyRow  BY DEF ConnectionRows, AnyRow, TypeOK, GrantsTypeOK
<1>3. \A days : Unsplit(days) \subseteq Rows /\ Splits(days) \subseteq Rows
  BY <1>1 DEF Unsplit, Splits
<1>4. from # "connections" => Source(from) \subseteq Rows  BY <1>1, <1>3 DEF Source
<1>5. from = "connections" => Source(from) \subseteq AnyRow  BY <1>2 DEF Source
<1> QED  BY <1>4, <1>5 DEF AnyRow

-----------------------------------------------------------------------------
(* Grants *)

LEMMA CheckAccessStep ==
    ASSUME GrantsInv, NEW o \in Writers, CheckAccess(o) PROVE GrantsInv'
<1>1. PICK m \in Targets, ids \in Payloads :
          put' = [put EXCEPT ![o].pc = "checked", ![o].member = m, ![o].by = puts + 1,
                             ![o].valid = ids \cap connected]
  BY DEF CheckAccess
<1>2. /\ puts < MaxPuts /\ puts' = puts + 1 /\ puts \in 0..MaxPuts /\ MaxPuts \in Nat
      /\ UNCHANGED <<connected, grants>> /\ m \in Members /\ connected \subseteq Connections
      /\ grants \subseteq Grant /\ put \in [Writers -> Put]
  BY GrantsAssumption DEF CheckAccess, GrantsInv, GrantsTypeOK
<1>3. put'[o] = [pc |-> "checked", member |-> m, valid |-> ids \cap connected, by |-> puts + 1,
                 sees |-> put[o].sees, gone |-> put[o].gone]
      /\ \A p \in Writers \ {o} : put'[p] = put[p]
  BY <1>1, <1>2 DEF Put
<1>4. put' \in [Writers -> Put]
  <2>1. put[o].sees \in SUBSET Grant /\ put[o].gone \in SUBSET Grant  BY <1>2 DEF Put
  <2>2. puts + 1 \in 0..MaxPuts /\ ids \cap connected \in SUBSET Connections  BY <1>2
  <2>3. put'[o] \in Put  BY <1>2, <1>3, <2>1, <2>2 DEF Put
  <2>4. put' = [put EXCEPT ![o] = put'[o]]  BY <1>1, <1>2
  <2> QED  BY <1>2, <2>3, <2>4
<1>5. GrantsTypeOK'  BY <1>2, <1>4 DEF GrantsTypeOK
<1>6. Numbered'
  <2>1. \A g \in Grant : g.by \in Nat  BY <1>2 DEF Grant
  <2>2. \A p \in Writers : put[p].by \in Nat  BY <1>2 DEF Put
  <2> QED  BY <1>2, <1>3, <2>1, <2>2 DEF GrantsInv, Numbered
<1> QED  BY <1>5, <1>6 DEF GrantsInv

LEMMA StartRevokeStep ==
    ASSUME GrantsInv, NEW o \in Writers, StartRevoke(o) PROVE GrantsInv'
<1>1. /\ put \in [Writers -> Put] /\ put[o].pc = "checked" /\ grants \subseteq Grant
      /\ UNCHANGED <<connected, grants, puts>>
      /\ put' = [put EXCEPT ![o].pc = "deleting",
                            ![o].sees = {g \in grants : g.member = put[o].member}]
  BY DEF StartRevoke, GrantsInv, GrantsTypeOK
<1>2. put' \in [Writers -> Put]  BY <1>1 DEF Put
<1>3. /\ put'[o].pc = "deleting" /\ put'[o].sees \subseteq grants
      /\ put'[o].by = put[o].by /\ put'[o].gone = put[o].gone
      /\ \A p \in Writers \ {o} : put'[p] = put[p]
  BY <1>1 DEF Put
<1>4. GrantsTypeOK'  BY <1>1, <1>2 DEF GrantsInv, GrantsTypeOK
<1>5. Numbered'  BY <1>1, <1>3 DEF GrantsInv, Numbered
<1> QED  BY <1>4, <1>5 DEF GrantsInv

LEMMA EndRevokeStep ==
    ASSUME GrantsInv, NEW o \in Writers, EndRevoke(o) PROVE GrantsInv'
<1>1. /\ put \in [Writers -> Put] /\ put[o].pc = "deleting" /\ grants \subseteq Grant
      /\ UNCHANGED <<connected, grants, puts>>
      /\ put' = [put EXCEPT ![o].pc = "deleted", ![o].gone = put[o].sees \cap grants]
  BY DEF EndRevoke, GrantsInv, GrantsTypeOK
<1>2. put' \in [Writers -> Put]  BY <1>1 DEF Put
<1>3. /\ put'[o].pc = "deleted" /\ put'[o].sees = put[o].sees
      /\ put'[o].by = put[o].by /\ put'[o].gone = put[o].sees \cap grants
      /\ \A p \in Writers \ {o} : put'[p] = put[p]
  BY <1>1 DEF Put
<1>4. GrantsTypeOK'  BY <1>1, <1>2 DEF GrantsInv, GrantsTypeOK
<1>5. Numbered'  BY <1>1, <1>3 DEF GrantsInv, Numbered
<1> QED  BY <1>4, <1>5 DEF GrantsInv

\* Both ends of a request.
LEMMA EndStep ==
    ASSUME GrantsInv, NEW o \in Writers, NEW S, grants' = S, put[o].pc # "idle",
           S \subseteq grants \cup Asked(o), UNCHANGED <<connected, puts>>,
           put' = [put EXCEPT ![o] = NoPut(@.member)]
    PROVE  GrantsInv'
<1>1. put \in [Writers -> Put] /\ grants \subseteq Grant /\ puts \in 0..MaxPuts /\ MaxPuts \in Nat
  BY GrantsAssumption DEF GrantsInv, GrantsTypeOK
<1>2. put[o] \in Put  BY <1>1
<1>3. NoPut(put[o].member) \in Put
  <2>1. 0 \in 0..MaxPuts /\ put[o].member \in Members  BY <1>1, <1>2 DEF Put
  <2> QED  BY <2>1 DEF NoPut, Put
<1>4. /\ put'[o].pc = "idle" /\ put'[o].sees = {} /\ put'[o].gone = {}
      /\ \A p \in Writers \ {o} : put'[p] = put[p]
  BY <1>1, <1>2 DEF NoPut, Put
<1>5. \A g \in Asked(o) : g.by = put[o].by /\ g \in Grant
  BY <1>2 DEF Asked, Grant, Put
<1>6. put' \in [Writers -> Put]  BY <1>1, <1>3
<1>7. GrantsTypeOK'  BY <1>1, <1>5, <1>6 DEF GrantsInv, GrantsTypeOK
<1>8. Numbered'  BY <1>1, <1>4, <1>5 DEF GrantsInv, Numbered
<1> QED  BY <1>7, <1>8 DEF GrantsInv

LEMMA UpdateMemberAccessStep ==
    ASSUME GrantsInv, NEW o \in Writers, UpdateMemberAccess(o) PROVE GrantsInv'
<1>1. CASE CheckAccess(o)  BY <1>1, CheckAccessStep
<1>2. CASE StartRevoke(o)  BY <1>2, StartRevokeStep
<1>3. CASE EndRevoke(o)  BY <1>3, EndRevokeStep
<1>4. CASE CommitAccess(o)
  <2> DEFINE S == (grants \ put[o].gone) \cup Asked(o)
  <2>1. grants' = S /\ S \subseteq grants \cup Asked(o)  BY <1>4 DEF CommitAccess
  <2>2. /\ put[o].pc # "idle" /\ UNCHANGED <<connected, puts>>
        /\ put' = [put EXCEPT ![o] = NoPut(@.member)]
    BY <1>4 DEF CommitAccess
  <2> HIDE DEF S
  <2> QED  BY <2>1, <2>2, EndStep
<1>5. CASE AbortAccess(o)
  <2>1. /\ put[o].pc # "idle" /\ UNCHANGED <<connected, puts>> /\ grants' = grants
        /\ put' = [put EXCEPT ![o] = NoPut(@.member)]
    BY <1>5 DEF AbortAccess
  <2> QED  BY <2>1, EndStep
<1> QED  BY <1>1, <1>2, <1>3, <1>4, <1>5 DEF UpdateMemberAccess

\* What the request saw is what it deletes, and what it inserts is new.
LEMMA CommitReplaces ==
    ASSUME GrantsInv, NEW o \in Writers, CommitAccess(o)
    PROVE  Asked(o) \subseteq grants' /\ put[o].sees \cap grants' = {}
<1>1. put[o].pc = "deleted" /\ grants' = (grants \ put[o].gone) \cup Asked(o)
  BY DEF CommitAccess
<1>2. \A g \in Asked(o) : g.by = put[o].by  BY DEF Asked
<1> QED  BY <1>1, <1>2 DEF GrantsInv, Numbered

-----------------------------------------------------------------------------
(* A request *)

\* What every step of a request leaves alone.
LEMMA RequestAlone ==
    ASSUME TypeOK, Numbered, UNCHANGED <<grantVars, dataVars>>, read' \in Request,
           read'.at \in 0..Len(Endpoints[read'.e]) + 1
    PROVE  TypeOK' /\ Numbered'
<1>1. TypeOK'  BY DEF TypeOK, GrantsTypeOK, grantVars, dataVars, Ids, Table, Transactions
<1>2. Numbered'  BY DEF Numbered, grantVars
<1> QED  BY <1>1, <1>2

LEMMA IdleIsRequest == Idle \in Request
<1>1. "dashboard" \in DOMAIN Endpoints  BY DEF Endpoints
<1>2. Only({}) \in Scope  BY DEF Only, Scope
<1> HIDE DEF Endpoints
<1> QED  BY <1>1, <1>2 DEF Idle, Request

LEMMA AuthorizeStep ==
    ASSUME Inv, NEW m \in Members, NEW e \in DOMAIN Endpoints, NEW chips \in Chips,
           Authorize(m, e, chips)
    PROVE  Inv'
<1> DEFINE old == IF e \in Breakdowns \cup {"export"} THEN db \cup ConnectionRows ELSE {}
<1> DEFINE none == [n \in Names |-> {}]
<1> DEFINE pc == IF m \in Owners THEN "chips" ELSE "all"
<1>1. read' = [pc |-> pc, e |-> e, at |-> 0, who |-> m, chips |-> chips,
               all |-> {}, granted |-> {}, scope |-> Everything, got |-> none,
               old |-> old, touched |-> {}]
  BY DEF Authorize, Idle
<1>2. old \subseteq AnyRow
  BY DEF Inv, TypeOK, GrantsTypeOK, ConnectionRows, AnyRow
<1>3. Everything \in Scope /\ \A c : In(Everything, c)  BY DEF Everything, Scope, In
<1>4. none \in [Names -> SUBSET AnyRow]  OBVIOUS
<1>5. (e \in Unchipped => chips = {}) /\ UNCHANGED <<grantVars, dataVars>>  BY DEF Authorize
<1>6. Len(Endpoints[e]) \in Nat  BY EndpointsAreQueries
<1>7. pc \in {"chips", "all"} /\ (pc = "chips" => m \in Owners)  OBVIOUS
<1> HIDE DEF old, none, pc
<1>8. read' \in Request
  BY <1>1, <1>2, <1>3, <1>4, <1>7 DEF Request
<1>9. TypeOK' /\ Numbered'
  BY <1>1, <1>5, <1>6, <1>8, RequestAlone DEF Inv
<1>10. ScopeInv'
  BY <1>1, <1>7 DEF ScopeInv, Decided, Allowed
<1>11. ReadInv'
  BY <1>1, <1>5, <1>7 DEF ReadInv, Decided, none
<1> QED  BY <1>9, <1>10, <1>11 DEF Inv

LEMMA ReadConnectionsStep == ASSUME Inv, ReadConnections PROVE Inv'
<1>1. read \in Request /\ read.at \in 0..Len(Endpoints[read.e]) + 1 /\ connected \subseteq Connections
  BY DEF Inv, TypeOK, GrantsTypeOK
<1>2. /\ read.pc = "all" /\ UNCHANGED <<grantVars, dataVars>>
      /\ read' = [read EXCEPT !.pc = "granted", !.all = connected]
  BY DEF ReadConnections
<1>3. read' \in Request  BY <1>1, <1>2 DEF Request
<1>4. /\ read'.pc = "granted" /\ read'.at = read.at /\ read'.e = read.e
      /\ read'.chips = read.chips /\ read'.got = read.got
  BY <1>1, <1>2 DEF Request
<1>5. TypeOK' /\ Numbered'  BY <1>1, <1>2, <1>3, <1>4, RequestAlone DEF Inv
<1>6. ScopeInv'  BY <1>4 DEF ScopeInv, Decided
<1>7. ReadInv'  BY <1>2, <1>4 DEF Inv, ReadInv, Decided
<1> QED  BY <1>5, <1>6, <1>7 DEF Inv

LEMMA ReadGrantsStep == ASSUME Inv, ReadGrants PROVE Inv'
<1> DEFINE granted == GrantedTo(read.who)
<1> DEFINE scope == Accessible(read.all, granted)
<1>1. read \in Request /\ read.at \in 0..Len(Endpoints[read.e]) + 1
  BY DEF Inv, TypeOK
<1>2. granted \subseteq Connections
  BY DEF Inv, TypeOK, GrantsTypeOK, GrantedTo, Grant
<1>3. /\ read.pc = "granted" /\ UNCHANGED <<grantVars, dataVars>>
      /\ read' = [read EXCEPT !.pc = "chips", !.granted = granted, !.scope = scope]
  BY DEF ReadGrants
<1>4. scope \in Scope
  BY <1>2 DEF Accessible, Everything, Only, Scope
<1>5. \A c : In(scope, c) => c \in granted \/ (read.all \subseteq granted /\ c \notin read.all)
  BY DEF Accessible, Everything, Only, In
<1> HIDE DEF granted, scope
<1>6. read' \in Request  BY <1>1, <1>2, <1>3, <1>4 DEF Request
<1>7. /\ read'.pc = "chips" /\ read'.at = read.at /\ read'.e = read.e
      /\ read'.chips = read.chips /\ read'.got = read.got
      /\ read'.granted = granted /\ read'.scope = scope /\ read'.all = read.all
  BY <1>1, <1>3 DEF Request
<1>8. TypeOK' /\ Numbered'  BY <1>1, <1>3, <1>6, <1>7, RequestAlone DEF Inv
<1>9. ScopeInv'  BY <1>5, <1>7 DEF ScopeInv, Decided, Allowed, Unrestricted
<1>10. ReadInv'  BY <1>3, <1>7 DEF Inv, ReadInv, Decided
<1> QED  BY <1>8, <1>9, <1>10 DEF Inv

LEMMA ResolveMembersStep == ASSUME Inv, ResolveMembers PROVE Inv'
<1> DEFINE scope == NarrowedTo(read.scope, read.chips, connected)
<1>1. read \in Request /\ connected \subseteq Connections /\ read.scope \in Scope
  BY DEF Inv, TypeOK, GrantsTypeOK, Request
<1>2. /\ read.pc = "chips" /\ UNCHANGED <<grantVars, dataVars>>
      /\ read' = [read EXCEPT !.pc = "reading", !.at = 1, !.scope = scope]
  BY DEF ResolveMembers
<1>3. scope \in Scope  BY <1>1 DEF NarrowedTo, Only, Scope
<1>4. \A c : In(scope, c) => In(read.scope, c) /\ (read.chips # {} => CreatorOf[c] \in read.chips)
  <2>1. CASE read.chips = {}  BY <2>1 DEF NarrowedTo
  <2>2. CASE read.chips # {}
    <3>1. scope = Only({c \in connected : CreatorOf[c] \in read.chips /\ In(read.scope, c)})
      BY <2>2 DEF NarrowedTo
    <3> HIDE DEF scope
    <3> QED  BY <3>1 DEF Only, In
  <2> QED  BY <2>1, <2>2
<1> HIDE DEF scope
<1>5. read' \in Request  BY <1>1, <1>2, <1>3 DEF Request
<1>6. /\ read'.pc = "reading" /\ read'.at = 1 /\ read'.e = read.e /\ read'.who = read.who
      /\ read'.chips = read.chips /\ read'.got = read.got
      /\ read'.granted = read.granted /\ read'.scope = scope /\ read'.all = read.all
  BY <1>1, <1>2 DEF Request
<1>7. 1 \in 1..Len(Endpoints[read.e]) /\ Len(Endpoints[read.e]) \in Nat
  <2>1. read.e \in DOMAIN Endpoints  BY <1>1 DEF Request
  <2> QED  BY <2>1, EndpointsAreQueries
<1>8. TypeOK' /\ Numbered'  BY <1>2, <1>5, <1>6, <1>7, RequestAlone DEF Inv
<1>9. ScopeInv'
  BY <1>2, <1>4, <1>6 DEF Inv, ScopeInv, Decided, Allowed, Chosen, Unrestricted, AnyRow
<1>10. ReadInv'  BY <1>2, <1>6, <1>7 DEF Inv, ReadInv, Decided
<1> QED  BY <1>8, <1>9, <1>10 DEF Inv
\* Why the rows of a statement are in scope: it is restricted by the scope
\* itself, or by rows that an earlier one has read in it.
LEMMA SelectedInScope ==
    ASSUME Inv, read.pc = "reading", NEW q \in Queries(read.e), q.name # "statuses",
           NEW r \in Selected(q, read)
    PROVE  /\ r \in AnyRow
           /\ In(read.scope, r.conn) \/ (r.member = read.who /\ read.chips = {})
           /\ q.name \in {"accounts", "recent"} => r \in Rows /\ In(read.scope, r.conn)
<1>1. /\ Source(q.from) \subseteq AnyRow
      /\ q.from # "connections" => Source(q.from) \subseteq Rows
      /\ Table("transactions") \subseteq Rows
  BY SourceIsRows DEF Inv, TypeOK, Table
<1>2. r \in Source(q.from)  BY DEF Selected
<1>3. \A n \in {"accounts", "recent"} : \A o \in read.got[n] :
          o \in Rows /\ In(read.scope, o.conn)
  <2>1. \A n \in {"accounts", "recent"} : n \in Names \ {"statuses"}
    <3>1. Listed[1].name = "recent" /\ Len(Listed) = 2  BY DEF Listed, Q
    <3>2. Endpoints["transactions"] = Listed /\ "transactions" \in DOMAIN Endpoints
      BY DEF Endpoints
    <3>3. Export[2].name = "accounts" /\ Len(Export) = 8  BY DEF Export, Plain, Q
    <3>4. Endpoints["export"] = Export /\ "export" \in DOMAIN Endpoints  BY DEF Endpoints
    <3> QED  BY <3>1, <3>2, <3>3, <3>4, StatementIsQuery
  <2> QED  BY <2>1 DEF Inv, ReadInv, Decided
<1>4. \A s, o \in Rows : s.of = o.id => s.conn = o.conn  BY RowsAssumption
<1>5. \A c : read.scope.none => In(read.scope, c)  BY DEF In
<1>6. CASE q.by = "connection"
  <2>1. In(read.scope, r.conn)  BY <1>6 DEF Selected
  <2> QED  BY <1>1, <1>2, <2>1 DEF Queries
<1>7. CASE q.by \in {"accounts", "listed", "exported"}
  <2>1. r \in Rows /\ q.name \notin {"accounts", "recent"}  BY <1>1, <1>2, <1>7 DEF Queries
  <2>2. CASE q.by = "accounts"
    <3>1. read.scope.none \/ r.of \in Ids(read.got["accounts"])  BY <2>2 DEF Selected
    <3>2. In(read.scope, r.conn)  BY <1>3, <1>4, <1>5, <2>1, <3>1 DEF Ids
    <3> QED  BY <2>1, <3>2 DEF AnyRow
  <2>3. CASE q.by = "listed"
    <3>1. r.of \in Ids(read.got["recent"])  BY <2>3 DEF Selected
    <3>2. In(read.scope, r.conn)  BY <1>3, <1>4, <2>1, <3>1 DEF Ids
    <3> QED  BY <2>1, <3>2 DEF AnyRow
  <2>4. CASE q.by = "exported"
    <3>1. \/ read.scope.none
          \/ \E t \in Table("transactions") : t.id = r.of /\ t.of \in Ids(read.got["accounts"])
      BY <2>4 DEF Selected
    <3>2. In(read.scope, r.conn)  BY <1>1, <1>3, <1>4, <1>5, <2>1, <3>1 DEF Ids
    <3> QED  BY <2>1, <3>2 DEF AnyRow
  <2> QED  BY <1>7, <2>2, <2>3, <2>4
<1>8. CASE q.by = "flags"
  <2>1. r \in Rows /\ q.name \notin {"accounts", "recent"} /\ read.e \in Unchipped
    BY <1>1, <1>2, <1>8 DEF Queries
  <2>2. read.scope.none \/ r.member = read.who \/ r.conn \in read.scope.ids
    BY <1>8 DEF Selected
  <2>3. read.chips = {}  BY <2>1 DEF Inv, ReadInv
  <2> QED  BY <2>1, <2>2, <2>3 DEF AnyRow, In
<1> QED  BY <1>6, <1>7, <1>8 DEF Queries

LEMMA StatementStep == ASSUME Inv, Statement PROVE Inv'
<1> DEFINE q == Endpoints[read.e][read.at]
<1> DEFINE pc == IF read.at = Len(Endpoints[read.e]) THEN "done" ELSE "reading"
<1> DEFINE got == [read.got EXCEPT ![q.name] = Selected(q, read)]
<1>1. read \in Request /\ read.e \in DOMAIN Endpoints  BY DEF Inv, TypeOK, Request
<1>2. /\ read.pc = "reading" /\ UNCHANGED <<grantVars, dataVars>>
      /\ read' = [read EXCEPT !.got = got, !.at = read.at + 1, !.pc = pc]
  <2>1. read.got \in [Names -> SUBSET AnyRow]  BY <1>1 DEF Request
  <2> QED  BY <1>1 DEF Statement, Request
<1>3. read.at \in 1..Len(Endpoints[read.e]) /\ Len(Endpoints[read.e]) \in Nat
  BY <1>1, <1>2, EndpointsAreQueries DEF Inv, ReadInv
<1>4. q \in Queries(read.e) /\ q.name \in Names  BY <1>1, <1>3, StatementIsQuery
<1>5. Selected(q, read) \subseteq AnyRow
  <2>1. Source(q.from) \subseteq AnyRow  BY SourceIsRows DEF Inv
  <2> QED  BY <2>1 DEF Selected
<1>6. got \in [Names -> SUBSET AnyRow]  BY <1>1, <1>4, <1>5 DEF Request
<1>7. \A n \in Names \ {"statuses"} : \A r \in got[n] :
          /\ In(read.scope, r.conn) \/ (r.member = read.who /\ read.chips = {})
          /\ n \in {"accounts", "recent"} => r \in Rows /\ In(read.scope, r.conn)
  <2> SUFFICES ASSUME NEW n \in Names \ {"statuses"}, NEW r \in got[n]
               PROVE  /\ In(read.scope, r.conn) \/ (r.member = read.who /\ read.chips = {})
                      /\ n \in {"accounts", "recent"} => r \in Rows /\ In(read.scope, r.conn)
    OBVIOUS
  <2>1. CASE n = q.name
    <3>1. r \in Selected(q, read)  BY <1>1, <2>1 DEF Request
    <3> HIDE DEF q, got
    <3> QED  BY <1>2, <1>4, <2>1, <3>1, SelectedInScope
  <2>2. CASE n # q.name
    <3>1. r \in read.got[n]  BY <1>1, <2>2 DEF Request
    <3> QED  BY <1>2, <3>1 DEF Inv, ReadInv, Decided
  <2> QED  BY <2>1, <2>2
<1>8. pc \in {"reading", "done"} /\ (pc = "reading" => read.at # Len(Endpoints[read.e]))
  OBVIOUS
<1> HIDE DEF q, pc, got
<1>9. read' \in Request
  <2>1. read.at + 1 \in Nat  BY <1>3
  <2>2. read' = [pc |-> pc, e |-> read.e, at |-> read.at + 1, who |-> read.who,
                 chips |-> read.chips, all |-> read.all, granted |-> read.granted,
                 scope |-> read.scope, got |-> got, old |-> read.old, touched |-> read.touched]
    BY <1>1, <1>2 DEF Request
  <2> QED  BY <1>1, <1>6, <1>8, <2>1, <2>2 DEF Request
<1>10. /\ read'.pc = pc /\ read'.at = read.at + 1 /\ read'.e = read.e /\ read'.who = read.who
       /\ read'.chips = read.chips /\ read'.got = got
       /\ read'.granted = read.granted /\ read'.scope = read.scope /\ read'.all = read.all
  BY <1>1, <1>2 DEF Request
<1>11. TypeOK' /\ Numbered'  BY <1>2, <1>3, <1>9, <1>10, RequestAlone DEF Inv
<1>12. ScopeInv'
  BY <1>2, <1>8, <1>10 DEF Inv, ScopeInv, Decided, Allowed, Chosen, Unrestricted, AnyRow
<1>13. ReadInv'  BY <1>2, <1>3, <1>7, <1>8, <1>10 DEF Inv, ReadInv, Decided
<1> QED  BY <1>11, <1>12, <1>13 DEF Inv

LEMMA RespondStep == ASSUME Inv, Respond PROVE Inv'
<1>1. read' = Idle /\ UNCHANGED <<grantVars, dataVars>>  BY DEF Respond
<1>2. read' \in Request  BY <1>1, IdleIsRequest
<1>3. /\ read'.pc = "idle" /\ read'.at = 0 /\ read'.chips = {} /\ read'.e = "dashboard"
      /\ read'.got = [n \in Names |-> {}]
  BY <1>1 DEF Idle
<1>4. Len(Endpoints["dashboard"]) \in Nat
  <2>1. "dashboard" \in DOMAIN Endpoints  BY DEF Endpoints
  <2> QED  BY <2>1, EndpointsAreQueries
<1>5. TypeOK' /\ Numbered'  BY <1>1, <1>2, <1>3, <1>4, RequestAlone DEF Inv
<1>6. ScopeInv'  BY <1>3 DEF ScopeInv, Decided
<1>7. ReadInv'  BY <1>3 DEF ReadInv, Decided
<1> QED  BY <1>5, <1>6, <1>7 DEF Inv

-----------------------------------------------------------------------------
(* What is committed meanwhile *)

\* A step outside the request, which at most adds to its history.
LEMMA RequestUntouched ==
    ASSUME Inv, NEW S, S \subseteq Ids(Transactions), read' = read \/ read' = [read EXCEPT !.touched = @ \cup S]
    PROVE  /\ read' \in Request /\ read'.at \in 0..Len(Endpoints[read'.e]) + 1
           /\ ScopeInv' /\ ReadInv'
<1>1. read \in Request /\ read.at \in 0..Len(Endpoints[read.e]) + 1  BY DEF Inv, TypeOK
<1>2. read' \in Request
  <2>1. read.touched \cup S \in SUBSET Ids(Transactions)  BY <1>1 DEF Request
  <2>2. CASE read' = [read EXCEPT !.touched = @ \cup S]
    <3> DEFINE T == read.touched \cup S
    <3>1. read' = [read EXCEPT !.touched = T] /\ T \in SUBSET Ids(Transactions)
      BY <2>1, <2>2
    <3> HIDE DEF T
    <3> QED  BY <1>1, <3>1 DEF Request
  <2> QED  BY <1>1, <2>2
<1>3. /\ read'.pc = read.pc /\ read'.at = read.at /\ read'.e = read.e /\ read'.who = read.who
      /\ read'.chips = read.chips /\ read'.got = read.got
      /\ read'.granted = read.granted /\ read'.scope = read.scope /\ read'.all = read.all
  BY <1>1 DEF Request
<1>4. ScopeInv'
  BY <1>3 DEF Inv, ScopeInv, Decided, Allowed, Chosen, Unrestricted, AnyRow
<1>5. ReadInv'  BY <1>3 DEF Inv, ReadInv, Decided
<1> QED  BY <1>1, <1>2, <1>3, <1>4, <1>5

LEMMA CommitStep ==
    ASSUME Inv,
           \/ \E o \in Writers : UpdateMemberAccess(o) /\ UNCHANGED <<dataVars, read>>
           \/ \E c \in Connections : Connect(c)
           \/ \E r \in Rows : Insert(r)
           \/ \E t \in Transactions : UpdateTransactionSplits(t)
           \/ \E p \in TransferPairs : DetectInternalTransfers(p)
    PROVE  Inv'
<1> DEFINE Kept == /\ read' \in Request /\ read'.at \in 0..Len(Endpoints[read'.e]) + 1
                   /\ ScopeInv' /\ ReadInv'
<1>1. read' = read => Kept  BY RequestUntouched
<1>2. ASSUME NEW o \in Writers, UpdateMemberAccess(o) /\ UNCHANGED <<dataVars, read>> PROVE Inv'
  <2>1. GrantsInv  BY DEF Inv, TypeOK, GrantsInv
  <2>2. GrantsInv'  BY <1>2, <2>1, UpdateMemberAccessStep
  <2>3. Kept  BY <1>1, <1>2
  <2>4. TypeOK'  BY <1>2, <2>2, <2>3 DEF Inv, TypeOK, GrantsInv, dataVars, Ids, Transactions
  <2> QED  BY <2>2, <2>3, <2>4 DEF Inv, GrantsInv
<1>3. ASSUME NEW c \in Connections, Connect(c) PROVE Inv'
  <2>1. Kept  BY <1>1, <1>3 DEF Connect
  <2>2. TypeOK'
    BY <1>3, <2>1 DEF Inv, TypeOK, GrantsTypeOK, Connect, dataVars, Ids, Transactions
  <2>3. Numbered'  BY <1>3 DEF Inv, Numbered, Connect
  <2> QED  BY <2>1, <2>2, <2>3 DEF Inv
<1>4. ASSUME NEW r \in Rows, Insert(r) PROVE Inv'
  <2>1. Kept  BY <1>1, <1>4 DEF Insert
  <2>2. TypeOK'
    BY <1>4, <2>1 DEF Inv, TypeOK, GrantsTypeOK, Insert, grantVars, Ids, Transactions
  <2>3. Numbered'  BY <1>4 DEF Inv, Numbered, Insert, grantVars
  <2> QED  BY <2>1, <2>2, <2>3 DEF Inv
<1>5. ASSUME NEW t \in Transactions, UpdateTransactionSplits(t) PROVE Inv'
  <2>1. t.id \in Ids(Transactions)  BY DEF Ids
  <2>2. Kept
    <3>1. read' = read \/ read' = [read EXCEPT !.touched = @ \cup {t.id}]
      BY <1>5 DEF UpdateTransactionSplits, Touched
    <3> QED  BY <2>1, <3>1, RequestUntouched
  <2>3. split' \cup transfer' \subseteq Ids(Transactions) /\ edits' \in 0..MaxEdits
    BY <1>5, <2>1, RowsAssumption DEF Inv, TypeOK, UpdateTransactionSplits
  <2>4. TypeOK'
    BY <1>5, <2>2, <2>3 DEF Inv, TypeOK, GrantsTypeOK, UpdateTransactionSplits, grantVars, Ids, Transactions
  <2>5. Numbered'  BY <1>5 DEF Inv, Numbered, UpdateTransactionSplits, grantVars
  <2> QED  BY <2>2, <2>4, <2>5 DEF Inv
<1>6. ASSUME NEW p \in TransferPairs, DetectInternalTransfers(p) PROVE Inv'
  <2>1. p \subseteq Ids(Transactions)
    BY <1>6 DEF DetectInternalTransfers, Ids, Table, Transactions, Inv, TypeOK
  <2>2. Kept
    <3>1. read' = read \/ read' = [read EXCEPT !.touched = @ \cup p]
      BY <1>6 DEF DetectInternalTransfers, Touched
    <3> QED  BY <2>1, <3>1, RequestUntouched
  <2>3. split' \cup transfer' \subseteq Ids(Transactions)
    BY <1>6, <2>1 DEF Inv, TypeOK, DetectInternalTransfers
  <2>4. TypeOK'
    BY <1>6, <2>2, <2>3 DEF Inv, TypeOK, GrantsTypeOK, DetectInternalTransfers, grantVars, Ids, Transactions
  <2>5. Numbered'  BY <1>6 DEF Inv, Numbered, DetectInternalTransfers, grantVars
  <2> QED  BY <2>2, <2>4, <2>5 DEF Inv
<1> QED  BY <1>2, <1>3, <1>4, <1>5, <1>6

-----------------------------------------------------------------------------
(* The specification *)

LEMMA InvInit == Init => Inv
<1> SUFFICES ASSUME Init PROVE Inv  OBVIOUS
<1>1. PICK m \in Targets : put = [o \in Writers |-> NoPut(m)]  BY DEF Init, GrantsInit
<1>2. 0 \in 0..MaxPuts /\ 0 \in 0..MaxEdits /\ m \in Members
  BY GrantsAssumption, RowsAssumption
<1>3. put \in [Writers -> Put]  BY <1>1, <1>2 DEF NoPut, Put
<1>4. GrantsTypeOK  BY <1>2, <1>3, GrantsAssumption DEF Init, GrantsInit, GrantsTypeOK
<1>5. /\ read.pc = "idle" /\ read.at = 0 /\ read.e = "dashboard"
      /\ read.got = [n \in Names |-> {}] /\ read \in Request
  BY IdleIsRequest DEF Init, Idle
<1>6. Len(Endpoints["dashboard"]) \in Nat
  <2>1. "dashboard" \in DOMAIN Endpoints  BY DEF Endpoints
  <2> QED  BY <2>1, EndpointsAreQueries
<1>7. TypeOK  BY <1>2, <1>4, <1>5, <1>6, RowsAssumption DEF Init, TypeOK
<1>8. Numbered  BY <1>1 DEF Numbered, NoPut, Init, GrantsInit
<1>9. ScopeInv  BY <1>5 DEF ScopeInv, Decided
<1>10. ReadInv  BY <1>5 DEF ReadInv, Decided
<1> QED  BY <1>7, <1>8, <1>9, <1>10 DEF Inv

LEMMA InvNext == Inv /\ [Next]_vars => Inv'
<1> SUFFICES ASSUME Inv, [Next]_vars PROVE Inv'  OBVIOUS
<1>1. CASE Serve
  <2>1. \A m \in Members, e \in DOMAIN Endpoints, chips \in Chips : Authorize(m, e, chips) => Inv'
    BY AuthorizeStep
  <2> QED  BY <1>1, <2>1, ReadConnectionsStep, ReadGrantsStep, ResolveMembersStep,
              StatementStep, RespondStep DEF Serve
<1>2. CASE Next /\ ~Serve  BY <1>2, CommitStep DEF Next
<1>3. CASE UNCHANGED vars
  <2>1. read' = read /\ UNCHANGED <<grantVars, dataVars>>  BY <1>3 DEF vars
  <2>2. read' \in Request /\ read'.at \in 0..Len(Endpoints[read'.e]) + 1 /\ ScopeInv' /\ ReadInv'
    BY <2>1, RequestUntouched
  <2> QED  BY <2>1, <2>2, RequestAlone DEF Inv
<1> QED  BY <1>1, <1>2, <1>3

\* Every variable keeps its type.
THEOREM TypeCorrect == Spec => []TypeOK
<1>1. Inv => TypeOK  BY DEF Inv
<1> QED  BY <1>1, InvInit, InvNext, PTL DEF Spec

\* No response, of whatever endpoint, holds a row outside its member's scope,
\* whatever is connected, synced, granted or revoked while it is read.
THEOREM ResponsesStayInScope == Spec => []OnlyScopedRows
<1>1. Inv => OnlyScopedRows
  <2> SUFFICES ASSUME Inv, Decided, NEW n \in Names \ {"statuses"}, NEW r \in read.got[n]
               PROVE  /\ Allowed(r) \/ r.member = read.who
                      /\ Chosen(r)
    BY DEF OnlyScopedRows, Allowed, Chosen
  <2>1. r \in AnyRow  BY DEF Inv, TypeOK, Request
  <2>2. In(read.scope, r.conn) \/ (r.member = read.who /\ read.chips = {})
    BY DEF Inv, ReadInv
  <2> QED  BY <2>1, <2>2 DEF Inv, ScopeInv, Chosen
<1> QED  BY <1>1, InvInit, InvNext, PTL DEF Spec

\* However many owners replace the grants of one member at a time, each leaves
\* what it asked for and nothing of what it saw.
THEOREM PutsReplaceGrants == Spec => PutReplaces
<1>1. Inv /\ [Next]_vars =>
          [\A o \in Writers :
              CommitAccess(o) =>
                  /\ Asked(o) \subseteq grants'
                  /\ put[o].sees \cap grants' = {}]_grantVars
  <2> SUFFICES ASSUME Inv, NEW o \in Writers, CommitAccess(o)
               PROVE  Asked(o) \subseteq grants' /\ put[o].sees \cap grants' = {}
    OBVIOUS
  <2>1. GrantsInv  BY DEF Inv, TypeOK, GrantsInv
  <2> QED  BY <2>1, CommitReplaces
<1> QED  BY <1>1, InvInit, InvNext, PTL DEF Spec, PutReplaces

-----------------------------------------------------------------------------
(* What it takes to replace all grants *)

HeldBy(m) == {g \in grants : g.member = m}

\* No two requests about one member are under way.
Undisturbed ==
    \A o, p \in Writers :
        o # p /\ put[o].pc # "idle" /\ put[p].pc # "idle" => put[o].member # put[p].member

\* Then a request sees, and has deleted, all that its member has.
SeesAll ==
    \A o \in Writers :
        /\ put[o].pc = "deleting" => put[o].sees = HeldBy(put[o].member)
        /\ put[o].pc = "deleted" => put[o].gone = HeldBy(put[o].member)

\* A commit replaces the grants of its member and leaves those of others alone.
LEMMA CommitIsOfMember ==
    ASSUME GrantsTypeOK, SeesAll, NEW o \in Writers, CommitAccess(o)
    PROVE  /\ {g \in grants' : g.member = put[o].member} = Asked(o)
           /\ \A m : m # put[o].member => HeldBy(m)' = HeldBy(m)
<1>1. put[o].gone = HeldBy(put[o].member) /\ grants' = (grants \ put[o].gone) \cup Asked(o)
  BY DEF CommitAccess, SeesAll
<1>2. \A g \in Asked(o) : g.member = put[o].member  BY DEF Asked
<1>3. {g \in grants' : g.member = put[o].member} = Asked(o)  BY <1>1, <1>2 DEF HeldBy
<1>4. \A m : m # put[o].member =>
          {g \in grants' : g.member = m} = {g \in grants : g.member = m}
  BY <1>1, <1>2 DEF HeldBy
<1> QED  BY <1>3, <1>4 DEF HeldBy

\* Every step of a request, and of everybody else, keeps that.
LEMMA SeesAllStep ==
    ASSUME Inv, SeesAll, Undisturbed, [Next]_vars
    PROVE  SeesAll'
<1>0. GrantsTypeOK /\ put \in [Writers -> Put]  BY DEF Inv, TypeOK, GrantsTypeOK
<1>1. ASSUME UNCHANGED <<grants, put>> PROVE SeesAll'  BY <1>1 DEF SeesAll, HeldBy
<1>2. ASSUME NEW o \in Writers, UpdateMemberAccess(o) PROVE SeesAll'
  <2>1. \A p \in Writers \ {o} : put'[p] = put[p]
    BY <1>0, <1>2 DEF UpdateMemberAccess, CheckAccess, StartRevoke, EndRevoke, CommitAccess, AbortAccess
  <2>2. CASE CheckAccess(o)
    <3>1. put'[o].pc = "checked" /\ grants' = grants  BY <1>0, <2>2 DEF CheckAccess, Put
    <3> QED  BY <2>1, <3>1 DEF SeesAll, HeldBy
  <2>3. CASE StartRevoke(o)
    <3>1. /\ put'[o].pc = "deleting" /\ grants' = grants /\ put'[o].member = put[o].member
          /\ put'[o].sees = HeldBy(put[o].member)
      BY <1>0, <2>3 DEF StartRevoke, Put, HeldBy
    <3> QED  BY <2>1, <3>1 DEF SeesAll, HeldBy
  <2>4. CASE EndRevoke(o)
    <3>1. /\ put'[o].pc = "deleted" /\ grants' = grants /\ put'[o].member = put[o].member
          /\ put'[o].gone = put[o].sees \cap grants /\ put[o].sees = HeldBy(put[o].member)
      BY <1>0, <2>4 DEF EndRevoke, Put, SeesAll
    <3> QED  BY <2>1, <3>1 DEF SeesAll, HeldBy
  <2>5. CASE CommitAccess(o)
    <3>1. put'[o].pc = "idle" /\ put[o].pc # "idle"  BY <1>0, <2>5 DEF CommitAccess, NoPut
    <3>2. \A p \in Writers \ {o} :
              put[p].pc # "idle" => HeldBy(put[p].member)' = HeldBy(put[p].member)
      <4> SUFFICES ASSUME NEW p \in Writers \ {o}, put[p].pc # "idle"
                   PROVE  HeldBy(put[p].member)' = HeldBy(put[p].member)
        OBVIOUS
      <4>1. put[p].member # put[o].member  BY <3>1 DEF Undisturbed
      <4>2. \A m : m # put[o].member => {g \in grants' : g.member = m} = {g \in grants : g.member = m}
        BY <1>0, <2>5, CommitIsOfMember DEF HeldBy
      <4> QED  BY <2>1, <4>1, <4>2 DEF HeldBy
    <3> QED  BY <2>1, <3>1, <3>2 DEF SeesAll
  <2>6. CASE AbortAccess(o)
    <3>1. put'[o].pc = "idle" /\ grants' = grants  BY <1>0, <2>6 DEF AbortAccess, NoPut
    <3> QED  BY <2>1, <3>1 DEF SeesAll, HeldBy
  <2> QED  BY <1>2, <2>2, <2>3, <2>4, <2>5, <2>6 DEF UpdateMemberAccess
<1>3. ASSUME Serve \/ (\E c \in Connections : Connect(c)) \/ (\E r \in Rows : Insert(r))
                 \/ (\E t \in Transactions : UpdateTransactionSplits(t))
                 \/ (\E p \in TransferPairs : DetectInternalTransfers(p)) \/ UNCHANGED vars
      PROVE  UNCHANGED <<grants, put>>
  BY <1>3 DEF Serve, Authorize, ReadConnections, ReadGrants, ResolveMembers, Statement, Respond,
              Connect, Insert, UpdateTransactionSplits, DetectInternalTransfers, grantVars, vars
<1> QED  BY <1>1, <1>2, <1>3 DEF Next

\* "Full-replace semantics": a request about a member that no other request is
\* about meanwhile meets no grant of that member's again, so that the unique
\* constraint never refuses it, and leaves exactly what it asked for.
THEOREM UndisturbedPutsReplaceAll ==
    Spec /\ []Undisturbed =>
        /\ [](\A o \in Writers : put[o].pc = "deleted" => ~Collides(o))
        /\ [][\A o \in Writers :
                 CommitAccess(o) => {g \in grants' : g.member = put[o].member} = Asked(o)]_grantVars
<1>1. Init => Inv /\ SeesAll
  <2>1. Init => \A o \in Writers : put[o].pc = "idle"  BY DEF Init, GrantsInit, NoPut
  <2> QED  BY <2>1, InvInit DEF SeesAll
<1>2. Inv /\ SeesAll /\ Undisturbed /\ [Next]_vars => Inv' /\ SeesAll'
  BY InvNext, SeesAllStep
<1>3. SeesAll => \A o \in Writers : put[o].pc = "deleted" => ~Collides(o)
  BY DEF SeesAll, Collides, HeldBy
<1>4. Inv /\ SeesAll /\ [Next]_vars =>
          [\A o \in Writers :
              CommitAccess(o) => {g \in grants' : g.member = put[o].member} = Asked(o)]_grantVars
  BY CommitIsOfMember DEF Inv, TypeOK
<1> QED  BY <1>1, <1>2, <1>3, <1>4, PTL DEF Spec


-----------------------------------------------------------------------------
(* The breakdowns *)

\* What a breakdown adds up, and which of its statements reads it.
SlicesOf(e) == IF e = "categories" THEN Slices ELSE {"spending"}

AllSlices == Slices \cup {"spending"}

Turn == [unsplit |-> 1, splits |-> 2, prior_unsplit |-> 3, prior_splits |-> 4, spending |-> 2]

\* Of a transaction that nobody has touched: a slice that holds it still would, and
\* one that has been read holds it if it would.
SliceKept(n, t) ==
    /\ t \in read.got[n] => t \in Source(n) /\ Turn[n] < read.at
    /\ Turn[n] < read.at /\ t \in read.old /\ In(read.scope, t.conn) /\ t \in Source(n)
           => t \in read.got[n]

CountInv ==
    read.pc # "idle" /\ read.e \in Breakdowns =>
        /\ read.old \subseteq db \cup ConnectionRows
        /\ ~Decided => read.at = 0
        /\ read.pc = "done" => read.at = Len(Endpoints[read.e]) + 1
        /\ \A t \in Transactions, n \in SlicesOf(read.e) : t.id \notin read.touched => SliceKept(n, t)

\* The statements of a breakdown.
LEMMA BreakdownTurns ==
    ASSUME NEW e \in Breakdowns
    PROVE  /\ e \in DOMAIN Endpoints /\ Len(Endpoints[e]) \in {2, 4}
           /\ SlicesOf(e) \subseteq AllSlices
           /\ \A n \in SlicesOf(e) :
                  Turn[n] \in 1..Len(Endpoints[e]) /\ Endpoints[e][Turn[n]] = Plain(n)
           /\ \A i \in 1..Len(Endpoints[e]) :
                  \/ Endpoints[e][i].name \in SlicesOf(e) /\ Turn[Endpoints[e][i].name] = i
                  \/ Endpoints[e][i].name = "owners"
<1>1. CASE e = "categories"
  BY <1>1 DEF SlicesOf, AllSlices, Slices, Turn, Endpoints, Categories, Plain, Q
<1>2. CASE e = "spending"
  BY <1>2 DEF SlicesOf, AllSlices, Slices, Turn, Endpoints, SpendingByMember, Plain, Q
<1> QED  BY <1>1, <1>2 DEF Breakdowns

LEMMA SlicesAreNames == AllSlices \subseteq Names
<1>1. \A e \in Breakdowns : \A n \in SlicesOf(e) : n \in Names
  <2> SUFFICES ASSUME NEW e \in Breakdowns, NEW n \in SlicesOf(e) PROVE n \in Names
    OBVIOUS
  <2>1. /\ e \in DOMAIN Endpoints /\ Turn[n] \in 1..Len(Endpoints[e])
        /\ Endpoints[e][Turn[n]] = Plain(n)
    BY BreakdownTurns
  <2>2. Plain(n).name = n  BY DEF Plain, Q
  <2> QED  BY <2>1, <2>2, StatementIsQuery
<1> QED  BY <1>1 DEF Breakdowns, SlicesOf, AllSlices

LEMMA SliceSources ==
    /\ Source("unsplit") = Unsplit(Period) /\ Source("splits") = Splits(Period)
    /\ Source("prior_unsplit") = Unsplit(PreviousPeriod)
    /\ Source("prior_splits") = Splits(PreviousPeriod)
    /\ Source("spending") = {t \in Table("transactions") : Spending(t, Period)}
BY DEF Source

\* No transaction is in two slices at once, and one that is spending is in one.
LEMMA SlicesPartition ==
    ASSUME NEW t \in Transactions
    PROVE  /\ \A n, o \in Slices : t \in Source(n) /\ t \in Source(o) => n = o
           /\ t \in db /\ Spending(t, Period \cup PreviousPeriod) => \E n \in Slices : t \in Source(n)
<1>1. Period \cap PreviousPeriod = {}
  BY RowsAssumption DEF Period, PreviousPeriod, PreviousEnd
<1>2. \A n, o \in Slices : t \in Source(n) /\ t \in Source(o) => n = o
  BY <1>1, SliceSources DEF Slices, Unsplit, Splits, Spending
<1>3. ASSUME t \in db, Spending(t, Period \cup PreviousPeriod) PROVE \E n \in Slices : t \in Source(n)
  <2>1. t \in Table("transactions")  BY <1>3 DEF Table, Transactions
  <2>2. t \in Unsplit(Period) \/ t \in Splits(Period)
        \/ t \in Unsplit(PreviousPeriod) \/ t \in Splits(PreviousPeriod)
    BY <1>3, <2>1 DEF Spending, Unsplit, Splits
  <2> QED  BY <2>2, SliceSources DEF Slices
<1> QED  BY <1>2, <1>3

\* What is committed outside the request leaves the slices of a transaction alone
\* that it does not touch.
LEMMA SourceOfUntouched ==
    ASSUME NEW t \in Transactions, NEW n \in AllSlices, db \subseteq db',
           t.id \in split' <=> t.id \in split, t.id \in transfer' <=> t.id \in transfer
    PROVE  /\ t \in Source(n) => t \in Source(n)'
           /\ t \in db /\ t \in Source(n)' => t \in Source(n)
<1>1. /\ Source("unsplit")' = Unsplit(Period)' /\ Source("splits")' = Splits(Period)'
      /\ Source("prior_unsplit")' = Unsplit(PreviousPeriod)'
      /\ Source("prior_splits")' = Splits(PreviousPeriod)'
      /\ Source("spending")' = {r \in Table("transactions") : Spending(r, Period)}'
  BY DEF Source
<1> QED
  BY <1>1, SliceSources DEF AllSlices, Slices, Unsplit, Splits, Spending, Table, Transactions,
     Period, PreviousPeriod, PreviousEnd

LEMMA OldInDb ==
    ASSUME NEW t \in Transactions, t \in db \cup ConnectionRows
    PROVE  t \in db
BY DEF Transactions, ConnectionRows

\* A step outside the request.
LEMMA CountOutside ==
    ASSUME TypeOK, CountInv, NEW S, S \subseteq Ids(Transactions),
           db \subseteq db', connected \subseteq connected',
           \/ read' = read /\ S = {}
           \/ read' = [read EXCEPT !.touched = @ \cup S]
           \/ read' = read /\ (read.pc = "idle" \/ read.e \notin Breakdowns),
           \A i \in Ids(Transactions) \ S :
               (i \in split' <=> i \in split) /\ (i \in transfer' <=> i \in transfer)
    PROVE  CountInv'
<1>1. read \in Request  BY DEF TypeOK
<1>2. /\ read'.pc = read.pc /\ read'.e = read.e /\ read'.at = read.at /\ read'.old = read.old
      /\ read'.got = read.got /\ read'.scope = read.scope /\ read.touched \subseteq read'.touched
      /\ read.pc # "idle" /\ read.e \in Breakdowns => S \subseteq read'.touched
  BY <1>1 DEF Request
<1> SUFFICES ASSUME read.pc # "idle", read.e \in Breakdowns PROVE CountInv'
  BY <1>2 DEF CountInv
<1>3. ConnectionRows \subseteq ConnectionRows'  BY DEF ConnectionRows
<1>4. read'.old \subseteq db' \cup ConnectionRows'  BY <1>2, <1>3 DEF CountInv
<1>5. ASSUME NEW t \in Transactions, NEW n \in SlicesOf(read.e), t.id \notin read'.touched
      PROVE  SliceKept(n, t)'
  <2>1. t.id \in Ids(Transactions) \ S  BY <1>2, <1>5 DEF Ids
  <2>2. /\ t \in Source(n) => t \in Source(n)'
        /\ t \in db /\ t \in Source(n)' => t \in Source(n)
    BY <2>1, BreakdownTurns, SourceOfUntouched
  <2>3. SliceKept(n, t)  BY <1>2, <1>5 DEF CountInv
  <2>4. t \in read.old => t \in db  BY OldInDb DEF CountInv
  <2> QED  BY <1>2, <2>2, <2>3, <2>4 DEF SliceKept, In
<1> QED  BY <1>2, <1>4, <1>5 DEF CountInv, Decided

\* One that touches no transaction.
LEMMA CountKept ==
    ASSUME TypeOK, CountInv, db \subseteq db', connected \subseteq connected',
           read' = read, split' = split, transfer' = transfer
    PROVE  CountInv'
<1> DEFINE S == {}
<1>1. /\ S \subseteq Ids(Transactions) /\ S = {}
      /\ \A i \in Ids(Transactions) \ S :
             (i \in split' <=> i \in split) /\ (i \in transfer' <=> i \in transfer)
  OBVIOUS
<1> HIDE DEF S
<1> QED  BY <1>1, CountOutside

LEMMA CountCommits ==
    ASSUME Inv, CountInv,
           \/ \E o \in Writers : UpdateMemberAccess(o) /\ UNCHANGED <<dataVars, read>>
           \/ \E c \in Connections : Connect(c)
           \/ \E r \in Rows : Insert(r)
           \/ \E t \in Transactions : UpdateTransactionSplits(t)
           \/ \E p \in TransferPairs : DetectInternalTransfers(p)
           \/ UNCHANGED vars
    PROVE  CountInv'
<1>1. TypeOK  BY DEF Inv
<1>2. ASSUME NEW o \in Writers, UpdateMemberAccess(o) /\ UNCHANGED <<dataVars, read>>
      PROVE CountInv'
  <2>1. connected' = connected
    BY <1>2 DEF UpdateMemberAccess, CheckAccess, StartRevoke, EndRevoke, CommitAccess, AbortAccess
  <2> QED  BY <1>1, <1>2, <2>1, CountKept DEF dataVars
<1>3. ASSUME NEW c \in Connections, Connect(c) PROVE CountInv'
  BY <1>1, <1>3, CountKept DEF Connect, dataVars
<1>4. ASSUME NEW r \in Rows, Insert(r) PROVE CountInv'
  BY <1>1, <1>4, CountKept DEF Insert, grantVars
<1>5. ASSUME NEW t \in Transactions, UpdateTransactionSplits(t) PROVE CountInv'
  <2>1. {t.id} \subseteq Ids(Transactions)  BY DEF Ids
  <2>2. \/ read' = [read EXCEPT !.touched = @ \cup {t.id}]
        \/ read' = read /\ (read.pc = "idle" \/ read.e \notin Breakdowns)
    BY <1>5 DEF UpdateTransactionSplits, Touched
  <2>3. \A i \in Ids(Transactions) \ {t.id} : i \in split' <=> i \in split
    BY <1>5 DEF UpdateTransactionSplits
  <2>4. db' = db /\ connected' = connected /\ transfer' = transfer
    BY <1>5 DEF UpdateTransactionSplits, grantVars
  <2> QED  BY <1>1, <2>1, <2>2, <2>3, <2>4, CountOutside
<1>6. ASSUME NEW p \in TransferPairs, DetectInternalTransfers(p) PROVE CountInv'
  <2>1. p \subseteq Ids(Transactions)
    BY <1>1, <1>6 DEF DetectInternalTransfers, Ids, Table, Transactions, TypeOK
  <2>2. \/ read' = [read EXCEPT !.touched = @ \cup p]
        \/ read' = read /\ (read.pc = "idle" \/ read.e \notin Breakdowns)
    BY <1>6 DEF DetectInternalTransfers, Touched
  <2>3. \A i \in Ids(Transactions) \ p : i \in transfer' <=> i \in transfer
    BY <1>6 DEF DetectInternalTransfers
  <2>4. db' = db /\ connected' = connected /\ split' = split
    BY <1>6 DEF DetectInternalTransfers, grantVars
  <2> QED  BY <1>1, <2>1, <2>2, <2>3, <2>4, CountOutside
<1>7. CASE UNCHANGED vars
  BY <1>1, <1>7, CountKept DEF vars, grantVars, dataVars
<1> QED  BY <1>2, <1>3, <1>4, <1>5, <1>6, <1>7

\* The steps of a request that come before its statements.
LEMMA CountBefore ==
    ASSUME Inv, CountInv,
           \/ \E m \in Members, e \in DOMAIN Endpoints, chips \in Chips : Authorize(m, e, chips)
           \/ ReadConnections \/ ReadGrants \/ ResolveMembers \/ Respond
    PROVE  CountInv'
<1>1. read \in Request  BY DEF Inv, TypeOK
<1>2. ASSUME NEW m \in Members, NEW e \in DOMAIN Endpoints, NEW chips \in Chips,
             Authorize(m, e, chips)
      PROVE  CountInv'
  <2>1. UNCHANGED <<grantVars, dataVars>> /\ read'.at = 0 /\ read'.e = e
        /\ read'.pc \in {"chips", "all"}
        /\ read'.got = [n \in Names |-> {}] /\ (e \in Breakdowns => read'.old = db \cup ConnectionRows)
    BY <1>2 DEF Authorize, Idle
  <2>2. db' = db /\ ConnectionRows' = ConnectionRows
    BY <2>1 DEF grantVars, dataVars, ConnectionRows
  <2>3. \A n \in AllSlices, t \in Transactions : SliceKept(n, t)'
    BY <2>1, SlicesAreNames DEF SliceKept, AllSlices, Slices, Turn
  <2> QED  BY <2>1, <2>2, <2>3, BreakdownTurns DEF CountInv, Decided
<1>3. CASE ReadConnections \/ ReadGrants \/ ResolveMembers
  <2> SUFFICES ASSUME read.e \in Breakdowns PROVE CountInv'
    BY <1>1, <1>3 DEF CountInv, ReadConnections, ReadGrants, ResolveMembers, Request
  <2>1. /\ ~Decided /\ read.pc # "idle" /\ UNCHANGED <<grantVars, dataVars>>
        /\ read'.got = read.got /\ read'.e = read.e /\ read'.old = read.old
        /\ \/ read'.pc \in {"granted", "chips"} /\ read'.at = read.at
           \/ read'.pc = "reading" /\ read'.at = 1
    BY <1>1, <1>3 DEF ReadConnections, ReadGrants, ResolveMembers, Request, Decided
  <2>2. db' = db /\ ConnectionRows' = ConnectionRows
    BY <2>1 DEF grantVars, dataVars, ConnectionRows
  <2>3. read.got = [n \in Names |-> {}]  BY <2>1 DEF Inv, ReadInv
  <2>4. \A n \in AllSlices, t \in Transactions : SliceKept(n, t)'
    <3>1. \A n \in AllSlices : read'.got[n] = {}  BY <2>1, <2>3, SlicesAreNames
    <3>2. \A n \in AllSlices : ~(Turn[n] < read'.at)
      BY <2>1 DEF CountInv, AllSlices, Slices, Turn
    <3> QED  BY <3>1, <3>2 DEF SliceKept
  <2> QED  BY <2>1, <2>2, <2>4, BreakdownTurns DEF CountInv, Decided
<1>4. CASE Respond  BY <1>4 DEF Respond, Idle, CountInv
<1> QED  BY <1>2, <1>3, <1>4

LEMMA CountStatement == ASSUME Inv, CountInv, Statement PROVE CountInv'
<1>1. read \in Request  BY DEF Inv, TypeOK
<1> DEFINE q == Endpoints[read.e][read.at]
<1>2. /\ read.pc = "reading" /\ UNCHANGED <<grantVars, dataVars>>
      /\ read'.e = read.e /\ read'.old = read.old /\ read'.scope = read.scope
      /\ read'.touched = read.touched
      /\ read'.at = read.at + 1
      /\ read'.pc = (IF read.at = Len(Endpoints[read.e]) THEN "done" ELSE "reading")
      /\ read'.got = [read.got EXCEPT ![q.name] = Selected(q, read)]
  BY <1>1 DEF Statement, Request
<1> SUFFICES ASSUME read.e \in Breakdowns PROVE CountInv'
  BY <1>2 DEF CountInv
<1>3. Len(Endpoints[read.e]) \in {2, 4}  BY BreakdownTurns
<1>4. read.at \in 1..Len(Endpoints[read.e])  BY <1>2 DEF Inv, ReadInv
<1>5. /\ \A n \in SlicesOf(read.e) :
             /\ Turn[n] \in 1..Len(Endpoints[read.e])
             /\ n = q.name => Turn[n] = read.at /\ q = Plain(n)
             /\ n # q.name => Turn[n] # read.at
  <2>1. \A n \in SlicesOf(read.e) :
            Turn[n] \in 1..Len(Endpoints[read.e]) /\ Endpoints[read.e][Turn[n]] = Plain(n)
    BY BreakdownTurns
  <2>2. "owners" \notin SlicesOf(read.e)  BY DEF SlicesOf, Slices
  <2>3. \/ q.name \in SlicesOf(read.e) /\ Turn[q.name] = read.at
        \/ q.name = "owners"
    BY <1>4, BreakdownTurns
  <2>4. \A n : Plain(n).name = n  BY DEF Plain, Q
  <2> QED  BY <2>1, <2>2, <2>3, <2>4
<1> HIDE DEF q
<1>6. q.name \in SlicesOf(read.e) =>
          Selected(q, read) = {r \in Source(q.name) : In(read.scope, r.conn)}
  <2> SUFFICES ASSUME NEW n \in SlicesOf(read.e), n = q.name
               PROVE  Selected(q, read) = {r \in Source(n) : In(read.scope, r.conn)}
    OBVIOUS
  <2>1. q = Plain(n)  BY <1>5
  <2>2. q.from = n /\ q.by = "connection"  BY <2>1 DEF Plain, Q
  <2> QED  BY <2>2 DEF Selected
<1>7. db' = db /\ ConnectionRows' = ConnectionRows /\ \A n \in AllSlices : Source(n)' = Source(n)
  BY <1>2, SliceSources DEF grantVars, dataVars, ConnectionRows, AllSlices, Slices, Source,
     Unsplit, Splits, Spending, Table
<1>8. ASSUME NEW t \in Transactions, NEW n \in SlicesOf(read.e), t.id \notin read'.touched
      PROVE  SliceKept(n, t)'
  <2>1. SliceKept(n, t)  BY <1>2, <1>8 DEF CountInv
  <2>2. n \in AllSlices /\ n \in Names  BY BreakdownTurns, SlicesAreNames
  <2>3. read.got \in [Names -> SUBSET AnyRow]  BY <1>1 DEF Request
  <2>4. Source(n)' = Source(n)  BY <1>7, <2>2
  <2>5. CASE n = q.name
    <3>1. read'.got[n] = Selected(q, read)  BY <1>2, <2>2, <2>3, <2>5
    <3>2. Turn[n] < read'.at  BY <1>2, <1>4, <1>5, <2>5
    <3> QED  BY <1>2, <1>6, <2>4, <2>5, <3>1, <3>2 DEF SliceKept, In
  <2>6. CASE n # q.name
    <3>1. read'.got[n] = read.got[n]  BY <1>2, <2>2, <2>3, <2>6
    <3>2. Turn[n] < read'.at <=> Turn[n] < read.at
      <4>1. Turn[n] \in Int /\ Turn[n] # read.at /\ read.at \in Int  BY <1>3, <1>4, <1>5, <2>6
      <4> QED  BY <1>2, <4>1
    <3> QED  BY <1>2, <2>1, <2>4, <3>1, <3>2 DEF SliceKept, In
  <2> QED  BY <2>5, <2>6
<1>9. /\ read'.pc \in {"reading", "done"}
      /\ read'.pc = "done" => read'.at = Len(Endpoints[read'.e]) + 1
  BY <1>2, <1>3
<1> QED  BY <1>2, <1>7, <1>8, <1>9 DEF CountInv, Decided

LEMMA CountNext == Inv /\ CountInv /\ [Next]_vars => CountInv'
<1> SUFFICES ASSUME Inv, CountInv, [Next]_vars PROVE CountInv'  OBVIOUS
<1>1. CASE Serve  BY <1>1, CountBefore, CountStatement DEF Serve
<1>2. CASE ~Serve  BY <1>2, CountCommits DEF Next
<1> QED  BY <1>1, <1>2

\* When a breakdown is done, all of it has been read.
LEMMA AllIsRead ==
    ASSUME CountInv, read.pc = "done", read.e \in Breakdowns,
           NEW t \in Transactions, t.id \notin read.touched, NEW n \in SlicesOf(read.e)
    PROVE  SliceKept(n, t) /\ Turn[n] < read.at
<1>1. read.at = Len(Endpoints[read.e]) + 1 /\ SliceKept(n, t)  BY DEF CountInv
<1>2. Turn[n] \in 1..Len(Endpoints[read.e]) /\ Len(Endpoints[read.e]) \in Int
  BY BreakdownTurns
<1>3. Turn[n] < read.at  BY <1>1, <1>2
<1> QED  BY <1>1, <1>3

\* In a breakdown by category no transaction is counted twice, and none that was
\* there is left out, unless it was itself edited meanwhile.
THEOREM BreakdownCountsOnce == Spec => []CountedOnce
<1>1. Init => CountInv  BY DEF Init, Idle, CountInv
<1>2. ASSUME Inv, CountInv PROVE CountedOnce
  <2> SUFFICES ASSUME read.pc = "done", read.e = "categories",
                      NEW t \in Transactions, t.id \notin read.touched
               PROVE  LET times == Cardinality({n \in Slices : t \in read.got[n]})
                      IN /\ times <= 1
                         /\ /\ t \in read.old /\ In(read.scope, t.conn)
                            /\ Spending(t, Period \cup PreviousPeriod)
                            => times = 1
    BY DEF CountedOnce
  <2> DEFINE held == {n \in Slices : t \in read.got[n]}
  <2>1. \A n \in Slices : SliceKept(n, t) /\ Turn[n] < read.at
    BY <1>2, AllIsRead DEF Breakdowns, SlicesOf
  <2>2. \A n, o \in held : n = o
    BY <2>1, SlicesPartition DEF SliceKept
  <2>3. held = {} \/ \E n \in Slices : held = {n}  BY <2>2
  <2>4. Cardinality({}) = 0 /\ \A n : Cardinality({n}) = 1  BY FS_EmptySet, FS_Singleton
  <2>5. ASSUME t \in read.old, In(read.scope, t.conn), Spending(t, Period \cup PreviousPeriod)
        PROVE  held # {}
    <3>1. t \in db  BY <1>2, <2>5, OldInDb DEF CountInv, Breakdowns
    <3>2. PICK n \in Slices : t \in Source(n)  BY <2>5, <3>1, SlicesPartition
    <3> QED  BY <2>1, <2>5, <3>2 DEF SliceKept
  <2> HIDE DEF held
  <2>6. Cardinality(held) \in {0, 1} /\ (held # {} => Cardinality(held) = 1)  BY <2>3, <2>4
  <2> QED  BY <2>5, <2>6 DEF held
<1> QED  BY <1>1, <1>2, InvInit, InvNext, CountNext, PTL DEF Spec

\* A breakdown by category and one by member count the same transactions: those of
\* the period that are spending, and every one in scope that was there when the
\* request began, whatever is synced, split and marked between the statements.
THEOREM BreakdownsCountTheSame == Spec => []BreakdownsAgree
<1>1. Init => CountInv  BY DEF Init, Idle, CountInv
<1>2. ASSUME Inv, CountInv PROVE BreakdownsAgree
  <2> SUFFICES ASSUME read.pc = "done", read.e \in Breakdowns,
                      NEW t \in Transactions, t.id \notin read.touched
               PROVE  /\ t \in Counted => Spending(t, Period)
                      /\ t \in read.old /\ In(read.scope, t.conn) /\ Spending(t, Period)
                             => t \in Counted
    BY DEF BreakdownsAgree
  <2>1. \A n \in SlicesOf(read.e) :
            /\ t \in read.got[n] => t \in Source(n)
            /\ t \in read.old /\ In(read.scope, t.conn) /\ t \in Source(n) => t \in read.got[n]
    BY <1>2, AllIsRead DEF SliceKept
  <2>2. t \in read.old => t \in Table("transactions")
    BY <1>2, OldInDb DEF CountInv, Table, Transactions
  <2>3. CASE read.e = "categories"
    <3>1. Counted = read.got["unsplit"] \cup read.got["splits"]  BY <2>3 DEF Counted
    <3>2. {"unsplit", "splits"} \subseteq SlicesOf(read.e)  BY <2>3 DEF SlicesOf, Slices
    <3>3. /\ \A n \in {"unsplit", "splits"} : t \in Source(n) => Spending(t, Period)
          /\ t \in Table("transactions") /\ Spending(t, Period)
                 => \E n \in {"unsplit", "splits"} : t \in Source(n)
      BY SliceSources DEF Unsplit, Splits
    <3> QED  BY <2>1, <2>2, <3>1, <3>2, <3>3
  <2>4. CASE read.e = "spending"
    <3>1. Counted = read.got["spending"] /\ "spending" \in SlicesOf(read.e)
      BY <2>4 DEF Counted, SlicesOf
    <3>2. t \in Source("spending") <=> t \in Table("transactions") /\ Spending(t, Period)
      BY SliceSources
    <3> QED  BY <2>1, <2>2, <3>1, <3>2
  <2> QED  BY <2>3, <2>4 DEF Breakdowns
<1> QED  BY <1>1, <1>2, InvInit, InvNext, CountNext, PTL DEF Spec


-----------------------------------------------------------------------------
(* References *)

\* The foreign keys, and that a scope lists connections there are.
ForeignKeys ==
    /\ \A r \in db :
           /\ r.table \in OfConnection => r.conn \in connected
           /\ r.table \in OfAccount => r.of \in Ids(Table("accounts"))
    /\ \A g \in grants : g.conn \in connected
    /\ \A o \in Writers : put[o].valid \subseteq connected
    /\ read.scope.ids \subseteq connected

\* Why the parts of a dashboard fit: what is looked up is read after what refers to it.
DashboardFits ==
    read.e = "dashboard" /\ Decided =>
        \A a \in read.got["accounts"] :
            /\ a.conn \in connected /\ In(read.scope, a.conn)
            /\ read.at > 2 => a.conn \in Ids(read.got["statuses"])
            /\ read.at > 3 => a.conn \in Ids(read.got["owners"])

\* An exported row has its account, an account its connection.
HasAccount(r) == Finds(r.of, "accounts")

HasConnection(a) == Finds(a.conn, "connections")

ExportTurn == [transactions |-> 3, balances |-> 4, bills |-> 5]

\* Why an export refers to nothing older that it left out: an unrestricted one reads
\* every connection and every account that was there when it began, a restricted
\* one its connections first.
ExportFits ==
    read.e = "export" /\ read.pc # "idle" =>
        /\ read.old \subseteq db \cup ConnectionRows
        /\ Decided /\ read.at > 1 =>
               /\ read.scope.ids \subseteq Ids(read.got["connections"])
               /\ read.scope.none =>
                      \A o \in read.old : o.id \in Connections => o \in read.got["connections"]
        /\ Decided /\ read.at > 2 =>
               /\ \A a \in read.got["accounts"] : HasConnection(a)
               /\ read.scope.none =>
                      \A o \in read.old : o.table = "accounts" => o \in read.got["accounts"]
        /\ \A n \in DOMAIN ExportTurn :
               Decided /\ read.at > ExportTurn[n] => \A r \in read.got[n] : HasAccount(r)

\* So does the spending by member, which reads the map of creators first.
SpendingFits ==
    read.e = "spending" /\ read.pc # "idle" =>
        /\ read.old \subseteq db \cup ConnectionRows
        /\ Decided /\ read.at > 1 =>
               /\ read.scope.ids \subseteq Ids(read.got["owners"])
               /\ read.scope.none =>
                      \A o \in read.old : o.id \in Connections => o \in read.got["owners"]
        /\ Decided /\ read.at > 2 => \A t \in read.got["spending"] : Finds(t.conn, "owners")

RefInv ==
    /\ ForeignKeys
    /\ read.pc = "done" => read.at = Len(Endpoints[read.e]) + 1
    /\ DashboardFits
    /\ ExportFits
    /\ SpendingFits

LEMMA DashboardTurns ==
    /\ Endpoints["dashboard"] = Dashboard /\ Len(Dashboard) = 8
    /\ Dashboard[1] = Plain("accounts")
    /\ Dashboard[2] = Q("statuses", "connections", "household")
    /\ Dashboard[3] = Q("owners", "connections", "connection")
    /\ \A i \in 4..8 : Dashboard[i].name \notin {"accounts", "statuses", "owners"}
<1> DEFINE first == <<Plain("accounts"), Q("statuses", "connections", "household"),
                      Q("owners", "connections", "connection")>>
<1> DEFINE rest == <<Plain("cash_flow"), Q("count", "connections", "connection"), Plain("jobs")>>
<1>1. Endpoints["dashboard"] = Dashboard /\ Dashboard = first \o Listed \o rest
  BY DEF Endpoints, Dashboard
<1>2. /\ Len(first) = 3 /\ Len(Listed) = 2 /\ Len(rest) = 3
      /\ first \in Seq({first[1], first[2], first[3]})
      /\ Listed \in Seq({Listed[1], Listed[2]})
      /\ rest \in Seq({rest[1], rest[2], rest[3]})
  BY DEF Listed
<1>3. /\ \A i \in 1..3 : rest[i].name \notin {"accounts", "statuses", "owners"}
      /\ \A i \in 1..2 : Listed[i].name \notin {"accounts", "statuses", "owners"}
  BY DEF Listed, Plain, Q
<1>4. /\ first[1] = Plain("accounts")
      /\ first[2] = Q("statuses", "connections", "household")
      /\ first[3] = Q("owners", "connections", "connection")
  OBVIOUS
<1> HIDE DEF first, rest
<1>5. /\ Len(Dashboard) = 8
      /\ \A i \in 1..3 : Dashboard[i] = first[i]
      /\ \A i \in 4..5 : Dashboard[i] = Listed[i - 3]
      /\ \A i \in 6..8 : Dashboard[i] = rest[i - 5]
  <2> DEFINE T == {first[1], first[2], first[3], Listed[1], Listed[2], rest[1], rest[2], rest[3]}
  <2> DEFINE front == first \o Listed
  <2>1. first \in Seq(T) /\ Listed \in Seq(T) /\ rest \in Seq(T)  BY <1>2
  <2>2. Dashboard = front \o rest  BY <1>1
  <2> HIDE DEF T
  <2>3. /\ front \in Seq(T) /\ Len(front) = 5
        /\ \A i \in 1..5 : front[i] = IF i <= 3 THEN first[i] ELSE Listed[i - 3]
    <3>1. /\ front \in Seq(T) /\ Len(front) = Len(first) + Len(Listed)
          /\ \A i \in 1..Len(first) + Len(Listed) :
                 front[i] = IF i <= Len(first) THEN first[i] ELSE Listed[i - Len(first)]
      BY <2>1, ConcatProperties, Zenon
    <3> HIDE DEF front
    <3> QED  BY <1>2, <3>1
  <2> HIDE DEF front
  <2>4. /\ Len(Dashboard) = 8
        /\ \A i \in 1..8 : Dashboard[i] = IF i <= 5 THEN front[i] ELSE rest[i - 5]
    <3>1. /\ Len(front \o rest) = Len(front) + Len(rest)
          /\ \A i \in 1..Len(front) + Len(rest) :
                 (front \o rest)[i] = IF i <= Len(front) THEN front[i] ELSE rest[i - Len(front)]
      BY <2>1, <2>3, ConcatProperties, Zenon
    <3> QED  BY <1>2, <2>2, <2>3, <3>1
  <2> QED  BY <2>3, <2>4
<1>6. ASSUME NEW i \in 4..8 PROVE Dashboard[i].name \notin {"accounts", "statuses", "owners"}
  <2>1. CASE i <= 5
    <3>1. Dashboard[i] = Listed[i - 3] /\ i - 3 \in 1..2  BY <1>5, <2>1
    <3> QED  BY <1>3, <3>1
  <2>2. CASE i > 5
    <3>1. Dashboard[i] = rest[i - 5] /\ i - 5 \in 1..3  BY <1>5, <2>2
    <3> QED  BY <1>3, <3>1
  <2> QED  BY <2>1, <2>2
<1>7. Dashboard[1] = first[1] /\ Dashboard[2] = first[2] /\ Dashboard[3] = first[3]
  BY <1>5
<1> QED  BY <1>1, <1>4, <1>5, <1>6, <1>7

LEMMA ExportTurns ==
    /\ Endpoints["export"] = Export /\ Len(Export) = 8
    /\ Export[1] = Plain("connections") /\ Export[2] = Plain("accounts")
    /\ \A n \in DOMAIN ExportTurn :
           Export[ExportTurn[n]] = Q(n, n, "accounts") /\ Export[ExportTurn[n]].name = n
    /\ \A i \in 3..8 : Export[i].name \notin {"connections", "accounts"}
    /\ \A i \in 1..8, n \in DOMAIN ExportTurn : Export[i].name = n => i = ExportTurn[n]
BY DEF Endpoints, Export, ExportTurn, Plain, Q

LEMMA SpendingTurns ==
    /\ Endpoints["spending"] = SpendingByMember /\ Len(SpendingByMember) = 2
    /\ SpendingByMember[1] = Q("owners", "connections", "connection")
    /\ SpendingByMember[2] = Plain("spending")
    /\ "spending" \in Names
<1>1. /\ Endpoints["spending"] = SpendingByMember /\ Len(SpendingByMember) = 2
      /\ SpendingByMember[1] = Q("owners", "connections", "connection")
      /\ SpendingByMember[2] = Plain("spending")
  BY DEF Endpoints, SpendingByMember
<1> QED  BY <1>1, SlicesAreNames DEF AllSlices

LEMMA ReferenceNames ==
    {"accounts", "statuses", "owners", "connections", "transactions", "balances", "bills"}
        \subseteq Names
<1>1. /\ Dashboard[2].name = "statuses" /\ Dashboard[3].name = "owners"
      /\ Export[1].name = "connections" /\ Export[2].name = "accounts"
      /\ Export[3].name = "transactions" /\ Export[4].name = "balances" /\ Export[5].name = "bills"
  BY DashboardTurns DEF Export, Plain, Q
<1>2. /\ "dashboard" \in DOMAIN Endpoints /\ "export" \in DOMAIN Endpoints
      /\ Endpoints["dashboard"] = Dashboard /\ Endpoints["export"] = Export
      /\ Len(Dashboard) = 8 /\ Len(Export) = 8
  BY DashboardTurns, ExportTurns DEF Endpoints
<1>3. \A i \in 1..8 : Dashboard[i].name \in Names /\ Export[i].name \in Names
  BY <1>2, StatementIsQuery
<1>4. Dashboard[2].name \in Names /\ Dashboard[3].name \in Names  BY <1>3
<1>5. /\ Export[1].name \in Names /\ Export[2].name \in Names /\ Export[3].name \in Names
      /\ Export[4].name \in Names /\ Export[5].name \in Names
  BY <1>3
<1> QED  BY <1>1, <1>4, <1>5

\* A row that has the id of an old row is that row, and no connection.
LEMMA OldRows ==
    ASSUME TypeOK, NEW o \in db \cup ConnectionRows
    PROVE  /\ \A r \in db : r.id = o.id => r = o
           /\ o.id \in Connections => o \in ConnectionRows
           /\ o.table = "accounts" => o \in db
<1>1. \A c \in ConnectionRows : c.id \in Connections /\ c.table = "connections"
  BY DEF ConnectionRows, TypeOK, GrantsTypeOK
<1>2. db \subseteq Rows  BY DEF TypeOK
<1> QED  BY <1>1, <1>2, RowsAssumption

LEMMA ConnectionIds == Ids(ConnectionRows) = connected
<1>1. Ids(ConnectionRows) \subseteq connected  BY DEF Ids, ConnectionRows
<1>2. ASSUME NEW c \in connected PROVE c \in Ids(ConnectionRows)
  <2> DEFINE row == [table |-> "connections", id |-> c, of |-> NoRow, conn |-> c,
                     member |-> NoMember]
  <2>1. row \in ConnectionRows /\ row.id = c  BY DEF ConnectionRows
  <2> QED  BY <2>1 DEF Ids
<1> QED  BY <1>1, <1>2

\* What is committed meanwhile.
LEMMA RefOutside ==
    ASSUME TypeOK, RefInv, ForeignKeys', db \subseteq db', connected \subseteq connected', NEW S,
           read' = read \/ read' = [read EXCEPT !.touched = @ \cup S]
    PROVE  RefInv'
<1>1. read \in Request  BY DEF TypeOK
<1>2. /\ read'.pc = read.pc /\ read'.e = read.e /\ read'.at = read.at /\ read'.old = read.old
      /\ read'.got = read.got /\ read'.scope = read.scope
  BY <1>1 DEF Request
<1>3. ConnectionRows \subseteq ConnectionRows'  BY DEF ConnectionRows
<1>4. DashboardFits'  BY <1>2 DEF RefInv, DashboardFits, Decided, Ids, In
<1>5. ExportFits'
  BY <1>2, <1>3 DEF RefInv, ExportFits, Decided, Ids, HasAccount, HasConnection, Finds
<1>6. SpendingFits'  BY <1>2, <1>3 DEF RefInv, SpendingFits, Decided, Ids, Finds
<1> QED  BY <1>2, <1>4, <1>5, <1>6 DEF RefInv

LEMMA RefCommits ==
    ASSUME Inv, RefInv,
           \/ \E o \in Writers : UpdateMemberAccess(o) /\ UNCHANGED <<dataVars, read>>
           \/ \E c \in Connections : Connect(c)
           \/ \E r \in Rows : Insert(r)
           \/ \E t \in Transactions : UpdateTransactionSplits(t)
           \/ \E p \in TransferPairs : DetectInternalTransfers(p)
           \/ UNCHANGED vars
    PROVE  RefInv'
<1>1. TypeOK /\ ForeignKeys /\ put \in [Writers -> Put] /\ read \in Request
  BY DEF Inv, TypeOK, GrantsTypeOK, RefInv
<1>2. ASSUME NEW o \in Writers, UpdateMemberAccess(o) /\ UNCHANGED <<dataVars, read>>
      PROVE RefInv'
  <2>1. connected' = connected /\ db' = db /\ read' = read
    BY <1>2 DEF UpdateMemberAccess, CheckAccess, StartRevoke, EndRevoke, CommitAccess, AbortAccess,
       dataVars
  <2>2. \A w \in Writers : put'[w].valid \subseteq put[w].valid \cup connected
    <3>1. CASE CheckAccess(o)  BY <1>1, <3>1 DEF CheckAccess, Put
    <3>2. CASE StartRevoke(o) \/ EndRevoke(o)  BY <1>1, <3>2 DEF StartRevoke, EndRevoke, Put
    <3>3. CASE CommitAccess(o) \/ AbortAccess(o)
      BY <1>1, <3>3 DEF CommitAccess, AbortAccess, NoPut, Put
    <3> QED  BY <1>2, <3>1, <3>2, <3>3 DEF UpdateMemberAccess
  <2>3. \A g \in grants' : g \in grants \/ g.conn \in put[o].valid
    <3>1. \A g \in Asked(o) : g.conn \in put[o].valid  BY DEF Asked
    <3>2. CASE CommitAccess(o)
      <4>1. grants' = (grants \ put[o].gone) \cup Asked(o)  BY <3>2 DEF CommitAccess
      <4> QED  BY <3>1, <4>1
    <3>3. CASE grants' = grants  BY <3>3
    <3> QED
      BY <1>2, <3>2, <3>3
      DEF UpdateMemberAccess, CheckAccess, StartRevoke, EndRevoke, AbortAccess
  <2>4. ForeignKeys'  BY <1>1, <2>1, <2>2, <2>3 DEF ForeignKeys, Ids, Table
  <2> QED  BY <1>1, <2>1, <2>4, RefOutside
<1>3. ASSUME NEW c \in Connections, Connect(c) PROVE RefInv'
  <2>1. ForeignKeys'  BY <1>1, <1>3 DEF ForeignKeys, Connect, dataVars, Ids, Table
  <2> QED  BY <1>1, <1>3, <2>1, RefOutside DEF Connect, dataVars
<1>4. ASSUME NEW r \in Rows, Insert(r) PROVE RefInv'
  <2>1. /\ r.table \in OfAccount => r.of \in Ids(Table("accounts"))
        /\ r.table \in OfConnection => r.conn \in connected
    BY <1>4 DEF Insert, MayInsert, OfAccount, OfConnection
  <2>2. Ids(Table("accounts")) \subseteq Ids(Table("accounts"))'
    BY <1>4 DEF Ids, Table, Insert
  <2>3. ForeignKeys'  BY <1>1, <1>4, <2>1, <2>2 DEF ForeignKeys, Insert, grantVars
  <2> QED  BY <1>1, <1>4, <2>3, RefOutside DEF Insert, grantVars
<1>5. ASSUME NEW t \in Transactions, UpdateTransactionSplits(t) PROVE RefInv'
  <2>1. read' = read \/ read' = [read EXCEPT !.touched = @ \cup {t.id}]
    BY <1>5 DEF UpdateTransactionSplits, Touched
  <2>2. db' = db /\ UNCHANGED grantVars /\ read'.scope = read.scope
    BY <1>1, <1>5, <2>1 DEF UpdateTransactionSplits, Request
  <2>3. ForeignKeys'  BY <1>1, <2>2 DEF ForeignKeys, grantVars, Ids, Table
  <2> QED  BY <1>1, <2>1, <2>2, <2>3, RefOutside DEF grantVars
<1>6. ASSUME NEW p \in TransferPairs, DetectInternalTransfers(p) PROVE RefInv'
  <2>1. read' = read \/ read' = [read EXCEPT !.touched = @ \cup p]
    BY <1>6 DEF DetectInternalTransfers, Touched
  <2>2. db' = db /\ UNCHANGED grantVars /\ read'.scope = read.scope
    BY <1>1, <1>6, <2>1 DEF DetectInternalTransfers, Request
  <2>3. ForeignKeys'  BY <1>1, <2>2 DEF ForeignKeys, grantVars, Ids, Table
  <2> QED  BY <1>1, <2>1, <2>2, <2>3, RefOutside DEF grantVars
<1>7. CASE UNCHANGED vars
  <2>1. db' = db /\ UNCHANGED grantVars /\ read' = read  BY <1>7 DEF vars, dataVars
  <2>2. ForeignKeys'  BY <1>1, <2>1 DEF ForeignKeys, grantVars, Ids, Table
  <2> QED  BY <1>1, <2>1, <2>2, RefOutside DEF grantVars
<1> QED  BY <1>2, <1>3, <1>4, <1>5, <1>6, <1>7

\* The steps of a request leave the tables alone.
LEMMA ForeignKeysOfRequest ==
    ASSUME RefInv, UNCHANGED <<grantVars, dataVars>>, read'.scope.ids \subseteq connected
    PROVE  ForeignKeys' /\ db' = db /\ ConnectionRows' = ConnectionRows /\ connected' = connected
<1>1. db' = db /\ grants' = grants /\ put' = put /\ connected' = connected
  BY DEF grantVars, dataVars
<1> QED  BY <1>1 DEF RefInv, ForeignKeys, Ids, Table, ConnectionRows

LEMMA RefBefore ==
    ASSUME Inv, RefInv,
           \/ \E m \in Members, e \in DOMAIN Endpoints, chips \in Chips : Authorize(m, e, chips)
           \/ ReadConnections \/ ReadGrants \/ ResolveMembers \/ Respond
    PROVE  RefInv'
<1>1. read \in Request /\ grants \subseteq Grant  BY DEF Inv, TypeOK, GrantsTypeOK
<1>2. ASSUME NEW m \in Members, NEW e \in DOMAIN Endpoints, NEW chips \in Chips,
             Authorize(m, e, chips)
      PROVE  RefInv'
  <2>1. /\ UNCHANGED <<grantVars, dataVars>> /\ read'.scope.ids = {}
        /\ read'.pc \in {"chips", "all"} /\ read'.e = e
        /\ e \in {"export", "spending"} => read'.old = db \cup ConnectionRows
    BY <1>2 DEF Authorize, Idle, Everything, Breakdowns
  <2>2. ForeignKeys' /\ db' = db /\ ConnectionRows' = ConnectionRows
    BY <2>1, ForeignKeysOfRequest
  <2> QED  BY <2>1, <2>2 DEF RefInv, DashboardFits, ExportFits, SpendingFits, Decided
<1>3. CASE ReadConnections \/ ReadGrants
  <2>1. /\ UNCHANGED <<grantVars, dataVars>>
        /\ read'.pc \in {"granted", "chips"} /\ read'.e = read.e /\ read.pc # "idle"
        /\ read'.old = read.old
    BY <1>1, <1>3 DEF ReadConnections, ReadGrants, Request
  <2>2. read'.scope.ids \subseteq connected
    <3>1. GrantedTo(read.who) \subseteq connected  BY DEF RefInv, ForeignKeys, GrantedTo
    <3>2. Accessible(read.all, GrantedTo(read.who)).ids \subseteq connected
      BY <3>1 DEF Accessible, Only, Everything
    <3>3. CASE ReadConnections
      BY <1>1, <3>3 DEF ReadConnections, Request, RefInv, ForeignKeys
    <3>4. CASE ReadGrants
      <4>1. read'.scope = Accessible(read.all, GrantedTo(read.who))
        BY <1>1, <3>4 DEF ReadGrants, Request
      <4> QED  BY <3>2, <4>1
    <3> QED  BY <1>3, <3>3, <3>4
  <2>3. ForeignKeys' /\ db' = db /\ ConnectionRows' = ConnectionRows
    BY <2>1, <2>2, ForeignKeysOfRequest
  <2> QED  BY <2>1, <2>3 DEF RefInv, DashboardFits, ExportFits, SpendingFits, Decided
<1>4. CASE ResolveMembers
  <2>1. /\ UNCHANGED <<grantVars, dataVars>>
        /\ read'.pc = "reading" /\ read'.e = read.e /\ read.pc = "chips" /\ read'.at = 1
        /\ read'.old = read.old /\ read'.got = read.got
        /\ read'.scope = NarrowedTo(read.scope, read.chips, connected)
    BY <1>1, <1>4 DEF ResolveMembers, Request
  <2>2. read'.scope.ids \subseteq connected
    BY <2>1 DEF RefInv, ForeignKeys, NarrowedTo, Only
  <2>3. ForeignKeys' /\ db' = db /\ ConnectionRows' = ConnectionRows
    BY <2>1, <2>2, ForeignKeysOfRequest
  <2>4. read'.got["accounts"] = {}
    BY <2>1, ReferenceNames DEF Inv, ReadInv, Decided
  <2>5. DashboardFits'  BY <2>4 DEF DashboardFits
  <2>6. ExportFits'
    <3>1. \A n \in DOMAIN ExportTurn : ~(read'.at > ExportTurn[n])  BY <2>1 DEF ExportTurn
    <3> QED  BY <2>1, <2>3, <3>1 DEF RefInv, ExportFits, Decided
  <2>7. SpendingFits'  BY <2>1, <2>3 DEF RefInv, SpendingFits, Decided
  <2> QED  BY <2>1, <2>3, <2>5, <2>6, <2>7 DEF RefInv
<1>5. CASE Respond
  <2>1. /\ UNCHANGED <<grantVars, dataVars>> /\ read'.pc = "idle" /\ read'.scope.ids = {}
    BY <1>5 DEF Respond, Idle, Only
  <2>2. ForeignKeys'  BY <2>1, ForeignKeysOfRequest
  <2> QED  BY <2>1, <2>2 DEF RefInv, DashboardFits, ExportFits, SpendingFits, Decided
<1> QED  BY <1>2, <1>3, <1>4, <1>5

\* A transaction is of a connection there is, by way of its account.
LEMMA TransactionsConnected ==
    ASSUME TypeOK, ForeignKeys, NEW t \in Table("transactions")
    PROVE  t.conn \in Connections
<1>1. PICK a \in Table("accounts") : t.of = a.id
  BY DEF ForeignKeys, Table, Ids, OfAccount
<1>2. t \in Rows /\ a \in Rows /\ a.conn \in connected
  BY DEF ForeignKeys, Table, OfConnection, TypeOK
<1> QED  BY <1>1, <1>2, RowsAssumption DEF TypeOK, GrantsTypeOK

LEMMA RefStatement == ASSUME Inv, RefInv, Statement PROVE RefInv'
<1>1. read \in Request /\ TypeOK  BY DEF Inv, TypeOK
<1> DEFINE q == Endpoints[read.e][read.at]
<1>2. /\ read.pc = "reading" /\ UNCHANGED <<grantVars, dataVars>>
      /\ read'.e = read.e /\ read'.old = read.old /\ read'.scope = read.scope
      /\ read'.at = read.at + 1
      /\ read'.pc = (IF read.at = Len(Endpoints[read.e]) THEN "done" ELSE "reading")
      /\ read'.got = [read.got EXCEPT ![q.name] = Selected(q, read)]
  BY <1>1 DEF Statement, Request
<1>3. read.at \in Nat /\ read.at >= 1 /\ read.at <= Len(Endpoints[read.e]) /\ Decided
  BY <1>1, <1>2, EndpointsAreQueries DEF Inv, ReadInv, Decided, Request
<1>4. ForeignKeys' /\ db' = db /\ ConnectionRows' = ConnectionRows /\ connected' = connected
  <2>1. read'.scope.ids \subseteq connected  BY <1>2 DEF RefInv, ForeignKeys
  <2> QED  BY <1>2, <2>1, ForeignKeysOfRequest
<1>5. /\ \A n \in Names : n # q.name => read'.got[n] = read.got[n]
      /\ q.name \in Names => read'.got[q.name] = Selected(q, read)
  BY <1>1, <1>2 DEF Request
<1>6. read'.pc = "done" => read'.at = Len(Endpoints[read'.e]) + 1
  BY <1>2
<1> HIDE DEF q
<1>7. DashboardFits'
  <2> SUFFICES ASSUME read.e = "dashboard" PROVE DashboardFits'
    BY <1>2 DEF DashboardFits
  <2>1. q = Dashboard[read.at] /\ read.at \in 1..8
    BY <1>3, DashboardTurns DEF q
  <2>2. CASE read.at = 1
    <3>1. q.name = "accounts" /\ q.from = "accounts" /\ q.by = "connection"
      BY <2>1, <2>2, DashboardTurns DEF Plain, Q
    <3>2. read'.got["accounts"] = Selected(q, read)  BY <1>5, <3>1, ReferenceNames
    <3>3. \A a \in Selected(q, read) : a \in Table("accounts") /\ In(read.scope, a.conn)
      BY <3>1 DEF Selected, Source
    <3>4. \A a \in Table("accounts") : a.conn \in connected
      BY DEF RefInv, ForeignKeys, Table, OfConnection
    <3> QED  BY <1>2, <1>4, <2>2, <3>2, <3>3, <3>4 DEF DashboardFits, In
  <2>3. CASE read.at = 2
    <3>1. q.name = "statuses" /\ q.from = "connections" /\ q.by = "household"
      BY <2>1, <2>3, DashboardTurns DEF Q
    <3>2. read'.got["accounts"] = read.got["accounts"] /\ read'.got["statuses"] = ConnectionRows
      BY <1>5, <3>1, ReferenceNames DEF Selected, Source
    <3> QED
      BY <1>2, <1>3, <1>4, <2>3, <3>2, ConnectionIds DEF RefInv, DashboardFits, In
  <2>4. CASE read.at = 3
    <3>1. q.name = "owners" /\ q.from = "connections" /\ q.by = "connection"
      BY <2>1, <2>4, DashboardTurns DEF Q
    <3>2. /\ read'.got["accounts"] = read.got["accounts"]
          /\ read'.got["statuses"] = read.got["statuses"]
          /\ read'.got["owners"] = {r \in ConnectionRows : In(read.scope, r.conn)}
      BY <1>5, <3>1, ReferenceNames DEF Selected, Source
    <3>3. \A a \in read.got["accounts"] : a.conn \in Ids(read'.got["owners"])
      <4>1. \A a \in read.got["accounts"] : a.conn \in Ids(ConnectionRows) /\ In(read.scope, a.conn)
        BY <1>3, ConnectionIds DEF RefInv, DashboardFits
      <4>2. \A r \in ConnectionRows : r.conn = r.id  BY DEF ConnectionRows
      <4> QED  BY <3>2, <4>1, <4>2 DEF Ids
    <3> QED  BY <1>2, <1>3, <1>4, <2>4, <3>2, <3>3 DEF RefInv, DashboardFits, In
  <2>5. CASE read.at \in 4..8
    <3>1. q.name \notin {"accounts", "statuses", "owners"}  BY <2>1, <2>5, DashboardTurns
    <3>2. \A n \in {"accounts", "statuses", "owners"} : read'.got[n] = read.got[n]
      BY <1>5, <3>1, ReferenceNames
    <3> QED  BY <1>2, <1>3, <1>4, <2>5, <3>2 DEF RefInv, DashboardFits, In
  <2> QED  BY <2>1, <2>2, <2>3, <2>4, <2>5
<1>8. ExportFits'
  <2> SUFFICES ASSUME read.e = "export" PROVE ExportFits'
    BY <1>2 DEF ExportFits
  <2>1. q = Export[read.at] /\ read.at \in 1..8  BY <1>3, ExportTurns DEF q
  <2>2. read.old \subseteq db \cup ConnectionRows  BY <1>2 DEF RefInv, ExportFits
  <2>3. CASE read.at = 1
    <3>1. q.name = "connections" /\ q.from = "connections" /\ q.by = "connection"
      BY <2>1, <2>3, ExportTurns DEF Plain, Q
    <3>2. read'.got["connections"] = {r \in ConnectionRows : In(read.scope, r.conn)}
      BY <1>5, <3>1, ReferenceNames DEF Selected, Source
    <3>3. read.scope.ids \subseteq Ids(read'.got["connections"])
      <4>1. read.scope.ids \subseteq Ids(ConnectionRows)
        BY ConnectionIds DEF RefInv, ForeignKeys
      <4>2. \A r \in ConnectionRows : r.conn = r.id  BY DEF ConnectionRows
      <4> QED  BY <3>2, <4>1, <4>2 DEF Ids, In
    <3>4. read.scope.none =>
              \A o \in read.old : o.id \in Connections => o \in read'.got["connections"]
      BY <1>1, <2>2, <3>2, OldRows DEF In
    <3>5. read'.at = 2 /\ \A n \in DOMAIN ExportTurn : ~(2 > ExportTurn[n])
      BY <1>2, <2>3 DEF ExportTurn
    <3> QED  BY <1>2, <1>4, <2>2, <3>3, <3>4, <3>5 DEF ExportFits
  <2>4. CASE read.at = 2
    <3>1. q.name = "accounts" /\ q.from = "accounts" /\ q.by = "connection"
      BY <2>1, <2>4, ExportTurns DEF Plain, Q
    <3>2. /\ read'.got["connections"] = read.got["connections"]
          /\ read'.got["accounts"] = {a \in Table("accounts") : In(read.scope, a.conn)}
      BY <1>5, <3>1, ReferenceNames DEF Selected, Source
    <3>3. /\ read.scope.ids \subseteq Ids(read.got["connections"])
          /\ read.scope.none =>
                 \A o \in read.old : o.id \in Connections => o \in read.got["connections"]
      BY <1>2, <1>3, <2>4 DEF RefInv, ExportFits
    <3>4. ASSUME NEW a \in read'.got["accounts"] PROVE HasConnection(a)'
      <4>1. a.conn \in Connections
        BY <1>1, <3>2 DEF RefInv, ForeignKeys, Table, OfConnection, TypeOK, GrantsTypeOK
      <4>2. CASE read.scope.none
        <5>1. a.conn \in Ids(read.old) => a.conn \in Ids(read.got["connections"])
          BY <3>3, <4>1, <4>2 DEF Ids
        <5> QED  BY <1>2, <3>2, <4>2, <5>1 DEF HasConnection, Finds, Ids
      <4>3. CASE ~read.scope.none
        <5>1. a.conn \in read.scope.ids  BY <3>2, <4>3 DEF In
        <5> QED  BY <3>2, <3>3, <5>1 DEF HasConnection, Finds, Ids
      <4> QED  BY <4>2, <4>3
    <3>5. read.scope.none => \A o \in read.old : o.table = "accounts" => o \in read'.got["accounts"]
      BY <1>1, <2>2, <3>2, OldRows DEF In, Table
    <3>6. read'.at = 3 /\ \A n \in DOMAIN ExportTurn : ~(3 > ExportTurn[n])
      BY <1>2, <2>4 DEF ExportTurn
    <3> QED  BY <1>2, <1>4, <2>2, <3>2, <3>3, <3>4, <3>5, <3>6 DEF ExportFits
  <2>5. CASE read.at \in 3..8
    <3>1. q.name \notin {"connections", "accounts"}  BY <2>1, <2>5, ExportTurns
    <3>2. \A n \in {"accounts", "connections"} : read'.got[n] = read.got[n]
      BY <1>5, <3>1, ReferenceNames
    <3>3. /\ read.scope.ids \subseteq Ids(read.got["connections"])
          /\ read.scope.none =>
                 \A o \in read.old : o.id \in Connections => o \in read.got["connections"]
          /\ \A a \in read.got["accounts"] : HasConnection(a)
          /\ read.scope.none =>
                 \A o \in read.old : o.table = "accounts" => o \in read.got["accounts"]
      BY <1>2, <1>3, <2>5 DEF RefInv, ExportFits
    <3>4. \A r : (HasConnection(r)' <=> HasConnection(r)) /\ (HasAccount(r)' <=> HasAccount(r))
      BY <1>2, <3>2 DEF HasConnection, HasAccount, Finds, Ids
    <3>5. ASSUME NEW n \in DOMAIN ExportTurn, read'.at > ExportTurn[n], NEW r \in read'.got[n]
          PROVE  HasAccount(r)
      <4>1. n \in Names /\ ExportTurn[n] \in 3..5 /\ n \in OfAccount
        BY ReferenceNames DEF ExportTurn, OfAccount
      <4>2. CASE q.name = n
        <5>1. q = Q(n, n, "accounts")  BY <2>1, <4>2, ExportTurns
        <5>2. r \in Table(n) /\ (read.scope.none \/ r.of \in Ids(read.got["accounts"]))
          <6>1. r \in Selected(q, read) /\ q.from = n /\ q.by = "accounts"
            BY <1>5, <3>5, <4>1, <4>2, <5>1 DEF Q
          <6>2. Source(n) = Table(n)  BY DEF Source, ExportTurn
          <6> QED  BY <6>1, <6>2 DEF Selected
        <5>3. PICK a \in Table("accounts") : r.of = a.id
          BY <4>1, <5>2 DEF RefInv, ForeignKeys, Table, Ids
        <5>4. ASSUME read.scope.none, r.of \in Ids(read.old) PROVE r.of \in Ids(read.got["accounts"])
          <6>1. PICK o \in read.old : o.id = r.of  BY <5>4 DEF Ids
          <6>2. o = a  BY <1>1, <2>2, <5>3, <6>1, OldRows DEF Table
          <6> QED  BY <3>3, <5>3, <5>4, <6>2 DEF Table, Ids
        <5> QED  BY <5>2, <5>4 DEF HasAccount, Finds
      <4>3. CASE q.name # n
        <5>1. read'.got[n] = read.got[n]  BY <1>5, <4>1, <4>3
        <5>2. read.at # ExportTurn[n]
          <6>1. Export[ExportTurn[n]].name = n  BY <3>5, ExportTurns
          <6> QED  BY <2>1, <4>3, <6>1
        <5>3. read.at > ExportTurn[n]  BY <1>2, <1>3, <3>5, <4>1, <5>2
        <5> QED  BY <1>2, <1>3, <3>5, <5>1, <5>3 DEF RefInv, ExportFits
      <4> QED  BY <4>2, <4>3
    <3> QED  BY <1>2, <1>4, <2>2, <3>2, <3>3, <3>4, <3>5 DEF ExportFits
  <2> QED  BY <2>1, <2>3, <2>4, <2>5
<1>9. SpendingFits'
  <2> SUFFICES ASSUME read.e = "spending" PROVE SpendingFits'
    BY <1>2 DEF SpendingFits
  <2>1. q = SpendingByMember[read.at] /\ read.at \in 1..2  BY <1>3, SpendingTurns DEF q
  <2>2. read.old \subseteq db \cup ConnectionRows  BY <1>2 DEF RefInv, SpendingFits
  <2>3. CASE read.at = 1
    <3>1. q.name = "owners" /\ q.from = "connections" /\ q.by = "connection"
      BY <2>1, <2>3, SpendingTurns DEF Q
    <3>2. read'.got["owners"] = {r \in ConnectionRows : In(read.scope, r.conn)}
      BY <1>5, <3>1, ReferenceNames DEF Selected, Source
    <3>3. read.scope.ids \subseteq Ids(read'.got["owners"])
      <4>1. read.scope.ids \subseteq Ids(ConnectionRows)
        BY ConnectionIds DEF RefInv, ForeignKeys
      <4>2. \A r \in ConnectionRows : r.conn = r.id  BY DEF ConnectionRows
      <4> QED  BY <3>2, <4>1, <4>2 DEF Ids, In
    <3>4. read.scope.none =>
              \A o \in read.old : o.id \in Connections => o \in read'.got["owners"]
      BY <1>1, <2>2, <3>2, OldRows DEF In
    <3>5. read'.at = 2  BY <1>2, <2>3
    <3> QED  BY <1>2, <1>4, <2>2, <3>3, <3>4, <3>5 DEF SpendingFits
  <2>4. CASE read.at = 2
    <3>1. q.name = "spending" /\ q.from = "spending" /\ q.by = "connection"
      BY <2>1, <2>4, SpendingTurns DEF Plain, Q
    <3>2. /\ read'.got["owners"] = read.got["owners"]
          /\ \A t \in read'.got["spending"] : t \in Table("transactions") /\ In(read.scope, t.conn)
      BY <1>5, <3>1, ReferenceNames, SpendingTurns, SliceSources DEF Selected
    <3>3. /\ read.scope.ids \subseteq Ids(read.got["owners"])
          /\ read.scope.none =>
                 \A o \in read.old : o.id \in Connections => o \in read.got["owners"]
      BY <1>2, <1>3, <2>4 DEF RefInv, SpendingFits
    <3>4. ASSUME NEW t \in read'.got["spending"] PROVE Finds(t.conn, "owners")
      <4>1. t.conn \in Connections  BY <1>1, <3>2, TransactionsConnected DEF RefInv
      <4>2. CASE read.scope.none
        <5>1. t.conn \in Ids(read.old) => t.conn \in Ids(read.got["owners"])
          BY <3>3, <4>1, <4>2 DEF Ids
        <5> QED  BY <4>2, <5>1 DEF Finds
      <4>3. CASE ~read.scope.none
        <5>1. t.conn \in read.scope.ids  BY <3>2, <4>3 DEF In
        <5> QED  BY <3>3, <5>1 DEF Finds
      <4> QED  BY <4>2, <4>3
    <3>5. \A c : Finds(c, "owners")' <=> Finds(c, "owners")  BY <1>2, <3>2 DEF Finds, Ids
    <3> QED  BY <1>2, <1>4, <2>2, <3>2, <3>3, <3>4, <3>5 DEF SpendingFits
  <2> QED  BY <2>1, <2>3, <2>4
<1> QED  BY <1>4, <1>6, <1>7, <1>8, <1>9 DEF RefInv

LEMMA RefNext == Inv /\ RefInv /\ [Next]_vars => RefInv'
<1> SUFFICES ASSUME Inv, RefInv, [Next]_vars PROVE RefInv'  OBVIOUS
<1>1. CASE Serve  BY <1>1, RefBefore, RefStatement DEF Serve
<1>2. CASE ~Serve  BY <1>2, RefCommits DEF Next
<1> QED  BY <1>1, <1>2

LEMMA RefInit == Init => RefInv
<1> SUFFICES ASSUME Init PROVE RefInv  OBVIOUS
<1>1. /\ read.pc = "idle" /\ read.scope.ids = {} /\ db = FirstRows /\ connected = FirstConnected
      /\ grants = {} /\ \A o \in Writers : put[o].valid = {}
  BY DEF Init, GrantsInit, Idle, Only, NoPut
<1>2. ForeignKeys  BY <1>1, RowsAssumption DEF ForeignKeys, Ids, Table
<1> QED  BY <1>1, <1>2 DEF RefInv, DashboardFits, ExportFits, SpendingFits, Decided

\* Every account of a dashboard has its connection's status and its entry in the map
\* of creators, an export refers to nothing it lacks, and spending is of connections
\* in the map, but for what is newer than the request.
THEOREM ResponsesAreWhole == Spec => []ReferencesResolve
<1>1. ASSUME RefInv PROVE ReferencesResolve
  <2> SUFFICES ASSUME read.pc = "done" PROVE ReferencesResolve  BY DEF ReferencesResolve
  <2>1. CASE read.e = "dashboard"
    <3>1. read.at = 9  BY <1>1, <2>1, DashboardTurns DEF RefInv
    <3> QED  BY <1>1, <2>1, <3>1 DEF RefInv, DashboardFits, Decided, ReferencesResolve
  <2>2. CASE read.e = "export"
    <3>1. read.at = 9 /\ \A n \in DOMAIN ExportTurn : 9 > ExportTurn[n]
      BY <1>1, <2>2, ExportTurns DEF RefInv, ExportTurn
    <3>2. /\ \A a \in read.got["accounts"] : HasConnection(a)
          /\ \A n \in DOMAIN ExportTurn : \A r \in read.got[n] : HasAccount(r)
      BY <1>1, <2>2, <3>1 DEF RefInv, ExportFits, Decided
    <3>3. DOMAIN ExportTurn = {"transactions", "balances", "bills"}  BY DEF ExportTurn
    <3> QED  BY <2>2, <3>2, <3>3 DEF ReferencesResolve, HasAccount, HasConnection
  <2>3. CASE read.e = "spending"
    <3>1. read.at = 3  BY <1>1, <2>3, SpendingTurns DEF RefInv
    <3> QED  BY <1>1, <2>3, <3>1 DEF RefInv, SpendingFits, Decided, ReferencesResolve
  <2> QED  BY <2>1, <2>2, <2>3 DEF ReferencesResolve
<1> QED  BY <1>1, RefInit, InvInit, InvNext, RefNext, PTL DEF Spec

=============================================================================
