----------------------- MODULE TransactionDetailProofs -----------------------
(***************************************************************************)
(* For any number of clients and any bodies, the splits of a transaction   *)
(* are whole bodies, none of which a committed PUT could see when its      *)
(* DELETE began, and each near the amount it was checked against.          *)
(***************************************************************************)
EXTENDS TransactionDetail, SumTheorems

\* Each row is one of the rows of the PUT it names.
Formed(S) == \A r \in S : r \in Rows(r.put)

\* Why the splits stay whole: whole sets are deleted, by one request each, and
\* they are there until that request commits.
Locks ==
    /\ Formed(splits) /\ Whole(splits)
    /\ \A m \in Clients :
           /\ Formed(req[m].sees) /\ Whole(req[m].sees)
           /\ Whole(req[m].gone)
           /\ req[m].gone \subseteq splits
           /\ req[m].pc # "deleted" => req[m].gone = {}
    /\ \A m, o \in Clients : m # o => req[m].gone \cap req[o].gone = {}

\* Why nothing that a DELETE could see survives its PUT: the rows that are left of
\* it stay covered by the request until it commits, and what comes later is
\* numbered higher.
Covered ==
    /\ OnlyOverlappingStay
    /\ cleared <= puts
    /\ \A r \in splits : r.put.id <= puts
    /\ \A m \in Clients :
           /\ req[m].from <= puts
           /\ \A r \in splits :
                  /\ req[m].pc = "deleting" =>
                         /\ r.put.id <= req[m].from => r \in req[m].sees
                         /\ r.put.by = m => r.put.id <= req[m].from
                  /\ req[m].pc = "deleted" =>
                         /\ r.put.id <= req[m].from => r \in req[m].gone
                         /\ r.put.by = m => r.put.id <= req[m].from

Inv == TypeOK /\ Locks /\ Covered

-----------------------------------------------------------------------------
(* Sets of whole bodies *)

\* The rows of one PUT are formed, whole and rows of splits.
LEMMA RowsAreWhole ==
    ASSUME NEW p \in Put
    PROVE  /\ Formed(Rows(p)) /\ Whole(Rows(p)) /\ Rows(p) \subseteq Split
           /\ \A r \in Rows(p) : r.put = p
<1>1. \A r \in Rows(p) : r.put = p  BY DEF Rows
<1>2. DOMAIN p.body \subseteq Nat
  <2>1. p.body \in Bodies \/ p.body = << >>  BY DEF Put
  <2>2. << >> \in Seq(Int)  OBVIOUS
  <2>3. p.body \in Seq(Int)  BY <2>1, <2>2, DetailAssumption
  <2> QED  BY <2>3
<1>3. Rows(p) \subseteq Split  BY <1>2 DEF Rows, Split
<1>4. Formed(Rows(p)) /\ Whole(Rows(p))  BY <1>1 DEF Formed, Whole
<1> QED  BY <1>1, <1>3, <1>4

\* Taking whole bodies away from whole bodies leaves whole bodies.
LEMMA DifferenceIsWhole ==
    ASSUME NEW S, NEW T, Formed(S), Whole(S), Whole(T)
    PROVE  Formed(S \ T) /\ Whole(S \ T)
<1>1. Formed(S \ T)  BY DEF Formed
<1>2. ASSUME NEW r \in S \ T, NEW s \in Rows(r.put) PROVE s \in S \ T
  <2>1. s \in S  BY DEF Whole
  <2>2. s.put = r.put  BY DEF Rows
  <2>3. r \in Rows(s.put)  BY <2>2 DEF Formed
  <2> QED  BY <2>1, <2>3 DEF Whole
<1> QED  BY <1>1, <1>2 DEF Whole

LEMMA UnionIsWhole ==
    ASSUME NEW S, NEW T, Formed(S), Whole(S), Formed(T), Whole(T)
    PROVE  Formed(S \cup T) /\ Whole(S \cup T)
BY DEF Formed, Whole

LEMMA IntersectionIsWhole ==
    ASSUME NEW S, NEW T, Formed(S), Whole(S), Whole(T)
    PROVE  Formed(S \cap T) /\ Whole(S \cap T)
BY DEF Formed, Whole

-----------------------------------------------------------------------------
(* The invariant *)

LEMMA InvInit == Init => Inv
<1> SUFFICES ASSUME Init PROVE Inv  OBVIOUS
<1>1. TypeOK  BY DEF Init, TypeOK, Request
<1>2. Locks  BY DEF Init, Locks, Formed, Whole
<1>3. Covered  BY DEF Init, Covered, OnlyOverlappingStay
<1> QED  BY <1>1, <1>2, <1>3 DEF Inv

\* A step that leaves the rows alone and lets go of, or never held, what the
\* client's DELETE saw and deleted.
LEMMA StepWithoutRows ==
    ASSUME Inv, NEW m \in Clients, NEW r \in Request,
           amount' \in Amounts, category' \in Categories, UNCHANGED <<splits, puts, upserts, cleared>>,
           req' = [req EXCEPT ![m] = r],
           r.pc \notin {"deleting", "deleted"}, r.sees \in {{}, req[m].sees}, r.gone = {},
           r.from \in {0, req[m].from}
    PROVE  Inv'
<1>1. TypeOK'  BY DEF Inv, TypeOK
<1>2. Locks'
  <2>1. Formed(r.sees) /\ Whole(r.sees) /\ Whole(r.gone)
    BY DEF Inv, Locks, Formed, Whole
  <2> QED  BY <2>1 DEF Inv, Locks, TypeOK
<1>3. Covered'
  <2>1. \A o \in Clients : req'[o] = IF o = m THEN r ELSE req[o]  BY DEF Inv, TypeOK
  <2>2. r.from <= puts  BY DEF Inv, Covered, TypeOK, Request
  <2> QED  BY <2>1, <2>2 DEF Inv, Covered, OnlyOverlappingStay
<1> QED  BY <1>1, <1>2, <1>3 DEF Inv

LEMMA CheckSplitsStep ==
    ASSUME Inv, NEW m \in Clients, CheckSplits(m) PROVE Inv'
<1>1. PICK b \in Bodies :
          req' = [req EXCEPT ![m].pc = "checked", ![m].body = b, ![m].of = amount]
  BY DEF CheckSplits
<1> DEFINE r == [req[m] EXCEPT !.pc = "checked", !.body = b, !.of = amount]
<1>2. req[m] \in Request /\ req[m].pc = "idle" /\ amount \in Amounts  BY DEF Inv, TypeOK, CheckSplits
<1>3. r \in Request  BY <1>2 DEF Request
<1>4. req' = [req EXCEPT ![m] = r]  BY <1>1
<1>5. /\ r.pc = "checked" /\ r.sees = req[m].sees
      /\ r.gone = req[m].gone /\ r.from = req[m].from
  BY <1>2 DEF Request
<1>6. req[m].gone = {}  BY <1>2 DEF Inv, Locks
<1>7. /\ amount' \in Amounts /\ category' \in Categories
      /\ UNCHANGED <<splits, puts, upserts, cleared>>
  BY DEF CheckSplits, Inv, TypeOK
<1> HIDE DEF r
<1>8. /\ r.pc \notin {"deleting", "deleted"} /\ r.sees \in {{}, req[m].sees} /\ r.gone = {}
      /\ r.from \in {0, req[m].from}
  BY <1>5, <1>6
<1> QED  BY <1>3, <1>4, <1>7, <1>8, StepWithoutRows

LEMMA LoadCategoryStep ==
    ASSUME Inv, NEW m \in Clients, LoadCategory(m) PROVE Inv'
<1>1. PICK c \in Categories :
          req' = [req EXCEPT ![m].pc = "patching", ![m].was = category, ![m].wants = c]
  BY DEF LoadCategory
<1> DEFINE r == [req[m] EXCEPT !.pc = "patching", !.was = category, !.wants = c]
<1>2. req[m] \in Request /\ req[m].pc = "idle" /\ category \in Categories
  BY DEF Inv, TypeOK, LoadCategory
<1>3. r \in Request  BY <1>2 DEF Request
<1>4. req' = [req EXCEPT ![m] = r]  BY <1>1
<1>5. /\ r.pc = "patching" /\ r.sees = req[m].sees
      /\ r.gone = req[m].gone /\ r.from = req[m].from
  BY <1>2 DEF Request
<1>6. req[m].gone = {}  BY <1>2 DEF Inv, Locks
<1>7. /\ amount' \in Amounts /\ category' \in Categories
      /\ UNCHANGED <<splits, puts, upserts, cleared>>
  BY DEF LoadCategory, Inv, TypeOK
<1> HIDE DEF r
<1>8. /\ r.pc \notin {"deleting", "deleted"} /\ r.sees \in {{}, req[m].sees} /\ r.gone = {}
      /\ r.from \in {0, req[m].from}
  BY <1>5, <1>6
<1> QED  BY <1>3, <1>4, <1>7, <1>8, StepWithoutRows

\* What is left of a request that ends.
LEMMA NoRequestType ==
    ASSUME NEW r \in Request
    PROVE  /\ NoRequest(r) \in Request /\ NoRequest(r).pc = "idle"
           /\ NoRequest(r).sees = {} /\ NoRequest(r).gone = {} /\ NoRequest(r).from = 0
BY DEF NoRequest, Request

LEMMA CommitCategoryStep ==
    ASSUME Inv, NEW m \in Clients, CommitCategory(m) PROVE Inv'
<1>1. req[m] \in Request  BY DEF Inv, TypeOK
<1>2. req' = [req EXCEPT ![m] = NoRequest(req[m])]  BY DEF CommitCategory
<1>3. category' \in Categories  BY <1>1 DEF CommitCategory, Inv, TypeOK, Request
<1> QED  BY <1>1, <1>2, <1>3, NoRequestType, StepWithoutRows DEF CommitCategory, Inv, TypeOK

LEMMA AbortStep ==
    ASSUME Inv, NEW m \in Clients, Abort(m) PROVE Inv'
<1>1. req[m] \in Request  BY DEF Inv, TypeOK
<1>2. req' = [req EXCEPT ![m] = NoRequest(req[m])]  BY DEF Abort
<1> QED  BY <1>1, <1>2, NoRequestType, StepWithoutRows DEF Abort, Inv, TypeOK

LEMMA StartDeleteStep ==
    ASSUME Inv, NEW m \in Clients, StartDelete(m) PROVE Inv'
<1> DEFINE r == [req[m] EXCEPT !.pc = "deleting", !.sees = splits, !.from = puts]
<1>1. req[m] \in Request /\ req[m].pc = "checked" /\ splits \subseteq Split
  BY DEF Inv, TypeOK, StartDelete
<1>2. /\ r \in Request /\ r.pc = "deleting" /\ r.sees = splits
      /\ r.gone = req[m].gone /\ r.from = puts
  BY <1>1 DEF Inv, TypeOK, Request
<1>3. req' = [req EXCEPT ![m] = r]  BY DEF StartDelete
<1>4. TypeOK'  BY <1>2, <1>3 DEF Inv, TypeOK, StartDelete
<1> HIDE DEF r
<1>5. Locks'  BY <1>1, <1>2, <1>3 DEF Inv, Locks, TypeOK, StartDelete
<1>6. Covered'
  BY <1>1, <1>2, <1>3 DEF Inv, Covered, OnlyOverlappingStay, TypeOK, StartDelete
<1> QED  BY <1>4, <1>5, <1>6 DEF Inv

LEMMA EndDeleteStep ==
    ASSUME Inv, NEW m \in Clients, EndDelete(m) PROVE Inv'
<1> DEFINE r == [req[m] EXCEPT !.pc = "deleted", !.gone = req[m].sees \cap splits]
<1>1. req[m] \in Request /\ req[m].pc = "deleting" /\ splits \subseteq Split
  BY DEF Inv, TypeOK, EndDelete
<1>2. /\ r \in Request /\ r.pc = "deleted" /\ r.sees = req[m].sees
      /\ r.gone = req[m].sees \cap splits /\ r.from = req[m].from
  BY <1>1 DEF Request
<1>3. req' = [req EXCEPT ![m] = r]  BY DEF EndDelete
<1>4. TypeOK'  BY <1>2, <1>3 DEF Inv, TypeOK, EndDelete
<1> HIDE DEF r
<1>5. Locks'
  <2>1. Whole(r.gone)
    <3>1. Formed(req[m].sees) /\ Whole(req[m].sees) /\ Whole(splits)  BY DEF Inv, Locks
    <3>2. Whole(req[m].sees \cap splits)  BY <3>1, IntersectionIsWhole
    <3> QED  BY <3>2, <1>2
  <2>2. \A o \in Clients \ {m} : req[o].gone \cap r.gone = {}  BY <1>2 DEF EndDelete
  <2> QED  BY <1>2, <1>3, <2>1, <2>2 DEF Inv, Locks, TypeOK, EndDelete
<1>6. Covered'
  BY <1>1, <1>2, <1>3 DEF Inv, Covered, OnlyOverlappingStay, TypeOK, EndDelete
<1> QED  BY <1>4, <1>5, <1>6 DEF Inv

\* The only step that writes rows.
LEMMA CommitSplitsStep ==
    ASSUME Inv, NEW m \in Clients, CommitSplits(m) PROVE Inv'
<1> DEFINE p == [id |-> puts + 1, by |-> m, of |-> req[m].of, body |-> req[m].body]
           r == NoRequest(req[m])
<1>1. req[m] \in Request /\ req[m].pc = "deleted" /\ puts \in Nat
  BY DEF Inv, TypeOK, CommitSplits
<1>2. p \in Put  BY <1>1 DEF Put, Request
<1>3. /\ splits' = (splits \ req[m].gone) \cup Rows(p)
      /\ req' = [req EXCEPT ![m] = r]
      /\ UNCHANGED <<amount, category, upserts>> /\ puts' = puts + 1
      /\ cleared' = IF req[m].from > cleared THEN req[m].from ELSE cleared
  BY DEF CommitSplits
<1>4. r \in Request /\ r.pc = "idle" /\ r.sees = {} /\ r.gone = {} /\ r.from = 0
  BY <1>1, NoRequestType
<1>5. p.by = m /\ p.id = puts + 1  OBVIOUS
<1> HIDE DEF p, r
<1>6. TypeOK'
  <2>1. cleared' \in Nat  BY <1>1, <1>3 DEF Inv, TypeOK, Request
  <2> QED  BY <2>1, <1>1, <1>2, <1>3, <1>4, RowsAreWhole DEF Inv, TypeOK
<1>7. Locks'
  <2>1. Formed(splits') /\ Whole(splits')
    <3>1. Formed(splits \ req[m].gone) /\ Whole(splits \ req[m].gone)
      BY DifferenceIsWhole DEF Inv, Locks
    <3>2. Formed(Rows(p)) /\ Whole(Rows(p))  BY <1>2, RowsAreWhole
    <3> QED  BY <1>3, <3>1, <3>2, UnionIsWhole
  <2>2. \A o \in Clients \ {m} : req'[o] = req[o] /\ req[o].gone \subseteq splits'
    BY <1>3 DEF Inv, Locks, TypeOK
  <2>3. req'[m] = r  BY <1>3 DEF Inv, TypeOK
  <2>4. Formed(r.sees) /\ Whole(r.sees) /\ Whole(r.gone)  BY <1>4 DEF Formed, Whole
  <2>5. ASSUME NEW o \in Clients
        PROVE  /\ Formed(req'[o].sees) /\ Whole(req'[o].sees) /\ Whole(req'[o].gone)
               /\ req'[o].gone \subseteq splits'
               /\ req'[o].pc # "deleted" => req'[o].gone = {}
    <3>1. CASE o = m  BY <3>1, <1>4, <2>3, <2>4
    <3>2. CASE o # m  BY <3>2, <2>2 DEF Inv, Locks
    <3> QED  BY <3>1, <3>2
  <2>6. ASSUME NEW o \in Clients, NEW q \in Clients, o # q
        PROVE  req'[o].gone \cap req'[q].gone = {}
    BY <2>2, <2>3, <2>6, <1>4 DEF Inv, Locks
  <2> QED  BY <2>1, <2>5, <2>6 DEF Locks
<1>8. Covered'
  <2>1. \A s \in Rows(p) : s.put = p  BY <1>2, RowsAreWhole
  <2>2. \A s \in splits : s.put.id \in Nat  BY DEF Inv, TypeOK, Split, Put
  <2>3. cleared \in Nat /\ req[m].from \in Nat /\ cleared <= puts /\ req[m].from <= puts
    BY <1>1 DEF Inv, TypeOK, Covered, Request
  <2>4. cleared' \in Nat /\ cleared' <= puts /\ cleared' \in {cleared, req[m].from}
    BY <1>3, <2>3
  <2>5. OnlyOverlappingStay'
    <3> SUFFICES ASSUME NEW s \in splits' PROVE s.put.id > cleared'
      BY DEF OnlyOverlappingStay
    <3>1. CASE s \in Rows(p)  BY <3>1, <1>1, <1>5, <2>1, <2>4
    <3>2. CASE s \notin Rows(p)
      <4>1. s \in splits /\ s \notin req[m].gone  BY <3>2, <1>3
      <4>2. s.put.id > cleared  BY <4>1 DEF Inv, Covered, OnlyOverlappingStay
      <4>3. ~(s.put.id <= req[m].from)  BY <4>1, <1>1 DEF Inv, Covered
      <4> QED  BY <4>1, <4>2, <4>3, <2>2, <2>3, <2>4
    <3> QED  BY <3>1, <3>2
  <2>6. \A s \in splits' : s.put.id <= puts'
    <3> SUFFICES ASSUME NEW s \in splits' PROVE s.put.id <= puts'
      OBVIOUS
    <3>1. CASE s \in Rows(p)  BY <3>1, <1>1, <1>3, <1>5, <2>1
    <3>2. CASE s \in splits
      <4>1. s.put.id <= puts /\ s.put.id \in Nat  BY <3>2, <2>2 DEF Inv, Covered
      <4> QED  BY <4>1, <1>1, <1>3
    <3> QED  BY <3>1, <3>2, <1>3
  <2>7. ASSUME NEW o \in Clients
        PROVE  /\ req'[o].from <= puts'
               /\ \A s \in splits' :
                      /\ req'[o].pc = "deleting" =>
                             /\ s.put.id <= req'[o].from => s \in req'[o].sees
                             /\ s.put.by = o => s.put.id <= req'[o].from
                      /\ req'[o].pc = "deleted" =>
                             /\ s.put.id <= req'[o].from => s \in req'[o].gone
                             /\ s.put.by = o => s.put.id <= req'[o].from
    <3>1. CASE o = m
      <4>1. req'[o] = r  BY <3>1, <1>3 DEF Inv, TypeOK
      <4> QED  BY <4>1, <1>1, <1>3, <1>4
    <3>2. CASE o # m
      <4>1. req'[o] = req[o]  BY <3>2, <1>3 DEF Inv, TypeOK
      <4>2. req[o].from \in Nat /\ req[o].from <= puts  BY DEF Inv, TypeOK, Request, Covered
      <4>3. ASSUME NEW s \in Rows(p) PROVE ~(s.put.id <= req[o].from) /\ s.put.by # o
        BY <4>2, <3>2, <1>1, <1>5, <2>1
      <4>4. \A s \in splits' : s \in splits \/ s \in Rows(p)  BY <1>3
      <4>5. req'[o].from <= puts'  BY <4>1, <4>2, <1>1, <1>3
      <4> QED  BY <4>1, <4>3, <4>4, <4>5 DEF Inv, Covered
    <3> QED  BY <3>1, <3>2
  <2>8. cleared' <= puts'  BY <2>4, <1>1, <1>3
  <2> QED  BY <2>5, <2>6, <2>7, <2>8 DEF Covered
<1> QED  BY <1>6, <1>7, <1>8 DEF Inv

LEMMA InvStep == Inv /\ [Next]_vars => Inv'
<1> SUFFICES ASSUME Inv, [Next]_vars PROVE Inv'  OBVIOUS
<1>1. CASE UpsertTransactions
  <2>1. TypeOK'  BY <1>1 DEF Inv, TypeOK, UpsertTransactions
  <2>2. Locks' /\ Covered'
    BY <1>1 DEF Inv, Locks, Covered, OnlyOverlappingStay, UpsertTransactions
  <2> QED  BY <2>1, <2>2 DEF Inv
<1>2. ASSUME NEW m \in Clients, Edit(m) PROVE Inv'
  BY <1>2, CheckSplitsStep, StartDeleteStep, EndDeleteStep, CommitSplitsStep,
     LoadCategoryStep, CommitCategoryStep, AbortStep DEF Edit
<1>3. CASE UNCHANGED vars
  BY <1>3 DEF vars, Inv, TypeOK, Locks, Covered, OnlyOverlappingStay
<1> QED  BY <1>1, <1>2, <1>3 DEF Next

THEOREM Invariant == Spec => []Inv
BY InvInit, InvStep, PTL DEF Spec

\* Every variable keeps its type.
THEOREM TypeCorrect == Spec => []TypeOK
<1>1. Inv => TypeOK  BY DEF Inv
<1> QED  BY <1>1, Invariant, PTL

\* The splits of a transaction are whole bodies, whoever edits it meanwhile.
THEOREM SplitsAreWhole == Spec => []NoHalfBody
<1>1. Inv => NoHalfBody  BY DEF Inv, Locks, NoHalfBody
<1> QED  BY <1>1, Invariant, PTL

\* What the DELETE of a committed PUT could see is gone, however many PUTs overlap.
THEOREM PutsClearWhatTheySee == Spec => []OnlyOverlappingStay
<1>1. Inv => OnlyOverlappingStay  BY DEF Inv, Covered
<1> QED  BY <1>1, Invariant, PTL

\* With one client, "Full-replace semantics" (docstring of update_transaction_splits)
\* holds as it stands: what is left after a PUT is its body and nothing else.
THEOREM AloneReplacesAll ==
    ASSUME \A m, o \in Clients : m = o
    PROVE  Spec => [][\A m \in Clients :
                         CommitSplits(m) =>
                             splits' = Rows([id |-> puts + 1, by |-> m,
                                             of |-> req[m].of, body |-> req[m].body])]_vars
<1>1. ASSUME Inv, NEW m \in Clients, CommitSplits(m)
      PROVE  splits' = Rows([id |-> puts + 1, by |-> m, of |-> req[m].of, body |-> req[m].body])
  <2>1. \A r \in splits : r.put.by \in Clients  BY <1>1 DEF Inv, TypeOK, Split, Put
  <2>2. \A r \in splits : r \in req[m].gone
    BY <1>1, <2>1 DEF Inv, Covered, CommitSplits
  <2> QED  BY <1>1, <2>2 DEF CommitSplits
<1>2. Inv /\ [Next]_vars =>
          [\A m \in Clients :
              CommitSplits(m) =>
                  splits' = Rows([id |-> puts + 1, by |-> m,
                                  of |-> req[m].of, body |-> req[m].body])]_vars
  BY <1>1
<1> QED  BY <1>2, Invariant, PTL DEF Spec

-----------------------------------------------------------------------------
(* What a PUT was checked for *)

\* The two checks of a body against an amount.
Fits(b, a) ==
    b # << >> =>
        /\ Abs(Total(b) - a) <= SplitSumTolerance
        /\ \A n \in DOMAIN b : b[n] < 0 <=> a < 0

\* Requests past their checks, and the rows of those that have committed, fit
\* the amount that was loaded.
Checked ==
    /\ \A m \in Clients :
           req[m].pc \in {"checked", "deleting", "deleted"} => Fits(req[m].body, req[m].of)
    /\ \A r \in splits : Fits(r.put.body, r.put.of)

\* A step that leaves the rows alone and takes no request past its checks.
LEMMA CheckedKept ==
    ASSUME TypeOK, Checked, UNCHANGED splits, NEW m \in Clients,
           \A o \in Clients \ {m} : req'[o] = req[o],
           \/ req'[m].pc \notin {"checked", "deleting", "deleted"}
           \/ req'[m].body = req[m].body /\ req'[m].of = req[m].of
                  /\ req[m].pc \in {"checked", "deleting"}
    PROVE  Checked'
BY DEF Checked, Fits, Total

LEMMA CheckedStep == Inv /\ Checked /\ [Next]_vars => Checked'
<1> SUFFICES ASSUME Inv, Checked, [Next]_vars PROVE Checked'  OBVIOUS
<1>1. CASE UpsertTransactions
  BY <1>1 DEF UpsertTransactions, Checked, Fits, Total
<1>2. ASSUME NEW m \in Clients, Edit(m) PROVE Checked'
  <2> TypeOK /\ req \in [Clients -> Request]  BY DEF Inv, TypeOK
  <2>1. CASE CheckSplits(m)
    <3>1. PICK b \in Bodies :
              /\ Accepts(b)
              /\ req' = [req EXCEPT ![m].pc = "checked", ![m].body = b, ![m].of = amount]
      BY <2>1 DEF CheckSplits
    <3>2. req'[m].body = b /\ req'[m].of = amount  BY <3>1 DEF Request
    <3>3. Fits(b, amount)  BY <3>1 DEF Accepts, Fits
    <3>4. \A o \in Clients \ {m} : req'[o] = req[o]  BY <3>1
    <3> QED  BY <2>1, <3>2, <3>3, <3>4 DEF CheckSplits, Checked, Fits, Total
  <2>2. CASE CommitSplits(m)
    <3> DEFINE p == [id |-> puts + 1, by |-> m, of |-> req[m].of, body |-> req[m].body]
    <3>1. p \in Put /\ Fits(p.body, p.of)
      BY <2>2 DEF CommitSplits, Inv, TypeOK, Request, Put, Checked
    <3>2. splits' = (splits \ req[m].gone) \cup Rows(p)  BY <2>2 DEF CommitSplits
    <3>3. req'[m].pc = "idle" /\ \A o \in Clients \ {m} : req'[o] = req[o]
      BY <2>2, NoRequestType DEF CommitSplits
    <3> HIDE DEF p
    <3>4. \A r \in Rows(p) : r.put = p  BY <3>1, RowsAreWhole
    <3> QED  BY <3>1, <3>2, <3>3, <3>4 DEF Checked, Fits, Total
  <2>3. CASE StartDelete(m) \/ EndDelete(m)
    <3>1. /\ req'[m].body = req[m].body /\ req'[m].of = req[m].of
          /\ \A o \in Clients \ {m} : req'[o] = req[o]
      BY <2>3 DEF StartDelete, EndDelete, Request
    <3> QED  BY <2>3, <3>1, CheckedKept DEF StartDelete, EndDelete
  <2>4. CASE LoadCategory(m)
    <3>1. req'[m].pc = "patching" /\ \A o \in Clients \ {m} : req'[o] = req[o]
      BY <2>4 DEF LoadCategory, Request
    <3> QED  BY <2>4, <3>1, CheckedKept DEF LoadCategory
  <2>5. CASE CommitCategory(m) \/ Abort(m)
    <3>1. req'[m].pc = "idle" /\ \A o \in Clients \ {m} : req'[o] = req[o]
      BY <2>5, NoRequestType DEF CommitCategory, Abort
    <3> QED  BY <2>5, <3>1, CheckedKept DEF CommitCategory, Abort
  <2> QED  BY <1>2, <2>1, <2>2, <2>3, <2>4, <2>5 DEF Edit
<1>3. CASE UNCHANGED vars  BY <1>3 DEF vars, Checked, Fits, Total
<1> QED  BY <1>1, <1>2, <1>3 DEF Next

\* Rounding moves an amount by half a cent at most, and not past zero.
LEMMA RoundedNear ==
    ASSUME NEW x \in Int
    PROVE  /\ Rounded(x) \in Int /\ Rounded(x) - x \in -5..5
           /\ Rounded(x) # 0 => (Rounded(x) < 0 <=> x < 0)
BY DEF Rounded, Abs

LEMMA CheckedSumIsNear ==
    ASSUME Inv, Checked
    PROVE  SumNearChecked
<1> SUFFICES ASSUME NEW q \in splits
             PROVE  /\ Abs(StoredTotal(q.put) - q.put.of) <= SplitSumTolerance + 5 * Len(q.put.body)
                    /\ \A n \in DOMAIN q.put.body :
                           Rounded(q.put.body[n]) # 0 =>
                               (Rounded(q.put.body[n]) < 0 <=> q.put.of < 0)
  BY DEF SumNearChecked
<1> DEFINE p == q.put
           b == p.body
           stored == {r.n : r \in {s \in splits : s.put = p}}
           rounded == [n \in DOMAIN b |-> AmountOf([put |-> p, n |-> n])]
<1>1. p \in Put /\ p.of \in Int /\ b \in Seq(Int) /\ b # << >>
  <2>1. p \in Put  BY DEF Inv, TypeOK, Split
  <2>2. b \in Bodies \/ b = << >>  BY <2>1 DEF Put
  <2>3. << >> \in Seq(Int)  OBVIOUS
  <2>4. q \in Rows(p)  BY DEF Inv, Locks, Formed
  <2>5. DOMAIN b # {}  BY <2>4 DEF Rows
  <2>6. b \in Seq(Int)  BY <2>2, <2>3, DetailAssumption
  <2>7. b # << >>  BY <2>5
  <2>8. p.of \in Int  BY <2>1, DetailAssumption DEF Put
  <2> QED  BY <2>1, <2>6, <2>7, <2>8
<1>2. stored = DOMAIN b
  <2>1. Rows(p) \subseteq splits  BY DEF Inv, Locks, Whole
  <2>2. \A s \in splits : s.put = p => s \in Rows(p)  BY DEF Inv, Locks, Formed
  <2>3. \A n \in DOMAIN b : [put |-> p, n |-> n] \in splits  BY <2>1 DEF Rows
  <2>4. \A n \in DOMAIN b : n \in stored
    <3> TAKE n \in DOMAIN b
    <3> DEFINE r == [put |-> p, n |-> n]
    <3>1. r \in splits /\ r.put = p /\ r.n = n  BY <2>3
    <3> HIDE DEF r, p, b
    <3> QED  BY <3>1
  <2>5. \A s \in Rows(p) : s.n \in DOMAIN b  BY DEF Rows
  <2> QED  BY <2>2, <2>4, <2>5
<1>3. \A n \in DOMAIN b : b[n] \in Int /\ rounded[n] = Rounded(b[n])  BY <1>1 DEF AmountOf
<1>4. IsFiniteSet(DOMAIN b) /\ Cardinality(DOMAIN b) = Len(b) /\ Len(b) \in Nat
  <2>1. DOMAIN b = 1..Len(b) /\ Len(b) \in Nat  BY <1>1
  <2> HIDE DEF b
  <2>2. IsFiniteSet(1..Len(b))
        /\ Cardinality(1..Len(b)) = IF 1 > Len(b) THEN 0 ELSE Len(b) - 1 + 1
    BY <2>1, FS_Interval
  <2> QED  BY <2>1, <2>2
<1> DEFINE st == StoredTotal(p)
           tt == Total(b)
<1>5. st \in Int /\ tt \in Int /\ st - tt \in -(5 * Len(b))..(5 * Len(b))
  <2>1. st = SumFunctionOnSet(rounded, DOMAIN b)  BY <1>2 DEF StoredTotal
  <2>2. tt = SumFunctionOnSet(b, DOMAIN b)  BY DEF Total, SumFunction
  <2>3. \A n \in DOMAIN b : rounded[n] \in Int /\ b[n] \in Int /\ rounded[n] - b[n] \in -5..5
    BY <1>3, RoundedNear
  <2> HIDE DEF st, tt, rounded, b
  <2> QED  BY <1>4, <2>1, <2>2, <2>3, SumsNear
<1>6. Fits(b, p.of)  BY DEF Checked
<1>7. Abs(tt - p.of) <= SplitSumTolerance  BY <1>1, <1>6 DEF Fits
<1>8. \A n \in DOMAIN b : b[n] < 0 <=> p.of < 0  BY <1>1, <1>6 DEF Fits
<1>9. Abs(st - p.of) <= SplitSumTolerance + 5 * Len(b)
  <2> HIDE DEF st, tt, p, b
  <2> QED  BY <1>1, <1>4, <1>5, <1>7, DetailAssumption DEF Abs
<1> QED  BY <1>3, <1>8, <1>9, RoundedNear

\* What the rows of a PUT add up to is near what it was checked against, and
\* none has the other sign.
THEOREM SumsStayNear == Spec => []SumNearChecked
<1>1. Init => Checked  BY DEF Init, Checked
<1> QED  BY <1>1, Invariant, CheckedStep, CheckedSumIsNear, PTL DEF Spec

=============================================================================
