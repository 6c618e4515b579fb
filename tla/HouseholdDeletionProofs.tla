---------------------- MODULE HouseholdDeletionProofs ----------------------
(***************************************************************************)
(* A household is deleted as a whole and audited once, for any number of   *)
(* requests, whatever rows it has and whatever is inserted meanwhile:      *)
(* HouseholdDeletion implements AtomicDeletion, and the order of the       *)
(* statements respects every foreign key of the schema.                    *)
(***************************************************************************)
EXTENDS HouseholdDeletion, FiniteSetTheorems, TLAPS

\* Past the audit event a request holds a lock on the household's row.
Locking(d) == del[d].pc \in Open \ {"audit"}

\* The committed rows name rows that exist, and what a request has not deleted
\* names nothing it has deleted.
Referential ==
    /\ \A r \in rows : Parents[r] \subseteq rows
    /\ \A d \in Deleters, r \in rows :
           Parents[r] \cap del[d].gone # {} => r \in del[d].gone

\* Who deletes the household is alone.
Exclusive ==
    /\ \A d \in Deleters : del[d].pc = "delete" => del[d].next <= Len(Order)
    /\ \A d \in Deleters : del[d].gone # {} => Locking(d)
    /\ \A d \in Deleters : Locking(d) => Household \subseteq rows
    /\ \A d \in Deleters : del[d].pc = "commit" => Household \subseteq del[d].gone
    /\ \A d \in Deleters, e \in Deleters :
           Household \cap del[d].gone # {} /\ Locking(e) => d = e

\* The statements are counted from the first delete.
Started == \A d \in Deleters : del[d].pc \in {"idle", "audit", "read_members", "read_accounts"} =>
                                   del[d].next = 1

\* The request that deleted the household, if any, has recorded it.
Audited ==
    /\ \A d \in audit, e \in audit : d = e
    /\ audit # {} <=> Household \cap rows = {}

IInv == TypeOK /\ Referential /\ Exclusive /\ Started /\ Audited

-----------------------------------------------------------------------------
(* The schema *)

\* The order of the statements ends with the household.
LEMMA LastStatement ==
    /\ Len(Order) = 14
    /\ Order[Len(Order)] = "households"
  BY SMT DEF Order

\* There is one household, and every other row depends on it.
LEMMA TheHousehold ==
    ASSUME NEW S \in SUBSET Rows, \A r \in S : Parents[r] \subseteq S, NEW G \in SUBSET Rows,
           \A r \in S : Parents[r] \cap G # {} => r \in G,
           S \cap Household \subseteq G
    PROVE  S \subseteq G
  <1> DEFINE Direct(t) == t \notin {"households", "connection_access_grants", "transaction_splits"}
  <1>1. \A r \in S : TableOf[r] \in Tables
    BY DeletionAssumption
  <1>2. \A r \in S : Direct(TableOf[r]) => r \in G
    <2> SUFFICES ASSUME NEW r \in S, Direct(TableOf[r]) PROVE r \in G
      OBVIOUS
    <2>1. <<TableOf[r], "households">> \in ForeignKeys \ Nullable
      BY <1>1 DEF ForeignKeys, Nullable
    <2>2. PICK p \in Parents[r] : TableOf[p] = "households"
      BY <2>1, DeletionAssumption
    <2>3. p \in G
      BY <2>2, DeletionAssumption DEF Household
    <2>4. QED
      BY <2>2, <2>3
  <1>3. \A r \in S : TableOf[r] = "households" => r \in G
    BY DEF Household
  <1>4. \A r \in S : TableOf[r] = "connection_access_grants" => r \in G
    <2> SUFFICES ASSUME NEW r \in S, TableOf[r] = "connection_access_grants" PROVE r \in G
      OBVIOUS
    <2>1. <<"connection_access_grants", "household_members">> \in ForeignKeys \ Nullable
      BY DEF ForeignKeys, Nullable
    <2>2. PICK p \in Parents[r] : TableOf[p] = "household_members"
      BY <2>1, DeletionAssumption
    <2>3. QED
      BY <1>2, <2>2
  <1>5. \A r \in S : TableOf[r] = "transaction_splits" => r \in G
    <2> SUFFICES ASSUME NEW r \in S, TableOf[r] = "transaction_splits" PROVE r \in G
      OBVIOUS
    <2>1. <<"transaction_splits", "transactions">> \in ForeignKeys \ Nullable
      BY DEF ForeignKeys, Nullable
    <2>2. PICK p \in Parents[r] : TableOf[p] = "transactions"
      BY <2>1, DeletionAssumption
    <2>3. QED
      BY <1>2, <2>2
  <1>6. QED
    BY <1>2, <1>3, <1>4, <1>5

\* Nothing refers to a grant.
LEMMA GrantsAreLeaves ==
    ASSUME NEW r \in Rows, NEW p \in Rows, p \in Parents[r]
    PROVE  TableOf[p] # "connection_access_grants"
  <1>1. <<TableOf[r], TableOf[p]>> \in ForeignKeys
    BY DeletionAssumption
  <1>2. QED
    BY <1>1 DEF ForeignKeys

-----------------------------------------------------------------------------
(* The steps *)

\* At the beginning the rows are complete and nobody has begun.
LEMMA InvInit == Init => IInv
  <1> SUFFICES ASSUME Init PROVE IInv
    OBVIOUS
  <1>1. Len(Order) = 14
    BY LastStatement
  <1>2. TypeOK
    BY <1>1, DeletionAssumption DEF Init, TypeOK, Ready, Transaction
  <1>3. Referential
    BY DeletionAssumption DEF Init, Referential, Ready
  <1>4. Exclusive
    BY DEF Init, Exclusive, Locking, Ready, Open
  <1>5. Audited
    BY DeletionAssumption DEF Init, Audited
  <1>6. Started
    BY DEF Init, Started, Ready
  <1>7. QED
    BY <1>2, <1>3, <1>4, <1>5, <1>6 DEF IInv

\* A request that ends without a commit leaves everything to the others.
LEMMA RolledBack ==
    ASSUME IInv, NEW d \in Deleters, NEW pc \in {"refused", "killed"},
           del' = [del EXCEPT ![d] = Ready(pc)], UNCHANGED <<rows, audit>>
    PROVE  IInv'
  <1> USE DEF IInv
  <1>1. Ready(pc) \in Transaction /\ Ready(pc).pc = pc /\ Ready(pc).gone = {}
    BY LastStatement DEF Ready, Transaction, Ended
  <1>2. \A e \in Deleters : del'[e] = IF e = d THEN Ready(pc) ELSE del[e]
    BY DEF TypeOK
  <1>3. TypeOK'
    BY <1>1 DEF TypeOK
  <1>4. Referential'
    BY <1>1, <1>2 DEF Referential
  <1>5. Exclusive'
    BY <1>1, <1>2 DEF Exclusive, Locking, Open
  <1>6. Audited'
    BY DEF Audited
  <1>7. Started'
    BY <1>1, <1>2 DEF Started
  <1>8. QED
    BY <1>3, <1>4, <1>5, <1>6, <1>7

\* A request moves on and deletes nothing. It has the household's lock, unless it
\* only begins, and does not wait for who deletes the household.
LEMMA MovesOn ==
    ASSUME IInv, NEW d \in Deleters, NEW t \in Transaction,
           del' = [del EXCEPT ![d] = t], UNCHANGED <<rows, audit>>,
           t.gone = del[d].gone, t.next = del[d].next,
           \/ t.pc = "audit" /\ del[d].pc = "idle"
           \/ /\ t.pc \in {"read_members", "read_accounts", "delete"}
              /\ del[d].next = 1
              /\ Household \subseteq rows
              /\ \A e \in Deleters : e # d => Household \cap del[e].gone = {}
    PROVE  IInv'
  <1> USE DEF IInv
  <1>1. \A e \in Deleters : del'[e] = IF e = d THEN t ELSE del[e]
    BY DEF TypeOK
  <1>2. \A e \in Deleters : del'[e].gone = del[e].gone /\ del'[e].next = del[e].next
    BY <1>1
  <1>3. TypeOK'
    BY DEF TypeOK
  <1>4. Referential'
    BY <1>2 DEF Referential
  <1>5. Exclusive'
    <2>1. \A e \in Deleters : Locking(e)' => Locking(e) \/ (e = d /\ t.pc # "audit")
      BY <1>1 DEF Locking
    <2>2. \A e \in Deleters : Locking(e) => Locking(e)'
      BY <1>1 DEF Locking, Open
    <2>3. \A e \in Deleters : del'[e].pc = "delete" => del'[e].next <= Len(Order)
      BY <1>1, LastStatement DEF Exclusive
    <2>4. \A e \in Deleters : del'[e].gone # {} => Locking(e)'
      BY <1>2, <2>2 DEF Exclusive
    <2>5. \A e \in Deleters : Locking(e)' => Household \subseteq rows'
      BY <2>1 DEF Exclusive
    <2>6. \A e \in Deleters : del'[e].pc = "commit" => Household \subseteq del'[e].gone
      BY <1>1 DEF Exclusive
    <2>7. \A e \in Deleters, f \in Deleters :
            Household \cap del'[e].gone # {} /\ Locking(f)' => e = f
      BY <1>2, <2>1 DEF Exclusive
    <2>8. QED
      BY <2>3, <2>4, <2>5, <2>6, <2>7 DEF Exclusive
  <1>6. Audited'
    BY DEF Audited
  <1>7. Started'
    BY <1>1 DEF Started
  <1>8. QED
    BY <1>3, <1>4, <1>5, <1>6, <1>7

\* The statements before the deletes: the request begins, records the event and
\* reads the ids.
LEMMA Prepares ==
    ASSUME IInv, NEW d \in Deleters,
           \/ Authorize(d)
           \/ RecordAuditEvent(d)
           \/ ReadMemberIds(d)
           \/ ReadAccountIds(d)
    PROVE  IInv'
  <1> USE DEF IInv
  <1>1. del[d] \in Transaction
    BY DEF TypeOK
  <1>2. CASE Authorize(d)
    <2> DEFINE t == [pc |-> "audit", next |-> del[d].next, ids |-> del[d].ids, gone |-> del[d].gone]
    <2>1. t \in Transaction /\ [del[d] EXCEPT !.pc = "audit"] = t
      BY <1>1 DEF Transaction, Open
    <2>2. del' = [del EXCEPT ![d] = t] /\ UNCHANGED <<rows, audit>> /\ del[d].pc = "idle"
      <3>1. del' = [del EXCEPT ![d] = [del[d] EXCEPT !.pc = "audit"]]
        BY <1>2 DEF Authorize, TypeOK
      <3>2. QED
        BY <1>2, <2>1, <3>1 DEF Authorize
    <2>3. t.pc = "audit" /\ t.gone = del[d].gone /\ t.next = del[d].next
      OBVIOUS
    <2> HIDE DEF t
    <2>4. QED
      BY <2>1, <2>2, <2>3, MovesOn
  <1>3. CASE RecordAuditEvent(d)
    <2>1. CASE ~Exists("households")
      <3>1. Rollback(d)
        BY <1>3, <2>1 DEF RecordAuditEvent
      <3>2. QED
        BY <3>1, RolledBack DEF Rollback
    <2>2. CASE Exists("households")
      <3> DEFINE t == [pc |-> "read_members", next |-> del[d].next, ids |-> del[d].ids,
                       gone |-> del[d].gone]
      <3>1. t \in Transaction /\ [del[d] EXCEPT !.pc = "read_members"] = t
        BY <1>1 DEF Transaction, Open
      <3>2. del' = [del EXCEPT ![d] = t] /\ UNCHANGED <<rows, audit>> /\ del[d].pc = "audit"
        <4>1. del' = [del EXCEPT ![d] = [del[d] EXCEPT !.pc = "read_members"]]
          BY <1>3, <2>2 DEF RecordAuditEvent, TypeOK
        <4>2. QED
          BY <1>3, <2>2, <3>1, <4>1 DEF RecordAuditEvent
      <3>3. t.pc = "read_members" /\ t.gone = del[d].gone /\ t.next = del[d].next
        OBVIOUS
      <3>4. Household \subseteq rows
        BY <2>2, DeletionAssumption DEF Exists, Household, TypeOK
      <3>5. \A e \in Deleters : e # d => Household \cap del[e].gone = {}
        BY <1>3, <3>2 DEF RecordAuditEvent, Free, WaitsFor
      <3>6. del[d].next = 1
        BY <3>2 DEF Started
      <3> HIDE DEF t
      <3>7. QED
        BY <3>1, <3>2, <3>3, <3>4, <3>5, <3>6, MovesOn
    <2>3. QED
      BY <2>1, <2>2
  <1>4. CASE ReadMemberIds(d) \/ ReadAccountIds(d)
    <2>1. PICK pc \in {"read_members", "read_accounts"}, table \in Tables,
               then \in {"read_accounts", "delete"} : Read(d, pc, table, then)
      <3>1. "household_members" \in Tables /\ "accounts" \in Tables
        BY SMT DEF Tables, Order
      <3>2. QED
        BY <1>4, <3>1 DEF ReadMemberIds, ReadAccountIds
    <2> DEFINE ids == del[d].ids \cup {r \in rows : TableOf[r] = table}
               t == [pc |-> then, next |-> del[d].next, ids |-> ids, gone |-> del[d].gone]
    <2>2. t \in Transaction
      BY <1>1 DEF Transaction, Open, TypeOK
    <2>3. del' = [del EXCEPT ![d] = t] /\ UNCHANGED <<rows, audit>> /\ del[d].pc = pc
      BY <2>1 DEF Read
    <2>4. t.pc = then /\ t.gone = del[d].gone /\ t.next = del[d].next
      OBVIOUS
    <2>5. Locking(d) /\ del[d].next = 1
      BY <2>3 DEF Locking, Open, Started
    <2>6. Household \subseteq rows /\ \A e \in Deleters : e # d => Household \cap del[e].gone = {}
      BY <2>5 DEF Exclusive
    <2> HIDE DEF t
    <2>7. QED
      BY <2>2, <2>3, <2>4, <2>5, <2>6, MovesOn
  <1>5. QED
    BY <1>2, <1>3, <1>4

\* A statement deletes rows that nothing left refers to.
LEMMA Deletes ==
    ASSUME IInv, NEW d \in Deleters, DeleteNext(d)
    PROVE  IInv'
  <1> USE DEF IInv
  <1> DEFINE S == Targets(d)
             gone == del[d].gone \cup S \cup Cascaded(S)
             pc == IF del[d].next = Len(Order) THEN "commit" ELSE "delete"
             t == [pc |-> pc, next |-> del[d].next + 1, ids |-> del[d].ids, gone |-> gone]
  <1>1. del[d] \in Transaction /\ del[d].pc = "delete" /\ del[d].next <= Len(Order)
    BY DEF DeleteNext, TypeOK, Exclusive
  <1>2. S \subseteq rows /\ Cascaded(S) \subseteq rows /\ rows \subseteq Rows
    BY DEF Targets, Cascaded, References, TypeOK
  <1>3. t \in Transaction
    BY <1>1, <1>2, LastStatement DEF Transaction, Open
  <1>4. del' = [del EXCEPT ![d] = t] /\ UNCHANGED <<rows, audit>>
    BY DEF DeleteNext
  <1>5. t.pc = pc /\ t.next = del[d].next + 1 /\ t.gone = gone
    OBVIOUS
  <1> HIDE DEF t
  <1>6. \A e \in Deleters : del'[e] = IF e = d THEN t ELSE del[e]
    BY <1>4 DEF TypeOK
  <1>7. TypeOK'
    BY <1>3, <1>4 DEF TypeOK
  <1>8. \A r \in rows : Parents[r] \cap gone # {} => r \in gone
    <2> SUFFICES ASSUME NEW r \in rows, NEW p \in Parents[r], p \in gone PROVE r \in gone
      OBVIOUS
    <2>1. CASE p \in del[d].gone
      BY <2>1 DEF Referential
    <2>2. CASE p \in S
      BY <2>2 DEF DeleteNext, Dangling, References
    <2>3. CASE p \in Cascaded(S)
      BY <1>2, <2>3, GrantsAreLeaves DEF Cascaded
    <2>4. QED
      BY <2>1, <2>2, <2>3
  <1>9. Referential'
    BY <1>4, <1>5, <1>6, <1>8 DEF Referential
  <1>10. Household \cap gone # {} => \A e \in Deleters : e # d => ~Locking(e)
    <2> SUFFICES ASSUME Household \cap gone # {}, NEW e \in Deleters, e # d PROVE ~Locking(e)
      OBVIOUS
    <2>1. CASE Household \cap del[d].gone # {}
      BY <2>1 DEF Exclusive
    <2>2. CASE Household \cap S # {}
      BY <2>2 DEF DeleteNext, Free, WaitsFor, Locking
    <2>3. CASE Household \cap Cascaded(S) # {}
      BY <2>3 DEF Household, Cascaded
    <2>4. QED
      BY <2>1, <2>2, <2>3
  <1>11. pc = "commit" => Household \subseteq gone
    <2> SUFFICES ASSUME del[d].next = Len(Order) PROVE Household \subseteq gone
      OBVIOUS
    <2>1. Household \subseteq rows
      BY <1>1 DEF Exclusive, Locking, Open
    <2>2. \A h \in Household : TableOf[h] = Order[del[d].next] /\ TableOf[h] \notin ByIds
      BY LastStatement DEF Household, ByIds
    <2>3. QED
      BY <2>1, <2>2 DEF Targets
  <1> HIDE DEF gone, S
  <1>12. Exclusive'
    <2>1. \A e \in Deleters : Locking(e)' <=> Locking(e)
      BY <1>1, <1>5, <1>6 DEF Locking, Open
    <2>2. \A e \in Deleters : del'[e].pc = "delete" => del'[e].next <= Len(Order)
      BY <1>1, <1>5, <1>6, LastStatement DEF Exclusive, Transaction
    <2>3. \A e \in Deleters : del'[e].gone # {} => Locking(e)'
      BY <1>1, <1>6, <2>1 DEF Exclusive, Locking, Open
    <2>4. \A e \in Deleters : Locking(e)' => Household \subseteq rows'
      BY <1>4, <2>1 DEF Exclusive
    <2>5. \A e \in Deleters : del'[e].pc = "commit" => Household \subseteq del'[e].gone
      BY <1>5, <1>6, <1>11 DEF Exclusive
    <2>6. \A e \in Deleters, f \in Deleters :
            Household \cap del'[e].gone # {} /\ Locking(f)' => e = f
      BY <1>5, <1>6, <1>10, <2>1 DEF Exclusive
    <2>7. QED
      BY <2>2, <2>3, <2>4, <2>5, <2>6 DEF Exclusive
  <1>13. Audited'
    BY <1>4 DEF Audited
  <1>14. Started'
    BY <1>5, <1>6 DEF Started
  <1>15. QED
    BY <1>7, <1>9, <1>12, <1>13, <1>14

\* Everything is gone when a request commits.
LEMMA AllGone ==
    ASSUME IInv, NEW d \in Deleters, del[d].pc = "commit"
    PROVE  rows \subseteq del[d].gone
  <1>1. rows \in SUBSET Rows /\ del[d].gone \in SUBSET Rows
    BY DEF IInv, TypeOK, Transaction
  <1>2. Household \subseteq del[d].gone
    BY DEF IInv, Exclusive
  <1>3. QED
    BY <1>1, <1>2, TheHousehold DEF IInv, Referential

\* The request that commits is the only one that holds the household.
LEMMA Commits ==
    ASSUME IInv, NEW d \in Deleters, Commit(d)
    PROVE  IInv' /\ rows' = {}
  <1> USE DEF IInv
  <1>1. rows' = {} /\ audit' = audit \cup {d}
    BY AllGone DEF Commit
  <1>2. Ready("deleted") \in Transaction /\ Ready("deleted").pc = "deleted" /\ Ready("deleted").gone = {}
    BY LastStatement DEF Ready, Transaction, Ended
  <1>3. \A e \in Deleters : del'[e] = IF e = d THEN Ready("deleted") ELSE del[e]
    BY DEF Commit, TypeOK
  <1>4. TypeOK'
    BY <1>1, <1>2 DEF Commit, TypeOK
  <1>5. Locking(d) /\ Household \cap rows # {} /\ Household \cap del[d].gone # {}
    BY DeletionAssumption DEF Commit, Locking, Open, Exclusive
  <1>6. \A e \in Deleters : e # d => ~Locking(e) /\ del[e].gone = {}
    BY <1>5 DEF Exclusive
  <1>7. \A e \in Deleters : ~Locking(e)' /\ del'[e].gone = {} /\ del'[e].pc \notin {"delete", "commit"}
    BY <1>2, <1>3, <1>6 DEF Locking, Open
  <1>8. Referential'
    BY <1>1 DEF Referential
  <1>9. Exclusive'
    BY <1>7 DEF Exclusive
  <1>10. Audited'
    BY <1>1, <1>5 DEF Audited
  <1>11. Started'
    BY <1>2, <1>3 DEF Started
  <1>12. QED
    BY <1>1, <1>4, <1>8, <1>9, <1>10, <1>11

\* What is inserted hangs from rows that exist and that nobody is deleting.
LEMMA Inserts ==
    ASSUME IInv, NEW r \in Rows, Insert(r)
    PROVE  IInv'
  <1> USE DEF IInv
  <1>1. UNCHANGED <<audit, del>> /\ rows' = rows \cup {r} /\ Household \subseteq rows
    BY DEF Insert
  <1>2. TypeOK'
    BY <1>1 DEF TypeOK
  <1>3. Referential'
    BY <1>1 DEF Insert, Referential
  <1>4. Exclusive'
    BY <1>1 DEF Exclusive, Locking
  <1>5. Audited'
    BY <1>1, DeletionAssumption DEF Audited
  <1>6. Started'
    BY <1>1 DEF Started
  <1>7. QED
    BY <1>2, <1>3, <1>4, <1>5, <1>6

\* Every step keeps the invariant.
LEMMA InvNext == IInv /\ [Next]_vars => IInv'
  <1> SUFFICES ASSUME IInv, [Next]_vars PROVE IInv'
    OBVIOUS
  <1>1. ASSUME NEW d \in Deleters, Authorize(d) \/ DeleterStep(d) \/ Killed(d) PROVE IInv'
    <2>1. CASE Authorize(d) \/ RecordAuditEvent(d) \/ ReadMemberIds(d) \/ ReadAccountIds(d)
      BY <2>1, Prepares
    <2>2. CASE DeleteNext(d)
      BY <2>2, Deletes
    <2>3. CASE DeleteRefused(d) \/ Deadlock(d)
      BY <2>3, RolledBack DEF DeleteRefused, Deadlock, Rollback
    <2>4. CASE Killed(d)
      BY <2>4, RolledBack DEF Killed
    <2>5. CASE Commit(d)
      BY <2>5, Commits
    <2>6. QED
      BY <1>1, <2>1, <2>2, <2>3, <2>4, <2>5 DEF DeleterStep
  <1>2. CASE \E r \in Rows : Insert(r)
    BY <1>2, Inserts
  <1>3. CASE UNCHANGED vars
    BY <1>3 DEF vars, IInv, TypeOK, Referential, Exclusive, Locking, Started, Audited
  <1>4. QED
    BY <1>1, <1>2, <1>3 DEF Next

\* The invariant holds in every reachable state.
LEMMA Invariant == Spec => []IInv
  BY InvInit, InvNext, PTL DEF Spec

\* The rows, the events and the transactions keep their types.
THEOREM TypeCorrect == Spec => []TypeOK
  <1>1. IInv => TypeOK
    BY DEF IInv
  <1>2. QED
    BY <1>1, Invariant, PTL

\* However many owners ask, one event is recorded, and exactly when the household
\* is gone.
THEOREM DeletionIsAuditedOnce == Spec => []AuditedOnce
  <1>1. IInv => AuditedOnce
    <2> SUFFICES ASSUME IInv PROVE AuditedOnce
      OBVIOUS
    <2>1. Cardinality(audit) <= 1
      <3>1. CASE audit = {}
        BY <3>1, FS_EmptySet
      <3>2. CASE audit # {}
        <4>1. PICK d : audit = {d}
          BY <3>2 DEF IInv, Audited
        <4>2. Cardinality(audit) = 1
          BY <4>1, FS_Singleton
        <4>3. QED
          BY <4>2
      <3>3. QED
        BY <3>1, <3>2
    <2>2. Household \cap rows = {} <=> ~Exists("households")
      BY DEF IInv, TypeOK, Household, Exists
    <2>3. QED
      BY <2>1, <2>2 DEF IInv, Audited, AuditedOnce
  <1>2. QED
    BY <1>1, Invariant, PTL

\* Every statement maps to a stutter, the commit to the one step in which all rows
\* go and the event appears: for every household, any number of requests and
\* whatever is inserted between two statements.
THEOREM DeletionIsAtomic == Spec => ImplementsAtomicDeletion
  <1>1. Init => Atomic!Init
    BY DEF Init, Atomic!Init
  <1>2. IInv /\ [Next]_vars => [Atomic!Next]_(Atomic!vars)
    <2> SUFFICES ASSUME IInv, [Next]_vars PROVE Atomic!Next \/ UNCHANGED Atomic!vars
      OBVIOUS
    <2>1. ASSUME NEW d \in Deleters, Authorize(d) \/ Killed(d) PROVE UNCHANGED Atomic!vars
      BY <2>1 DEF Authorize, Killed, Atomic!vars
    <2>2. ASSUME NEW d \in Deleters, DeleterStep(d), ~Commit(d) PROVE UNCHANGED Atomic!vars
      BY <2>2 DEF DeleterStep, RecordAuditEvent, ReadMemberIds, ReadAccountIds, Read, DeleteNext,
                  DeleteRefused, Deadlock, Rollback, Atomic!vars
    <2>3. ASSUME NEW d \in Deleters, Commit(d) PROVE Atomic!Delete(d)
      <3>1. Household \subseteq rows /\ Household # {}
        BY <2>3, DeletionAssumption DEF Commit, IInv, Exclusive, Locking, Open
      <3>2. audit = {}
        BY <3>1 DEF IInv, Audited
      <3>3. rows' = {} /\ audit' = {d}
        BY <2>3, <3>2, Commits DEF Commit
      <3>4. QED
        BY <3>1, <3>2, <3>3 DEF Atomic!Delete
    <2>4. ASSUME NEW r \in Rows, Insert(r) PROVE Atomic!Insert(r)
      BY <2>4, DeletionAssumption DEF Insert, Atomic!Insert
    <2>5. CASE UNCHANGED vars
      BY <2>5 DEF vars, Atomic!vars
    <2>6. QED
      BY <2>1, <2>2, <2>3, <2>4, <2>5 DEF Next, Atomic!Next
  <1>3. QED
    BY <1>1, <1>2, Invariant, PTL DEF Spec, ImplementsAtomicDeletion, Atomic!Spec

-----------------------------------------------------------------------------
(* The order of the statements *)

\* Nothing that was there at the beginning goes away before everything does.
Grown == rows = {} \/ Initially \subseteq rows

\* After a request has read the members and the accounts it knows those that
\* were there at the beginning.
Knows ==
    /\ \A d \in Deleters, r \in Initially :
           del[d].pc \in {"read_accounts", "delete"} /\ TableOf[r] = "household_members" =>
               r \in del[d].ids
    /\ \A d \in Deleters, r \in Initially :
           del[d].pc = "delete" /\ TableOf[r] = "accounts" => r \in del[d].ids

\* The tables whose statement has been executed are empty to the request, but
\* for what has been inserted.
Emptied ==
    \A d \in Deleters, r \in Initially, i \in 1..Len(Order) :
        del[d].pc = "delete" /\ i < del[d].next /\ TableOf[r] = Order[i] => r \in del[d].gone

OrderInv == IInv /\ Grown /\ Knows /\ Emptied

\* A table that refers to another one has an earlier statement. Grants go by
\* cascade, and splits have no statement.
LEMMA ReferringComesFirst ==
    ASSUME NEW k \in ForeignKeys, NEW i \in 1..Len(Order), k[2] = Order[i],
           k[1] \notin {"connection_access_grants", "transaction_splits"}
    PROVE  \E j \in 1..Len(Order) : j < i /\ k[1] = Order[j]
  <1>1. Len(Order) = 14
    BY LastStatement
  <1>2. /\ Order[1] = "connection_access_grants" /\ Order[2] = "household_invites"
        /\ Order[3] = "assistant_messages" /\ Order[4] = "anomaly_flags"
        /\ Order[5] = "credit_card_bills" /\ Order[6] = "balance_snapshots"
        /\ Order[7] = "investments" /\ Order[8] = "loans" /\ Order[9] = "transactions"
        /\ Order[10] = "accounts" /\ Order[11] = "sync_jobs"
        /\ Order[12] = "pluggy_connections" /\ Order[13] = "household_members"
        /\ Order[14] = "households"
    BY SMT DEF Order
  <1>3. \A n \in 1..14 : n = 1 \/ n = 2 \/ n = 3 \/ n = 4 \/ n = 5 \/ n = 6 \/ n = 7 \/ n = 8
                         \/ n = 9 \/ n = 10 \/ n = 11 \/ n = 12 \/ n = 13 \/ n = 14
    OBVIOUS
  <1>4. CASE k[2] = "households"
    <2>1. k[1] \in Tables \ {"households", "connection_access_grants", "transaction_splits"}
      BY <1>4 DEF ForeignKeys
    <2>2. PICK j \in 1..14 : k[1] = Order[j]
      BY <1>1, <2>1 DEF Tables
    <2>3. j # 14 /\ i = 14
      BY <1>1, <1>2, <1>3, <1>4, <2>1, <2>2
    <2>4. QED
      BY <1>1, <2>2, <2>3
  <1>5. CASE k[2] # "households"
    <2>1. \/ k[1] \in {"sync_jobs", "accounts", "investments", "loans"} /\ k[2] = "pluggy_connections"
          \/ k[1] \in {"credit_card_bills", "balance_snapshots", "transactions"} /\ k[2] = "accounts"
          \/ k[1] = "anomaly_flags" /\ k[2] \in {"transactions", "household_members"}
      BY <1>5 DEF ForeignKeys
    <2>2. CASE k[2] = "pluggy_connections"
      <3>1. i = 12
        BY <1>1, <1>2, <1>3, <2>2
      <3>2. k[1] \in {Order[11], Order[10], Order[7], Order[8]}
        BY <1>2, <2>1, <2>2
      <3>3. QED
        BY <1>1, <3>1, <3>2
    <2>3. CASE k[2] = "accounts"
      <3>1. i = 10
        BY <1>1, <1>2, <1>3, <2>3
      <3>2. k[1] \in {Order[5], Order[6], Order[9]}
        BY <1>2, <2>1, <2>3
      <3>3. QED
        BY <1>1, <3>1, <3>2
    <2>4. CASE k[2] \in {"transactions", "household_members"}
      <3>1. i = 9 \/ i = 13
        BY <1>1, <1>2, <1>3, <2>4
      <3>2. k[1] = Order[4]
        BY <1>2, <2>1, <2>4
      <3>3. QED
        BY <1>1, <3>1, <3>2
    <2>5. QED
      BY <2>1, <2>2, <2>3, <2>4
  <1>6. QED
    BY <1>4, <1>5

\* Every row of the statement's table that was there at the beginning is among
\* its targets: the ids lead to the grants, the bills and the snapshots.
LEMMA IdsSuffice ==
    ASSUME OrderInv, NEW d \in Deleters, del[d].pc = "delete", NEW r \in Initially,
           TableOf[r] = Order[del[d].next]
    PROVE  r \in Targets(d) \cup del[d].gone
  <1>1. Initially \subseteq rows
    BY DeletionAssumption DEF OrderInv, IInv, Exclusive, Locking, Open, Grown
  <1>2. TableOf[r] \in ByIds => Parents[r] \cap del[d].ids # {}
    <2>1. CASE TableOf[r] = "connection_access_grants"
      <3>1. <<"connection_access_grants", "household_members">> \in ForeignKeys \ Nullable
        BY DEF ForeignKeys, Nullable
      <3>2. PICK p \in Parents[r] : TableOf[p] = "household_members"
        BY <2>1, <3>1, DeletionAssumption
      <3>3. p \in Initially
        BY <3>2, DeletionAssumption
      <3>4. QED
        BY <3>2, <3>3 DEF OrderInv, Knows
    <2>2. CASE TableOf[r] \in {"credit_card_bills", "balance_snapshots"}
      <3>1. <<TableOf[r], "accounts">> \in ForeignKeys \ Nullable
        BY <2>2 DEF ForeignKeys, Nullable
      <3>2. PICK p \in Parents[r] : TableOf[p] = "accounts"
        BY <3>1, DeletionAssumption
      <3>3. p \in Initially
        BY <3>2, DeletionAssumption
      <3>4. QED
        BY <3>2, <3>3 DEF OrderInv, Knows
    <2>3. QED
      BY <2>1, <2>2 DEF ByIds
  <1>3. QED
    BY <1>1, <1>2 DEF Targets

\* At the beginning no request has begun.
LEMMA OrderInit == Init => OrderInv
  <1> SUFFICES ASSUME Init PROVE OrderInv
    OBVIOUS
  <1>1. \A d \in Deleters : del[d].pc = "idle"
    BY DEF Init, Ready
  <1>2. QED
    BY <1>1, InvInit DEF Init, OrderInv, Grown, Knows, Emptied

\* A request steps: it learns the ids, deletes a table, or ends.
LEMMA OrderStep ==
    ASSUME OrderInv, IInv', NEW d \in Deleters, Authorize(d) \/ DeleterStep(d) \/ Killed(d)
    PROVE  Grown' /\ Knows' /\ Emptied'
  <1> USE DEF OrderInv
  <1>1. ASSUME NEW pc \in {"refused", "killed", "deleted"}, rows' = rows \/ rows' = {},
               del' = [del EXCEPT ![d] = Ready(pc)]
        PROVE  Grown' /\ Knows' /\ Emptied'
    <2>1. \A e \in Deleters : del'[e] = IF e = d THEN Ready(pc) ELSE del[e]
      BY <1>1 DEF IInv, TypeOK
    <2>2. Ready(pc).pc = pc
      BY DEF Ready
    <2>3. Grown'
      BY <1>1 DEF Grown
    <2>4. Knows'
      BY <2>1, <2>2 DEF Knows
    <2>5. Emptied'
      BY <2>1, <2>2 DEF Emptied
    <2>6. QED
      BY <2>3, <2>4, <2>5
  <1>2. CASE Authorize(d) \/ (RecordAuditEvent(d) /\ Exists("households"))
    <2>1. PICK pc \in {"audit", "read_members"} :
            del' = [del EXCEPT ![d].pc = pc] /\ UNCHANGED <<rows, audit>>
      BY <1>2 DEF Authorize, RecordAuditEvent
    <2>2. \A e \in Deleters : e # d => del'[e] = del[e]
      BY <2>1 DEF IInv, TypeOK
    <2>3. del'[d].pc = pc
      BY <2>1 DEF IInv, TypeOK, Transaction
    <2>4. Grown'
      BY <2>1 DEF Grown
    <2>5. Knows'
      BY <2>2, <2>3 DEF Knows
    <2>6. Emptied'
      BY <2>2, <2>3 DEF Emptied
    <2>7. QED
      BY <2>4, <2>5, <2>6
  <1>3. CASE RecordAuditEvent(d) /\ ~Exists("households")
    BY <1>1, <1>3 DEF RecordAuditEvent, Rollback
  <1>4. CASE ReadMemberIds(d) \/ ReadAccountIds(d)
    <2>1. rows' = rows /\ \A e \in Deleters : e # d => del'[e] = del[e]
      BY <1>4 DEF ReadMemberIds, ReadAccountIds, Read, IInv, TypeOK
    <2>2. Locking(d)
      BY <1>4 DEF ReadMemberIds, ReadAccountIds, Read, Locking, Open
    <2>3. Initially \subseteq rows
      BY <2>2, DeletionAssumption DEF IInv, Exclusive, Grown
    <2>4. del'[d].pc = "read_accounts" => {r \in rows : TableOf[r] = "household_members"} \subseteq del'[d].ids
      BY <1>4 DEF ReadMemberIds, ReadAccountIds, Read, IInv, TypeOK
    <2>5. del'[d].pc = "delete" =>
            /\ del[d].pc = "read_accounts"
            /\ del[d].ids \subseteq del'[d].ids
            /\ {r \in rows : TableOf[r] = "accounts"} \subseteq del'[d].ids
            /\ del'[d].next = del[d].next
      BY <1>4 DEF ReadMemberIds, ReadAccountIds, Read, IInv, TypeOK
    <2>6. Grown'
      BY <2>1 DEF Grown
    <2>7. Knows'
      BY <2>1, <2>3, <2>4, <2>5 DEF Knows
    <2>8. del'[d].pc = "delete" => del'[d].next = 1
      BY <2>5 DEF IInv, Started
    <2>9. Emptied'
      BY <2>1, <2>8 DEF Emptied
    <2>10. QED
      BY <2>6, <2>7, <2>9
  <1>5. CASE DeleteNext(d)
    <2>1. rows' = rows /\ \A e \in Deleters : e # d => del'[e] = del[e]
      BY <1>5 DEF DeleteNext, IInv, TypeOK
    <2>2. /\ del[d].pc = "delete"
          /\ del'[d].ids = del[d].ids
          /\ del'[d].next = del[d].next + 1
          /\ del[d].gone \cup Targets(d) \subseteq del'[d].gone
      BY <1>5 DEF DeleteNext, IInv, TypeOK
    <2>3. del[d].next \in 1..Len(Order) + 1
      BY DEF IInv, TypeOK, Transaction
    <2>4. Grown'
      BY <2>1 DEF Grown
    <2>5. Knows'
      BY <2>1, <2>2 DEF Knows
    <2>6. ASSUME NEW r \in Initially, NEW i \in 1..Len(Order), i < del'[d].next,
                 TableOf[r] = Order[i]
          PROVE  r \in del'[d].gone
      <3>1. CASE i < del[d].next
        BY <2>2, <2>6, <3>1 DEF Emptied
      <3>2. CASE ~(i < del[d].next)
        <4>1. i = del[d].next
          BY <2>2, <2>3, <2>6, <3>2, LastStatement
        <4>2. QED
          BY <2>2, <2>6, <4>1, IdsSuffice
      <3>3. QED
        BY <3>1, <3>2
    <2>7. Emptied'
      BY <2>1, <2>6 DEF Emptied
    <2>8. QED
      BY <2>4, <2>5, <2>7
  <1>6. CASE DeleteRefused(d) \/ Deadlock(d)
    BY <1>1, <1>6 DEF DeleteRefused, Deadlock, Rollback
  <1>7. CASE Commit(d)
    <2>1. rows' = {}
      BY <1>7, Commits
    <2>2. QED
      BY <1>1, <1>7, <2>1 DEF Commit
  <1>8. CASE Killed(d)
    BY <1>1, <1>8 DEF Killed
  <1>9. QED
    BY <1>2, <1>3, <1>4, <1>5, <1>6, <1>7, <1>8 DEF DeleterStep

\* Every step keeps what the order of the statements relies on.
LEMMA OrderNext == OrderInv /\ [Next]_vars => OrderInv'
  <1> SUFFICES ASSUME OrderInv, [Next]_vars PROVE OrderInv'
    OBVIOUS
  <1>1. IInv'
    BY InvNext DEF OrderInv
  <1>2. CASE \E d \in Deleters : Authorize(d) \/ DeleterStep(d) \/ Killed(d)
    BY <1>1, <1>2, OrderStep DEF OrderInv
  <1>3. CASE \E r \in Rows : Insert(r)
    <2>1. rows # {} /\ rows \subseteq rows' /\ UNCHANGED del
      BY <1>3, DeletionAssumption DEF Insert
    <2>2. Grown' /\ Knows' /\ Emptied'
      BY <2>1 DEF OrderInv, Grown, Knows, Emptied
    <2>3. QED
      BY <1>1, <2>2 DEF OrderInv
  <1>4. CASE UNCHANGED vars
    BY <1>1, <1>4 DEF vars, OrderInv, Grown, Knows, Emptied
  <1>5. QED
    BY <1>2, <1>3, <1>4 DEF Next

\* A statement that is refused met a row inserted since the beginning, or a split.
LEMMA RefusedForAReason ==
    ASSUME OrderInv, NEW d \in Deleters, DeleteRefused(d)
    PROVE  Inserted \/ Exists("transaction_splits")
  <1> SUFFICES ASSUME ~Inserted, ~Exists("transaction_splits") PROVE FALSE
    OBVIOUS
  <1>1. del[d].pc = "delete" /\ del[d].next \in 1..Len(Order)
    BY LastStatement DEF DeleteRefused, OrderInv, IInv, TypeOK, Transaction, Exclusive
  <1>2. PICK r \in rows, p \in Targets(d) : p \in Parents[r] /\ r \in Dangling(d, Targets(d))
    BY DEF DeleteRefused, Dangling, References
  <1>3. /\ TableOf[r] \notin {"connection_access_grants", "transaction_splits"}
        /\ r \notin del[d].gone
    BY <1>2 DEF Dangling, Cascaded, Exists
  <1>4. r \in Initially /\ TableOf[p] = Order[del[d].next]
    BY <1>2 DEF Inserted, Targets
  <1>5. <<TableOf[r], TableOf[p]>> \in ForeignKeys
    BY <1>2, DeletionAssumption DEF OrderInv, IInv, TypeOK, Targets
  <1>6. PICK j \in 1..Len(Order) : j < del[d].next /\ TableOf[r] = Order[j]
    BY <1>1, <1>3, <1>4, <1>5, ReferringComesFirst
  <1>7. QED
    BY <1>1, <1>3, <1>4, <1>6 DEF OrderInv, Emptied

\* The statements respect every foreign key of the schema: a deletion is refused
\* only for a row that was inserted meanwhile or for a split, which no statement
\* deletes.
THEOREM OrderRespectsForeignKeys ==
    Spec => [][\A d \in Deleters :
                   DeleteRefused(d) => Inserted \/ Exists("transaction_splits")]_vars
  <1>1. Init => OrderInv
    BY OrderInit
  <1>2. OrderInv /\ [Next]_vars => OrderInv'
    BY OrderNext
  <1>3. OrderInv => \A d \in Deleters :
                        DeleteRefused(d) => Inserted \/ Exists("transaction_splits")
    BY RefusedForAReason
  <1>4. QED
    BY <1>1, <1>2, <1>3, PTL DEF Spec

\* A single request that has begun finds the household until it has deleted it.
Unrivalled ==
    \A d \in Deleters : del[d].pc \in Open => Household \subseteq rows

\* A single owner's deletion of a household without splits is never refused while
\* nobody inserts anything: no statement fails, nobody else can have taken the
\* household away, and there is nobody to deadlock with.
THEOREM AloneIsNeverRefused ==
    ASSUME \A d \in Deleters, e \in Deleters : d = e
    PROVE  Spec /\ [](~Inserted /\ ~Exists("transaction_splits")) => []NeverRefused
  <1> DEFINE J == OrderInv /\ Unrivalled /\ NeverRefused
             Quiet == ~Inserted /\ ~Exists("transaction_splits")
  <1>1. Init => J
    BY OrderInit DEF Init, Unrivalled, NeverRefused, Ready, Open
  <1>2. J /\ Quiet /\ [Next]_vars => J'
    <2> SUFFICES ASSUME J, Quiet, [Next]_vars PROVE J'
      OBVIOUS
    <2>1. OrderInv'
      BY OrderNext
    <2>2. ASSUME NEW d \in Deleters, Authorize(d) \/ DeleterStep(d) \/ Killed(d)
          PROVE  (Unrivalled /\ NeverRefused)'
      <3>0. \A e \in Deleters : e = d
        OBVIOUS
      <3>1. ~DeleteRefused(d)
        BY RefusedForAReason
      <3>2. ~Deadlock(d)
        BY <3>0 DEF Deadlock, WaitsFor
      <3>3. del \in [Deleters -> Transaction]
        BY DEF OrderInv, IInv, TypeOK
      <3>4. CASE Authorize(d) \/ RecordAuditEvent(d)
        <4>1. Exists("households")
          BY <3>4, DeletionAssumption DEF Authorize, RecordAuditEvent, Unrivalled, Open, Exists, Household
        <4>2. Household \subseteq rows
          BY <4>1, DeletionAssumption DEF Exists, Household, OrderInv, IInv, TypeOK
        <4>3. rows' = rows /\ del'[d].pc # "refused"
          BY <3>3, <3>4, <4>1 DEF Authorize, RecordAuditEvent, Transaction
        <4>4. QED
          BY <3>0, <4>2, <4>3 DEF Unrivalled, NeverRefused
      <3>5. CASE ReadMemberIds(d) \/ ReadAccountIds(d) \/ DeleteNext(d)
        <4>1. rows' = rows /\ del'[d].pc # "refused" /\ del[d].pc \in Open
          BY <3>3, <3>5 DEF ReadMemberIds, ReadAccountIds, Read, DeleteNext, Open
        <4>2. QED
          BY <3>0, <4>1 DEF Unrivalled, NeverRefused
      <3>6. CASE Commit(d) \/ Killed(d)
        <4>1. del'[d].pc \in {"deleted", "killed"}
          BY <3>3, <3>6 DEF Commit, Killed, Ready
        <4>2. QED
          BY <3>0, <4>1 DEF Unrivalled, NeverRefused, Open
      <3>7. QED
        BY <2>2, <3>1, <3>2, <3>4, <3>5, <3>6 DEF DeleterStep
    <2>3. CASE \E r \in Rows : Insert(r)
      BY <2>1, <2>3 DEF Insert, Unrivalled, NeverRefused
    <2>4. CASE UNCHANGED vars
      BY <2>1, <2>4 DEF vars, Unrivalled, NeverRefused
    <2>5. QED
      BY <2>1, <2>2, <2>3, <2>4 DEF Next
  <1>3. J => NeverRefused
    OBVIOUS
  <1> HIDE DEF J, Quiet
  <1>4. QED
    BY <1>1, <1>2, <1>3, PTL DEF Spec, Quiet
=============================================================================
