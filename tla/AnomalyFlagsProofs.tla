------------------------- MODULE AnomalyFlagsProofs -------------------------
(***************************************************************************)
(* For any transactions, banks, days, workers and members, and for every   *)
(* value of the rules' thresholds: which flags runs raise, and that only   *)
(* members change them.                                                    *)
(***************************************************************************)
EXTENDS AnomalyFlags, TLAPS

\* What runs read are snapshots of a table that only grows.
Snapshots == {checked} \cup {run[w].saw : w \in Workers}

Chain ==
    /\ \A S \in Snapshots : S \subseteq txns
    /\ \A S, T \in Snapshots : S \subseteq T \/ T \subseteq S

\* One of two equal charges is among the flags F.
Caught(S, F) ==
    \A t, o \in Debits(S) :
        t # o /\ IsDuplicate(o, t) =>
            \E u \in {t, o} : Flag("duplicate_transaction", u) \in F

Raised == {f \in Flags : status[f] # "none"}

DuplicatesCaught ==
    /\ Caught(checked, Raised)
    /\ \A w \in Workers : Caught(run[w].saw, run[w].found)

SameMerchant(t, u) == t.text = u.text /\ Connection(t) = Connection(u)

\* A merchant's flag is about a debit, and about none later than the run read.
MerchantsFirst ==
    /\ \A t \in Ledger : Flag("new_merchant", t) \in Raised => t.amount < 0
    /\ \A w \in Workers : \A t \in Ledger :
           Flag("new_merchant", t) \in run[w].found =>
               /\ run[w].at > 3
               /\ t.amount < 0
               /\ \A u \in Debits(run[w].saw) : SameMerchant(t, u) => t.date <= u.date

\* What requests have loaded.
Loaded ==
    \A m \in Clients :
        /\ req[m].pc = "flagging" => req[m].flag.rule = "manual" /\ req[m].wants = "open"
        /\ req[m].pc = "reviewing" => req[m].was # "none" /\ status[req[m].flag] # "none"

Inv == TypeOK /\ Chain /\ DuplicatesCaught /\ MerchantsFirst /\ Loaded
-----------------------------------------------------------------------------
(* The rules *)

LEMMA RulesAreNamed ==
    /\ Len(RULES) = 6
    /\ \A i \in 1..4 : RULES[i] \in {RULES[j] : j \in 1..4}
    /\ RULES[1] = "large_transaction" /\ RULES[2] = "duplicate_transaction"
    /\ RULES[3] = "new_merchant" /\ RULES[4] = "recurring_payment_changed"
    /\ RULES[5] = "category_deviation" /\ RULES[6] = "member_deviation"
BY DEF RULES

LEMMA FlagsAreDistinct ==
    ASSUME NEW r, NEW x, NEW q, NEW y, Flag(r, x) = Flag(q, y)
    PROVE  r = q /\ x = y
<1>1. Flag(r, x).rule = r /\ Flag(r, x).of = x /\ Flag(q, y).rule = q /\ Flag(q, y).of = y
  BY DEF Flag
<1> QED  BY <1>1

LEMMA FlagsOfTransactions ==
    ASSUME NEW t \in Ledger
    PROVE  /\ \A i \in 1..4 : Flag(RULES[i], t) \in Flags
           /\ Flag("duplicate_transaction", t) \in Flags
           /\ Flag("new_merchant", t) \in Flags
BY RulesAreNamed DEF Flags, OfTransaction

\* A pair of equal charges is one from either side.
LEMMA DuplicateIsSymmetric ==
    ASSUME NEW t \in Ledger, NEW o \in Ledger, IsDuplicate(o, t)
    PROVE  IsDuplicate(t, o)
<1>1. t.amount \in Int /\ o.amount \in Int /\ t.date \in Int /\ o.date \in Int
  BY FlagsAssumption
<1>2. Gap(t, o) = Gap(o, t)  BY <1>1 DEF Gap
<1>3. Spent(o) - Spent(t) \in -1..1 => Spent(t) - Spent(o) \in -1..1  BY <1>1 DEF Spent
<1> QED  BY <1>2, <1>3 DEF IsDuplicate

\* Of two transactions, one comes first.
LEMMA OneIsBefore ==
    ASSUME NEW tie \in Ties, NEW t \in Ledger, NEW o \in Ledger, t # o
    PROVE  Before(o, t, tie) \/ Before(t, o, tie)
<1>1. t.date \in Int /\ o.date \in Int /\ tie[t] \in Int /\ tie[o] \in Int /\ tie[t] # tie[o]
  BY FlagsAssumption
<1> QED  BY <1>1 DEF Before

\* The duplicate rule catches every pair of what it reads.
LEMMA DuplicatesAreFound ==
    ASSUME NEW T \in SUBSET Ledger, NEW tie \in Ties, NEW F,
           \A u \in DuplicateTransactions(T, tie) : Flag("duplicate_transaction", u) \in F
    PROVE  Caught(T, F)
<1> SUFFICES ASSUME NEW t \in Debits(T), NEW o \in Debits(T), t # o, IsDuplicate(o, t)
             PROVE  \E u \in {t, o} : Flag("duplicate_transaction", u) \in F
  BY DEF Caught
<1>1. t \in Ledger /\ o \in Ledger  BY DEF Debits
<1>2. CASE Before(o, t, tie)
  <2>1. t \in DuplicateTransactions(T, tie)  BY <1>2 DEF DuplicateTransactions, Earlier
  <2> QED  BY <2>1
<1>3. CASE Before(t, o, tie)
  <2>1. IsDuplicate(t, o)  BY <1>1, DuplicateIsSymmetric
  <2>2. o \in DuplicateTransactions(T, tie)  BY <1>3, <2>1 DEF DuplicateTransactions, Earlier
  <2> QED  BY <2>2
<1> QED  BY <1>1, <1>2, <1>3, OneIsBefore

\* The merchant rule finds debits that no debit of the same merchant precedes.
LEMMA MerchantsAreFirst ==
    ASSUME NEW T \in SUBSET Ledger, NEW tie \in Ties, NEW t \in NewMerchants(T, tie)
    PROVE  /\ t \in Debits(T)
           /\ \A u \in Debits(T) : SameMerchant(t, u) => t.date <= u.date
<1>1. t \in Debits(T) /\ \A o \in Earlier(SameBank(Debits(T), t), t, tie) : o.text # t.text
  BY DEF NewMerchants
<1>2. ASSUME NEW u \in Debits(T), SameMerchant(t, u) PROVE t.date <= u.date
  <2>1. u \in SameBank(Debits(T), t)  BY <1>2 DEF SameBank, SameMerchant
  <2>2. ~Before(u, t, tie)  BY <1>1, <1>2, <2>1 DEF Earlier, SameMerchant
  <2>3. t.date \in Int /\ u.date \in Int  BY <1>1, FlagsAssumption DEF Debits
  <2> QED  BY <2>2, <2>3 DEF Before
<1> QED  BY <1>1, <1>2

\* What the rules find are flags.
LEMMA CandidatesAreFlags ==
    ASSUME TypeOK, NEW i \in 1..6, NEW r \in Run, NEW tie \in Ties
    PROVE  Candidates(i, r, tie) \subseteq Flags
<1>1. txns \subseteq Ledger /\ today \in FirstDay..LastDay  BY DEF TypeOK
<1>2. ASSUME i \in 1..4, NEW f \in Candidates(i, r, tie) PROVE f \in Flags
  <2>1. /\ LargeTransactions(txns, today, tie) \subseteq Ledger
        /\ DuplicateTransactions(txns, tie) \subseteq Ledger
        /\ NewMerchants(txns, tie) \subseteq Ledger
        /\ ChangedPayments(txns, tie) \subseteq Ledger
    BY <1>1 DEF LargeTransactions, DuplicateTransactions, NewMerchants, ChangedPayments,
                DebitsSince, Debits
  <2>2. PICK t \in Ledger : f = Flag(RULES[i], t)  BY <1>2, <2>1 DEF Candidates
  <2> QED  BY <1>2, <2>2, FlagsOfTransactions
<1>3. r.rows \subseteq Ledger /\ r.day \in FirstDay..LastDay  BY DEF Run
<1>4. ASSUME i = 5, NEW f \in Candidates(i, r, tie) PROVE f \in Flags
  <2>1. PICK k \in CategoryDeviations(r.rows, PriorDebits(txns, r.day), r.day) :
            f = Flag("category_deviation", k)
    BY <1>4, RulesAreNamed DEF Candidates
  <2>2. PICK t \in Ledger : k = [of |-> Label(t.category), day |-> r.day]
    BY <1>3 DEF CategoryDeviations
  <2>3. Label(t.category) \in Labels  BY DEF Label, Labels
  <2> QED  BY <1>3, <2>1, <2>2, <2>3 DEF Flags, OfPeriod
<1>5. ASSUME i = 6, NEW f \in Candidates(i, r, tie) PROVE f \in Flags
  <2>1. PICK k \in MemberDeviations(r.rows, PriorDebits(txns, r.day), r.day) :
            f = Flag("member_deviation", k)
    BY <1>5, RulesAreNamed DEF Candidates
  <2>2. PICK m \in Members : k = [of |-> m, day |-> r.day]
    BY <1>3 DEF MemberDeviations, Members
  <2> QED  BY <1>3, <2>1, <2>2 DEF Flags, OfPeriod
<1> QED  BY <1>2, <1>4, <1>5
-----------------------------------------------------------------------------
(* Runs *)

\* A run's step that leaves the flags alone and finds more, having read nothing
\* new.
LEMMA RunStep ==
    ASSUME Inv, NEW w \in Workers, NEW r \in Run, run' = [run EXCEPT ![w] = r],
           UNCHANGED <<txns, today, status, req, requests, checked>>,
           r.saw \in {{}, run[w].saw, txns},
           Caught(r.saw, r.found),
           \A t \in Ledger :
               Flag("new_merchant", t) \in r.found =>
                   /\ r.at > 3
                   /\ t.amount < 0
                   /\ \A u \in Debits(r.saw) : SameMerchant(t, u) => t.date <= u.date
    PROVE  Inv'
<1>1. run \in [Workers -> Run]  BY DEF Inv, TypeOK
<1>2. run'[w] = r /\ \A v \in Workers \ {w} : run'[v] = run[v]  BY <1>1
<1>3. TypeOK'  BY <1>1 DEF Inv, TypeOK
<1>4. Chain'
  <2>1. Snapshots' \subseteq Snapshots \cup {{}, txns}  BY <1>2 DEF Snapshots
  <2> QED  BY <2>1 DEF Inv, Chain
<1>5. Raised' = Raised  BY DEF Raised
<1>6. DuplicatesCaught'  BY <1>2, <1>5 DEF Inv, DuplicatesCaught
<1>7. MerchantsFirst'  BY <1>2, <1>5 DEF Inv, MerchantsFirst
<1>8. Loaded'  BY DEF Inv, Loaded
<1> QED  BY <1>3, <1>4, <1>6, <1>7, <1>8 DEF Inv

LEMMA IdleIsRun ==
    /\ Idle \in Run /\ Idle.at = 0 /\ Idle.found = {} /\ Idle.saw = {}
    /\ \A F : Caught({}, F)
<1>1. FirstDay \in FirstDay..LastDay  BY FlagsAssumption
<1>2. 0 \in 0..Len(RULES) + 1  BY RulesAreNamed
<1>3. Idle \in Run  BY <1>1, <1>2 DEF Idle, Run
<1>4. Idle.at = 0 /\ Idle.found = {} /\ Idle.saw = {}  BY DEF Idle
<1>5. \A F : Caught({}, F)  BY DEF Caught, Debits
<1> QED  BY <1>3, <1>4, <1>5

LEMMA BeginStep == ASSUME Inv, NEW w \in Workers, Begin(w) PROVE Inv'
<1> DEFINE r == [run[w] EXCEPT !.at = 1]
<1>1. run[w] \in Run /\ run[w].at = 0  BY DEF Inv, TypeOK, Begin
<1>2. run' = [run EXCEPT ![w] = r] /\ UNCHANGED <<txns, today, status, req, requests, checked>>
  BY DEF Begin
<1>3. 1 \in 0..Len(RULES) + 1  BY RulesAreNamed
<1>4. r \in Run /\ r.saw = run[w].saw /\ r.found = run[w].found  BY <1>1, <1>3 DEF Run
<1> HIDE DEF r
<1>5. Caught(r.saw, r.found)  BY <1>4 DEF Inv, DuplicatesCaught
<1>6. \A t \in Ledger : Flag("new_merchant", t) \notin r.found
  BY <1>1, <1>4 DEF Inv, MerchantsFirst
<1> QED  BY <1>2, <1>4, <1>5, <1>6, RunStep

LEMMA ReadCurrentStep == ASSUME Inv, NEW w \in Workers, ReadCurrent(w) PROVE Inv'
<1> DEFINE rows == CurrentDebits(txns, today)
<1> DEFINE r == [run[w] EXCEPT !.half = TRUE, !.rows = rows, !.day = today]
<1>1. run[w] \in Run /\ txns \subseteq Ledger /\ today \in FirstDay..LastDay  BY DEF Inv, TypeOK
<1>2. run' = [run EXCEPT ![w] = r] /\ UNCHANGED <<txns, today, status, req, requests, checked>>
  BY DEF ReadCurrent
<1>3. rows \subseteq Ledger  BY <1>1 DEF CurrentDebits, DebitsWithin, Debits
<1> HIDE DEF rows
<1>4. r \in Run /\ r.saw = run[w].saw /\ r.found = run[w].found /\ r.at = run[w].at
  BY <1>1, <1>3 DEF Run
<1> HIDE DEF r
<1>5. Caught(r.saw, r.found)  BY <1>4 DEF Inv, DuplicatesCaught
<1>6. \A t \in Ledger :
          Flag("new_merchant", t) \in r.found =>
              /\ r.at > 3
              /\ t.amount < 0
              /\ \A u \in Debits(r.saw) : SameMerchant(t, u) => t.date <= u.date
  BY <1>4 DEF Inv, MerchantsFirst
<1> QED  BY <1>2, <1>4, <1>5, <1>6, RunStep

LEMMA ReadRuleStep ==
    ASSUME Inv, NEW w \in Workers, NEW tie \in Ties, ReadRule(w, tie) PROVE Inv'
<1> DEFINE i == run[w].at
<1> DEFINE new == Candidates(i, run[w], tie)
<1> DEFINE saw == IF i = 2 THEN txns ELSE run[w].saw
<1> DEFINE r == [at |-> i + 1, half |-> FALSE, rows |-> {}, day |-> FirstDay,
                 found |-> run[w].found \cup new, saw |-> saw]
<1>1. run[w] \in Run /\ txns \subseteq Ledger  BY DEF Inv, TypeOK
<1>2. i \in 1..6  BY RulesAreNamed DEF ReadRule
<1>3. run' = [run EXCEPT ![w] = r] /\ UNCHANGED <<txns, today, status, req, requests, checked>>
  BY DEF ReadRule
<1>4. new \subseteq Flags  BY <1>1, <1>2, CandidatesAreFlags DEF Inv
<1>5. r \in Run
  <2>1. i + 1 \in 0..Len(RULES) + 1  BY <1>2, RulesAreNamed
  <2>2. FirstDay \in FirstDay..LastDay  BY FlagsAssumption
  <2>3. run[w].found \cup new \subseteq Flags /\ saw \subseteq Ledger  BY <1>1, <1>4 DEF Run
  <2> HIDE DEF new, saw, i
  <2> QED  BY <2>1, <2>2, <2>3 DEF Run
<1>6. r.saw \in {{}, run[w].saw, txns} /\ r.saw \subseteq txns
  BY DEF Inv, Chain, Snapshots
<1>7. Caught(r.saw, r.found)
  <2>1. CASE i = 2
    <3>1. \A u \in DuplicateTransactions(txns, tie) : Flag("duplicate_transaction", u) \in new
      BY <2>1, RulesAreNamed DEF Candidates
    <3>2. Caught(txns, r.found)  BY <1>1, <3>1, DuplicatesAreFound
    <3> QED  BY <2>1, <3>2
  <2>2. CASE i # 2
    <3>1. Caught(run[w].saw, run[w].found)  BY DEF Inv, DuplicatesCaught
    <3> QED  BY <2>2, <3>1 DEF Caught
  <2> QED  BY <2>1, <2>2
<1>8. ASSUME NEW t \in Ledger, Flag("new_merchant", t) \in r.found
      PROVE  /\ r.at > 3
             /\ t.amount < 0
             /\ \A u \in Debits(r.saw) : SameMerchant(t, u) => t.date <= u.date
  <2>1. CASE Flag("new_merchant", t) \in run[w].found
    <3>1. /\ i > 3 /\ t.amount < 0
          /\ \A u \in Debits(run[w].saw) : SameMerchant(t, u) => t.date <= u.date
      BY <2>1 DEF Inv, MerchantsFirst
    <3> QED  BY <1>2, <3>1
  <2>2. CASE Flag("new_merchant", t) \in new
    <3>1. i = 3 /\ t \in NewMerchants(txns, tie)
      <4>1. PICK x : Flag("new_merchant", t) = Flag(RULES[i], x) /\ (i = 3 => x \in NewMerchants(txns, tie))
        BY <1>2, <2>2 DEF Candidates
      <4>2. RULES[i] = "new_merchant" /\ x = t  BY <4>1, FlagsAreDistinct
      <4>3. i = 3  BY <1>2, <4>2, RulesAreNamed
      <4> QED  BY <4>1, <4>2, <4>3
    <3>2. t \in Debits(txns) /\ \A u \in Debits(txns) : SameMerchant(t, u) => t.date <= u.date
      BY <1>1, <3>1, MerchantsAreFirst
    <3>3. Debits(r.saw) \subseteq Debits(txns)  BY <1>6 DEF Debits
    <3>4. t.amount < 0  BY <3>2 DEF Debits
    <3> QED  BY <3>1, <3>2, <3>3, <3>4
  <2> QED  BY <1>8, <2>1, <2>2
<1> HIDE DEF r
<1> QED  BY <1>3, <1>5, <1>6, <1>7, <1>8, RunStep

LEMMA RollBackStep == ASSUME Inv, NEW w \in Workers, RollBack(w) PROVE Inv'
<1>1. run' = [run EXCEPT ![w] = Idle] /\ UNCHANGED <<txns, today, status, req, requests, checked>>
  BY DEF RollBack
<1> QED  BY <1>1, IdleIsRun, RunStep

\* What a run inserts is raised, and nothing is taken back.
LEMMA RaisedGrows ==
    ASSUME Inv, NEW w \in Workers, InsertFlags(w)
    PROVE  Raised' = Raised \cup run[w].found
<1>1. run[w].found \subseteq Flags  BY DEF Inv, TypeOK, Run
<1>2. status' = [f \in Flags |->
                   IF f \in run[w].found /\ status[f] = "none" THEN "open" ELSE status[f]]
  BY DEF InsertFlags
<1> QED  BY <1>1, <1>2 DEF Raised

LEMMA InsertFlagsStep == ASSUME Inv, NEW w \in Workers, InsertFlags(w) PROVE Inv'
<1>1. /\ status' = [f \in Flags |->
                      IF f \in run[w].found /\ status[f] = "none" THEN "open" ELSE status[f]]
      /\ checked' = checked \cup run[w].saw
      /\ run' = [run EXCEPT ![w] = Idle]
      /\ UNCHANGED <<txns, today, req, requests>>
  BY DEF InsertFlags
<1>2. /\ run \in [Workers -> Run] /\ status \in [Flags -> Statuses \cup {"none"}]
      /\ checked \subseteq Ledger /\ run[w].saw \subseteq Ledger
  BY DEF Inv, TypeOK, Run
<1>3. run'[w] = Idle /\ \A v \in Workers \ {w} : run'[v] = run[v]  BY <1>1, <1>2
<1>4. Raised' = Raised \cup run[w].found  BY RaisedGrows
<1>5. TypeOK'
  <2>1. status' \in [Flags -> Statuses \cup {"none"}]  BY <1>1, <1>2 DEF Statuses
  <2> QED  BY <1>1, <1>2, <2>1, IdleIsRun DEF Inv, TypeOK
<1>6. checked' \in {checked, run[w].saw}  BY <1>1 DEF Inv, Chain, Snapshots
<1>7. Chain'
  <2>1. Snapshots' \subseteq Snapshots \cup {{}}  BY <1>3, <1>6, IdleIsRun DEF Snapshots
  <2> QED  BY <1>1, <2>1 DEF Inv, Chain
<1>8. DuplicatesCaught'
  <2>1. Caught(checked, Raised) /\ Caught(run[w].saw, run[w].found)
    BY DEF Inv, DuplicatesCaught
  <2>2. Caught(checked', Raised')  BY <1>4, <1>6, <2>1 DEF Caught
  <2>3. \A v \in Workers : Caught(run'[v].saw, run'[v].found)
    BY <1>3, IdleIsRun DEF Inv, DuplicatesCaught
  <2> QED  BY <2>2, <2>3 DEF DuplicatesCaught
<1>9. MerchantsFirst'  BY <1>3, <1>4, IdleIsRun DEF Inv, MerchantsFirst
<1>10. Loaded'  BY <1>1, <1>2 DEF Inv, Loaded, TypeOK, Request, NoRequest
<1> QED  BY <1>5, <1>7, <1>8, <1>9, <1>10 DEF Inv

LEMMA DetectStep == ASSUME Inv, NEW w \in Workers, Detect(w) PROVE Inv'
BY BeginStep, ReadCurrentStep, ReadRuleStep, InsertFlagsStep, RollBackStep DEF Detect
-----------------------------------------------------------------------------
(* The members' requests *)

\* A request's step that changes at most the status of a flag that is about
\* nothing the runs' invariants speak of, or was raised before.
LEMMA RequestStep ==
    ASSUME Inv, NEW m \in Clients, NEW q \in Request \cup {NoRequest}, req' = [req EXCEPT ![m] = q],
           requests' \in Nat, UNCHANGED <<txns, today, run, checked>>,
           status' \in [Flags -> Statuses \cup {"none"}],
           \A f \in Flags : status[f] # "none" => status'[f] # "none",
           \A t \in Ledger :
               status[Flag("new_merchant", t)] = "none" => status'[Flag("new_merchant", t)] = "none",
           q.pc = "flagging" => q.flag.rule = "manual" /\ q.wants = "open",
           q.pc = "reviewing" => q.was # "none" /\ status'[q.flag] # "none"
    PROVE  Inv'
<1>1. req'[m] = q /\ \A o \in Clients \ {m} : req'[o] = req[o]  BY DEF Inv, TypeOK
<1>2. TypeOK'  BY DEF Inv, TypeOK
<1>3. Chain'  BY DEF Inv, Chain, Snapshots
<1>4. Raised \subseteq Raised'  BY DEF Raised
<1>5. DuplicatesCaught'  BY <1>4 DEF Inv, DuplicatesCaught, Caught
<1>6. MerchantsFirst'  BY FlagsOfTransactions DEF Inv, MerchantsFirst, Raised
<1>7. Loaded'
  <2>1. \A o \in Clients : req[o].pc = "reviewing" => req[o].flag \in Flags
    BY DEF Inv, TypeOK, Request, NoRequest
  <2> QED  BY <1>1, <2>1 DEF Inv, Loaded
<1> QED  BY <1>2, <1>3, <1>5, <1>6, <1>7 DEF Inv

LEMMA LoadStep ==
    ASSUME Inv, NEW m \in Clients, NEW pc \in {"flagging", "reviewing", "explaining"},
           NEW f \in Flags, NEW s \in Statuses, Load(m, pc, f, s),
           pc = "flagging" => f.rule = "manual" /\ s = "open",
           pc = "reviewing" => status[f] # "none"
    PROVE  Inv'
<1> DEFINE q == [pc |-> pc, flag |-> f, was |-> status[f], wants |-> s]
<1>1. /\ req' = [req EXCEPT ![m] = q] /\ requests' \in Nat
      /\ UNCHANGED <<txns, today, status, run, checked>>
  BY DEF Load, Inv, TypeOK
<1>2. q \in Request  BY DEF Inv, TypeOK, Request
<1>3. status' \in [Flags -> Statuses \cup {"none"}]  BY <1>1 DEF Inv, TypeOK
<1>4. q.pc = pc /\ q.flag = f /\ q.was = status[f] /\ q.wants = s  OBVIOUS
<1> HIDE DEF q
<1> QED  BY <1>1, <1>2, <1>3, <1>4, RequestStep

\* The end of a request that writes s as the status of its flag, or nothing.
LEMMA AnswerStep ==
    ASSUME Inv, NEW m \in Clients, req[m].pc # "idle", Answer(m), NEW s \in Statuses,
           UNCHANGED <<txns, today, run, requests, checked>>,
           status' = status \/ status' = [status EXCEPT ![req[m].flag] = s],
           req[m].pc = "flagging" \/ req[m].pc = "reviewing" \/ status' = status
    PROVE  Inv'
<1>1. req' = [req EXCEPT ![m] = NoRequest] /\ NoRequest.pc = "idle"  BY DEF Answer, NoRequest
<1>2. /\ req[m] \in Request /\ status \in [Flags -> Statuses \cup {"none"}] /\ requests \in Nat
      /\ "none" \notin Statuses
  BY DEF Inv, TypeOK, NoRequest, Statuses
<1>3. req[m].flag \in Flags  BY <1>2 DEF Request
<1>4. status' \in [Flags -> Statuses \cup {"none"}]  BY <1>2
<1>5. \A f \in Flags : status[f] # "none" => status'[f] # "none"  BY <1>2, <1>3
<1>6. ASSUME NEW t \in Ledger, status[Flag("new_merchant", t)] = "none"
      PROVE  status'[Flag("new_merchant", t)] = "none"
  <2>1. Flag("new_merchant", t) # req[m].flag \/ status' = status
    BY <1>6 DEF Inv, Loaded, Flag
  <2> QED  BY <1>2, <1>6, <2>1, FlagsOfTransactions
<1> QED  BY <1>1, <1>2, <1>4, <1>5, <1>6, RequestStep

LEMMA ServeStep == ASSUME Inv, NEW m \in Clients, Serve(m) PROVE Inv'
<1>1. "open" \in Statuses /\ Handled \subseteq Flags  BY HandledAssumption DEF Statuses
<1>2. CASE LoadForReview(m)  BY <1>1, <1>2, LoadStep DEF LoadForReview
<1>3. CASE LoadForExplain(m)  BY <1>1, <1>3, LoadStep DEF LoadForExplain
<1>4. CASE LoadForFlag(m)  BY <1>1, <1>4, LoadStep DEF LoadForFlag
<1>5. CASE Review(m)
  <2>1. req[m] \in Request  BY <1>5 DEF Review, Inv, TypeOK, NoRequest
  <2>2. req[m].wants \in Statuses  BY <2>1 DEF Request
  <2> QED  BY <1>5, <2>2, AnswerStep DEF Review
<1>6. CASE Explain(m)  BY <1>1, <1>6, AnswerStep DEF Explain
<1>7. CASE FlagTransaction(m)  BY <1>1, <1>7, AnswerStep DEF FlagTransaction
<1>8. CASE Fail(m)  BY <1>1, <1>8, AnswerStep DEF Fail
<1> QED  BY <1>2, <1>3, <1>4, <1>5, <1>6, <1>7, <1>8 DEF Serve

-----------------------------------------------------------------------------
(* The specification *)

LEMMA InvInit == Init => Inv
<1> SUFFICES ASSUME Init PROVE Inv  OBVIOUS
<1>1. /\ txns = Stored /\ today = FirstDay /\ status = [f \in Flags |-> "none"]
      /\ run = [w \in Workers |-> Idle] /\ req = [m \in Clients |-> NoRequest]
      /\ requests = 0 /\ checked = {}
  BY DEF Init
<1>2. TypeOK
  <2>1. FirstDay \in FirstDay..LastDay /\ Stored \subseteq Ledger  BY FlagsAssumption
  <2> QED  BY <1>1, <2>1, IdleIsRun DEF TypeOK
<1>3. Chain  BY <1>1, IdleIsRun DEF Chain, Snapshots
<1>4. Raised = {}  BY <1>1 DEF Raised
<1>5. DuplicatesCaught  BY <1>1, IdleIsRun DEF DuplicatesCaught
<1>6. MerchantsFirst  BY <1>1, <1>4, IdleIsRun DEF MerchantsFirst
<1>7. Loaded  BY <1>1 DEF Loaded, NoRequest
<1> QED  BY <1>2, <1>3, <1>5, <1>6, <1>7 DEF Inv

LEMMA InvNext == Inv /\ [Next]_vars => Inv'
<1> SUFFICES ASSUME Inv, [Next]_vars PROVE Inv'  OBVIOUS
<1>1. ASSUME NEW b \in Batches, Sync(b) PROVE Inv'
  <2>1. /\ txns' = txns \cup b /\ b \subseteq Ledger
        /\ UNCHANGED <<today, status, run, req, requests, checked>>
    BY <1>1, FlagsAssumption DEF Sync
  <2>2. TypeOK'  BY <2>1 DEF Inv, TypeOK
  <2>3. Chain'  BY <2>1 DEF Inv, Chain, Snapshots
  <2>4. DuplicatesCaught' /\ MerchantsFirst' /\ Loaded'
    BY <2>1 DEF Inv, DuplicatesCaught, MerchantsFirst, Loaded, Raised
  <2> QED  BY <2>2, <2>3, <2>4 DEF Inv
<1>2. CASE NextDay
  <2>1. /\ today' \in FirstDay..LastDay
        /\ UNCHANGED <<txns, status, run, req, requests, checked>>
    BY <1>2, FlagsAssumption DEF NextDay, Inv, TypeOK
  <2>2. TypeOK'  BY <2>1 DEF Inv, TypeOK
  <2> QED  BY <2>1, <2>2 DEF Inv, Chain, Snapshots, DuplicatesCaught, MerchantsFirst, Loaded, Raised
<1>3. CASE UNCHANGED vars
  BY <1>3 DEF vars, Inv, TypeOK, Chain, Snapshots, DuplicatesCaught, MerchantsFirst, Loaded, Raised
<1> QED  BY <1>1, <1>2, <1>3, DetectStep, ServeStep DEF Next

\* Every variable keeps its type: every rule finds flags of its own kind.
THEOREM TypeCorrect == Spec => []TypeOK
<1>1. Inv => TypeOK  BY DEF Inv
<1> QED  BY <1>1, InvInit, InvNext, PTL DEF Spec

\* Two equal charges that one run has read never both go without a flag, in
\* whatever batches they came and however the database ordered them.
THEOREM DuplicatesAreFlagged == Spec => []EveryDuplicateFlagged
<1>1. Inv => EveryDuplicateFlagged
  BY DEF Inv, DuplicatesCaught, Caught, Raised, EveryDuplicateFlagged
<1> QED  BY <1>1, InvInit, InvNext, PTL DEF Spec

\* Only a member's request changes the status of a flag there is.
THEOREM ReviewsSurvive == Spec => OnlyMembersReview
<1>1. Inv /\ [Next]_vars =>
          [\A f \in Flags :
              status[f] # "none" /\ status'[f] # status[f] =>
                  \E m \in Clients :
                      /\ req[m].pc = "reviewing" \/ (req[m].pc = "flagging" /\ f.rule = "manual")
                      /\ req[m].flag = f
                      /\ status'[f] = req[m].wants]_vars
  <2> SUFFICES ASSUME Inv, Next, NEW f \in Flags, status[f] # "none", status'[f] # status[f]
               PROVE  \E m \in Clients :
                          /\ req[m].pc = "reviewing" \/ (req[m].pc = "flagging" /\ f.rule = "manual")
                          /\ req[m].flag = f
                          /\ status'[f] = req[m].wants
    OBVIOUS
  <2>1. status \in [Flags -> Statuses \cup {"none"}]  BY DEF Inv, TypeOK
  <2>2. ASSUME NEW w \in Workers, Detect(w) PROVE FALSE
    BY <2>1, <2>2 DEF Detect, Begin, ReadCurrent, ReadRule, InsertFlags, RollBack
  <2>3. ASSUME NEW b \in Batches, Sync(b) PROVE FALSE  BY <2>3 DEF Sync
  <2>4. ~NextDay  BY DEF NextDay
  <2>5. PICK m \in Clients : Serve(m)  BY <2>2, <2>3, <2>4 DEF Next
  <2>6. Review(m) \/ FlagTransaction(m)
    BY <2>5 DEF Serve, LoadForReview, LoadForExplain, LoadForFlag, Load, Explain, Fail
  <2>7. CASE Review(m)  BY <2>1, <2>7 DEF Review
  <2>8. CASE FlagTransaction(m)
    <3>1. req[m].flag.rule = "manual" /\ req[m].wants = "open"
      BY <2>8 DEF FlagTransaction, Inv, Loaded
    <3> QED  BY <2>1, <2>8, <3>1 DEF FlagTransaction
  <2> QED  BY <2>6, <2>7, <2>8
<1> QED  BY <1>1, InvInit, InvNext, PTL DEF Spec, OnlyMembersReview

\* Who takes a dismissal back has found the flag dismissed.
THEOREM ReopenersHaveSeen == Spec => DismissalsAreSeen
<1>1. Inv /\ [Next]_vars =>
          [\A f \in Flags :
              status[f] = "dismissed" /\ status'[f] # "dismissed" =>
                  \E m \in Clients :
                      req[m].pc # "idle" /\ req[m].flag = f /\ req[m].was = "dismissed"]_vars
  <2> SUFFICES ASSUME Inv, Next, NEW f \in Flags, status[f] = "dismissed", status'[f] # "dismissed"
               PROVE  \E m \in Clients :
                          req[m].pc # "idle" /\ req[m].flag = f /\ req[m].was = "dismissed"
    OBVIOUS
  <2>1. status \in [Flags -> Statuses \cup {"none"}]  BY DEF Inv, TypeOK
  <2>2. ASSUME NEW w \in Workers, Detect(w) PROVE FALSE
    BY <2>1, <2>2 DEF Detect, Begin, ReadCurrent, ReadRule, InsertFlags, RollBack
  <2>3. ASSUME NEW b \in Batches, Sync(b) PROVE FALSE  BY <2>3 DEF Sync
  <2>4. ~NextDay  BY DEF NextDay
  <2>5. PICK m \in Clients : Serve(m)  BY <2>2, <2>3, <2>4 DEF Next
  <2>6. Review(m) \/ FlagTransaction(m)
    BY <2>5 DEF Serve, LoadForReview, LoadForExplain, LoadForFlag, Load, Explain, Fail
  <2>7. /\ req[m].pc # "idle"
        /\ req[m].was \in Statuses \cup {"none"} /\ req[m].wants \in Statuses
    BY <2>6 DEF Inv, TypeOK, Request, NoRequest, Review, FlagTransaction
  <2>8. req[m].flag = f
    BY <2>1, <2>6 DEF Review, FlagTransaction
  <2>9. CASE Review(m)
    <3>1. req[m].was # "none"  BY <2>9 DEF Review, Inv, Loaded
    <3>2. req[m].wants # req[m].was /\ status'[f] = req[m].wants
      BY <2>1, <2>8, <2>9 DEF Review
    <3> QED  BY <2>7, <2>8, <3>1, <3>2 DEF Statuses
  <2>10. CASE FlagTransaction(m)
    BY <2>1, <2>7, <2>8, <2>10 DEF FlagTransaction, Statuses
  <2> QED  BY <2>6, <2>9, <2>10
<1> QED  BY <1>1, InvInit, InvNext, PTL DEF Spec, DismissalsAreSeen

\* Of what a run has read, it raises no merchant's flag on a transaction later
\* than another flagged one of that merchant.
THEOREM MerchantsFlaggedInOrder == Spec => FirstOfItsMerchant
<1>1. Inv /\ [Next]_vars =>
          [\A w \in Workers :
              InsertFlags(w) =>
                  \A t, u \in run[w].saw :
                      /\ t.text = u.text /\ Connection(t) = Connection(u)
                      /\ status[Flag("new_merchant", t)] = "none"
                      /\ status'[Flag("new_merchant", t)] # "none"
                      /\ status'[Flag("new_merchant", u)] # "none"
                      => t.date <= u.date]_vars
  <2> SUFFICES ASSUME Inv, NEW w \in Workers, InsertFlags(w),
                      NEW t \in run[w].saw, NEW u \in run[w].saw, SameMerchant(t, u),
                      status[Flag("new_merchant", t)] = "none",
                      status'[Flag("new_merchant", t)] # "none",
                      status'[Flag("new_merchant", u)] # "none"
               PROVE  t.date <= u.date
    BY DEF SameMerchant
  <2>1. t \in Ledger /\ u \in Ledger  BY DEF Inv, TypeOK, Run
  <2>2. Flag("new_merchant", t) \in Flags /\ Flag("new_merchant", u) \in Flags
    BY <2>1, FlagsOfTransactions
  <2>3. Raised' = Raised \cup run[w].found  BY RaisedGrows
  <2>4. Flag("new_merchant", t) \in run[w].found  BY <2>2, <2>3 DEF Raised
  <2>5. u.amount < 0  BY <2>1, <2>2, <2>3 DEF Raised, Inv, MerchantsFirst
  <2>6. u \in Debits(run[w].saw)  BY <2>5 DEF Debits
  <2> QED  BY <2>1, <2>4, <2>6 DEF Inv, MerchantsFirst
<1> QED  BY <1>1, InvInit, InvNext, PTL DEF Spec, FirstOfItsMerchant

\* What the rules find at one bank is what they would find without the others,
\* in any table.
LEMMA BanksAreApart ==
    ASSUME NEW T \in SUBSET Ledger, NEW tie, NEW day, NEW c
    PROVE  LET own == {t \in T : Connection(t) = c}
           IN /\ {t \in LargeTransactions(T, day, tie) : Connection(t) = c}
                     = LargeTransactions(own, day, tie)
              /\ {t \in NewMerchants(T, tie) : Connection(t) = c} = NewMerchants(own, tie)
<1> DEFINE own == {t \in T : Connection(t) = c}
<1>1. ASSUME NEW t \in T, Connection(t) = c
      PROVE  /\ SameBank(Debits(own), t) = SameBank(Debits(T), t)
             /\ \A since : SameBank(DebitsSince(own, since), t) = SameBank(DebitsSince(T, since), t)
  BY <1>1 DEF SameBank, Debits, DebitsSince
<1>2. {t \in LargeTransactions(T, day, tie) : Connection(t) = c} = LargeTransactions(own, day, tie)
  <2> DEFINE Large(S, t) ==
         LET prior == Earlier(SameBank(DebitsSince(S, day - LargeWindowDays), t), t, tie)
         IN /\ Cardinality(prior) >= LargeMinSample
            /\ StandsOut(Spent(t), Cardinality(prior), TotalSpent(prior), SquaresSpent(prior))
  <2>1. \A S : LargeTransactions(S, day, tie)
                  = {t \in DebitsSince(S, day - LargeWindowDays) : Large(S, t)}
    BY DEF LargeTransactions
  <2>2. \A t \in T : Connection(t) = c => (Large(T, t) <=> Large(own, t))  BY <1>1
  <2>3. DebitsSince(own, day - LargeWindowDays)
            = {t \in DebitsSince(T, day - LargeWindowDays) : Connection(t) = c}
    BY DEF DebitsSince, Debits
  <2>4. DebitsSince(T, day - LargeWindowDays) \subseteq T  BY DEF DebitsSince, Debits
  <2> HIDE DEF Large, own
  <2> QED  BY <2>1, <2>2, <2>3, <2>4
<1>3. {t \in NewMerchants(T, tie) : Connection(t) = c} = NewMerchants(own, tie)
  <2> DEFINE New(S, t) ==
         /\ t.text # NoText
         /\ \A o \in Earlier(SameBank(Debits(S), t), t, tie) : o.text # t.text
         /\ Spent(t) > MerchantMinAmount
         /\ \E o \in SameBank(Debits(S), t) : t.date - o.date >= MerchantMinHistoryDays
  <2>1. \A S : NewMerchants(S, tie) = {t \in Debits(S) : New(S, t)}  BY DEF NewMerchants
  <2>2. \A t \in T : Connection(t) = c => (New(T, t) <=> New(own, t))  BY <1>1
  <2>3. Debits(own) = {t \in Debits(T) : Connection(t) = c} /\ Debits(T) \subseteq T  BY DEF Debits
  <2> HIDE DEF New, own
  <2> QED  BY <2>1, <2>2, <2>3
<1> QED  BY <1>2, <1>3

\* No run's baseline for one bank ever holds what another bank reported.
THEOREM BaselinesStayApart == Spec => []BaselinesApart
<1>1. Inv => BaselinesApart
  <2> SUFFICES ASSUME Inv, NEW tie \in Ties, NEW c
               PROVE  LET own == {t \in txns : Connection(t) = c}
                          at(S) == {t \in S : Connection(t) = c}
                      IN /\ at(LargeTransactions(txns, today, tie)) = LargeTransactions(own, today, tie)
                         /\ at(NewMerchants(txns, tie)) = NewMerchants(own, tie)
    BY DEF BaselinesApart
  <2>1. txns \in SUBSET Ledger  BY DEF Inv, TypeOK
  <2> QED  BY <2>1, BanksAreApart
<1> QED  BY <1>1, InvInit, InvNext, PTL DEF Spec
=============================================================================
