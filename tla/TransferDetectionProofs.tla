---------------------- MODULE TransferDetectionProofs ----------------------
(***************************************************************************)
(* Theorems about TransferDetection, for every set of transactions, every  *)
(* window and every number of workers, and, as long as no two runs         *)
(* overlap, for the pairing itself and for the total of what is left when  *)
(* transfers are taken out.                                                *)
(***************************************************************************)
EXTENDS TransferDetection, SumTheorems

-----------------------------------------------------------------------------
(* The inductive invariants *)

\* The pairs of a run are counterparts among the rows it read; no row is in two
\* of them; a debit the loop has passed has its pair, or every counterpart it
\* could have had is taken.
PairsSound(r) ==
    /\ r.left \subseteq Debits(r.seen)
    /\ \A p \in r.pairs :
           /\ p[1] \in Debits(r.seen) \ r.left
           /\ p[2] \in Credits(r.seen)
           /\ Counterparts(p[1], p[2])
    /\ \A p, q \in r.pairs : p # q => p[1] # q[1] /\ p[2] # q[2]
    /\ \A d \in Debits(r.seen) \ r.left, c \in r.seen :
           Counterparts(d, c) => d \in Legs(r.pairs) \/ c \in Legs(r.pairs)

RunSound(r, marked) ==
    /\ r \in Run
    /\ PairsSound(r)
    /\ r.pc = "done" => r.left = {} /\ Legs(r.pairs) \subseteq marked

\* With any number of workers.
IInv ==
    /\ TypeOK
    /\ \A w \in Workers : RunSound(run[w], isTransfer)
    /\ NoLegAlone

\* Without an overlap: what a run is looking at is not marked meanwhile.
SeqInv ==
    /\ IInv
    /\ ~overlap =>
           /\ MarkedInPairs
           /\ \A w \in Workers : run[w].pc = "matching" => run[w].seen \cap isTransfer = {}
           /\ \A v, w \in Workers : run[v].pc = "matching" /\ run[w].pc = "matching" => v = w

-----------------------------------------------------------------------------
(* The matching *)

\* A run without pairs is sound before its first debit.
LEMMA FreshRun ==
    ASSUME NEW S \in SUBSET Transactions, NEW marked
    PROVE  RunSound([pc |-> "matching", seen |-> S, left |-> Debits(S), pairs |-> {}], marked)
BY DEF RunSound, PairsSound, Run, Debits

\* A worker without a run knows nothing that could be wrong.
LEMMA IdleRun == ASSUME NEW marked PROVE RunSound(Idle, marked)
BY DEF RunSound, PairsSound, Run, Idle, Debits

\* What _find_match accepts is a counterpart that no pair has taken, and it
\* passes over no such row.
LEMMA EligibleAreCounterparts ==
    ASSUME NEW r \in Run, NEW d \in Debits(r.seen), NEW c \in r.seen
    PROVE  c \in Eligible(d, r) <=> Counterparts(d, c) /\ c \notin Legs(r.pairs)
<1>1. /\ Amount[c] \in Int /\ Amount[d] \in Int /\ Day[c] \in Int /\ Day[d] \in Int
      /\ TransferMatchWindowDays \in Nat
  BY TransferAssumption DEF Run, Debits
<1>2. DateGap(d, c) <= TransferMatchWindowDays
        <=> Day[c] - Day[d] \in -TransferMatchWindowDays..TransferMatchWindowDays
  BY <1>1 DEF DateGap
<1>3. Amount[d] < 0
  BY DEF Debits
<1>4. Amount[c] = -Amount[d] <=> Amount[d] + Amount[c] = 0
  BY <1>1
<1>5. Amount[c] = -Amount[d] => Amount[c] > 0
  BY <1>1, <1>3
<1>. QED
  BY <1>2, <1>3, <1>4, <1>5 DEF Eligible, Counterparts, Credits

\* A round that finds a match keeps the run sound.
LEMMA MatchFound ==
    ASSUME NEW r \in Run, NEW marked, RunSound(r, marked), r.pc = "matching",
           NEW d \in r.left, NEW c \in Eligible(d, r)
    PROVE  RunSound([r EXCEPT !.left = @ \ {d}, !.pairs = @ \cup {<<d, c>>}], marked)
<1>. DEFINE n == [r EXCEPT !.left = @ \ {d}, !.pairs = @ \cup {<<d, c>>}]
<1>1. d \in Debits(r.seen) /\ c \in Credits(r.seen) /\ c \in r.seen
  BY DEF RunSound, PairsSound, Eligible, Credits
<1>2. Counterparts(d, c) /\ c \notin Legs(r.pairs)
  BY <1>1, EligibleAreCounterparts
<1>3. /\ n.pc = "matching" /\ n.seen = r.seen /\ n.left = r.left \ {d}
      /\ n.pairs = r.pairs \cup {<<d, c>>}
  BY DEF Run
<1>4. n \in Run
  <2>1. <<d, c>> \in Transactions \X Transactions
    BY <1>1 DEF Run, Debits, Credits
  <2>2. n.pairs \subseteq Transactions \X Transactions
    BY <1>3, <2>1 DEF Run
  <2>3. DOMAIN n = {"pc", "seen", "left", "pairs"}
    BY DEF Run
  <2>. QED
    BY <1>3, <2>2, <2>3 DEF Run
<1>5. \A p \in r.pairs : p[1] # d /\ p[2] # c
  BY <1>2 DEF RunSound, PairsSound, Legs
<1>6. Legs(n.pairs) = Legs(r.pairs) \cup {d, c}
  <2>1. ASSUME NEW t PROVE t \in Legs(n.pairs) <=> t \in Legs(r.pairs) \cup {d, c}
    <3>. HIDE DEF n
    <3>1. t \in Legs(n.pairs) <=> \E p \in r.pairs \cup {<<d, c>>} : t = p[1] \/ t = p[2]
      BY <1>3 DEF Legs
    <3>2. t \in Legs(r.pairs) <=> \E p \in r.pairs : t = p[1] \/ t = p[2]
      BY DEF Legs
    <3>3. <<d, c>>[1] = d /\ <<d, c>>[2] = c
      OBVIOUS
    <3>4. (\E p \in r.pairs \cup {<<d, c>>} : t = p[1] \/ t = p[2])
            <=> (\E p \in r.pairs : t = p[1] \/ t = p[2]) \/ t = d \/ t = c
      BY <3>3, Zenon
    <3>. QED
      BY <3>1, <3>2, <3>4, Zenon
  <2>. QED
    BY <2>1
<1>7. PairsSound(n)
  <2>1. n.left \subseteq Debits(n.seen)
    BY <1>3 DEF RunSound, PairsSound
  <2>2. \A p \in n.pairs : /\ p[1] \in Debits(n.seen) \ n.left
                           /\ p[2] \in Credits(n.seen)
                           /\ Counterparts(p[1], p[2])
    BY <1>1, <1>2, <1>3 DEF RunSound, PairsSound
  <2>3. \A p, q \in n.pairs : p # q => p[1] # q[1] /\ p[2] # q[2]
    BY <1>3, <1>5 DEF RunSound, PairsSound
  <2>4. \A x \in Debits(n.seen) \ n.left, y \in n.seen :
            Counterparts(x, y) => x \in Legs(n.pairs) \/ y \in Legs(n.pairs)
    BY <1>3, <1>6 DEF RunSound, PairsSound
  <2>. QED
    BY <2>1, <2>2, <2>3, <2>4 DEF PairsSound
<1>. QED
  BY <1>3, <1>4, <1>7 DEF RunSound

\* A round that finds none passes a debit whose counterparts are all taken.
LEMMA NoMatch ==
    ASSUME NEW r \in Run, NEW marked, RunSound(r, marked), r.pc = "matching",
           NEW d \in r.left, Eligible(d, r) = {}
    PROVE  RunSound([r EXCEPT !.left = @ \ {d}], marked)
<1>. DEFINE n == [r EXCEPT !.left = @ \ {d}]
<1>1. d \in Debits(r.seen)
  BY DEF RunSound, PairsSound
<1>2. /\ n.pc = "matching" /\ n.seen = r.seen /\ n.left = r.left \ {d}
      /\ n.pairs = r.pairs /\ n \in Run
  BY DEF Run
<1>3. \A y \in r.seen : Counterparts(d, y) => y \in Legs(r.pairs)
  BY <1>1, EligibleAreCounterparts
<1>4. PairsSound(n)
  BY <1>2, <1>3 DEF RunSound, PairsSound
<1>. QED
  BY <1>2, <1>4 DEF RunSound

-----------------------------------------------------------------------------
(* The steps *)

\* What is sound stays sound when more rows are marked.
LEMMA MarkedGrows ==
    ASSUME NEW r, NEW marked, NEW more, marked \subseteq more, RunSound(r, marked)
    PROVE  RunSound(r, more)
BY DEF RunSound

\* A step that only replaces one run by a sound one keeps the invariant.
LEMMA RunStep ==
    ASSUME IInv, NEW w \in Workers, NEW r, RunSound(r, isTransfer),
           run' = [run EXCEPT ![w] = r], UNCHANGED <<createdAt, isTransfer, paired>>,
           overlap' \in BOOLEAN
    PROVE  IInv'
<1>1. \A v \in Workers : RunSound(run'[v], isTransfer)
  BY DEF IInv, TypeOK
<1>2. TypeOK'
  BY DEF IInv, TypeOK, RunSound
<1>3. \A v \in Workers : RunSound(run[v], isTransfer)'
  BY <1>1 DEF RunSound, PairsSound
<1>. QED
  BY <1>2, <1>3 DEF IInv, NoLegAlone

\* A commit marks both legs of the pairs of a sound run.
LEMMA CommitStep ==
    ASSUME IInv, NEW w \in Workers, Commit(w)
    PROVE  IInv'
<1>. DEFINE r == run[w]
            n == [r EXCEPT !.pc = "done"]
<1>1. RunSound(r, isTransfer) /\ r \in Run /\ run \in [Workers -> Run]
  BY DEF IInv, TypeOK
<1>2. run' = [run EXCEPT ![w] = n] /\ isTransfer' = isTransfer \cup Legs(r.pairs)
  BY <1>1 DEF Commit
<1>3. n.pc = "done" /\ n.seen = r.seen /\ n.left = r.left /\ n.pairs = r.pairs /\ n \in Run
  BY <1>1 DEF Run
<1>4. Legs(r.pairs) \subseteq Transactions
  BY <1>1 DEF Run, Legs
<1>5. RunSound(n, isTransfer')
  BY <1>1, <1>2, <1>3 DEF RunSound, PairsSound, Commit
<1>6. \A v \in Workers : RunSound(run[v], isTransfer')
  BY <1>2, MarkedGrows DEF IInv
<1>7. \A v \in Workers : RunSound(run'[v], isTransfer')
  BY <1>1, <1>2, <1>5, <1>6
<1>8. TypeOK'
  <2>1. paired' \subseteq Transactions \X Transactions
    BY <1>1 DEF Commit, IInv, TypeOK, Run
  <2>. QED
    BY <1>1, <1>2, <1>3, <1>4, <2>1 DEF Commit, IInv, TypeOK
<1>9. NoLegAlone'
  <2>1. ASSUME NEW t \in isTransfer'
        PROVE  \E u \in isTransfer' : Counterparts(t, u) \/ Counterparts(u, t)
    <3>1. CASE t \in isTransfer
      BY <1>2, <3>1 DEF IInv, NoLegAlone
    <3>2. CASE t \in Legs(r.pairs)
      <4>1. PICK p \in r.pairs : t = p[1] \/ t = p[2]
        BY <3>2 DEF Legs
      <4>2. Counterparts(p[1], p[2]) /\ p[1] \in isTransfer' /\ p[2] \in isTransfer'
        BY <1>1, <1>2 DEF RunSound, PairsSound, Legs
      <4>. QED
        BY <4>1, <4>2
    <3>. QED
      BY <1>2, <2>1, <3>1, <3>2
  <2>2. \A t \in isTransfer' : \E u \in isTransfer' : Counterparts(t, u) \/ Counterparts(u, t)
    BY <2>1
  <2>. QED
    BY <2>2 DEF NoLegAlone, Counterparts
<1>. QED
  BY <1>7, <1>8, <1>9 DEF IInv, RunSound, PairsSound

\* The invariant holds at the start.
LEMMA InvInit == Init => IInv
<1>. SUFFICES ASSUME Init PROVE IInv
  OBVIOUS
<1>1. RunSound(Idle, isTransfer)
  BY IdleRun
<1>2. TypeOK
  BY <1>1 DEF Init, TypeOK, RunSound
<1>3. \A w \in Workers : run[w] = Idle
  BY DEF Init
<1>. QED
  BY <1>1, <1>2, <1>3 DEF Init, IInv, NoLegAlone

\* Every step keeps the invariant.
LEMMA InvNext == IInv /\ [Next]_vars => IInv'
<1>. SUFFICES ASSUME IInv, [Next]_vars PROVE IInv'
  OBVIOUS
<1>1. ASSUME NEW S \in SUBSET Transactions, UpsertTransactions(S) PROVE IInv'
  BY <1>1 DEF UpsertTransactions, IInv, TypeOK, NoLegAlone
<1>2. ASSUME NEW w \in Workers, ReadUnmatched(w) PROVE IInv'
  <2>1. Unmatched \in SUBSET Transactions
    BY DEF Unmatched, Stored
  <2>2. overlap' \in BOOLEAN
    BY <1>2 DEF ReadUnmatched, IInv, TypeOK
  <2>. QED
    BY <1>2, <2>1, <2>2, FreshRun, RunStep DEF ReadUnmatched
<1>3. ASSUME NEW w \in Workers, MatchDebit(w) PROVE IInv'
  <2>1. run \in [Workers -> Run] /\ run[w] \in Run /\ RunSound(run[w], isTransfer)
    BY DEF IInv, TypeOK
  <2>2. /\ run[w].pc = "matching" /\ UNCHANGED <<createdAt, isTransfer, paired>>
        /\ overlap' \in BOOLEAN
    BY <1>3 DEF MatchDebit, IInv, TypeOK
  <2>3. ASSUME NEW d \in run[w].left, NEW c \in Eligible(d, run[w]),
               run' = [run EXCEPT ![w].left = @ \ {d}, ![w].pairs = @ \cup {<<d, c>>}]
        PROVE  IInv'
    <3>. DEFINE r == [run[w] EXCEPT !.left = @ \ {d}, !.pairs = @ \cup {<<d, c>>}]
    <3>1. RunSound(r, isTransfer)
      BY <2>1, <2>2, MatchFound
    <3>2. run' = [run EXCEPT ![w] = r]
      BY <2>1, <2>3 DEF Run
    <3>. QED
      BY <2>2, <3>1, <3>2, RunStep
  <2>4. ASSUME NEW d \in run[w].left, Eligible(d, run[w]) = {},
               run' = [run EXCEPT ![w].left = @ \ {d}]
        PROVE  IInv'
    <3>. DEFINE r == [run[w] EXCEPT !.left = @ \ {d}]
    <3>1. RunSound(r, isTransfer)
      BY <2>1, <2>2, <2>4, NoMatch
    <3>2. run' = [run EXCEPT ![w] = r]
      BY <2>1, <2>4
    <3>. QED
      BY <2>2, <3>1, <3>2, RunStep
  <2>. QED
    BY <1>3, <2>3, <2>4 DEF MatchDebit, First
<1>4. ASSUME NEW w \in Workers, RollBack(w) PROVE IInv'
  BY <1>4, IdleRun, RunStep DEF RollBack, IInv, TypeOK
<1>5. CASE UNCHANGED vars
  BY <1>5 DEF vars, IInv, TypeOK, NoLegAlone
<1>. QED
  BY <1>1, <1>2, <1>3, <1>4, <1>5, CommitStep DEF Next, Detect

\* The invariant holds in every reachable state.
THEOREM Invariant == Spec => []IInv
BY InvInit, InvNext, PTL DEF Spec

\* Every variable keeps its type.
THEOREM TypeCorrect == Spec => []TypeOK
BY Invariant, PTL DEF IInv

\* However many workers run the detection at once, a marked row has a marked
\* counterpart.
THEOREM MarkedRowsHaveCounterparts == Spec => []NoLegAlone
BY Invariant, PTL DEF IInv

\* The greedy loop of detect_internal_transfers leaves no pair behind that it
\* could have made.
THEOREM MatchingIsExhaustive == Spec => []NothingLeftToMatch
<1>1. IInv => NothingLeftToMatch
  <2>. SUFFICES ASSUME IInv, NEW w \in Workers, run[w].pc = "done",
                       NEW d \in run[w].seen, NEW c \in run[w].seen, Counterparts(d, c)
                PROVE  d \in isTransfer \/ c \in isTransfer
    BY DEF NothingLeftToMatch
  <2>1. RunSound(run[w], isTransfer)
    BY DEF IInv
  <2>2. d \in Debits(run[w].seen) \ run[w].left
    BY <2>1 DEF RunSound, Counterparts, Debits
  <2>. QED
    BY <2>1, <2>2 DEF RunSound, PairsSound
<1>. QED
  BY <1>1, Invariant, PTL

-----------------------------------------------------------------------------
(* Runs that do not overlap *)

\* Every step keeps the rows in disjoint pairs unless it makes two runs overlap.
LEMMA SeqNext == SeqInv /\ [Next]_vars => SeqInv'
<1>. SUFFICES ASSUME SeqInv, [Next]_vars PROVE SeqInv'
  OBVIOUS
<1>0. IInv /\ IInv' /\ run \in [Workers -> Run] /\ (overlap => overlap')
  BY InvNext DEF SeqInv, IInv, TypeOK, Next, Detect, UpsertTransactions, ReadUnmatched,
                 MatchDebit, Commit, RollBack, vars
<1>. SUFFICES ASSUME ~overlap'
              PROVE  /\ MarkedInPairs'
                     /\ \A w \in Workers : run'[w].pc = "matching" => run'[w].seen \cap isTransfer' = {}
                     /\ \A v, w \in Workers :
                            run'[v].pc = "matching" /\ run'[w].pc = "matching" => v = w
  BY <1>0 DEF SeqInv
<1>. DEFINE Goal == /\ MarkedInPairs'
                    /\ \A w \in Workers : run'[w].pc = "matching" => run'[w].seen \cap isTransfer' = {}
                    /\ \A v, w \in Workers :
                           run'[v].pc = "matching" /\ run'[w].pc = "matching" => v = w
<1>1. /\ MarkedInPairs
      /\ \A w \in Workers : run[w].pc = "matching" => run[w].seen \cap isTransfer = {}
      /\ \A v, w \in Workers : run[v].pc = "matching" /\ run[w].pc = "matching" => v = w
  BY <1>0 DEF SeqInv
<1>2. ASSUME UNCHANGED <<isTransfer, paired>> PROVE MarkedInPairs'
  BY <1>1, <1>2 DEF MarkedInPairs, Counterparts
<1>3. ASSUME NEW S \in SUBSET Transactions, UpsertTransactions(S) PROVE Goal
  BY <1>1, <1>2, <1>3 DEF UpsertTransactions
<1>4. ASSUME NEW w \in Workers, ReadUnmatched(w) PROVE Goal
  <2>1. \A v \in Workers : run[v].pc # "matching"
    BY <1>4 DEF ReadUnmatched
  <2>2. \A v \in Workers \ {w} : run'[v] = run[v]
    BY <1>0, <1>4 DEF ReadUnmatched
  <2>3. run'[w].seen \cap isTransfer = {}
    BY <1>0, <1>4 DEF ReadUnmatched, Unmatched
  <2>. QED
    BY <1>2, <1>4, <2>1, <2>2, <2>3 DEF ReadUnmatched
<1>5. ASSUME NEW w \in Workers, MatchDebit(w) PROVE Goal
  <2>1. run'[w].seen = run[w].seen /\ run[w].pc = "matching"
    BY <1>0, <1>5 DEF MatchDebit, Run
  <2>2. \A v \in Workers \ {w} : run'[v] = run[v]
    BY <1>0, <1>5 DEF MatchDebit
  <2>. QED
    BY <1>1, <1>2, <1>5, <2>1, <2>2 DEF MatchDebit
<1>6. ASSUME NEW w \in Workers, RollBack(w) PROVE Goal
  <2>1. run'[w].pc = "idle" /\ \A v \in Workers \ {w} : run'[v] = run[v]
    BY <1>0, <1>6 DEF RollBack, Idle
  <2>. QED
    BY <1>1, <1>2, <1>6, <2>1 DEF RollBack
<1>7. ASSUME NEW w \in Workers, Commit(w) PROVE Goal
  <2>1. RunSound(run[w], isTransfer) /\ run[w].seen \cap isTransfer = {}
    BY <1>1, <1>7 DEF SeqInv, IInv, Commit
  <2>2. /\ isTransfer' = isTransfer \cup Legs(run[w].pairs)
        /\ paired' = paired \cup run[w].pairs
        /\ run'[w].pc = "done"
        /\ \A v \in Workers \ {w} : run'[v] = run[v]
    BY <1>0, <1>7 DEF Commit, Run
  <2>3. isTransfer' = Legs(paired')
    BY <1>1, <2>2 DEF MarkedInPairs, Legs
  <2>4. \A p \in run[w].pairs : /\ Counterparts(p[1], p[2])
                                /\ p[1] \notin Legs(paired) /\ p[2] \notin Legs(paired)
    BY <1>1, <2>1 DEF RunSound, PairsSound, MarkedInPairs, Debits, Credits
  <2>5. \A p \in paired' : Counterparts(p[1], p[2])
    BY <1>1, <2>2, <2>4 DEF MarkedInPairs
  <2>6. \A p, q \in paired' : p # q => p[1] # q[1] /\ p[2] # q[2]
    BY <1>1, <2>1, <2>2, <2>4 DEF RunSound, PairsSound, MarkedInPairs, Legs
  <2>7. MarkedInPairs'
    BY <2>3, <2>5, <2>6 DEF MarkedInPairs, Counterparts
  <2>8. \A v \in Workers : run'[v].pc # "matching"
    BY <1>1, <1>7, <2>2 DEF Commit
  <2>. QED
    BY <2>7, <2>8
<1>8. CASE UNCHANGED vars
  BY <1>1, <1>2, <1>8 DEF vars
<1>. QED
  BY <1>3, <1>4, <1>5, <1>6, <1>7, <1>8 DEF Next, Detect

\* As long as runs do not overlap, the rows marked as transfers fall into disjoint
\* pairs of counterparts: a row that arrives later, or a tie, never breaks one up.
THEOREM RunsMarkPairs == Spec => []SerialRunsMarkPairs
<1>1. Init => SeqInv
  BY InvInit DEF Init, SeqInv, MarkedInPairs, Legs, Idle
<1>2. SeqInv => SerialRunsMarkPairs
  BY DEF SeqInv, SerialRunsMarkPairs
<1>. QED
  BY <1>1, <1>2, SeqNext, PTL DEF Spec

-----------------------------------------------------------------------------
(* What the marks do to a total *)

Sum(S) == SumFunctionOnSet(Amount, S)

\* Disjoint pairs of counterparts add up to nothing.
LEMMA PairsAddUpToNothing ==
    ASSUME NEW P \in SUBSET (Transactions \X Transactions),
           \A p \in P : Counterparts(p[1], p[2]),
           \A p, q \in P : p # q => p[1] # q[1] /\ p[2] # q[2]
    PROVE  Sum(Legs(P)) = 0
<1>. DEFINE G == {s \in SUBSET P : Sum(Legs(s)) = 0}
<1>1. IsFiniteSet(Transactions) /\ IsFiniteSet(P)
  <2>1. IsFiniteSet(Transactions \X Transactions)
    BY TransferAssumption, FS_Product
  <2>. QED
    BY <2>1, FS_Subset, TransferAssumption
<1>2. \A T \in SUBSET Transactions : IsFiniteSet(T)
  BY <1>1, FS_Subset
<1>3. ASSUME NEW s \in SUBSET P, \A p \in s : s \ {p} \in G PROVE s \in G
  <2>1. CASE s = {}
    <3>1. Legs(s) = {}
      BY <2>1 DEF Legs
    <3>. QED
      BY <3>1, SumEmpty DEF Sum
  <2>2. CASE s # {}
    <3>1. PICK p \in s : TRUE
      BY <2>2
    <3>. DEFINE d == p[1]
                c == p[2]
                rest == Legs(s \ {p})
    <3>2. /\ d \in Transactions /\ c \in Transactions
          /\ Amount[d] \in Int /\ Amount[c] \in Int /\ Amount[d] < 0 /\ Amount[d] + Amount[c] = 0
      BY TransferAssumption DEF Counterparts
    <3>3. \A q \in s \ {p} : /\ q[1] \in Transactions /\ q[2] \in Transactions
                              /\ d # q[1] /\ d # q[2] /\ c # q[1] /\ c # q[2]
      <4>. TAKE q \in s \ {p}
      <4>1. /\ q[1] \in Transactions /\ q[2] \in Transactions
            /\ Amount[q[1]] \in Int /\ Amount[q[2]] \in Int
            /\ Amount[q[1]] < 0 /\ Amount[q[1]] + Amount[q[2]] = 0
        BY TransferAssumption DEF Counterparts
      <4>2. d # q[1] /\ c # q[2]
        OBVIOUS
      <4>3. Amount[d] # Amount[q[2]] /\ Amount[c] # Amount[q[1]]
        BY <3>2, <4>1
      <4>. QED
        BY <4>1, <4>2, <4>3
    <3>4. Legs(s) = rest \cup {d, c}
      BY <3>1 DEF Legs
    <3>5. rest \in SUBSET Transactions /\ d \notin rest /\ c \notin rest
      BY <3>3 DEF Legs
    <3>6. Sum(rest) = 0
      BY <1>3, <3>1
    <3>. HIDE DEF d, c, rest
    <3>7. d # c
      BY <3>2
    <3>8. Sum({d, c}) = Amount[d] + Amount[c]
      <4>1. IsFiniteSet({d, c}) /\ IsFiniteSet({c})
        BY <1>2, <3>2
      <4>2. Sum({d, c}) = Amount[d] + Sum({d, c} \ {d})
        BY <3>2, <4>1, SumRemove DEF Sum
      <4>3. Sum({c}) = Amount[c] + Sum({c} \ {c})
        BY <3>2, <4>1, SumRemove DEF Sum
      <4>4. {d, c} \ {d} = {c} /\ {c} \ {c} = {}
        BY <3>7
      <4>5. Sum({}) = 0
        BY SumEmpty DEF Sum
      <4>6. Sum({c}) = Amount[c] + 0
        BY <4>3, <4>4, <4>5
      <4>. HIDE DEF Sum
      <4>7. Sum({d, c}) = Amount[d] + Sum({c})
        BY <4>2, <4>4
      <4>. QED
        BY <3>2, <4>6, <4>7
    <3>9. Sum(rest \cup {d, c}) = Sum(rest) + Sum({d, c})
      <4>1. IsFiniteSet(rest) /\ IsFiniteSet({d, c}) /\ rest \cap {d, c} = {}
        BY <1>2, <3>2, <3>5
      <4>2. \A t \in rest \cup {d, c} : Amount[t] \in Int
        BY <3>2, <3>5, TransferAssumption
      <4>. QED
        BY <4>1, <4>2, SumUnion DEF Sum
    <3>10. Sum(Legs(s)) = 0
      BY <3>2, <3>4, <3>6, <3>8, <3>9
    <3>. QED
      BY <3>10
  <2>. QED
    BY <2>1, <2>2
<1>. HIDE DEF G
<1>4. \A s \in SUBSET P : s \in G
  BY <1>1, <1>3, SubsetInduction
<1>. QED
  BY <1>4 DEF G

\* Only rows that are there are looked at and marked.
StoredInv ==
    /\ isTransfer \subseteq Stored
    /\ \A w \in Workers : run[w].seen \subseteq Stored

LEMMA StoredNext == IInv /\ StoredInv /\ [Next]_vars => StoredInv'
<1>. SUFFICES ASSUME IInv, StoredInv, [Next]_vars PROVE StoredInv'
  OBVIOUS
<1>0. TypeOK /\ \A w \in Workers : RunSound(run[w], isTransfer)
  BY DEF IInv
<1>1. ASSUME NEW S \in SUBSET Transactions, UpsertTransactions(S) PROVE StoredInv'
  <2>1. Stored \subseteq Stored'
    BY <1>0, <1>1 DEF UpsertTransactions, Stored, TypeOK
  <2>. QED
    BY <1>1, <2>1 DEF UpsertTransactions, StoredInv
<1>2. ASSUME UNCHANGED createdAt PROVE Stored' = Stored
  BY <1>2 DEF Stored
<1>3. ASSUME NEW w \in Workers, ReadUnmatched(w) PROVE StoredInv'
  <2>1. run'[w].seen \subseteq Stored /\ \A v \in Workers \ {w} : run'[v] = run[v]
    BY <1>0, <1>3 DEF ReadUnmatched, Unmatched, TypeOK
  <2>. QED
    BY <1>2, <1>3, <2>1 DEF ReadUnmatched, StoredInv
<1>4. ASSUME NEW w \in Workers, MatchDebit(w) \/ Commit(w) PROVE StoredInv'
  <2>1. run'[w].seen = run[w].seen /\ \A v \in Workers \ {w} : run'[v] = run[v]
    BY <1>0, <1>4 DEF MatchDebit, Commit, TypeOK, Run
  <2>2. Legs(run[w].pairs) \subseteq run[w].seen
    BY <1>0 DEF RunSound, PairsSound, Legs, Debits, Credits
  <2>3. isTransfer' \subseteq Stored
    BY <1>4, <2>2 DEF MatchDebit, Commit, StoredInv
  <2>. QED
    BY <1>2, <1>4, <2>1, <2>3 DEF MatchDebit, Commit, StoredInv
<1>5. ASSUME NEW w \in Workers, RollBack(w) PROVE StoredInv'
  <2>1. run'[w].seen = {} /\ \A v \in Workers \ {w} : run'[v] = run[v]
    BY <1>0, <1>5 DEF RollBack, Idle, TypeOK
  <2>. QED
    BY <1>2, <1>5, <2>1 DEF RollBack, StoredInv
<1>6. CASE UNCHANGED vars
  BY <1>2, <1>6 DEF vars, StoredInv
<1>. QED
  BY <1>1, <1>3, <1>4, <1>5, <1>6 DEF Next, Detect

\* "net out both legs": as long as runs do not overlap, what is left out as a
\* transfer changes no sum over the rows of the household, to the cent.
THEOREM TransfersNetOut == Spec => [](~overlap => Sum(Stored \ isTransfer) = Sum(Stored))
<1>1. Init => SeqInv /\ StoredInv
  BY InvInit DEF Init, SeqInv, MarkedInPairs, Legs, Idle, StoredInv
<1>2. SeqInv /\ StoredInv /\ [Next]_vars => (SeqInv /\ StoredInv)'
  BY SeqNext, StoredNext DEF SeqInv
<1>3. SeqInv /\ StoredInv => (~overlap => Sum(Stored \ isTransfer) = Sum(Stored))
  <2>. SUFFICES ASSUME SeqInv, StoredInv, ~overlap
                PROVE  Sum(Stored \ isTransfer) = Sum(Stored)
    OBVIOUS
  <2>1. MarkedInPairs /\ paired \in SUBSET (Transactions \X Transactions)
    BY DEF SeqInv, IInv, TypeOK
  <2>2. Sum(isTransfer) = 0
    BY <2>1, PairsAddUpToNothing DEF MarkedInPairs
  <2>. DEFINE shown == Stored \ isTransfer
  <2>3. Stored \subseteq Transactions /\ Stored = shown \cup isTransfer /\ shown \cap isTransfer = {}
    BY DEF Stored, StoredInv
  <2>. HIDE DEF shown
  <2>4. /\ IsFiniteSet(shown) /\ IsFiniteSet(isTransfer)
        /\ \A t \in shown \cup isTransfer : Amount[t] \in Int
    BY <2>3, FS_Subset, TransferAssumption
  <2>5. Sum(shown \cup isTransfer) = Sum(shown) + Sum(isTransfer)
    BY <2>3, <2>4, SumUnion DEF Sum
  <2>6. Sum(shown) \in Int
    BY <2>4, SumType DEF Sum
  <2>7. Sum(shown \cup isTransfer) = Sum(shown)
    BY <2>2, <2>5, <2>6
  <2>. QED
    BY <2>3, <2>7 DEF shown
<1>. QED
  BY <1>1, <1>2, <1>3, PTL DEF Spec
=============================================================================
