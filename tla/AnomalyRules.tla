---------------------------- MODULE AnomalyRules ----------------------------
(***************************************************************************)
(* The six deterministic rules of services/anomaly_rules.py, as functions  *)
(* of the transactions a statement of theirs reads. A rule returns the     *)
(* keys of its candidates: a transaction, or a label and a day; severity,  *)
(* score and wording are left out.                                         *)
(*                                                                         *)
(* Amounts are whole cents, dates are days. Averages and deviations are    *)
(* compared without division: with n amounts of sum s and of sum of        *)
(* squares q, the average is s / n and the deviation sqrt(n q - s s) / n.  *)
(***************************************************************************)
EXTENDS Integers, FiniteSets, FiniteSetsExt

CONSTANTS
    Ledger,         \* the transactions there may be
    ConnectionOf,   \* the bank connection of each account
    OwnerOf,        \* connection_member_map, NoMember where it has None
    NoMember, NoCategory, Uncategorized, NoText,
    LargeMinSample, LargeWindowDays,
    DuplicateWindowDays,
    MerchantMinHistoryDays, MerchantMinAmount,
    RecurringMinPrior,
    PeriodDays, PeriodFloor

\* Amounts < 0. Where "since" is given, the debits from that day on.
Debits(T) == {t \in T : t.amount < 0}
DebitsSince(T, since) == {t \in Debits(T) : t.date >= since}
DebitsWithin(T, from, to) == {t \in Debits(T) : t.date >= from /\ t.date <= to}

Spent(t) == -t.amount
TotalSpent(D) == MapThenSumSet(Spent, D)
SquaresSpent(D) == LET sq(t) == t.amount * t.amount IN MapThenSumSet(sq, D)

Gap(t, o) == IF t.date >= o.date THEN t.date - o.date ELSE o.date - t.date

\* ORDER BY transaction_date: "tie" is how the database orders one day.
Before(o, t, tie) == o.date < t.date \/ (o.date = t.date /\ tie[o] < tie[t])
Earlier(D, t, tie) == {o \in D : Before(o, t, tie)}

Connection(t) == ConnectionOf[t.account]
\* A different program: one baseline for the whole household.
SameHousehold(D, t) == D

SameBank(D, t) == {o \in D : Connection(o) = Connection(t)}

-----------------------------------------------------------------------------
(* Rules about one transaction *)

\* More than three deviations, and more than twice, above the average of the
\* same bank's earlier debits; where they are all equal, three times as much.
StandsOut(x, n, s, q) ==
    LET variance == n * q - s * s
    IN /\ n * x > 2 * s
       /\ IF variance > 0
            THEN n * x > s /\ (n * x - s) * (n * x - s) > 9 * variance
            ELSE n * x >= 3 * s

LargeTransactions(T, today, tie) ==
    LET D == DebitsSince(T, today - LargeWindowDays)
    IN {t \in D :
          LET prior == Earlier(SameBank(D, t), t, tie)
          IN /\ Cardinality(prior) >= LargeMinSample
             /\ StandsOut(Spent(t), Cardinality(prior), TotalSpent(prior), SquaresSpent(prior))}

\* The same amount (to the cent), text and account a few days apart. (Floats
\* put a difference of exactly a cent on either side; it counts as none here.)
IsDuplicate(o, t) ==
    /\ o.account = t.account
    /\ Spent(o) - Spent(t) \in -1..1
    /\ o.text = t.text
    /\ Gap(t, o) <= DuplicateWindowDays

\* A different program: only the debit just before is compared.
AdjacentDuplicates(T, tie) ==
    LET D == Debits(T)
    IN {t \in D : \E o \in Earlier(D, t, tie) :
                      /\ \A p \in Earlier(D, t, tie) : p = o \/ Before(p, o, tie)
                      /\ IsDuplicate(o, t)}

DuplicateTransactions(T, tie) ==
    LET D == Debits(T)
    IN {t \in D : \E o \in Earlier(D, t, tie) : IsDuplicate(o, t)}

\* A different program: the descriptions seen so far are not kept.
UnseenMerchants(T, tie) ==
    LET D == Debits(T)
    IN {t \in D :
          /\ t.text # NoText
          /\ Spent(t) > MerchantMinAmount
          /\ \E o \in SameBank(D, t) : t.date - o.date >= MerchantMinHistoryDays}

\* The first debit of its text at its bank, once the bank's history is long
\* enough at that date.
NewMerchants(T, tie) ==
    LET D == Debits(T)
    IN {t \in D :
          /\ t.text # NoText
          /\ \A o \in Earlier(SameBank(D, t), t, tie) : o.text # t.text
          /\ Spent(t) > MerchantMinAmount
          /\ \E o \in SameBank(D, t) : t.date - o.date >= MerchantMinHistoryDays}

\* The last of the debits of one text on one account, a quarter away from
\* the average of those before.
ChangedPayments(T, tie) ==
    LET D == {t \in Debits(T) : t.text # NoText}
        Group(t) == {o \in D : o.account = t.account /\ o.text = t.text}
    IN {t \in D :
          LET prior == Earlier(Group(t), t, tie)
              n == Cardinality(prior)
              s == TotalSpent(prior)
              off == n * Spent(t) - s
          IN /\ prior = Group(t) \ {t}
             /\ n >= RecurringMinPrior
             /\ 4 * (IF off < 0 THEN -off ELSE off) > s}

-----------------------------------------------------------------------------
(* Rules about two periods of PeriodDays. The totals of the current and of  *)
(* the prior one come from two statements, which may read different tables. *)

CurrentDebits(T, today) == DebitsWithin(T, today - PeriodDays, today)
PriorDebits(T, today) == DebitsWithin(T, today - 2 * PeriodDays, today - PeriodDays - 1)

Deviates(current, prior) ==
    current >= PeriodFloor /\ prior > 0 /\ 2 * current >= 3 * prior

\* A different program: NULL has a key of its own.
RawLabel(c) == c

Label(c) == IF c = NoCategory THEN Uncategorized ELSE c

\* Totals are by category, so that NULL and "Uncategorized" are two groups
\* with one key.
CategoryDeviations(current, prior, today) ==
    {[of |-> Label(c), day |-> today] :
        c \in {d \in {t.category : t \in current} :
                 Deviates(TotalSpent({t \in current : t.category = d}),
                          TotalSpent({t \in prior : t.category = d}))}}

DebitsOf(m, D) == {t \in D : OwnerOf[Connection(t)] = m}

MemberDeviations(current, prior, today) ==
    {[of |-> m, day |-> today] :
        m \in {o \in {OwnerOf[Connection(t)] : t \in current} \ {NoMember} :
                 Deviates(TotalSpent(DebitsOf(o, current)), TotalSpent(DebitsOf(o, prior)))}}
=============================================================================
