--------------------------- MODULE InvitesProofs ---------------------------
(***************************************************************************)
(* The invite endpoints and the limit on their rate. One membership, one   *)
(* role and one used invite, for any number of invite requests, accept     *)
(* requests and invites; what it takes for an address to end up with two   *)
(* pending ones; and how far concurrent requests can exceed a limit, for   *)
(* any number of requests, any limit and any window.                       *)
(***************************************************************************)
EXTENDS InviteRequests, FiniteSetTheorems, TLAPS

Sending(o) == ask[o].pc \in {"mailing", "sent"}

\* A request that mails has an invite, a draft belongs to one request, and an
\* accept request holds an invite that was committed.
Held ==
    /\ \A o \in Owners : ask[o].pc # "idle" => ask[o].role \in Roles
    /\ \A o \in Owners : Sending(o) => ask[o].id \in Ids /\ invites[ask[o].id].state # "absent"
    /\ \A o \in Owners, p \in Owners :
           Sending(o) /\ Sending(p) /\ ask[o].id = ask[p].id /\ IsDraft(ask[o].id) => o = p
    /\ \A a \in Accepters : acc[a] # NoId => invites[acc[a]].state \in {"pending", "accepted"}

\* An invite that exists carries a role, and a used one made its person a member.
Used ==
    /\ \A i \in Ids : invites[i].state # "absent" => invites[i].role \in Roles
    /\ \A i \in Accepted : member = invites[i].role
    /\ \A i \in Accepted, j \in Accepted : i = j

IInv == TypeOK /\ Held /\ Used /\ InvitedIsFound

\* Nobody has asked, been invited or become a member.
LEMMA InvInit == Init => IInv
  <1> SUFFICES ASSUME Init PROVE IInv
    OBVIOUS
  <1>1. TypeOK
    BY InvitesAssumption DEF Init, TypeOK, Ask, NoAsk, Invite, NoInvite
  <1>2. Held
    BY InvitesAssumption DEF Init, Held, Sending, NoAsk, NoInvite
  <1>3. Used
    BY InvitesAssumption DEF Init, Used, Accepted, NoInvite
  <1>4. InvitedIsFound
    BY DEF Init, InvitedIsFound
  <1>5. QED
    BY <1>1, <1>2, <1>3, <1>4 DEF IInv

\* A step that leaves the invites, the members and the answers alone, and lets
\* no request begin to mail, keeps the invariant.
LEMMA AskStep ==
    ASSUME IInv, UNCHANGED <<member, invites, acc, told>>,
           NEW o \in Owners, NEW r \in Ask,
           ask' = [ask EXCEPT ![o] = r],
           r.pc # "idle" => r.role \in Roles,
           r.pc \notin {"mailing", "sent"} \/ (Sending(o) /\ r.id = ask[o].id),
           user' \in BOOLEAN, expired' \subseteq Ids
    PROVE  IInv'
  <1>1. TypeOK'
    BY DEF IInv, TypeOK
  <1>2. \A p \in Owners : ask'[p] = IF p = o THEN r ELSE ask[p]
    BY DEF IInv, TypeOK
  <1>3. \A p \in Owners : Sending(p)' => Sending(p) /\ ask'[p].id = ask[p].id
    BY <1>2 DEF Sending
  <1>4. Held'
    BY <1>2, <1>3 DEF IInv, Held, IsDraft, Sending
  <1>5. Used' /\ InvitedIsFound'
    BY DEF IInv, Used, Accepted, InvitedIsFound
  <1>6. QED
    BY <1>1, <1>4, <1>5 DEF IInv

\* Asking, being refused, and the end of the mail only move a request.
LEMMA RequestMoves ==
    ASSUME IInv, NEW o \in Owners,
           \/ \E role \in Roles : FindTarget(o, role)
           \/ TurnedAway(o)
           \/ TooManyPending(o)
           \/ MailSent(o)
    PROVE  IInv'
  <1> USE DEF IInv
  <1>0. ask[o] \in Ask /\ NoAsk \in Ask
    BY DEF TypeOK, Ask, NoAsk
  <1>1. CASE \E role \in Roles : FindTarget(o, role)
    <2>1. PICK role \in Roles : FindTarget(o, role)
      BY <1>1
    <2> DEFINE r == [pc |-> IF user THEN "adding" ELSE "looking", role |-> role, id |-> NoId]
    <2>2. r \in Ask /\ r.role \in Roles /\ r.pc \notin {"mailing", "sent"}
      BY DEF Ask
    <2>3. ask' = [ask EXCEPT ![o] = r] /\ UNCHANGED <<user, member, invites, expired, acc, told>>
      BY <2>1 DEF FindTarget
    <2> HIDE DEF r
    <2>4. QED
      BY <2>2, <2>3, AskStep DEF TypeOK
  <1>2. CASE TurnedAway(o) \/ TooManyPending(o)
    <2>1. /\ ask' = [ask EXCEPT ![o] = NoAsk]
          /\ UNCHANGED <<user, member, invites, expired, acc, told>>
      BY <1>2 DEF TurnedAway, TooManyPending, Done
    <2>2. NoAsk.pc = "idle"
      BY DEF NoAsk
    <2>3. QED
      BY <1>0, <2>1, <2>2, AskStep DEF TypeOK
  <1>3. CASE MailSent(o)
    <2> DEFINE r == [pc |-> "sent", role |-> ask[o].role, id |-> ask[o].id]
    <2>1. r \in Ask /\ r.pc = "sent" /\ r.id = ask[o].id /\ r.role = ask[o].role
      BY <1>0 DEF Ask
    <2>2. Sending(o) /\ ask[o].role \in Roles
      BY <1>3 DEF MailSent, Sending, Held
    <2>3. [ask[o] EXCEPT !.pc = "sent"] = r
      BY <1>0 DEF Ask
    <2>4. ask' = [ask EXCEPT ![o] = r] /\ UNCHANGED <<user, member, invites, expired, acc, told>>
      <3>1. ask' = [ask EXCEPT ![o] = [ask[o] EXCEPT !.pc = "sent"]]
        BY <1>3 DEF MailSent, TypeOK
      <3>2. QED
        BY <1>3, <2>3, <3>1 DEF MailSent
    <2> HIDE DEF r
    <2>5. QED
      BY <2>1, <2>2, <2>4, AskStep DEF TypeOK
  <1>4. QED
    BY <1>1, <1>2, <1>3

\* A request begins to mail a pending invite or a draft of its own.
LEMMA Mails ==
    ASSUME IInv, NEW o \in Owners, NEW i \in Ids, ask[o].pc = "looking",
           ask' = [ask EXCEPT ![o] = [pc |-> "mailing", role |-> ask[o].role, id |-> i]],
           UNCHANGED <<user, member, expired, acc, told>>,
           \/ i \in Pending /\ UNCHANGED invites
           \/ /\ invites[i] = NoInvite
              /\ invites' = [invites EXCEPT ![i] = [state |-> "draft", role |-> ask[o].role]]
    PROVE  IInv'
  <1> DEFINE r == [pc |-> "mailing", role |-> ask[o].role, id |-> i]
             v == [state |-> "draft", role |-> ask[o].role]
  <1> USE DEF IInv
  <1>1. ask[o] \in Ask /\ ask[o].role \in Roles
    BY DEF TypeOK, Held
  <1>2. r \in Ask /\ v \in Invite
    BY <1>1 DEF Ask, Invite
  <1>3. ask' = [ask EXCEPT ![o] = r]
    OBVIOUS
  <1>4. r.pc = "mailing" /\ r.id = i /\ r.role \in Roles /\ v.state = "draft" /\ v.role \in Roles
    BY <1>1
  <1> HIDE DEF r
  <1>5. \A p \in Owners : ask'[p] = IF p = o THEN r ELSE ask[p]
    BY <1>3 DEF TypeOK
  <1>6. \A j \in Ids : j # i => invites'[j] = invites[j]
    BY DEF TypeOK
  <1>7. \/ invites[i].state = "pending" /\ invites'[i] = invites[i]
        \/ invites[i].state = "absent" /\ invites'[i] = v
    BY DEF TypeOK, Pending, NoInvite
  <1> HIDE DEF v
  <1>8. TypeOK'
    BY <1>2, <1>3 DEF TypeOK, v
  <1>9. Held'
    <2>1. \A p \in Owners : p # o /\ Sending(p) =>
            /\ Sending(p)' /\ ask'[p] = ask[p] /\ ask[p].id \in Ids
            /\ (ask[p].id = i => invites[i].state = "pending")
      BY <1>5, <1>7 DEF Held, Sending
    <2>2. \A p \in Owners : p # o /\ Sending(p)' => Sending(p)
      BY <1>5 DEF Sending
    <2>3. \A p \in Owners : ask'[p].pc # "idle" => ask'[p].role \in Roles
      BY <1>4, <1>5 DEF Held
    <2>4. \A p \in Owners : Sending(p)' => ask'[p].id \in Ids /\ invites'[ask'[p].id].state # "absent"
      <3>1. ask'[o].id = i /\ invites'[i].state # "absent"
        BY <1>4, <1>5, <1>7
      <3>2. \A p \in Owners : p # o /\ Sending(p) => invites'[ask[p].id].state # "absent"
        BY <1>6, <1>7, <2>1 DEF Held
      <3>3. QED
        BY <2>1, <2>2, <3>1, <3>2
    <2>5. \A p \in Owners, q \in Owners :
            Sending(p)' /\ Sending(q)' /\ ask'[p].id = ask'[q].id /\ IsDraft(ask[p].id)' => p = q
      BY <1>4, <1>5, <1>6, <1>7, <2>1, <2>2 DEF Held, IsDraft
    <2>6. \A a \in Accepters : acc'[a] # NoId => invites'[acc'[a]].state \in {"pending", "accepted"}
      BY <1>6, <1>7 DEF Held, TypeOK
    <2>7. QED
      BY <2>3, <2>4, <2>5, <2>6 DEF Held
  <1>10. Used' /\ InvitedIsFound'
    BY <1>4, <1>6, <1>7 DEF Used, Accepted, InvitedIsFound, TypeOK
  <1>11. QED
    BY <1>8, <1>9, <1>10

\* The request ends: its draft, if it has one, is committed or rolled back.
LEMMA MailEnds ==
    ASSUME IInv, NEW o \in Owners, Sending(o), ask' = [ask EXCEPT ![o] = NoAsk],
           NEW v \in Invite, v = NoInvite \/ v = [state |-> "pending", role |-> invites[ask[o].id].role],
           invites' = [i \in Ids |-> IF i = ask[o].id /\ IsDraft(i) THEN v ELSE invites[i]],
           \/ told' = told
           \/ v.state = "pending" /\ told' = told \cup {ask[o].id},
           UNCHANGED <<user, member, expired, acc>>
    PROVE  IInv'
  <1> USE DEF IInv
  <1> DEFINE k == ask[o].id
  <1>1. NoAsk \in Ask /\ NoAsk.pc = "idle" /\ NoAsk.id = NoId
    BY DEF Ask, NoAsk
  <1>2. k \in Ids /\ invites[k].state # "absent" /\ invites[k].role \in Roles /\ invites[k] \in Invite
    BY DEF Held, Used, TypeOK
  <1>3. v.state \in {"absent", "pending"} /\ (v.state = "pending" => v.role = invites[k].role)
    BY DEF NoInvite
  <1> HIDE DEF k
  <1>4. \A p \in Owners : ask'[p] = IF p = o THEN NoAsk ELSE ask[p]
    BY DEF TypeOK
  <1>5. \A i \in Ids : i # k \/ invites[i].state # "draft" => invites'[i] = invites[i]
    BY DEF IsDraft, k
  <1>6. invites[k].state = "draft" => invites'[k] = v
    BY <1>2 DEF IsDraft, k
  <1>7. TypeOK'
    BY <1>1, <1>2 DEF TypeOK, k
  <1>8. Held'
    <2>1. \A p \in Owners : Sending(p)' =>
            p # o /\ Sending(p) /\ ask'[p] = ask[p] /\ ask[p].id \in Ids
      BY <1>1, <1>4 DEF Sending, Held
    <2>2. \A p \in Owners : Sending(p)' => invites'[ask[p].id] = invites[ask[p].id]
      BY <1>5, <2>1 DEF Held, IsDraft, k
    <2>3. \A p \in Owners : ask'[p].pc # "idle" => ask'[p].role \in Roles
      BY <1>1, <1>4 DEF Held
    <2>4. \A p \in Owners : Sending(p)' => ask'[p].id \in Ids /\ invites'[ask'[p].id].state # "absent"
      BY <2>1, <2>2 DEF Held
    <2>5. \A p \in Owners, q \in Owners :
            Sending(p)' /\ Sending(q)' /\ ask'[p].id = ask'[q].id /\ IsDraft(ask[p].id)' => p = q
      BY <2>1, <2>2 DEF Held, IsDraft
    <2>6. \A a \in Accepters : acc'[a] # NoId => invites'[acc'[a]].state \in {"pending", "accepted"}
      BY <1>5 DEF Held, TypeOK
    <2>7. QED
      BY <2>3, <2>4, <2>5, <2>6 DEF Held
  <1>9. Used'
    <2>1. \A i \in Ids : invites'[i].state # "absent" => invites'[i].role \in Roles
      BY <1>2, <1>3, <1>5, <1>6 DEF Used
    <2>2. Accepted' = Accepted /\ \A i \in Accepted : invites'[i] = invites[i]
      BY <1>3, <1>5, <1>6 DEF Accepted
    <2>3. QED
      BY <2>1, <2>2 DEF Used
  <1>10. InvitedIsFound'
    <2>1. \A i \in told : invites'[i].state \in {"pending", "accepted"}
      BY <1>5 DEF InvitedIsFound, TypeOK
    <2>2. told' # told => invites'[k].state \in {"pending", "accepted"}
      BY <1>2, <1>5, <1>6 DEF Invite, k
    <2>3. QED
      BY <2>1, <2>2 DEF InvitedIsFound, k
  <1>11. QED
    BY <1>7, <1>8, <1>9, <1>10

\* While the person is no member, no invite is used.
LEMMA NothingUsed ==
    ASSUME IInv, member = NoRole
    PROVE  Accepted = {}
  BY InvitesAssumption DEF IInv, Used, Accepted

\* An owner adds the person, who may be a member already.
LEMMA Adds ==
    ASSUME IInv, NEW o \in Owners, AddMember(o)
    PROVE  IInv'
  <1> USE DEF IInv
  <1>1. ask[o].role \in Roles /\ NoAsk \in Ask /\ NoAsk.pc = "idle"
    BY DEF AddMember, Held, Ask, NoAsk
  <1>2. TypeOK'
    BY <1>1 DEF AddMember, Done, TypeOK
  <1>3. \A p \in Owners : ask'[p] = IF p = o THEN NoAsk ELSE ask[p]
    BY DEF AddMember, Done, TypeOK
  <1>4. Held'
    BY <1>1, <1>3 DEF AddMember, Held, Sending, IsDraft
  <1>5. Accepted' = Accepted /\ \A i \in Accepted : member' = member
    BY NothingUsed DEF AddMember, Accepted
  <1>6. Used' /\ InvitedIsFound'
    BY <1>5 DEF AddMember, Used, InvitedIsFound
  <1>7. QED
    BY <1>2, <1>4, <1>6

\* The person logs in, time passes, an accept request is checked or refused.
LEMMA AcceptMoves ==
    ASSUME IInv,
           \/ Login
           \/ \E i \in Ids : Expire(i)
           \/ \E a \in Accepters, i \in Ids : CheckInvite(a, i)
           \/ \E a \in Accepters : AlreadyMember(a)
    PROVE  IInv'
  <1> USE DEF IInv
  <1>1. UNCHANGED <<member, invites, ask, told>>
    BY DEF Login, Expire, CheckInvite, AlreadyMember
  <1>2. TypeOK'
    BY <1>1 DEF Login, Expire, CheckInvite, AlreadyMember, TypeOK
  <1>3. \A a \in Accepters : acc'[a] \in {NoId, acc[a]} \/ invites[acc'[a]].state = "pending"
    BY DEF Login, Expire, CheckInvite, AlreadyMember, TypeOK
  <1>4. Held'
    BY <1>1, <1>3 DEF Held, Sending, IsDraft
  <1>5. Used' /\ InvitedIsFound'
    BY <1>1 DEF Used, Accepted, InvitedIsFound
  <1>6. QED
    BY <1>2, <1>4, <1>5

\* An invite is used: its person becomes a member with its role.
LEMMA Accepts ==
    ASSUME IInv, NEW a \in Accepters, AcceptInvite(a)
    PROVE  IInv'
  <1> USE DEF IInv
  <1> DEFINE k == acc[a]
             v == [state |-> "accepted", role |-> invites[k].role]
  <1>1. /\ k \in Ids /\ invites[k] \in Invite /\ invites[k].role \in Roles
        /\ invites[k].state \in {"pending", "accepted"}
    BY DEF AcceptInvite, Held, Used, TypeOK
  <1>2. v \in Invite /\ [invites[k] EXCEPT !.state = "accepted"] = v
    BY <1>1 DEF Invite
  <1>3. invites' = [invites EXCEPT ![k] = v]
    <2>1. invites' = [invites EXCEPT ![k] = [invites[k] EXCEPT !.state = "accepted"]]
      BY <1>1 DEF AcceptInvite, TypeOK
    <2>2. QED
      BY <1>2, <2>1
  <1>4. v.state = "accepted" /\ v.role = member'
    BY DEF AcceptInvite
  <1> HIDE DEF v
  <1>5. UNCHANGED <<user, expired, ask, told>> /\ acc' = [acc EXCEPT ![a] = NoId]
    BY DEF AcceptInvite
  <1>6. member' = invites[k].role
    BY DEF AcceptInvite
  <1> HIDE DEF k
  <1>7. TypeOK'
    BY <1>1, <1>2, <1>3, <1>5, <1>6 DEF TypeOK
  <1>8. \A i \in Ids : invites'[i] = IF i = k THEN v ELSE invites[i]
    BY <1>3 DEF TypeOK
  <1>9. \A i \in Ids : invites'[i] = invites[i] \/ (i = k /\ invites'[i].state = "accepted")
    BY <1>4, <1>8
  <1>10. Held'
    <2>1. \A p \in Owners : (Sending(p)' <=> Sending(p)) /\ ask'[p] = ask[p]
      BY <1>5 DEF Sending
    <2>2. \A p \in Owners : Sending(p)' => ask'[p].id \in Ids /\ invites'[ask'[p].id].state # "absent"
      BY <1>9, <2>1 DEF Held
    <2>3. \A p \in Owners, q \in Owners :
            Sending(p)' /\ Sending(q)' /\ ask'[p].id = ask'[q].id /\ IsDraft(ask[p].id)' => p = q
      BY <1>9, <2>1 DEF Held, IsDraft
    <2>4. \A b \in Accepters : acc'[b] # NoId => invites'[acc'[b]].state \in {"pending", "accepted"}
      BY <1>5, <1>9 DEF Held, TypeOK
    <2>5. \A p \in Owners : ask'[p].pc # "idle" => ask'[p].role \in Roles
      BY <2>1 DEF Held
    <2>6. QED
      BY <2>2, <2>3, <2>4, <2>5 DEF Held
  <1>11. Used'
    <2>1. Accepted = {}
      BY NothingUsed DEF AcceptInvite
    <2>2. Accepted' \subseteq {k}
      BY <1>8, <2>1 DEF Accepted
    <2>3. invites'[k].role = member'
      BY <1>1, <1>4, <1>8
    <2>4. \A i \in Ids : invites'[i].state # "absent" => invites'[i].role \in Roles
      BY <1>1, <1>4, <1>6, <1>8 DEF Used
    <2>5. QED
      BY <2>2, <2>3, <2>4 DEF Used
  <1>12. InvitedIsFound'
    BY <1>5, <1>9 DEF InvitedIsFound, TypeOK
  <1>13. QED
    BY <1>7, <1>10, <1>11, <1>12

\* Every step keeps the invariant.
LEMMA InvNext == IInv /\ [Next]_vars => IInv'
  <1> SUFFICES ASSUME IInv, [Next]_vars PROVE IInv'
    OBVIOUS
  <1>1. CASE \E o \in Owners, role \in Roles : FindTarget(o, role)
    BY <1>1, RequestMoves
  <1>2. ASSUME NEW o \in Owners, InviteStep(o) PROVE IInv'
    <2>1. CASE AddMember(o)
      BY <2>1, Adds
    <2>2. CASE TurnedAway(o) \/ TooManyPending(o) \/ MailSent(o)
      BY <2>2, RequestMoves
    <2>3. CASE \E i \in Ids : DraftInvite(o, i)
      BY <2>3, Mails DEF DraftInvite
    <2>4. CASE ReuseInvite(o)
      BY <2>4, Mails DEF ReuseInvite
    <2>5. CASE InviteRolledBack(o)
      <3>1. NoInvite \in Invite
        BY DEF NoInvite, Invite
      <3>2. Sending(o)
        BY <2>5 DEF InviteRolledBack, Sending
      <3>3. QED
        BY <2>5, <3>1, <3>2, MailEnds DEF InviteRolledBack, Done
    <2>6. CASE CommitInvite(o)
      <3> DEFINE v == [state |-> "pending", role |-> invites[ask[o].id].role]
      <3>1. Sending(o)
        BY <2>6 DEF CommitInvite, Sending
      <3>2. invites[ask[o].id] \in Invite
        BY <3>1 DEF IInv, Held, TypeOK
      <3>3. v \in Invite /\ v.state = "pending" /\ [invites[ask[o].id] EXCEPT !.state = "pending"] = v
        BY <3>2 DEF Invite
      <3>4. invites' = [i \in Ids |-> IF i = ask[o].id /\ IsDraft(i) THEN v ELSE invites[i]]
        <4>1. invites' = [i \in Ids |-> IF i = ask[o].id /\ IsDraft(i)
                                       THEN [invites[i] EXCEPT !.state = "pending"] ELSE invites[i]]
          BY <2>6 DEF CommitInvite
        <4>2. \A i \in Ids : i = ask[o].id => [invites[i] EXCEPT !.state = "pending"] = v
          BY <3>3
        <4> HIDE DEF v
        <4>3. QED
          BY <4>1, <4>2
      <3>5. QED
        BY <2>6, <3>1, <3>3, <3>4, MailEnds DEF CommitInvite, Done
    <2>7. QED
      BY <1>2, <2>1, <2>2, <2>3, <2>4, <2>5, <2>6 DEF InviteStep
  <1>3. CASE \/ Login
             \/ \E i \in Ids : Expire(i)
             \/ \E a \in Accepters, i \in Ids : CheckInvite(a, i)
             \/ \E a \in Accepters : AlreadyMember(a)
    BY <1>3, AcceptMoves
  <1>4. CASE \E a \in Accepters : AcceptInvite(a)
    BY <1>4, Accepts
  <1>5. CASE UNCHANGED vars
    BY <1>5 DEF vars, IInv, TypeOK, Held, Sending, IsDraft, Used, Accepted, InvitedIsFound
  <1>6. QED
    BY <1>1, <1>2, <1>3, <1>4, <1>5 DEF Next

\* The invariant holds in every reachable state.
LEMMA Invariant == Spec => []IInv
  BY InvInit, InvNext, PTL DEF Spec

\* The tables and the requests of api/household_members.py and api/invites.py
\* keep their types.
THEOREM TypeCorrect == Spec => []TypeOK
  <1>1. IInv => TypeOK
    BY DEF IInv
  <1>2. QED
    BY <1>1, Invariant, PTL

\* However many invitations and accept requests race, at most one invite is used
\* up, and its role is the member's.
THEOREM OneInviteIsUsed == Spec => []JoinedByOneInvite
  <1>1. IInv => JoinedByOneInvite
    <2> SUFFICES ASSUME IInv PROVE JoinedByOneInvite
      OBVIOUS
    <2>1. CASE Accepted = {}
      BY <2>1, FS_EmptySet DEF JoinedByOneInvite
    <2>2. CASE Accepted # {}
      <3>1. PICK i : Accepted = {i}
        BY <2>2 DEF IInv, Used
      <3>2. Cardinality(Accepted) = 1
        BY <3>1, FS_Singleton
      <3>3. QED
        BY <3>2 DEF IInv, Used, JoinedByOneInvite
    <2>3. QED
      BY <2>1, <2>2
  <1>2. QED
    BY <1>1, Invariant, PTL

\* An invite an owner was told about with 201 is never lost, whichever of the
\* requests that share it fails.
THEOREM InvitesStay == Spec => []InvitedIsFound
  <1>1. IInv => InvitedIsFound
    BY DEF IInv
  <1>2. QED
    BY <1>1, Invariant, PTL

\* No invitation, acceptance or direct addition changes the role of a member.
THEOREM RolesAreFinal == Spec => RoleIsFinal
  <1>1. IInv /\ [Next]_vars => [member # NoRole => member' = member]_vars
    <2> SUFFICES ASSUME IInv, Next, member # NoRole PROVE member' = member
      OBVIOUS
    <2>1. ASSUME NEW o \in Owners, InviteStep(o) PROVE member' = member
      BY <2>1 DEF InviteStep, AddMember, TurnedAway, DraftInvite, ReuseInvite,
                  TooManyPending, MailSent, InviteRolledBack, CommitInvite
    <2>2. QED
      BY <2>1 DEF Next, FindTarget, Login, CheckInvite, AcceptInvite, AlreadyMember, Expire
  <1>2. QED
    BY <1>1, Invariant, PTL DEF Spec, RoleIsFinal

-----------------------------------------------------------------------------
(* What it takes for an address to have two pending invites *)

\* At most one request holds an invite that nobody else can see yet.
OneDraft == \A i \in Ids, j \in Ids : IsDraft(i) /\ IsDraft(j) => i = j

\* A draft was made when nothing was pending, and nothing has become so.
DraftsAreFirst ==
    /\ \A i \in Pending, j \in Pending : i = j
    /\ \A i \in Ids : IsDraft(i) => Pending = {}

\* A draft is held by the request that mails it.
DraftsAreHeld == \A i \in Ids : IsDraft(i) => \E o \in Owners : Sending(o) /\ ask[o].id = i

\* Only a draft becomes pending, and only at a commit.
LEMMA PendingStep ==
    ASSUME IInv, OneDraft, DraftsAreFirst, [Next]_vars
    PROVE  DraftsAreFirst'
  <1> USE DEF IInv
  <1>1. ASSUME NEW o \in Owners, NEW k \in Ids, DraftInvite(o, k) PROVE DraftsAreFirst'
    <2>1. \A j \in Ids : j # k => invites'[j] = invites[j]
      BY <1>1 DEF DraftInvite, TypeOK
    <2>2. invites'[k].state = "draft" /\ Pending = {} /\ expired' = expired
      BY <1>1 DEF DraftInvite, TypeOK
    <2>3. Pending' = {}
      BY <2>1, <2>2 DEF Pending
    <2>4. QED
      BY <2>3 DEF DraftsAreFirst
  <1>2. ASSUME NEW o \in Owners, CommitInvite(o) PROVE DraftsAreFirst'
    <2> DEFINE k == ask[o].id
    <2>1. \A j \in Ids : ~(j = k /\ IsDraft(j)) => invites'[j] = invites[j]
      BY <1>2 DEF CommitInvite
    <2>2. \A j \in Ids : j = k /\ IsDraft(j) => invites'[j].state = "pending"
      BY <1>2 DEF CommitInvite, TypeOK, Invite
    <2>3. expired' = expired
      BY <1>2 DEF CommitInvite
    <2> HIDE DEF k
    <2>4. CASE IsDraft(k)
      <3>1. Pending' \subseteq {k}
        BY <2>1, <2>3, <2>4 DEF DraftsAreFirst, Pending, IsDraft
      <3>2. \A j \in Ids : ~IsDraft(j)'
        BY <2>1, <2>2, <2>4 DEF OneDraft, IsDraft
      <3>3. QED
        BY <3>1, <3>2 DEF DraftsAreFirst
    <2>5. CASE ~IsDraft(k)
      <3>1. \A j \in Ids : invites'[j] = invites[j]
        BY <2>1, <2>5
      <3>2. QED
        BY <2>3, <3>1 DEF DraftsAreFirst, Pending, IsDraft
    <2>6. QED
      BY <2>4, <2>5
  <1>3. ASSUME \A j \in Ids : invites'[j].state = "pending" => invites[j].state = "pending",
               \A j \in Ids : invites'[j].state = "draft" => invites[j].state = "draft",
               expired \subseteq expired'
        PROVE  DraftsAreFirst'
    BY <1>3 DEF DraftsAreFirst, Pending, IsDraft
  <1>4. ASSUME NEW o \in Owners, InviteRolledBack(o) PROVE DraftsAreFirst'
    BY <1>3, <1>4 DEF InviteRolledBack, NoInvite
  <1>5. ASSUME NEW a \in Accepters, AcceptInvite(a) PROVE DraftsAreFirst'
    <2>1. \A j \in Ids : invites'[j] = invites[j] \/ invites'[j].state = "accepted"
      BY <1>5 DEF AcceptInvite, TypeOK, Invite
    <2>2. expired' = expired
      BY <1>5 DEF AcceptInvite
    <2>3. QED
      BY <1>3, <2>1, <2>2
  <1>6. CASE \/ \E o \in Owners, role \in Roles : FindTarget(o, role)
             \/ \E o \in Owners : AddMember(o) \/ TurnedAway(o) \/ ReuseInvite(o)
                                  \/ TooManyPending(o) \/ MailSent(o)
             \/ Login
             \/ \E a \in Accepters, i \in Ids : CheckInvite(a, i)
             \/ \E a \in Accepters : AlreadyMember(a)
             \/ \E i \in Ids : Expire(i)
             \/ UNCHANGED vars
    <2>1. invites' = invites /\ expired \subseteq expired'
      BY <1>6 DEF FindTarget, AddMember, TurnedAway, ReuseInvite, TooManyPending, MailSent,
                  Login, CheckInvite, AlreadyMember, Expire, vars
    <2>2. QED
      BY <1>3, <2>1
  <1>7. QED
    BY <1>1, <1>2, <1>4, <1>5, <1>6 DEF Next, InviteStep

\* At most one pending invite is at most one member of the set.
LEMMA OnePending ==
    ASSUME DraftsAreFirst
    PROVE  OnePendingInvite
  <1>1. CASE Pending = {}
    BY <1>1, FS_EmptySet DEF OnePendingInvite
  <1>2. CASE Pending # {}
    <2>1. PICK i : Pending = {i}
      BY <1>2 DEF DraftsAreFirst
    <2>2. Cardinality(Pending) = 1
      BY <2>1, FS_Singleton
    <2>3. QED
      BY <2>2 DEF OnePendingInvite
  <1>3. QED
    BY <1>1, <1>2

\* Inviting an address again leaves one pending invite unless two requests held
\* a draft for it at the same time: the window from the lookup to the commit,
\* with the mail in it, is the only way to a second one. Expiry, accept requests
\* and mails that fail do not lead there.
THEOREM OnlyDraftsTogetherMakeTwo == Spec /\ []OneDraft => []OnePendingInvite
  <1>1. Init => IInv /\ DraftsAreFirst
    BY InvInit DEF Init, DraftsAreFirst, Pending, IsDraft, NoInvite
  <1>2. IInv /\ DraftsAreFirst /\ OneDraft /\ [Next]_vars => IInv' /\ DraftsAreFirst'
    BY InvNext, PendingStep
  <1>3. DraftsAreFirst => OnePendingInvite
    BY OnePending
  <1>4. QED
    BY <1>1, <1>2, <1>3, PTL DEF Spec

\* A draft disappears with the request that made it.
LEMMA HeldStep ==
    ASSUME IInv, DraftsAreHeld, [Next]_vars
    PROVE  DraftsAreHeld'
  <1> USE DEF IInv
  <1>1. ASSUME NEW o \in Owners, NEW k \in Ids, DraftInvite(o, k) PROVE DraftsAreHeld'
    <2>1. \A j \in Ids : j # k => invites'[j] = invites[j]
      BY <1>1 DEF DraftInvite, TypeOK
    <2>2. \A p \in Owners : p # o => ask'[p] = ask[p]
      BY <1>1 DEF DraftInvite, TypeOK
    <2>3. Sending(o)' /\ ask'[o].id = k /\ ~Sending(o)
      BY <1>1 DEF DraftInvite, TypeOK, Sending
    <2>4. QED
      BY <2>1, <2>2, <2>3 DEF DraftsAreHeld, IsDraft, Sending
  <1>2. ASSUME NEW o \in Owners, CommitInvite(o) \/ InviteRolledBack(o) PROVE DraftsAreHeld'
    <2>1. \A j \in Ids : IsDraft(j)' => IsDraft(j) /\ j # ask[o].id
      BY <1>2 DEF CommitInvite, InviteRolledBack, IsDraft, NoInvite, TypeOK, Invite
    <2>2. \A p \in Owners : p # o => ask'[p] = ask[p]
      BY <1>2 DEF CommitInvite, InviteRolledBack, Done, TypeOK
    <2>3. QED
      BY <2>1, <2>2 DEF DraftsAreHeld, Sending
  <1>3. ASSUME NEW a \in Accepters, AcceptInvite(a) PROVE DraftsAreHeld'
    <2>1. \A j \in Ids : IsDraft(j)' => IsDraft(j)
      BY <1>3 DEF AcceptInvite, IsDraft, TypeOK, Invite
    <2>2. ask' = ask
      BY <1>3 DEF AcceptInvite
    <2>3. QED
      BY <2>1, <2>2 DEF DraftsAreHeld, Sending
  <1>4. ASSUME NEW o \in Owners,
               \/ \E role \in Roles : FindTarget(o, role)
               \/ AddMember(o) \/ TurnedAway(o) \/ ReuseInvite(o) \/ TooManyPending(o)
        PROVE  DraftsAreHeld'
    <2>1. invites' = invites /\ ~Sending(o)
      BY <1>4 DEF FindTarget, AddMember, TurnedAway, ReuseInvite, TooManyPending, Sending
    <2>2. \A p \in Owners : p # o => ask'[p] = ask[p]
      BY <1>4 DEF FindTarget, AddMember, TurnedAway, ReuseInvite, TooManyPending, Done, TypeOK
    <2>3. QED
      BY <2>1, <2>2 DEF DraftsAreHeld, IsDraft, Sending
  <1>5. ASSUME NEW o \in Owners, MailSent(o) PROVE DraftsAreHeld'
    <2>1. invites' = invites /\ \A p \in Owners : p # o => ask'[p] = ask[p]
      BY <1>5 DEF MailSent, TypeOK
    <2>2. Sending(o)' /\ ask'[o].id = ask[o].id
      BY <1>5 DEF MailSent, TypeOK, Ask, Sending
    <2>3. QED
      BY <2>1, <2>2 DEF DraftsAreHeld, IsDraft, Sending
  <1>6. CASE \/ Login
             \/ \E a \in Accepters, i \in Ids : CheckInvite(a, i)
             \/ \E a \in Accepters : AlreadyMember(a)
             \/ \E i \in Ids : Expire(i)
             \/ UNCHANGED vars
    <2>1. UNCHANGED <<invites, ask>>
      BY <1>6 DEF Login, CheckInvite, AlreadyMember, Expire, vars
    <2>2. QED
      BY <2>1 DEF DraftsAreHeld, IsDraft, Sending
  <1>7. QED
    BY <1>1, <1>2, <1>3, <1>4, <1>5, <1>6 DEF Next, InviteStep

\* What the test expects of a single client holds for a single owner, whatever the
\* invited person does meanwhile and however often the mail fails.
THEOREM OneOwnerLeavesOnePending ==
    ASSUME \A o \in Owners, p \in Owners : o = p
    PROVE  Spec => []OnePendingInvite
  <1>1. Init => DraftsAreHeld
    BY DEF Init, DraftsAreHeld, IsDraft, NoInvite
  <1>2. IInv /\ DraftsAreHeld /\ [Next]_vars => DraftsAreHeld'
    BY HeldStep
  <1>3. DraftsAreHeld => OneDraft
    BY DEF DraftsAreHeld, OneDraft
  <1>4. QED
    BY <1>1, <1>2, <1>3, Invariant, OnlyDraftsTogetherMakeTwo, PTL DEF Spec

-----------------------------------------------------------------------------
(* How far concurrent requests can exceed a rate limit *)

RateInv == RateTypeOK /\ OverrunBounded

\* The counted rows and the counted requests are finitely many.
LEMMA CountsAreNaturals ==
    ASSUME NEW H \in SUBSET Hits, NEW S \in SUBSET Slots
    PROVE  /\ IsFiniteSet(H)
           /\ IsFiniteSet(S)
           /\ Cardinality(H) \in Nat
           /\ Cardinality(S) \in Nat
           /\ Cardinality(Slots) \in Nat
           /\ Cardinality(S) <= Cardinality(Slots)
  <1>1. IsFiniteSet(Hits) /\ IsFiniteSet(Slots)
    BY RateAssumption
  <1>2. IsFiniteSet(H) /\ IsFiniteSet(S) /\ Cardinality(S) <= Cardinality(Slots)
    BY <1>1, FS_Subset
  <1>3. QED
    BY <1>1, <1>2, FS_CardinalityType

\* The age of a row or a request stays in its range when a tick passes, and an
\* expired one stays expired.
LEMMA OlderType ==
    ASSUME NEW a \in Ages
    PROVE  Older(a) \in Ages /\ (Older(a) <= Window => a <= Window)
  BY RateAssumption, SMT DEF Older, Ages, Expired

\* At the beginning there are no rows and no requests.
LEMMA RateInvInit == RateInit => RateInv
  <1> SUFFICES ASSUME RateInit PROVE RateInv
    OBVIOUS
  <1>1. RateTypeOK
    BY RateAssumption, SMT DEF RateInit, RateTypeOK, Request, NoRequest, Ages, Expired
  <1>2. InWindow = {}
    BY RateAssumption, SMT DEF RateInit, InWindow, Expired
  <1>3. Counted = {}
    BY DEF RateInit, Counted, NoRequest
  <1>4. Cardinality({}) = 0
    BY FS_EmptySet
  <1>5. Cardinality(Slots) \in Nat
    BY CountsAreNaturals
  <1>6. OverrunBounded
    BY <1>2, <1>3, <1>4, <1>5, RateAssumption DEF OverrunBounded, RecentCount
  <1> QED
    BY <1>1, <1>6 DEF RateInv

\* A step that lets nobody through and adds no row keeps the bound.
LEMMA NoneAdded ==
    ASSUME RateInv, InWindow' \subseteq InWindow, Counted' \subseteq Counted
    PROVE  OverrunBounded'
  <1>1. InWindow \subseteq Hits /\ Counted \subseteq Slots
    BY DEF InWindow, Counted
  <1>2. /\ RecentCount \in Nat /\ RecentCount' \in Nat /\ RecentCount' <= RecentCount
        /\ Cardinality(Counted) \in Nat /\ Cardinality(Counted') \in Nat
        /\ Cardinality(Counted') <= Cardinality(Counted)
    BY <1>1, CountsAreNaturals, FS_Subset DEF RecentCount
  <1>3. Cardinality(Slots) \in Nat /\ MaxCalls \in Nat
    BY CountsAreNaturals, RateAssumption
  <1> QED
    BY <1>2, <1>3 DEF RateInv, OverrunBounded

\* Each step of a request, and each tick, preserves the invariant.
LEMMA RateInvNext == RateInv /\ [RateNext]_rateVars => RateInv'
  <1> SUFFICES ASSUME RateInv, [RateNext]_rateVars PROVE RateInv'
    OBVIOUS
  <1> USE DEF RateInv
  <1>0. RateTypeOK /\ OverrunBounded
    OBVIOUS
  <1>t. 0 \in Ages
    BY RateAssumption DEF Ages, Expired
  <1>i. NoRequest \in Request
    BY <1>t DEF NoRequest, Request
  <1>1. ASSUME NEW s \in Slots, Begin(s) PROVE RateInv'
    <2>1. RateTypeOK'
      BY <1>0, <1>1 DEF RateTypeOK, Begin, Request
    <2>2. InWindow' \subseteq InWindow
      BY <1>1 DEF Begin, InWindow
    <2>3. Counted' \subseteq Counted
      BY <1>0, <1>1 DEF Begin, Counted, RateTypeOK, Request
    <2> QED
      BY <2>1, <2>2, <2>3, NoneAdded
  <1>2. ASSUME NEW s \in Slots, Count(s) PROVE RateInv'
    <2>1. RateTypeOK'
      BY <1>0, <1>2 DEF RateTypeOK, Count, Request
    <2>2. InWindow' = InWindow
      BY <1>2 DEF Count, InWindow
    <2>3. RecentCount' = RecentCount /\ RecentCount < MaxCalls
      BY <1>2, <2>2 DEF Count, RecentCount
    <2>4. InWindow \subseteq Hits /\ Counted' \subseteq Slots
      BY DEF InWindow, Counted
    <2>5. /\ RecentCount \in Nat /\ Cardinality(Counted') \in Nat /\ Cardinality(Slots) \in Nat
          /\ Cardinality(Counted') <= Cardinality(Slots)
      BY <2>4, CountsAreNaturals DEF RecentCount
    <2>6. OverrunBounded'
      BY <2>3, <2>5, RateAssumption DEF OverrunBounded
    <2> QED
      BY <2>1, <2>6
  <1>3. ASSUME NEW s \in Slots, Refuse(s) \/ Leave(s) PROVE RateInv'
    <2>1. RateTypeOK'
      BY <1>0, <1>3, <1>i DEF RateTypeOK, Refuse, Leave
    <2>2. InWindow' \subseteq InWindow
      BY <1>3 DEF Refuse, Leave, InWindow
    <2>3. Counted' \subseteq Counted
      BY <1>0, <1>3 DEF Refuse, Leave, Counted, RateTypeOK, NoRequest
    <2> QED
      BY <2>1, <2>2, <2>3, NoneAdded
  <1>4. ASSUME NEW s \in Slots, Record(s) PROVE RateInv'
    <2>1. PICK h \in Hits \ InWindow : age' = [age EXCEPT ![h] = req[s].age]
      BY <1>4 DEF Record
    <2>2. RateTypeOK'
      BY <1>0, <1>4, <1>i, <2>1 DEF RateTypeOK, Record, Request
    <2>3. InWindow' \subseteq InWindow \cup {h}
      BY <1>0, <2>1 DEF InWindow, RateTypeOK
    <2>4. Counted' = Counted \ {s} /\ s \in Counted
      BY <1>0, <1>4 DEF Record, Counted, RateTypeOK, NoRequest
    <2>5. InWindow \subseteq Hits /\ InWindow' \subseteq Hits /\ Counted \subseteq Slots
      BY DEF InWindow, Counted
    <2>6. IsFiniteSet(InWindow) /\ IsFiniteSet(Counted)
      BY <2>5, CountsAreNaturals
    <2>7. Cardinality(Counted') = Cardinality(Counted) - 1
      BY <2>4, <2>6, FS_RemoveElement
    <2>8. RecentCount' <= RecentCount + 1
      <3>1. /\ Cardinality(InWindow \cup {h}) = RecentCount + 1
            /\ IsFiniteSet(InWindow \cup {h})
        BY <2>1, <2>6, FS_AddElement DEF RecentCount
      <3> QED
        BY <2>3, <3>1, FS_Subset DEF RecentCount
    <2>9. /\ RecentCount \in Nat /\ RecentCount' \in Nat
          /\ Cardinality(Counted) \in Nat /\ Cardinality(Slots) \in Nat
      BY <2>5, CountsAreNaturals DEF RecentCount
    <2>10. OverrunBounded'
      BY <1>0, <2>7, <2>8, <2>9, RateAssumption DEF OverrunBounded
    <2> QED
      BY <2>2, <2>10
  <1>5. ASSUME Tick PROVE RateInv'
    <2>1. \A s \in Slots : [req[s] EXCEPT !.age = Older(@)] \in Request
      BY <1>0, OlderType DEF RateTypeOK, Request
    <2>2. RateTypeOK'
      BY <1>0, <1>5, <2>1, OlderType DEF RateTypeOK, Tick
    <2>3. InWindow' \subseteq InWindow
      BY <1>0, <1>5, OlderType DEF Tick, InWindow, RateTypeOK
    <2>4. Counted' \subseteq Counted
      BY <1>0, <1>5 DEF Tick, Counted, RateTypeOK, Request
    <2> QED
      BY <2>2, <2>3, <2>4, NoneAdded
  <1>6. ASSUME UNCHANGED rateVars PROVE RateInv'
    <2>1. RateTypeOK'
      BY <1>0, <1>6 DEF RateTypeOK, rateVars
    <2>2. InWindow' \subseteq InWindow /\ Counted' \subseteq Counted
      BY <1>6 DEF rateVars, InWindow, Counted
    <2> QED
      BY <2>1, <2>2, NoneAdded
  <1> QED
    BY <1>1, <1>2, <1>3, <1>4, <1>5, <1>6 DEF RateNext

\* The hits and the requests keep their types and their ages.
THEOREM RatesAreTyped == RateSpec => []RateTypeOK
  <1>1. RateInv => RateTypeOK
    BY DEF RateInv
  <1> QED
    BY RateInvInit, RateInvNext, <1>1, PTL DEF RateSpec

\* The limit is exceeded by fewer calls than there are requests in flight,
\* whatever the interleaving of counts, inserts, deaths and ticks.
THEOREM OverrunIsBounded == RateSpec => []OverrunBounded
  <1>1. RateInv => OverrunBounded
    BY DEF RateInv
  <1> QED
    BY RateInvInit, RateInvNext, <1>1, PTL DEF RateSpec

\* Requests that come one after the other never exceed the limit.
THEOREM SequentialLimitHolds ==
    ASSUME Cardinality(Slots) = 1
    PROVE  RateSpec => []LimitHolds
  <1>1. RateInv => LimitHolds
    <2> SUFFICES ASSUME RateInv PROVE LimitHolds
      OBVIOUS
    <2>1. InWindow \subseteq Hits /\ Counted \subseteq Slots
      BY DEF InWindow, Counted
    <2>2. RecentCount \in Nat /\ Cardinality(Counted) \in Nat
      BY <2>1, CountsAreNaturals DEF RecentCount
    <2> QED
      BY <2>2, RateAssumption DEF RateInv, OverrunBounded, LimitHolds
  <1> QED
    BY RateInvInit, RateInvNext, <1>1, PTL DEF RateSpec

-----------------------------------------------------------------------------
(* The endpoint behind its limit *)

\* Every step of a request behind the limiter is a step of the invite endpoints
\* and a step of the limiter, or leaves one of the two alone: all that is proved
\* of either holds of the two together.
THEOREM RequestsFollowBoth == RequestSpec => Spec /\ RateSpec
  <1>1. [RequestNext]_requestVars => [Next]_vars
    <2> SUFFICES ASSUME [RequestNext]_requestVars PROVE [Next]_vars
      OBVIOUS
    <2>1. ASSUME NEW o \in Owners, Receive(o) PROVE Next
      BY <2>1 DEF Receive, Next
    <2>2. ASSUME NEW o \in Owners, PassLimiter(o) PROVE UNCHANGED vars
      BY <2>2 DEF PassLimiter
    <2>3. ASSUME NEW o \in Owners, TooManyRequests(o) \/ Unlimited(o) \/ LetThrough(o) PROVE Next
      <3>1. InviteStep(o)
        BY <2>3 DEF TooManyRequests, Unlimited, LetThrough, InviteStep
      <3> QED
        BY <3>1 DEF Next
    <2>4. ASSUME Join PROVE Next
      BY <2>4 DEF Join, Next
    <2> QED
      BY <2>1, <2>2, <2>3, <2>4 DEF RequestNext, Time, requestVars
  <1>2. [RequestNext]_requestVars => [RateNext]_rateVars
    <2> SUFFICES ASSUME [RequestNext]_requestVars PROVE [RateNext]_rateVars
      OBVIOUS
    <2>1. ASSUME NEW o \in Owners,
                 Receive(o) \/ PassLimiter(o) \/ TooManyRequests(o) \/ Unlimited(o)
          PROVE  RateNext
      <3>1. Begin(o) \/ Count(o) \/ Record(o) \/ Refuse(o) \/ Leave(o)
        BY <2>1 DEF Receive, PassLimiter, TooManyRequests, Unlimited
      <3> QED
        BY <3>1, LimiterAssumption DEF RateNext
    <2>2. ASSUME NEW o \in Owners, LetThrough(o) PROVE UNCHANGED rateVars
      BY <2>2 DEF LetThrough
    <2>3. ASSUME Join PROVE UNCHANGED rateVars
      BY <2>3 DEF Join
    <2>4. ASSUME Time PROVE RateNext
      BY <2>4 DEF Time, RateNext
    <2> QED
      BY <2>1, <2>2, <2>3, <2>4 DEF RequestNext, requestVars
  <1> QED
    BY <1>1, <1>2, PTL DEF RequestSpec, RequestInit, Spec, RateSpec
=============================================================================
