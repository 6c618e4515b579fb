------------------------------ MODULE Invites ------------------------------
(***************************************************************************)
(* How one person, known by an email address, gets into one household:     *)
(* invite_member (api/household_members.py), an async handler that holds   *)
(* its transaction open while it awaits the mail service, accept_invite    *)
(* (api/invites.py), the person's first login and the passage of time.     *)
(***************************************************************************)
EXTENDS Naturals, FiniteSets

CONSTANTS
    Owners,     \* invite requests in flight
    Accepters,  \* accept requests in flight
    Ids,        \* household_invites rows that may ever be created
    Roles,      \* roles an invite can carry
    NoId, NoRole

ASSUME InvitesAssumption ==
    /\ IsFiniteSet(Ids)
    /\ NoId \notin Ids
    /\ NoRole \notin Roles

VARIABLES
    user,       \* an app_users row with this email exists
    member,     \* the role in household_members, NoRole if there is no row
    invites,    \* each row's state and role
    expired,    \* the rows whose expires_at has passed
    ask,        \* the invite requests
    acc,        \* the accept requests
    told        \* the invites an owner was told about with 201

vars == <<user, member, invites, expired, ask, acc, told>>

Invite == [state : {"absent", "draft", "pending", "accepted"}, role : Roles \cup {NoRole}]
NoInvite == [state |-> "absent", role |-> NoRole]

Ask == [pc : {"idle", "adding", "looking", "mailing", "sent"},
        role : Roles \cup {NoRole}, id : Ids \cup {NoId}]
NoAsk == [pc |-> "idle", role |-> NoRole, id |-> NoId]

TypeOK ==
    /\ user \in BOOLEAN
    /\ member \in Roles \cup {NoRole}
    /\ invites \in [Ids -> Invite]
    /\ expired \subseteq Ids
    /\ ask \in [Owners -> Ask]
    /\ acc \in [Accepters -> Ids \cup {NoId}]
    /\ told \subseteq Ids

Init ==
    /\ user = FALSE
    /\ member = NoRole
    /\ invites = [i \in Ids |-> NoInvite]
    /\ expired = {}
    /\ ask = [o \in Owners |-> NoAsk]
    /\ acc = [a \in Accepters |-> NoId]
    /\ told = {}

Done(o) == ask' = [ask EXCEPT ![o] = NoAsk]

-----------------------------------------------------------------------------
(* invite_member *)

FindTarget(o, role) ==
    /\ ask[o].pc = "idle"
    /\ ask' = [ask EXCEPT ![o] = [pc |-> IF user THEN "adding" ELSE "looking",
                                  role |-> role, id |-> NoId]]
    /\ UNCHANGED <<user, member, invites, expired, acc, told>>

\* A different program: adding a member is an upsert.
AddOrUpdateMember(o) ==
    /\ ask[o].pc = "adding"
    /\ member' = ask[o].role
    /\ Done(o)
    /\ UNCHANGED <<user, invites, expired, acc, told>>

\* The flush is refused (409) if the person is a member already.
AddMember(o) ==
    /\ ask[o].pc = "adding"
    /\ member' = IF member = NoRole THEN ask[o].role ELSE member
    /\ Done(o)
    /\ UNCHANGED <<user, invites, expired, acc, told>>

\* 429 by check_and_record_rate_limit (InviteRequests says when), or the server
\* process dies before the request has inserted anything.
TurnedAway(o) ==
    /\ ask[o].pc \in {"adding", "looking"}
    /\ Done(o)
    /\ UNCHANGED <<user, member, invites, expired, acc, told>>

Pending == {i \in Ids : invites[i].state = "pending" /\ i \notin expired}

\* The row is flushed, but nobody else sees it before the commit.
DraftInvite(o, i) ==
    /\ ask[o].pc = "looking"
    /\ Pending = {}
    /\ invites[i] = NoInvite
    /\ invites' = [invites EXCEPT ![i] = [state |-> "draft", role |-> ask[o].role]]
    /\ ask' = [ask EXCEPT ![o] = [pc |-> "mailing", role |-> ask[o].role, id |-> i]]
    /\ UNCHANGED <<user, member, expired, acc, told>>

ReuseInvite(o) ==
    /\ ask[o].pc = "looking"
    /\ \E i \in Ids :
           /\ Pending = {i}
           /\ ask' = [ask EXCEPT ![o] = [pc |-> "mailing", role |-> ask[o].role, id |-> i]]
    /\ UNCHANGED <<user, member, invites, expired, acc, told>>

\* one_or_none raises MultipleResultsFound.
TooManyPending(o) ==
    /\ ask[o].pc = "looking"
    /\ Cardinality(Pending) > 1
    /\ Done(o)
    /\ UNCHANGED <<user, member, invites, expired, acc, told>>

MailSent(o) ==
    /\ ask[o].pc = "mailing"
    /\ ask' = [ask EXCEPT ![o].pc = "sent"]
    /\ UNCHANGED <<user, member, invites, expired, acc, told>>

IsDraft(i) == i \in Ids /\ invites[i].state = "draft"

\* A different program: a failed mail deletes the invite, its own or not.
InviteDeleted(o) ==
    /\ ask[o].pc \in {"mailing", "sent"}
    /\ invites' = [i \in Ids |-> IF i = ask[o].id THEN NoInvite ELSE invites[i]]
    /\ Done(o)
    /\ UNCHANGED <<user, member, expired, acc, told>>

\* The mail service answers with an error or too late (503), or the server
\* process dies before the commit: the draft is rolled back.
InviteRolledBack(o) ==
    /\ ask[o].pc \in {"mailing", "sent"}
    /\ invites' = [i \in Ids |-> IF i = ask[o].id /\ IsDraft(i) THEN NoInvite ELSE invites[i]]
    /\ Done(o)
    /\ UNCHANGED <<user, member, expired, acc, told>>

\* A different program: the answer reads the request's invite after it is reset.
CommitThenForget(o) ==
    /\ ask[o].pc = "sent"
    /\ invites' = [i \in Ids |-> IF i = ask[o].id /\ IsDraft(i)
                                 THEN [invites[i] EXCEPT !.state = "pending"] ELSE invites[i]]
    /\ told' = told \cup {NoAsk.id}
    /\ Done(o)
    /\ UNCHANGED <<user, member, expired, acc>>

CommitInvite(o) ==
    /\ ask[o].pc = "sent"
    /\ invites' = [i \in Ids |-> IF i = ask[o].id /\ IsDraft(i)
                                 THEN [invites[i] EXCEPT !.state = "pending"] ELSE invites[i]]
    /\ told' = told \cup {ask[o].id}
    /\ Done(o)
    /\ UNCHANGED <<user, member, expired, acc>>

-----------------------------------------------------------------------------
(* accept_invite *)

\* get_current_app_user adds the user at the first authenticated request, to
\* this endpoint or to any other.
Login ==
    /\ ~user
    /\ user' = TRUE
    /\ UNCHANGED <<member, invites, expired, ask, acc, told>>

\* 404, 409 and 410 end the request here.
CheckInvite(a, i) ==
    /\ acc[a] = NoId
    /\ user
    /\ invites[i].state = "pending"
    /\ i \notin expired
    /\ acc' = [acc EXCEPT ![a] = i]
    /\ UNCHANGED <<user, member, invites, expired, ask, told>>

AcceptInvite(a) ==
    /\ acc[a] # NoId
    /\ member = NoRole
    /\ member' = invites[acc[a]].role
    /\ invites' = [invites EXCEPT ![acc[a]].state = "accepted"]
    /\ acc' = [acc EXCEPT ![a] = NoId]
    /\ UNCHANGED <<user, expired, ask, told>>

\* A different program: the invite of a member counts as accepted.
AlreadyMemberAccepts(a) ==
    /\ acc[a] # NoId
    /\ member # NoRole
    /\ invites' = [invites EXCEPT ![acc[a]].state = "accepted"]
    /\ acc' = [acc EXCEPT ![a] = NoId]
    /\ UNCHANGED <<user, member, expired, ask, told>>

\* IntegrityError: 409, rolled back.
AlreadyMember(a) ==
    /\ acc[a] # NoId
    /\ member # NoRole
    /\ acc' = [acc EXCEPT ![a] = NoId]
    /\ UNCHANGED <<user, member, invites, expired, ask, told>>

Expire(i) ==
    /\ invites[i].state = "pending"
    /\ i \notin expired
    /\ expired' = expired \cup {i}
    /\ UNCHANGED <<user, member, invites, ask, acc, told>>

InviteStep(o) ==
    \/ AddMember(o)
    \/ TurnedAway(o)
    \/ \E i \in Ids : DraftInvite(o, i)
    \/ ReuseInvite(o)
    \/ TooManyPending(o)
    \/ MailSent(o)
    \/ InviteRolledBack(o)
    \/ CommitInvite(o)

Next ==
    \/ \E o \in Owners, role \in Roles : FindTarget(o, role)
    \/ \E o \in Owners : InviteStep(o)
    \/ Login
    \/ \E a \in Accepters, i \in Ids : CheckInvite(a, i)
    \/ \E a \in Accepters : AcceptInvite(a) \/ AlreadyMember(a)
    \/ \E i \in Ids : Expire(i)

Spec == Init /\ [][Next]_vars

-----------------------------------------------------------------------------
(* Properties *)

Accepted == {i \in Ids : invites[i].state = "accepted"}

\* However many invites are open and however the two ways in interleave, at
\* most one invite is used up, and only by becoming a member with its role.
JoinedByOneInvite ==
    /\ Cardinality(Accepted) <= 1
    /\ \A i \in Accepted : member = invites[i].role

\* A role is decided once: neither a second invite nor an owner who adds the
\* person directly changes or takes back the role of a member.
RoleIsFinal == [][member # NoRole => member' = member]_vars

\* An owner who was told "invited" has left an invite that can be found, also
\* when another request that shares it fails and rolls back.
InvitedIsFound == \A i \in told : invites[i].state \in {"pending", "accepted"}

\* test_reinviting_same_pending_email_reuses_invite: inviting an address again
\* leaves one pending invite.
OnePendingInvite == Cardinality(Pending) <= 1
=============================================================================
