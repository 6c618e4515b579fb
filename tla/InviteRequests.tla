--------------------------- MODULE InviteRequests ---------------------------
(***************************************************************************)
(* Invites behind the limit on their rate. invite_member spends part of    *)
(* its life in check_and_record_rate_limit, whose scope is the household:  *)
(* the requests of the limiter are the invite requests, here all for one   *)
(* address. The limiter commits before an invite is looked for.            *)
(***************************************************************************)
EXTENDS Invites, RateLimit

ASSUME LimiterAssumption == Slots = Owners

requestVars == <<vars, rateVars>>

\* Authentication begins the transaction in which the person is looked up. (That
\* time passes between the two is as if it passed after them.)
Receive(o) == Begin(o) /\ \E role \in Roles : FindTarget(o, role)

\* Nobody with this address yet: the request is counted, and recorded.
PassLimiter(o) ==
    /\ ask[o].pc = "looking"
    /\ Count(o) \/ Record(o)
    /\ UNCHANGED vars

TooManyRequests(o) ==
    /\ ask[o].pc = "looking"
    /\ Refuse(o)
    /\ TurnedAway(o)

\* A user is added without asking the limiter; or the process dies under the request,
\* before it has asked or while it does.
Unlimited(o) == Leave(o) /\ (AddMember(o) \/ TurnedAway(o))

\* The rest of invite_member, once the hit is committed.
LetThrough(o) ==
    /\ req[o].pc = "idle"
    /\ \/ TurnedAway(o)
       \/ \E i \in Ids : DraftInvite(o, i)
       \/ ReuseInvite(o)
       \/ TooManyPending(o)
       \/ MailSent(o)
       \/ InviteRolledBack(o)
       \/ CommitInvite(o)
    /\ UNCHANGED rateVars

\* The person's side, and the expiry of invites.
Join ==
    /\ \/ Login
       \/ \E a \in Accepters, i \in Ids : CheckInvite(a, i)
       \/ \E a \in Accepters : AcceptInvite(a) \/ AlreadyMember(a)
       \/ \E i \in Ids : Expire(i)
    /\ UNCHANGED rateVars

Time == Tick /\ UNCHANGED vars

RequestNext ==
    \/ \E o \in Owners :
           \/ Receive(o) \/ PassLimiter(o) \/ TooManyRequests(o)
           \/ Unlimited(o) \/ LetThrough(o)
    \/ Join
    \/ Time

RequestInit == Init /\ RateInit

\* Time passes, whatever the requests do.
RequestSpec == RequestInit /\ [][RequestNext]_requestVars /\ WF_requestVars(Time)
=============================================================================
