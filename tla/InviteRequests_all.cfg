\* Two owners invite a person who may be accepting other invites meanwhile; one
\* invitation per window.
SPECIFICATION RequestSpec
CONSTANTS
    Owners = {o1, o2}
    Slots = {o1, o2}
    Accepters = {a1, a2}
    Ids = {i1, i2}
    Roles = {member, viewer}
    NoId = NoId
    NoRole = NoRole
    Hits = {r1, r2}
    MaxCalls = 1
    Window = 1
INVARIANTS
    TypeOK
    JoinedByOneInvite
    InvitedIsFound
    RateTypeOK
    OverrunBounded
PROPERTIES
    RoleIsFinal
    Reopens
