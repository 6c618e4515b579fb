\* The test's expectation, with two owners at the same time.
SPECIFICATION Spec
CONSTANTS
    Owners = {o1, o2}
    Accepters = {a1}
    Ids = {i1, i2}
    Roles = {member}
    NoId = NoId
    NoRole = NoRole
INVARIANT
    OnePendingInvite
CHECK_DEADLOCK FALSE
