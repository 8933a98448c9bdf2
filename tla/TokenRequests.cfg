CONSTANTS
    q1 = q1
    ours = ours
    other = other
    Requests = {q1}
    Servers = {ours, other}
    Ours = ours
    PingTrigger = TRUE
SPECIFICATION Spec
INVARIANTS
    MembershipGuards
    NoLingeringRoom
    DelegationIsEarned
    AsTokenStaysHome
    RelayedAtMostOnce
    PublishersHaveRooms
