\* Three requests: two key ids of Keycloak, two API keys; in time for a key to
\* outlive the cache.
SPECIFICATION Spec
CONSTANTS
    Requests = {r1, r2, r3}
    r1 = r1
    r2 = r2
    r3 = r3
    old = old
    new = new
    k1 = k1
    k2 = k2
    FirstKid = old
    Kids = {old, new}
    Keys = {k1, k2}
    Calls <- MCCalls
    TTL = 1
    MaxClock = 2
    None = None
INVARIANTS
    RotationIsFollowed
    WithdrawnKeysExpire
PROPERTIES
    EveryRequestAnswered
CHECK_DEADLOCK FALSE
