\* Two workers at every desk, a third writer of configurations; three rows and three
\* days, for dates to be equal or to come in reverse order.
SPECIFICATION Spec
CONSTANTS
    Writers = {u, v, w}
    Workers = {u, v}
    Dates <- MCDates
    Never = Never
    MaxRows = 3
    Tiers = {tier1, tier2}
    Types = {traditional, portable}
    None = None
INVARIANTS
    OnePrimary
    OneActive
    LatestInForce
PROPERTIES
    FinalStays
CHECK_DEADLOCK FALSE
