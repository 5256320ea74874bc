SPECIFICATION TxSpec
CONSTANTS
    Payments = {p1}
    Batches = {b1, b2}
    Workers = {w1, w2}
    NoBatch = NoBatch
    SurvivorPayments = {p1}
    Amounts = {9}
    ManualLines <- NoManualLines
    OrderSets <- OnlyNoOrders
    Elections = {"none"}
    NoElection = "none"
    Tax <- QuarterOrExempt
INVARIANTS
    SentUnderOneBatch
SYMMETRY Symmetry
