SPECIFICATION TxSpec
CONSTANTS
    Payments = {p1}
    Batches = {b1}
    Workers = {w1, w2}
    NoBatch = NoBatch
    SurvivorPayments = {p1}
    Amounts = {9}
    ManualLines <- NoManualLines
    OrderSets <- OnlyTwoOrders
    Elections = {"none"}
    NoElection = "none"
    Tax <- QuarterOrExempt
INVARIANTS
    MarksAreBacked
SYMMETRY Symmetry
