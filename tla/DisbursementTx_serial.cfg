SPECIFICATION TxSpec
CONSTANTS
    Payments = {p1, p2}
    Batches = {b1}
    Workers = {w1}
    NoBatch = NoBatch
    SurvivorPayments = {p1}
    Amounts = {9}
    ManualLines <- NoManualLines
    OrderSets <- MCOrderSets
    Elections = {"none"}
    NoElection = "none"
    Tax <- QuarterOrExempt
PROPERTIES
    Serializable
