\* Two payments, two batches; a payment may be created with a line of its own, and
\* net pay finds no election, which leaves no row, or one that withholds.
SPECIFICATION Spec
CONSTANTS
    Payments = {p1, p2}
    Batches = {b1, b2}
    NoBatch = NoBatch
    SurvivorPayments = {p1, p2}
    Amounts = {9}
    ManualLines <- MCManualLines
    OrderSets <- MCOrderSets
    Elections = {"none", "formula"}
    NoElection = "none"
    Tax <- Quarter
SYMMETRY Symmetry
INVARIANTS
    EventsRecordTheLifecycle
    SentUnderOneBatch
    LeavesWhole
    BatchCoversItsMembers
    NetIsGrossMinusDeductions
PROPERTIES
    LedgerWrittenOnce
    DispatchedOnce
