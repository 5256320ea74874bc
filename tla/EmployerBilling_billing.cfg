\* One invoice, two connections, up to two rate rows of any specificity.
SPECIFICATION Spec
CONSTANTS
    Employers = {"uni"}
    EmploymentTypes = {"police", "staff"}
    Every = Every
    Days = {1, 2, 3}
    Invoices = {i1}
    Workers = {w1, w2}
    Employer = "uni"
    RateRows <- MCRateRows
    MaxRates = 2
    FiledReports <- MCReports
    Charges <- MCCharges
    Amounts <- MCAmounts
    InterestRate = 73
    MaxPayments = 2
    MaxInterest = 1
SYMMETRY Symmetry
INVARIANTS
    CacheAgreesUnlessShadowed
    AmountPaidIsReceived
    PaidIsCovered
PROPERTIES
    SettledIsFinal
\* A settled invoice and a full rate table leave nothing to do.
CHECK_DEADLOCK FALSE
