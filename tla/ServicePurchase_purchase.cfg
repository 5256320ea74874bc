\* One claim, two connections: requests on the claim may overlap.
SPECIFICATION Spec
CONSTANTS
    Claims = {c1}
    Workers = {w1, w2}
    PurchaseTypes <- MCTypes
    Settings <- MCSettings
    Salaries <- MCSalaries
    PeriodEnd = 3
    Years = {1}
    Refunds <- MCRefunds
    Amounts <- MCAmounts
    MaxPayments = 3
INVARIANTS
    PaidIsReceived
    CreditIsPaidFor
PROPERTIES
    KeepsThePromise
SYMMETRY Symmetry
