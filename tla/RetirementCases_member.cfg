SPECIFICATION Spec
CONSTANTS
    Employments = {e1, e2}
    Dates = {1, 2}
    InitialStatuses = {"active", "annuitant", "on_leave"}
    Cases = {c1, c2}
    Annuities = {0, 1}
    MaxPayments = 1
SYMMETRY Symmetry
INVARIANTS
    SeparatedWorksNowhere
    LeaveCanEnd
    OneOpenCase
    ApprovalIsWhole
    FirstPaymentOnce
PROPERTIES
    EndsAreFinal
    ApprovedAmountsAreLocked
