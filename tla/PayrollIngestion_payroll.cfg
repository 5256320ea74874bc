\* Three reports of any file: the same one twice, overlapping, or one after another.
SPECIFICATION Spec
CONSTANTS
    Employers = {"uni", "college"}
    EmploymentTypes = {"staff", "police"}
    Every = Every
    None = None
    Days <- MCDays
    Reports = {a, b, c}
    Files <- MCFiles
    Jobs <- MCJobs
    Plans <- MCPlans
    Rates <- MCRates
    Validation <- MCValidation
    AllowedTypes <- MCAllowedTypes
    AccrualRule <- MCAccrualRule
    AnnualCap <- MCAnnualCap
    MonthDays = 2
    YearMonths = 2
INVARIANTS
    RowsTellTheLedger
    PostedOncePerPeriod
    CapHolds
    CutCreditIsFlagged
    BilledIsWarned
CHECK_DEADLOCK FALSE
