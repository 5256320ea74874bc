\* Estimates for two members' files and many calculations, then the paychecks of one annuity.
SPECIFICATION PaycheckSpec
CONSTANTS
    MonthDays = 30
    Never = Never
    Unbounded = Unbounded
    MaxTableAge = 5
    JsFactor <- MCJsFactor
    ReversionaryFactor <- MCReversionaryFactor
    Members <- MCMembers
    Retirements <- MCRetirements
    SickDays = {0, 130}
    OptionForms <- MCOptionForms
    Slots <- MCSlots
    Requests <- MCRequests
    Fund <- MCFund
    ImportedOrders <- MCImportedOrders
    OrderForms <- MCOrderForms
    ElectionForms <- MCElectionForms
    MaxElections = 3
    PayDays = {1, 2, 3}
    Federal <- MCFederal
    State <- MCState
INVARIANTS
    LaterIsNotLess
    BandsAreMarginal
    FinalAverageIsBest
    TaxIsMarginal
    PaycheckIsWhole
CHECK_DEADLOCK FALSE
