SPECIFICATION Spec
CONSTANTS
    ada = ada
    Callers = {c1, c2}
    Scenarios <- MCScenarios
    MaxCalls <- MCMaxCalls
    MaxCrashes = 1
    Staff = {ada}
    DayType <- MCDayType
    Ask <- MCAsk
    LatePenalty = 1
    AbsentFee = 3
    Salary <- MCSalary
    Opening <- MCOpening
    Adjustable = {"x", "y"}
    AdjusteeOf <- MCAdjusteeOf
    Amounts = {1, 2}
    Manual = FALSE
    Withdrawals = {"w1", "w2"}
    Banks = {"b1", "b2"}
    MonthLength = 4
    CutoffDay = 2
    TaxRate = 10
    PensionRate = 5
    Sheets <- MCSheets
INVARIANTS
    AttendanceKept
    PayAddsUp
    WithdrawalsCovered
    PayslipSound
PROPERTIES
    PublishedIsFinal
CHECK_DEADLOCK FALSE
