\* Three events of the environment, any number of runs.
SPECIFICATION Spec
CONSTANTS
    fjellvik = fjellvik
    taktwerk = taktwerk
    fa = fa
    ta = ta
    f1 = f1
    f2 = f2
    t1 = t1
    n1 = n1
    n2 = n2
    v1 = v1
    v2 = v2
    vx = vx
    dining = dining
    travel = travel
    BankOrder <- MCBankOrder
    AccountsOf <- MCAccountsOf
    TransactionsOf <- MCTransactionsOf
    AccountOf <- MCAccountOf
    Names = {n1, n2}
    Reportable <- MCReportable
    Overprecise = {vx}
    Rounded <- MCRounded
    Category <- MCCategory
    FirstName = n1
    FirstReport <- MCFirstReport
    Budget = 3
    Unreported = Unreported
    Absent = Absent
INVARIANTS
    TypeOK
    ReferentialIntegrity
    ReportExact
    ExitCodeMeansComplete
    AbortStopsAtOneBank
    BanksLandWhole
PROPERTIES
    FailureIsolation
