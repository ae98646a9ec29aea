\* Pages of two entries, two attempts per request, two changes of the report.
CONSTANTS
    a1 = a1
    a2 = a2
    e1 = e1
    e2 = e2
    e3 = e3
    e4 = e4
    e5 = e5
    Accounts <- MCAccounts
    Entries = {e1, e2, e3, e4, e5}
    Malformed = {e5}
    Listings <- MCListings
    FirstReports <- MCFirstReports
    Plans <- MCPlans
    PageSize = 2
    MaxAttempts = 2
    MaxChanges = 2
SPECIFICATION Spec
PROPERTIES
    ImplementsExtraction
    OutOfRangeNeedsWithdrawals
INVARIANTS
    TypeOK
    StableExtractIsComplete
    OutageNeedsConsecutiveRefusals
