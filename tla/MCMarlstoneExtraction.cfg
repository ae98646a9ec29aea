\* Pages of two, 3 changes of the bank.
CONSTANTS
    checking = checking
    savings = savings
    a = a
    b = b
    c = c
    d = d
    Accounts = {checking, savings}
    Ids = {a, b, c, d}
    FirstReports <- MCFirstReports
    PageSize = 2
    MaxChanges = 3
SPECIFICATION Spec
PROPERTY ImplementsExtraction
INVARIANTS
    TypeOK
    RepeatsComeFromInsertions
    PastEndNeedsRemovals
