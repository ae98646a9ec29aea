\* Two transactions, three reports of the banks, two releases.
CONSTANTS
    food = food
    Food = Food
    cash = cash
    rent = rent
    shop = shop
    Labels = {food, Food}
    Normal <- MCNormal
    Fragments = {cash, rent, shop, Space}
    Space = Space
    Categories = {"groceries", "rent", "cash", "shopping", "salary", "uncategorized"}
    SalaryThreshold = 10
    None = None
    Ids = {"t1", "t2"}
    Transactions <- MCTransactions
    FirstRules <- MCFirstRules
    LateRules <- MCLateRules
    MaxReleases = 2
    MaxReports = 3
    Absent = Absent
SPECIFICATION Spec
INVARIANTS
    OldCategoriesStand
    MartIsWhatTheRunsSaw
PROPERTIES
    OnlyUncategorizedRowsConflict
    SpendNeverShrinks
