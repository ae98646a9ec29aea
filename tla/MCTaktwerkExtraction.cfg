\* Two attempts per run, two changes of the bank.
CONSTANTS
    n1 = n1
    n2 = n2
    n3 = n3
    fee = fee
    rent = rent
    zero = zero
    Malformed <- MCMalformed
    Rows <- MCRows
    Exports <- MCExports
    MaxRows = 3
    FirstAccounts = {n1}
    LateAccounts = {n2, n3}
    HeaderWidth = 2
    NumberWidth = 1
    Width <- MCWidth
    Plans <- MCPlans
    MaxAttempts = 2
    MaxChanges = 2
    Absent = Absent
    Garbled = Garbled
SPECIFICATION FairSpec
INVARIANTS
    TypeOK
    LandedIsTheMostEverSeen
PROPERTIES
    CutsNeverRaise
    ExportsLandInTheEnd
