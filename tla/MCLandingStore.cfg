\* Batches of up to two records over two identifiers: replays, conflicts with
\* landed rows, duplicates and contradictions within a batch all occur.
SPECIFICATION Spec
CONSTANTS
    k1 = k1
    k2 = k2
    c1 = c1
    c2 = c2
    cx = cx
    Ids = {k1, k2}
    Contents = {c1, c2, cx}
    OutOfScale = {cx}
    Stored <- MCStored
    MaxBatch = 2
    Absent = Absent
INVARIANTS
    TypeOK
    LandingInv
PROPERTIES
    FirstWriteWins
    ImplementsAtomicLanding
