CONSTANTS
    account = account
    transaction = transaction
    engine = engine
    Subjects = {account, transaction}
    Sorted <- MCSorted
    ContractsOf <- MCContractsOf
    Consumers = {engine}
    Pins <- MCPins
    NoEnum = NoEnum
    NotConsumed = NotConsumed
    Gone = Gone
    Missing = Missing
    Torn = Torn
    Unrecorded = Unrecorded
    LateManifests = {account}
    Rewinds = {account}

SPECIFICATION Spec

INVARIANTS
    TypeOK
    NothingLaundered
    RecordedForever
    KilledGenerateCanBeRepeated

PROPERTIES
    BreaksAreAcknowledged
