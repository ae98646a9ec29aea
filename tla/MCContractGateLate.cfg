CONSTANTS
    account = account
    transaction = transaction
    engine = engine
    Subjects = {account, transaction}
    Sorted <- MCSorted
    ContractsOf <- MCContractsOf
    Consumers = {engine}
    Pins <- MCPins
    NoEnum = NoEnum
    NotConsumed = NotConsumed
    Gone = Gone
    Missing = Missing
    Torn = Torn
    Unrecorded = Unrecorded
    LateManifests = {transaction}
    Rewinds = {}

SPECIFICATION Spec

PROPERTY VetoIsHard
