\* Any two records.
CONSTANTS
    a = a
    f = f
    m = m
    colon = colon
    separator = separator
    Characters = {a, f, m, colon, separator}
    Control = {separator}
    Separator = separator
    Colon = colon
    Content = Content
    Banks <- MCBanks
    Accounts <- MCAccounts
    SourceIds <- MCStrings
    Rows <- MCRows
    MaxIndex = 1
    MaxAccepted = 2
SPECIFICATION CanonicalSpec
INVARIANTS
    IdsAreKeys
    RowsKeepApart
