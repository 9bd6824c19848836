\* Two browsers, two addresses, one broken connection, failed read or reload, one death of
\* the server; any append may fail.
CONSTANTS
    Browsers = {"b1", "b2"}
    Forms = {"ann", "Ann", "bob", "bad"}
    Typed <- MCTyped
    Emails = {"ann", "bob"}
    Invalid = "invalid"
    Normal <- MCNormal
    MaxFaults = 1
    MaxDeaths = 1
SPECIFICATION FairSpec
INVARIANTS
    TypeOK
    CountIsReal
    PersistedIsDurable
CHECK_DEADLOCK FALSE
PROPERTY JoinsInTheEnd
