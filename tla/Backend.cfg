SPECIFICATION BackendSpec
CONSTANTS
    c1 = c1
    p1 = p1
    a1 = a1
    a2 = a2
    Config = {c1}
    Default = default
    Password = {p1}
    Account = {a1, a2}
    Absent = absent
    Torn = torn
    None = none
    MaxCall = 3
    MaxAttempt = 2
    Addr = {a1, a2}
    NoAddr = none
    MaxCandidates = 1
    Ttl = 1
    IdleClose = 1
INVARIANTS
    BackendTypeOK
    BackupAnswers
    TypedPasswordHolds
    SourcesStayInHand
    DemoIsLabelled
    LookupIsSound
PROPERTIES
    ImplementsDurableSettings
    SecretsAreHandled
CHECK_DEADLOCK FALSE
