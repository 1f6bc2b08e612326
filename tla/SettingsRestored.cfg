SPECIFICATION StoreSpec
CONSTANTS
    Config = {c1}
    Default = default
    Password = {p1}
    Account = {a1}
    Absent = absent
    Torn = torn
    None = none
INVARIANT RestoreIsDurable
CHECK_DEADLOCK FALSE
