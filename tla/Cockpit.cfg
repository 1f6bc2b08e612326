SPECIFICATION CockpitSpec
CONSTANTS
    a1 = a1
    a2 = a2
    n1 = n1
    n2 = n2
    j1 = j1
    j2 = j2
    s1 = s1
    s2 = s2
    MaxPress = 1
    Adapter = {a1, a2}
    NoAdapter = none
    Net = {n1, n2}
    Call = {j1, j2}
    NoNet = none
    Slot = {1, 2}
    AutoKey = AutoKey
    Nobody = Nobody
    Switch = {s1, s2}
    NoStyle = none
    MaxSeq = 3
INVARIANTS
    CockpitTypeOK
    PollsBelongToTheStep
    PasswordStaysWithItsNetwork
    ListenNeverOutlivesItsRow
    OneMediaServer
    MirrorIsCurrent
PROPERTIES
    TabStaysWhereItWasPut
    APressActsOnce
CHECK_DEADLOCK FALSE
