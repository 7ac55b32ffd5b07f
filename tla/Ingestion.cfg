\* Three runs on two sources; runs end, so the system may stop.
SPECIFICATION Spec
CONSTANTS
    r1 = r1
    r2 = r2
    r3 = r3
    s1 = s1
    s2 = s2
    i1 = i1
    i2 = i2
    i3 = i3
    i4 = i4
    i5 = i5
    i6 = i6
    x = x
    y = y
    c = c
    Runs = {r1, r2, r3}
    Sources = {s1, s2}
    Items = {i1, i2, i3, i4, i5, i6}
    Invalid = {i5}
    Names = {x, y}
    Byline <- MCByline
    Null = Null
    Labels = {c}
    Filed <- MCFiled
    Listed <- MCListed
    Coming <- MCComing
    PageSize = 3
CHECK_DEADLOCK FALSE
SYMMETRY Symmetric
INVARIANTS
    CountersAreAccurate
    NothingIsSkipped
    LossNeedsOverlap
