SPECIFICATION PoolsSpec
CONSTANTS
    NCols = 3
    MaxScroll = 1
    AttrSpan = 3
    Base = {b1, b2}
    Sub = {s1, s2}
    Bits = {v1, v2}
    Table = {t, u}
    Table0 = t
    NSlots = 2
    MaxRecords = 1
    MaxWrites = 3
    NOam = 2
    HiddenRun = 2
    SpriteKey = {k1, k2, k3}
    Mode = {small, tall}
    None = None
    Off = Off
INVARIANTS
    TypesOK
    CountsExact
    CacheCurrent
    FailsOnlyFull
    RetryFits
PROPERTIES
    HandoverSpec
    SpritesHandover
CHECK_DEADLOCK FALSE
