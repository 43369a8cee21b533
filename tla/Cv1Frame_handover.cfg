SPECIFICATION Spec
CONSTANTS
    NCells = 2
    Value = {a, b}
    Table = {t, u}
    MaxRecords = 1
    None = None
    Off = Off
INVARIANTS
    TypeOK
    PacketFits
    HookFindsRoom
    NothingLost
PROPERTY HandoverSpec
