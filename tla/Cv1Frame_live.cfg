SPECIFICATION LiveSpec
CONSTANTS
    NCells = 2
    Value = {a, b}
    Table = {t}
    MaxRecords = 1
    None = None
    Off = Off
PROPERTIES
    Presented
    PreparationEnds
    BackpressureEnds
