CONSTANTS
    HintKeys <- MCHintKeys
    Values <- MCValues
    MaxHints = 3
    IntBits = 8
    Unset = Unset
INIT Init
NEXT Next
INVARIANTS
    TypeOK
    HintsApplied
