CONSTANTS
    Difen = 1
    Capped = 3
    Golds = {1, 4, 5}
    Publics = {1}
    Doubles = {1}
    Maxes = {1, 2}
    Deltas <- SpendOrGain
    MaxChanges = 2
SPECIFICATION Spec
CHECK_DEADLOCK FALSE
INVARIANTS
    TypeOK
    NobodyOverdrawn
    SettlementConserves
