\* Two decimals and a limit of 91.90, which texts meet, and pass in the whole part, the product and the sum.
SPECIFICATION Spec
CONSTANTS
    MaxDecimals = 2
    MaxStroops = 9190
    Digits = {0, 1, 9}
    MaxLength = 7
INVARIANTS
    AmountsSurvive
