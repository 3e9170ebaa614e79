CONSTANTS
    Commands = {a}
    Starters = {"hub"}
    Codes = {k1, k2}
    MaxPairings = 2
    MaxCerts = 2
SPECIFICATION Spec
SYMMETRY CodesAreAlike
INVARIANTS PairedIsEnrolled PinStaysGood
PROPERTY OnlyToAPinnedHub
