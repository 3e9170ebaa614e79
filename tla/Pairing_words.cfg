CONSTANTS
    Commands = {a}
    Starters = {"hub"}
    Codes = {k1, k2}
    MaxPairings = 2
    MaxCerts = 2
SPECIFICATION Spec
\* One at a time:
INVARIANT TokenComesWithPin
\* INVARIANT ClientIsOnePairing
\* PROPERTY MarkerIsAboutThisPairing
\* With two terminals, Commands = {a, b}, and `hub fingerprint` beside the hub,
\* Starters = {"hub", "cli"}:
\* INVARIANT PairedIsEnrolled
\* INVARIANT PinStaysGood
