SPECIFICATION Spec
CONSTANTS
    MaxDigits = 3
    Ecosystems <- MCEcosystems
    NoComparator = "Bitnami"
    Dpkg = {"Debian"}
    Apk = {"Alpine"}
    PyPI = {"PyPI"}
    Codes <- MCCodes
    ParsePep440 <- MCPep440
    Strings <- MCStrings
    NoBound = ""
    Reads <- MCReads
    Compare <- MCCompare
    Earlier <- MCEarlier
    Published <- MCPublished
    MaxEntries = 2
INVARIANTS VerdictIsSure VerdictByTheRules AdviceIsTheNextFix
