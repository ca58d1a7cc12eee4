SPECIFICATION MCSpec
CHECK_DEADLOCK FALSE
SYMMETRY MCSymmetry
CONSTANTS
    CgStarts <- MCStarts
    CgFormats <- MCFormats
    NtFens = {f0, f1}
    NtMoves = {a, b}
    NtMaxPly = 2
    NtAddr = {x1, x2, x3, x4}
    NtNull = null
    NtMaxResets = 3
INVARIANTS
    CgPlayedByRules
    CgHistoryExact
    CgEncodingExact
    NtTreeSound
