SPECIFICATION Spec
CONSTANTS
    Texts <- MCTexts
    Limits = {2, 3, 4}
    Suffix = 1
\* A text is sent once, in the end nothing is left to do.
CHECK_DEADLOCK FALSE
INVARIANTS
    TypeOK
    PartsFit
    NothingLost
    LinesWhole
    RefusedAtBorder
