\* Every glob of four tokens against every text of four characters.
SPECIFICATION Spec
CONSTANTS
    Chars = {"a", "b"}
    ClassOf <- OneClass
    MaxGlob = 4
    MaxText = 4
CHECK_DEADLOCK FALSE
INVARIANTS
    MatchesAreReal
    NoneMissed
PROPERTIES
    NeverRepeats
    Terminates
