SPECIFICATION MCSpec
CONSTANTS
    Scan = {s1, s2}
    Driver <- MCDriver
    Threats = {0, 10}
    plain = plain
    alarming = alarming
    calming = calming
    Name = {plain, alarming, calming}
    Alarming = {alarming}
    Calming = {calming}
CHECK_DEADLOCK FALSE
INVARIANTS
    TypeOK
    OpenHasCause
    CopiesAreRemoved
    SuccessIsNew
PROPERTIES
    MissHasCause
    AlarmHasCause
    LastWholeKept
SYMMETRY MCSymmetry
