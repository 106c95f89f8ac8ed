SPECIFICATION Spec
CONSTANTS
    Scale = 2
    CleanIndex = 1
    ValidIndex = 1
    z = z
    NoFile = NoFile
    Top = {z}
    Member = {m1}
    ParentOf <- MCParentOf
    Agent = {a1, a2}
    Worker = {w1, w2}
    Source = {"upload", "disk"}
    Extract = TRUE
    AgentFaults = TRUE
    Escapes = {a2}
    Faults = {"broker", "disk", "time"}
    Redeliverable = {}
    MaxRedeliveries = 0
CHECK_DEADLOCK FALSE
INVARIANTS
    StuckHasCause
SYMMETRY MCSymmetry
