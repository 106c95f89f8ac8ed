SPECIFICATION Spec
CONSTANTS
    Scale = 2
    CleanIndex = 1
    ValidIndex = 1
    z = z
    NoFile = NoFile
    Top = {p, z}
    Member = {}
    ParentOf <- MCParentOf
    Agent = {a1}
    Worker = {w1, w2}
    Source = {"disk"}
    Extract = FALSE
    AgentFaults = FALSE
    Escapes = {}
    Faults = {}
    Redeliverable = {}
    MaxRedeliveries = 0
CHECK_DEADLOCK FALSE
INVARIANTS
    PostscanWaitsForIngest
