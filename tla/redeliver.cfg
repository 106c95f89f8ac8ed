SPECIFICATION Spec
CONSTANTS
    Scale = 2
    CleanIndex = 1
    ValidIndex = 1
    z = z
    NoFile = NoFile
    Top = {z}
    Member = {m1, m2}
    ParentOf <- MCParentOf
    Agent = {a1}
    Worker = {w1, w2}
    Source = {"upload", "rescan"}
    Extract = TRUE
    AgentFaults = FALSE
    Escapes = {}
    Faults = {"time"}
    Redeliverable = {"perform_scan", "scan_file"}
    MaxRedeliveries = 1
CHECK_DEADLOCK FALSE
INVARIANTS
    LateResultsSettle
PROPERTY CleanHasGround
SYMMETRY MCSymmetry
