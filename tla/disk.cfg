SPECIFICATION FairSpec
CONSTANTS
    Scale = 2
    CleanIndex = 1
    ValidIndex = 1
    z = z
    NoFile = NoFile
    Top = {p, z}
    Member = {m1, m2}
    ParentOf <- MCParentOf
    Agent = {a1}
    Worker = {w1, w2}
    Source = {"disk"}
    Extract = TRUE
    AgentFaults = FALSE
    Escapes = {a1}
    Faults = {"broker", "disk"}
    Redeliverable = {}
    MaxRedeliveries = 0
CHECK_DEADLOCK FALSE
INVARIANTS
    TypeOK
    CleanIsEarned
    FullIsDone
    CompleteMeansScanned
    TasksRunOnce
    CopiedAreClean
    FilesSettle
    SessionSettles
PROPERTIES
    FullStaysFull
    VerdictIsFinal
    SessionEnds
