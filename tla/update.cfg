SPECIFICATION MCSpec
CONSTANTS
    Update = {u1, u2, u3}
    Editor = {e1}
    BrokerFaults = TRUE
    Deletions = TRUE
    MaxRedeliveries = 1
    Polled = {a1, a2}
    Form = {f1, f2}
CHECK_DEADLOCK FALSE
INVARIANTS
    
    InactiveHaveNone
PROPERTIES
    ImplementsOneAtATime
    
    ActiveAreAsked
