SPECIFICATION Spec
CONSTANTS
    Update = {u1, u2, u3}
    Editor = {e1}
    BrokerFaults = FALSE
    Deletions = FALSE
    MaxRedeliveries = 0
CHECK_DEADLOCK FALSE
INVARIANTS
    OneUpdateAtATime
