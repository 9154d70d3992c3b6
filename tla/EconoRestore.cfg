SPECIFICATION Spec
CONSTANTS
    u1 = u1
    u2 = u2
    Units = {u1}
    QueueSize = 2
    MaxEvents = 2
    MaxPolls = 2
INVARIANT EconoAlwaysRestored
CHECK_DEADLOCK FALSE
