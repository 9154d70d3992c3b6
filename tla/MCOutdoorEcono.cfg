SPECIFICATION Spec
CONSTANTS
    u1 = u1
    u2 = u2
    Units = {u1, u2}
    QueueSize = 2
    MaxEvents = 4
    MaxPolls = 2
CONSTRAINT Undisturbed
SYMMETRY Alike
INVARIANTS
    EconoComesBack
    ShownIsInEffect
CHECK_DEADLOCK FALSE
