SPECIFICATION Spec
CONSTANTS
    Path <- Paths3
    Grant <- G
    MaxSessions = 2
INVARIANTS StripComplete GrantReaches
CHECK_DEADLOCK FALSE
