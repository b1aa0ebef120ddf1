SPECIFICATION Spec
CONSTANTS
    Session = {s1, s2}
    NoOne = NoOne
    Config <- CasualOnly
    Jail = {"j"}
    Grant = {"g"}
    MaxSweeps = 0
PROPERTIES OnlyStaleUnmounted
CHECK_DEADLOCK FALSE
