SPECIFICATION Spec
CONSTANTS
    Session = {s1}
    NoOne = NoOne
    Config <- BareOnly
    Jail = {"j"}
    Grant = {"g"}
    MaxSweeps = 0
INVARIANTS SignalCleansUp
CHECK_DEADLOCK FALSE
