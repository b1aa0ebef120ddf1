SPECIFICATION Spec
CONSTANTS
    Session = {s1, s2}
    NoOne = NoOne
    Config <- TwoJails
    Jail = {"j", "k"}
    Grant = {"g"}
    MaxSweeps = 1
SYMMETRY Symmetry
INVARIANTS TypeOK ChildConfined CleanExit AclStripped CleanFailure OwnOverlay PidValid TmpUsable
CHECK_DEADLOCK FALSE
