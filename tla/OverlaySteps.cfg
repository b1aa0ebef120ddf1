SPECIFICATION Spec
CONSTANTS
    Thread = {t1, t2}
    Name = {a, b}
    Home = {"old"}
    Content = {"new"}
    Empty = "new"
    Absent = Absent
    Partial = Partial
    Device = Device
    Pid = {p1}
    Attempts = 2
    MaxFaults = 2
SYMMETRY Symmetry
INVARIANTS Explained NoPartial RenameKeeps 
CHECK_DEADLOCK FALSE
