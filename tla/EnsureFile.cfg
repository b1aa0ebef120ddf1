SPECIFICATION Spec
CONSTANTS
    Proc = {p, q}
    Pid = {1, 2}
    Content = {"default", "newer"}
    Edit = {"edited"}
    None = None
INVARIANTS Complete NoTempLeft
PROPERTIES EnsureEnds
