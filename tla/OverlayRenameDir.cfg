SPECIFICATION Spec
CONSTANTS
    Path <- PathTwin
    Content = {"c"}
    Empty = "c"
    Target = {}
    Bits = {}
    Umask = {}
    LowerContent = {"c"}
    LowerMode <- NoBits
    ClientMode <- NoBits
    Handle = {h1}
    MknodAllowed = FALSE
PROPERTIES RenamedDirHidesLower
CHECK_DEADLOCK FALSE
