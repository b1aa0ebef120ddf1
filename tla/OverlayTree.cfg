SPECIFICATION Spec
CONSTANTS
    Path <- PathLoop
    Content = {"old", "new"}
    Empty = "new"
    Target <- IntoD
    Bits = {"r", "w"}
    Umask = {"w"}
    LowerContent = {"old"}
    LowerMode <- ReadWrite
    ClientMode <- Read
    Handle = {h1}
    MknodAllowed = FALSE
INVARIANTS TypeOK UpperReachable ListingComplete
PROPERTIES TreeSpec ListingAgrees CopyUpInvisible
CHECK_DEADLOCK FALSE
