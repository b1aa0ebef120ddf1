SPECIFICATION FairSpec
CONSTANTS
    Session = {s1}
    NoOne = NoOne
    Config <- Every
    Jail = {"j"}
    Grant = {"g"}
    MaxSweeps = 1
PROPERTIES LaunchEnds CleanupEnds
CHECK_DEADLOCK FALSE
