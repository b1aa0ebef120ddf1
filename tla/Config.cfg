SPECIFICATION Spec
CONSTANTS
    Path <- Places
    Home <- HomeDir
    Mount <- MountDir
    Tmp <- TmpDir
    Private <- PrivateDir
    System <- SystemDirs
    Sibling <- Suffixed
    Ssh = "ssh"
    Public = {"key.pub"}
    Invocation <- Invocations
    Dir = "w"
    Present <- Dirs
    ConfFile = {"top", "inc"}
    TopConf = "top"
    Jail = {"default", "j"}
    DefaultJail = "default"
    MaxLines = 4
INVARIANTS FlagsFollowStack ParsedInOrder CommandLineWins RealHomeMasked
CHECK_DEADLOCK FALSE
