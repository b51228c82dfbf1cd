SPECIFICATION WatchedSpec
CONSTANTS
    script = script
    lib = lib
    sh = sh
    plain = plain
    none = none
    File = {script}
    Uri = {script}
    PathOf <- Same
    ServerUri <- Same
    ClientUri <- Same
    Text = {sh, plain}
    Shebang = {sh}
    Broken = {}
    ShellExt = {}
    NoExt = {script}
    Dir <- MCDir
    DirOf <- OnlyScript
    RootDirs <- MCRootDirs
    SkippedDirs <- MCSkippedDirs
    None = none
    MaxWrites = 2
INVARIANTS
    NonShellNotIndexed
