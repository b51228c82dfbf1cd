SPECIFICATION Spec
CONSTANTS
    script = script
    lib = lib
    sh = sh
    plain = plain
    none = none
    File = {script, lib}
    Uri = {script, lib}
    PathOf <- Same
    ServerUri <- Same
    ClientUri <- Same
    Text = {sh, plain}
    Shebang = {sh}
    Broken = {}
    ShellExt = {lib}
    NoExt = {script}
    Dir <- MCDir
    DirOf <- LibSkipped
    RootDirs <- MCRootDirs
    SkippedDirs <- MCSkippedDirs
    None = none
    MaxWrites = 2
INVARIANTS
    TypeOK
    OpenBufferIndexed
    Converged
    OpenHitMatchesText
    StaleHitExplained
PROPERTIES
    ImplementsContract
