SPECIFICATION FairSpec
CONSTANTS
    script = script
    lib = lib
    sh = sh
    plain = plain
    none = none
    File = {script, lib}
    Uri = {script, lib}
    PathOf <- Same
    ServerUri <- Same
    ClientUri <- Same
    Text = {sh, plain}
    Shebang = {sh}
    Broken = {}
    ShellExt = {lib}
    NoExt = {script}
    Dir <- MCDir
    DirOf <- ScriptElsewhere
    RootDirs <- MCRootDirs
    SkippedDirs <- MCSkippedDirs
    None = none
    MaxWrites = 1
INVARIANTS
    OutsideRootsForgotten
PROPERTIES
    SettlesEventually
