CONSTANTS
    Chars = {"id", "dash", "nl", "crnl", "four"}
    MaxLen = 4
    LineMax = 2
    ColMax = 9
SPECIFICATION Spec
INVARIANTS
    TypeOK
    CompletionReplacesPrefix
    EditsCoverNames
    PrepareMatchesRename
    StaleRangesOrdered
    ShellCheckFits
