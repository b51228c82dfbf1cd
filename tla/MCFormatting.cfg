CONSTANTS
    Paths = {"shellcheck", ""}
    Lists = {"none", "list"}
    Objects <- MCObjects
    Files <- MCFiles
    Depth = 3
    MaxChanges = 2
SPECIFICATION Spec
INVARIANTS
    TypeOK
    LastMentionCounts
    IndentExplained
PROPERTIES
    IndentNeverUnset
