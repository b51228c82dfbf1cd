CONSTANTS
    Chars = {"id", "sp"}
    MaxLen = 4
    LineMax = 2
    ColMax = 3
SPECIFICATION Spec
INVARIANT
    EditsReplaceNames
