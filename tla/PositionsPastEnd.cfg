CONSTANTS
    Chars = {"id", "nl"}
    MaxLen = 3
    LineMax = 9
    ColMax = 9
SPECIFICATION Spec
INVARIANT
    PastEndIsLineEnd
