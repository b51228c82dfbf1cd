CONSTANTS
    None = None
    Uri = {1, 2, 3}
    Text <- MCText
    Tokens <- MCTokens
    Parsed <- MCParsed
    Identifiers = {"f", "g"}
    Reserved = {"if"}
    Builtins = {"cd"}
    Executables = {"cd", "f"}
    Snippets = {"if statement"}
    NewNames = {"g", "1"}
SPECIFICATION Spec
INVARIANTS
    TypeOK
    RenameExplained
    LookupsAgree
