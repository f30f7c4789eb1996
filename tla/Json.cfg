SPECIFICATION JsonSpec
CONSTANTS
    Null = Null
    None = None
    Node = {n1, n2, n3, n4}
    Name = {"a"}
    Literal = {"A"}
    Lower <- MCLower
    MaxParts = 2
    Letter = {"a"}
    Piece <- MCPiece
    MaxPieces = 4
    Leaf <- MCLeaf
    Part <- MCPart
    KeyText <- MCKeyText
    MaxSize = 3
    CJSON_NESTING_LIMIT = 2
    StartSize = 4
    INT_MAX = 30
SYMMETRY Alike
INVARIANTS
    MemoryBalanced
    PrintedIsRead
    StringFits
PROPERTIES
    ImplementsForest
CHECK_DEADLOCK FALSE
