SPECIFICATION FairSpec
CONSTANTS
    ArenaSize = 16
    HeaderSize = 3
    ValueSize = 2
    Leaf = Leaf
    Node = Node
    Pair = Pair
    Str = Str
    Classes = {Node, Str}
    FieldCount <- MCFieldCount
    StringClass = Str
    ExtraValues = {0}
    Roots = {r1, r2}
    CStack = 2
    CyclesAllowed = TRUE
    Null = Null
PROPERTIES RequestAnswered MemorySpec
