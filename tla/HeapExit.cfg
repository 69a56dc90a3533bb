SPECIFICATION Spec
CONSTANTS
    ArenaSize = 17
    HeaderSize = 3
    ValueSize = 2
    Leaf = Leaf
    Node = Node
    Pair = Pair
    Str = Str
    Classes = {Leaf, Pair, Str}
    FieldCount <- MCFieldCount
    StringClass = Str
    ExtraValues = {0}
    Roots = {r1}
    CStack = 7
    CyclesAllowed = FALSE
    Null = Null
INVARIANT ExitOnlyWhenFull
