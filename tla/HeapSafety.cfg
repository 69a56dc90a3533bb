SPECIFICATION Spec
CONSTANTS
    ArenaSize = 16
    HeaderSize = 3
    ValueSize = 2
    Leaf = Leaf
    Node = Node
    Pair = Pair
    Str = Str
    Classes = {Leaf, Pair, Str}
    FieldCount <- MCFieldCount
    StringClass = Str
    ExtraValues = {0}
    Roots = {r1, r2}
    CStack = 7
    CyclesAllowed = FALSE
    Null = Null
INVARIANTS TypeOK Tiling FreeListExact NoAdjacentFree Accounting NoDangling
SYMMETRY RootSymmetry
