SPECIFICATION FairSpec
CONSTANTS
    Code <- Programs
    Main = "all"
    Native <- MCNative
    Ctors <- MCCtors
    OwnCtor <- MCOwnCtor
    StackSize = 18
    StackMap <- MCStackMap
    Throws <- MCThrows
INVARIANTS TypeOK FramesMatch OperandsAsCompiled HandlersAsCompiled StackInBounds ReturnFindsFrame
    NeverCorrupt CleanEnd
PROPERTY Terminates
