SPECIFICATION Spec
CONSTANTS
    Code <- Unverified
    Main = "operand"
    Native <- MCNative
    Ctors <- UnverifiedCtors
    OwnCtor <- UnverifiedOwnCtor
    StackSize = 18
    StackMap <- MCStackMap
    Throws <- MCThrows
INVARIANT OperandsAsCompiled
