SPECIFICATION Spec
CONSTANTS
    Code <- Unverified
    Main = "inherited"
    Native <- MCNative
    Ctors <- UnverifiedCtors
    OwnCtor <- UnverifiedOwnCtor
    StackSize = 18
    StackMap <- MCStackMap
    Throws <- MCThrows
INVARIANT ReturnFindsFrame
