SPECIFICATION Spec
CONSTANTS
    Code <- Unverified
    Main = "constructor"
    Native <- MCNative
    Ctors <- UnverifiedCtors
    OwnCtor <- UnverifiedOwnCtor
    StackSize = 18
    StackMap <- MCStackMap
    Throws <- MCThrows
INVARIANT FramesMatch
