SPECIFICATION Spec
CONSTANTS
    Case = "tries"
    Sources <- MCSources
    Written <- MCWritten
    ClassNames <- MCClassNames
    Imports <- MCImports
INVARIANT CatchDistinct
