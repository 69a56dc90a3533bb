SPECIFICATION Spec
CONSTANTS
    Case = "three"
    Sources <- MCSources
    Written <- MCWritten
    ClassNames <- MCClassNames
    Imports <- MCImports
INVARIANT RoundTrip
