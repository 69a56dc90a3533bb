SPECIFICATION Spec
CONSTANTS
    Case = "all"
    Sources <- MCSources
    Written <- MCWritten
    ClassNames <- MCClassNames
    Imports <- MCImports
INVARIANTS TypeOK RoundTrip Balanced SlotsDistinct
PROPERTY ParserTerminates
