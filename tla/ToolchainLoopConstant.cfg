SPECIFICATION ToolSpec
CONSTANTS
    Bound = 8
    Locals <- MCLocals
    Fields <- MCFields
    Statics <- MCStatics
    ClassStatics <- MCClassStatics
    Methods <- MCMethods
    KnownClasses = {}
    Input <- InputOf
    LocalVars = 6
    ArgCount = 2
    Sources <- LoopCopy
    Inputs <- OneInputs
INVARIANT MeansTheSame
