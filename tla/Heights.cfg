SPECIFICATION Spec
CONSTANTS
    Bound = 8
    Locals <- MCLocals
    Fields <- MCFields
    Statics <- MCStatics
    ClassStatics <- HClassStatics
    Methods <- HMethods
    KnownClasses = {"C"}
    Cases <- WellUsed
INVARIANTS OneResult NoUnderflow
