SPECIFICATION Spec
CONSTANTS
    MaxObjects = 6
    MaxStack = 3
    Opcodes = {"NEW Array", "NEW", "THROW", "native throw", "CALL"}
INVARIANT UsedIsLive
