SPECIFICATION Spec
CONSTANTS
    Case = "statics"
    Worlds <- MCWorlds
    ObjectName = "Object"
    Asked = {"A", "B", "C"}
INVARIANT StaticsInRange
