SPECIFICATION Spec
CONSTANTS
    Case = "all"
    Worlds <- MCWorlds
    ObjectName = "Object"
    Asked = {"A", "B", "C"}
INVARIANTS TypeOK FieldsApart ScriptsWhole FoundWhenSound
PROPERTY LoadsEnd
