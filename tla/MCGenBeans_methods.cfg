\* The methods of the types that are generated.
SPECIFICATION Spec
CONSTANTS
    Documents <- AllDocuments
    DirtyBits = 3
    Platforms = {"linux"}
    Keywords = {"type"}
CHECK_DEADLOCK FALSE
INVARIANTS
    MethodsAreDistinct
