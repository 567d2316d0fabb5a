\* All combinations of what two beans and two tables may get wrong; a mask of three bits.
SPECIFICATION Spec
CONSTANTS
    Documents <- AllDocuments
    DirtyBits = 3
    Platforms = {"linux"}
    Keywords = {"type"}
CHECK_DEADLOCK FALSE
INVARIANTS
    RulesDecide
    GuardsCoverPredicates
    AttributesAreHeeded
    OutputIsWhole
