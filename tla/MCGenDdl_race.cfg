\* Two operators, revisions that clash and redefine, databases made by hand; in the end the last revision is settled.
SPECIFICATION FairSpec
CONSTANTS
    a = a
    b = b
    id = id
    c = c
    d = d
    int = int
    text = text
    pk_a = pk_a
    pk_b = pk_b
    i = i
    j = j
    cond = cond
    Operators = {o1, o2}
    Tables = {a, b}
    Columns = {id, c, d}
    Types = {int, text}
    Names = {pk_a, pk_b, i, j}
    Conditions = {None, cond}
    Revisions <- Careless
    Databases <- Strange
    None = None
CHECK_DEADLOCK FALSE
INVARIANTS
    ConformingIsLeftAlone
    FreshScriptsRun
PROPERTIES
    AppliedScriptsConform
    LastRevisionIsSettled
