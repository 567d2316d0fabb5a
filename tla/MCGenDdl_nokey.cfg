\* A table exists without its primary key.
SPECIFICATION Spec
CONSTANTS
    a = a
    b = b
    id = id
    c = c
    d = d
    int = int
    text = text
    pk_a = pk_a
    pk_b = pk_b
    i = i
    j = j
    cond = cond
    Operators = {o1}
    Tables = {a, b}
    Columns = {id, c, d}
    Types = {int, text}
    Names = {pk_a, pk_b, i, j}
    Conditions = {None, cond}
    Revisions <- OneRevision
    Databases <- OnlyWithoutKey
    None = None
CHECK_DEADLOCK FALSE
INVARIANTS
    FreshScriptsRun
