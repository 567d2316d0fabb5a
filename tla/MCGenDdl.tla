------------------------------ MODULE MCGenDdl ------------------------------
(***************************************************************************)
(* Instances of GenDdl for TLC: revisions of pdb.xml and databases that    *)
(* genddl may find.                                                        *)
(***************************************************************************)
EXTENDS GenDdl, TLC

CONSTANTS a, b, id, c, d, int, text, pk_a, pk_b, i, j, cond

Cols(f) == [x \in Columns |-> IF x \in DOMAIN f THEN f[x] ELSE None]

Key(name, auto) == [name |-> name, col |-> id, auto |-> auto]
Index(name, unique, cols, where) ==
    [name |-> name, unique |-> unique, cols |-> cols, where |-> where]

Plain == (id :> int) @@ (c :> int)
More == Plain @@ (d :> text)

Pdb(da, db_) == (a :> da) @@ (b :> db_)
Decl(cols, key, indexes) == [cols |-> Cols(cols), key |-> key, indexes |-> indexes]

OnC == Index(i, FALSE, <<c>>, None)
UniqueOnC == Index(i, TRUE, <<c>>, None)
OnD == Index(j, TRUE, <<d, c>>, cond)
TableB == Decl(Plain, Key(pk_b, FALSE), {})

First == Pdb(Decl(Plain, Key(pk_a, TRUE), {OnC}), None)
Third == Pdb(Decl(More, Key(pk_a, TRUE), {OnC, OnD}), TableB)
Clash == Pdb(Decl(More, Key(pk_a, TRUE), {OnC}), Decl(Plain, Key(pk_b, FALSE), {OnC}))
Redefined == Pdb(Decl(Plain, Key(pk_a, TRUE), {UniqueOnC}), None)
Moved == Pdb(Decl(Plain, Key(pk_a, TRUE), {}), Decl(Plain, Key(pk_b, FALSE), {OnC}))

Careless == <<First, Clash, Redefined, Third>>
MovesIndex == <<First, Moved>>
OneRevision == <<First>>

NoRelations == [n \in Names |-> None]
Empty == [tables |-> {}, cols |-> [t \in Tables |-> NoColumns], rels |-> NoRelations]
HandMade(cols, rels) ==
    [tables |-> {a}, cols |-> [t \in Tables |-> IF t = a THEN Cols(cols) ELSE NoColumns],
     rels |-> [n \in Names |-> IF n \in DOMAIN rels THEN rels[n] ELSE None]]
Col(nullable) == [type |-> int, nullable |-> nullable, identity |-> FALSE, default |-> FALSE]
KeyOnId == pk_a :> [table |-> a, primary |-> TRUE, unique |-> TRUE, cols |-> <<id>>, where |-> None]

WithoutIdentity == HandMade((id :> Col(FALSE)) @@ (c :> Col(FALSE)), KeyOnId)
WithNulls == HandMade((id :> Col(FALSE)) @@ (c :> Col(TRUE)), KeyOnId)
WithoutKey == HandMade((id :> Col(FALSE)) @@ (c :> Col(FALSE)), <<>>)

Strange == {Empty, WithoutIdentity, WithNulls}
OnlyEmpty == {Empty}
OnlyWithoutKey == {WithoutKey}

\* Which instance keeps to the hypotheses of the theorems about GenDdl.
ASSUME Hypotheses ==
    /\ NamesKeepTheirTable <=> Revisions # MovesIndex
    /\ TablesKeepTheirKey <=> Databases # OnlyWithoutKey
=============================================================================
