------------------------------- MODULE GenDdl -------------------------------
(***************************************************************************)
(* genddl: operators load a revision of pdb.xml, read the catalogue of the *)
(* database in four queries without a transaction, generate a script, and  *)
(* some time later run it, in one transaction, on a database on which      *)
(* other operators run theirs.                                             *)
(*                                                                         *)
(* A script is, for each table, the set of things it adds: the statements  *)
(* of a table come in the order columns, primary key, identity, indexes,   *)
(* and those of different tables do not depend on each other.              *)
(***************************************************************************)
EXTENDS Naturals, Sequences

CONSTANTS
    Operators,
    Tables, Columns, Types,
    Names,      \* names of indexes and primary keys
    Conditions, \* conditions of partial indexes
    Revisions,  \* revisions of pdb.xml, a sequence
    Databases,  \* catalogues to start from
    None

\* <index> and <primaryKey>, with the name they get if pdb.xml gives none.
IndexDecl == [name : Names, unique : BOOLEAN, cols : Seq(Columns), where : Conditions]
KeyDecl == [name : Names, col : Columns, auto : BOOLEAN]

\* <table> and its bean.
TableDecl == [cols : [Columns -> Types \cup {None}], key : KeyDecl \cup {None},
              indexes : SUBSET IndexDecl]
Schema == [Tables -> TableDecl \cup {None}]

\* The catalogue.  The index of a primary key shares the names of indexes.
Column == [type : Types, nullable : BOOLEAN, identity : BOOLEAN, default : BOOLEAN]
Relation == [table : Tables, primary : BOOLEAN, unique : BOOLEAN, cols : Seq(Columns),
             where : Conditions]
Catalogue == [tables : SUBSET Tables, cols : [Tables -> [Columns -> Column \cup {None}]],
              rels : [Names -> Relation \cup {None}]]

KeyView == [name : Names, cols : Seq(Columns)]

\* What inspectDatabase returns.
View == [tables : SUBSET Tables, cols : [Tables -> [Columns -> Column \cup {None}]],
         keys : [Tables -> KeyView \cup {None}],
         rels : [Names -> Relation \cup {None}]]

\* What a script does to one table.
Part == [create : BOOLEAN, cols : [Columns -> Types \cup {None}], key : KeyDecl \cup {None},
         identity : Columns \cup {None}, indexes : SUBSET IndexDecl]

ASSUME RevisionsAssumption == Revisions \in Seq(Schema) /\ Len(Revisions) > 0
\* What PostgreSQL guarantees: an index belongs to a table that exists, and a
\* table has at most one primary key, whose index is unique and not partial.
Guaranteed(d) ==
    \A n \in Names : d.rels[n] # None =>
        /\ d.rels[n].table \in d.tables
        /\ d.rels[n].primary =>
              /\ d.rels[n].unique /\ d.rels[n].where = None
              /\ \A m \in Names : /\ d.rels[m] # None /\ d.rels[m].primary
                                 /\ d.rels[m].table = d.rels[n].table => m = n

ASSUME DatabasesAssumption == \A d \in Databases : d \in Catalogue /\ Guaranteed(d)
ASSUME NoneAssumption ==
    /\ None \in Conditions
    /\ None \notin Types \cup Columns \cup Names
    /\ None \notin KeyDecl /\ None \notin TableDecl
    /\ None \notin Column /\ None \notin Relation /\ None \notin KeyView

VARIABLES
    revision, \* the current revision of pdb.xml
    db,       \* the catalogue of the database
    pc,       \* where each operator is
    want,     \* the revision that the operator's genddl has loaded
    view,     \* what it has read of the catalogue
    script,   \* what it has printed
    since     \* ghost: revisions whose scripts others ran since it was started

vars == <<revision, db, pc, want, view, script, since>>

Declared(x) == {t \in Tables : x[t] # None}

NoColumns == [c \in Columns |-> None]
Nothing == [tables |-> {}, cols |-> [t \in Tables |-> NoColumns],
            keys |-> [t \in Tables |-> None], rels |-> [n \in Names |-> None]]
NoPart == [create |-> FALSE, cols |-> NoColumns, key |-> None, identity |-> None, indexes |-> {}]
NoScript == [t \in Tables |-> NoPart]

Init ==
    /\ revision = 1
    /\ db \in Databases
    /\ pc = [o \in Operators |-> "idle"]
    /\ want = [o \in Operators |-> 1]
    /\ view = [o \in Operators |-> Nothing]
    /\ script = [o \in Operators |-> NoScript]
    /\ since = [o \in Operators |-> {}]

-----------------------------------------------------------------------------
(* inspectDatabase, as operators on a catalogue *)

SeenColumns(tables, d) == [t \in Tables |-> IF t \in tables THEN d.cols[t] ELSE NoColumns]

PrimaryKeys(d, t) == {n \in Names : d.rels[n] # None /\ d.rels[n].primary /\ d.rels[n].table = t}

SeenKeys(tables, d) ==
    [t \in Tables |->
        IF t \in tables /\ PrimaryKeys(d, t) # {}
        THEN LET n == CHOOSE n \in PrimaryKeys(d, t) : TRUE
             IN  [name |-> n, cols |-> d.rels[n].cols]
        ELSE None]

SeenIndexes(tables, d) ==
    [n \in Names |-> IF d.rels[n] # None /\ d.rels[n].table \in tables THEN d.rels[n] ELSE None]

\* All four queries at once.
Seen(d) == [tables |-> d.tables, cols |-> SeenColumns(d.tables, d),
            keys |-> SeenKeys(d.tables, d), rels |-> SeenIndexes(d.tables, d)]

-----------------------------------------------------------------------------
(* generate *)

KeyName(x, t) == IF x[t].key = None THEN {} ELSE {x[t].key.name}

\* checkNames: tables, keys and indexes share one name space.
NamesClash(x) ==
    \E t, u \in Declared(x) :
        \/ \E i \in x[t].indexes : i.name \in KeyName(x, u)
        \/ \E i \in x[t].indexes, j \in x[u].indexes : <<t, i>> # <<u, j>> /\ i.name = j.name
        \/ t # u /\ KeyName(x, t) \cap KeyName(x, u) # {}

IndexRelation(t, i) ==
    [table |-> t, primary |-> FALSE, unique |-> i.unique, cols |-> i.cols, where |-> i.where]

HasIndex(v, t, i) == v.rels[i.name] # None /\ v.rels[i.name].table = t

KeyRelation(t, key) ==
    [table |-> t, primary |-> TRUE, unique |-> TRUE, cols |-> <<key.col>>, where |-> None]

Definition(index) == <<index.unique, index.cols, index.where>>

IndexDiffers(v, t, i) == Definition(v.rels[i.name]) # Definition(i)

\* Mutant of ColumnDiffers: NULL is accepted.
ColumnTypeDiffers(type, column) == column.type # type

ColumnDiffers(type, column) == column.type # type \/ column.nullable

\* What exists is compared with pdb.xml, and a difference ends the run.
Differs(x, v, t) ==
    \/ \E c \in Columns : /\ x[t].cols[c] # None /\ v.cols[t][c] # None
                          /\ ColumnDiffers(x[t].cols[c], v.cols[t][c])
    \/ /\ x[t].key # None /\ v.keys[t] # None
       /\ v.keys[t] # [name |-> x[t].key.name, cols |-> <<x[t].key.col>>]
    \/ \E i \in x[t].indexes : HasIndex(v, t, i) /\ IndexDiffers(v, t, i)

Refused(x, v) ==
    \/ NamesClash(x)
    \/ \E t \in Declared(x) \cap v.tables : Differs(x, v, t)

\* generateMissingTableDDL
MissingTable(decl) ==
    [create |-> TRUE, cols |-> decl.cols, key |-> decl.key, identity |-> None,
     indexes |-> decl.indexes]

\* Mutant of AlterTable: columns are added whether or not they exist.
AlterTableAllColumns(decl, v, t) ==
    [create |-> FALSE,
     cols |-> decl.cols,
     key |-> IF v.keys[t] = None THEN decl.key ELSE None,
     identity |-> None,
     indexes |-> {i \in decl.indexes : ~HasIndex(v, t, i)}]

\* generateAlterDDL: missing columns, a missing key, a missing identity,
\* missing indexes.
AlterTable(decl, v, t) ==
    [create |-> FALSE,
     cols |-> [c \in Columns |-> IF v.cols[t][c] = None THEN decl.cols[c] ELSE None],
     key |-> IF v.keys[t] = None THEN decl.key ELSE None,
     identity |->
        IF /\ decl.key # None /\ decl.key.auto
           /\ v.cols[t][decl.key.col] # None => ~v.cols[t][decl.key.col].identity
        THEN decl.key.col ELSE None,
     indexes |-> {i \in decl.indexes : ~HasIndex(v, t, i)}]

\* Mutant of Script: every table is created, IF NOT EXISTS.
ScriptCreatesAll(x, v) ==
    [t \in Tables |-> IF x[t] = None THEN NoPart ELSE MissingTable(x[t])]

Script(x, v) ==
    [t \in Tables |-> IF x[t] = None THEN NoPart
                      ELSE IF t \in v.tables THEN AlterTable(x[t], v, t)
                      ELSE MissingTable(x[t])]

-----------------------------------------------------------------------------
(* PostgreSQL: the effect of a script on a catalogue *)

\* CREATE TABLE IF NOT EXISTS leaves a table that exists as it is.
Skipped(d, t, p) == p.create /\ t \in d.tables

\* The columns of t after CREATE TABLE or ADD COLUMN.  Only the column of an
\* identity key is created without a default.
WithColumns(d, t, p) ==
    [c \in Columns |->
        IF p.cols[c] = None \/ Skipped(d, t, p) THEN d.cols[t][c]
        ELSE [type |-> p.cols[c], nullable |-> FALSE, identity |-> FALSE,
              default |-> ~(p.create /\ p.key # None /\ p.key.auto /\ p.key.col = c)]]

\* ADD GENERATED ALWAYS AS IDENTITY wants a column without identity or default.
CanBeIdentity(column) == column # None /\ ~column.identity /\ ~column.default

PartFails(d, t, p) ==
    LET cols == WithColumns(d, t, p) IN
    \/ p # NoPart /\ ~p.create /\ t \notin d.tables
    \/ ~p.create /\ \E c \in Columns : p.cols[c] # None /\ d.cols[t][c] # None
    \/ /\ p.key # None
       /\ \/ d.rels[p.key.name] # None
          \/ PrimaryKeys(d, t) # {}
          \/ cols[p.key.col] = None
          \/ p.key.auto /\ ~CanBeIdentity(cols[p.key.col])
    \/ /\ p.identity # None
       /\ \/ p.key # None /\ p.key.auto /\ p.key.col = p.identity
          \/ ~CanBeIdentity(cols[p.identity])
    \/ \E i \in p.indexes : /\ d.rels[i.name] = None
                            /\ \E k \in DOMAIN i.cols : cols[i.cols[k]] = None

Fails(d, s) == \E t \in Tables : PartFails(d, t, s[t])

IdentityColumns(p) ==
    {p.identity} \cup IF p.key # None /\ p.key.auto THEN {p.key.col} ELSE {}

\* CREATE INDEX IF NOT EXISTS does nothing if the name is taken.
NewRelations(d, t, p) ==
    {[name |-> i.name, rel |-> IndexRelation(t, i)] : i \in {j \in p.indexes : d.rels[j.name] = None}}
    \cup IF p.key = None THEN {}
         ELSE {[name |-> p.key.name, rel |-> KeyRelation(t, p.key)]}

Executed(d, s) ==
    LET new == UNION {NewRelations(d, t, s[t]) : t \in Tables} IN
    [tables |-> d.tables \cup {t \in Tables : s[t].create},
     cols |-> [t \in Tables |->
                  [c \in Columns |->
                      LET column == WithColumns(d, t, s[t])[c]
                      IN  IF column # None /\ c \in IdentityColumns(s[t])
                          THEN [column EXCEPT !.identity = TRUE] ELSE column]],
     rels |-> [n \in Names |->
                  IF \E r \in new : r.name = n THEN (CHOOSE r \in new : r.name = n).rel
                                               ELSE d.rels[n]]]

-----------------------------------------------------------------------------
(* The operators. *)

\* A new revision of pdb.xml is checked in.
EditSchema ==
    /\ revision < Len(Revisions)
    /\ revision' = revision + 1
    /\ UNCHANGED <<db, pc, want, view, script, since>>

Load(o) ==
    /\ pc[o] = "idle"
    /\ want' = [want EXCEPT ![o] = revision]
    /\ view' = [view EXCEPT ![o] = Nothing]
    /\ script' = [script EXCEPT ![o] = NoScript]
    /\ since' = [since EXCEPT ![o] = {}]
    /\ pc' = [pc EXCEPT ![o] = "tables"]
    /\ UNCHANGED <<revision, db>>

\* One query of inspectDatabase.
Inspect(o, from, to, v) ==
    /\ pc[o] = from
    /\ pc' = [pc EXCEPT ![o] = to]
    /\ view' = [view EXCEPT ![o] = v]
    /\ UNCHANGED <<revision, db, want, script, since>>

InspectTables(o) == Inspect(o, "tables", "columns", [view[o] EXCEPT !.tables = db.tables])
InspectColumns(o) ==
    Inspect(o, "columns", "keys", [view[o] EXCEPT !.cols = SeenColumns(view[o].tables, db)])
InspectKeys(o) ==
    Inspect(o, "keys", "indexes", [view[o] EXCEPT !.keys = SeenKeys(view[o].tables, db)])
InspectIndexes(o) ==
    Inspect(o, "indexes", "generate", [view[o] EXCEPT !.rels = SeenIndexes(view[o].tables, db)])

\* A difference ends the run with an error and without a script.
Refuse(o) ==
    /\ pc[o] = "generate" /\ Refused(Revisions[want[o]], view[o])
    /\ pc' = [pc EXCEPT ![o] = "idle"]
    /\ UNCHANGED <<revision, db, want, view, script, since>>

Generate(o) ==
    /\ pc[o] = "generate" /\ ~Refused(Revisions[want[o]], view[o])
    /\ script' = [script EXCEPT ![o] = Script(Revisions[want[o]], view[o])]
    /\ pc' = [pc EXCEPT ![o] = "ready"]
    /\ UNCHANGED <<revision, db, want, view, since>>

\* The connection is lost, or 30 seconds are over.
InspectFails(o) ==
    /\ pc[o] \in {"tables", "columns", "keys", "indexes"}
    /\ pc' = [pc EXCEPT ![o] = "idle"]
    /\ UNCHANGED <<revision, db, want, view, script, since>>

\* The operator runs the script: BEGIN ... COMMIT.
Apply(o) ==
    /\ pc[o] = "ready" /\ ~Fails(db, script[o])
    /\ db' = Executed(db, script[o])
    /\ since' = [q \in Operators |-> IF q = o THEN since[q] ELSE since[q] \cup {want[o]}]
    /\ pc' = [pc EXCEPT ![o] = "idle"]
    /\ UNCHANGED <<revision, want, view, script>>

\* A statement fails, or the rows violate a new constraint, or the operator
\* does not run the script.
NotApplied(o) ==
    /\ pc[o] = "ready"
    /\ pc' = [pc EXCEPT ![o] = "idle"]
    /\ UNCHANGED <<revision, db, want, view, script, since>>

Run(o) ==
    \/ InspectTables(o) \/ InspectColumns(o) \/ InspectKeys(o) \/ InspectIndexes(o)
    \/ Refuse(o) \/ Generate(o)
    \/ Apply(o)

Next ==
    \/ EditSchema
    \/ \E o \in Operators : Load(o) \/ Run(o) \/ InspectFails(o) \/ NotApplied(o)

Spec == Init /\ [][Next]_vars

Conforms(x, d) ==
    \A t \in Declared(x) :
        /\ t \in d.tables
        /\ \A c \in Columns : x[t].cols[c] # None =>
              /\ d.cols[t][c] # None
              /\ d.cols[t][c].type = x[t].cols[c] /\ ~d.cols[t][c].nullable
        /\ x[t].key # None =>
              /\ d.rels[x[t].key.name] = KeyRelation(t, x[t].key)
              /\ x[t].key.auto => d.cols[t][x[t].key.col] # None /\ d.cols[t][x[t].key.col].identity
        /\ \A i \in x[t].indexes :
              /\ d.rels[i.name] # None /\ d.rels[i.name].table = t
              /\ Definition(d.rels[i.name]) = Definition(i)

\* Fairness: as long as the database does not conform somebody runs genddl again;
\* a query or a statement that may be sent is sent or fails; and of the runs that
\* are begun again and again some get through the four queries, some to COMMIT.
GetsThrough(o) == []<>(pc[o] = "tables") => []<>(pc[o] = "generate")

FairSpec ==
    /\ Spec
    /\ \A o \in Operators :
          /\ WF_vars(Load(o) /\ ~Conforms(Revisions[revision], db))
          /\ WF_vars(Run(o) \/ InspectFails(o)) /\ GetsThrough(o)
          /\ SF_vars(Apply(o)) /\ WF_vars(NotApplied(o) /\ Fails(db, script[o]))

-----------------------------------------------------------------------------
(* What people have to keep to, where genddl cannot help: hypotheses of the *)
(* theorems about AppliedScriptsConform and FreshScriptsRun.                *)

\* No name belongs to one table in a revision that genddl accepts and to another in
\* a second one or in a database made by hand.
KeepsTable(home) ==
    /\ \A d \in Databases, n \in Names : d.rels[n] # None => d.rels[n].table = home[n]
    /\ \A k \in DOMAIN Revisions :
          LET x == Revisions[k]
          IN  ~NamesClash(x) => \A t \in Declared(x) :
                 /\ \A i \in x[t].indexes : home[i.name] = t
                 /\ \A n \in KeyName(x, t) : home[n] = t

NamesKeepTheirTable == \E home \in [Names -> Tables] : KeepsTable(home)

\* Table t of the database has a primary key, and if its values are generated, the
\* column is an identity or can become one.
HasKey(d, t, key) ==
    /\ PrimaryKeys(d, t) # {}
    /\ key.auto => /\ d.cols[t][key.col] # None
                   /\ d.cols[t][key.col].identity \/ ~d.cols[t][key.col].default

\* A table has its primary key from the beginning and keeps it; keys and indexes
\* never have the same name; and they are over columns of the bean.
KeepsKey(keys) ==
    /\ \A t, u \in Tables : keys[t] # None /\ keys[u] # None /\ keys[t].name = keys[u].name => t = u
    /\ \A d \in Databases, t \in Tables : keys[t] # None =>
          IF t \in d.tables THEN HasKey(d, t, keys[t]) ELSE d.rels[keys[t].name] = None
    /\ \A k \in DOMAIN Revisions :
          LET x == Revisions[k]
          IN  ~NamesClash(x) => \A t \in Declared(x) :
                 /\ x[t].key = keys[t]
                 /\ keys[t] # None => x[t].cols[keys[t].col] # None
                 /\ \A i \in x[t].indexes :
                       /\ \A u \in Tables : keys[u] # None => i.name # keys[u].name
                       /\ \A j \in DOMAIN i.cols : x[t].cols[i.cols[j]] # None

TablesKeepTheirKey == \E keys \in [Tables -> KeyDecl \cup {None}] : KeepsKey(keys)

-----------------------------------------------------------------------------
(* Properties *)

TypeOK ==
    /\ revision \in 1 .. Len(Revisions)
    /\ db \in Catalogue
    /\ pc \in [Operators -> {"idle", "tables", "columns", "keys", "indexes", "generate", "ready"}]
    /\ want \in [Operators -> 1 .. Len(Revisions)]
    /\ view \in [Operators -> View]
    /\ script \in [Operators -> [Tables -> Part]]
    /\ since \in [Operators -> SUBSET (1 .. Len(Revisions))]

\* What an operator has seen lags behind the database, and is never wrong
\* otherwise: scripts only add, and a query is read for the tables of the first
\* one only.
LagsBehind(v, d) ==
    /\ v.tables \subseteq d.tables
    /\ \A t \in Tables, c \in Columns : v.cols[t][c] # None =>
          LET seen == v.cols[t][c]
              now == d.cols[t][c]
          IN  /\ t \in v.tables /\ now # None
              /\ now.type = seen.type /\ now.nullable = seen.nullable
              /\ now.default = seen.default /\ (seen.identity => now.identity)
    /\ \A t \in Tables : v.keys[t] # None =>
          /\ t \in v.tables /\ v.keys[t].name \in PrimaryKeys(d, t)
          /\ v.keys[t].cols = d.rels[v.keys[t].name].cols
    /\ \A n \in Names : v.rels[n] # None =>
          v.rels[n].table \in v.tables /\ d.rels[n] = v.rels[n]

ViewsLagBehind == \A o \in Operators : LagsBehind(view[o], db)

\* A script that runs without an error leaves the database as its revision of
\* pdb.xml wants it, although it was generated from four queries without a
\* transaction, from a database in which another operator may have run the
\* script of the same revision since (gen/ddl/main.go:6, 213-452).
AppliedScriptsConform ==
    [][\A o \in Operators :
          Apply(o) /\ since[o] \subseteq {want[o]} => Conforms(Revisions[want[o]], db')]_vars

\* A second run is empty: on a database that conforms genddl neither objects nor
\* prints a statement, apart from CREATE SCHEMA IF NOT EXISTS.  A revision whose
\* names clash is refused on every database, also on one that conforms because an
\* index repeats the primary key under its name (gen/ddl/main.go:6).
ConformingIsLeftAlone ==
    \A k \in DOMAIN Revisions :
        ~NamesClash(Revisions[k]) /\ Conforms(Revisions[k], db) =>
            /\ ~Refused(Revisions[k], Seen(db))
            /\ Script(Revisions[k], Seen(db)) = NoScript

\* What genddl prints for a database that has not changed since runs there, as
\* far as the catalogue is concerned: missing tables, columns, keys and indexes
\* are added (gen/ddl/main.go:6).
FreshScriptsRun ==
    \A o \in Operators : pc[o] = "ready" /\ since[o] = {} => ~Fails(db, script[o])

\* Operators who race each other with scripts of different revisions come to an
\* end: the database conforms to the last revision and stays so, or genddl says
\* what stands in the way.
LastRevisionIsSettled ==
    LET x == Revisions[revision] IN <>[](Conforms(x, db) \/ Refused(x, Seen(db)))
=============================================================================
