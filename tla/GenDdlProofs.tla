---------------------------- MODULE GenDdlProofs ----------------------------
(***************************************************************************)
(* The safety properties of GenDdl, for any number of operators and        *)
(* revisions and for every catalogue that PostgreSQL allows.               *)
(***************************************************************************)
EXTENDS GenDdl, TLAPS

\* The index or key that revision x wants under the name n.
IsWanted(x, n, rel) ==
    \E t \in Declared(x) :
        \/ \E i \in x[t].indexes : i.name = n /\ rel = IndexRelation(t, i)
        \/ x[t].key # None /\ x[t].key.name = n /\ rel = KeyRelation(t, x[t].key)

\* The columns of t are at least those that revision x wants.
HasColumns(x, d, t) ==
    \A c \in Columns : x[t].cols[c] # None =>
        d.cols[t][c] # None /\ d.cols[t][c].type = x[t].cols[c] /\ ~d.cols[t][c].nullable

\* The tables that somebody who has seen v has not seen, because they have
\* appeared in the catalogue d since, are as revision x wants them.
TablesAppeared(x, v, d) ==
    /\ \A t \in Declared(x) : t \in d.tables /\ t \notin v.tables => HasColumns(x, d, t)
    /\ \A n \in Names :
          d.rels[n] # None /\ d.rels[n].table \notin v.tables => IsWanted(x, n, d.rels[n])

\* So are the indexes and keys; they are read last.
IndexesAppeared(x, v, d) ==
    \A n \in Names : d.rels[n] # None /\ v.rels[n] = None => IsWanted(x, n, d.rels[n])

\* An operator who is at p with revision k has seen v of the database d, in which
\* others have run scripts of the revisions ks since: v lags behind; a script
\* that may be run is what genddl made of v; and if the others had the same
\* revision, what v lacks is what this revision wants.
Good(p, k, v, s, ks, d) ==
    /\ LagsBehind(v, d)
    /\ p = "ready" => ~Refused(Revisions[k], v) /\ s = Script(Revisions[k], v)
    /\ ks \subseteq {k} =>
          /\ p \in {"columns", "keys", "indexes", "generate", "ready"}
                => TablesAppeared(Revisions[k], v, d)
          /\ p \in {"generate", "ready"} => IndexesAppeared(Revisions[k], v, d)

\* The inductive invariant.  The catalogue stays one that PostgreSQL allows.
Inv ==
    /\ TypeOK
    /\ Guaranteed(db)
    /\ \A o \in Operators : Good(pc[o], want[o], view[o], script[o], since[o], db)

-----------------------------------------------------------------------------
(* Types *)

LEMMA NoneIs ==
    /\ None \notin Types /\ None \notin Columns /\ None \notin Names
    /\ None \in Conditions
    /\ None \notin KeyDecl /\ None \notin TableDecl
    /\ None \notin Column /\ None \notin Relation /\ None \notin KeyView
BY NoneAssumption

LEMMA NothingType == Nothing \in View /\ NoScript \in [Tables -> Part]
BY DEF Nothing, NoColumns, View, NoScript, NoPart, Part

LEMMA SeenTypes ==
    ASSUME NEW d \in Catalogue, NEW tables \in SUBSET Tables
    PROVE  /\ SeenColumns(tables, d) \in [Tables -> [Columns -> Column \cup {None}]]
           /\ SeenKeys(tables, d) \in
                  [Tables -> KeyView \cup {None}]
           /\ SeenIndexes(tables, d) \in [Names -> Relation \cup {None}]
<1>1. SeenColumns(tables, d) \in [Tables -> [Columns -> Column \cup {None}]]
  BY DEF SeenColumns, Catalogue, NoColumns
<1>2. SeenIndexes(tables, d) \in [Names -> Relation \cup {None}]
  BY DEF SeenIndexes, Catalogue
<1>3. ASSUME NEW t \in Tables, t \in tables, PrimaryKeys(d, t) # {}
      PROVE  SeenKeys(tables, d)[t] \in KeyView
  <2>1. PICK n \in Names : n = CHOOSE m \in PrimaryKeys(d, t) : TRUE
    BY <1>3 DEF PrimaryKeys
  <2>2. n \in PrimaryKeys(d, t)
    BY <1>3, <2>1
  <2>3. d.rels[n] \in Relation
    BY <2>2 DEF PrimaryKeys, Catalogue
  <2>4. SeenKeys(tables, d)[t] = [name |-> n, cols |-> d.rels[n].cols]
    BY <1>3, <2>1 DEF SeenKeys
  <2>. QED
    BY <2>3, <2>4 DEF Relation, KeyView
<1>4. ASSUME NEW t \in Tables, ~(t \in tables /\ PrimaryKeys(d, t) # {})
      PROVE  SeenKeys(tables, d)[t] = None
  BY <1>4 DEF SeenKeys
<1>5. \A t \in Tables : SeenKeys(tables, d)[t] \in KeyView \cup {None}
  BY <1>3, <1>4
<1>6. SeenKeys(tables, d) = [t \in Tables |-> SeenKeys(tables, d)[t]]
  BY DEF SeenKeys
<1>. QED
  BY <1>1, <1>2, <1>5, <1>6

LEMMA ScriptType ==
    ASSUME NEW x \in Schema, NEW v \in View
    PROVE  Script(x, v) \in [Tables -> Part]
<1>1. ASSUME NEW t \in Tables, x[t] # None
      PROVE  MissingTable(x[t]) \in Part
  BY <1>1 DEF MissingTable, Part, Schema, TableDecl
<1>2. ASSUME NEW t \in Tables, x[t] # None
      PROVE  AlterTable(x[t], v, t) \in Part
  <2>1. x[t] \in TableDecl
    BY <1>2 DEF Schema
  <2>2. x[t].key # None => x[t].key.col \in Columns
    BY <2>1 DEF TableDecl, KeyDecl
  <2>. QED
    BY <2>1, <2>2 DEF AlterTable, Part, TableDecl
<1>3. NoPart \in Part
  BY DEF NoPart, NoColumns, Part
<1>. QED
  BY <1>1, <1>2, <1>3 DEF Script

-----------------------------------------------------------------------------
(* What a script does to a catalogue *)

Adds(d, t, p, n, rel) ==
    \/ \E i \in p.indexes : d.rels[i.name] = None /\ i.name = n /\ rel = IndexRelation(t, i)
    \/ p.key # None /\ p.key.name = n /\ rel = KeyRelation(t, p.key)

LEMMA NewRelationsAreAdded ==
    ASSUME NEW d, NEW t, NEW p
    PROVE  /\ \A r \in NewRelations(d, t, p) : Adds(d, t, p, r.name, r.rel)
           /\ \A i \in p.indexes : d.rels[i.name] = None =>
                 \E r \in NewRelations(d, t, p) : r.name = i.name
           /\ p.key # None => \E r \in NewRelations(d, t, p) : r.name = p.key.name
<1>. DEFINE indexes == {[name |-> i.name, rel |-> IndexRelation(t, i)] :
                            i \in {j \in p.indexes : d.rels[j.name] = None}}
            key == [name |-> p.key.name, rel |-> KeyRelation(t, p.key)]
<1>1. NewRelations(d, t, p) = indexes \cup IF p.key = None THEN {} ELSE {key}
  BY DEF NewRelations
<1>2. ASSUME NEW r \in indexes PROVE Adds(d, t, p, r.name, r.rel)
  BY DEF Adds
<1>3. p.key # None => Adds(d, t, p, key.name, key.rel)
  BY DEF Adds
<1>4. ASSUME NEW i \in p.indexes, d.rels[i.name] = None
      PROVE  \E r \in indexes : r.name = i.name
  <2>1. [name |-> i.name, rel |-> IndexRelation(t, i)] \in indexes
    BY <1>4
  <2>. QED
    BY <2>1
<1>5. key.name = p.key.name
  OBVIOUS
<1>. HIDE DEF indexes, key
<1>. QED
  BY <1>1, <1>2, <1>3, <1>4, <1>5

\* A relation is added by the part of one table, or left alone if no part has one
\* of its name.
LEMMA RelationsAfter ==
    ASSUME NEW d, NEW s, NEW n \in Names
    PROVE  \/ \E t \in Tables : Adds(d, t, s[t], n, Executed(d, s).rels[n])
           \/ /\ Executed(d, s).rels[n] = d.rels[n]
              /\ \A t \in Tables :
                    /\ \A i \in s[t].indexes : d.rels[i.name] = None => i.name # n
                    /\ s[t].key # None => s[t].key.name # n
<1>. DEFINE new == UNION {NewRelations(d, t, s[t]) : t \in Tables}
<1>1. Executed(d, s).rels[n] =
         IF \E r \in new : r.name = n THEN (CHOOSE r \in new : r.name = n).rel ELSE d.rels[n]
  BY DEF Executed
<1>2. CASE \E r \in new : r.name = n
  <2>1. PICK q : q = CHOOSE r \in new : r.name = n
    OBVIOUS
  <2>2. q \in new /\ q.name = n
    BY <1>2, <2>1
  <2>3. PICK t \in Tables : q \in NewRelations(d, t, s[t])
    BY <2>2
  <2>4. Adds(d, t, s[t], n, q.rel)
    BY <2>2, <2>3, NewRelationsAreAdded
  <2>5. Executed(d, s).rels[n] = q.rel
    BY <1>1, <1>2, <2>1
  <2>. QED
    BY <2>4, <2>5
<1>3. CASE ~ \E r \in new : r.name = n
  <2>1. ASSUME NEW t \in Tables
        PROVE  /\ \A i \in s[t].indexes : d.rels[i.name] = None => i.name # n
               /\ s[t].key # None => s[t].key.name # n
    <3>1. \A r \in NewRelations(d, t, s[t]) : r.name # n
      BY <1>3
    <3>. QED
      BY <3>1, NewRelationsAreAdded
  <2>. QED
    BY <1>1, <1>3, <2>1
<1>. QED
  BY <1>2, <1>3

LEMMA AddedType ==
    ASSUME NEW d, NEW t \in Tables, NEW p \in Part, NEW n, NEW rel, Adds(d, t, p, n, rel)
    PROVE  rel \in Relation /\ rel.table = t /\ n \in Names
<1>1. ASSUME NEW i \in p.indexes, i.name = n, rel = IndexRelation(t, i)
      PROVE  rel \in Relation /\ rel.table = t /\ n \in Names
  <2>1. i \in IndexDecl
    BY DEF Part
  <2>. QED
    BY <1>1, <2>1 DEF IndexDecl, Relation, IndexRelation
<1>2. ASSUME p.key # None, p.key.name = n, rel = KeyRelation(t, p.key)
      PROVE  rel \in Relation /\ rel.table = t /\ n \in Names
  <2>1. p.key \in KeyDecl
    BY <1>2 DEF Part
  <2>2. <<p.key.col>> \in Seq(Columns)
    BY <2>1 DEF KeyDecl
  <2>. QED
    BY <1>2, <2>1, <2>2, NoneIs DEF KeyDecl, Relation, KeyRelation
<1>. QED
  BY <1>1, <1>2 DEF Adds

LEMMA WithColumnsType ==
    ASSUME NEW d \in Catalogue, NEW t \in Tables, NEW p \in Part, NEW c \in Columns
    PROVE  WithColumns(d, t, p)[c] \in Column \cup {None}
<1>1. CASE p.cols[c] = None \/ Skipped(d, t, p)
  BY <1>1 DEF WithColumns, Catalogue
<1>2. CASE ~(p.cols[c] = None \/ Skipped(d, t, p))
  <2>1. p.cols[c] \in Types
    BY <1>2 DEF Part
  <2>2. WithColumns(d, t, p)[c] =
          [type |-> p.cols[c], nullable |-> FALSE, identity |-> FALSE,
           default |-> ~(p.create /\ p.key # None /\ p.key.auto /\ p.key.col = c)]
    BY <1>2 DEF WithColumns
  <2>. QED
    BY <2>1, <2>2 DEF Column
<1>. QED
  BY <1>1, <1>2

\* A column after a script: what WithColumns says, apart from the identity.
LEMMA ColumnsAfter ==
    ASSUME NEW d \in Catalogue, NEW s \in [Tables -> Part],
           NEW t \in Tables, NEW c \in Columns
    PROVE  LET before == WithColumns(d, t, s[t])[c]
               after  == Executed(d, s).cols[t][c]
           IN  /\ after \in Column \cup {None}
               /\ after = None <=> before = None
               /\ before # None =>
                     /\ after.type = before.type /\ after.nullable = before.nullable
                     /\ after.default = before.default
                     /\ before.identity => after.identity
                     /\ c \in IdentityColumns(s[t]) => after.identity
<1>. DEFINE before == WithColumns(d, t, s[t])[c]
            after  == Executed(d, s).cols[t][c]
<1>1. before \in Column \cup {None}
  BY WithColumnsType
<1>2. after = IF before # None /\ c \in IdentityColumns(s[t])
              THEN [before EXCEPT !.identity = TRUE] ELSE before
  BY DEF Executed
<1>. HIDE DEF before, after
<1>3. /\ after \in Column \cup {None}
      /\ after = None <=> before = None
      /\ before # None =>
            /\ after.type = before.type /\ after.nullable = before.nullable
            /\ after.default = before.default
            /\ before.identity => after.identity
            /\ c \in IdentityColumns(s[t]) => after.identity
  <2>1. CASE before = None
    BY <1>2, <2>1
  <2>2. CASE before # None /\ c \notin IdentityColumns(s[t])
    BY <1>1, <1>2, <2>2
  <2>3. CASE before # None /\ c \in IdentityColumns(s[t])
    <3>1. before \in Column
      BY <1>1, <2>3
    <3>2. after = [type |-> before.type, nullable |-> before.nullable, identity |-> TRUE,
                   default |-> before.default]
      BY <1>2, <2>3, <3>1 DEF Column
    <3>3. after \in Column
      BY <3>1, <3>2 DEF Column
    <3>. QED
      BY <2>3, <3>2, <3>3, NoneIs
  <2>. QED
    BY <2>1, <2>2, <2>3
<1>. QED
  BY <1>3 DEF before, after

LEMMA ExecutedType ==
    ASSUME NEW d \in Catalogue, NEW s \in [Tables -> Part]
    PROVE  Executed(d, s) \in Catalogue
<1>. DEFINE e == Executed(d, s)
<1>1. e.tables \in SUBSET Tables
  BY DEF Executed, Catalogue
<1>2. e.cols \in [Tables -> [Columns -> Column \cup {None}]]
  <2>1. \A t \in Tables, c \in Columns : e.cols[t][c] \in Column \cup {None}
    BY ColumnsAfter
  <2>2. e.cols = [t \in Tables |-> [c \in Columns |-> e.cols[t][c]]]
    BY DEF Executed
  <2>. HIDE DEF e
  <2>. QED
    BY <2>1, <2>2
<1>3. e.rels \in [Names -> Relation \cup {None}]
  <2>1. ASSUME NEW n \in Names
        PROVE  e.rels[n] \in Relation \cup {None}
    <3>1. CASE \E t \in Tables : Adds(d, t, s[t], n, e.rels[n])
      BY <3>1, AddedType
    <3>2. CASE e.rels[n] = d.rels[n]
      BY <3>2 DEF Catalogue
    <3>. QED
      BY <3>1, <3>2, RelationsAfter
  <2>2. e.rels = [n \in Names |-> e.rels[n]]
    BY DEF Executed
  <2>. HIDE DEF e
  <2>. QED
    BY <2>1, <2>2
<1>4. e = [tables |-> e.tables, cols |-> e.cols, rels |-> e.rels]
  BY DEF Executed
<1>. HIDE DEF e
<1>5. e \in Catalogue
  BY <1>1, <1>2, <1>3, <1>4 DEF Catalogue
<1>. QED
  BY <1>5 DEF e

\* What it takes for the part of a script to run without an error.
LEMMA PartSucceeds ==
    ASSUME NEW d, NEW t, NEW p, ~PartFails(d, t, p)
    PROVE  /\ p # NoPart /\ ~p.create => t \in d.tables
           /\ ~p.create => \A c \in Columns : p.cols[c] # None => d.cols[t][c] = None
           /\ p.key # None =>
                 /\ d.rels[p.key.name] = None /\ PrimaryKeys(d, t) = {}
                 /\ WithColumns(d, t, p)[p.key.col] # None
           /\ p.identity # None => WithColumns(d, t, p)[p.identity] # None
<1>. DEFINE cols == WithColumns(d, t, p)
<1>1. ~(\/ p # NoPart /\ ~p.create /\ t \notin d.tables
        \/ ~p.create /\ \E c \in Columns : p.cols[c] # None /\ d.cols[t][c] # None
        \/ /\ p.key # None
           /\ \/ d.rels[p.key.name] # None
              \/ PrimaryKeys(d, t) # {}
              \/ cols[p.key.col] = None
        \/ p.identity # None /\ ~CanBeIdentity(cols[p.identity]))
  BY DEF PartFails
<1>. QED
  BY <1>1 DEF CanBeIdentity

\* A script that runs without an error adds, and changes nothing else but that
\* a column becomes an identity.
LEMMA NothingIsLost ==
    ASSUME NEW d \in Catalogue, NEW s \in [Tables -> Part], ~Fails(d, s)
    PROVE  LET e == Executed(d, s)
           IN  /\ d.tables \subseteq e.tables
               /\ \A n \in Names : d.rels[n] # None => e.rels[n] = d.rels[n]
               /\ \A t \in d.tables, c \in Columns : d.cols[t][c] # None =>
                     /\ e.cols[t][c] # None
                     /\ e.cols[t][c].type = d.cols[t][c].type
                     /\ e.cols[t][c].nullable = d.cols[t][c].nullable
                     /\ e.cols[t][c].default = d.cols[t][c].default
                     /\ d.cols[t][c].identity => e.cols[t][c].identity
<1>1. d.tables \subseteq Executed(d, s).tables
  BY DEF Executed
<1>2. ASSUME NEW n \in Names, d.rels[n] # None
      PROVE  Executed(d, s).rels[n] = d.rels[n]
  <2>1. ASSUME NEW t \in Tables, NEW rel PROVE ~Adds(d, t, s[t], n, rel)
    <3>1. ~PartFails(d, t, s[t])
      BY DEF Fails
    <3>. QED
      BY <1>2, <3>1, PartSucceeds DEF Adds
  <2>. QED
    BY <2>1, RelationsAfter
<1>3. ASSUME NEW t \in d.tables, NEW c \in Columns, d.cols[t][c] # None
      PROVE  WithColumns(d, t, s[t])[c] = d.cols[t][c]
  <2>1. t \in Tables
    BY DEF Catalogue
  <2>2. ~PartFails(d, t, s[t])
    BY <2>1 DEF Fails
  <2>3. s[t].cols[c] = None \/ Skipped(d, t, s[t])
    <3>1. CASE s[t].create
      BY <3>1 DEF Skipped
    <3>2. CASE ~s[t].create
      BY <1>3, <2>2, <3>2, PartSucceeds
    <3>. QED
      BY <3>1, <3>2
  <2>. QED
    BY <2>1, <2>3 DEF WithColumns
<1>4. d.tables \subseteq Tables
  BY DEF Catalogue
<1>. QED
  BY <1>1, <1>2, <1>3, <1>4, ColumnsAfter

\* A table that a relation is added to exists afterwards.
LEMMA AddedTable ==
    ASSUME NEW d \in Catalogue, NEW s \in [Tables -> Part], ~Fails(d, s),
           NEW t \in Tables, NEW n, NEW rel, Adds(d, t, s[t], n, rel)
    PROVE  t \in Executed(d, s).tables
<1>1. s[t] # NoPart
  BY DEF Adds, NoPart
<1>2. ~PartFails(d, t, s[t])
  BY DEF Fails
<1>3. s[t].create \/ t \in d.tables
  BY <1>1, <1>2, PartSucceeds
<1>. QED
  BY <1>3 DEF Executed

\* A primary key is added to a table that has none.
LEMMA AddedKey ==
    ASSUME NEW d, NEW s \in [Tables -> Part], ~Fails(d, s),
           NEW t \in Tables, NEW n, NEW rel, Adds(d, t, s[t], n, rel), rel.primary
    PROVE  /\ rel = KeyRelation(t, s[t].key) /\ n = s[t].key.name
           /\ d.rels[n] = None /\ PrimaryKeys(d, t) = {}
<1>1. ~PartFails(d, t, s[t])
  BY DEF Fails
<1>2. ASSUME NEW i, rel = IndexRelation(t, i) PROVE FALSE
  BY <1>2 DEF IndexRelation
<1>3. s[t].key # None /\ s[t].key.name = n /\ rel = KeyRelation(t, s[t].key)
  BY <1>2 DEF Adds
<1>. QED
  BY <1>1, <1>3, PartSucceeds

LEMMA GuaranteedAfter ==
    ASSUME NEW d \in Catalogue, Guaranteed(d),
           NEW s \in [Tables -> Part], ~Fails(d, s)
    PROVE  Guaranteed(Executed(d, s))
<1>. DEFINE e == Executed(d, s)
<1>1. e.rels \in [Names -> Relation \cup {None}]
  BY ExecutedType DEF Catalogue
<1>2. d.rels \in [Names -> Relation \cup {None}] /\ d.tables \subseteq e.tables
  BY NothingIsLost DEF Catalogue
<1>3. \A n \in Names : e.rels[n] # None =>
         \/ e.rels[n] = d.rels[n]
         \/ \E t \in Tables : Adds(d, t, s[t], n, e.rels[n])
  BY RelationsAfter
<1>4. \A n \in Names, t \in Tables :
         Adds(d, t, s[t], n, e.rels[n]) => e.rels[n].table = t /\ t \in e.tables
  <2>. SUFFICES ASSUME NEW n \in Names, NEW t \in Tables, Adds(d, t, s[t], n, e.rels[n])
                PROVE  e.rels[n].table = t /\ t \in e.tables
    OBVIOUS
  <2>1. s[t] \in Part
    OBVIOUS
  <2>2. e.rels[n].table = t
    BY <2>1, AddedType
  <2>3. t \in e.tables
    BY AddedTable
  <2>. QED
    BY <2>2, <2>3
<1>5. \A n \in Names, t \in Tables :
         Adds(d, t, s[t], n, e.rels[n]) /\ e.rels[n].primary =>
            /\ e.rels[n].unique /\ e.rels[n].where = None
            /\ n = s[t].key.name /\ PrimaryKeys(d, t) = {}
  <2>. SUFFICES ASSUME NEW n \in Names, NEW t \in Tables, Adds(d, t, s[t], n, e.rels[n]),
                       e.rels[n].primary
                PROVE  /\ e.rels[n].unique /\ e.rels[n].where = None
                       /\ n = s[t].key.name /\ PrimaryKeys(d, t) = {}
    OBVIOUS
  <2>1. /\ e.rels[n] = KeyRelation(t, s[t].key) /\ n = s[t].key.name
        /\ PrimaryKeys(d, t) = {}
    <3>1. PICK rel : rel = e.rels[n]
      OBVIOUS
    <3>. HIDE DEF e
    <3>2. Adds(d, t, s[t], n, rel) /\ rel.primary
      BY <3>1
    <3>3. rel = KeyRelation(t, s[t].key) /\ n = s[t].key.name /\ PrimaryKeys(d, t) = {}
      BY SMTT(30), <3>2, AddedKey
    <3>. QED
      BY <3>1, <3>3
  <2>2. KeyRelation(t, s[t].key).unique /\ KeyRelation(t, s[t].key).where = None
    BY DEF KeyRelation
  <2>. QED
    BY <2>1, <2>2
<1>. HIDE DEF e
<1>6. \A n \in Names : e.rels[n] # None =>
         /\ e.rels[n].table \in e.tables
         /\ e.rels[n].primary => e.rels[n].unique /\ e.rels[n].where = None
  BY <1>2, <1>3, <1>4, <1>5 DEF Guaranteed
<1>7. ASSUME NEW m \in Names, NEW n \in Names,
             e.rels[m] # None, e.rels[n] # None, e.rels[m].primary, e.rels[n].primary,
             e.rels[m].table = e.rels[n].table
      PROVE  m = n
  <2>1. CASE e.rels[m] = d.rels[m] /\ e.rels[n] = d.rels[n]
    BY <1>7, <2>1 DEF Guaranteed
  <2>2. ASSUME NEW t \in Tables, Adds(d, t, s[t], m, e.rels[m]), e.rels[n] = d.rels[n]
        PROVE  FALSE
    BY <1>4, <1>5, <1>7, <2>2 DEF PrimaryKeys
  <2>3. ASSUME NEW t \in Tables, Adds(d, t, s[t], n, e.rels[n]), e.rels[m] = d.rels[m]
        PROVE  FALSE
    BY <1>4, <1>5, <1>7, <2>3 DEF PrimaryKeys
  <2>4. ASSUME NEW t \in Tables, Adds(d, t, s[t], n, e.rels[n]),
               NEW u \in Tables, Adds(d, u, s[u], m, e.rels[m])
        PROVE  m = n
    BY <1>4, <1>5, <1>7, <2>4
  <2>. QED
    BY <1>3, <1>7, <2>1, <2>2, <2>3, <2>4
<1>8. Guaranteed(e)
  BY <1>6, <1>7 DEF Guaranteed
<1>. QED
  BY <1>8 DEF e

\* What an operator has seen goes on lagging behind while scripts are run.
LEMMA LagsAfter ==
    ASSUME NEW d \in Catalogue, NEW s \in [Tables -> Part], ~Fails(d, s),
           NEW v \in View, LagsBehind(v, d)
    PROVE  LagsBehind(v, Executed(d, s))
<1>. DEFINE e == Executed(d, s)
<1>1. /\ d.tables \subseteq e.tables
      /\ \A n \in Names : d.rels[n] # None => e.rels[n] = d.rels[n]
      /\ \A t \in d.tables, c \in Columns : d.cols[t][c] # None =>
            /\ e.cols[t][c] # None
            /\ e.cols[t][c].type = d.cols[t][c].type
            /\ e.cols[t][c].nullable = d.cols[t][c].nullable
            /\ e.cols[t][c].default = d.cols[t][c].default
            /\ d.cols[t][c].identity => e.cols[t][c].identity
  BY NothingIsLost
<1>. HIDE DEF e
<1>2. \A t \in Tables, c \in Columns : v.cols[t][c] # None =>
         /\ t \in v.tables /\ e.cols[t][c] # None
         /\ e.cols[t][c].type = v.cols[t][c].type
         /\ e.cols[t][c].nullable = v.cols[t][c].nullable
         /\ e.cols[t][c].default = v.cols[t][c].default
         /\ v.cols[t][c].identity => e.cols[t][c].identity
  BY <1>1 DEF LagsBehind
<1>3. \A t \in Tables : v.keys[t] # None =>
         /\ t \in v.tables /\ v.keys[t].name \in PrimaryKeys(e, t)
         /\ v.keys[t].cols = e.rels[v.keys[t].name].cols
  BY <1>1 DEF LagsBehind, PrimaryKeys
<1>4. \A n \in Names : v.rels[n] # None => v.rels[n].table \in v.tables /\ e.rels[n] = v.rels[n]
  <2>. SUFFICES ASSUME NEW n \in Names, v.rels[n] # None
                PROVE  v.rels[n].table \in v.tables /\ e.rels[n] = v.rels[n]
    OBVIOUS
  <2>. QED
    BY <1>1, NoneIs DEF LagsBehind, View
<1>5. LagsBehind(v, e)
  BY <1>1, <1>2, <1>3, <1>4 DEF LagsBehind
<1>. QED
  BY <1>5 DEF e

-----------------------------------------------------------------------------
(* What appears behind the back of an operator *)

LEMMA ScriptAdds ==
    ASSUME NEW x, NEW v, NEW d, NEW t \in Tables, NEW n, NEW rel,
           Adds(d, t, Script(x, v)[t], n, rel)
    PROVE  IsWanted(x, n, rel)
<1>. DEFINE p == Script(x, v)[t]
<1>1. CASE x[t] = None
  <2>1. p = NoPart
    BY <1>1 DEF Script
  <2>. QED
    BY <2>1 DEF Adds, NoPart
<1>2. CASE x[t] # None
  <2>1. p = MissingTable(x[t]) \/ p = AlterTable(x[t], v, t)
    BY <1>2 DEF Script
  <2>2. p.indexes \subseteq x[t].indexes /\ (p.key # None => p.key = x[t].key)
    BY <2>1 DEF MissingTable, AlterTable
  <2>. HIDE DEF p
  <2>3. Adds(d, t, p, n, rel)
    BY DEF p
  <2>. QED
    BY <1>2, <2>2, <2>3 DEF Adds, IsWanted, Declared
<1>. QED
  BY <1>1, <1>2

\* A column that is added is as the script says.
LEMMA NewColumn ==
    ASSUME NEW d \in Catalogue, NEW s \in [Tables -> Part],
           NEW t \in Tables, NEW c \in Columns, s[t].cols[c] # None, ~Skipped(d, t, s[t])
    PROVE  LET column == Executed(d, s).cols[t][c]
           IN  column # None /\ column.type = s[t].cols[c] /\ ~column.nullable
<1>1. WithColumns(d, t, s[t])[c] =
        [type |-> s[t].cols[c], nullable |-> FALSE, identity |-> FALSE,
         default |-> ~(s[t].create /\ s[t].key # None /\ s[t].key.auto /\ s[t].key.col = c)]
  BY DEF WithColumns
<1>2. s[t].cols[c] \in Types
  BY DEF Part
<1>3. PICK column : column = WithColumns(d, t, s[t])[c]
  OBVIOUS
<1>4. column \in Column /\ column.type = s[t].cols[c] /\ ~column.nullable
  BY <1>1, <1>2, <1>3 DEF Column
<1>. QED
  BY <1>3, <1>4, NoneIs, ColumnsAfter

\* A table that a script creates has its columns.
LEMMA ScriptCreates ==
    ASSUME NEW x \in Schema, NEW v \in View, NEW d \in Catalogue, LagsBehind(v, d),
           NEW t \in Declared(x), t \notin d.tables
    PROVE  HasColumns(x, Executed(d, Script(x, v)), t)
<1>. DEFINE s == Script(x, v)
            e == Executed(d, s)
<1>1. t \in Tables /\ x[t] # None /\ t \notin v.tables
  BY DEF Declared, LagsBehind
<1>2. s[t] = MissingTable(x[t])
  BY <1>1 DEF Script
<1>3. s \in [Tables -> Part]
  BY ScriptType
<1>4. ASSUME NEW c \in Columns, x[t].cols[c] # None
      PROVE  /\ e.cols[t][c] # None /\ e.cols[t][c].type = x[t].cols[c]
             /\ ~e.cols[t][c].nullable
  <2>1. s[t].cols = x[t].cols /\ ~Skipped(d, t, s[t])
    BY <1>2 DEF MissingTable, Skipped
  <2>. HIDE DEF s
  <2>. QED
    BY <1>1, <1>3, <1>4, <2>1, NewColumn
<1>. HIDE DEF s
<1>5. HasColumns(x, e, t)
  BY <1>4 DEF HasColumns
<1>. QED
  BY <1>5 DEF s

\* A script of the same revision adds only what that revision wants.
LEMMA AppearedAfter ==
    ASSUME NEW x \in Schema, NEW v \in View, NEW w \in View, NEW d \in Catalogue,
           LagsBehind(w, d), ~Fails(d, Script(x, w))
    PROVE  /\ TablesAppeared(x, v, d) => TablesAppeared(x, v, Executed(d, Script(x, w)))
           /\ IndexesAppeared(x, v, d) => IndexesAppeared(x, v, Executed(d, Script(x, w)))
<1>. DEFINE s == Script(x, w)
            e == Executed(d, s)
<1>1. s \in [Tables -> Part]
  BY ScriptType
<1>2. /\ \A n \in Names : d.rels[n] # None => e.rels[n] = d.rels[n]
      /\ \A t \in d.tables, c \in Columns : d.cols[t][c] # None =>
            /\ e.cols[t][c] # None
            /\ e.cols[t][c].type = d.cols[t][c].type
            /\ e.cols[t][c].nullable = d.cols[t][c].nullable
  BY <1>1, NothingIsLost
<1>3. ASSUME TablesAppeared(x, v, d), NEW t \in Declared(x), t \in e.tables, t \notin v.tables
      PROVE  HasColumns(x, e, t)
  <2>1. CASE t \in d.tables
    <3>. HIDE DEF e
    <3>1. HasColumns(x, d, t)
      BY <1>3, <2>1 DEF TablesAppeared
    <3>. QED
      BY <1>2, <2>1, <3>1 DEF HasColumns
  <2>2. CASE t \notin d.tables
    BY <2>2, ScriptCreates
  <2>. QED
    BY <2>1, <2>2
<1>4. ASSUME NEW n \in Names, d.rels[n] = None, e.rels[n] # None
      PROVE  IsWanted(x, n, e.rels[n])
  <2>1. PICK t \in Tables : Adds(d, t, s[t], n, e.rels[n])
    BY <1>4, RelationsAfter
  <2>2. PICK rel : rel = e.rels[n]
    OBVIOUS
  <2>3. IsWanted(x, n, rel)
    BY <2>1, <2>2, ScriptAdds
  <2>. QED
    BY <2>2, <2>3
<1>. HIDE DEF e
<1>5. TablesAppeared(x, v, d) => TablesAppeared(x, v, e)
  BY <1>2, <1>3, <1>4 DEF TablesAppeared
<1>6. IndexesAppeared(x, v, d) => IndexesAppeared(x, v, e)
  BY <1>2, <1>4 DEF IndexesAppeared
<1>. QED
  BY <1>5, <1>6 DEF e

-----------------------------------------------------------------------------
(* The four queries *)

LEMMA SeenTables ==
    ASSUME NEW v \in View, NEW d \in Catalogue, LagsBehind(v, d), Guaranteed(d)
    PROVE  LET w == [v EXCEPT !.tables = d.tables]
           IN  w \in View /\ LagsBehind(w, d) /\ \A x : TablesAppeared(x, w, d)
<1>. DEFINE w == [v EXCEPT !.tables = d.tables]
<1>1. /\ w \in View
      /\ w.tables = d.tables /\ w.cols = v.cols /\ w.keys = v.keys /\ w.rels = v.rels
  BY DEF View, Catalogue
<1>. HIDE DEF w
<1>2. v.tables \subseteq w.tables
  BY <1>1 DEF LagsBehind
<1>3. LagsBehind(w, d)
  BY <1>1, <1>2 DEF LagsBehind
<1>4. ASSUME NEW x PROVE TablesAppeared(x, w, d)
  BY <1>1 DEF TablesAppeared, Guaranteed
<1>. QED
  BY <1>1, <1>3, <1>4 DEF w

LEMMA SeenColumnsLag ==
    ASSUME NEW v \in View, NEW d \in Catalogue, LagsBehind(v, d)
    PROVE  LET w == [v EXCEPT !.cols = SeenColumns(v.tables, d)]
           IN  /\ w \in View /\ LagsBehind(w, d)
               /\ \A x : TablesAppeared(x, v, d) => TablesAppeared(x, w, d)
<1>. DEFINE w == [v EXCEPT !.cols = SeenColumns(v.tables, d)]
<1>1. v.tables \in SUBSET Tables
  BY DEF View
<1>2. /\ w \in View
      /\ w.tables = v.tables /\ w.keys = v.keys /\ w.rels = v.rels
      /\ w.cols = SeenColumns(v.tables, d)
  BY <1>1, SeenTypes DEF View
<1>. HIDE DEF w
<1>3. \A t \in Tables, c \in Columns : w.cols[t][c] # None =>
         t \in v.tables /\ w.cols[t][c] = d.cols[t][c]
  BY <1>2 DEF SeenColumns, NoColumns
<1>4. LagsBehind(w, d)
  BY <1>2, <1>3 DEF LagsBehind
<1>5. ASSUME NEW x, TablesAppeared(x, v, d) PROVE TablesAppeared(x, w, d)
  BY <1>2, <1>5 DEF TablesAppeared
<1>. QED
  BY <1>2, <1>4, <1>5 DEF w

LEMMA SeenKeysLag ==
    ASSUME NEW v \in View, NEW d \in Catalogue, LagsBehind(v, d)
    PROVE  LET w == [v EXCEPT !.keys = SeenKeys(v.tables, d)]
           IN  /\ w \in View /\ LagsBehind(w, d)
               /\ \A x : TablesAppeared(x, v, d) => TablesAppeared(x, w, d)
<1>. DEFINE w == [v EXCEPT !.keys = SeenKeys(v.tables, d)]
<1>1. v.tables \in SUBSET Tables
  BY DEF View
<1>2. /\ w \in View
      /\ w.tables = v.tables /\ w.cols = v.cols /\ w.rels = v.rels
      /\ w.keys = SeenKeys(v.tables, d)
  BY <1>1, SeenTypes DEF View
<1>. HIDE DEF w
<1>3. ASSUME NEW t \in Tables, w.keys[t] # None
      PROVE  /\ t \in v.tables /\ w.keys[t].name \in PrimaryKeys(d, t)
             /\ w.keys[t].cols = d.rels[w.keys[t].name].cols
  <2>1. t \in v.tables /\ PrimaryKeys(d, t) # {}
    BY <1>2, <1>3 DEF SeenKeys
  <2>2. PICK n : n = CHOOSE m \in PrimaryKeys(d, t) : TRUE
    OBVIOUS
  <2>3. w.keys[t] = [name |-> n, cols |-> d.rels[n].cols]
    BY <1>2, <2>1, <2>2 DEF SeenKeys
  <2>4. n \in PrimaryKeys(d, t)
    BY <2>1, <2>2
  <2>. QED
    BY <2>1, <2>3, <2>4
<1>4. LagsBehind(w, d)
  BY <1>2, <1>3 DEF LagsBehind
<1>5. ASSUME NEW x, TablesAppeared(x, v, d) PROVE TablesAppeared(x, w, d)
  BY <1>2, <1>5 DEF TablesAppeared
<1>. QED
  BY <1>2, <1>4, <1>5 DEF w

LEMMA SeenIndexesLag ==
    ASSUME NEW v \in View, NEW d \in Catalogue, LagsBehind(v, d)
    PROVE  LET w == [v EXCEPT !.rels = SeenIndexes(v.tables, d)]
           IN  /\ w \in View /\ LagsBehind(w, d)
               /\ \A x : TablesAppeared(x, v, d) => TablesAppeared(x, w, d) /\ IndexesAppeared(x, w, d)
<1>. DEFINE w == [v EXCEPT !.rels = SeenIndexes(v.tables, d)]
<1>1. v.tables \in SUBSET Tables
  BY DEF View
<1>2. /\ w \in View
      /\ w.tables = v.tables /\ w.cols = v.cols /\ w.keys = v.keys
      /\ w.rels = SeenIndexes(v.tables, d)
  BY <1>1, SeenTypes DEF View
<1>. HIDE DEF w
<1>3. \A n \in Names :
         /\ w.rels[n] # None => d.rels[n].table \in v.tables /\ w.rels[n] = d.rels[n]
         /\ w.rels[n] = None /\ d.rels[n] # None => d.rels[n].table \notin v.tables
  BY <1>2 DEF SeenIndexes
<1>4. LagsBehind(w, d)
  BY <1>2, <1>3 DEF LagsBehind
<1>5. ASSUME NEW x, TablesAppeared(x, v, d)
      PROVE  TablesAppeared(x, w, d) /\ IndexesAppeared(x, w, d)
  BY <1>2, <1>3, <1>5 DEF TablesAppeared, IndexesAppeared
<1>. QED
  BY <1>2, <1>4, <1>5 DEF w

-----------------------------------------------------------------------------
(* Every step keeps the invariant. *)

LEMMA RevisionType == \A k \in 1 .. Len(Revisions) : Revisions[k] \in Schema
BY RevisionsAssumption

LEMMA TypeStep ==
    ASSUME TypeOK, [Next]_vars
    PROVE  TypeOK'
<1>. USE DEF TypeOK
<1>1. CASE EditSchema
  BY <1>1, RevisionsAssumption DEF EditSchema
<1>2. ASSUME NEW o \in Operators, Load(o) PROVE TypeOK'
  BY <1>2, NothingType DEF Load
<1>3. ASSUME NEW o \in Operators, InspectTables(o) PROVE TypeOK'
  <2>1. view[o] \in View /\ db.tables \in SUBSET Tables
    BY DEF Catalogue
  <2>2. [view[o] EXCEPT !.tables = db.tables] \in View
    BY <2>1 DEF View
  <2>. QED
    BY <1>3, <2>2 DEF InspectTables, Inspect
<1>4. ASSUME NEW o \in Operators, InspectColumns(o) PROVE TypeOK'
  <2>1. view[o].tables \in SUBSET Tables
    BY DEF View
  <2>2. [view[o] EXCEPT !.cols = SeenColumns(view[o].tables, db)] \in View
    <3>1. PICK v \in View : v = view[o]
      OBVIOUS
    <3>2. [v EXCEPT !.cols = SeenColumns(v.tables, db)] \in View
      BY <2>1, <3>1, SeenTypes DEF View
    <3>. QED
      BY <3>1, <3>2
  <2>. QED
    BY <1>4, <2>2 DEF InspectColumns, Inspect
<1>5. ASSUME NEW o \in Operators, InspectKeys(o) PROVE TypeOK'
  <2>1. view[o].tables \in SUBSET Tables
    BY DEF View
  <2>2. [view[o] EXCEPT !.keys = SeenKeys(view[o].tables, db)] \in View
    <3>1. PICK v \in View : v = view[o]
      OBVIOUS
    <3>2. [v EXCEPT !.keys = SeenKeys(v.tables, db)] \in View
      BY <2>1, <3>1, SeenTypes DEF View
    <3>. QED
      BY <3>1, <3>2
  <2>. QED
    BY <1>5, <2>2 DEF InspectKeys, Inspect
<1>6. ASSUME NEW o \in Operators, InspectIndexes(o) PROVE TypeOK'
  <2>1. view[o].tables \in SUBSET Tables
    BY DEF View
  <2>2. [view[o] EXCEPT !.rels = SeenIndexes(view[o].tables, db)] \in View
    <3>1. PICK v \in View : v = view[o]
      OBVIOUS
    <3>2. [v EXCEPT !.rels = SeenIndexes(v.tables, db)] \in View
      BY <2>1, <3>1, SeenTypes DEF View
    <3>. QED
      BY <3>1, <3>2
  <2>. QED
    BY <1>6, <2>2 DEF InspectIndexes, Inspect
<1>7. ASSUME NEW o \in Operators, Refuse(o) \/ InspectFails(o) \/ NotApplied(o) PROVE TypeOK'
  BY <1>7 DEF Refuse, InspectFails, NotApplied
<1>8. ASSUME NEW o \in Operators, Generate(o) PROVE TypeOK'
  <2>1. Script(Revisions[want[o]], view[o]) \in [Tables -> Part]
    BY RevisionType, ScriptType
  <2>. QED
    BY <1>8, <2>1 DEF Generate
<1>9. ASSUME NEW o \in Operators, Apply(o) PROVE TypeOK'
  <2>1. Executed(db, script[o]) \in Catalogue
    BY ExecutedType
  <2>. QED
    BY <1>9, <2>1 DEF Apply
<1>10. CASE UNCHANGED vars
  BY <1>10 DEF vars
<1>. QED
  BY <1>1, <1>2, <1>3, <1>4, <1>5, <1>6, <1>7, <1>8, <1>9, <1>10 DEF Next, Run

\* One operator moves and the database stays as it is.
LEMMA Moves ==
    ASSUME Inv, TypeOK', NEW o \in Operators, db' = db,
           \A q \in Operators \ {o} :
               /\ pc'[q] = pc[q] /\ want'[q] = want[q] /\ view'[q] = view[q]
               /\ script'[q] = script[q] /\ since'[q] = since[q],
           Good(pc'[o], want'[o], view'[o], script'[o], since'[o], db)
    PROVE  Inv'
BY DEF Inv

\* Those who are idle need to know nothing.
LEMMA IdleIsGood ==
    ASSUME NEW k, NEW v, NEW s, NEW ks, NEW d, LagsBehind(v, d),
           NEW p \in {"idle", "tables"}
    PROVE  Good(p, k, v, s, ks, d)
BY DEF Good

LEMMA InvStep ==
    ASSUME Inv, [Next]_vars
    PROVE  Inv'
<1>. TypeOK' /\ TypeOK
  BY TypeStep DEF Inv
<1>0. /\ pc \in [Operators -> {"idle", "tables", "columns", "keys", "indexes", "generate", "ready"}]
      /\ want \in [Operators -> 1 .. Len(Revisions)]
      /\ view \in [Operators -> View]
      /\ script \in [Operators -> [Tables -> Part]]
      /\ since \in [Operators -> SUBSET (1 .. Len(Revisions))]
      /\ db \in Catalogue /\ Guaranteed(db)
  BY DEF TypeOK, Inv
<1>1. CASE EditSchema
  BY <1>1 DEF EditSchema, Inv
<1>2. ASSUME NEW o \in Operators, Load(o) PROVE Inv'
  <2>1. LagsBehind(Nothing, db)
    BY <1>0 DEF LagsBehind, Nothing, NoColumns
  <2>2. /\ pc'[o] = "tables" /\ view'[o] = Nothing /\ db' = db
        /\ \A q \in Operators \ {o} :
               /\ pc'[q] = pc[q] /\ want'[q] = want[q] /\ view'[q] = view[q]
               /\ script'[q] = script[q] /\ since'[q] = since[q]
    BY <1>0, <1>2 DEF Load
  <2>3. Good(pc'[o], want'[o], view'[o], script'[o], since'[o], db)
    BY <2>1, <2>2, IdleIsGood
  <2>. QED
    BY <2>2, <2>3, Moves
<1>3. ASSUME NEW o \in Operators, Refuse(o) \/ InspectFails(o) \/ NotApplied(o) PROVE Inv'
  <2>1. /\ pc'[o] = "idle" /\ view'[o] = view[o] /\ db' = db
        /\ \A q \in Operators \ {o} :
               /\ pc'[q] = pc[q] /\ want'[q] = want[q] /\ view'[q] = view[q]
               /\ script'[q] = script[q] /\ since'[q] = since[q]
    BY <1>0, <1>3 DEF Refuse, InspectFails, NotApplied
  <2>2. LagsBehind(view[o], db)
    BY DEF Inv, Good
  <2>3. Good(pc'[o], want'[o], view'[o], script'[o], since'[o], db)
    BY <2>1, <2>2, IdleIsGood
  <2>. QED
    BY <2>1, <2>3, Moves
<1>4. ASSUME NEW o \in Operators, Generate(o) PROVE Inv'
  <2>1. /\ pc[o] = "generate" /\ pc'[o] = "ready"
        /\ want'[o] = want[o] /\ view'[o] = view[o] /\ since'[o] = since[o] /\ db' = db
        /\ script'[o] = Script(Revisions[want[o]], view[o])
        /\ ~Refused(Revisions[want[o]], view[o])
        /\ \A q \in Operators \ {o} :
               /\ pc'[q] = pc[q] /\ want'[q] = want[q] /\ view'[q] = view[q]
               /\ script'[q] = script[q] /\ since'[q] = since[q]
    BY <1>0, <1>4 DEF Generate
  <2>2. Good("generate", want[o], view[o], script[o], since[o], db)
    BY <2>1 DEF Inv
  <2>3. Good(pc'[o], want'[o], view'[o], script'[o], since'[o], db)
    BY <2>1, <2>2 DEF Good
  <2>. QED
    BY <2>1, <2>3, Moves
<1>5. ASSUME NEW o \in Operators, NEW from, NEW to, NEW w, Inspect(o, from, to, w),
             LagsBehind(w, db),
             \/ from = "tables" /\ to = "columns" /\ \A x : TablesAppeared(x, w, db)
             \/ /\ from \in {"columns", "keys"} /\ to \in {"keys", "indexes"}
                /\ \A x : TablesAppeared(x, view[o], db) => TablesAppeared(x, w, db)
             \/ /\ from = "indexes" /\ to = "generate"
                /\ \A x : TablesAppeared(x, view[o], db) =>
                              TablesAppeared(x, w, db) /\ IndexesAppeared(x, w, db)
      PROVE  Inv'
  <2>1. /\ pc[o] = from /\ pc'[o] = to
        /\ want'[o] = want[o] /\ view'[o] = w /\ since'[o] = since[o] /\ db' = db
        /\ \A q \in Operators \ {o} :
               /\ pc'[q] = pc[q] /\ want'[q] = want[q] /\ view'[q] = view[q]
               /\ script'[q] = script[q] /\ since'[q] = since[q]
    BY <1>0, <1>5 DEF Inspect
  <2>2. Good(from, want[o], view[o], script[o], since[o], db)
    BY <2>1 DEF Inv
  <2>3. PICK x : x = Revisions[want[o]]
    OBVIOUS
  <2>4. from # "tables" /\ since[o] \subseteq {want[o]} => TablesAppeared(x, view[o], db)
    BY <1>5, <2>2, <2>3 DEF Good
  <2>5. Good(to, want[o], w, script'[o], since[o], db)
    BY <1>5, <2>3, <2>4 DEF Good
  <2>. QED
    BY <2>1, <2>5, Moves
<1>6. ASSUME NEW o \in Operators,
             InspectTables(o) \/ InspectColumns(o) \/ InspectKeys(o) \/ InspectIndexes(o)
      PROVE  Inv'
  <2>1. view[o] \in View /\ LagsBehind(view[o], db)
    BY <1>0 DEF Inv, Good
  <2>2. CASE InspectTables(o)
    <3>1. PICK w : w = [view[o] EXCEPT !.tables = db.tables]
      OBVIOUS
    <3>2. LagsBehind(w, db) /\ \A x : TablesAppeared(x, w, db)
      BY <1>0, <2>1, <3>1, SeenTables
    <3>3. Inspect(o, "tables", "columns", w)
      BY <2>2, <3>1 DEF InspectTables
    <3>. QED
      BY <1>5, <3>2, <3>3
  <2>3. CASE InspectColumns(o)
    <3>1. PICK w : w = [view[o] EXCEPT !.cols = SeenColumns(view[o].tables, db)]
      OBVIOUS
    <3>2. /\ LagsBehind(w, db)
          /\ \A x : TablesAppeared(x, view[o], db) => TablesAppeared(x, w, db)
      BY <1>0, <2>1, <3>1, SeenColumnsLag
    <3>3. Inspect(o, "columns", "keys", w)
      BY <2>3, <3>1 DEF InspectColumns
    <3>. QED
      BY <1>5, <3>2, <3>3
  <2>4. CASE InspectKeys(o)
    <3>1. PICK w : w = [view[o] EXCEPT !.keys = SeenKeys(view[o].tables, db)]
      OBVIOUS
    <3>2. /\ LagsBehind(w, db)
          /\ \A x : TablesAppeared(x, view[o], db) => TablesAppeared(x, w, db)
      BY <1>0, <2>1, <3>1, SeenKeysLag
    <3>3. Inspect(o, "keys", "indexes", w)
      BY <2>4, <3>1 DEF InspectKeys
    <3>. QED
      BY <1>5, <3>2, <3>3
  <2>5. CASE InspectIndexes(o)
    <3>1. PICK w : w = [view[o] EXCEPT !.rels = SeenIndexes(view[o].tables, db)]
      OBVIOUS
    <3>2. /\ LagsBehind(w, db)
          /\ \A x : TablesAppeared(x, view[o], db) =>
                       TablesAppeared(x, w, db) /\ IndexesAppeared(x, w, db)
      BY <1>0, <2>1, <3>1, SeenIndexesLag
    <3>3. Inspect(o, "indexes", "generate", w)
      BY <2>5, <3>1 DEF InspectIndexes
    <3>. QED
      BY <1>5, <3>2, <3>3
  <2>. QED
    BY <1>6, <2>2, <2>3, <2>4, <2>5
<1>7. ASSUME NEW o \in Operators, Apply(o) PROVE Inv'
  <2>1. PICK s \in [Tables -> Part], x \in Schema, w \in View :
           s = script[o] /\ x = Revisions[want[o]] /\ w = view[o]
    BY <1>0, RevisionType
  <2>2. s = Script(x, w) /\ ~Fails(db, s) /\ db' = Executed(db, s) /\ LagsBehind(w, db)
    BY <1>7, <2>1 DEF Apply, Inv, Good
  <2>3. Guaranteed(Executed(db, s))
    BY <1>0, <2>2, GuaranteedAfter
  <2>4. ASSUME NEW q \in Operators
        PROVE  Good(pc'[q], want'[q], view'[q], script'[q], since'[q], Executed(db, s))
    <3>1. PICK v \in View, k \in 1 .. Len(Revisions) : v = view[q] /\ k = want[q]
      BY <1>0
    <3>2. view'[q] = v /\ want'[q] = k /\ script'[q] = script[q]
      BY <1>7, <3>1 DEF Apply
    <3>3. Good(pc[q], k, v, script[q], since[q], db)
      BY <3>1 DEF Inv
    <3>4. LagsBehind(v, Executed(db, s))
      BY <1>0, <2>2, <3>3, LagsAfter DEF Good
    <3>5. CASE q = o
      <4>1. pc'[q] = "idle"
        BY <1>0, <1>7, <3>5 DEF Apply
      <4>. QED
        BY <3>2, <3>4, <4>1, IdleIsGood
    <3>6. CASE q # o
      <4>1. pc'[q] = pc[q] /\ since'[q] = since[q] \cup {want[o]}
        BY <1>0, <1>7, <3>6 DEF Apply
      <4>2. CASE since'[q] \subseteq {k}
        <5>1. since[q] \subseteq {k} /\ x = Revisions[k]
          BY <2>1, <4>1, <4>2
        <5>2. /\ TablesAppeared(x, v, db) => TablesAppeared(x, v, Executed(db, s))
              /\ IndexesAppeared(x, v, db) => IndexesAppeared(x, v, Executed(db, s))
          BY <1>0, <2>2, AppearedAfter
        <5>3. pc[q] = "ready" =>
                 ~Refused(Revisions[k], v) /\ script[q] = Script(Revisions[k], v)
          BY <3>3 DEF Good
        <5>4. /\ pc[q] \in {"columns", "keys", "indexes", "generate", "ready"}
                    => TablesAppeared(x, v, db)
              /\ pc[q] \in {"generate", "ready"} => IndexesAppeared(x, v, db)
          BY <3>3, <5>1 DEF Good
        <5>. QED
          BY <3>2, <3>4, <4>1, <5>1, <5>2, <5>3, <5>4 DEF Good
      <4>3. CASE ~(since'[q] \subseteq {k})
        BY <3>2, <3>3, <3>4, <4>1, <4>3 DEF Good
      <4>. QED
        BY <4>2, <4>3
    <3>. QED
      BY <3>5, <3>6
  <2>. QED
    BY <2>2, <2>3, <2>4 DEF Inv
<1>8. CASE UNCHANGED vars
  BY <1>8 DEF vars, Inv
<1>. QED
  BY <1>1, <1>2, <1>3, <1>4, <1>6, <1>7, <1>8 DEF Next, Run

\* Whatever operators do at the same time, the catalogue stays one that
\* PostgreSQL allows and what genddl knows of it lags behind but is never wrong
\* (gen/ddl/main.go:213-452).
THEOREM Invariance == Spec => []Inv
<1>1. Init => Inv
  <2>. SUFFICES ASSUME Init PROVE Inv
    OBVIOUS
  <2>1. TypeOK
    BY RevisionsAssumption, DatabasesAssumption, NothingType DEF Init, TypeOK
  <2>2. ASSUME NEW o \in Operators PROVE LagsBehind(view[o], db)
    <3>1. view[o] = Nothing
      BY DEF Init
    <3>. QED
      BY <2>1, <3>1 DEF LagsBehind, Nothing, NoColumns, TypeOK, Catalogue
  <2>3. ASSUME NEW o \in Operators
        PROVE  Good(pc[o], want[o], view[o], script[o], since[o], db)
    <3>1. pc[o] = "idle"
      BY DEF Init
    <3>. QED
      BY <2>2, <3>1, IdleIsGood
  <2>4. Guaranteed(db)
    BY DatabasesAssumption DEF Init
  <2>. QED
    BY <2>1, <2>3, <2>4 DEF Inv
<1>. QED
  BY <1>1, InvStep, PTL DEF Spec

-----------------------------------------------------------------------------
(* A database that conforms is left alone. *)

LEMMA OnlyKey ==
    ASSUME NEW d \in Catalogue, Guaranteed(d), NEW tables, NEW t \in tables, t \in Tables,
           NEW n \in Names, d.rels[n] # None, d.rels[n].primary, d.rels[n].table = t
    PROVE  SeenKeys(tables, d)[t] = [name |-> n, cols |-> d.rels[n].cols]
<1>1. n \in PrimaryKeys(d, t)
  BY DEF PrimaryKeys
<1>2. PICK m : m = CHOOSE q \in PrimaryKeys(d, t) : TRUE
  OBVIOUS
<1>3. m \in PrimaryKeys(d, t)
  BY <1>1, <1>2
<1>4. m = n
  BY <1>1, <1>3 DEF PrimaryKeys, Guaranteed
<1>. QED
  BY <1>1, <1>2, <1>4 DEF SeenKeys

LEMMA LeftAlone ==
    ASSUME NEW x \in Schema, NEW d \in Catalogue, Guaranteed(d),
           ~NamesClash(x), Conforms(x, d)
    PROVE  ~Refused(x, Seen(d)) /\ Script(x, Seen(d)) = NoScript
<1>. DEFINE v == Seen(d)
<1>1. /\ v.tables = d.tables /\ v.cols = SeenColumns(d.tables, d)
      /\ v.keys = SeenKeys(d.tables, d) /\ v.rels = SeenIndexes(d.tables, d)
  BY DEF Seen
<1>. HIDE DEF v
<1>2. ASSUME NEW t \in Declared(x)
      PROVE  /\ t \in Tables /\ x[t] # None /\ x[t] \in TableDecl /\ t \in v.tables
             /\ v.cols[t] = d.cols[t]
  BY <1>1 DEF Declared, Schema, Conforms, SeenColumns
<1>3. ASSUME NEW t \in Declared(x), NEW i \in x[t].indexes
      PROVE  HasIndex(v, t, i) /\ ~IndexDiffers(v, t, i)
  <2>1. i.name \in Names
    BY <1>2 DEF TableDecl, IndexDecl
  <2>2. /\ d.rels[i.name] # None /\ d.rels[i.name].table = t
        /\ Definition(d.rels[i.name]) = Definition(i)
    BY DEF Conforms
  <2>3. v.rels[i.name] = d.rels[i.name]
    BY <1>1, <1>2, <2>1, <2>2 DEF SeenIndexes
  <2>. QED
    BY <2>2, <2>3 DEF HasIndex, IndexDiffers
<1>4. ASSUME NEW t \in Declared(x), x[t].key # None
      PROVE  /\ v.keys[t] = [name |-> x[t].key.name, cols |-> <<x[t].key.col>>]
             /\ v.keys[t] # None
             /\ x[t].key.col \in Columns
             /\ x[t].key.auto => /\ v.cols[t][x[t].key.col] # None
                                /\ v.cols[t][x[t].key.col].identity
  <2>1. PICK n \in Names : n = x[t].key.name
    BY <1>2, <1>4 DEF TableDecl, KeyDecl
  <2>2. x[t].key.col \in Columns
    BY <1>2, <1>4 DEF TableDecl, KeyDecl
  <2>3. d.rels[n] = KeyRelation(t, x[t].key)
    BY <1>4, <2>1 DEF Conforms
  <2>4. KeyRelation(t, x[t].key) \in Relation
    BY <1>2, <2>2, NoneIs DEF KeyRelation, Relation
  <2>5. /\ d.rels[n] # None /\ d.rels[n].primary /\ d.rels[n].table = t
        /\ d.rels[n].cols = <<x[t].key.col>>
    <3>1. /\ KeyRelation(t, x[t].key).primary /\ KeyRelation(t, x[t].key).table = t
          /\ KeyRelation(t, x[t].key).cols = <<x[t].key.col>>
      BY DEF KeyRelation
    <3>. QED
      BY <2>3, <2>4, <3>1, NoneIs
  <2>6. v.keys[t] = [name |-> n, cols |-> d.rels[n].cols]
    BY <1>1, <1>2, <2>5, OnlyKey
  <2>7. n \in PrimaryKeys(d, t)
    BY <2>5 DEF PrimaryKeys
  <2>8. v.keys[t] # None
    <3>1. d.rels[n].cols \in Seq(Columns)
      BY <2>3, <2>4, <2>5 DEF Relation
    <3>2. [name |-> n, cols |-> d.rels[n].cols] \in KeyView
      BY <3>1 DEF KeyView
    <3>. QED
      BY <2>6, <3>2, NoneIs
  <2>9. v.keys[t] = [name |-> x[t].key.name, cols |-> <<x[t].key.col>>]
    BY <2>1, <2>5, <2>6
  <2>10. x[t].key.auto => /\ v.cols[t][x[t].key.col] # None
                         /\ v.cols[t][x[t].key.col].identity
    <3>1. x[t].key.auto => d.cols[t][x[t].key.col] # None /\ d.cols[t][x[t].key.col].identity
      BY <1>4 DEF Conforms
    <3>. QED
      BY <1>2, <3>1
  <2>. QED
    BY <2>2, <2>8, <2>9, <2>10
<1>5. ~Refused(x, v)
  <2>1. ASSUME NEW t \in Declared(x) PROVE ~Differs(x, v, t)
    <3>1. \A c \in Columns : x[t].cols[c] # None /\ v.cols[t][c] # None =>
             ~ColumnDiffers(x[t].cols[c], v.cols[t][c])
      BY <1>2 DEF Conforms, ColumnDiffers
    <3>. QED
      BY <1>3, <1>4, <3>1 DEF Differs
  <2>. QED
    BY <2>1 DEF Refused
<1>6. ASSUME NEW t \in Tables, x[t] # None
      PROVE  AlterTable(x[t], v, t) = NoPart
  <2>. t \in Declared(x)
    BY <1>6 DEF Declared
  <2>1. \A c \in Columns : v.cols[t][c] = None => x[t].cols[c] = None
    BY <1>2 DEF Conforms
  <2>2. [c \in Columns |-> IF v.cols[t][c] = None THEN x[t].cols[c] ELSE None] = NoColumns
    BY <2>1 DEF NoColumns
  <2>3. (IF v.keys[t] = None THEN x[t].key ELSE None) = None
    BY <1>4
  <2>4. ~(/\ x[t].key # None /\ x[t].key.auto
          /\ v.cols[t][x[t].key.col] # None => ~v.cols[t][x[t].key.col].identity)
    BY <1>4
  <2>5. {i \in x[t].indexes : ~HasIndex(v, t, i)} = {}
    BY <1>3
  <2>. QED
    BY <2>2, <2>3, <2>4, <2>5 DEF AlterTable, NoPart
<1>7. Script(x, v) = NoScript
  BY <1>2, <1>6 DEF Script, NoScript, Declared
<1>. QED
  BY <1>5, <1>7 DEF v

\* A second run of genddl finds nothing to object to and nothing to do
\* (gen/ddl/main.go:6).
THEOREM ConformingDatabases == Spec => []ConformingIsLeftAlone
<1>1. Inv => ConformingIsLeftAlone
  <2>. SUFFICES ASSUME Inv, NEW k \in DOMAIN Revisions,
                       ~NamesClash(Revisions[k]), Conforms(Revisions[k], db)
                PROVE  /\ ~Refused(Revisions[k], Seen(db))
                       /\ Script(Revisions[k], Seen(db)) = NoScript
    BY DEF ConformingIsLeftAlone
  <2>1. k \in 1 .. Len(Revisions)
    BY RevisionsAssumption
  <2>2. Revisions[k] \in Schema /\ db \in Catalogue /\ Guaranteed(db)
    BY <2>1, RevisionType DEF Inv, TypeOK
  <2>. QED
    BY <2>2, LeftAlone
<1>. QED
  BY <1>1, Invariance, PTL

-----------------------------------------------------------------------------
(* A script that runs without an error leaves the database as it should be. *)

\* If no names clash, a name stands for one index or key.
LEMMA WantedIndex ==
    ASSUME NEW x, ~NamesClash(x), NEW t \in Declared(x), NEW i \in x[t].indexes,
           NEW rel, IsWanted(x, i.name, rel)
    PROVE  rel = IndexRelation(t, i)
<1>1. PICK u \in Declared(x) :
        \/ \E j \in x[u].indexes : j.name = i.name /\ rel = IndexRelation(u, j)
        \/ x[u].key # None /\ x[u].key.name = i.name
  BY DEF IsWanted
<1>2. ASSUME x[u].key # None, x[u].key.name = i.name PROVE FALSE
  BY <1>2 DEF NamesClash, KeyName
<1>3. PICK j \in x[u].indexes : j.name = i.name /\ rel = IndexRelation(u, j)
  BY <1>1, <1>2
<1>4. <<t, i>> = <<u, j>>
  BY <1>3 DEF NamesClash
<1>. QED
  BY <1>3, <1>4

LEMMA WantedKey ==
    ASSUME NEW x, ~NamesClash(x), NEW t \in Declared(x), x[t].key # None,
           NEW rel, IsWanted(x, x[t].key.name, rel)
    PROVE  rel = KeyRelation(t, x[t].key)
<1>1. PICK u \in Declared(x) :
        \/ \E j \in x[u].indexes : j.name = x[t].key.name
        \/ /\ x[u].key # None /\ x[u].key.name = x[t].key.name
           /\ rel = KeyRelation(u, x[u].key)
  BY DEF IsWanted
<1>2. x[t].key.name \in KeyName(x, t)
  BY DEF KeyName
<1>3. ASSUME NEW j \in x[u].indexes, j.name = x[t].key.name PROVE FALSE
  BY <1>2, <1>3 DEF NamesClash
<1>4. /\ x[u].key # None /\ x[u].key.name = x[t].key.name
      /\ rel = KeyRelation(u, x[u].key)
  BY <1>1, <1>3
<1>5. x[u].key.name \in KeyName(x, u)
  BY <1>4 DEF KeyName
<1>6. u = t
  BY <1>2, <1>4, <1>5 DEF NamesClash
<1>. QED
  BY <1>4, <1>6

LEMMA ConformsAfter ==
    ASSUME NEW x \in Schema, NEW v \in View, NEW d \in Catalogue, Guaranteed(d),
           LagsBehind(v, d), TablesAppeared(x, v, d), IndexesAppeared(x, v, d),
           ~Refused(x, v), ~Fails(d, Script(x, v)),
           \A t \in Declared(x) : \A i \in x[t].indexes :
               v.rels[i.name] # None => v.rels[i.name].table = t
    PROVE  Conforms(x, Executed(d, Script(x, v)))
<1>. DEFINE s == Script(x, v)
            e == Executed(d, s)
<1>1. s \in [Tables -> Part]
  BY ScriptType
<1>2. /\ d.tables \subseteq e.tables
      /\ \A n \in Names : d.rels[n] # None => e.rels[n] = d.rels[n]
      /\ \A t \in d.tables, c \in Columns : d.cols[t][c] # None =>
            /\ e.cols[t][c] # None
            /\ e.cols[t][c].type = d.cols[t][c].type
            /\ e.cols[t][c].nullable = d.cols[t][c].nullable
            /\ d.cols[t][c].identity => e.cols[t][c].identity
  BY <1>1, NothingIsLost
<1>3. ASSUME NEW t \in Declared(x)
      PROVE  /\ t \in Tables /\ x[t] # None /\ x[t] \in TableDecl
             /\ s[t] = IF t \in v.tables THEN AlterTable(x[t], v, t) ELSE MissingTable(x[t])
             /\ ~PartFails(d, t, s[t]) /\ s[t] \in Part
  BY <1>1 DEF Declared, Schema, Script, Fails
<1>4. ASSUME NEW t \in Declared(x)
       PROVE  /\ ~(t \in v.tables /\ v.keys[t] # None) => s[t].key = x[t].key
              /\ t \notin v.tables => s[t].key = x[t].key
              /\ \A i \in x[t].indexes :
                    ~(t \in v.tables /\ HasIndex(v, t, i)) => i \in s[t].indexes
              /\ /\ t \in v.tables /\ x[t].key # None /\ x[t].key.auto
                 /\ v.cols[t][x[t].key.col] # None => ~v.cols[t][x[t].key.col].identity
                 => s[t].identity = x[t].key.col
  <2>1. CASE t \in v.tables
    <3>1. s[t] = AlterTable(x[t], v, t)
      BY <1>3, <2>1
    <3>. HIDE DEF s
    <3>. QED
      BY SMTT(30), <2>1, <3>1 DEF AlterTable
  <2>2. CASE t \notin v.tables
    <3>1. s[t] = MissingTable(x[t])
      BY <1>3, <2>2
    <3>. HIDE DEF s
    <3>. QED
      BY <2>2, <3>1 DEF MissingTable
  <2>. QED
    BY <2>1, <2>2
<1>5. ~NamesClash(x) /\ \A t \in Declared(x) : t \in v.tables => ~Differs(x, v, t)
  BY DEF Refused
<1>6. ASSUME NEW t \in Declared(x)
      PROVE  t \in e.tables
  <2>1. CASE t \in v.tables
    BY <1>2, <2>1 DEF LagsBehind
  <2>2. CASE t \notin v.tables
    <3>1. MissingTable(x[t]).create
      BY DEF MissingTable
    <3>2. s[t].create
      BY <1>3, <2>2, <3>1
    <3>. QED
      BY <1>3, <3>2 DEF Executed
  <2>. QED
    BY <2>1, <2>2
<1>7. ASSUME NEW t \in Declared(x)
      PROVE  HasColumns(x, e, t)
  <2>1. CASE t \in v.tables
    <3>1. ASSUME NEW c \in Columns, x[t].cols[c] # None, v.cols[t][c] # None
          PROVE  /\ e.cols[t][c] # None /\ e.cols[t][c].type = x[t].cols[c]
                 /\ ~e.cols[t][c].nullable
      <4>1. v.cols[t][c].type = x[t].cols[c] /\ ~v.cols[t][c].nullable
        BY <1>5, <2>1, <3>1 DEF Differs, ColumnDiffers
      <4>2. /\ t \in d.tables /\ d.cols[t][c] # None
            /\ d.cols[t][c].type = v.cols[t][c].type
            /\ d.cols[t][c].nullable = v.cols[t][c].nullable
        BY <1>3, <2>1, <3>1 DEF LagsBehind
      <4>. HIDE DEF e
      <4>. QED
        BY <1>2, <4>1, <4>2
    <3>2. ASSUME NEW c \in Columns, x[t].cols[c] # None, v.cols[t][c] = None
          PROVE  /\ e.cols[t][c] # None /\ e.cols[t][c].type = x[t].cols[c]
                 /\ ~e.cols[t][c].nullable
      <4>1. s[t] = AlterTable(x[t], v, t)
        BY <1>3, <2>1
      <4>2. s[t].cols[c] = x[t].cols[c] /\ ~Skipped(d, t, s[t])
        BY <3>2, <4>1 DEF AlterTable, Skipped
      <4>. HIDE DEF s
      <4>. QED
        BY <1>1, <1>3, <3>2, <4>2, NewColumn
    <3>. QED
      BY <3>1, <3>2 DEF HasColumns
  <2>2. CASE t \notin v.tables /\ t \in d.tables
    <3>1. HasColumns(x, d, t)
      BY <2>2 DEF TablesAppeared
    <3>. HIDE DEF e
    <3>. QED
      BY <1>2, <2>2, <3>1 DEF HasColumns
  <2>3. CASE t \notin d.tables
    BY <2>3, ScriptCreates
  <2>. QED
    BY <2>1, <2>2, <2>3
<1>8. ASSUME NEW t \in Declared(x), x[t].key # None
      PROVE  e.rels[x[t].key.name] = KeyRelation(t, x[t].key)
  <2>1. PICK n \in Names, c \in Columns : n = x[t].key.name /\ c = x[t].key.col
    BY <1>3, <1>8 DEF TableDecl, KeyDecl
  <2>2. CASE t \in v.tables /\ v.keys[t] # None
    <3>1. v.keys[t] = [name |-> n, cols |-> <<c>>]
      BY <1>5, <1>8, <2>1, <2>2 DEF Differs
    <3>2. n \in PrimaryKeys(d, t) /\ d.rels[n].cols = <<c>>
      BY <1>3, <2>2, <3>1 DEF LagsBehind
    <3>3. PICK rel : rel = d.rels[n]
      OBVIOUS
    <3>4. /\ rel \in Relation /\ rel.primary /\ rel.table = t /\ rel.cols = <<c>>
          /\ rel.unique /\ rel.where = None
      BY <3>2, <3>3 DEF PrimaryKeys, Guaranteed, Catalogue
    <3>5. rel = KeyRelation(t, x[t].key)
      BY <2>1, <3>4 DEF Relation, KeyRelation
    <3>. HIDE DEF e
    <3>6. e.rels[n] = rel
      BY <1>2, <3>3, <3>4, NoneIs
    <3>. QED
      BY <2>1, <3>5, <3>6
  <2>3. CASE ~(t \in v.tables /\ v.keys[t] # None)
    <3>1. s[t].key = x[t].key
      BY <1>4, <2>3
    <3>2. PICK u \in Tables : Adds(d, u, s[u], n, e.rels[n])
      BY <1>3, <1>8, <2>1, <3>1, RelationsAfter
    <3>3. PICK rel : rel = e.rels[n]
      OBVIOUS
    <3>4. IsWanted(x, n, rel)
      BY <3>2, <3>3, ScriptAdds
    <3>5. rel = KeyRelation(t, x[t].key)
      BY <1>5, <1>8, <2>1, <3>4, WantedKey
    <3>. QED
      BY <2>1, <3>3, <3>5
  <2>. QED
    BY <2>2, <2>3
<1>9. ASSUME NEW t \in Declared(x), x[t].key # None, x[t].key.auto
       PROVE  e.cols[t][x[t].key.col] # None /\ e.cols[t][x[t].key.col].identity
  <2>1. PICK c \in Columns : c = x[t].key.col
    BY <1>3, <1>9 DEF TableDecl, KeyDecl
  <2>2. CASE t \in v.tables /\ v.cols[t][c] # None /\ v.cols[t][c].identity
    <3>1. t \in d.tables /\ d.cols[t][c] # None /\ d.cols[t][c].identity
      BY <1>3, <2>2 DEF LagsBehind
    <3>. HIDE DEF e
    <3>. QED
      BY <1>2, <2>1, <3>1
  <2>3. CASE ~(t \in v.tables /\ v.cols[t][c] # None /\ v.cols[t][c].identity)
    <3>1. WithColumns(d, t, s[t])[c] # None /\ c \in IdentityColumns(s[t])
      <4>1. CASE t \in v.tables
        <5>1. s[t].identity = c
          BY <1>9, <1>4, <2>1, <2>3, <4>1
        <5>2. s[t].identity # None
          BY <5>1, NoneIs
        <5>. QED
          BY <1>3, <5>1, <5>2, PartSucceeds DEF IdentityColumns
      <4>2. CASE t \notin v.tables
        <5>1. s[t].key = x[t].key
          BY <1>4, <4>2
        <5>. QED
          BY <1>3, <1>9, <2>1, <5>1, PartSucceeds DEF IdentityColumns
      <4>. QED
        BY <4>1, <4>2
    <3>. HIDE DEF s
    <3>. QED
      BY <1>1, <1>3, <2>1, <3>1, ColumnsAfter
  <2>. QED
    BY <2>2, <2>3
<1>10. ASSUME NEW t \in Declared(x), NEW i \in x[t].indexes
      PROVE  /\ e.rels[i.name] # None /\ e.rels[i.name].table = t
             /\ Definition(e.rels[i.name]) = Definition(i)
  <2>1. PICK n \in Names : n = i.name
    BY <1>3 DEF TableDecl, IndexDecl
  <2>2. /\ IndexRelation(t, i) # None /\ IndexRelation(t, i).table = t
        /\ Definition(IndexRelation(t, i)) = Definition(i)
    <3>1. i \in IndexDecl
      BY <1>3 DEF TableDecl
    <3>2. IndexRelation(t, i) \in Relation
      BY <1>3, <3>1 DEF IndexDecl, IndexRelation, Relation
    <3>. QED
      BY <3>2, NoneIs DEF IndexRelation, Definition
  <2>3. CASE HasIndex(v, t, i)
    <3>1. t \in v.tables /\ d.rels[n] = v.rels[n] /\ v.rels[n] # None /\ v.rels[n].table = t
      BY <2>1, <2>3 DEF LagsBehind, HasIndex
    <3>2. Definition(v.rels[n]) = Definition(i)
      BY <1>5, <2>1, <2>3, <3>1 DEF Differs, IndexDiffers
    <3>. HIDE DEF e
    <3>. QED
      BY <1>2, <2>1, <3>1, <3>2
  <2>4. CASE ~HasIndex(v, t, i)
    <3>1. v.rels[n] = None
      BY <2>1, <2>4 DEF HasIndex
    <3>2. i \in s[t].indexes
      BY <1>4, <2>4
    <3>3. CASE d.rels[n] # None
      <4>1. PICK rel : rel = d.rels[n]
        OBVIOUS
      <4>2. IsWanted(x, n, rel)
        BY <3>1, <3>3, <4>1 DEF IndexesAppeared
      <4>3. rel = IndexRelation(t, i)
        BY <1>5, <2>1, <4>2, WantedIndex
      <4>. HIDE DEF e
      <4>. QED
        BY <1>2, <2>1, <2>2, <3>3, <4>1, <4>3
    <3>4. CASE d.rels[n] = None
      <4>1. PICK u \in Tables : Adds(d, u, s[u], n, e.rels[n])
        BY <2>1, <3>2, <3>4, <1>3, RelationsAfter
      <4>2. PICK rel : rel = e.rels[n]
        OBVIOUS
      <4>3. IsWanted(x, n, rel)
        BY <4>1, <4>2, ScriptAdds
      <4>4. rel = IndexRelation(t, i)
        BY <1>5, <2>1, <4>3, WantedIndex
      <4>. HIDE DEF e
      <4>. QED
        BY <2>1, <2>2, <4>2, <4>4
    <3>. QED
      BY <3>3, <3>4
  <2>. QED
    BY <2>3, <2>4
<1>. HIDE DEF e
<1>11. Conforms(x, e)
  BY <1>6, <1>7, <1>8, <1>9, <1>10 DEF Conforms, HasColumns
<1>. QED
  BY <1>11 DEF e

\* Every name is where home puts it.
LEMMA NamesStay ==
    ASSUME NEW home, KeepsTable(home), Inv, [Next]_vars,
           \A n \in Names : db.rels[n] # None => db.rels[n].table = home[n]
    PROVE  \A n \in Names : db'.rels[n] # None => db'.rels[n].table = home[n]
<1>1. CASE db' = db
  BY <1>1
<1>2. ASSUME NEW o \in Operators, Apply(o), NEW n \in Names, db'.rels[n] # None
      PROVE  db'.rels[n].table = home[n]
  <2>1. PICK k \in DOMAIN Revisions, v \in View : k = want[o] /\ v = view[o]
    BY RevisionsAssumption DEF Inv, TypeOK
  <2>2. PICK x : x = Revisions[k]
    OBVIOUS
  <2>3. /\ script[o] = Script(x, v) /\ ~NamesClash(x)
        /\ db' = Executed(db, Script(x, v))
    BY <1>2, <2>1, <2>2 DEF Apply, Inv, Good, Refused
  <2>4. CASE db'.rels[n] = db.rels[n]
    BY <1>2, <2>4
  <2>5. ASSUME NEW t \in Tables, Adds(db, t, Script(x, v)[t], n, Executed(db, Script(x, v)).rels[n])
        PROVE  db'.rels[n].table = home[n]
    <3>1. PICK rel : rel = Executed(db, Script(x, v)).rels[n]
      OBVIOUS
    <3>2. IsWanted(x, n, rel)
      BY <2>5, <3>1, ScriptAdds
    <3>3. PICK u \in Declared(x) :
            \/ \E i \in x[u].indexes : i.name = n /\ rel = IndexRelation(u, i)
            \/ x[u].key # None /\ x[u].key.name = n /\ rel = KeyRelation(u, x[u].key)
      BY <3>2 DEF IsWanted
    <3>4. rel.table = u
      BY <3>3 DEF IndexRelation, KeyRelation
    <3>5. home[n] = u
      BY <2>2, <2>3, <3>3 DEF KeepsTable, KeyName
    <3>. QED
      BY <2>3, <3>1, <3>4, <3>5
  <2>. QED
    BY <2>3, <2>4, <2>5, RelationsAfter
<1>. QED
  BY <1>1, <1>2
     DEF Next, Run, vars, EditSchema, Load, InspectTables, InspectColumns, InspectKeys,
         InspectIndexes, Inspect, Refuse, Generate, InspectFails, NotApplied

\* If no index name moves from one table to another, neither between revisions nor
\* in a database made by hand, a script that runs without an error leaves the
\* database as its revision of pdb.xml wants it, although it was generated from
\* four queries without a transaction and others have run the same revision's
\* scripts since (gen/ddl/main.go:6, 213-452).  Names that move are the finding of
\* the run genddl_moved.
THEOREM AppliedScripts == ASSUME NamesKeepTheirTable PROVE Spec => AppliedScriptsConform
<1>1. PICK home \in [Names -> Tables] : KeepsTable(home)
  BY DEF NamesKeepTheirTable
<1>. DEFINE Home == \A n \in Names : db.rels[n] # None => db.rels[n].table = home[n]
<1>2. Init => Home
  BY <1>1 DEF Init, KeepsTable
<1>3. Inv /\ Home /\ [Next]_vars => Home'
  BY <1>1, NamesStay
<1>4. Inv /\ Home /\ [Next]_vars =>
        [\A o \in Operators :
            Apply(o) /\ since[o] \subseteq {want[o]} => Conforms(Revisions[want[o]], db')]_vars
  <2>. SUFFICES ASSUME Inv, Home, NEW o \in Operators, Apply(o), since[o] \subseteq {want[o]}
                PROVE  Conforms(Revisions[want[o]], db')
    OBVIOUS
  <2>1. PICK k \in DOMAIN Revisions, v \in View : k = want[o] /\ v = view[o]
    BY RevisionsAssumption DEF Inv, TypeOK
  <2>2. PICK x \in Schema, d \in Catalogue : x = Revisions[k] /\ d = db
    BY <2>1, RevisionsAssumption DEF Inv, TypeOK
  <2>3. /\ script[o] = Script(x, v) /\ ~Refused(x, v) /\ ~Fails(d, Script(x, v))
        /\ db' = Executed(d, Script(x, v))
        /\ LagsBehind(v, d) /\ TablesAppeared(x, v, d) /\ IndexesAppeared(x, v, d)
        /\ Guaranteed(d)
    BY <2>1, <2>2 DEF Apply, Inv, Good
  <2>4. ASSUME NEW t \in Declared(x), NEW i \in x[t].indexes, v.rels[i.name] # None
        PROVE  v.rels[i.name].table = t
    <3>1. i.name \in Names
      BY DEF Declared, Schema, TableDecl, IndexDecl
    <3>2. d.rels[i.name] = v.rels[i.name] /\ d.rels[i.name].table = home[i.name]
      BY <2>2, <2>3, <2>4, <3>1 DEF LagsBehind
    <3>3. home[i.name] = t
      BY <1>1, <2>2, <2>3 DEF KeepsTable, Refused
    <3>. QED
      BY <3>2, <3>3
  <2>5. Conforms(x, Executed(d, Script(x, v)))
    BY <2>3, <2>4, ConformsAfter
  <2>. QED
    BY <2>1, <2>2, <2>3, <2>5
<1>. QED
  BY <1>2, <1>3, <1>4, Invariance, PTL DEF Spec, AppliedScriptsConform

-----------------------------------------------------------------------------
(* A fresh script runs without an error. *)

\* As long as nobody else runs a script, what has been read is up to date.
Fresh(p, v, ks, d) ==
    ks = {} =>
        /\ p \in {"columns", "keys", "indexes", "generate", "ready"} => v.tables = d.tables
        /\ p \in {"keys", "indexes", "generate", "ready"} => v.cols = SeenColumns(d.tables, d)
        /\ p \in {"indexes", "generate", "ready"} => v.keys = SeenKeys(d.tables, d)
        /\ p \in {"generate", "ready"} => v.rels = SeenIndexes(d.tables, d)

FreshInv == \A o \in Operators : Fresh(pc[o], view[o], since[o], db)

LEMMA FreshStep ==
    ASSUME TypeOK, FreshInv, [Next]_vars
    PROVE  FreshInv'
<1>0. /\ pc \in [Operators -> {"idle", "tables", "columns", "keys", "indexes", "generate", "ready"}]
      /\ view \in [Operators -> View] /\ db \in Catalogue
      /\ since \in [Operators -> SUBSET (1 .. Len(Revisions))]
  BY DEF TypeOK
<1>1. ASSUME NEW o \in Operators, db' = db,
             \A q \in Operators \ {o} :
                 pc'[q] = pc[q] /\ view'[q] = view[q] /\ since'[q] = since[q],
             Fresh(pc'[o], view'[o], since'[o], db)
      PROVE  FreshInv'
  BY <1>1 DEF FreshInv
<1>2. ASSUME NEW o \in Operators,
             Load(o) \/ Refuse(o) \/ Generate(o) \/ InspectFails(o) \/ NotApplied(o)
      PROVE  FreshInv'
  <2>1. /\ db' = db
        /\ \A q \in Operators \ {o} :
               pc'[q] = pc[q] /\ view'[q] = view[q] /\ since'[q] = since[q]
    BY <1>0, <1>2 DEF Load, Refuse, Generate, InspectFails, NotApplied
  <2>2. \/ pc'[o] \in {"idle", "tables"}
        \/ /\ pc[o] = "generate" /\ pc'[o] = "ready"
           /\ view'[o] = view[o] /\ since'[o] = since[o]
    BY <1>0, <1>2 DEF Load, Refuse, Generate, InspectFails, NotApplied
  <2>3. Fresh(pc'[o], view'[o], since'[o], db)
    BY <2>2 DEF FreshInv, Fresh
  <2>. QED
    BY <1>1, <2>1, <2>3
<1>3. ASSUME NEW o \in Operators,
             InspectTables(o) \/ InspectColumns(o) \/ InspectKeys(o) \/ InspectIndexes(o)
      PROVE  FreshInv'
  <2>1. /\ db' = db /\ since'[o] = since[o]
        /\ \A q \in Operators \ {o} :
               pc'[q] = pc[q] /\ view'[q] = view[q] /\ since'[q] = since[q]
    BY <1>0, <1>3 DEF InspectTables, InspectColumns, InspectKeys, InspectIndexes, Inspect
  <2>2. PICK v \in View : v = view[o]
    BY <1>0
  <2>3. Fresh(pc[o], v, since[o], db)
    BY <2>2 DEF FreshInv
  <2>4. CASE InspectTables(o)
    <3>1. pc'[o] = "columns" /\ view'[o] = [v EXCEPT !.tables = db.tables]
      BY <1>0, <2>2, <2>4 DEF InspectTables, Inspect
    <3>2. view'[o].tables = db.tables
      BY <3>1 DEF View
    <3>3. Fresh(pc'[o], view'[o], since'[o], db)
      BY <3>1, <3>2 DEF Fresh
    <3>. QED
      BY <1>1, <2>1, <3>3
  <2>5. CASE InspectColumns(o)
    <3>1. /\ pc[o] = "columns" /\ pc'[o] = "keys"
          /\ view'[o] = [v EXCEPT !.cols = SeenColumns(v.tables, db)]
      BY <1>0, <2>2, <2>5 DEF InspectColumns, Inspect
    <3>2. view'[o].tables = v.tables /\ view'[o].cols = SeenColumns(v.tables, db)
      BY <3>1 DEF View
    <3>3. Fresh(pc'[o], view'[o], since'[o], db)
      BY <2>1, <2>3, <3>1, <3>2 DEF Fresh
    <3>. QED
      BY <1>1, <2>1, <3>3
  <2>6. CASE InspectKeys(o)
    <3>1. /\ pc[o] = "keys" /\ pc'[o] = "indexes"
          /\ view'[o] = [v EXCEPT !.keys = SeenKeys(v.tables, db)]
      BY <1>0, <2>2, <2>6 DEF InspectKeys, Inspect
    <3>2. /\ view'[o].tables = v.tables /\ view'[o].cols = v.cols
          /\ view'[o].keys = SeenKeys(v.tables, db)
      BY <3>1 DEF View
    <3>3. Fresh(pc'[o], view'[o], since'[o], db)
      BY <2>1, <2>3, <3>1, <3>2 DEF Fresh
    <3>. QED
      BY <1>1, <2>1, <3>3
  <2>7. CASE InspectIndexes(o)
    <3>1. /\ pc[o] = "indexes" /\ pc'[o] = "generate"
          /\ view'[o] = [v EXCEPT !.rels = SeenIndexes(v.tables, db)]
      BY <1>0, <2>2, <2>7 DEF InspectIndexes, Inspect
    <3>2. /\ view'[o].tables = v.tables /\ view'[o].cols = v.cols /\ view'[o].keys = v.keys
          /\ view'[o].rels = SeenIndexes(v.tables, db)
      BY <3>1 DEF View
    <3>3. Fresh(pc'[o], view'[o], since'[o], db)
      BY <2>1, <2>3, <3>1, <3>2 DEF Fresh
    <3>. QED
      BY <1>1, <2>1, <3>3
  <2>. QED
    BY <1>3, <2>4, <2>5, <2>6, <2>7
<1>4. ASSUME NEW o \in Operators, Apply(o) PROVE FreshInv'
  <2>1. ASSUME NEW q \in Operators PROVE Fresh(pc'[q], view'[q], since'[q], db')
    <3>1. CASE q = o
      <4>1. pc'[q] = "idle"
        BY <1>0, <1>4, <3>1 DEF Apply
      <4>. QED
        BY <4>1 DEF Fresh
    <3>2. CASE q # o
      <4>1. since'[q] # {}
        BY <1>0, <1>4, <3>2 DEF Apply
      <4>. QED
        BY <4>1 DEF Fresh
    <3>. QED
      BY <3>1, <3>2
  <2>. QED
    BY <2>1 DEF FreshInv
<1>5. CASE EditSchema \/ UNCHANGED vars
  BY <1>5 DEF EditSchema, vars, FreshInv
<1>. QED
  BY <1>2, <1>3, <1>4, <1>5 DEF Next, Run

\* Every table has the primary key that keys gives it; the name of the key is free
\* as long as there is no table.
HasKeys(keys, d) ==
    \A t \in Tables : keys[t] # None =>
        IF t \in d.tables THEN HasKey(d, t, keys[t]) ELSE d.rels[keys[t].name] = None

LEMMA HasKeysAfter ==
    ASSUME NEW keys \in [Tables -> KeyDecl \cup {None}], KeepsKey(keys),
           NEW k \in DOMAIN Revisions, NEW x \in Schema, x = Revisions[k], ~NamesClash(x),
           NEW v \in View, NEW d \in Catalogue, Guaranteed(d), HasKeys(keys, d),
           ~Fails(d, Script(x, v))
    PROVE  HasKeys(keys, Executed(d, Script(x, v)))
<1>. DEFINE s == Script(x, v)
            e == Executed(d, s)
<1>1. s \in [Tables -> Part]
  BY ScriptType
<1>2. /\ d.tables \subseteq e.tables
      /\ \A n \in Names : d.rels[n] # None => e.rels[n] = d.rels[n]
      /\ \A t \in d.tables, c \in Columns : d.cols[t][c] # None =>
            /\ e.cols[t][c] # None
            /\ e.cols[t][c].default = d.cols[t][c].default
            /\ d.cols[t][c].identity => e.cols[t][c].identity
  BY <1>1, NothingIsLost
<1>3. Guaranteed(e)
  BY <1>1, GuaranteedAfter
<1>4. ASSUME NEW t \in Tables, keys[t] # None, t \in d.tables
      PROVE  t \in e.tables /\ HasKey(e, t, keys[t])
  <2>1. HasKey(d, t, keys[t]) /\ keys[t].col \in Columns
    BY <1>4 DEF HasKeys, KeyDecl
  <2>. HIDE DEF e
  <2>2. PrimaryKeys(e, t) # {}
    BY <1>2, <2>1 DEF HasKey, PrimaryKeys
  <2>. QED
    BY <1>2, <1>4, <2>1, <2>2 DEF HasKey
<1>5. ASSUME NEW t \in Tables, keys[t] # None, t \notin d.tables, t \in e.tables
      PROVE  HasKey(e, t, keys[t])
  <2>1. s[t].create
    BY <1>5 DEF Executed
  <2>2. x[t] # None /\ s[t] = MissingTable(x[t])
    <3>1. ~NoPart.create /\ ~AlterTable(x[t], v, t).create
      BY DEF NoPart, AlterTable
    <3>2. s[t] = NoPart \/ s[t] = AlterTable(x[t], v, t) \/ (x[t] # None /\ s[t] = MissingTable(x[t]))
      BY DEF Script
    <3>. HIDE DEF s
    <3>. QED
      BY <2>1, <3>1, <3>2
  <2>3. t \in Declared(x) /\ x[t].key = keys[t]
    BY <2>2 DEF Declared, KeepsKey
  <2>4. s[t].key = keys[t]
    BY <2>2, <2>3 DEF MissingTable
  <2>5. PICK n \in Names, c \in Columns : n = keys[t].name /\ c = keys[t].col
    BY <1>5 DEF KeyDecl
  <2>6. PICK u \in Tables : Adds(d, u, s[u], n, e.rels[n])
    BY <1>5, <2>4, <2>5, RelationsAfter
  <2>7. PICK rel : rel = e.rels[n]
    OBVIOUS
  <2>8. IsWanted(x, n, rel)
    BY <2>6, <2>7, ScriptAdds
  <2>9. rel = KeyRelation(t, keys[t])
    BY <1>5, <2>3, <2>5, <2>8, WantedKey
  <2>10. rel.primary /\ rel.table = t
    BY <2>9 DEF KeyRelation
  <2>11. rel # None
    BY <1>1, <2>6, <2>7, AddedType, NoneIs
  <2>12. n \in PrimaryKeys(e, t)
    BY <2>7, <2>10, <2>11 DEF PrimaryKeys
  <2>13. keys[t].auto => e.cols[t][c] # None /\ e.cols[t][c].identity
    <3>1. ~PartFails(d, t, s[t])
      BY DEF Fails
    <3>2. keys[t].auto => WithColumns(d, t, s[t])[c] # None /\ c \in IdentityColumns(s[t])
      BY <1>5, <2>4, <2>5, <3>1, PartSucceeds DEF IdentityColumns
    <3>. HIDE DEF s
    <3>. QED
      BY <1>1, <3>2, ColumnsAfter
  <2>. QED
    BY <2>5, <2>12, <2>13 DEF HasKey
<1>6. ASSUME NEW t \in Tables, keys[t] # None, t \notin e.tables
      PROVE  e.rels[keys[t].name] = None
  <2>1. PICK n \in Names : n = keys[t].name
    BY <1>6 DEF KeyDecl
  <2>2. d.rels[n] = None
    BY <1>2, <1>6, <2>1 DEF HasKeys
  <2>3. ASSUME NEW u \in Tables, Adds(d, u, s[u], n, e.rels[n]) PROVE FALSE
    <3>1. PICK rel : rel = e.rels[n]
      OBVIOUS
    <3>2. IsWanted(x, n, rel)
      BY <2>3, <3>1, ScriptAdds
    <3>3. PICK w \in Declared(x) :
            \/ \E i \in x[w].indexes : i.name = n
            \/ x[w].key # None /\ x[w].key.name = n /\ rel = KeyRelation(w, x[w].key)
      BY <3>2 DEF IsWanted
    <3>4. w \in Tables /\ x[w].key = keys[w] /\ \A i \in x[w].indexes : i.name # n
      BY <1>6, <2>1, <3>3 DEF KeepsKey, Declared
    <3>5. w = t /\ rel = KeyRelation(t, x[w].key)
      BY <1>6, <2>1, <3>3, <3>4 DEF KeepsKey
    <3>6. rel.table = t
      BY <3>5 DEF KeyRelation
    <3>7. rel # None
      BY <1>1, <2>3, <3>1, AddedType, NoneIs
    <3>. QED
      BY <1>3, <1>6, <3>1, <3>6, <3>7 DEF Guaranteed
  <2>. QED
    BY <2>1, <2>2, <2>3, RelationsAfter
<1>. HIDE DEF e
<1>7. HasKeys(keys, e)
  BY <1>4, <1>5, <1>6 DEF HasKeys
<1>. QED
  BY <1>7 DEF e

\* PartFails, disjunct by disjunct.
LEMMA PartRuns ==
    ASSUME NEW d, NEW t, NEW p, NEW cols, cols = WithColumns(d, t, p),
           p # NoPart /\ ~p.create => t \in d.tables,
           ~p.create => \A c \in Columns : p.cols[c] # None => d.cols[t][c] = None,
           p.key # None =>
               /\ d.rels[p.key.name] = None /\ PrimaryKeys(d, t) = {}
               /\ cols[p.key.col] # None /\ (p.key.auto => CanBeIdentity(cols[p.key.col])),
           p.identity # None =>
               /\ p.key = None /\ CanBeIdentity(cols[p.identity]),
           \A i \in p.indexes : d.rels[i.name] = None =>
               \A j \in DOMAIN i.cols : cols[i.cols[j]] # None
    PROVE  ~PartFails(d, t, p)
<1>1. PartFails(d, t, p) =
        \/ p # NoPart /\ ~p.create /\ t \notin d.tables
        \/ ~p.create /\ \E c \in Columns : p.cols[c] # None /\ d.cols[t][c] # None
        \/ /\ p.key # None
           /\ \/ d.rels[p.key.name] # None
              \/ PrimaryKeys(d, t) # {}
              \/ cols[p.key.col] = None
              \/ p.key.auto /\ ~CanBeIdentity(cols[p.key.col])
        \/ /\ p.identity # None
           /\ \/ p.key # None /\ p.key.auto /\ p.key.col = p.identity
              \/ ~CanBeIdentity(cols[p.identity])
        \/ \E i \in p.indexes : /\ d.rels[i.name] = None
                                /\ \E k \in DOMAIN i.cols : cols[i.cols[k]] = None
  BY DEF PartFails
<1>. QED
  BY <1>1

\* A column that is added is there, and has a default unless it is the generated
\* key of a new table.
LEMMA AddedColumn ==
    ASSUME NEW d, NEW t, NEW p \in Part, NEW c \in Columns,
           p.cols[c] # None, ~Skipped(d, t, p)
    PROVE  /\ WithColumns(d, t, p)[c] # None
           /\ ~WithColumns(d, t, p)[c].identity
           /\ p.create /\ p.key # None /\ p.key.auto /\ p.key.col = c
                 => ~WithColumns(d, t, p)[c].default
<1>. DEFINE default == ~(p.create /\ p.key # None /\ p.key.auto /\ p.key.col = c)
<1>1. WithColumns(d, t, p)[c] =
        [type |-> p.cols[c], nullable |-> FALSE, identity |-> FALSE, default |-> default]
  BY DEF WithColumns
<1>2. p.cols[c] \in Types /\ default \in BOOLEAN
  BY DEF Part
<1>. HIDE DEF default
<1>3. PICK column : column = WithColumns(d, t, p)[c]
  OBVIOUS
<1>4. column \in Column /\ ~column.identity /\ column.default = default
  BY <1>1, <1>2, <1>3 DEF Column
<1>5. column # None
  BY <1>4, NoneIs
<1>. QED
  BY <1>3, <1>4, <1>5 DEF default

LEMMA UnchangedColumn ==
    ASSUME NEW d, NEW t, NEW p, NEW c \in Columns, p.cols[c] = None
    PROVE  WithColumns(d, t, p)[c] = d.cols[t][c]
BY DEF WithColumns

LEMMA FreshScript ==
    ASSUME NEW keys \in [Tables -> KeyDecl \cup {None}], KeepsKey(keys),
           NEW k \in DOMAIN Revisions, NEW x \in Schema, x = Revisions[k], ~NamesClash(x),
           NEW d \in Catalogue, Guaranteed(d), HasKeys(keys, d),
           NEW v \in View, v.tables = d.tables, v.cols = SeenColumns(d.tables, d),
           v.keys = SeenKeys(d.tables, d), v.rels = SeenIndexes(d.tables, d)
    PROVE  ~Fails(d, Script(x, v))
<1>. DEFINE s == Script(x, v)
<1>. SUFFICES ASSUME NEW t \in Tables PROVE ~PartFails(d, t, s[t])
  BY DEF Fails
<1>0. s[t] \in Part
  BY ScriptType
<1>1. CASE x[t] = None
  <2>1. s[t] = NoPart
    BY <1>1 DEF Script
  <2>2. /\ NoPart.key = None /\ NoPart.identity = None /\ NoPart.indexes = {}
        /\ \A c \in Columns : NoPart.cols[c] = None
    BY DEF NoPart, NoColumns
  <2>. HIDE DEF s
  <2>. QED
    BY <2>1, <2>2, PartRuns
<1>2. ASSUME x[t] # None
      PROVE  /\ t \in Declared(x) /\ x[t] \in TableDecl /\ x[t].key = keys[t]
             /\ keys[t] # None => /\ keys[t].col \in Columns /\ keys[t].name \in Names
                                 /\ x[t].cols[keys[t].col] # None
             /\ \A i \in x[t].indexes : \A j \in DOMAIN i.cols :
                   i.cols[j] \in Columns /\ x[t].cols[i.cols[j]] # None
  <2>1. t \in Declared(x) /\ x[t] \in TableDecl
    BY <1>2 DEF Declared, Schema
  <2>2. \A i \in x[t].indexes : \A j \in DOMAIN i.cols : i.cols[j] \in Columns
    BY <2>1 DEF TableDecl, IndexDecl
  <2>. QED
    BY <2>1, <2>2 DEF KeepsKey, KeyDecl
<1>3. CASE x[t] # None /\ t \in d.tables
  <2>1. PICK p \in Part : p = s[t]
    BY <1>0
  <2>2. p = AlterTable(x[t], v, t) /\ v.cols[t] = d.cols[t]
    BY <1>3, <2>1 DEF Script, SeenColumns
  <2>3. /\ ~p.create
        /\ \A c \in Columns : p.cols[c] = IF d.cols[t][c] = None THEN x[t].cols[c] ELSE None
        /\ p.key = IF v.keys[t] = None THEN keys[t] ELSE None
        /\ p.identity =
              IF /\ keys[t] # None /\ keys[t].auto
                 /\ d.cols[t][keys[t].col] # None => ~d.cols[t][keys[t].col].identity
              THEN keys[t].col ELSE None
        /\ p.indexes \subseteq x[t].indexes
    <3>1. /\ ~p.create
          /\ p.cols = [c \in Columns |-> IF v.cols[t][c] = None THEN x[t].cols[c] ELSE None]
          /\ p.key = IF v.keys[t] = None THEN x[t].key ELSE None
          /\ p.indexes \subseteq x[t].indexes
      BY <2>2 DEF AlterTable
    <3>2. p.identity =
            IF /\ x[t].key # None /\ x[t].key.auto
               /\ v.cols[t][x[t].key.col] # None => ~v.cols[t][x[t].key.col].identity
            THEN x[t].key.col ELSE None
      BY <2>2 DEF AlterTable
    <3>3. x[t].key = keys[t] /\ v.cols[t] = d.cols[t]
      BY <1>2, <1>3, <2>2
    <3>. QED
      BY <3>1, <3>2, <3>3
  <2>4. keys[t] # None => HasKey(d, t, keys[t])
    BY <1>3 DEF HasKeys
  <2>5. p.key = None
    <3>1. keys[t] # None => v.keys[t] # None
      <4>. SUFFICES ASSUME keys[t] # None PROVE v.keys[t] # None
        OBVIOUS
      <4>1. PICK n : n \in PrimaryKeys(d, t)
        BY <2>4 DEF HasKey
      <4>2. SeenKeys(d.tables, d)[t] = [name |-> n, cols |-> d.rels[n].cols]
        BY <1>3, <4>1, OnlyKey DEF PrimaryKeys
      <4>3. d.rels[n] \in Relation /\ n \in Names
        BY <4>1 DEF PrimaryKeys, Catalogue
      <4>4. [name |-> n, cols |-> d.rels[n].cols] \in KeyView
        BY <4>3 DEF Relation, KeyView
      <4>. QED
        BY <4>2, <4>4, NoneIs
    <3>. QED
      BY <2>3, <3>1
  <2>6. \A c \in Columns : x[t].cols[c] # None => WithColumns(d, t, p)[c] # None
    <3>. SUFFICES ASSUME NEW c \in Columns, x[t].cols[c] # None
                  PROVE  WithColumns(d, t, p)[c] # None
      OBVIOUS
    <3>1. CASE d.cols[t][c] = None
      <4>1. p.cols[c] # None /\ ~Skipped(d, t, p)
        BY <2>3, <3>1 DEF Skipped
      <4>. QED
        BY <4>1, AddedColumn
    <3>2. CASE d.cols[t][c] # None
      BY <2>3, <3>2, UnchangedColumn
    <3>. QED
      BY <3>1, <3>2
  <2>7. p.identity # None => CanBeIdentity(WithColumns(d, t, p)[p.identity])
    <3>. SUFFICES ASSUME p.identity # None
                  PROVE  CanBeIdentity(WithColumns(d, t, p)[p.identity])
      OBVIOUS
    <3>1. PICK c \in Columns : c = p.identity
      BY DEF Part
    <3>2. /\ keys[t] # None /\ c = keys[t].col
          /\ d.cols[t][c] # None => ~d.cols[t][c].identity
          /\ keys[t].auto
      BY <2>3, <3>1
    <3>3. d.cols[t][c] # None /\ ~d.cols[t][c].identity /\ ~d.cols[t][c].default
      BY <2>4, <3>2 DEF HasKey
    <3>4. WithColumns(d, t, p)[c] = d.cols[t][c]
      BY <2>3, <3>3, UnchangedColumn
    <3>. QED
      BY <3>1, <3>3, <3>4 DEF CanBeIdentity
  <2>8. ~PartFails(d, t, p)
    <3>1. \A i \in p.indexes : \A j \in DOMAIN i.cols : WithColumns(d, t, p)[i.cols[j]] # None
      BY <1>2, <1>3, <2>3, <2>6
    <3>2. \A c \in Columns : p.cols[c] # None => d.cols[t][c] = None
      BY <2>3
    <3>. QED
      BY <1>3, <2>5, <2>7, <3>1, <3>2, PartRuns
  <2>. QED
    BY <2>1, <2>8
<1>4. CASE x[t] # None /\ t \notin d.tables
  <2>1. PICK p \in Part : p = s[t]
    BY <1>0
  <2>2. p = MissingTable(x[t])
    BY <1>4, <2>1 DEF Script
  <2>3. /\ p.create /\ p.cols = x[t].cols /\ p.key = keys[t] /\ p.identity = None
        /\ p.indexes = x[t].indexes
    BY <1>2, <1>4, <2>2 DEF MissingTable
  <2>4. ~Skipped(d, t, p)
    BY <1>4 DEF Skipped
  <2>5. \A c \in Columns : x[t].cols[c] # None => WithColumns(d, t, p)[c] # None
    BY <2>3, <2>4, AddedColumn
  <2>6. p.key # None =>
          /\ d.rels[p.key.name] = None /\ PrimaryKeys(d, t) = {}
          /\ WithColumns(d, t, p)[p.key.col] # None
          /\ p.key.auto => CanBeIdentity(WithColumns(d, t, p)[p.key.col])
    <3>. SUFFICES ASSUME p.key # None
                  PROVE  /\ d.rels[p.key.name] = None /\ PrimaryKeys(d, t) = {}
                         /\ WithColumns(d, t, p)[p.key.col] # None
                         /\ p.key.auto => CanBeIdentity(WithColumns(d, t, p)[p.key.col])
      OBVIOUS
    <3>1. PICK c \in Columns : c = p.key.col
      BY <1>2, <1>4, <2>3
    <3>2. p.cols[c] # None
      BY <1>2, <1>4, <2>3, <3>1
    <3>3. d.rels[p.key.name] = None
      BY <1>4, <2>3 DEF HasKeys
    <3>4. PrimaryKeys(d, t) = {}
      BY <1>4 DEF PrimaryKeys, Guaranteed
    <3>5. /\ WithColumns(d, t, p)[c] # None /\ ~WithColumns(d, t, p)[c].identity
          /\ p.key.auto => ~WithColumns(d, t, p)[c].default
      BY <2>3, <2>4, <3>1, <3>2, AddedColumn
    <3>. QED
      BY <3>1, <3>3, <3>4, <3>5 DEF CanBeIdentity
  <2>7. ~PartFails(d, t, p)
    <3>1. \A i \in p.indexes : \A j \in DOMAIN i.cols : WithColumns(d, t, p)[i.cols[j]] # None
      BY <1>2, <1>4, <2>3, <2>5
    <3>. QED
      BY <2>3, <2>6, <3>1, PartRuns
  <2>. QED
    BY <2>1, <2>7
<1>. QED
  BY <1>1, <1>3, <1>4

\* If every table has its primary key from the beginning and keeps it, and indexes
\* have names of their own, what genddl prints runs on a database that has not
\* changed since (gen/ddl/main.go:6).  A table without its key is what
\* MCGenDdl_nokey.cfg shows.
THEOREM FreshScripts == ASSUME TablesKeepTheirKey PROVE Spec => []FreshScriptsRun
<1>1. PICK keys \in [Tables -> KeyDecl \cup {None}] : KeepsKey(keys)
  BY DEF TablesKeepTheirKey
<1>. DEFINE Keys == HasKeys(keys, db)
<1>2. Init => Keys /\ FreshInv
  BY <1>1 DEF Init, KeepsKey, HasKeys, FreshInv, Fresh
<1>3. Inv /\ Keys /\ [Next]_vars => Keys'
  <2>. SUFFICES ASSUME Inv, Keys, [Next]_vars PROVE Keys'
    OBVIOUS
  <2>1. CASE db' = db
    BY <2>1
  <2>2. ASSUME NEW o \in Operators, Apply(o) PROVE Keys'
    <3>1. PICK k \in DOMAIN Revisions, v \in View : k = want[o] /\ v = view[o]
      BY RevisionsAssumption DEF Inv, TypeOK
    <3>2. PICK x \in Schema, d \in Catalogue : x = Revisions[k] /\ d = db
      BY <3>1, RevisionsAssumption DEF Inv, TypeOK
    <3>3. /\ script[o] = Script(x, v) /\ ~NamesClash(x) /\ ~Fails(d, Script(x, v))
          /\ db' = Executed(d, Script(x, v)) /\ Guaranteed(d)
      BY <2>2, <3>1, <3>2 DEF Apply, Inv, Good, Refused
    <3>4. HasKeys(keys, Executed(d, Script(x, v)))
      BY <1>1, <3>2, <3>3, HasKeysAfter
    <3>. QED
      BY <3>3, <3>4
  <2>. QED
    BY <2>1, <2>2
       DEF Next, Run, vars, EditSchema, Load, InspectTables, InspectColumns, InspectKeys,
           InspectIndexes, Inspect, Refuse, Generate, InspectFails, NotApplied
<1>4. Inv /\ FreshInv /\ [Next]_vars => FreshInv'
  BY FreshStep DEF Inv
<1>5. Inv /\ FreshInv /\ Keys => FreshScriptsRun
  <2>. SUFFICES ASSUME Inv, FreshInv, Keys, NEW o \in Operators, pc[o] = "ready", since[o] = {}
                PROVE  ~Fails(db, script[o])
    BY DEF FreshScriptsRun
  <2>1. PICK k \in DOMAIN Revisions, v \in View : k = want[o] /\ v = view[o]
    BY RevisionsAssumption DEF Inv, TypeOK
  <2>2. PICK x \in Schema, d \in Catalogue : x = Revisions[k] /\ d = db
    BY <2>1, RevisionsAssumption DEF Inv, TypeOK
  <2>3. script[o] = Script(x, v) /\ ~NamesClash(x) /\ Guaranteed(d)
    BY <2>1, <2>2 DEF Inv, Good, Refused
  <2>4. /\ v.tables = d.tables /\ v.cols = SeenColumns(d.tables, d)
        /\ v.keys = SeenKeys(d.tables, d) /\ v.rels = SeenIndexes(d.tables, d)
    BY <2>1, <2>2 DEF FreshInv, Fresh
  <2>5. ~Fails(d, Script(x, v))
    BY <1>1, <2>2, <2>3, <2>4, FreshScript
  <2>. QED
    BY <2>2, <2>3, <2>5
<1>. QED
  BY <1>2, <1>3, <1>4, <1>5, Invariance, PTL DEF Spec

=============================================================================
