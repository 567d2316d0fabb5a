------------------------------ MODULE GenBeans ------------------------------
(***************************************************************************)
(* A run of genbeans up to its output: it reads pdb.xml, checks the tables *)
(* together, generates one after the other, checks the declarations of the *)
(* package, and hands over a file for each table or all the errors.  The   *)
(* generated code is what its names and its queries are.                   *)
(***************************************************************************)
EXTENDS ReadXml

CONSTANTS
    Documents,   \* the documents the program may be run on
    DirtyBits,   \* columns a dirty mask has room for: 64 in the code
    Platforms,   \* words that end the names of files of some platforms only
    Keywords     \* words that Go keeps for itself

ASSUME DirtyBitsAssumption == DirtyBits \in Nat \ {0}

IsList(l) == Len(l) \in Nat /\ DOMAIN l = 1 .. Len(l)

\* Documents are finite, and names what they are in Names.
ASSUME DocumentsAssumption ==
    \A d \in Documents :
        /\ IsList(Schema(d).beans) /\ IsList(Schema(d).tables)
        /\ \A b \in Range(Schema(d).beans) :
              IsList(b.variables) /\ \A v \in Range(b.variables) : IsName(v.name)
        /\ \A t \in Range(Schema(d).tables) : IsList(t.indexes)
        /\ \A n \in Nodes(d) : IsList(n.attrs)

VARIABLES
    root,      \* the document
    pc,        \* parse, tables, generate, declarations, write; done, failed
    schema,    \* what was read
    errs,      \* the errors so far
    files,     \* generated so far: a table and what was generated for it
    next,      \* the next table to generate
    written    \* what is handed over

vars == <<root, pc, schema, errs, files, next, written>>

\* The error, if there is reason for it.
When(reason, line, what) == IF reason THEN {Error(line, what)} ELSE {}

NoSchema == [beans |-> <<>>, tables |-> <<>>]

-----------------------------------------------------------------------------
(* checkTables *)

ValidTableName(n) == StartsSmall(n) /\ \A i \in DOMAIN n : ~n[i].cap

BuildsEverywhere(n) == ~(Len(n) > 1 /\ n[Len(n) - 1] = Underscore /\ n[Len(n)].word \in Platforms)

IsDBNameFile(n) == n = <<Small("pdb")>>

RepeatsName(ts, i) == \E j \in 1 .. i - 1 : ts[j].name = ts[i].name

Passes(ts, i) == ValidTableName(ts[i].name) /\ ~IsDBNameFile(ts[i].name) /\ ~RepeatsName(ts, i)

RepeatsType(ts, i) ==
    \E j \in 1 .. i - 1 : Passes(ts, j) /\ PascalCase(ts[j].bean) = PascalCase(ts[i].bean)

TableErrors(ts) ==
    {Error(ts[i].line, "table") : i \in {j \in DOMAIN ts : ~Passes(ts, j)}}
    \cup {Error(ts[i].line, "platform") : i \in
             {j \in DOMAIN ts : Passes(ts, j) /\ ~BuildsEverywhere(ts[j].name)}}
    \cup {Error(ts[i].line, "type") : i \in
             {j \in DOMAIN ts : Passes(ts, j) /\ RepeatsType(ts, j)}}

-----------------------------------------------------------------------------
(* buildTableGen: the columns *)

IsKeyword(n) == n \in {<<Small(w)>> : w \in Keywords}

SupportedTypes == {"int64", "int32", "int16", "int8", "string", "bool", "float32", "float64"}

ReservedNames == {<<Small(w)>> : w \in {"loaded", "deleted", "detached", "foreign", "dirty",
                                       "t", "o", "q", "ctx", "query"}}

EntityMethods ==
    {<<Capital(w)>> : w \in {"Identity", "Delete", "Detach"}}
    \cup {<<Capital(m[1]), Capital(m[2])>> : m \in
             {<<"table", "name">>, <<"is", "deleted">>, <<"dirty", "columns">>,
              <<"flush", "stmt">>, <<"flush", "done">>, <<"snapshot", "state">>,
              <<"restore", "state">>, <<"lock", "key">>, <<"mark", "foreign">>}}

\* checkVariable
BadVariable(v) ==
    \/ IsKeyword(v.name)
    \/ ~StartsSmall(v.name)
    \/ v.name \in ReservedNames \/ PascalCase(v.name) \in EntityMethods
    \/ v.type \notin SupportedTypes

RepeatsVariable(vs, i) == \E j \in 1 .. i - 1 : vs[j].name = vs[i].name

\* The fields: a variable's first definition counts.
FieldsOf(vs) == {vs[i] : i \in {j \in DOMAIN vs : ~RepeatsVariable(vs, j)}}

Named(fields, name) == {f \in fields : f.name = name}

UpdateFields(fields, key) == {f \in fields : f.name # key}

VariableErrors(vs) ==
    {Error(v.line, "variable") : v \in {w \in Range(vs) : BadVariable(w)}}
    \cup {Error(vs[i].line, "column twice") : i \in {j \in DOMAIN vs : RepeatsVariable(vs, j)}}

ColumnErrors(t, bean, fields) ==
    LET key == t.primaryKey.variable
        bigint(name) == \E f \in Named(fields, name) : f.type = "int64"
    IN  When(~bigint(key) \/ ~t.primaryKey.autoIncrement, t.primaryKey.line, "key")
        \cup When(Cardinality(UpdateFields(fields, key)) \notin 1 .. DirtyBits, bean.line, "columns")
        \cup When(t.lock # <<>> /\ ~bigint(t.lock), t.line, "lock")

-----------------------------------------------------------------------------
(* buildTableGen: the queries *)

Dirty(type, name) == <<Small("dirty")>> \o type \o PascalCase(name)

\* Mutant of GuardedColumns: only the parameters are guarded.
GuardedParameters(key, vars_, conds) == Range(vars_) \ {key}

\* Columns whose dirty bits CheckPredicate looks at.
GuardedColumns(key, vars_, conds) ==
    (Range(vars_) \ {key}) \cup {c.variable : c \in Range(conds)}

NewQuery(t, type, vars_, conds, unique, method) ==
    LET suffix == FlattenSeq([i \in DOMAIN vars_ |-> PascalCase(vars_[i])])
    IN  [suffix |-> IF conds # <<>> THEN method ELSE <<Capital("by")>> \o suffix,
         func |-> IF conds # <<>> THEN <<Small("query"), Capital("where")>> \o method
                  ELSE <<Small("query")>> \o suffix,
         parameters |-> vars_, conditions |-> conds, list |-> ~unique,
         guards |-> {Dirty(type, v) : v \in GuardedColumns(t.primaryKey.variable, vars_, conds)}]

\* A rule that an index breaks by itself: where and method go together, a
\* partial index without a variable is not unique, others have a variable.
BadIndex(t, bean, ix) ==
    LET columns == SplitTrimSpace(ix.variable)
    IN  IF ix.where # <<>>
        THEN \/ WhereFails(bean, t.primaryKey.variable, ix.where)
             \/ ~IsExported(ix.method)
             \/ columns = <<>> /\ ix.unique
        ELSE ix.method # <<>> \/ columns = <<>>

\* Only a partial index has conditions.
Conditions(ix) == IF ix.where = <<>> THEN <<>> ELSE ParseWhere(ix.where)

\* What two indexes may not have in common.  The types of a constant are not
\* part of it.
Key(columns, conds) ==
    [columns |-> columns,
     conditions |-> [i \in DOMAIN conds |-> <<SnakeCase(conds[i].variable), conds[i].value>>]]

\* Mutant of TakesName: only the names of the functions are compared.
TakesFunc(q, queries) == \E p \in queries : p.func = q.func

TakesName(q, queries) ==
    \E p \in queries : p.suffix = q.suffix \/ p.func = q.func

\* The next index, after the keys and the queries of those before it.
AddIndex(t, bean, fields, type, acc, ix) ==
    LET columns == SplitTrimSpace(ix.variable)
        conds == Conditions(ix)
        k == Key(columns, conds)
        q == NewQuery(t, type, columns, conds, ix.unique, ix.method)
        refused == [acc EXCEPT !.errs = @ \cup {Error(ix.line, "index")}]
        seen == [refused EXCEPT !.keys = @ \cup {k}]
    IN  IF BadIndex(t, bean, ix) \/ k \in acc.keys THEN refused
        ELSE IF \/ \E c \in Range(columns) : Named(fields, c) = {}
                \/ ~IsInjective(columns)
                \/ TakesName(q, acc.queries)
        THEN seen
        ELSE [seen EXCEPT !.errs = acc.errs, !.queries = @ \cup {q}]

Queries(t, bean, fields, type) ==
    LET key == t.primaryKey.variable
        byKey == NewQuery(t, type, <<key>>, <<>>, TRUE, <<>>)
        after[i \in 0 .. Len(t.indexes)] ==
            IF i = 0 THEN [errs |-> {}, keys |-> {Key(<<key>>, <<>>)}, queries |-> {byKey}]
            ELSE AddIndex(t, bean, fields, type, after[i - 1], t.indexes[i])
    IN  after[Len(t.indexes)]

\* What generateTable returns: errors, or a file.
Generated(errors, t, type, fields, queries) ==
    [errs |-> errors,
     file |-> [table |-> t.name, line |-> t.line, type |-> type, key |-> t.primaryKey.variable,
               fields |-> fields, queries |-> queries]]

\* The columns and queries of a table whose bean and key are there; when all
\* is well, gofmt still refuses a type that is a keyword with a small letter.
GenerateColumns(t, bean) ==
    LET type == PascalCase(bean.name)
        fields == FieldsOf(bean.variables)
        q == Queries(t, bean, fields, type)
        bad == VariableErrors(bean.variables)
        errors == bad \cup ColumnErrors(t, bean, fields) \cup q.errs
    IN  IF Named(fields, t.primaryKey.variable) = {}
        THEN Generated(bad \cup {Error(t.primaryKey.line, "key")}, t, type, fields, {})
        ELSE Generated(errors \cup When(errors = {} /\ IsKeyword(LowerCamelCase(bean.name)),
                                       t.line, "gofmt"),
                       t, type, fields, q.queries)

\* generateTable: each of the first errors hides all others.
GenerateTable(s, t) ==
    LET fatal == IF ~HasBean(s, t.bean) THEN Error(t.line, "bean")
                 ELSE IF t.primaryKey = NoKey THEN Error(t.line, "no key")
                 ELSE Error(FindBean(s, t.bean).line, "type name")
    IN  IF ~HasBean(s, t.bean) \/ t.primaryKey = NoKey \/ ~IsIdentifier(PascalCase(t.bean))
        THEN Generated({fatal}, t, <<>>, {}, {})
        ELSE GenerateColumns(t, FindBean(s, t.bean))

-----------------------------------------------------------------------------
(* The generated names *)

ColumnNames(f) == {c.name : c \in UpdateFields(f.fields, f.key)}

\* The package-level declarations of a table's file: most of them once, the
\* bits once for each column.
Declarations(f) ==
    LET single == [table |-> PascalCase(f.table) \o <<Capital("table")>>,
                   receiver |-> LowerCamelCase(f.type), type |-> f.type,
                   update |-> <<Small("update"), Capital("columns")>> \o f.type,
                   select |-> <<Small("select"), Capital("columns")>> \o f.type,
                   all |-> <<Small("select"), Capital("all")>> \o f.type,
                   new |-> <<Capital("new")>> \o f.type, scan |-> <<Small("scan")>> \o f.type]
    IN  [p \in ((DOMAIN single) \X {<<>>}) \cup ({"dirty"} \X ColumnNames(f)) |->
            IF p[1] = "dirty" THEN Dirty(f.type, p[2]) ELSE single[p[1]]]

\* The methods of the entity besides EntityMethods: getters and setters.
Methods(f) ==
    {PascalCase(v.name) : v \in f.fields}
    \cup {<<Capital("set")>> \o PascalCase(c) : c \in ColumnNames(f)}

QueryName(q) == (IF q.list THEN <<Capital("list")>> ELSE <<Capital("get")>>) \o q.suffix

\* The methods of the table.
TableMethods(f) ==
    {<<Capital("get"), Capital("all")>>, <<Capital("insert")>>,
     <<Capital("delete"), Capital("by")>> \o PascalCase(f.key)}
    \cup {QueryName(q) : q \in f.queries} \cup {q.func : q \in f.queries}

DBName == <<Capital("dBName")>>

\* The declarations of the package's table files, by file and position.
AllDeclarations(fs) ==
    [p \in UNION {{f} \X (DOMAIN Declarations(f)) : f \in fs} |-> Declarations(p[1])[p[2]]]

\* Mutant of Collides: a file's own declarations are not compared.
CollidesWithOthers(fs, f) ==
    \E g \in fs \ {f} : Range(Declarations(f)) \cap Range(Declarations(g)) # {}

\* checkDeclarations: a file declares a name that it, another file or
\* pdb.pdb.go declares as well.
Collides(fs, f) ==
    \/ ~IsInjective(Declarations(f))
    \/ DBName \in Range(Declarations(f))
    \/ \E g \in fs \ {f} : Range(Declarations(f)) \cap Range(Declarations(g)) # {}

\* The message names both tables.
DeclarationErrors(fs) == {Error(f.line, "declared") : f \in {g \in fs : Collides(fs, g)}}

-----------------------------------------------------------------------------
(* run *)

Init ==
    /\ root \in Documents /\ pc = "parse"
    /\ schema = NoSchema /\ errs = {} /\ files = {} /\ next = 1 /\ written = {}

\* LoadSchema
LoadSchema ==
    /\ pc = "parse"
    /\ errs' = ParseErrors(root)
    /\ IF errs' = {} THEN pc' = "tables" /\ schema' = Schema(root)
                     ELSE pc' = "failed" /\ UNCHANGED schema
    /\ UNCHANGED <<root, files, next, written>>

CheckTables ==
    /\ pc = "tables"
    /\ errs' = TableErrors(schema.tables)
    /\ pc' = "generate"
    /\ UNCHANGED <<root, schema, files, next, written>>

\* The next table of generateAll: its errors are added to the others, and a
\* file of the same name is replaced.
GenerateNext ==
    /\ pc = "generate" /\ next <= Len(schema.tables)
    /\ LET t == schema.tables[next]
           g == GenerateTable(schema, t)
       IN  /\ errs' = errs \cup g.errs
           /\ files' = IF g.errs # {} THEN files
                       ELSE {f \in files : f.table # t.name} \cup {g.file}
    /\ next' = next + 1
    /\ UNCHANGED <<root, pc, schema, written>>

\* Declarations are compared when there is no error yet.
CheckDeclarations ==
    /\ pc = "generate" /\ next > Len(schema.tables)
    /\ errs' = IF errs = {} THEN DeclarationErrors(files) ELSE errs
    /\ pc' = IF errs' = {} THEN "write" ELSE "failed"
    /\ UNCHANGED <<root, schema, files, next, written>>

\* writeFiles, see OutputDir.
Write ==
    /\ pc = "write"
    /\ written' = files /\ pc' = "done"
    /\ UNCHANGED <<root, schema, errs, files, next>>

Next == LoadSchema \/ CheckTables \/ GenerateNext \/ CheckDeclarations \/ Write

Spec == Init /\ [][Next]_vars

-----------------------------------------------------------------------------
(* Properties *)

\* No name is declared twice in the package.
DeclaredOnce(fs) ==
    IsInjective(AllDeclarations(fs)) /\ DBName \notin Range(AllDeclarations(fs))

TypeOK ==
    /\ pc \in {"parse", "tables", "generate", "write", "done", "failed"}
    /\ next \in 1 .. Len(schema.tables) + 1
    /\ \A f \in files : \E i \in DOMAIN schema.tables :
          f.table = schema.tables[i].name /\ f.line = schema.tables[i].line
    /\ written \subseteq files
    /\ pc = "failed" => errs # {}
    /\ pc \in {"write", "done"} => errs = {}

\* The rules of docs/design.md 274-284, one by one.  A column must not meet the
\* fields of the entity, the names inside of the query functions, or the
\* entity's own methods (template.go:32-38, 165-187).
EntityFields == {<<Small(w)>> : w \in {"loaded", "deleted", "detached", "foreign", "dirty"}}
QueryNames == {<<Small(w)>> : w \in {"t", "o", "q", "ctx", "query"}}

SupportedColumn(v) ==
    /\ StartsSmall(v.name) /\ ~IsKeyword(v.name)
    /\ v.name \notin EntityFields \cup QueryNames /\ PascalCase(v.name) \notin EntityMethods
    /\ v.type \in SupportedTypes

IsBigint(vs, name) == \E i \in DOMAIN vs : vs[i].name = name /\ vs[i].type = "int64"

SupportedColumns(t, vs) ==
    /\ \A i \in DOMAIN vs : SupportedColumn(vs[i])
    /\ \A i, j \in DOMAIN vs : i # j => vs[i].name # vs[j].name
    /\ IsBigint(vs, t.primaryKey.variable) /\ t.primaryKey.autoIncrement
    /\ Cardinality({v \in Range(vs) : v.name # t.primaryKey.variable}) \in 1 .. DirtyBits
    /\ t.lock = <<>> \/ IsBigint(vs, t.lock)

\* A condition is on a column that can have the constant and is not the key.
SupportedCondition(t, vs, c) ==
    /\ \E i \in DOMAIN vs : vs[i].name = c.variable /\ vs[i].type \in c.types
    /\ c.variable # t.primaryKey.variable

SupportedIndex(t, vs, ix) ==
    LET columns == SplitTrimSpace(ix.variable)
        conds == ParseWhere(ix.where)
        plain == ix.where = <<>> /\ ix.method = <<>> /\ columns # <<>>
        partial ==
            /\ ix.where # <<>> /\ IsExported(ix.method) /\ (ix.unique => columns # <<>>)
            /\ conds # <<>> /\ \A i \in DOMAIN conds : SupportedCondition(t, vs, conds[i])
            /\ \A i \in DOMAIN conds : \A j \in 1 .. i - 1 : conds[i].variable # conds[j].variable
    IN  /\ plain \/ partial
        /\ IsInjective(columns) /\ \A c \in Range(columns) : \E i \in DOMAIN vs : vs[i].name = c

\* The query of the key, and those of the indexes.
QueryAt(t, type, i) ==
    IF i = 0 THEN NewQuery(t, type, <<t.primaryKey.variable>>, <<>>, TRUE, <<>>)
    ELSE LET ix == t.indexes[i]
         IN  NewQuery(t, type, SplitTrimSpace(ix.variable), Conditions(ix), ix.unique, ix.method)

\* Two queries differ in what comes after Get or List, in the name of the
\* function, and in columns and conditions, in the order in which they are written.
Differ(p, q) ==
    /\ p.suffix # q.suffix /\ p.func # q.func
    /\ Key(p.parameters, p.conditions) # Key(q.parameters, q.conditions)

SupportedTable(s, t) ==
    /\ StartsSmall(t.name) /\ t.name # <<Small("pdb")>> /\ \A i \in DOMAIN t.name : ~t.name[i].cap
    /\ BuildsEverywhere(t.name)
    /\ HasBean(s, t.bean)
    /\ LET bean == FindBean(s, t.bean)
            type == PascalCase(bean.name)
            n == Len(t.indexes)
        IN  /\ type # <<>> /\ ~IsKeyword(LowerCamelCase(bean.name))
            /\ SupportedColumns(t, bean.variables)
            /\ \A i \in 1 .. n : SupportedIndex(t, bean.variables, t.indexes[i])
            /\ \A i, j \in 0 .. n : i # j => Differ(QueryAt(t, type, i), QueryAt(t, type, j))

KeepsTheRules(s) ==
    /\ \A t \in Range(s.tables) : SupportedTable(s, t)
    /\ \A i, j \in DOMAIN s.tables : i # j =>
          /\ s.tables[i].name # s.tables[j].name
          /\ PascalCase(s.tables[i].bean) # PascalCase(s.tables[j].bean)
    /\ DeclaredOnce({GenerateTable(s, t).file : t \in Range(s.tables)})

\* A document that was read is refused if and only if it breaks one of the rules
\* above, whatever else is in it: every rule is asked of every table, index and
\* pair of them, and nothing is refused without a rule (docs/design.md 274-284).
\* The rules go short of that text in one point: that all methods of a type
\* differ is in none of them, and is not so (MethodsAreDistinct).
RulesDecide ==
    pc \in {"done", "failed"} /\ schema # NoSchema => (pc = "done" <=> KeepsTheRules(schema))

\* Every query looks at the unwritten changes of all columns that its WHERE
\* reads, and at no others: each such column has a dirty bit of its own, and
\* only the primary key, which never changes, has none (main.go:440-441).
GuardsCoverPredicates ==
    \A f \in written : \A q \in f.queries :
        LET bits(name) == {Dirty(f.type, v.name) : v \in
                              {w \in f.fields : SnakeCase(w.name) = SnakeCase(name)}}
            read == Range(q.parameters) \cup {c.variable : c \in Range(q.conditions)}
        IN  /\ q.guards = UNION {bits(name) : name \in read \ {f.key}}
            /\ Cardinality(q.guards) = Cardinality(read \ {f.key})

\* Nothing that the author wrote into an accepted pdb.xml is passed over: each
\* attribute is one that genbeans knows and has the value that it takes
\* (parse.go:15-16).
AttributesAreHeeded ==
    written # {} =>
        \A n \in Nodes(root) : \A i \in DOMAIN n.attrs :
            /\ n.attrs[i].name \in DOMAIN Fields(n.tag)
            /\ Value(n, n.attrs[i].name) = n.attrs[i].value

\* A table's errors are reported whatever is wrong with the tables before it
\* (main.go:76).
ErrorsAreReportedTogether ==
    pc = "failed" /\ schema # NoSchema =>
        \A i \in DOMAIN schema.tables : GenerateTable(schema, schema.tables[i]).errs \subseteq errs

\* The output is whole or there is none: one file for each table, every file
\* from its own table and bean, and no name declared twice in the package.
OutputIsWhole ==
    written # {} =>
        /\ Cardinality(written) = Len(schema.tables)
        /\ Cardinality({f.type : f \in written}) = Len(schema.tables)
        /\ DeclaredOnce(written)

\* What the generators' test promises (main_test.go:97): whatever does not
\* compile is refused.  No type has two methods of one name.
MethodsAreDistinct ==
    \A f \in written :
        /\ Methods(f) \cap EntityMethods = {}
        /\ Cardinality(Methods(f)) = Cardinality(f.fields) + Cardinality(ColumnNames(f))
        /\ Cardinality(TableMethods(f)) = 3 + 2 * Cardinality(f.queries)
=============================================================================
