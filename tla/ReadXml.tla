------------------------------- MODULE ReadXml -------------------------------
(***************************************************************************)
(* readxml: from the elements of pdb.xml to a Schema, or to all errors at  *)
(* once.  An element is a record of its tag, the line it is on, its        *)
(* attributes as written, in order, and its children.  The value of an     *)
(* attribute has the kind it is written in: "text", "bool", "int", or      *)
(* "empty"; bad text is "text" where something else is expected.           *)
(***************************************************************************)
EXTENDS Names, Integers, FiniteSets

NoValue == [kind |-> "empty"]
NoKey == [line |-> 0, variable |-> <<>>, autoIncrement |-> FALSE]

Error(line, what) == [line |-> line, what |-> what]

\* The attributes of each element, with the kind of their values.
Texts(S) == [a \in S |-> "text"]
Fields(tag) ==
    CASE tag = "pdb" ->
            [a \in {"url", "name", "genOutput", "schema", "package", "appName"} |-> "text"]
            @@ [a \in {"showSQL"} |-> "bool"]
            @@ [a \in {"poolMaxConns", "poolMinConns", "poolMaxConnLifetime",
                       "poolMaxConnIdleTime", "poolHealthCheckPeriod",
                       "statementTimeoutMs", "idleInTransactionSessionTimeoutMs",
                       "lockTimeoutMs", "transactionTimeoutMs",
                       "serverTransactionTimeoutMs", "commitTimeoutMs"} |-> "int"]
      [] tag = "bean" -> Texts({"name"})
      [] tag = "variable" -> Texts({"name", "type"})
      [] tag = "table" -> Texts({"name", "bean", "lock"})
      [] tag = "primaryKey" ->
            Texts({"variable", "name"}) @@ [a \in {"autoIncrement"} |-> "bool"]
            @@ [a \in {"start", "step"} |-> "int"]
      [] tag = "index" ->
            Texts({"variable", "where", "method", "name"}) @@ [a \in {"unique"} |-> "bool"]

Required(tag) ==
    CASE tag = "bean" -> {"name"}
      [] tag = "variable" -> {"name", "type"}
      [] tag = "table" -> {"name", "bean"}
      [] tag = "primaryKey" -> {"variable"}
      [] OTHER -> {}

Children(tag) ==
    CASE tag = "pdb" -> {"bean", "table"}
      [] tag = "bean" -> {"variable"}
      [] tag = "table" -> {"primaryKey", "index"}
      [] OTHER -> {}

\* The elements that may have attributes: deeper ones do not belong there.
Nodes(root) ==
    {root} \cup Range(root.children) \cup UNION {Range(c.children) : c \in Range(root.children)}

-----------------------------------------------------------------------------
(* attrs *)

\* Positions of the attributes that count: known, and written before any
\* other of that name.
Heeded(n) == {i \in DOMAIN n.attrs :
                 /\ n.attrs[i].name \in DOMAIN Fields(n.tag)
                 /\ \A j \in 1 .. i - 1 : n.attrs[j].name # n.attrs[i].name}

Value(n, a) == IF \E i \in Heeded(n) : n.attrs[i].name = a
               THEN n.attrs[CHOOSE i \in Heeded(n) : n.attrs[i].name = a].value
               ELSE NoValue

Get(n, a, zero) == IF Value(n, a).kind = "empty" THEN zero ELSE Value(n, a).v

Parses(value, kind) == kind = "text" \/ value.kind \in {kind, "empty"}

\* Mutant of AttrErrors: as encoding/xml, it passes over what it does not know.
AttrErrorsOfKnown(n) ==
    {Error(n.line, "value") : i \in {j \in Heeded(n) :
         ~Parses(n.attrs[j].value, Fields(n.tag)[n.attrs[j].name])}}
    \cup {Error(n.line, "missing") : a \in {r \in Required(n.tag) :
         Value(n, r).kind = "empty"}}

\* Unknown and repeated attributes, values that do not parse, and required
\* attributes that are missing or empty.
AttrErrors(n) ==
    {Error(n.line, IF n.attrs[i].name \in DOMAIN Fields(n.tag) THEN "twice" ELSE "unknown") :
         i \in DOMAIN n.attrs \ Heeded(n)}
    \cup {Error(n.line, "value") : i \in {j \in Heeded(n) :
         ~Parses(n.attrs[j].value, Fields(n.tag)[n.attrs[j].name])}}
    \cup {Error(n.line, "missing") : a \in {r \in Required(n.tag) :
         Value(n, r).kind = "empty"}}

-----------------------------------------------------------------------------
(* The elements *)

Tagged(n, tag) == SelectSeq(n.children, LAMBDA c : c.tag = tag)

\* Children that do not belong there; below such a child nothing is looked at.
StrayErrors(n) ==
    {Error(c.line, "element") : c \in {d \in Range(n.children) : d.tag \notin Children(n.tag)}}

\* Every primary key but the first.
KeyErrors(n) ==
    {Error(Tagged(n, "primaryKey")[i].line, "keys") : i \in 2 .. Len(Tagged(n, "primaryKey"))}

LeafErrors(n) == AttrErrors(n) \cup StrayErrors(n)

\* The errors of a bean or a table.
ElementErrors(n) ==
    LeafErrors(n)
    \cup UNION {LeafErrors(c) : c \in {d \in Range(n.children) : d.tag \in Children(n.tag)}}
    \cup KeyErrors(n)

ParseErrors(root) ==
    IF root.tag # "pdb" THEN {Error(root.line, "root")}
    ELSE LeafErrors(root)
         \cup UNION {ElementErrors(c) : c \in {d \in Range(root.children) : d.tag \in Children("pdb")}}

Variable(n) == [name |-> Get(n, "name", <<>>), type |-> Get(n, "type", <<>>), line |-> n.line]
Bean(n) == [name |-> Get(n, "name", <<>>), line |-> n.line,
            variables |-> [i \in DOMAIN Tagged(n, "variable") |-> Variable(Tagged(n, "variable")[i])]]
PrimaryKey(n) == [variable |-> Get(n, "variable", <<>>), line |-> n.line,
                  autoIncrement |-> Get(n, "autoIncrement", FALSE)]
Index(n) == [variable |-> Get(n, "variable", <<>>), unique |-> Get(n, "unique", FALSE),
             where |-> Get(n, "where", <<>>), method |-> Get(n, "method", <<>>), line |-> n.line]
Table(n) ==
    LET keys == Tagged(n, "primaryKey")
        indexes == Tagged(n, "index")
    IN  [name |-> Get(n, "name", <<>>), bean |-> Get(n, "bean", <<>>),
         lock |-> Get(n, "lock", <<>>), line |-> n.line,
         primaryKey |-> IF keys = <<>> THEN NoKey ELSE PrimaryKey(keys[1]),
         indexes |-> [i \in DOMAIN indexes |-> Index(indexes[i])]]

\* ParseSchema of a document without errors.
Schema(root) ==
    LET beans == Tagged(root, "bean")
        tables == Tagged(root, "table")
    IN  [beans |-> [i \in DOMAIN beans |-> Bean(beans[i])],
         tables |-> [i \in DOMAIN tables |-> Table(tables[i])]]

-----------------------------------------------------------------------------
(* Used by the generators. *)

HasBean(schema, name) == \E i \in DOMAIN schema.beans : schema.beans[i].name = name

\* The first bean of that name.
FindBean(schema, name) ==
    LET named == {i \in DOMAIN schema.beans : schema.beans[i].name = name}
    IN  schema.beans[CHOOSE i \in named : \A j \in named : i <= j]

SplitTrimSpace(list) == SelectSeq(list, LAMBDA n : n # <<>>)

\* ParseWhere: every condition is on a variable of the bean that is not the
\* primary key and occurs once, with a constant that the column's type has.  A
\* condition is a record of a variable, a constant, and the types that have the
\* constant: none if it is not of the form variable=constant.
ParseWhere(where) == SelectSeq(where, LAMBDA c : c.variable # <<>>)

WhereFails(bean, key, where) ==
    \/ ParseWhere(where) = <<>>
    \/ \E i \in DOMAIN ParseWhere(where) :
          LET c == ParseWhere(where)[i]
              named == {j \in DOMAIN bean.variables : bean.variables[j].name = c.variable}
          IN  \/ named = {} \/ c.variable = key
              \/ \E j \in 1 .. i - 1 : ParseWhere(where)[j].variable = c.variable
              \/ \E j \in named : /\ \A k \in named : k <= j
                                  /\ bean.variables[j].type \notin c.types
=============================================================================
