--------------------------- MODULE GenBeansProofs ---------------------------
(***************************************************************************)
(* What a run of genbeans guarantees for every set of finite documents,    *)
(* proved with TLAPS: an inductive invariant says how far the run has got  *)
(* and what errs has to hold by then.                                      *)
(***************************************************************************)
EXTENDS GenBeans, FiniteSetTheorems, SequenceTheorems, WellFoundedInduction, TLAPS

\* The schema is the document's, and the document is without errors.
WasRead == root \in Documents /\ ParseErrors(root) = {} /\ schema = Schema(root)

\* The errors of the tables before the next one are reported.
Reported == \A i \in DOMAIN schema.tables :
                i < next => GenerateTable(schema, schema.tables[i]).errs \subseteq errs

\* TypeOK and AttributesAreHeeded rest on WasRead, ErrorsAreReportedTogether on
\* Reported with next beyond the last table.
Inv ==
    /\ TypeOK
    /\ root \in Documents
    /\ pc = "parse" => schema = NoSchema /\ next = 1
    /\ pc \in {"parse", "failed"} => written = {}
    /\ pc \in {"tables", "generate", "write", "done"} \/ schema # NoSchema => WasRead
    /\ pc = "tables" => next = 1
    /\ pc \in {"generate", "write", "done"} => Reported
    /\ pc = "failed" /\ schema # NoSchema => Reported /\ next > Len(schema.tables)
    /\ pc \in {"tables", "generate", "write"} => written = {}

\* The first errors of generateTable are out of the way.
HasColumns(s, t) == HasBean(s, t.bean) /\ t.primaryKey # NoKey /\ IsIdentifier(PascalCase(t.bean))

LEMMA TableCases ==
    ASSUME NEW s, NEW t
    PROVE  /\ HasColumns(s, t) => GenerateTable(s, t) = GenerateColumns(t, FindBean(s, t.bean))
           /\ ~HasColumns(s, t) => \E e : GenerateTable(s, t) = Generated({e}, t, <<>>, {}, {})
BY Zenon DEF HasColumns, GenerateTable

\* A generated file names its table (Generated, from buildTableGen).
LEMMA FileOfTable ==
    ASSUME NEW s, NEW t
    PROVE  /\ GenerateTable(s, t).file.table = t.name
           /\ GenerateTable(s, t).file.line = t.line
<1>1. ASSUME NEW e, NEW type, NEW fields, NEW queries
      PROVE  /\ Generated(e, t, type, fields, queries).file.table = t.name
             /\ Generated(e, t, type, fields, queries).file.line = t.line
  BY DEF Generated
<1>2. ASSUME NEW b
      PROVE  /\ GenerateColumns(t, b).file.table = t.name
             /\ GenerateColumns(t, b).file.line = t.line
  <2> DEFINE type == PascalCase(b.name)
             fields == FieldsOf(b.variables)
             q == Queries(t, b, fields, type)
             bad == VariableErrors(b.variables)
             errors == bad \cup ColumnErrors(t, b, fields) \cup q.errs
             left == Generated(bad \cup {Error(t.primaryKey.line, "key")}, t, type, fields, {})
             right == Generated(errors \cup When(errors = {} /\ IsKeyword(LowerCamelCase(b.name)),
                                                 t.line, "gofmt"), t, type, fields, q.queries)
  <2>1. GenerateColumns(t, b) =
            IF Named(fields, t.primaryKey.variable) = {} THEN left ELSE right
    BY DEF GenerateColumns
  <2>2. left.file.table = t.name /\ left.file.line = t.line
    BY <1>1
  <2>3. right.file.table = t.name /\ right.file.line = t.line
    BY <1>1
  <2> HIDE DEF left, right
  <2>4. QED BY <2>1, <2>2, <2>3
<1>3. CASE HasColumns(s, t)
  BY <1>2, <1>3, TableCases
<1>4. CASE ~HasColumns(s, t)
  <2>1. PICK e : GenerateTable(s, t) = Generated({e}, t, <<>>, {}, {})
    BY <1>4, TableCases
  <2>2. QED BY <1>1, <2>1
<1>5. QED BY <1>3, <1>4

\* An element without errors in its attributes has all of them heeded: they are
\* known, and none is written twice (parser.attrs).
LEMMA NothingIgnored ==
    ASSUME NEW n, IsList(n.attrs), AttrErrors(n) = {}
    PROVE  \A i \in DOMAIN n.attrs :
               /\ n.attrs[i].name \in DOMAIN Fields(n.tag)
               /\ Value(n, n.attrs[i].name) = n.attrs[i].value
<1>1. DOMAIN n.attrs \subseteq Heeded(n)
  BY DEF AttrErrors
<1>2. \A i, j \in Heeded(n) : n.attrs[i].name = n.attrs[j].name => i = j
  BY DEF Heeded, IsList
<1>3. SUFFICES ASSUME NEW i \in DOMAIN n.attrs
               PROVE  Value(n, n.attrs[i].name) = n.attrs[i].value
  BY <1>1 DEF Heeded
<1> DEFINE k == CHOOSE j \in Heeded(n) : n.attrs[j].name = n.attrs[i].name
<1>4. i \in Heeded(n)
  BY <1>1
<1>5. k \in Heeded(n) /\ n.attrs[k].name = n.attrs[i].name
  BY <1>4
<1>6. k = i
  BY <1>2, <1>4, <1>5
<1>7. Value(n, n.attrs[i].name) = n.attrs[k].value
  BY <1>4 DEF Value
<1>8. QED BY <1>6, <1>7

\* A document that parses has no error in the attributes of any element.
LEMMA NoErrorAnywhere ==
    ASSUME NEW r, ParseErrors(r) = {}
    PROVE  \A n \in Nodes(r) : AttrErrors(n) = {}
<1>1. LeafErrors(r) = {} /\ r.tag = "pdb"
  BY DEF ParseErrors
<1>2. \A c \in Range(r.children) : c.tag \in Children("pdb")
  BY <1>1 DEF LeafErrors, StrayErrors
<1>3. \A c \in Range(r.children) : ElementErrors(c) = {}
  BY <1>2, Zenon DEF ParseErrors
<1>4. \A c \in Range(r.children) : LeafErrors(c) = {}
  BY <1>3 DEF ElementErrors
<1>5. \A c \in Range(r.children) : \A d \in Range(c.children) : d.tag \in Children(c.tag)
  BY <1>4 DEF LeafErrors, StrayErrors
<1>6. \A c \in Range(r.children) : \A d \in Range(c.children) : LeafErrors(d) = {}
  BY <1>3, <1>5 DEF ElementErrors
<1>7. QED BY <1>1, <1>4, <1>6 DEF Nodes, LeafErrors

-----------------------------------------------------------------------------
(* Invariance *)

LEMMA InitInv == Init => Inv
<1> SUFFICES ASSUME Init PROVE Inv
  OBVIOUS
<1>1. Len(schema.tables) = 0 /\ DOMAIN schema.tables = {}
  BY DEF Init, NoSchema
<1>2. TypeOK
  BY <1>1 DEF Init, TypeOK
<1>3. QED BY <1>2 DEF Init, Inv, NoSchema

\* Whatever was read is finite.
LEMMA TablesAreFinite == ASSUME WasRead PROVE IsList(schema.tables)
BY DocumentsAssumption DEF WasRead

LEMMA NextInv == Inv /\ [Next]_vars => Inv'
<1> SUFFICES ASSUME Inv, [Next]_vars PROVE Inv'
  OBVIOUS
<1> USE DEF Inv
<1>1. CASE LoadSchema
  <2>1. CASE errs' = {}
    <3>1. WasRead' /\ pc' = "tables" /\ next' = 1 /\ written' = {} /\ files' = files
      BY <1>1, <2>1 DEF LoadSchema, WasRead
    <3>2. IsList(schema'.tables)
      BY <3>1, DocumentsAssumption DEF WasRead
    <3>3. files = {}
      BY <1>1 DEF LoadSchema, TypeOK, NoSchema
    <3>4. TypeOK'
      BY <3>1, <3>2, <3>3, <2>1, SMT DEF TypeOK, IsList
    <3>5. QED BY <3>1, <3>4 DEF WasRead
  <2>2. CASE errs' # {}
    <3>1. pc' = "failed" /\ UNCHANGED <<root, schema, files, next, written>>
      BY <1>1, <2>2 DEF LoadSchema
    <3>2. schema' = NoSchema
      BY <1>1, <3>1 DEF LoadSchema
    <3>3. QED BY <1>1, <2>2, <3>1, <3>2 DEF LoadSchema, TypeOK
  <2>3. QED BY <2>1, <2>2
<1>2. CASE CheckTables
  <2>1. pc' = "generate" /\ UNCHANGED <<root, schema, files, next, written>>
    BY <1>2 DEF CheckTables
  <2>2. WasRead' /\ next' = 1
    BY <1>2, <2>1 DEF CheckTables, WasRead
  <2>3. IsList(schema'.tables)
    BY <2>2, DocumentsAssumption DEF WasRead
  <2>4. Reported'
    BY <2>2, <2>3, SMT DEF Reported, IsList
  <2>5. TypeOK'
    BY <2>1 DEF TypeOK
  <2>6. QED BY <1>2, <2>1, <2>2, <2>4, <2>5 DEF CheckTables
<1>3. CASE GenerateNext
  <2> DEFINE t == schema.tables[next]
             g == GenerateTable(schema, t)
  <2>1. /\ pc = "generate" /\ next <= Len(schema.tables) /\ next' = next + 1
        /\ errs' = errs \cup g.errs
        /\ files' \subseteq files \cup {g.file}
        /\ UNCHANGED <<root, pc, schema, written>>
    BY <1>3 DEF GenerateNext
  <2>2. WasRead /\ IsList(schema.tables) /\ next \in 1 .. Len(schema.tables) + 1
    BY <2>1, TablesAreFinite DEF TypeOK
  <2>3. next \in DOMAIN schema.tables /\ next' \in 1 .. Len(schema.tables) + 1
    BY <2>1, <2>2, SMT DEF IsList
  <2>4. g.file.table = t.name /\ g.file.line = t.line
    BY FileOfTable
  <2>5. Reported'
    <3>1. SUFFICES ASSUME NEW i \in DOMAIN schema.tables, i < next + 1
                   PROVE  GenerateTable(schema, schema.tables[i]).errs \subseteq errs'
      BY <2>1 DEF Reported
    <3>2. i < next \/ i = next
      BY <2>2, <3>1, SMT DEF IsList
    <3>3. CASE i < next
      BY <2>1, <3>3 DEF Reported
    <3>4. CASE i = next
      BY <2>1, <3>4
    <3>5. QED BY <3>2, <3>3, <3>4
  <2>6. TypeOK'
    <3>1. \A f \in files' : \E i \in DOMAIN schema.tables :
              f.table = schema.tables[i].name /\ f.line = schema.tables[i].line
      BY <2>1, <2>3, <2>4 DEF TypeOK
    <3>2. QED BY <2>1, <2>3, <3>1 DEF TypeOK
  <2>7. QED BY <2>1, <2>2, <2>5, <2>6 DEF WasRead
<1>4. CASE CheckDeclarations
  <2>1. /\ pc = "generate" /\ next > Len(schema.tables)
        /\ errs \subseteq errs'
        /\ pc' = IF errs' = {} THEN "write" ELSE "failed"
        /\ UNCHANGED <<root, schema, files, next, written>>
    BY <1>4 DEF CheckDeclarations
  <2>2. Reported' /\ WasRead'
    BY <2>1 DEF Reported, WasRead
  <2>3. TypeOK'
    BY <2>1 DEF TypeOK
  <2>4. QED BY <2>1, <2>2, <2>3
<1>5. CASE Write
  <2>1. pc' = "done" /\ written' = files /\ UNCHANGED <<root, schema, errs, files, next>>
    BY <1>5 DEF Write
  <2>2. WasRead' /\ Reported'
    BY <1>5, <2>1 DEF Write, WasRead, Reported
  <2>3. TypeOK'
    BY <1>5, <2>1 DEF Write, TypeOK
  <2>4. QED BY <2>1, <2>2, <2>3
<1>6. CASE UNCHANGED vars
  BY <1>6 DEF vars, TypeOK, WasRead, Reported
<1>7. QED BY <1>1, <1>2, <1>3, <1>4, <1>5, <1>6 DEF Next

THEOREM GenBeansInvariance == Spec => []Inv
BY InitInv, NextInv, PTL DEF Spec

\* The type invariant: a failed run has errors, a successful one none, and every
\* file is of a table of the schema.
THEOREM GenBeansTypes == Spec => []TypeOK
<1>1. Inv => TypeOK
  BY DEF Inv
<1>2. QED BY <1>1, GenBeansInvariance, PTL

\* The errors of every table are reported, whatever else is wrong (generateAll).
THEOREM TableErrorsAreReported == Spec => []ErrorsAreReportedTogether
<1>1. Inv => ErrorsAreReportedTogether
  <2> SUFFICES ASSUME Inv, pc = "failed", schema # NoSchema
               PROVE  \A i \in DOMAIN schema.tables :
                          GenerateTable(schema, schema.tables[i]).errs \subseteq errs
    BY DEF ErrorsAreReportedTogether
  <2>1. WasRead /\ Reported /\ next > Len(schema.tables) /\ next \in 1 .. Len(schema.tables) + 1
    BY DEF Inv, TypeOK
  <2>2. \A i \in DOMAIN schema.tables : i < next
    BY <2>1, TablesAreFinite, SMT DEF IsList
  <2>3. QED BY <2>1, <2>2 DEF Reported
<1>2. QED BY <1>1, GenBeansInvariance, PTL

\* Nothing that is written in an accepted pdb.xml is passed over (parser.attrs):
\* a misspelt unique can not turn a unique index into another one.
THEOREM NothingIsPassedOver == Spec => []AttributesAreHeeded
<1>1. Inv => AttributesAreHeeded
  <2> SUFFICES ASSUME Inv, written # {}, NEW n \in Nodes(root)
               PROVE  \A i \in DOMAIN n.attrs :
                          /\ n.attrs[i].name \in DOMAIN Fields(n.tag)
                          /\ Value(n, n.attrs[i].name) = n.attrs[i].value
    BY DEF AttributesAreHeeded
  <2>1. WasRead
    BY DEF Inv, TypeOK
  <2>2. AttrErrors(n) = {} /\ IsList(n.attrs)
    BY <2>1, NoErrorAnywhere, DocumentsAssumption DEF WasRead
  <2>3. QED BY <2>2, NothingIgnored
<1>2. QED BY <1>1, GenBeansInvariance, PTL

-----------------------------------------------------------------------------
(* Numbers and names *)

\* Every set of numbers that is not empty has a least one.
LEMMA LeastNumber ==
    ASSUME NEW S, S \subseteq Nat, S # {}
    PROVE  \E n \in S : \A m \in S : n <= m
<1> DEFINE R == OpToRel(<, Nat)
<1>1. IsWellFoundedOn(R, Nat)
  BY NatLessThanWellFounded
<1>2. \A x, y \in Nat : <<x, y>> \in R <=> x < y
  BY DEF OpToRel
<1> HIDE DEF R
<1>3. PICK n \in S : \A m \in S : ~ (<<m, n>> \in R)
  BY <1>1, WFMin
<1>4. \A m \in S : m \in Nat /\ n \in Nat /\ ~ (m < n)
  BY <1>2, <1>3
<1>5. QED BY <1>3, <1>4

\* The sequences that are joined one after the other.
Joined(g, s, n) ==
    g = [i \in 1 .. n |-> IF i = 1 THEN s[i] ELSE g[i - 1] \o s[i]]

LEMMA JoinedAt ==
    ASSUME NEW g, NEW s, NEW n \in Nat, Joined(g, s, n)
    PROVE  /\ DOMAIN g = 1 .. n
           /\ \A i \in 1 .. n : g[i] = IF i = 1 THEN s[i] ELSE g[i - 1] \o s[i]
<1> DEFINE h == [i \in 1 .. n |-> IF i = 1 THEN s[i] ELSE g[i - 1] \o s[i]]
<1>1. g = h
  BY Zenon DEF Joined
<1>2. DOMAIN h = 1 .. n /\ \A i \in 1 .. n : h[i] = IF i = 1 THEN s[i] ELSE g[i - 1] \o s[i]
  OBVIOUS
<1> HIDE DEF h
<1>3. QED BY <1>1, <1>2

LEMMA JoinedExists ==
    ASSUME NEW s, NEW n \in Nat
    PROVE  \E g : Joined(g, s, n)
<1> DEFINE bad == {k \in Nat : ~ \E g : Joined(g, s, k)}
<1> SUFFICES ASSUME bad # {} PROVE FALSE
  OBVIOUS
<1>1. PICK k \in bad : \A m \in bad : k <= m
  <2>1. bad \subseteq Nat
    OBVIOUS
  <2> HIDE DEF bad
  <2>2. QED BY <2>1, LeastNumber
<1>2. k \in Nat /\ ~ \E g : Joined(g, s, k)
  BY <1>1
<1>3. CASE k = 0
  <2> DEFINE g == [i \in 1 .. 0 |-> 0]
  <2>1. g = [i \in 1 .. 0 |-> IF i = 1 THEN s[i] ELSE g[i - 1] \o s[i]]
    OBVIOUS
  <2>2. Joined(g, s, 0)
    BY <2>1 DEF Joined
  <2>3. QED BY <1>2, <1>3, <2>2
<1>4. CASE k # 0
  <2>1. k - 1 \in Nat /\ k - 1 \notin bad
    BY <1>1, <1>2, <1>4
  <2>2. PICK g : Joined(g, s, k - 1)
    BY <2>1
  <2>3. /\ DOMAIN g = 1 .. k - 1
        /\ \A i \in 1 .. k - 1 : g[i] = IF i = 1 THEN s[i] ELSE g[i - 1] \o s[i]
    BY <2>1, <2>2, JoinedAt
  <2> DEFINE f == [i \in 1 .. k |-> IF i = 1 THEN s[i] ELSE g[i - 1] \o s[i]]
             e == [i \in 1 .. k |-> IF i = 1 THEN s[i] ELSE f[i - 1] \o s[i]]
  <2>4. ASSUME NEW i \in 1 .. k - 1 PROVE f[i] = g[i]
    <3>1. i \in 1 .. k
      BY <1>2
    <3>2. f[i] = IF i = 1 THEN s[i] ELSE g[i - 1] \o s[i]
      BY <3>1
    <3> HIDE DEF f
    <3>3. QED BY <2>3, <3>2
  <2>5. f = e
    <3>1. ASSUME NEW i \in 1 .. k PROVE f[i] = e[i]
      <4>1. CASE i = 1
        BY <4>1
      <4>2. CASE i # 1
        <5>1. i - 1 \in 1 .. k - 1
          BY <1>2, <4>2
        <5>2. f[i] = g[i - 1] \o s[i] /\ e[i] = f[i - 1] \o s[i]
          BY <4>2
        <5> HIDE DEF f, e
        <5>3. QED BY <2>4, <5>1, <5>2
      <4>3. QED BY <4>1, <4>2
    <3>2. f = [i \in 1 .. k |-> f[i]] /\ e = [i \in 1 .. k |-> e[i]]
      OBVIOUS
    <3> HIDE DEF f, e
    <3>3. QED BY <3>1, <3>2, Zenon
  <2>6. Joined(f, s, k)
    BY <2>5, Zenon DEF Joined
  <2>7. QED BY <1>2, <2>6
<1>5. QED BY <1>3, <1>4

LEMMA Flattened ==
    ASSUME NEW s, IsList(s), Len(s) # 0
    PROVE  \E g : Joined(g, s, Len(s)) /\ FlattenSeq(s) = g[Len(s)]
<1> DEFINE flatten[i \in 1 .. Len(s)] == IF i = 1 THEN s[i] ELSE flatten[i - 1] \o s[i]
<1>1. \E g : g = [i \in 1 .. Len(s) |-> IF i = 1 THEN s[i] ELSE g[i - 1] \o s[i]]
  BY JoinedExists DEF Joined, IsList
<1>2. flatten = [i \in 1 .. Len(s) |-> IF i = 1 THEN s[i] ELSE flatten[i - 1] \o s[i]]
  BY <1>1, Zenon
<1>3. Joined(flatten, s, Len(s))
  BY <1>2, Zenon DEF Joined
<1>4. FlattenSeq(s) = flatten[Len(s)]
  BY Zenon DEF FlattenSeq
<1>5. QED BY <1>3, <1>4

\* One more sequence goes to the end.
LEMMA FlattenMore ==
    ASSUME NEW s, NEW r, IsList(s), IsList(r), Len(r) = Len(s) + 1, Len(s) # 0,
           \A i \in 1 .. Len(s) : r[i] = s[i]
    PROVE  FlattenSeq(r) = FlattenSeq(s) \o r[Len(r)]
<1> DEFINE n == Len(s)
<1>1. n \in Nat /\ n # 0 /\ Len(r) = n + 1
  BY DEF IsList
<1>2. PICK g : Joined(g, s, n) /\ FlattenSeq(s) = g[n]
  BY <1>1, Flattened
<1>3. PICK h : Joined(h, r, n + 1) /\ FlattenSeq(r) = h[n + 1]
  BY <1>1, Flattened
<1> HIDE DEF n
<1>4. \A i \in 1 .. n : g[i] = IF i = 1 THEN s[i] ELSE g[i - 1] \o s[i]
  BY <1>2, JoinedAt, <1>1
<1>5. \A i \in 1 .. n + 1 : h[i] = IF i = 1 THEN r[i] ELSE h[i - 1] \o r[i]
  BY <1>3, JoinedAt, <1>1
<1>6. \A i \in 1 .. n : s[i] = r[i]
  BY DEF n
<1>7. \A i \in 1 .. n : g[i] = h[i]
  <2> DEFINE bad == {i \in 1 .. n : g[i] # h[i]}
  <2> SUFFICES ASSUME bad # {} PROVE FALSE
    OBVIOUS
  <2>1. PICK i \in bad : \A m \in bad : i <= m
    <3>1. bad \subseteq Nat
      OBVIOUS
    <3> HIDE DEF bad
    <3>2. QED BY <3>1, LeastNumber
  <2>2. i \in 1 .. n /\ g[i] # h[i] /\ i \in 1 .. n + 1
    BY <1>1, <2>1
  <2>3. i # 1
    BY <1>4, <1>5, <1>6, <2>2
  <2>4. i - 1 \in 1 .. n /\ i - 1 \notin bad
    BY <1>1, <2>1, <2>2, <2>3
  <2>5. g[i - 1] = h[i - 1]
    BY <2>4
  <2>6. QED BY <1>4, <1>5, <1>6, <2>2, <2>3, <2>5
<1>8. h[n + 1] = h[n] \o r[n + 1]
  <2>1. n + 1 \in 1 .. n + 1 /\ n + 1 # 1 /\ (n + 1) - 1 = n
    BY <1>1
  <2>2. QED BY <1>5, <2>1
<1>9. g[n] = h[n]
  BY <1>1, <1>7
<1>10. QED BY <1>1, <1>2, <1>3, <1>8, <1>9

LEMMA FlattenOne ==
    ASSUME NEW s, IsList(s), Len(s) = 1
    PROVE  FlattenSeq(s) = s[1]
<1>1. Len(s) # 0
  OBVIOUS
<1>2. PICK g : Joined(g, s, 1) /\ FlattenSeq(s) = g[1]
  BY <1>1, Flattened
<1>3. g[1] = s[1]
  BY <1>2, JoinedAt
<1>4. QED BY <1>2, <1>3

LEMMA NoPieces ==
    /\ SnakeCase(<<>>) = <<>> /\ PascalCase(<<>>) = <<>>
<1>1. ASSUME NEW s, s = <<>> PROVE FlattenSeq(s) = <<>>
  <2>1. Len(s) = 0
    BY <1>1
  <2>2. QED BY <1>1, <2>1, Zenon DEF FlattenSeq
<1>2. [i \in DOMAIN <<>> |-> SnakePiece(<<>>, i)] = <<>>
  OBVIOUS
<1>3. [i \in DOMAIN <<>> |-> PascalPiece(<<>>, i)] = <<>>
  OBVIOUS
<1>4. QED BY <1>1, <1>2, <1>3, Zenon DEF SnakeCase, PascalCase

\* A function with a list's domain is a list.
LEMMA ListOf ==
    ASSUME NEW s, NEW n \in Nat, DOMAIN s = 1 .. n, s = [i \in DOMAIN s |-> s[i]]
    PROVE  IsList(s) /\ Len(s) = n
BY DEF IsList

\* What a token adds to a name that was written so far.
SnakeTail(t) == IF t.cap THEN <<Underscore, Lower(t)>> ELSE <<Lower(t)>>
PascalTail(n, t) ==
    IF ~IsWord(t) THEN <<>> ELSE IF ~IsWord(n[Len(n)]) THEN <<Upper(t)>> ELSE <<t>>

LEMMA SnakeStep ==
    ASSUME NEW n, IsName(n), NEW t \in Tokens
    PROVE  /\ n = <<>> => SnakeCase(Append(n, t)) = <<Lower(t)>>
           /\ n # <<>> => SnakeCase(Append(n, t)) = SnakeCase(n) \o SnakeTail(t)
<1> DEFINE m == Append(n, t)
           s == [i \in DOMAIN n |-> SnakePiece(n, i)]
           r == [i \in DOMAIN m |-> SnakePiece(m, i)]
<1>1. /\ n \in Seq(Tokens) /\ Len(n) \in Nat /\ Len(m) = Len(n) + 1
      /\ DOMAIN n = 1 .. Len(n) /\ DOMAIN m = 1 .. Len(n) + 1
      /\ m[Len(n) + 1] = t /\ \A i \in 1 .. Len(n) : m[i] = n[i]
  BY DEF IsName
<1>2. IsList(s) /\ Len(s) = Len(n) /\ IsList(r) /\ Len(r) = Len(n) + 1
  <2>1. DOMAIN s = 1 .. Len(n) /\ s = [i \in DOMAIN s |-> s[i]]
    BY <1>1
  <2>2. DOMAIN r = 1 .. Len(n) + 1 /\ r = [i \in DOMAIN r |-> r[i]]
    BY <1>1
  <2> HIDE DEF s, r, m
  <2>3. IsList(s) /\ Len(s) = Len(n)
    BY <1>1, <2>1, ListOf
  <2>4. Len(n) + 1 \in Nat
    BY <1>1
  <2>5. IsList(r) /\ Len(r) = Len(n) + 1
    BY <2>2, <2>4, ListOf
  <2>6. QED BY <2>3, <2>5
<1>3. r[Len(n) + 1] = SnakePiece(m, Len(n) + 1)
  BY <1>1
<1>4. \A i \in 1 .. Len(n) : s[i] = SnakePiece(n, i) /\ r[i] = SnakePiece(m, i)
  BY <1>1
<1>5. \A i \in 1 .. Len(n) : SnakePiece(n, i) = SnakePiece(m, i)
  BY <1>1 DEF SnakePiece
<1>6. SnakeCase(n) = FlattenSeq(s) /\ SnakeCase(m) = FlattenSeq(r)
  BY Zenon DEF SnakeCase
<1>7. SnakePiece(m, Len(n) + 1) =
          IF Len(n) + 1 > 1 /\ t.cap THEN <<Underscore, Lower(t)>> ELSE <<Lower(t)>>
  BY <1>1 DEF SnakePiece
<1> HIDE DEF s, r, m
<1>8. CASE n = <<>>
  <2>1. Len(n) = 0 /\ Len(r) = 1
    BY <1>2, <1>8
  <2>2. SnakeCase(m) = <<Lower(t)>>
    BY <1>2, <1>3, <1>6, <1>7, <2>1, FlattenOne
  <2>3. QED BY <1>8, <2>2, Zenon DEF m
<1>9. CASE n # <<>>
  <2>1. Len(n) # 0 /\ Len(n) + 1 > 1
    BY <1>1, <1>9
  <2>2. SnakeCase(m) = SnakeCase(n) \o SnakePiece(m, Len(n) + 1)
    BY <1>2, <1>3, <1>4, <1>5, <1>6, <2>1, FlattenMore
  <2>3. SnakePiece(m, Len(n) + 1) = SnakeTail(t)
    BY <1>7, <2>1 DEF SnakeTail
  <2>4. SnakeCase(m) = SnakeCase(n) \o SnakeTail(t)
    BY <2>2, <2>3, Zenon
  <2>5. QED BY <1>9, <2>4, Zenon DEF m
<1>10. QED BY <1>8, <1>9

LEMMA PascalStep ==
    ASSUME NEW n, IsName(n), NEW t \in Tokens
    PROVE  /\ n = <<>> => PascalCase(Append(n, t)) = IF IsWord(t) THEN <<Upper(t)>> ELSE <<>>
           /\ n # <<>> => PascalCase(Append(n, t)) = PascalCase(n) \o PascalTail(n, t)
<1> DEFINE m == Append(n, t)
           s == [i \in DOMAIN n |-> PascalPiece(n, i)]
           r == [i \in DOMAIN m |-> PascalPiece(m, i)]
<1>1. /\ n \in Seq(Tokens) /\ Len(n) \in Nat /\ Len(m) = Len(n) + 1
      /\ DOMAIN n = 1 .. Len(n) /\ DOMAIN m = 1 .. Len(n) + 1
      /\ m[Len(n) + 1] = t /\ \A i \in 1 .. Len(n) : m[i] = n[i]
  BY DEF IsName
<1>2. IsList(s) /\ Len(s) = Len(n) /\ IsList(r) /\ Len(r) = Len(n) + 1
  <2>1. DOMAIN s = 1 .. Len(n) /\ s = [i \in DOMAIN s |-> s[i]]
    BY <1>1
  <2>2. DOMAIN r = 1 .. Len(n) + 1 /\ r = [i \in DOMAIN r |-> r[i]]
    BY <1>1
  <2> HIDE DEF s, r, m
  <2>3. IsList(s) /\ Len(s) = Len(n)
    BY <1>1, <2>1, ListOf
  <2>4. Len(n) + 1 \in Nat
    BY <1>1
  <2>5. IsList(r) /\ Len(r) = Len(n) + 1
    BY <2>2, <2>4, ListOf
  <2>6. QED BY <2>3, <2>5
<1>3. r[Len(n) + 1] = PascalPiece(m, Len(n) + 1)
  BY <1>1
<1>4. \A i \in 1 .. Len(n) : s[i] = PascalPiece(n, i) /\ r[i] = PascalPiece(m, i)
  BY <1>1
<1>5. \A i \in 1 .. Len(n) : PascalPiece(n, i) = PascalPiece(m, i)
  BY <1>1 DEF PascalPiece
<1>6. PascalCase(n) = FlattenSeq(s) /\ PascalCase(m) = FlattenSeq(r)
  BY Zenon DEF PascalCase
<1>7. PascalPiece(m, Len(n) + 1) =
          IF ~IsWord(t) THEN <<>>
          ELSE IF Len(n) + 1 = 1 \/ ~IsWord(m[(Len(n) + 1) - 1]) THEN <<Upper(t)>> ELSE <<t>>
  BY <1>1 DEF PascalPiece
<1> HIDE DEF s, r, m
<1>8. CASE n = <<>>
  <2>1. Len(n) = 0 /\ Len(r) = 1
    BY <1>2, <1>8
  <2>2. PascalCase(m) = IF IsWord(t) THEN <<Upper(t)>> ELSE <<>>
    BY <1>2, <1>3, <1>6, <1>7, <2>1, FlattenOne
  <2>3. QED BY <1>8, <2>2, Zenon DEF m
<1>9. CASE n # <<>>
  <2>1. Len(n) # 0 /\ Len(n) + 1 # 1 /\ (Len(n) + 1) - 1 = Len(n) /\ m[Len(n)] = n[Len(n)]
    BY <1>1, <1>9
  <2>2. PascalCase(m) = PascalCase(n) \o PascalPiece(m, Len(n) + 1)
    BY <1>2, <1>3, <1>4, <1>5, <1>6, <2>1, FlattenMore
  <2>3. PascalPiece(m, Len(n) + 1) = PascalTail(n, t)
    BY <1>7, <2>1 DEF PascalTail
  <2>4. PascalCase(m) = PascalCase(n) \o PascalTail(n, t)
    BY <2>2, <2>3, Zenon
  <2>5. QED BY <1>9, <2>4, Zenon DEF m
<1>10. QED BY <1>8, <1>9

\* What the conversions make of a name: SnakeCase keeps the last letter, and
\* what PascalCase makes of a name is determined by its SnakeCase.
Converts(n) ==
    /\ IsName(SnakeCase(n)) /\ IsName(PascalCase(n))
    /\ n # <<>> => /\ SnakeCase(n) # <<>>
                   /\ SnakeCase(n)[Len(SnakeCase(n))] = Lower(n[Len(n)])
    /\ PascalCase(SnakeCase(n)) = PascalCase(n)

LEMMA Recased ==
    ASSUME NEW t \in [word : Words, cap : BOOLEAN]
    PROVE  /\ [t EXCEPT !.cap = TRUE] = [word |-> t.word, cap |-> TRUE]
           /\ [t EXCEPT !.cap = FALSE] = [word |-> t.word, cap |-> FALSE]
<1> DEFINE C == BOOLEAN
           yes == TRUE
           no == FALSE
<1>1. t \in [word : Words, cap : C] /\ yes \in C /\ no \in C
  OBVIOUS
<1> HIDE DEF C, yes, no
<1>2. /\ [t EXCEPT !.cap = yes] = [word |-> t.word, cap |-> yes]
      /\ [t EXCEPT !.cap = no] = [word |-> t.word, cap |-> no]
  BY <1>1
<1>3. QED BY <1>2, Zenon DEF yes, no

LEMMA TokenCases ==
    ASSUME NEW t \in Tokens
    PROVE  /\ Lower(t) \in Tokens /\ Upper(t) \in Tokens /\ Underscore \in Tokens
           /\ Upper(Lower(t)) = Upper(t) /\ (IsWord(Lower(t)) <=> IsWord(t))
           /\ t.cap => Upper(t) = t /\ IsWord(t)
           /\ ~t.cap => Lower(t) = t
           /\ ~IsWord(Underscore) /\ Lower(Underscore) = Underscore /\ ~Lower(t).cap
<1>1. t \in [word : Words, cap : BOOLEAN] /\ (t.cap => IsWord(Lower(t)))
  BY DEF Tokens
<1>2. t.word \in Words /\ t.cap \in BOOLEAN /\ t = [word |-> t.word, cap |-> t.cap]
  BY <1>1
<1> DEFINE w == t.word
           l == [word |-> w, cap |-> FALSE]
           u == [word |-> w, cap |-> TRUE]
<1>10. PICK z \in Words : Underscore = Small(z)
  <2>1. PICK y : Underscore = Small(y)
    BY Zenon DEF Underscore
  <2>2. Underscore.word = y
    BY <2>1 DEF Small
  <2>3. QED BY <2>1, <2>2 DEF Words
<1> DEFINE underscore == [word |-> z, cap |-> FALSE]
<1>3. Lower(t) = l /\ Underscore = underscore
  <2>1. [t EXCEPT !.cap = FALSE] = l
    BY <1>1, Recased, Zenon
  <2>2. QED BY <1>10, <2>1, Zenon DEF Lower, Small
<1>4. Upper(t) = IF t = underscore THEN t ELSE u
  <2>1. [t EXCEPT !.cap = TRUE] = u
    BY <1>1, Recased, Zenon
  <2> HIDE DEF u
  <2>2. QED BY <1>3, <2>1, Zenon DEF Upper
<1>5. underscore \in Tokens /\ Lower(underscore) = underscore /\ ~IsWord(underscore)
  <2>2. underscore.cap = FALSE /\ underscore \in [word : Words, cap : BOOLEAN] /\ underscore.word = z
    BY <1>10
  <2>1. Lower(underscore) = underscore
    <3>1. [underscore EXCEPT !.cap = FALSE] = [word |-> underscore.word, cap |-> FALSE]
      <4> HIDE DEF underscore
      <4>1. QED BY <2>2, Recased, Zenon
    <3>2. QED BY <2>2, <3>1, Zenon DEF Lower
  <2> HIDE DEF underscore
  <2>3. QED BY <1>3, <2>1, <2>2 DEF Tokens, IsWord
<1>6. CASE t = underscore
  <2>1. t.cap = FALSE
    BY <1>6
  <2> HIDE DEF underscore, l, u, w
  <2>2. QED BY <1>1, <1>3, <1>4, <1>5, <1>6, <2>1 DEF IsWord
<1>7. CASE t # underscore
  <2>1. w # z
    <3>1. CASE t.cap
      BY <1>1, <1>3, <3>1 DEF IsWord
    <3>2. CASE ~t.cap
      BY <1>2, <1>7, <3>2
    <3>3. QED BY <3>1, <3>2
  <2>2. l # underscore /\ u # underscore /\ l.cap = FALSE /\ u.cap = TRUE
    BY <2>1
  <2>3. l \in [word : Words, cap : BOOLEAN] /\ u \in [word : Words, cap : BOOLEAN]
    BY <1>2
  <2>4. Upper(l) = u /\ Lower(u) = l /\ Lower(l) = l
    <3>1. [l EXCEPT !.cap = TRUE] = u /\ [u EXCEPT !.cap = FALSE] = l /\ [l EXCEPT !.cap = FALSE] = l
      <4>1. l.word = w /\ u.word = w
        OBVIOUS
      <4>2. /\ [l EXCEPT !.cap = TRUE] = [word |-> l.word, cap |-> TRUE]
            /\ [u EXCEPT !.cap = FALSE] = [word |-> u.word, cap |-> FALSE]
            /\ [l EXCEPT !.cap = FALSE] = [word |-> l.word, cap |-> FALSE]
        <5> HIDE DEF l, u
        <5>1. QED BY <2>3, Recased, Zenon
      <4>3. QED BY <4>1, <4>2, Zenon
    <3> HIDE DEF l, u, underscore
    <3>2. QED BY <1>3, <2>2, <3>1 DEF Upper, Lower
  <2>5. (t.cap => u = t) /\ (~t.cap => l = t)
    BY <1>2
  <2> HIDE DEF l, u, w, underscore
  <2>6. IsWord(l) /\ IsWord(u) /\ IsWord(t)
    BY <1>3, <1>7, <2>2 DEF IsWord
  <2>7. l \in Tokens /\ u \in Tokens
    BY <2>2, <2>3, <2>4, <2>6 DEF Tokens
  <2>8. QED BY <1>3, <1>4, <1>5, <1>7, <2>2, <2>4, <2>5, <2>6, <2>7
<1>8. QED BY <1>6, <1>7

LEMMA ConvertsMore ==
    ASSUME NEW n, IsName(n), Converts(n), NEW t \in Tokens
    PROVE  Converts(Append(n, t))
<1> DEFINE m == Append(n, t)
<1> USE TokenCases
<1>1. n \in Seq(Tokens) /\ m \in Seq(Tokens) /\ m # <<>> /\ m[Len(m)] = t
  BY DEF IsName
<1>2. CASE n = <<>>
  <2>1. SnakeCase(m) = <<Lower(t)>>
    BY <1>2, SnakeStep
  <2>2. PascalCase(m) = IF IsWord(t) THEN <<Upper(t)>> ELSE <<>>
    BY <1>2, PascalStep
  <2>3. PascalCase(<<Lower(t)>>) = IF IsWord(Lower(t)) THEN <<Upper(Lower(t))>> ELSE <<>>
    <3> DEFINE e == <<>>
               u == Lower(t)
    <3>1. <<u>> = Append(e, u)
      OBVIOUS
    <3>2. IsName(e) /\ e = <<>>
      BY DEF IsName
    <3>3. u \in Tokens
      OBVIOUS
    <3> HIDE DEF e, u
    <3>4. PascalCase(Append(e, u)) = IF IsWord(u) THEN <<Upper(u)>> ELSE <<>>
      BY <3>2, <3>3, PascalStep
    <3>5. PascalCase(<<u>>) = IF IsWord(u) THEN <<Upper(u)>> ELSE <<>>
      BY <3>1, <3>4, Zenon
    <3>6. QED BY <3>5, Zenon DEF u
  <2>4. IsName(SnakeCase(m)) /\ IsName(PascalCase(m))
    BY <2>1, <2>2 DEF IsName
  <2>5. QED BY <1>1, <2>1, <2>2, <2>3, <2>4 DEF Converts
<1>3. CASE n # <<>>
  <2> DEFINE k == SnakeCase(n)
  <2>1. k \in Seq(Tokens) /\ k # <<>> /\ k[Len(k)] = Lower(n[Len(n)])
        /\ PascalCase(n) \in Seq(Tokens) /\ PascalCase(k) = PascalCase(n)
    BY <1>3 DEF Converts, IsName
  <2>2. n[Len(n)] \in Tokens
    BY <1>1, <1>3
  <2>3. IsWord(k[Len(k)]) <=> IsWord(n[Len(n)])
    BY <2>1, <2>2
  <2>4. PascalCase(m) = PascalCase(n) \o PascalTail(n, t)
    BY <1>3, PascalStep
  <2>9. SnakeCase(m) = k \o SnakeTail(t)
    BY <1>3, SnakeStep
  <2> HIDE DEF k
  <2>5. CASE t.cap
    <3>1. SnakeCase(m) = k \o <<Underscore, Lower(t)>>
      BY <2>5, <2>9 DEF SnakeTail
    <3> DEFINE u == Append(k, Underscore)
    <3>11. Underscore \in Tokens
      OBVIOUS
    <3>2. u \in Seq(Tokens) /\ u # <<>> /\ u[Len(u)] = Underscore
      BY <2>1, <3>11, AppendProperties
    <3>3. SnakeCase(m) = Append(u, Lower(t))
      BY <2>1, <3>1
    <3>4. PascalCase(u) = PascalCase(k)
      <4>1. PascalCase(u) = PascalCase(k) \o <<>>
          BY <2>1, <3>11, PascalStep DEF IsName, PascalTail
      <4>2. QED BY <2>1, <4>1
    <3> HIDE DEF u
    <3>5. PascalCase(Append(u, Lower(t))) = PascalCase(u) \o <<Upper(Lower(t))>>
      BY <2>5, <3>2, PascalStep DEF IsName, PascalTail
    <3>6. PascalCase(m) = PascalCase(n) \o <<t>>
      BY <2>4, <2>5 DEF PascalTail
    <3>7. PascalCase(SnakeCase(m)) = PascalCase(m)
      BY <2>1, <2>5, <3>3, <3>4, <3>5, <3>6
    <3>8. IsName(SnakeCase(m)) /\ IsName(PascalCase(m))
      BY <2>1, <3>2, <3>3, <3>6 DEF IsName
    <3>9. SnakeCase(m) # <<>> /\ SnakeCase(m)[Len(SnakeCase(m))] = Lower(t)
      BY <3>2, <3>3
    <3>10. QED BY <1>1, <3>7, <3>8, <3>9 DEF Converts
  <2>6. CASE ~t.cap
    <3>1. SnakeCase(m) = Append(k, t)
      <4>1. SnakeCase(m) = k \o <<t>>
        BY <2>6, <2>9 DEF SnakeTail
      <4>2. QED BY <2>1, <4>1
    <3>2. PascalCase(Append(k, t)) = PascalCase(k) \o PascalTail(k, t) /\ PascalTail(k, t) = PascalTail(n, t)
      BY <2>1, <2>3, PascalStep DEF IsName, PascalTail
    <3>3. PascalCase(SnakeCase(m)) = PascalCase(m)
      BY <2>1, <2>3, <2>4, <3>1, <3>2
    <3>4. IsName(SnakeCase(m))
      BY <2>1, <3>1 DEF IsName
    <3>5. IsName(PascalCase(m))
      BY <2>1, <2>4 DEF IsName, PascalTail
    <3>6. SnakeCase(m) # <<>> /\ SnakeCase(m)[Len(SnakeCase(m))] = Lower(t)
      BY <2>1, <2>6, <3>1
    <3>7. QED BY <1>1, <3>3, <3>4, <3>5, <3>6 DEF Converts
  <2>7. t.cap \in BOOLEAN
    BY DEF Tokens
  <2>8. QED BY <2>5, <2>6
<1>4. QED BY <1>2, <1>3

LEMMA NameConverts == ASSUME NEW n, IsName(n) PROVE Converts(n)
<1> DEFINE bad == {k \in Nat : \E m \in Seq(Tokens) : Len(m) = k /\ ~Converts(m)}
<1> SUFFICES ASSUME bad # {} PROVE FALSE
  BY DEF IsName
<1>1. PICK k \in bad : \A j \in bad : k <= j
  <2>1. bad \subseteq Nat
    OBVIOUS
  <2> HIDE DEF bad
  <2>2. QED BY <2>1, LeastNumber
<1>2. PICK m \in Seq(Tokens) : Len(m) = k /\ ~Converts(m)
  BY <1>1
<1>3. CASE m = <<>>
  <2>1. IsName(<<>>)
    BY DEF IsName
  <2>2. QED BY <1>2, <1>3, <2>1, NoPieces DEF Converts
<1>4. CASE m # <<>>
  <2> DEFINE l == SubSeq(m, 1, Len(m) - 1)
  <2>1. Len(m) \in Nat /\ Len(m) >= 1 /\ m[Len(m)] \in Tokens
    BY <1>4
  <2>6. l \in Seq(Tokens) /\ Len(l) = Len(m) - 1 /\ \A i \in 1 .. Len(m) - 1 : l[i] = m[i]
    <3> DEFINE n1 == Len(m) - 1
    <3>1. n1 \in Nat /\ 1 \in Int /\ \A i \in 1 .. n1 : m[i] \in Tokens
      BY <2>1
    <3> HIDE DEF n1
    <3>2. /\ SubSeq(m, 1, n1) \in Seq(Tokens) /\ Len(SubSeq(m, 1, n1)) = IF 1 <= n1 THEN n1 - 1 + 1 ELSE 0
          /\ \A i \in 1 .. n1 - 1 + 1 : SubSeq(m, 1, n1)[i] = m[1 + i - 1]
      BY <3>1, SubSeqProperties, SMTT(30)
    <3> DEFINE p == SubSeq(m, 1, n1)
    <3> HIDE DEF p
    <3>3. p \in Seq(Tokens) /\ Len(p) = n1 /\ \A i \in 1 .. n1 : p[i] = m[i]
      BY <3>1, <3>2 DEF p
    <3>4. QED BY <3>3, Zenon DEF n1, p
  <2>7. m = Append(l, m[Len(m)])
    <3> HIDE DEF l
    <3>1. Append(l, m[Len(m)]) \in Seq(Tokens) /\ Len(Append(l, m[Len(m)])) = Len(m)
      BY <2>1, <2>6
    <3>2. \A i \in 1 .. Len(m) : Append(l, m[Len(m)])[i] = m[i]
      BY <2>1, <2>6
    <3>3. QED BY <3>1, <3>2, SeqEqual
  <2> HIDE DEF l
  <2>2. Len(l) \in Nat /\ Len(l) < k
    BY <1>2, <2>1, <2>6
  <2>3. Converts(l)
    BY <1>1, <2>6, <2>2
  <2>4. Converts(m)
    <3>1. Converts(Append(l, m[Len(m)]))
      BY <2>1, <2>3, <2>6, ConvertsMore DEF IsName
    <3>2. QED BY <2>7, <3>1
  <2>5. QED BY <1>2, <2>4
<1>5. QED BY <1>3, <1>4

\* Columns that are one for SQL are one for Go (readxml.SnakeCase, PascalCase).
THEOREM SnakeDeterminesPascal ==
    ASSUME NEW a, NEW b, IsName(a), IsName(b), SnakeCase(a) = SnakeCase(b)
    PROVE  PascalCase(a) = PascalCase(b)
BY NameConverts DEF Converts

-----------------------------------------------------------------------------
(* The output is whole *)

\* The files of the tables before the n-th, as generateAll makes them.
FilesBefore(n) == {GenerateTable(schema, schema.tables[i]).file : i \in 1 .. n - 1}

\* While there is no error the tables agree with each other, and the files are
\* those of the tables that were generated.
Whole ==
    /\ pc \in {"parse", "tables"} => files = {} /\ errs = {}
    /\ pc \in {"generate", "write", "done"} => TableErrors(schema.tables) \subseteq errs
    /\ pc \in {"generate", "write", "done"} /\ errs = {} => files = FilesBefore(next)
    /\ pc \in {"write", "done"} => next > Len(schema.tables) /\ DeclarationErrors(files) = {}
    /\ pc = "done" => written = files

\* FindBean finds a bean of that name if there is one.
LEMMA BeanIsFound ==
    ASSUME NEW s, NEW n, IsList(s.beans), HasBean(s, n)
    PROVE  FindBean(s, n).name = n /\ FindBean(s, n) \in Range(s.beans)
<1> DEFINE named == {i \in DOMAIN s.beans : s.beans[i].name = n}
           k == CHOOSE i \in named : \A j \in named : i <= j
<1>1. named \subseteq Nat /\ named # {}
  BY DEF HasBean, IsList
<1>2. \E i \in named : \A j \in named : i <= j
  <2> HIDE DEF named
  <2>1. QED BY <1>1, LeastNumber
<1>3. k \in named
  <2> HIDE DEF named
  <2>1. QED BY <1>2
<1>4. FindBean(s, n) = s.beans[k]
  BY DEF FindBean
<1>5. QED BY <1>3, <1>4 DEF Range

\* The type of a table without errors is named after the table's bean.
LEMMA TypeOfTable ==
    ASSUME NEW s, NEW t, IsList(s.beans), GenerateTable(s, t).errs = {}
    PROVE  GenerateTable(s, t).file.type = PascalCase(t.bean)
<1>1. ASSUME NEW e, NEW type, NEW fields, NEW queries
      PROVE  /\ Generated(e, t, type, fields, queries).file.type = type
             /\ Generated(e, t, type, fields, queries).errs = e
  BY DEF Generated
<1>2. ASSUME NEW b PROVE GenerateColumns(t, b).file.type = PascalCase(b.name)
  <2> DEFINE type == PascalCase(b.name)
             fields == FieldsOf(b.variables)
             q == Queries(t, b, fields, type)
             bad == VariableErrors(b.variables)
             errors == bad \cup ColumnErrors(t, b, fields) \cup q.errs
             left == Generated(bad \cup {Error(t.primaryKey.line, "key")}, t, type, fields, {})
             right == Generated(errors \cup When(errors = {} /\ IsKeyword(LowerCamelCase(b.name)),
                                                 t.line, "gofmt"), t, type, fields, q.queries)
  <2>1. GenerateColumns(t, b) =
            IF Named(fields, t.primaryKey.variable) = {} THEN left ELSE right
    BY DEF GenerateColumns
  <2>2. left.file.type = type /\ right.file.type = type
    BY <1>1
  <2> HIDE DEF left, right, type
  <2>3. GenerateColumns(t, b).file.type = type
    BY <2>1, <2>2
  <2>4. QED BY <2>3 DEF type
<1>3. HasBean(s, t.bean) /\ GenerateTable(s, t) = GenerateColumns(t, FindBean(s, t.bean))
  <2>1. ASSUME NEW e PROVE Generated({e}, t, <<>>, {}, {}).errs # {}
    <3>1. Generated({e}, t, <<>>, {}, {}).errs = {e}
      BY <1>1
    <3>2. QED BY <3>1
  <2>2. QED BY <2>1, TableCases DEF HasColumns
<1>4. QED BY <1>2, <1>3, BeanIsFound

\* What checkTables has found to be in order.
LEMMA TablesAgree ==
    ASSUME IsList(schema.tables), TableErrors(schema.tables) = {}
    PROVE  \A i, j \in DOMAIN schema.tables : i # j =>
               /\ schema.tables[i].name # schema.tables[j].name
               /\ PascalCase(schema.tables[i].bean) # PascalCase(schema.tables[j].bean)
<1> DEFINE ts == schema.tables
<1>1. \A i \in DOMAIN ts : Passes(ts, i) /\ ~RepeatsType(ts, i)
  BY DEF TableErrors
<1>2. ASSUME NEW i \in DOMAIN ts, NEW j \in DOMAIN ts, j < i
      PROVE  ts[i].name # ts[j].name /\ PascalCase(ts[i].bean) # PascalCase(ts[j].bean)
  <2>1. j \in 1 .. i - 1
    BY <1>2 DEF IsList
  <2>2. QED BY <1>1, <2>1 DEF Passes, RepeatsName, RepeatsType
<1>3. \A i, j \in DOMAIN ts : i # j => j < i \/ i < j
  BY DEF IsList
<1>4. QED BY <1>2, <1>3

LEMMA NextWhole == Inv /\ Inv' /\ Whole /\ [Next]_vars => Whole'
<1> SUFFICES ASSUME Inv, Inv', Whole, [Next]_vars PROVE Whole'
  OBVIOUS
<1>1. CASE LoadSchema
  <2>1. pc' \in {"tables", "failed"} /\ files' = files /\ pc = "parse" /\ (pc' = "tables" => errs' = {})
    BY <1>1 DEF LoadSchema
  <2>2. QED BY <2>1 DEF Whole
<1>2. CASE CheckTables
  <2>1. /\ pc = "tables" /\ pc' = "generate" /\ errs' = TableErrors(schema.tables)
        /\ UNCHANGED <<root, schema, files, next, written>>
    BY <1>2 DEF CheckTables
  <2>2. next = 1 /\ errs = {}
    BY <2>1 DEF Inv, Whole
  <2>3. files' = {} /\ FilesBefore(next)' = {}
    <3>1. files = {}
      BY <2>1 DEF Whole
    <3>2. 1 .. next' - 1 = {}
      BY <2>1, <2>2
    <3>3. QED BY <2>1, <3>1, <3>2 DEF FilesBefore
  <2>4. QED BY <2>1, <2>3 DEF Whole
<1>3. CASE GenerateNext
  <2> DEFINE t == schema.tables[next]
             g == GenerateTable(schema, t)
  <2>1. /\ pc = "generate" /\ next <= Len(schema.tables) /\ next' = next + 1
        /\ errs' = errs \cup g.errs
        /\ g.errs = {} => files' = {f \in files : f.table # t.name} \cup {g.file}
        /\ UNCHANGED <<root, pc, schema, written>>
    BY <1>3 DEF GenerateNext
  <2>2. IsList(schema.tables) /\ next \in 1 .. Len(schema.tables)
    BY <2>1, TablesAreFinite DEF Inv, TypeOK, IsList
  <2>3. ASSUME errs' = {} PROVE files' = FilesBefore(next)'
    <3>1. /\ files = FilesBefore(next) /\ TableErrors(schema.tables) = {}
          /\ files' = {f \in files : f.table # t.name} \cup {g.file}
      BY <2>1, <2>3 DEF Whole
    <3>2. \A i \in 1 .. next - 1 :
              GenerateTable(schema, schema.tables[i]).file.table # t.name
      <4>1. \A i \in 1 .. next - 1 : /\ i \in DOMAIN schema.tables /\ next \in DOMAIN schema.tables
                                    /\ i # next
        BY <2>2 DEF IsList
      <4>2. QED BY <2>2, <3>1, <4>1, TablesAgree, FileOfTable
    <3>3. files' = files \cup {g.file}
      BY <3>1, <3>2 DEF FilesBefore
    <3>4. 1 .. (next + 1) - 1 = (1 .. next - 1) \cup {next}
      BY <2>2 DEF IsList
    <3>5. FilesBefore(next)' = {GenerateTable(schema, schema.tables[i]).file : i \in 1 .. (next + 1) - 1}
      BY <2>1 DEF FilesBefore
    <3>6. QED BY <3>1, <3>3, <3>4, <3>5 DEF FilesBefore
  <2>4. QED BY <2>1, <2>3 DEF Whole
<1>4. CASE CheckDeclarations
  <2>1. /\ pc = "generate" /\ next > Len(schema.tables)
        /\ errs \subseteq errs' /\ (errs' = {} => DeclarationErrors(files) = {})
        /\ pc' = IF errs' = {} THEN "write" ELSE "failed"
        /\ UNCHANGED <<root, schema, files, next, written>>
    BY <1>4 DEF CheckDeclarations
  <2>2. FilesBefore(next)' = FilesBefore(next) /\ TableErrors(schema.tables)' = TableErrors(schema.tables)
    BY <2>1 DEF FilesBefore
  <2>3. QED BY <2>1, <2>2 DEF Whole
<1>5. CASE Write
  <2>1. pc = "write" /\ pc' = "done" /\ written' = files /\ UNCHANGED <<root, schema, errs, files, next>>
    BY <1>5 DEF Write
  <2>2. FilesBefore(next)' = FilesBefore(next) /\ TableErrors(schema.tables)' = TableErrors(schema.tables)
        /\ DeclarationErrors(files)' = DeclarationErrors(files)
    BY <2>1 DEF FilesBefore
  <2>3. QED BY <2>1, <2>2 DEF Whole
<1>6. CASE UNCHANGED vars
  BY <1>6 DEF vars, Whole, FilesBefore
<1>7. QED BY <1>1, <1>2, <1>3, <1>4, <1>5, <1>6 DEF Next

\* What is written are the files of all tables, each generated from its own
\* table without errors (generateAll).
THEOREM WholeInvariance == Spec => [](Inv /\ Whole)
<1>1. Init => Inv /\ Whole
  BY InitInv DEF Init, Whole
<1>2. (Inv /\ Whole) /\ [Next]_vars => (Inv /\ Whole)'
  BY NextInv, NextWhole
<1>3. QED BY <1>1, <1>2, PTL DEF Spec

\* A function that numbers the elements of a set up to n.
Numbers(f, n, S) ==
    /\ n \in Nat /\ f \in [1 .. n -> S]
    /\ \A i, j \in 1 .. n : f[i] = f[j] => i = j
    /\ \A x \in S : \E i \in 1 .. n : f[i] = x

LEMMA Counted == ASSUME NEW f, NEW n, NEW S, Numbers(f, n, S) PROVE Cardinality(S) = n
<1>1. f \in Bijection(1 .. n, S)
  BY DEF Numbers, Bijection, Injection, Surjection, IsInjective
<1>2. ExistsBijection(1 .. n, S) /\ n \in Nat
  BY <1>1 DEF ExistsBijection, Numbers
<1>3. QED BY <1>2, FS_CountingElements

\* No name is declared twice when no file collides with another (checkDeclarations).
LEMMA NoCollision ==
    ASSUME NEW fs, DeclarationErrors(fs) = {}
    PROVE  DeclaredOnce(fs)
<1>1. \A f \in fs : ~Collides(fs, f)
  BY DEF DeclarationErrors
<1>2. ASSUME NEW f \in fs, NEW g \in fs, NEW i \in DOMAIN Declarations(f), NEW j \in DOMAIN Declarations(g),
             Declarations(f)[i] = Declarations(g)[j]
      PROVE  f = g /\ i = j
  <2>1. f = g
    BY <1>1, <1>2 DEF Collides, Range
  <2>2. i = j
    BY <1>1, <1>2, <2>1 DEF Collides, IsInjective
  <2>3. QED BY <2>1, <2>2
<1>3. \A f \in fs : \A i \in DOMAIN Declarations(f) : Declarations(f)[i] # DBName
  BY <1>1 DEF Collides, Range
<1> DEFINE Places == UNION {{f} \X DOMAIN Declarations(f) : f \in fs}
<1>4. \A p \in Places : \E f \in fs : \E i \in DOMAIN Declarations(f) : p = <<f, i>>
  OBVIOUS
<1>5. \A p \in Places : AllDeclarations(fs)[p] = Declarations(p[1])[p[2]]
  BY DEF AllDeclarations
<1>6. DOMAIN AllDeclarations(fs) = Places
  BY DEF AllDeclarations
<1> HIDE DEF Places
<1>7. IsInjective(AllDeclarations(fs))
  <2>1. SUFFICES ASSUME NEW p \in Places, NEW q \in Places,
                        AllDeclarations(fs)[p] = AllDeclarations(fs)[q]
                 PROVE  p = q
    BY <1>6 DEF IsInjective
  <2>2. PICK f \in fs : \E k \in DOMAIN Declarations(f) : p = <<f, k>>
    BY <1>4
  <2>3. PICK g \in fs : \E k \in DOMAIN Declarations(g) : q = <<g, k>>
    BY <1>4
  <2>4. PICK i \in DOMAIN Declarations(f) : p = <<f, i>>
    BY <2>2
  <2>5. PICK j \in DOMAIN Declarations(g) : q = <<g, j>>
    BY <2>3
  <2>6. Declarations(f)[i] = Declarations(g)[j]
    BY <1>5, <2>1, <2>4, <2>5
  <2>7. QED BY <1>2, <2>4, <2>5, <2>6
<1>8. DBName \notin Range(AllDeclarations(fs))
  <2>1. SUFFICES ASSUME NEW p \in Places, AllDeclarations(fs)[p] = DBName PROVE FALSE
    BY <1>6 DEF Range
  <2>2. PICK f \in fs : \E k \in DOMAIN Declarations(f) : p = <<f, k>>
    BY <1>4
  <2>3. PICK i \in DOMAIN Declarations(f) : p = <<f, i>>
    BY <2>2
  <2>4. QED BY <1>3, <1>5, <2>1, <2>3
<1>9. QED BY <1>7, <1>8 DEF DeclaredOnce

\* The output is whole or there is none: a file for each table, a type of its
\* own for each, and no name declared twice in the package (writeFiles after
\* generateAll without errors).
THEOREM WholeOutput == Spec => []OutputIsWhole
<1>1. Inv /\ Whole => OutputIsWhole
  <2> SUFFICES ASSUME Inv, Whole, written # {} PROVE OutputIsWhole
    BY DEF OutputIsWhole
  <2> DEFINE n == Len(schema.tables)
             file == [i \in 1 .. n |-> GenerateTable(schema, schema.tables[i]).file]
             type == [i \in 1 .. n |-> file[i].type]
  <2>1. pc = "done" /\ errs = {} /\ WasRead /\ written = files /\ files = FilesBefore(next)
    BY DEF Inv, TypeOK, Whole
  <2>2. IsList(schema.tables) /\ IsList(schema.beans)
    BY <2>1, DocumentsAssumption DEF WasRead
  <2>3. next = n + 1 /\ n \in Nat /\ DOMAIN schema.tables = 1 .. n
    BY <2>1, <2>2 DEF Inv, TypeOK, Whole, IsList
  <2>4. \A i \in 1 .. n : GenerateTable(schema, schema.tables[i]).errs = {}
    <3>1. \A i \in 1 .. n : i \in DOMAIN schema.tables /\ i < next
      BY <2>3
    <3>2. Reported
      BY <2>1 DEF Inv
    <3>3. QED BY <2>1, <3>1, <3>2 DEF Reported
  <2>5. TableErrors(schema.tables) = {} /\ DeclarationErrors(files) = {}
    BY <2>1 DEF Whole
  <2>6. \A i, j \in 1 .. n : i # j =>
            /\ schema.tables[i].name # schema.tables[j].name
            /\ PascalCase(schema.tables[i].bean) # PascalCase(schema.tables[j].bean)
    BY <2>2, <2>3, <2>5, TablesAgree
  <2>7. \A i \in 1 .. n : /\ file[i].table = schema.tables[i].name
                          /\ type[i] = PascalCase(schema.tables[i].bean)
    BY <2>2, <2>4, FileOfTable, TypeOfTable
  <2>8. written = {file[i] : i \in 1 .. n}
    <3>1. 1 .. next - 1 = 1 .. n
      BY <2>3
    <3>2. QED BY <2>1, <3>1 DEF FilesBefore
  <2>9. {f.type : f \in written} = {type[i] : i \in 1 .. n}
    <3> HIDE DEF file
    <3>1. QED BY <2>8
  <2>10. /\ \A i, j \in 1 .. n : file[i] = file[j] => i = j
         /\ \A i, j \in 1 .. n : type[i] = type[j] => i = j
    <3> HIDE DEF file, type
    <3>1. QED BY <2>6, <2>7
  <2>11. Cardinality(written) = n /\ Cardinality({f.type : f \in written}) = n
    <3> DEFINE S == {f.type : f \in written}
    <3>1. file = [i \in 1 .. n |-> file[i]] /\ type = [i \in 1 .. n |-> type[i]]
      OBVIOUS
    <3>2. n \in Nat
      BY <2>3
    <3> HIDE DEF file, type, n
    <3>3. file \in [1 .. n -> written] /\ type \in [1 .. n -> S]
      BY <2>8, <2>9, <3>1
    <3>4. /\ \A x \in written : \E i \in 1 .. n : file[i] = x
          /\ \A x \in S : \E i \in 1 .. n : type[i] = x
      BY <2>8, <2>9
    <3> HIDE DEF S
    <3>5. Numbers(file, n, written) /\ Numbers(type, n, S)
      BY <2>10, <3>2, <3>3, <3>4 DEF Numbers
    <3>6. Cardinality(written) = n /\ Cardinality(S) = n
      BY <3>5, Counted
    <3>7. QED BY <3>6 DEF S
  <2>12. QED BY <2>1, <2>5, <2>11, NoCollision DEF OutputIsWhole
<1>2. QED BY <1>1, WholeInvariance, PTL

-----------------------------------------------------------------------------
(* The queries of a table *)

\* The query by the primary key, which every table has.
ByKey(t, type) == NewQuery(t, type, <<t.primaryKey.variable>>, <<>>, TRUE, <<>>)
OnlyByKey(t, type) ==
    [errs |-> {}, keys |-> {Key(<<t.primaryKey.variable>>, <<>>)}, queries |-> {ByKey(t, type)}]

\* What there is after each of the first n indexes.
Added(g, t, b, fields, type, n) ==
    g = [i \in 0 .. n |-> IF i = 0 THEN OnlyByKey(t, type)
                          ELSE AddIndex(t, b, fields, type, g[i - 1], t.indexes[i])]

LEMMA AddedAt ==
    ASSUME NEW g, NEW t, NEW b, NEW fields, NEW type, NEW n \in Nat, Added(g, t, b, fields, type, n)
    PROVE  /\ g[0] = OnlyByKey(t, type)
           /\ \A i \in 1 .. n : g[i] = AddIndex(t, b, fields, type, g[i - 1], t.indexes[i])
<1> DEFINE after(i) == IF i = 0 THEN OnlyByKey(t, type)
                       ELSE AddIndex(t, b, fields, type, g[i - 1], t.indexes[i])
           h == [i \in 0 .. n |-> after(i)]
<1>1. g = h
  BY Zenon DEF Added
<1>2. \A i \in 0 .. n : h[i] = after(i)
  <2> HIDE DEF after
  <2>1. QED OBVIOUS
<1>3. after(0) = OnlyByKey(t, type) /\ 0 \in 0 .. n
  OBVIOUS
<1>4. \A i \in 1 .. n : i \in 0 .. n /\ after(i) = AddIndex(t, b, fields, type, g[i - 1], t.indexes[i])
  <2>1. \A i \in 1 .. n : i \in 0 .. n /\ i # 0
    OBVIOUS
  <2>2. QED BY <2>1, Zenon
<1> HIDE DEF h, after
<1>5. g[0] = OnlyByKey(t, type)
  BY <1>1, <1>2, <1>3
<1>6. \A i \in 1 .. n : g[i] = AddIndex(t, b, fields, type, g[i - 1], t.indexes[i])
  BY <1>1, <1>2, <1>4, Zenon
<1>7. QED BY <1>5, <1>6

LEMMA AddedExists ==
    ASSUME NEW t, NEW b, NEW fields, NEW type, NEW n \in Nat
    PROVE  \E g : Added(g, t, b, fields, type, n)
<1> DEFINE bad == {k \in Nat : ~ \E g : Added(g, t, b, fields, type, k)}
           after(f, i) == IF i = 0 THEN OnlyByKey(t, type)
                          ELSE AddIndex(t, b, fields, type, f[i - 1], t.indexes[i])
<1> SUFFICES ASSUME bad # {} PROVE FALSE
  OBVIOUS
<1>1. PICK k \in bad : \A m \in bad : k <= m
  <2>1. bad \subseteq Nat
    OBVIOUS
  <2> HIDE DEF bad
  <2>2. QED BY <2>1, LeastNumber
<1>2. k \in Nat /\ ~ \E g : Added(g, t, b, fields, type, k)
  BY <1>1
<1>3. ASSUME NEW f, NEW m \in Nat, f = [i \in 0 .. m |-> after(f, i)]
      PROVE  Added(f, t, b, fields, type, m)
  BY <1>3, Zenon DEF Added
<1>4. CASE k = 0
  <2> DEFINE f == [i \in 0 .. 0 |-> OnlyByKey(t, type)]
  <2>1. \A i \in 0 .. 0 : after(f, i) = OnlyByKey(t, type)
    OBVIOUS
  <2>2. [i \in 0 .. 0 |-> after(f, i)] = f
    <3> HIDE DEF after
    <3>1. QED BY <2>1
  <2> HIDE DEF f, after
  <2>3. Added(f, t, b, fields, type, 0)
    BY <1>3, <2>2
  <2>4. QED BY <1>2, <1>4, <2>3
<1>5. CASE k # 0
  <2>1. k - 1 \in Nat /\ k - 1 \notin bad
    BY <1>1, <1>2, <1>5
  <2>2. PICK g : Added(g, t, b, fields, type, k - 1)
    BY <2>1
  <2>3. \A i \in 0 .. k - 1 : g[i] = after(g, i)
    <3>1. \A i \in 0 .. k - 1 : i = 0 \/ (i # 0 /\ i \in 1 .. k - 1)
      BY <1>2
    <3>2. /\ g[0] = OnlyByKey(t, type)
          /\ \A i \in 1 .. k - 1 : g[i] = AddIndex(t, b, fields, type, g[i - 1], t.indexes[i])
      BY <2>1, <2>2, AddedAt
    <3>3. QED BY <3>1, <3>2, Zenon
  <2> DEFINE f == [i \in 0 .. k |-> after(g, i)]
  <2>4. \A i \in 0 .. k - 1 : f[i] = g[i]
    <3>1. \A i \in 0 .. k - 1 : i \in 0 .. k
      BY <1>2
    <3> HIDE DEF after
    <3>2. QED BY <2>3, <3>1
  <2>5. ASSUME NEW i \in 0 .. k PROVE after(f, i) = after(g, i)
    <3>1. CASE i = 0
      BY <3>1
    <3>2. CASE i # 0
      <4>1. i - 1 \in 0 .. k - 1
        BY <1>2, <3>2
      <4>2. f[i - 1] = g[i - 1]
        BY <2>4, <4>1
      <4> HIDE DEF f
      <4>3. QED BY <4>2
    <3>3. QED BY <3>1, <3>2
  <2>6. f = [i \in 0 .. k |-> after(f, i)]
    <3> DEFINE e == [i \in 0 .. k |-> after(f, i)]
    <3> HIDE DEF after
    <3>1. \A i \in 0 .. k : e[i] = f[i]
      BY <2>5
    <3>2. f = [i \in 0 .. k |-> f[i]] /\ e = [i \in 0 .. k |-> e[i]]
      OBVIOUS
    <3> HIDE DEF f, e
    <3>3. f = e
      BY <3>1, <3>2, Zenon
    <3>4. QED BY <3>3, Zenon DEF e
  <2> HIDE DEF f, after
  <2>7. Added(f, t, b, fields, type, k)
    BY <1>2, <1>3, <2>6
  <2>8. QED BY <1>2, <2>7
<1>6. QED BY <1>4, <1>5

\* What Queries returns is what there is after the last index.
LEMMA QueriesAre ==
    ASSUME NEW t, NEW b, NEW fields, NEW type, IsList(t.indexes)
    PROVE  \E g : /\ g[0] = OnlyByKey(t, type)
                  /\ \A i \in 1 .. Len(t.indexes) :
                        g[i] = AddIndex(t, b, fields, type, g[i - 1], t.indexes[i])
                  /\ Queries(t, b, fields, type) = g[Len(t.indexes)]
<1> DEFINE n == Len(t.indexes)
           after[i \in 0 .. n] == IF i = 0 THEN OnlyByKey(t, type)
                                  ELSE AddIndex(t, b, fields, type, after[i - 1], t.indexes[i])
<1>1. n \in Nat
  BY DEF IsList
<1>2. \E g : g = [i \in 0 .. n |-> IF i = 0 THEN OnlyByKey(t, type)
                                  ELSE AddIndex(t, b, fields, type, g[i - 1], t.indexes[i])]
  <2> HIDE DEF n
  <2>1. PICK g : Added(g, t, b, fields, type, n)
    BY <1>1, AddedExists
  <2>2. QED BY <2>1, Zenon DEF Added
<1>3. after = [i \in 0 .. n |-> IF i = 0 THEN OnlyByKey(t, type)
                                ELSE AddIndex(t, b, fields, type, after[i - 1], t.indexes[i])]
  BY <1>2, Zenon
<1>4. Added(after, t, b, fields, type, n)
  BY <1>3, Zenon DEF Added
<1>5. Queries(t, b, fields, type) = after[n]
  BY Zenon DEF Queries, OnlyByKey, ByKey
<1> HIDE DEF after
<1>6. /\ after[0] = OnlyByKey(t, type)
      /\ \A i \in 1 .. n : after[i] = AddIndex(t, b, fields, type, after[i - 1], t.indexes[i])
  BY <1>1, <1>4, AddedAt
<1>7. QED BY <1>5, <1>6

\* The query of an index, and what other indexes may not have in common with it.
Query(t, type, ix) ==
    NewQuery(t, type, SplitTrimSpace(ix.variable), Conditions(ix), ix.unique, ix.method)
KeyOf(ix) == Key(SplitTrimSpace(ix.variable), Conditions(ix))
KeysOf(queries) == {Key(p.parameters, p.conditions) : p \in queries}

\* The query of an index has columns of the table, none twice, and a name.
Clashes(t, fields, type, ix, queries) ==
    LET columns == SplitTrimSpace(ix.variable)
    IN  \/ \E c \in Range(columns) : Named(fields, c) = {}
        \/ ~IsInjective(columns)
        \/ TakesName(Query(t, type, ix), queries)

\* An index that breaks no rule, after the queries of those before it.
Fits(t, b, fields, type, ix, queries) ==
    /\ ~BadIndex(t, b, ix)
    /\ KeyOf(ix) \notin KeysOf(queries)
    /\ ~Clashes(t, fields, type, ix, queries)

\* The queries by the key and of the indexes before the i-th.
QueriesBefore(t, type, i) ==
    {ByKey(t, type)} \cup {Query(t, type, t.indexes[j]) : j \in 1 .. i - 1}

\* What AddIndex makes of the errors, keys and queries so far.
Outcome(t, b, fields, type, ix, E, K, Q) ==
    IF BadIndex(t, b, ix) \/ KeyOf(ix) \in K
    THEN [errs |-> E \cup {Error(ix.line, "index")}, keys |-> K, queries |-> Q]
    ELSE IF Clashes(t, fields, type, ix, Q)
    THEN [errs |-> E \cup {Error(ix.line, "index")}, keys |-> K \cup {KeyOf(ix)}, queries |-> Q]
    ELSE [errs |-> E, keys |-> K \cup {KeyOf(ix)}, queries |-> Q \cup {Query(t, type, ix)}]

LEMMA AddIndexCases ==
    ASSUME NEW t, NEW b, NEW fields, NEW type, NEW ix, NEW E, NEW K, NEW Q
    PROVE  AddIndex(t, b, fields, type, [errs |-> E, keys |-> K, queries |-> Q], ix) =
               Outcome(t, b, fields, type, ix, E, K, Q)
<1> DEFINE acc == [errs |-> E, keys |-> K, queries |-> Q]
           columns == SplitTrimSpace(ix.variable)
           k == KeyOf(ix)
           q == Query(t, type, ix)
           e == Error(ix.line, "index")
           refused == [acc EXCEPT !.errs = @ \cup {e}]
           seen == [refused EXCEPT !.keys = @ \cup {k}]
           added == [seen EXCEPT !.errs = acc.errs, !.queries = @ \cup {q}]
<1>1. AddIndex(t, b, fields, type, acc, ix) =
          IF BadIndex(t, b, ix) \/ k \in acc.keys THEN refused
          ELSE IF \/ \E c \in Range(columns) : Named(fields, c) = {}
                  \/ ~IsInjective(columns)
                  \/ TakesName(q, acc.queries)
          THEN seen
          ELSE added
  BY Zenon DEF AddIndex, KeyOf, Query
<1>2. acc.errs = E /\ acc.keys = K /\ acc.queries = Q
  OBVIOUS
<1> HIDE DEF k, q, e
<1>3. refused = [errs |-> E \cup {e}, keys |-> K, queries |-> Q]
  OBVIOUS
<1>4. seen = [errs |-> E \cup {e}, keys |-> K \cup {k}, queries |-> Q]
  <2> HIDE DEF refused
  <2>1. QED BY <1>3
<1>5. added = [errs |-> E, keys |-> K \cup {k}, queries |-> Q \cup {q}]
  <2> DEFINE emptied == [seen EXCEPT !.errs = acc.errs]
             more == [emptied EXCEPT !.queries = @ \cup {q}]
  <2>1. emptied = [errs |-> E, keys |-> K \cup {k}, queries |-> Q]
    <3> HIDE DEF seen, acc
    <3>1. QED BY <1>2, <1>4
  <2>2. more = [errs |-> E, keys |-> K \cup {k}, queries |-> Q \cup {q}]
    <3> HIDE DEF emptied
    <3>1. QED BY <2>1
  <2>3. added = more
    <3> HIDE DEF seen, acc
    <3>1. QED OBVIOUS
  <2>4. QED BY <2>2, <2>3, Zenon
<1> HIDE DEF acc, refused, seen, added
<1>6. AddIndex(t, b, fields, type, acc, ix) =
          IF BadIndex(t, b, ix) \/ k \in K THEN refused
          ELSE IF Clashes(t, fields, type, ix, Q) THEN seen ELSE added
  BY <1>1, <1>2, Zenon DEF Clashes, q
<1>7. QED BY <1>3, <1>4, <1>5, <1>6, Zenon DEF acc, k, q, e, Outcome

\* The queries before the next index, and their keys.
LEMMA QueriesBeforeNext ==
    ASSUME NEW t, NEW type, NEW i \in Nat, i # 0
    PROVE  /\ QueriesBefore(t, type, i + 1) = QueriesBefore(t, type, i) \cup {Query(t, type, t.indexes[i])}
           /\ KeysOf(QueriesBefore(t, type, i + 1)) =
                  KeysOf(QueriesBefore(t, type, i)) \cup {KeyOf(t.indexes[i])}
<1>1. 1 .. (i + 1) - 1 = (1 .. i - 1) \cup {i}
  OBVIOUS
<1>2. QueriesBefore(t, type, i + 1) = QueriesBefore(t, type, i) \cup {Query(t, type, t.indexes[i])}
  BY <1>1 DEF QueriesBefore
<1> DEFINE q == Query(t, type, t.indexes[i])
<1>3. Key(q.parameters, q.conditions) = KeyOf(t.indexes[i])
  BY DEF Query, NewQuery, KeyOf
<1> HIDE DEF q
<1>4. QED BY <1>2, <1>3 DEF KeysOf, q

\* The table breaks no rule up to the i-th index if and only if there is no
\* error so far; then the queries and the keys are those of the indexes.
LEMMA FoldedQueries ==
    ASSUME NEW t, NEW b, NEW fields, NEW type, IsList(t.indexes)
    PROVE  /\ Queries(t, b, fields, type).errs = {} <=>
                  \A i \in 1 .. Len(t.indexes) :
                      Fits(t, b, fields, type, t.indexes[i], QueriesBefore(t, type, i))
           /\ Queries(t, b, fields, type).errs = {} =>
                  Queries(t, b, fields, type).queries = QueriesBefore(t, type, Len(t.indexes) + 1)
<1> DEFINE n == Len(t.indexes)
           ok(i) == Fits(t, b, fields, type, t.indexes[i], QueriesBefore(t, type, i))
           before(i) == QueriesBefore(t, type, i)
<1>1. PICK g : /\ g[0] = OnlyByKey(t, type)
               /\ \A i \in 1 .. n : g[i] = AddIndex(t, b, fields, type, g[i - 1], t.indexes[i])
               /\ Queries(t, b, fields, type) = g[n]
  BY QueriesAre
<1> DEFINE Is(i, E, K, Q) ==
              /\ g[i] = [errs |-> E, keys |-> K, queries |-> Q]
              /\ E = {} <=> \A j \in 1 .. i : ok(j)
              /\ E = {} => Q = before(i + 1) /\ K = KeysOf(before(i + 1))
           Holds(i) == \E E, K, Q : Is(i, E, K, Q)
<1>2. n \in Nat
  BY DEF IsList
<1>3. Holds(0)
  <2> DEFINE k == Key(<<t.primaryKey.variable>>, <<>>)
             p == ByKey(t, type)
  <2>1. before(0 + 1) = {p}
    BY DEF QueriesBefore
  <2>2. Key(p.parameters, p.conditions) = k
    BY DEF ByKey, NewQuery
  <2>3. g[0] = [errs |-> {}, keys |-> {k}, queries |-> {p}]
    BY <1>1, Zenon DEF OnlyByKey
  <2>4. \A j \in 1 .. 0 : ok(j)
    OBVIOUS
  <2> HIDE DEF k, p, before, ok
  <2>5. KeysOf(before(0 + 1)) = {k}
    BY <2>1, <2>2 DEF KeysOf
  <2>6. Is(0, {}, {k}, {p})
    BY <2>1, <2>3, <2>4, <2>5
  <2>7. QED BY <2>6, Zenon
<1>4. ASSUME NEW i \in 1 .. n, Holds(i - 1) PROVE Holds(i)
  <2>1. PICK E, K, Q : Is(i - 1, E, K, Q)
    BY <1>4, Zenon
  <2> DEFINE ix == t.indexes[i]
             e == Error(ix.line, "index")
             k == KeyOf(ix)
             q == Query(t, type, ix)
             bad == BadIndex(t, b, ix)
             clash == Clashes(t, fields, type, ix, Q)
  <2>2. g[i] = IF bad \/ k \in K THEN [errs |-> E \cup {e}, keys |-> K, queries |-> Q]
               ELSE IF clash THEN [errs |-> E \cup {e}, keys |-> K \cup {k}, queries |-> Q]
               ELSE [errs |-> E, keys |-> K \cup {k}, queries |-> Q \cup {q}]
    <3> DEFINE acc == [errs |-> E, keys |-> K, queries |-> Q]
    <3>1. g[i] = AddIndex(t, b, fields, type, g[i - 1], ix)
      BY <1>1
    <3>2. g[i - 1] = acc
      BY <2>1, Zenon
    <3> HIDE DEF acc, ix
    <3>3. g[i] = AddIndex(t, b, fields, type, acc, ix)
      BY <3>1, <3>2
    <3>4. AddIndex(t, b, fields, type, acc, ix) = Outcome(t, b, fields, type, ix, E, K, Q)
      BY AddIndexCases, Zenon DEF acc
    <3>5. g[i] = Outcome(t, b, fields, type, ix, E, K, Q)
      BY <3>3, <3>4
    <3>6. QED BY <3>5, Zenon DEF Outcome
  <2>3. 1 .. i = (1 .. i - 1) \cup {i} /\ i \in Nat /\ i # 0 /\ (i - 1) + 1 = i
    BY <1>2
  <2>4. before(i + 1) = before(i) \cup {q} /\ KeysOf(before(i + 1)) = KeysOf(before(i)) \cup {k}
    BY <2>3, QueriesBeforeNext
  <2>5. E = {} => (ok(i) <=> ~bad /\ k \notin K /\ ~clash)
    <3>1. E = {} => Q = before(i) /\ K = KeysOf(before(i))
      BY <2>1, <2>3
    <3>2. QED BY <3>1, Zenon DEF Fits
  <2>6. (\A j \in 1 .. i : ok(j)) <=> ok(i) /\ \A j \in 1 .. i - 1 : ok(j)
    <3> HIDE DEF ok
    <3>1. QED BY <2>3
  <2>7. /\ E = {} <=> \A j \in 1 .. i - 1 : ok(j)
        /\ E = {} => Q = before(i) /\ K = KeysOf(before(i))
    BY <2>1, <2>3
  <2>8. CASE ~bad /\ k \notin K /\ ~clash
    <3>1. g[i] = [errs |-> E, keys |-> K \cup {k}, queries |-> Q \cup {q}]
      BY <2>2, <2>8, Zenon
    <3> HIDE DEF ok, before, k, q, e, bad, clash, ix
    <3>2. Is(i, E, K \cup {k}, Q \cup {q})
      BY <2>4, <2>5, <2>6, <2>7, <2>8, <3>1
    <3>3. QED BY <3>2, Zenon
  <2>9. CASE bad \/ k \in K \/ clash
    <3>1. PICK M : g[i] = [errs |-> E \cup {e}, keys |-> M, queries |-> Q]
      BY <2>2, <2>9, Zenon
    <3> HIDE DEF ok, before, k, q, e, bad, clash, ix
    <3>2. E \cup {e} # {} /\ ~ \A j \in 1 .. i : ok(j)
      BY <2>5, <2>6, <2>7, <2>9
    <3>3. Is(i, E \cup {e}, M, Q)
      BY <3>1, <3>2
    <3>4. QED BY <3>3, Zenon
  <2>10. QED BY <2>8, <2>9
<1> HIDE DEF Holds
<1>5. Holds(n)
  <2> DEFINE wrong == {i \in 0 .. n : ~Holds(i)}
  <2> SUFFICES ASSUME wrong # {} PROVE FALSE
    BY <1>2
  <2>1. PICK i \in wrong : \A j \in wrong : i <= j
    <3>1. wrong \subseteq Nat
      OBVIOUS
    <3> HIDE DEF wrong
    <3>2. QED BY <3>1, LeastNumber
  <2>2. i \in 0 .. n /\ ~Holds(i)
    BY <2>1
  <2>3. i # 0
    BY <1>3, <2>2
  <2>4. i \in 1 .. n /\ i - 1 \in 0 .. n /\ i - 1 \notin wrong
    BY <1>2, <2>1, <2>2, <2>3
  <2>5. Holds(i - 1)
    BY <2>4
  <2>6. QED BY <1>4, <2>2, <2>4, <2>5
<1>6. PICK E, K, Q : Is(n, E, K, Q)
  BY <1>5, Zenon DEF Holds
<1>7. Queries(t, b, fields, type).errs = E /\ Queries(t, b, fields, type).queries = Q
  BY <1>1, <1>6
<1>8. QED BY <1>6, <1>7

-----------------------------------------------------------------------------
(* A table without errors *)

NamesOf(fields) == {f.name : f \in fields}

\* Every name of a variable is one of a field: the first one with that name.
LEMMA FieldNames ==
    ASSUME NEW vs, IsList(vs)
    PROVE  /\ FieldsOf(vs) \subseteq Range(vs)
           /\ NamesOf(FieldsOf(vs)) = NamesOf(Range(vs))
<1>1. FieldsOf(vs) \subseteq Range(vs)
  BY DEF FieldsOf, Range
<1>2. ASSUME NEW i \in DOMAIN vs PROVE \E f \in FieldsOf(vs) : f.name = vs[i].name
  <2> DEFINE S == {j \in DOMAIN vs : vs[j].name = vs[i].name}
  <2>1. S \subseteq Nat /\ i \in S
    BY DEF IsList
  <2> HIDE DEF S
  <2>2. PICK k \in S : \A j \in S : k <= j
    BY <2>1, LeastNumber
  <2>3. k \in DOMAIN vs /\ vs[k].name = vs[i].name /\ k \in Nat
    BY <2>1, <2>2 DEF S
  <2>4. \A j \in 1 .. k - 1 : j \in DOMAIN vs /\ j \notin S
    <3>1. \A j \in 1 .. k - 1 : j \in DOMAIN vs /\ ~ (k <= j)
      BY <2>3 DEF IsList
    <3>2. QED BY <2>2, <3>1
  <2>5. ~RepeatsVariable(vs, k)
    BY <2>3, <2>4 DEF RepeatsVariable, S
  <2>6. QED BY <2>3, <2>5 DEF FieldsOf
<1>3. QED BY <1>1, <1>2 DEF Range, NamesOf

\* When no variable repeats another, all of them are fields.
LEMMA NothingRepeats ==
    ASSUME NEW vs, IsList(vs), \A i \in DOMAIN vs : ~RepeatsVariable(vs, i)
    PROVE  /\ FieldsOf(vs) = Range(vs)
           /\ \A i, j \in DOMAIN vs : vs[i].name = vs[j].name => i = j
<1>1. FieldsOf(vs) = Range(vs)
  BY DEF FieldsOf, Range
<1>2. ASSUME NEW i \in DOMAIN vs, NEW j \in DOMAIN vs, j < i PROVE vs[i].name # vs[j].name
  <2>1. j \in 1 .. i - 1
    BY <1>2 DEF IsList
  <2>2. QED BY <2>1 DEF RepeatsVariable
<1>3. \A i, j \in DOMAIN vs : i # j => j < i \/ i < j
  BY DEF IsList
<1>4. QED BY <1>1, <1>2, <1>3

\* The columns break no rule.
ColumnsAreSound(t, b, fields) ==
    LET key == t.primaryKey.variable
    IN  /\ \E f \in Named(fields, key) : f.type = "int64"
        /\ t.primaryKey.autoIncrement
        /\ Cardinality(UpdateFields(fields, key)) \in 1 .. DirtyBits
        /\ t.lock # <<>> => \E f \in Named(fields, t.lock) : f.type = "int64"

\* What a table's columns and queries have to be like for its file.
LEMMA SoundColumns ==
    ASSUME NEW t, NEW b
    PROVE  LET fields == FieldsOf(b.variables)
               type == PascalCase(b.name)
               q == Queries(t, b, fields, type)
               g == GenerateColumns(t, b)
           IN  /\ g.errs = {} <=> /\ VariableErrors(b.variables) = {}
                                  /\ ColumnsAreSound(t, b, fields)
                                  /\ q.errs = {}
                                  /\ ~IsKeyword(LowerCamelCase(b.name))
               /\ g.errs = {} => /\ g.file.type = type /\ g.file.key = t.primaryKey.variable
                                 /\ g.file.fields = fields /\ g.file.queries = q.queries
<1> DEFINE type == PascalCase(b.name)
           fields == FieldsOf(b.variables)
           q == Queries(t, b, fields, type)
           bad == VariableErrors(b.variables)
           errors == bad \cup ColumnErrors(t, b, fields) \cup q.errs
           keyErrs == bad \cup {Error(t.primaryKey.line, "key")}
           allErrs == errors \cup When(errors = {} /\ IsKeyword(LowerCamelCase(b.name)), t.line, "gofmt")
           hasKey == Named(fields, t.primaryKey.variable) # {}
           left == Generated(keyErrs, t, type, fields, {})
           right == Generated(allErrs, t, type, fields, q.queries)
           g == GenerateColumns(t, b)
           keyword == IsKeyword(LowerCamelCase(b.name))
<1>1. g = IF hasKey THEN right ELSE left
  BY Zenon DEF GenerateColumns
<1>2. ASSUME NEW e, NEW qs
      PROVE  LET f == Generated(e, t, type, fields, qs)
             IN  /\ f.errs = e /\ f.file.type = type /\ f.file.key = t.primaryKey.variable
                 /\ f.file.fields = fields /\ f.file.queries = qs
  <2> HIDE DEF type, fields
  <2>1. QED BY DEF Generated
<1>3. left.errs = keyErrs /\ keyErrs # {}
  BY <1>2
<1>4. /\ right.errs = allErrs /\ right.file.type = type /\ right.file.key = t.primaryKey.variable
      /\ right.file.fields = fields /\ right.file.queries = q.queries
  BY <1>2
<1>5. ColumnErrors(t, b, fields) = {} <=> ColumnsAreSound(t, b, fields)
  <2> HIDE DEF fields
  <2>1. QED BY DEF ColumnErrors, ColumnsAreSound, When
<1>6. ColumnsAreSound(t, b, fields) => hasKey
  <2> HIDE DEF fields
  <2>1. QED BY DEF ColumnsAreSound
<1>7. allErrs = {} <=> bad = {} /\ ColumnErrors(t, b, fields) = {} /\ q.errs = {} /\ ~keyword
  <2> DEFINE gofmt == {Error(t.line, "gofmt")}
             last == IF errors = {} /\ keyword THEN gofmt ELSE {}
  <2>1. allErrs = errors \cup last
    BY Zenon DEF When
  <2>2. gofmt # {}
    OBVIOUS
  <2> HIDE DEF bad, q, fields, keyword, gofmt, allErrs
  <2>3. QED BY <2>1, <2>2
<1> HIDE DEF type, fields, q, bad, errors, keyErrs, allErrs, hasKey, left, right, g, keyword
<1>8. g.errs = {} <=> bad = {} /\ ColumnsAreSound(t, b, fields) /\ q.errs = {} /\ ~keyword
  BY <1>1, <1>3, <1>4, <1>5, <1>6, <1>7
<1>9. g.errs = {} => g = right
  BY <1>1, <1>3
<1>10. QED BY <1>4, <1>8, <1>9 DEF type, fields, q, bad, g, keyword

\* The variables that a query's WHERE reads, and the dirty bits of variables.
ReadBy(q) == Range(q.parameters) \cup {c.variable : c \in Range(q.conditions)}
BitsOf(type, names) == {Dirty(type, v) : v \in names}
BitsLike(type, fields, name) ==
    {Dirty(type, v.name) : v \in {w \in fields : SnakeCase(w.name) = SnakeCase(name)}}

\* A query that fits reads columns of the table, and the key at most as a
\* parameter; its guards are the bits of what it reads (newQuery).
LEMMA ReadOfIndex ==
    ASSUME NEW t, NEW b, NEW type, NEW ix, NEW queries, IsList(b.variables),
           Fits(t, b, FieldsOf(b.variables), type, ix, queries)
    PROVE  LET q == Query(t, type, ix)
               key == t.primaryKey.variable
           IN  /\ ReadBy(q) \subseteq NamesOf(FieldsOf(b.variables))
               /\ q.guards = BitsOf(type, ReadBy(q) \ {key})
<1> DEFINE q == Query(t, type, ix)
           key == t.primaryKey.variable
           columns == SplitTrimSpace(ix.variable)
           conds == Conditions(ix)
           fields == FieldsOf(b.variables)
           read == {c.variable : c \in Range(conds)}
<1>1. /\ q.parameters = columns /\ q.conditions = conds
      /\ q.guards = BitsOf(type, GuardedColumns(key, columns, conds))
  BY DEF Query, NewQuery, BitsOf
<1>2. Range(columns) \subseteq NamesOf(fields)
  <2>1. \A c \in Range(columns) : Named(fields, c) # {}
    BY DEF Fits, Clashes
  <2> HIDE DEF columns, fields
  <2>2. QED BY <2>1 DEF Named, NamesOf
<1>3. read \subseteq NamesOf(Range(b.variables)) \ {key}
  <2>1. CASE ix.where = <<>>
    <3>1. conds = <<>>
      BY <2>1 DEF Conditions
    <3> HIDE DEF conds
    <3>2. Range(conds) = {}
      BY <3>1 DEF Range
    <3>3. QED BY <3>2
  <2>2. CASE ix.where # <<>>
    <3>1. conds = ParseWhere(ix.where) /\ ~WhereFails(b, key, ix.where)
      BY <2>2 DEF Conditions, Fits, BadIndex
    <3> HIDE DEF conds, key
    <3>2. SUFFICES ASSUME NEW i \in DOMAIN conds
                   PROVE  /\ conds[i].variable # key
                          /\ \E j \in DOMAIN b.variables : b.variables[j].name = conds[i].variable
      BY DEF Range, NamesOf
    <3>3. QED BY <3>1 DEF WhereFails
  <2>3. QED BY <2>1, <2>2
<1>4. NamesOf(fields) = NamesOf(Range(b.variables))
  BY FieldNames
<1>5. ReadBy(q) = Range(columns) \cup read
  BY <1>1 DEF ReadBy
<1>6. GuardedColumns(key, columns, conds) = (Range(columns) \ {key}) \cup read
  BY DEF GuardedColumns
<1> HIDE DEF q, key, columns, conds, fields, read
<1>7. ReadBy(q) \subseteq NamesOf(fields)
  BY <1>2, <1>3, <1>4, <1>5
<1>8. GuardedColumns(key, columns, conds) = ReadBy(q) \ {key}
  BY <1>3, <1>5, <1>6
<1>9. q.guards = BitsOf(type, ReadBy(q) \ {key})
  BY <1>1, <1>8
<1>10. QED BY <1>7, <1>9 DEF q, key, fields

\* The same of all queries of a table without errors.
LEMMA ReadOfQueries ==
    ASSUME NEW t, NEW b, NEW type, IsList(b.variables), IsList(t.indexes),
           Named(FieldsOf(b.variables), t.primaryKey.variable) # {},
           Queries(t, b, FieldsOf(b.variables), type).errs = {},
           NEW q \in Queries(t, b, FieldsOf(b.variables), type).queries
    PROVE  /\ ReadBy(q) \subseteq NamesOf(FieldsOf(b.variables))
           /\ q.guards = BitsOf(type, ReadBy(q) \ {t.primaryKey.variable})
<1> DEFINE fields == FieldsOf(b.variables)
           key == t.primaryKey.variable
           n == Len(t.indexes)
<1>1. /\ \A i \in 1 .. n : Fits(t, b, fields, type, t.indexes[i], QueriesBefore(t, type, i))
      /\ q \in QueriesBefore(t, type, n + 1)
  BY FoldedQueries
<1>2. CASE q = ByKey(t, type)
  <2>1. /\ q.parameters = <<key>> /\ q.conditions = <<>>
        /\ q.guards = BitsOf(type, GuardedColumns(key, <<key>>, <<>>))
    BY <1>2 DEF ByKey, NewQuery, BitsOf
  <2>2. Range(<<key>>) = {key} /\ Range(<<>>) = {}
    BY DEF Range
  <2> HIDE DEF key
  <2>3. GuardedColumns(key, <<key>>, <<>>) = {} /\ ReadBy(q) = {key}
    BY <2>1, <2>2 DEF GuardedColumns, ReadBy
  <2>6. BitsOf(type, {}) = {} /\ {key} \ {key} = {}
    BY DEF BitsOf
  <2>4. key \in NamesOf(fields)
    BY DEF Named, NamesOf, key
  <2> HIDE DEF fields
  <2>5. QED BY <2>1, <2>3, <2>4, <2>6 DEF key, fields
<1>3. CASE q # ByKey(t, type)
  <2>1. PICK j \in 1 .. n : q = Query(t, type, t.indexes[j])
    <3>1. (n + 1) - 1 = n
      BY DEF IsList
    <3>2. QED BY <1>1, <1>3, <3>1 DEF QueriesBefore
  <2> DEFINE ix == t.indexes[j]
             queries == QueriesBefore(t, type, j)
             p == Query(t, type, ix)
  <2>2. Fits(t, b, FieldsOf(b.variables), type, ix, queries)
    BY <1>1
  <2> HIDE DEF ix, queries
  <2>3. /\ ReadBy(p) \subseteq NamesOf(FieldsOf(b.variables))
        /\ p.guards = BitsOf(type, ReadBy(p) \ {t.primaryKey.variable})
    BY <2>2, ReadOfIndex, Zenon
  <2>4. p = q
    BY <2>1 DEF ix
  <2> HIDE DEF p
  <2>5. QED BY <2>3, <2>4
<1>4. QED BY <1>2, <1>3

\* Fields that are one column for SQL have one bit: that of each of them.
LEMMA BitsOfColumn ==
    ASSUME NEW fields, NEW type, NEW name, \A f \in fields : IsName(f.name),
           name \in NamesOf(fields)
    PROVE  BitsLike(type, fields, name) = {Dirty(type, name)}
<1>1. PICK f \in fields : f.name = name
  BY DEF NamesOf
<1>2. \A w \in fields : SnakeCase(w.name) = SnakeCase(name) => Dirty(type, w.name) = Dirty(type, name)
  <2>1. SUFFICES ASSUME NEW w \in fields, SnakeCase(w.name) = SnakeCase(name)
                 PROVE  Dirty(type, w.name) = Dirty(type, name)
    OBVIOUS
  <2>2. IsName(w.name) /\ IsName(name)
    BY <1>1
  <2>3. PascalCase(w.name) = PascalCase(name)
    BY <2>1, <2>2, SnakeDeterminesPascal
  <2>4. QED BY <2>3, Zenon DEF Dirty
<1>3. QED BY <1>1, <1>2 DEF BitsLike

\* Every updated column has a dirty bit of its own when a file's declarations
\* do not meet.
LEMMA BitsOfFile ==
    ASSUME NEW f, IsInjective(Declarations(f)), NEW S, S \subseteq ColumnNames(f), IsFiniteSet(S)
    PROVE  Cardinality(BitsOf(f.type, S)) = Cardinality(S)
<1>1. \A c \in ColumnNames(f) : /\ <<"dirty", c>> \in DOMAIN Declarations(f)
                                /\ Declarations(f)[<<"dirty", c>>] = Dirty(f.type, c)
  <2>1. PICK single, P : /\ P = ((DOMAIN single) \X {<<>>}) \cup ({"dirty"} \X ColumnNames(f))
                         /\ Declarations(f) = [p \in P |->
                                IF p[1] = "dirty" THEN Dirty(f.type, p[2]) ELSE single[p[1]]]
    BY Zenon DEF Declarations
  <2>2. \A c \in ColumnNames(f) : <<"dirty", c>> \in P
    BY <2>1
  <2>3. QED BY <2>1, <2>2
<1> DEFINE bit == [v \in S |-> Dirty(f.type, v)]
           T == BitsOf(f.type, S)
<1>2. \A v, w \in S : bit[v] = bit[w] => v = w
  <2>1. SUFFICES ASSUME NEW v \in S, NEW w \in S, Dirty(f.type, v) = Dirty(f.type, w)
                 PROVE  v = w
    OBVIOUS
  <2>2. <<"dirty", v>> = <<"dirty", w>>
    BY <1>1, <2>1 DEF IsInjective
  <2>3. QED BY <2>2
<1>3. bit \in [S -> T] /\ \A x \in T : \E v \in S : bit[v] = x
  BY DEF BitsOf
<1> HIDE DEF bit, T
<1>4. ExistsBijection(S, T)
  BY <1>2, <1>3 DEF ExistsBijection, Bijection, Injection, Surjection, IsInjective
<1>5. Cardinality(T) = Cardinality(S)
  BY <1>4, FS_Bijection
<1>6. QED BY <1>5 DEF T

\* A list has finitely many elements.
LEMMA RangeIsFinite == ASSUME NEW l, IsList(l) PROVE IsFiniteSet(Range(l))
<1> DEFINE n == Len(l)
           f == [i \in 1 .. n |-> l[i]]
<1>1. n \in Nat /\ DOMAIN l = 1 .. n
  BY DEF IsList
<1>2. f \in [1 .. n -> Range(l)] /\ \A x \in Range(l) : \E i \in 1 .. n : f[i] = x
  BY <1>1 DEF Range
<1> HIDE DEF f, n
<1>3. f \in Surjection(1 .. n, Range(l))
  BY <1>2 DEF Surjection
<1>4. IsFiniteSet(1 .. n)
  BY <1>1, FS_Interval
<1>5. QED BY <1>3, <1>4, FS_Surjection

\* What the files of a run without errors are like.
SoundFile(f) ==
    /\ IsFiniteSet(NamesOf(f.fields))
    /\ \A v \in f.fields : IsName(v.name)
    /\ \A q \in f.queries : /\ ReadBy(q) \subseteq NamesOf(f.fields)
                            /\ q.guards = BitsOf(f.type, ReadBy(q) \ {f.key})

LEMMA FilesAreSound ==
    ASSUME NEW s, NEW t, IsList(s.beans), IsList(t.indexes),
           \A b \in Range(s.beans) :
               IsList(b.variables) /\ \A v \in Range(b.variables) : IsName(v.name),
           GenerateTable(s, t).errs = {}
    PROVE  SoundFile(GenerateTable(s, t).file)
<1> DEFINE b == FindBean(s, t.bean)
           type == PascalCase(b.name)
           fields == FieldsOf(b.variables)
           f == GenerateTable(s, t).file
<1>1. HasColumns(s, t) /\ GenerateTable(s, t) = GenerateColumns(t, b)
  <2>1. ASSUME NEW e PROVE Generated({e}, t, <<>>, {}, {}).errs # {}
    BY DEF Generated
  <2>2. QED BY <2>1, TableCases
<1>2. b \in Range(s.beans)
  BY <1>1, BeanIsFound DEF HasColumns
<1>3. IsList(b.variables) /\ \A v \in Range(b.variables) : IsName(v.name)
  BY <1>2
<1>4. /\ Queries(t, b, fields, type).errs = {} /\ ColumnsAreSound(t, b, fields)
      /\ f.type = type /\ f.key = t.primaryKey.variable /\ f.fields = fields
      /\ f.queries = Queries(t, b, fields, type).queries
  <2> HIDE DEF b
  <2>1. QED BY <1>1, SoundColumns
<1>5. Named(fields, t.primaryKey.variable) # {}
  BY <1>4 DEF ColumnsAreSound
<1> HIDE DEF b, type, f
<1>6. \A q \in f.queries : /\ ReadBy(q) \subseteq NamesOf(fields)
                           /\ q.guards = BitsOf(type, ReadBy(q) \ {t.primaryKey.variable})
  <2>1. SUFFICES ASSUME NEW q \in Queries(t, b, fields, type).queries
                 PROVE  /\ ReadBy(q) \subseteq NamesOf(fields)
                        /\ q.guards = BitsOf(type, ReadBy(q) \ {t.primaryKey.variable})
    BY <1>4
  <2> HIDE DEF fields
  <2>2. /\ Named(FieldsOf(b.variables), t.primaryKey.variable) # {}
        /\ Queries(t, b, FieldsOf(b.variables), type).errs = {}
        /\ q \in Queries(t, b, FieldsOf(b.variables), type).queries
    BY <1>4, <1>5 DEF fields
  <2>3. IsList(b.variables) /\ IsList(t.indexes)
    BY <1>3
  <2>4. /\ ReadBy(q) \subseteq NamesOf(FieldsOf(b.variables))
        /\ q.guards = BitsOf(type, ReadBy(q) \ {t.primaryKey.variable})
    BY <2>2, <2>3, ReadOfQueries
  <2>5. QED BY <2>4, Zenon DEF fields
<1>7. fields \subseteq Range(b.variables)
  BY <1>3, FieldNames
<1>8. IsFiniteSet(NamesOf(fields))
  <2> DEFINE S == NamesOf(fields)
             name == [v \in fields |-> v.name]
  <2>1. IsFiniteSet(fields)
    BY <1>3, <1>7, RangeIsFinite, FS_Subset
  <2>2. name \in [fields -> S] /\ \A x \in S : \E v \in fields : name[v] = x
    BY DEF NamesOf
  <2> HIDE DEF S, name, fields
  <2>3. name \in Surjection(fields, S)
    BY <2>2 DEF Surjection
  <2>4. QED BY <2>1, <2>3, FS_Surjection DEF S
<1>9. QED BY <1>3, <1>4, <1>6, <1>7, <1>8 DEF SoundFile, f

\* A sound file's guards are the bits of the columns that its queries read, when
\* no two of its declarations meet.
LEMMA SoundGuards ==
    ASSUME NEW f, SoundFile(f), IsInjective(Declarations(f)), NEW q \in f.queries
    PROVE  LET bits(name) == {Dirty(f.type, v.name) : v \in
                                  {w \in f.fields : SnakeCase(w.name) = SnakeCase(name)}}
               read == Range(q.parameters) \cup {c.variable : c \in Range(q.conditions)}
           IN  /\ q.guards = UNION {bits(name) : name \in read \ {f.key}}
               /\ Cardinality(q.guards) = Cardinality(read \ {f.key})
<1> DEFINE guarded == ReadBy(q) \ {f.key}
<1>1. /\ IsFiniteSet(NamesOf(f.fields)) /\ \A v \in f.fields : IsName(v.name)
      /\ guarded \subseteq NamesOf(f.fields) /\ q.guards = BitsOf(f.type, guarded)
  BY DEF SoundFile
<1>2. ASSUME NEW name \in guarded PROVE BitsLike(f.type, f.fields, name) = {Dirty(f.type, name)}
  BY <1>1, BitsOfColumn
<1>3. q.guards = UNION {BitsLike(f.type, f.fields, name) : name \in guarded}
  <2> HIDE DEF guarded
  <2>1. QED BY <1>1, <1>2 DEF BitsOf
<1>4. guarded \subseteq ColumnNames(f)
  BY <1>1 DEF ColumnNames, UpdateFields, NamesOf
<1>5. IsFiniteSet(guarded)
  <2> HIDE DEF guarded
  <2>1. QED BY <1>1, FS_Subset
<1>6. Cardinality(q.guards) = Cardinality(guarded)
  <2> HIDE DEF guarded
  <2>1. QED BY <1>1, <1>4, <1>5, BitsOfFile
<1>7. QED BY <1>3, <1>6, Zenon DEF ReadBy, BitsLike

\* Every query looks at the unwritten changes of all columns that its WHERE
\* reads, and at no others (newQuery): two columns have no bit in common, and
\* two variables of one SQL column have the same one.
THEOREM GuardsAreRight == Spec => []GuardsCoverPredicates
<1>1. Inv /\ Whole => GuardsCoverPredicates
  <2> SUFFICES ASSUME Inv, Whole, NEW f \in written
               PROVE  SoundFile(f) /\ IsInjective(Declarations(f))
    BY SoundGuards, Zenon DEF GuardsCoverPredicates
  <2>1. pc = "done" /\ errs = {} /\ WasRead /\ written = files /\ files = FilesBefore(next)
    BY DEF Inv, TypeOK, Whole
  <2>2. IsInjective(Declarations(f))
    BY <2>1 DEF Whole, DeclarationErrors, Collides
  <2>3. IsList(schema.tables) /\ IsList(schema.beans) /\ next \in 1 .. Len(schema.tables) + 1
    BY <2>1, DocumentsAssumption DEF WasRead, Inv, TypeOK
  <2>4. PICK i \in 1 .. next - 1 : f = GenerateTable(schema, schema.tables[i]).file
    BY <2>1 DEF FilesBefore
  <2> DEFINE t == schema.tables[i]
  <2>5. i \in DOMAIN schema.tables /\ i < next
    BY <2>3 DEF IsList
  <2>6. GenerateTable(schema, t).errs = {}
    BY <2>1, <2>5 DEF Inv, Reported
  <2>7. IsList(t.indexes) /\ \A b \in Range(schema.beans) :
            IsList(b.variables) /\ \A v \in Range(b.variables) : IsName(v.name)
    BY <2>1, <2>5, DocumentsAssumption DEF WasRead, Range
  <2> HIDE DEF t
  <2>8. SoundFile(f)
    BY <2>3, <2>4, <2>6, <2>7, FilesAreSound DEF t
  <2>9. QED BY <2>2, <2>8
<1>2. QED BY <1>1, WholeInvariance, PTL

-----------------------------------------------------------------------------
(* What keeps the rules is accepted *)

\* No variable repeats an earlier one if and only if their names differ.
LEMMA NamesDiffer ==
    ASSUME NEW vs, IsList(vs)
    PROVE  (\A i \in DOMAIN vs : ~RepeatsVariable(vs, i)) <=>
               \A i, j \in DOMAIN vs : i # j => vs[i].name # vs[j].name
<1>1. ASSUME \A i, j \in DOMAIN vs : i # j => vs[i].name # vs[j].name,
             NEW i \in DOMAIN vs, NEW k \in 1 .. i - 1
      PROVE  vs[k].name # vs[i].name
  <2>1. k \in DOMAIN vs /\ k # i
    BY DEF IsList
  <2>2. QED BY <1>1, <2>1
<1>2. QED BY <1>1, NothingRepeats DEF RepeatsVariable

\* checkVariable has the rules for a column.
LEMMA VariableKeepsTheRules ==
    ASSUME NEW v
    PROVE  SupportedColumn(v) <=> ~BadVariable(v)
<1>1. EntityFields \cup QueryNames = ReservedNames
  BY DEF EntityFields, QueryNames, ReservedNames
<1>2. v.name \notin EntityFields \cup QueryNames <=> v.name \notin ReservedNames
  BY <1>1
<1>3. QED BY <1>2, Zenon DEF SupportedColumn, BadVariable

LEMMA ColumnsKeepTheRules ==
    ASSUME NEW t, NEW b, IsList(b.variables)
    PROVE  VariableErrors(b.variables) = {} /\ ColumnsAreSound(t, b, FieldsOf(b.variables))
               <=> SupportedColumns(t, b.variables)
<1> DEFINE vs == b.variables
           key == t.primaryKey.variable
           once == \A i \in DOMAIN vs : ~RepeatsVariable(vs, i)
           sound == /\ IsBigint(vs, key) /\ t.primaryKey.autoIncrement
                    /\ Cardinality({v \in Range(vs) : v.name # key}) \in 1 .. DirtyBits
                    /\ t.lock = <<>> \/ IsBigint(vs, t.lock)
<1>1. VariableErrors(vs) = {} <=> once /\ \A i \in DOMAIN vs : SupportedColumn(vs[i])
  <2>1. VariableErrors(vs) = {} <=> once /\ \A v \in Range(vs) : ~BadVariable(v)
    BY DEF VariableErrors
  <2>2. (\A v \in Range(vs) : ~BadVariable(v)) <=> \A i \in DOMAIN vs : SupportedColumn(vs[i])
    BY VariableKeepsTheRules DEF Range
  <2>3. QED BY <2>1, <2>2
<1>2. once => FieldsOf(vs) = Range(vs)
  BY NothingRepeats
<1>3. ColumnsAreSound(t, b, Range(vs)) <=> sound
  <2>1. \A name : IsBigint(vs, name) <=> \E v \in Named(Range(vs), name) : v.type = "int64"
    BY DEF IsBigint, Named, Range
  <2>2. UpdateFields(Range(vs), key) = {v \in Range(vs) : v.name # key}
    BY DEF UpdateFields
  <2>3. QED BY <2>1, <2>2 DEF ColumnsAreSound
<1>4. SupportedColumns(t, vs) <=> once /\ (\A i \in DOMAIN vs : SupportedColumn(vs[i])) /\ sound
  BY NamesDiffer, Zenon DEF SupportedColumns
<1> HIDE DEF vs, once, sound
<1>5. CASE once
  BY <1>1, <1>2, <1>3, <1>4, <1>5 DEF vs
<1>6. CASE ~once
  BY <1>1, <1>4, <1>6 DEF vs
<1>7. QED BY <1>5, <1>6 DEF vs

\* Where the names of the variables differ, ParseWhere accepts what keeps the
\* rules for conditions.
LEMMA WhereKeepsTheRules ==
    ASSUME NEW t, NEW b, NEW where, IsList(b.variables),
           \A i, j \in DOMAIN b.variables : i # j => b.variables[i].name # b.variables[j].name
    PROVE  LET conds == ParseWhere(where)
           IN  ~WhereFails(b, t.primaryKey.variable, where) <=>
                   /\ conds # <<>> /\ \A i \in DOMAIN conds : SupportedCondition(t, b.variables, conds[i])
                   /\ \A i \in DOMAIN conds : \A j \in 1 .. i - 1 : conds[i].variable # conds[j].variable
<1> DEFINE vs == b.variables
           conds == ParseWhere(where)
           named(c) == {j \in DOMAIN vs : vs[j].name = c.variable}
           wrong(c) == \E j \in named(c) : (\A k \in named(c) : k <= j) /\ vs[j].type \notin c.types
<1>1. WhereFails(b, t.primaryKey.variable, where) <=>
          \/ conds = <<>>
          \/ \E i \in DOMAIN conds :
                \/ named(conds[i]) = {} \/ conds[i].variable = t.primaryKey.variable
                \/ \E j \in 1 .. i - 1 : conds[j].variable = conds[i].variable
                \/ wrong(conds[i])
  BY Zenon DEF WhereFails
<1> HIDE DEF conds
<1>2. ASSUME NEW c
      PROVE  SupportedCondition(t, vs, c) <=>
                 named(c) # {} /\ c.variable # t.primaryKey.variable /\ ~wrong(c)
  <2>1. \A i, j \in named(c) : i = j
    OBVIOUS
  <2>2. \A i \in named(c) : \A k \in named(c) : k <= i
    BY <2>1 DEF IsList
  <2>3. QED BY <2>1, <2>2 DEF SupportedCondition
<1> HIDE DEF vs, named, wrong
<1>3. QED BY <1>1, <1>2 DEF conds, vs

LEMMA IndexKeepsTheRules ==
    ASSUME NEW t, NEW b, NEW ix, IsList(b.variables), SupportedColumns(t, b.variables)
    PROVE  LET columns == SplitTrimSpace(ix.variable)
           IN  SupportedIndex(t, b.variables, ix) <=>
                   /\ ~BadIndex(t, b, ix) /\ IsInjective(columns)
                   /\ ~ \E c \in Range(columns) : Named(FieldsOf(b.variables), c) = {}
<1> DEFINE vs == b.variables
           columns == SplitTrimSpace(ix.variable)
           conds == ParseWhere(ix.where)
           known == \A c \in Range(columns) : \E i \in DOMAIN vs : vs[i].name = c
           distinct == IsInjective(columns)
           right == /\ conds # <<>> /\ \A i \in DOMAIN conds : SupportedCondition(t, vs, conds[i])
                    /\ \A i \in DOMAIN conds : \A j \in 1 .. i - 1 : conds[i].variable # conds[j].variable
<1>1. \A i, j \in DOMAIN vs : i # j => vs[i].name # vs[j].name
  BY Zenon DEF SupportedColumns
<1>2. known <=> ~ \E c \in Range(columns) : Named(FieldsOf(vs), c) = {}
  <2>1. FieldsOf(vs) = Range(vs)
    BY <1>1, NamesDiffer, NothingRepeats
  <2>2. \A c : Named(Range(vs), c) # {} <=> \E i \in DOMAIN vs : vs[i].name = c
    BY DEF Named, Range
  <2> HIDE DEF vs, columns
  <2>3. QED BY <2>1, <2>2
<1>3. ~WhereFails(b, t.primaryKey.variable, ix.where) <=> right
  BY <1>1, WhereKeepsTheRules, Zenon
<1>4. SupportedIndex(t, vs, ix) <=>
          /\ \/ ix.where = <<>> /\ ix.method = <<>> /\ columns # <<>>
             \/ ix.where # <<>> /\ IsExported(ix.method) /\ (ix.unique => columns # <<>>) /\ right
          /\ distinct /\ known
  BY Zenon DEF SupportedIndex
<1>5. BadIndex(t, b, ix) <=>
          IF ix.where # <<>>
          THEN \/ WhereFails(b, t.primaryKey.variable, ix.where)
               \/ ~IsExported(ix.method)
               \/ columns = <<>> /\ ix.unique
          ELSE ix.method # <<>> \/ columns = <<>>
  BY Zenon DEF BadIndex
<1> HIDE DEF right, known, distinct
<1>6. CASE ix.where = <<>>
  BY <1>2, <1>4, <1>5, <1>6, Zenon DEF distinct
<1>7. CASE ix.where # <<>>
  BY <1>2, <1>3, <1>4, <1>5, <1>7, Zenon DEF distinct
<1>8. QED BY <1>6, <1>7

\* The queries of a table are QueryAt, one after the other.
LEMMA QueriesInOrder ==
    ASSUME NEW t, NEW type, IsList(t.indexes), NEW i \in 1 .. Len(t.indexes)
    PROVE  /\ Query(t, type, t.indexes[i]) = QueryAt(t, type, i)
           /\ KeyOf(t.indexes[i]) = Key(QueryAt(t, type, i).parameters, QueryAt(t, type, i).conditions)
           /\ QueriesBefore(t, type, i) = {QueryAt(t, type, j) : j \in 0 .. i - 1}
<1>1. \A j \in 1 .. i : Query(t, type, t.indexes[j]) = QueryAt(t, type, j)
  <2>1. \A j \in 1 .. i : j # 0
    BY DEF IsList
  <2>2. QED BY <2>1, Zenon DEF Query, QueryAt
<1>2. ByKey(t, type) = QueryAt(t, type, 0)
  BY DEF ByKey, QueryAt
<1>3. i \in 1 .. i /\ 0 .. i - 1 = {0} \cup (1 .. i - 1) /\ \A j \in 1 .. i - 1 : j \in 1 .. i
  BY DEF IsList
<1>4. /\ Query(t, type, t.indexes[i]).parameters = SplitTrimSpace(t.indexes[i].variable)
      /\ Query(t, type, t.indexes[i]).conditions = Conditions(t.indexes[i])
  BY DEF Query, NewQuery
<1>5. KeyOf(t.indexes[i]) = Key(QueryAt(t, type, i).parameters, QueryAt(t, type, i).conditions)
  BY <1>1, <1>3, <1>4, Zenon DEF KeyOf
<1>6. QueriesBefore(t, type, i) = {QueryAt(t, type, j) : j \in 0 .. i - 1}
  BY <1>1, <1>2, <1>3 DEF QueriesBefore
<1>7. QED BY <1>1, <1>3, <1>5, <1>6

\* An index is accepted after others if and only if it keeps the rules and
\* differs from each of them.
LEMMA FittingKeepsTheRules ==
    ASSUME NEW t, NEW b, NEW type, IsList(b.variables), SupportedColumns(t, b.variables),
           IsList(t.indexes), NEW i \in 1 .. Len(t.indexes)
    PROVE  Fits(t, b, FieldsOf(b.variables), type, t.indexes[i], QueriesBefore(t, type, i)) <=>
               /\ SupportedIndex(t, b.variables, t.indexes[i])
               /\ \A j \in 0 .. i - 1 : Differ(QueryAt(t, type, j), QueryAt(t, type, i))
<1> DEFINE ix == t.indexes[i]
           q(j) == QueryAt(t, type, j)
           columns == SplitTrimSpace(ix.variable)
           fields == FieldsOf(b.variables)
           before == QueriesBefore(t, type, i)
           known == ~ \E c \in Range(columns) : Named(fields, c) = {}
           distinct == IsInjective(columns)
<1>1. before = {q(j) : j \in 0 .. i - 1} /\ Query(t, type, ix) = q(i)
      /\ KeyOf(ix) = Key(q(i).parameters, q(i).conditions)
  BY QueriesInOrder
<1>2. Fits(t, b, fields, type, ix, before) <=>
          ~BadIndex(t, b, ix) /\ KeyOf(ix) \notin KeysOf(before) /\ ~Clashes(t, fields, type, ix, before)
  BY Zenon DEF Fits
<1>3. Clashes(t, fields, type, ix, before) <=> ~known \/ ~distinct \/ TakesName(q(i), before)
  BY <1>1, Zenon DEF Clashes
<1>4. SupportedIndex(t, b.variables, ix) <=> ~BadIndex(t, b, ix) /\ distinct /\ known
  BY IndexKeepsTheRules, Zenon
<1> HIDE DEF known, distinct, q, ix, fields
<1>5. KeyOf(ix) \notin KeysOf(before) /\ ~TakesName(q(i), before) <=>
          \A j \in 0 .. i - 1 : Differ(q(j), q(i))
  <2>1. KeyOf(ix) \notin KeysOf(before) <=>
            \A j \in 0 .. i - 1 : Key(q(j).parameters, q(j).conditions) # Key(q(i).parameters, q(i).conditions)
    BY <1>1 DEF KeysOf
  <2>2. ~TakesName(q(i), before) <=> \A j \in 0 .. i - 1 : q(j).suffix # q(i).suffix /\ q(j).func # q(i).func
    BY <1>1 DEF TakesName
  <2>3. QED BY <2>1, <2>2, Zenon DEF Differ
<1> HIDE DEF before
<1>6. QED BY <1>2, <1>3, <1>4, <1>5, Zenon DEF q, ix, fields, before

\* All indexes are accepted, one after the other, if and only if they keep the
\* rules and differ from each other.
LEMMA IndexesKeepTheRules ==
    ASSUME NEW t, NEW b, NEW type, IsList(b.variables), SupportedColumns(t, b.variables), IsList(t.indexes)
    PROVE  (\A i \in 1 .. Len(t.indexes) :
                Fits(t, b, FieldsOf(b.variables), type, t.indexes[i], QueriesBefore(t, type, i))) <=>
               /\ \A i \in 1 .. Len(t.indexes) : SupportedIndex(t, b.variables, t.indexes[i])
               /\ \A i, j \in 0 .. Len(t.indexes) : i # j => Differ(QueryAt(t, type, i), QueryAt(t, type, j))
<1> DEFINE n == Len(t.indexes)
           D(i, j) == Differ(QueryAt(t, type, i), QueryAt(t, type, j))
<1>1. n \in Nat
  BY DEF IsList
<1>2. \A i, j : D(i, j) <=> D(j, i)
  BY DEF Differ
<1>3. \A i \in 1 .. n :
          Fits(t, b, FieldsOf(b.variables), type, t.indexes[i], QueriesBefore(t, type, i)) <=>
              SupportedIndex(t, b.variables, t.indexes[i]) /\ \A j \in 0 .. i - 1 : D(j, i)
  BY FittingKeepsTheRules
<1> HIDE DEF n, D
<1>4. (\A i \in 1 .. n : \A j \in 0 .. i - 1 : D(j, i)) <=> \A i, j \in 0 .. n : i # j => D(i, j)
  <2>1. ASSUME \A i \in 1 .. n : \A j \in 0 .. i - 1 : D(j, i)
        PROVE  \A i, j \in 0 .. n : i # j => D(i, j)
    <3>1. ASSUME NEW i \in 0 .. n, NEW j \in 0 .. n, j < i PROVE D(j, i)
      <4>1. i \in 1 .. n /\ j \in 0 .. i - 1
        BY <1>1, <3>1
      <4>2. QED BY <2>1, <4>1
    <3>2. \A i, j \in 0 .. n : i # j => j < i \/ i < j
      BY <1>1
    <3>3. QED BY <1>2, <3>1, <3>2
  <2>2. ASSUME \A i, j \in 0 .. n : i # j => D(i, j), NEW i \in 1 .. n, NEW j \in 0 .. i - 1
        PROVE  D(j, i)
    <3>1. i \in 0 .. n /\ j \in 0 .. n /\ j # i
      BY <1>1
    <3>2. QED BY <2>2, <3>1
  <2>3. QED BY <2>1, <2>2
<1>5. QED BY <1>3, <1>4, Zenon DEF n, D

\* The rules for the name of a table.
NameKeepsTheRules(name) ==
    ValidTableName(name) /\ BuildsEverywhere(name) /\ ~IsDBNameFile(name)

\* A table whose name keeps the rules is generated without errors if and only if
\* it is supported (generateTable, buildTableGen).
LEMMA TableKeepsTheRules ==
    ASSUME NEW s, NEW t, IsList(s.beans), IsList(t.indexes),
           \A b \in Range(s.beans) : IsList(b.variables)
    PROVE  NameKeepsTheRules(t.name) /\ GenerateTable(s, t).errs = {} <=> SupportedTable(s, t)
<1> DEFINE b == FindBean(s, t.bean)
           type == PascalCase(b.name)
           fields == FieldsOf(b.variables)
           queries == Queries(t, b, fields, type)
           n == Len(t.indexes)
           keyword == IsKeyword(LowerCamelCase(b.name))
           columns == SupportedColumns(t, b.variables)
           indexes == /\ \A i \in 1 .. n : SupportedIndex(t, b.variables, t.indexes[i])
                      /\ \A i, j \in 0 .. n : i # j => Differ(QueryAt(t, type, i), QueryAt(t, type, j))
           name == NameKeepsTheRules(t.name)
<1>1. SupportedTable(s, t) <=>
          name /\ HasBean(s, t.bean) /\ type # <<>> /\ ~keyword /\ columns /\ indexes
  <2>1. name <=> /\ StartsSmall(t.name) /\ t.name # <<Small("pdb")>> /\ \A i \in DOMAIN t.name : ~t.name[i].cap
                 /\ BuildsEverywhere(t.name)
    BY DEF NameKeepsTheRules, ValidTableName, IsDBNameFile
  <2>2. SupportedTable(s, t) <=>
          /\ StartsSmall(t.name) /\ t.name # <<Small("pdb")>> /\ \A i \in DOMAIN t.name : ~t.name[i].cap
          /\ BuildsEverywhere(t.name)
          /\ HasBean(s, t.bean) /\ type # <<>> /\ ~keyword /\ columns /\ indexes
    BY Zenon DEF SupportedTable
  <2> HIDE DEF name, columns, indexes, keyword, type
  <2>3. QED BY <2>1, <2>2, Zenon
<1>2. CASE ~HasColumns(s, t)
  <2>1. PICK e : GenerateTable(s, t) = Generated({e}, t, <<>>, {}, {})
    BY <1>2, TableCases
  <2>2. GenerateTable(s, t).errs # {}
    BY <2>1 DEF Generated
  <2>3. ~SupportedTable(s, t)
    <3>1. CASE ~HasBean(s, t.bean)
      BY <1>1, <3>1
    <3>2. CASE t.primaryKey = NoKey
      <4>1. ~t.primaryKey.autoIncrement
        BY <3>2 DEF NoKey
      <4>2. ~columns
        BY <4>1, Zenon DEF SupportedColumns
      <4>3. QED BY <1>1, <4>2
    <3>3. CASE HasBean(s, t.bean) /\ ~IsIdentifier(PascalCase(t.bean))
      <4>1. b.name = t.bean
        BY <3>3, BeanIsFound
      <4> HIDE DEF b
      <4>2. type = <<>>
        BY <3>3, <4>1 DEF IsIdentifier
      <4>3. QED BY <1>1, <4>2
    <3>4. QED BY <1>2, <3>1, <3>2, <3>3 DEF HasColumns
  <2>4. QED BY <2>2, <2>3
<1>3. CASE HasColumns(s, t)
  <2>1. HasBean(s, t.bean) /\ b.name = t.bean /\ b \in Range(s.beans) /\ IsIdentifier(PascalCase(t.bean))
    BY <1>3, BeanIsFound DEF HasColumns
  <2>2. type # <<>> /\ IsList(b.variables)
    <3> HIDE DEF b
    <3>1. QED BY <2>1 DEF IsIdentifier
  <2> HIDE DEF b
  <2>3. GenerateTable(s, t) = GenerateColumns(t, b)
    BY <1>3, TableCases DEF b
  <2>4. GenerateTable(s, t).errs = {} <=>
            /\ VariableErrors(b.variables) = {} /\ ColumnsAreSound(t, b, fields)
            /\ queries.errs = {} /\ ~keyword
    BY <2>3, SoundColumns, Zenon
  <2>5. VariableErrors(b.variables) = {} /\ ColumnsAreSound(t, b, fields) <=> columns
    BY <2>2, ColumnsKeepTheRules
  <2>6. columns => (queries.errs = {} <=> indexes)
    <3>1. queries.errs = {} <=>
              \A i \in 1 .. n : Fits(t, b, fields, type, t.indexes[i], QueriesBefore(t, type, i))
      BY FoldedQueries
    <3>2. columns =>
              ((\A i \in 1 .. n : Fits(t, b, fields, type, t.indexes[i], QueriesBefore(t, type, i))) <=> indexes)
      BY <2>2, IndexesKeepTheRules, Zenon
    <3> HIDE DEF queries, fields, type, n, columns, indexes
    <3>3. QED BY <3>1, <3>2, Zenon
  <2> HIDE DEF queries, fields, type, n, keyword, columns, indexes, name
  <2>7. QED BY <1>1, <2>1, <2>2, <2>4, <2>5, <2>6 DEF name
<1>4. QED BY <1>2, <1>3

\* checkTables finds nothing if and only if names and types of the tables are
\* as they have to be.
LEMMA TablesKeepTheRules ==
    ASSUME NEW ts, IsList(ts)
    PROVE  TableErrors(ts) = {} <=>
               /\ \A t \in Range(ts) : NameKeepsTheRules(t.name)
               /\ \A i, j \in DOMAIN ts : i # j =>
                      ts[i].name # ts[j].name /\ PascalCase(ts[i].bean) # PascalCase(ts[j].bean)
<1> DEFINE alone == \A i \in DOMAIN ts : /\ ValidTableName(ts[i].name) /\ BuildsEverywhere(ts[i].name)
                                        /\ ~IsDBNameFile(ts[i].name)
           apart(i, j) == ts[i].name # ts[j].name /\ PascalCase(ts[i].bean) # PascalCase(ts[j].bean)
<1>1. TableErrors(ts) = {} <=>
          \A i \in DOMAIN ts : Passes(ts, i) /\ BuildsEverywhere(ts[i].name) /\ ~RepeatsType(ts, i)
  BY DEF TableErrors
<1>2. alone <=> \A t \in Range(ts) : NameKeepsTheRules(t.name)
  BY DEF Range, NameKeepsTheRules
<1>3. ASSUME NEW i \in DOMAIN ts, NEW j
      PROVE  j \in 1 .. i - 1 <=> j \in DOMAIN ts /\ j < i
  BY DEF IsList
<1>4. ASSUME TableErrors(ts) = {}
      PROVE  alone /\ \A i, j \in DOMAIN ts : i # j => apart(i, j)
  <2>1. alone
    BY <1>1, <1>4 DEF Passes
  <2>2. ASSUME NEW i \in DOMAIN ts, NEW j \in DOMAIN ts, j < i PROVE apart(i, j)
    BY <1>1, <1>3, <1>4, <2>2 DEF Passes, RepeatsName, RepeatsType
  <2>3. \A i, j \in DOMAIN ts : i # j => j < i \/ i < j
    BY DEF IsList
  <2> HIDE DEF alone
  <2>4. QED BY <2>1, <2>2, <2>3
<1>5. ASSUME alone, \A i, j \in DOMAIN ts : i # j => apart(i, j)
      PROVE  TableErrors(ts) = {}
  <2>1. ASSUME NEW i \in DOMAIN ts, NEW j \in 1 .. i - 1 PROVE apart(j, i)
    <3>1. j \in DOMAIN ts /\ j # i
      BY <1>3 DEF IsList
    <3>2. QED BY <1>5, <3>1
  <2>2. \A i \in DOMAIN ts : ~RepeatsName(ts, i) /\ ~RepeatsType(ts, i)
    BY <2>1 DEF RepeatsName, RepeatsType
  <2>3. QED BY <1>1, <1>5, <2>2 DEF Passes
<1> HIDE DEF alone
<1>6. QED BY <1>2, <1>4, <1>5

\* Where no name is declared twice, no file collides (checkDeclarations).
LEMMA OnceMeansNoCollision ==
    ASSUME NEW fs, DeclaredOnce(fs)
    PROVE  DeclarationErrors(fs) = {}
<1> DEFINE All == AllDeclarations(fs)
<1>1. \A f \in fs : \A i \in DOMAIN Declarations(f) :
          <<f, i>> \in DOMAIN All /\ All[<<f, i>>] = Declarations(f)[i]
  <2> DEFINE Places == UNION {{f} \X DOMAIN Declarations(f) : f \in fs}
  <2>1. \A f \in fs : \A i \in DOMAIN Declarations(f) : <<f, i>> \in Places
    OBVIOUS
  <2>2. All = [p \in Places |-> Declarations(p[1])[p[2]]]
    BY Zenon DEF AllDeclarations
  <2> HIDE DEF Places, All
  <2>3. QED BY <2>1, <2>2
<1>2. IsInjective(All) /\ DBName \notin Range(All)
  BY DEF DeclaredOnce
<1> HIDE DEF All
<1>3. ASSUME NEW f \in fs, NEW g \in fs, NEW i \in DOMAIN Declarations(f), NEW j \in DOMAIN Declarations(g),
             Declarations(f)[i] = Declarations(g)[j]
      PROVE  f = g /\ i = j
  <2> DEFINE p == <<f, i>>
             q == <<g, j>>
  <2>1. p \in DOMAIN All /\ q \in DOMAIN All /\ All[p] = All[q]
    BY <1>1, <1>3
  <2> HIDE DEF p, q
  <2>2. p = q
    BY <1>2, <2>1 DEF IsInjective
  <2>3. QED BY <2>2 DEF p, q
<1>4. SUFFICES ASSUME NEW f \in fs PROVE ~Collides(fs, f)
  BY DEF DeclarationErrors
<1>5. IsInjective(Declarations(f))
  BY <1>3 DEF IsInjective
<1>6. DBName \notin Range(Declarations(f))
  BY <1>1, <1>2 DEF Range
<1>7. \A g \in fs \ {f} : Range(Declarations(f)) \cap Range(Declarations(g)) = {}
  BY <1>3 DEF Range
<1>8. QED BY <1>5, <1>6, <1>7 DEF Collides

-----------------------------------------------------------------------------
(* Errors have a reason *)

\* Some table before the n-th, or two of all tables, break a rule.
Faulty(n) ==
    \/ TableErrors(schema.tables) # {}
    \/ \E i \in 1 .. n - 1 : GenerateTable(schema, schema.tables[i]).errs # {}

\* A run that read the document reports errors only if a table, or the
\* declarations of all of them together, are at fault.
Reasonable ==
    /\ pc = "generate" /\ errs # {} => Faulty(next)
    /\ pc = "failed" /\ schema # NoSchema =>
          Faulty(next) \/ DeclarationErrors(FilesBefore(next)) # {}

LEMMA NextReasonable == Inv /\ Whole /\ Reasonable /\ [Next]_vars => Reasonable'
<1> SUFFICES ASSUME Inv, Whole, Reasonable, [Next]_vars PROVE Reasonable'
  OBVIOUS
<1>1. CASE LoadSchema
  <2>1. pc = "parse" /\ (pc' = "tables" \/ (pc' = "failed" /\ schema' = schema))
    BY <1>1 DEF LoadSchema
  <2>2. schema = NoSchema
    BY <2>1 DEF Inv
  <2>3. QED BY <2>1, <2>2 DEF Reasonable
<1>2. CASE CheckTables
  <2>1. pc' = "generate" /\ errs' = TableErrors(schema.tables) /\ schema' = schema
    BY <1>2 DEF CheckTables
  <2>2. QED BY <2>1 DEF Reasonable, Faulty
<1>3. CASE GenerateNext
  <2> DEFINE g == GenerateTable(schema, schema.tables[next])
  <2>1. /\ pc = "generate" /\ next' = next + 1 /\ errs' = errs \cup g.errs
        /\ pc' = pc /\ schema' = schema
    BY <1>3 DEF GenerateNext
  <2>2. next \in Nat /\ next # 0
    BY <2>1 DEF Inv, TypeOK
  <2>3. 1 .. (next + 1) - 1 = (1 .. next - 1) \cup {next}
    BY <2>2
  <2>4. Faulty(next)' <=> Faulty(next) \/ g.errs # {}
    BY <2>1, <2>3 DEF Faulty
  <2>5. QED BY <2>1, <2>4 DEF Reasonable
<1>4. CASE CheckDeclarations
  <2>1. /\ pc = "generate"
        /\ errs' = IF errs = {} THEN DeclarationErrors(files) ELSE errs
        /\ pc' = IF errs' = {} THEN "write" ELSE "failed"
        /\ UNCHANGED <<schema, files, next>>
    BY <1>4 DEF CheckDeclarations
  <2>2. errs = {} => files = FilesBefore(next)
    BY <2>1 DEF Whole
  <2>3. Faulty(next)' = Faulty(next) /\ FilesBefore(next)' = FilesBefore(next)
    BY <2>1 DEF Faulty, FilesBefore
  <2>4. QED BY <2>1, <2>2, <2>3 DEF Reasonable
<1>5. CASE Write
  <2>1. pc' = "done"
    BY <1>5 DEF Write
  <2>2. QED BY <2>1 DEF Reasonable
<1>6. CASE UNCHANGED vars
  BY <1>6 DEF vars, Reasonable, Faulty, FilesBefore
<1>7. QED BY <1>1, <1>2, <1>3, <1>4, <1>5, <1>6 DEF Next

\* Every error of a run has a reason in the tables.
THEOREM ErrorsHaveReasons == Spec => []Reasonable
<1>1. Init => Reasonable
  BY DEF Init, Reasonable
<1>2. Inv /\ Whole /\ Reasonable /\ [Next]_vars => Reasonable'
  BY NextReasonable
<1>3. QED BY <1>1, <1>2, WholeInvariance, PTL DEF Spec

\* genbeans hands over code if and only if every table, every index and every pair
\* of them keeps the rules of docs/design.md 274-284, without the one that the
\* methods of a type differ.
THEOREM RulesAreEnforced == Spec => []RulesDecide
<1>1. Inv /\ Whole /\ Reasonable => RulesDecide
  <2> DEFINE ts == schema.tables
             n == Len(ts)
             alone == \A t \in Range(ts) : NameKeepsTheRules(t.name)
             apart == \A i, j \in DOMAIN ts : i # j =>
                          /\ ts[i].name # ts[j].name
                          /\ PascalCase(ts[i].bean) # PascalCase(ts[j].bean)
             clean == \A t \in Range(ts) : GenerateTable(schema, t).errs = {}
             generated == {GenerateTable(schema, t).file : t \in Range(ts)}
             fine == \A t \in Range(ts) : SupportedTable(schema, t)
             supported == fine /\ apart /\ DeclaredOnce(generated)
  <2> SUFFICES ASSUME Inv, Whole, Reasonable, pc \in {"done", "failed"}, schema # NoSchema
               PROVE  pc = "done" <=> supported
    BY Zenon DEF RulesDecide, KeepsTheRules
  <2>1. WasRead /\ next > n
    BY DEF Inv, Whole
  <2>2. IsList(ts) /\ IsList(schema.beans) /\ next \in 1 .. n + 1
    BY <2>1, DocumentsAssumption DEF WasRead, Inv, TypeOK
  <2>3. next - 1 = n /\ DOMAIN ts = 1 .. n
    BY <2>1, <2>2 DEF IsList
  <2>4. \A t \in Range(ts) : IsList(t.indexes)
    BY <2>1, DocumentsAssumption DEF WasRead
  <2>5. \A b \in Range(schema.beans) : IsList(b.variables)
    BY <2>1, DocumentsAssumption DEF WasRead
  <2>6. /\ fine <=> alone /\ clean
        /\ clean <=> \A i \in 1 .. n : GenerateTable(schema, ts[i]).errs = {}
    <3>1. \A t \in Range(ts) :
              NameKeepsTheRules(t.name) /\ GenerateTable(schema, t).errs = {} <=> SupportedTable(schema, t)
      BY <2>2, <2>4, <2>5, TableKeepsTheRules
    <3> HIDE DEF ts, n
    <3>2. QED BY <2>3, <3>1 DEF Range
  <2>7. TableErrors(ts) = {} <=> alone /\ apart
    BY <2>2, TablesKeepTheRules
  <2>8. generated = FilesBefore(next)
    <3> HIDE DEF n
    <3>1. QED BY <2>3 DEF FilesBefore, Range
  <2> HIDE DEF alone, apart, clean, fine, generated, ts, n
  <2>9. DeclaredOnce(generated) <=> DeclarationErrors(generated) = {}
    BY NoCollision, OnceMeansNoCollision
  <2>10. supported <=> ~Faulty(next) /\ DeclarationErrors(FilesBefore(next)) = {}
    BY <2>3, <2>6, <2>7, <2>8, <2>9 DEF Faulty, ts
  <2>11. CASE pc = "done"
    <3>1. errs = {} /\ TableErrors(schema.tables) = {} /\ DeclarationErrors(FilesBefore(next)) = {}
      BY <2>11 DEF Inv, TypeOK, Whole
    <3>2. \A i \in 1 .. n : GenerateTable(schema, ts[i]).errs = {}
      <4>1. \A i \in 1 .. n : i \in DOMAIN ts /\ i < next
        BY <2>2, <2>3 DEF IsList, n
      <4>2. Reported
        BY <2>11 DEF Inv
      <4>3. QED BY <3>1, <4>1, <4>2 DEF Reported, ts
    <3>3. ~Faulty(next)
      BY <2>3, <3>1, <3>2 DEF Faulty, ts
    <3>4. QED BY <2>10, <2>11, <3>1, <3>3
  <2>12. CASE pc = "failed"
    BY <2>10, <2>12 DEF Reasonable
  <2>13. QED BY <2>11, <2>12
<1>2. QED BY <1>1, WholeInvariance, ErrorsHaveReasons, PTL
=============================================================================
