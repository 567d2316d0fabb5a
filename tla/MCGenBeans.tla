----------------------------- MODULE MCGenBeans -----------------------------
(***************************************************************************)
(* Documents for GenBeans: two beans and two tables, each as it should be  *)
(* or with one thing wrong or unusual, in all combinations.                *)
(***************************************************************************)
EXTENDS GenBeans

text(v) == [kind |-> "text", v |-> v]
yes == [kind |-> "bool", v |-> TRUE]
no == [kind |-> "bool", v |-> FALSE]
A(name, value) == [name |-> name, value |-> value]
E(tag, line, attrs, children) == [tag |-> tag, line |-> line, attrs |-> attrs, children |-> children]

s(w) == Small(w)
c(w) == Capital(w)
id == <<s("id")>>
uid == <<s("uid")>>
boxIdx == <<s("box"), c("idx")>>
box_idx == <<s("box"), Underscore, s("idx")>>
idx == <<s("idx")>>
read == <<s("read")>>
user == <<s("user")>>
mail == <<s("mail")>>
mailBox == <<s("mail"), c("box")>>

var(line, name, type) == E("variable", line, <<A("name", text(name)), A("type", text(type))>>, <<>>)
bean(line, name, vs) == E("bean", line, <<A("name", text(name))>>, vs)
key(line) == E("primaryKey", line, <<A("variable", text(id)), A("autoIncrement", yes)>>, <<>>)
index(line, attrs) == E("index", line, attrs, <<>>)
table(line, name, b, children) == E("table", line, <<A("name", text(name)), A("bean", text(b))>>, children)

isRead == <<[variable |-> read, value |-> "true", types |-> {"bool"}]>>
isOne == <<[variable |-> idx, value |-> "1", types |-> {"int32"}]>>
All == <<c("all")>>
Unread == <<c("unread")>>

\* The first bean: plain; columns that differ as Go writes them or not at all;
\* a reserved method; too many columns; a wrong key; names that look like methods.
FirstBeans ==
    { bean(1, mail, vs) : vs \in
        { <<var(2, id, "int64"), var(3, boxIdx, "int32"), var(4, uid, "int64")>>,
          <<var(2, id, "int64"), var(3, boxIdx, "int32"), var(4, box_idx, "int32")>>,
          <<var(2, id, "int64"), var(3, uid, "int64"), var(4, uid, "int32")>>,
          <<var(2, id, "int64"), var(3, <<s("lock"), c("key")>>, "int64")>>,
          <<var(2, id, "int64"), var(3, uid, "int64"), var(4, idx, "int32"), var(5, read, "bool"), var(6, boxIdx, "text")>>,
          <<var(2, id, "string"), var(3, <<c("uid")>>, "int64")>>,
          <<var(2, id, "int64"), var(3, uid, "int64"), var(4, <<s("set"), c("uid")>>, "int64")>> } }

\* The second bean: another name, the same, one that runs into the first's,
\* and a keyword.
SecondBeans ==
    { bean(11, n, <<var(12, id, "int64"), var(13, idx, "int32"), var(14, read, "bool")>>) :
        n \in {user, mailBox, mail, <<s("type")>>} }

\* Indexes and keys of the first table.
FirstTables ==
    { table(21, mail, mail, ns) : ns \in
        { <<key(22), index(23, <<A("variable", text(<<uid>>)), A("unique", yes)>>)>>,
          <<key(22), index(23, <<A("variable", text(<<uid, <<>>, boxIdx>>)), A("unique", no)>>),
                     index(24, <<A("variable", text(<<boxIdx, uid>>))>>)>>,
          <<key(22), index(23, <<A("variable", text(<<uid>>)), A("uniqe", yes)>>)>>,
          <<key(22), index(23, <<A("variable", text(<<uid>>)), A("unique", yes), A("unique", no)>>)>>,
          <<key(22)>>, <<key(22), key(23)>>,
          <<>>,
          <<key(22), index(23, <<A("variable", text(<<id>>))>>)>>,
          <<key(22), E("key", 23, <<>>, <<>>)>> } }
    \cup { E("table", 21, <<A("name", text(mail)), A("bean", text(mail)), A("lock", text(uid))>>, <<key(22)>>),
           E("table", 21, <<A("name", NoValue), A("bean", text(mail))>>, <<key(22)>>) }

\* Name, bean and partial indexes of the second table.
SecondTables(b) ==
    { table(31, n, b, <<key(32)>>) : n \in
        {mail, <<c("user")>>, <<s("user"), Underscore, s("linux")>>, <<s("pdb")>>,
         <<s("mail"), Underscore, s("box")>>, <<s("user"), Underscore, Underscore, s("box")>>} }
    \cup { table(31, user, b, <<key(32)>> \o ixs) : ixs \in
        { <<index(33, <<A("variable", text(<<idx>>)), A("where", text(isRead)), A("method", text(Unread))>>)>>,
          <<index(33, <<A("where", text(isRead)), A("method", text(Unread))>>),
            index(34, <<A("where", text(isRead)), A("method", text(All))>>)>>,
          <<index(33, <<A("where", text(isOne)), A("method", text(Unread))>>),
            index(34, <<A("where", text(isRead)), A("method", text(Unread))>>)>>,
          <<index(33, <<A("variable", text(<<idx>>)), A("where", text(isRead)), A("unique", yes), A("method", text(All))>>)>>,
          <<index(33, <<A("where", text(isRead)), A("method", text(<<c("by"), c("id")>>))>>)>>,
          <<index(33, <<A("where", text(isRead))>>)>>,
          <<index(33, <<A("where", text(isRead \o isRead)), A("method", text(Unread))>>)>>,
          <<index(33, <<A("where", text(isRead)), A("unique", yes), A("method", text(Unread))>>)>>,
          <<index(33, <<A("variable", text(<<idx>>)), A("method", text(All))>>)>>,
          <<index(33, <<A("variable", text(<<idx, idx>>))>>)>>,
          <<index(33, <<A("unique", text(All)), A("variable", text(<<uid>>))>>)>> } }

Document(b1, b2, t1, t2) == E("pdb", 0, <<>>, <<b1, b2, t1, t2>>)

AllDocuments ==
    UNION {{Document(b1, b2, t1, t2) : b1 \in FirstBeans, t1 \in FirstTables,
                t2 \in SecondTables(b2.attrs[1].value.v) \cup {table(31, user, uid, <<>>)}} :
               b2 \in SecondBeans}
    \cup {E("bean", 0, <<>>, <<>>), E("pdb", 0, <<A("showSQL", text(All))>>, <<index(1, <<>>)>>)}
=============================================================================
