-------------------------- MODULE WorkingSetProofs --------------------------
(***************************************************************************)
(* Theorems about WorkingSet, for any number of cells, primary keys,       *)
(* transactions and changes of others.                                     *)
(***************************************************************************)
EXTENDS WorkingSet, FiniteSetTheorems, SequenceTheorems, TLAPS

\* An entity without a row has none of the marks that a row brings.
Plain(e) == ~e.loaded => ~e.detached /\ ~e.deleted

\* Flush list, snapshots and identity map are about the same entities, and
\* between transactions there are none.
ListInv ==
    /\ \A i, j \in DOMAIN items : items[i] = items[j] => i = j
    /\ \A o \in Ptrs : snaps[o] # Nil <=> o \in Registered
    /\ \A o \in Registered : heap[o] # Nil
    /\ \A id \in Ids : cache[id] # Nil => cache[id] \in Registered
    /\ pc # "flush" => batch = {}
    /\ pc = "idle" => /\ items = <<>> /\ lock = NoLock
                      /\ \A id \in Ids : mine[id] = NotWritten

\* Primary keys come from the sequence, and what has one knows of it.
Known(e) == e.id < nextId /\ (e.loaded => e.id # 0)

KeyInv ==
    /\ \A o \in Ptrs : heap[o] # Nil => Known(heap[o])
    /\ \A o \in Ptrs : snaps[o] # Nil => Known(snaps[o])
    /\ \A id \in Ids : id >= nextId => /\ db[id] = NoRow /\ mine[id] = NotWritten
                                       /\ cache[id] = Nil

MarkInv ==
    /\ \A o \in Ptrs : heap[o] # Nil => Plain(heap[o])
    /\ \A o \in Ptrs : snaps[o] # Nil => Plain(snaps[o])
    /\ Owned => \A o \in Registered :
          heap[o].foreign => ~heap[o].deleted /\ heap[o].dirty = {}
    /\ \A i \in batch : FlushStmt(heap[items[i]]) # "none"

\* With lock="uid": the row of an entity that may be changed is under the lock,
\* and so was every row that has been written.
OwnInv ==
    Owned =>
        /\ \A o \in Registered : LET e == heap[o] IN
              e.loaded /\ ~e.foreign /\ mine[e.id] = NotWritten /\ db[e.id] # NoRow
                  => lock # NoLock /\ db[e.id].uid = lock
        /\ \A id \in Ids : mine[id] # NotWritten /\ db[id] # NoRow => db[id].uid = lock

\* What holds of every program.
Inv == TypeOK /\ ListInv /\ KeyInv /\ MarkInv /\ OwnInv /\ EntitiesBelongToOneTransaction

\* The ghost is what Rollback restores.
EntryInv ==
    /\ \A o \in Registered : snaps[o] = entry[o]
    /\ \A o \in Ptrs \ Registered : entry[o] = heap[o]

\* What an entity says and no statement is to write is in the table already.
\* The entity was as in before when the transaction got it; of its row, m is
\* what the transaction has written and d what is committed.
Written(e, before, m, d) ==
    /\ ~e.loaded /\ e.id # 0 => m = NoRow
    /\ e.loaded => \A c \in Columns \ e.dirty :
          e.row[c] # before.row[c] \/ before.id = 0 => m \in Row /\ m[c] = e.row[c]
    /\ Owned /\ e.loaded /\ ~e.foreign =>
          LET row == IF m = NotWritten THEN d ELSE m
          IN  row # NoRow /\ \A c \in Columns \ e.dirty : row[c] = e.row[c]

MemoryInv ==
    /\ \A o \in Registered : Written(heap[o], entry[o], mine[heap[o].id], db[heap[o].id])
    /\ pc \in {"flush", "commit"} =>
          \A i \in DOMAIN items : FlushStmt(heap[items[i]]) # "none" => i \in batch

\* What holds of programs that leave deleted entities alone.
CarefulInv == OneEntityPerRow /\ EntryInv /\ MemoryInv

-----------------------------------------------------------------------------
(* The methods of an entity *)

LEMMA Fresh == New \in EntityType /\ Plain(New) /\ ~New.loaded /\ New.id = 0
  BY ZeroAssumption DEF New, EntityType, Row, Plain

LEMMA Scanned ==
  ASSUME NEW id \in Nat, NEW row \in Row
  PROVE  LET e == Scan(id, row) IN
         /\ e \in EntityType /\ e.id = id /\ e.row = row /\ e.loaded
         /\ ~e.deleted /\ ~e.detached /\ ~e.foreign /\ e.dirty = {}
  BY ZeroAssumption DEF Scan, New, EntityType, Row

LEMMA Marked ==
  ASSUME NEW e \in EntityType
  PROVE  LET f == MarkForeign(e) IN
         /\ f \in EntityType /\ f.foreign
         /\ f.id = e.id /\ f.row = e.row /\ f.loaded = e.loaded
         /\ f.deleted = e.deleted /\ f.detached = e.detached /\ f.dirty = e.dirty
  BY DEF MarkForeign, EntityType

LEMMA Detached ==
  ASSUME NEW e \in EntityType
  PROVE  LET f == Detach(e) IN
         /\ f \in EntityType /\ (f.loaded => f.detached)
         /\ f.id = e.id /\ f.row = e.row /\ f.loaded = e.loaded
         /\ f.deleted = e.deleted /\ f.foreign = e.foreign /\ f.dirty = e.dirty
         /\ ~e.loaded => f = e
  BY DEF Detach, EntityType

LEMMA Done ==
  ASSUME NEW e \in EntityType
  PROVE  LET f == FlushDone(e) IN
         /\ f \in EntityType /\ ~f.deleted /\ f.dirty = {}
         /\ f.id = e.id /\ f.row = e.row
         /\ f.detached = e.detached /\ f.foreign = e.foreign
         /\ f.loaded = (e.loaded /\ ~e.deleted)
  BY DEF FlushDone, EntityType

LEMMA InsertedEntity ==
  ASSUME NEW e \in EntityType, NEW id \in Nat
  PROVE  LET f == Inserted(e, id) IN
         /\ f \in EntityType /\ f.id = id /\ f.loaded /\ f.dirty = {}
         /\ f.row = e.row /\ f.deleted = e.deleted
         /\ f.detached = e.detached /\ f.foreign = e.foreign
  BY DEF Inserted, EntityType

\* What a setter or Delete may do to an entity.
Edited(e, f) ==
    /\ f \in EntityType /\ f.id = e.id /\ f.loaded = e.loaded
    /\ f.detached = e.detached /\ f.foreign = e.foreign
    /\ e.dirty \subseteq f.dirty
    /\ \A c \in Columns \ f.dirty : f.row[c] = e.row[c]
    /\ f.deleted => e.deleted \/ e.loaded

LEMMA SetEdits ==
  ASSUME NEW e \in EntityType
  PROVE  /\ \A u \in Uids : Edited(e, Set(e, "uid", u))
         /\ \A v \in Vals : Edited(e, Set(e, "val", v))
         /\ Edited(e, Delete(e))
<1>1. ASSUME NEW u \in Uids PROVE Edited(e, Set(e, "uid", u))
  BY DEF Edited, Set, EntityType, Row, Columns
<1>2. ASSUME NEW v \in Vals PROVE Edited(e, Set(e, "val", v))
  BY DEF Edited, Set, EntityType, Row, Columns
<1>3. Edited(e, Delete(e))
  BY DEF Edited, Delete, EntityType, Row, Columns
<1> QED BY <1>1, <1>2, <1>3

LEMMA Statements ==
  ASSUME NEW e \in EntityType
  PROVE  /\ FlushStmt(e) = "none" <=> ~e.loaded \/ (~e.deleted /\ e.dirty = {})
         /\ FlushStmt(e) = "delete" <=> e.loaded /\ e.deleted
  BY DEF FlushStmt, EntityType

LEMMA Updates ==
  ASSUME NEW row \in Row, NEW e \in EntityType
  PROVE  LET r == UpdateStmt(row, e) IN
         /\ r \in Row
         /\ \A c \in Columns : r[c] = IF c \in e.dirty THEN e.row[c] ELSE row[c]
  BY DEF UpdateStmt, EntityType, Row, Columns

-----------------------------------------------------------------------------
(* What queries and Insert do to the working set *)

\* The rows of a result are put into some order.
LEMMA Ordered ==
  ASSUME NEW S, IsFiniteSet(S)
  PROVE  LET s == SetToSeq(S) IN
         /\ Cardinality(S) \in Nat
         /\ s \in [1 .. Cardinality(S) -> S]
         /\ \A i, j \in 1 .. Cardinality(S) : s[i] = s[j] => i = j
         /\ \A x \in S : \E i \in 1 .. Cardinality(S) : s[i] = x
<1>1. Cardinality(S) \in Nat /\ ExistsBijection(1 .. Cardinality(S), S)
  BY FS_CardinalityType
<1>2. \E f \in [1 .. Cardinality(S) -> S] : IsInjective(f)
  BY <1>1 DEF ExistsBijection, Bijection, Injection
<1>3. SetToSeq(S) \in [1 .. Cardinality(S) -> S] /\ IsInjective(SetToSeq(S))
  BY <1>2 DEF SetToSeq
<1>4. SetToSeq(S) \in Injection(1 .. Cardinality(S), S)
  BY <1>3 DEF Injection
<1>5. IsFiniteSet(1 .. Cardinality(S)) /\ Cardinality(1 .. Cardinality(S)) = Cardinality(S)
  BY <1>1, FS_Interval
<1>6. SetToSeq(S) \in Surjection(1 .. Cardinality(S), S)
  BY <1>4, <1>5, FS_Injection
<1> QED BY <1>1, <1>3, <1>6 DEF IsInjective, Surjection

\* What a query adds: new are the cells of the rows that had no entity, key[o]
\* is the primary key of the row in cell o.
Adds(new, key) ==
    /\ heap'  = [o \in Ptrs |-> IF o \in new THEN Admitted(Scan(key[o], View(key[o]))) ELSE heap[o]]
    /\ snaps' = [o \in Ptrs |-> IF o \in new THEN Scan(key[o], View(key[o])) ELSE snaps[o]]
    /\ entry' = [o \in Ptrs |-> IF o \in new THEN Scan(key[o], View(key[o])) ELSE entry[o]]
    /\ cache' \in [Ids -> Ptrs \cup {Nil}]
    /\ \A o \in new : cache[key[o]] = Nil /\ cache'[key[o]] = o
    /\ \A id \in Ids : \/ cache'[id] = cache[id]
                       \/ \E o \in new : key[o] = id
    /\ items' \in Seq(Ptrs)
    /\ DOMAIN items \subseteq DOMAIN items'
    /\ Range(items') = Registered \cup new
    /\ \A i, j \in DOMAIN items' : items'[i] = items'[j] => i = j

LEMMA Appending ==
  ASSUME NEW S, NEW s \in Seq(S), NEW n \in Nat, NEW t \in [1 .. n -> S],
         \A i, j \in DOMAIN s : s[i] = s[j] => i = j,
         \A i, j \in 1 .. n : t[i] = t[j] => i = j,
         \A i \in DOMAIN s, j \in 1 .. n : s[i] # t[j]
  PROVE  /\ s \o t \in Seq(S)
         /\ DOMAIN s \subseteq DOMAIN (s \o t)
         /\ \A i \in DOMAIN s : (s \o t)[i] = s[i]
         /\ Range(s \o t) = Range(s) \cup Range(t)
         /\ \A i, j \in DOMAIN (s \o t) : (s \o t)[i] = (s \o t)[j] => i = j
<1> DEFINE r == s \o t
<1>1. t \in Seq(S) /\ Len(t) = n /\ DOMAIN t = 1 .. n
  OBVIOUS
<1> USE <1>1
<1>2. /\ r \in Seq(S) /\ Len(r) = Len(s) + n
      /\ \A i \in 1 .. Len(s) + n : r[i] = IF i <= Len(s) THEN s[i] ELSE t[i - Len(s)]
  <2>1. /\ r \in Seq(S) /\ Len(r) = Len(s) + Len(t)
        /\ \A i \in 1 .. Len(s) + Len(t) : r[i] = IF i <= Len(s) THEN s[i] ELSE t[i - Len(s)]
    OBVIOUS
  <2> QED BY <2>1
<1>3. /\ Len(s) \in Nat /\ DOMAIN s = 1 .. Len(s) /\ DOMAIN r = 1 .. Len(s) + n
  BY <1>2, LenProperties
<1> HIDE DEF r
<1>4. \A i \in DOMAIN s : r[i] = s[i]
  BY <1>2, <1>3
<1>5. \A j \in 1 .. n : Len(s) + j \in DOMAIN r /\ r[Len(s) + j] = t[j]
  BY <1>2, <1>3
<1>6. \A i \in DOMAIN r : i \in DOMAIN s \/ \E j \in 1 .. n : i = Len(s) + j
  <2> TAKE i \in DOMAIN r
  <2>1. CASE i <= Len(s)
    BY <2>1, <1>3
  <2>2. CASE i > Len(s)
    <3>1. i - Len(s) \in 1 .. n /\ i = Len(s) + (i - Len(s))
      BY <2>2, <1>3
    <3> QED BY <3>1
  <2> QED BY <2>1, <2>2, <1>3
<1>7. DOMAIN s \subseteq DOMAIN r
  BY <1>3
<1>8. Range(r) = Range(s) \cup Range(t)
  <2>1. ASSUME NEW x \in Range(r) PROVE x \in Range(s) \cup Range(t)
    <3> PICK i \in DOMAIN r : r[i] = x
      BY <2>1 DEF Range
    <3>1. CASE i \in DOMAIN s
      BY <3>1, <1>4 DEF Range
    <3>2. ASSUME NEW j \in 1 .. n, i = Len(s) + j PROVE x \in Range(t)
      <4>1. t[j] = x
        BY <3>2, <1>5
      <4> QED BY <4>1 DEF Range
    <3> QED BY <3>1, <3>2, <1>6
  <2>2. ASSUME NEW x \in Range(s) PROVE x \in Range(r)
    BY <2>2, <1>4, <1>7 DEF Range
  <2>3. ASSUME NEW x \in Range(t) PROVE x \in Range(r)
    BY <2>3, <1>5 DEF Range
  <2> QED BY <2>1, <2>2, <2>3
<1>9. ASSUME NEW i \in DOMAIN r, NEW j \in DOMAIN r, r[i] = r[j] PROVE i = j
  <2>1. CASE i \in DOMAIN s /\ j \in DOMAIN s
    BY <2>1, <1>9, <1>4
  <2>2. CASE i \in DOMAIN s /\ \E k \in 1 .. n : j = Len(s) + k
    <3> PICK k \in 1 .. n : j = Len(s) + k
      BY <2>2
    <3>1. s[i] = t[k]
      BY <2>2, <1>9, <1>4, <1>5
    <3> QED BY <2>2, <3>1
  <2>3. CASE j \in DOMAIN s /\ \E k \in 1 .. n : i = Len(s) + k
    <3> PICK k \in 1 .. n : i = Len(s) + k
      BY <2>3
    <3>1. s[j] = t[k]
      BY <2>3, <1>9, <1>4, <1>5
    <3> QED BY <2>3, <3>1
  <2>4. CASE \E k, l \in 1 .. n : i = Len(s) + k /\ j = Len(s) + l
    <3> PICK k \in 1 .. n, l \in 1 .. n : i = Len(s) + k /\ j = Len(s) + l
      BY <2>4
    <3>1. t[k] = t[l]
      BY <1>9, <1>5
    <3> QED BY <3>1
  <2> QED BY <2>1, <2>2, <2>3, <2>4, <1>6
<1>10. r \in Seq(S)
  BY <1>2
<1> QED BY <1>4, <1>7, <1>8, <1>9, <1>10 DEF r

LEMMA ReadAdds ==
  ASSUME TypeOK, ListInv, NEW ids \in SUBSET Visible, Read(ids)
  PROVE  \E new \in SUBSET (Ptrs \ Registered) : \E key \in [new -> ids] :
            Adds(new, key) /\ \A id \in ids : cache[id] # Nil \/ \E o \in new : key[o] = id
<1> DEFINE missing == {id \in ids : cache[id] = Nil}
           order == SetToSeq(missing)
           n == Cardinality(missing)
<1>1. ids \subseteq Ids
  BY DEF Visible
<1>2. IsFiniteSet(missing)
  <2>1. IsFiniteSet(Ids)
    BY FS_Interval, BoundAssumption DEF Ids
  <2>2. missing \in SUBSET Ids
    BY <1>1
  <2> QED BY <2>1, <2>2, FS_Subset
<1>3. /\ n \in Nat /\ order \in [1 .. n -> missing]
      /\ \A i, j \in 1 .. n : order[i] = order[j] => i = j
      /\ \A x \in missing : \E i \in 1 .. n : order[i] = x
  BY <1>2, Ordered
<1>4. DOMAIN order = 1 .. n
  BY <1>3
<1> HIDE DEF missing, order, n
<1>5. PICK cell \in {f \in [missing -> Unused] : IsInjective(f)} :
         /\ heap'  = [o \in Ptrs |-> IF o \in Range(cell)
                         THEN Admitted(Scan(AntiFunction(cell)[o], View(AntiFunction(cell)[o])))
                         ELSE heap[o]]
         /\ snaps' = [o \in Ptrs |-> IF o \in Range(cell)
                         THEN Scan(AntiFunction(cell)[o], View(AntiFunction(cell)[o]))
                         ELSE snaps[o]]
         /\ entry' = [o \in Ptrs |-> IF o \in Range(cell)
                         THEN Scan(AntiFunction(cell)[o], View(AntiFunction(cell)[o]))
                         ELSE entry[o]]
         /\ cache' = [id \in Ids |-> IF id \in missing THEN cell[id] ELSE cache[id]]
         /\ items' = items \o [i \in DOMAIN order |-> cell[order[i]]]
  BY Zenon DEF Read, missing, order
<1>6. cell \in [missing -> Ptrs \ Registered] /\ \A a, b \in missing : cell[a] = cell[b] => a = b
  BY <1>5 DEF IsInjective, Unused
<1> DEFINE new == Range(cell)
           key == AntiFunction(cell)
           t == [i \in DOMAIN order |-> cell[order[i]]]
<1>7. new \in SUBSET (Ptrs \ Registered) /\ \A id \in missing : cell[id] \in new
  BY <1>6 DEF Range
<1>8. \A o \in new : \E id \in missing : cell[id] = o
  BY <1>6 DEF Range
<1>9. key \in [new -> missing] /\ \A o \in new : cell[key[o]] = o
  BY <1>6, <1>8 DEF AntiFunction, Inverse
<1>10. key \in [new -> ids] /\ \A id \in missing : key[cell[id]] = id
  BY <1>6, <1>7, <1>9 DEF missing
<1>11. /\ heap'  = [o \in Ptrs |-> IF o \in new THEN Admitted(Scan(key[o], View(key[o]))) ELSE heap[o]]
       /\ snaps' = [o \in Ptrs |-> IF o \in new THEN Scan(key[o], View(key[o])) ELSE snaps[o]]
       /\ entry' = [o \in Ptrs |-> IF o \in new THEN Scan(key[o], View(key[o])) ELSE entry[o]]
  BY <1>5, Zenon
<1>12. /\ t \in [1 .. n -> Ptrs]
       /\ \A i, j \in 1 .. n : t[i] = t[j] => i = j
       /\ \A i \in DOMAIN items, j \in 1 .. n : items[i] # t[j]
       /\ Range(t) = new
  <2>1. t \in [1 .. n -> Ptrs] /\ \A i \in 1 .. n : t[i] = cell[order[i]] /\ order[i] \in missing
    BY <1>3, <1>4, <1>6
  <2> HIDE DEF t
  <2>2. \A i, j \in 1 .. n : t[i] = t[j] => i = j
    BY <2>1, <1>3, <1>6
  <2>3. \A i \in DOMAIN items, j \in 1 .. n : items[i] # t[j]
    BY <2>1, <1>6 DEF Registered, Range
  <2>4. Range(t) = new
    BY <2>1, <1>3, <1>6 DEF Range
  <2> QED BY <2>1, <2>2, <2>3, <2>4
<1> HIDE DEF t, new, key
<1>13. items \in Seq(Ptrs) /\ items' = items \o t
  BY <1>5 DEF TypeOK, t
<1>14. /\ items' \in Seq(Ptrs) /\ DOMAIN items \subseteq DOMAIN items'
       /\ Range(items') = Registered \cup new
       /\ \A i, j \in DOMAIN items' : items'[i] = items'[j] => i = j
  <2>1. /\ n \in Nat /\ t \in [1 .. n -> Ptrs] /\ items \in Seq(Ptrs)
        /\ \A i, j \in DOMAIN items : items[i] = items[j] => i = j
        /\ \A i, j \in 1 .. n : t[i] = t[j] => i = j
        /\ \A i \in DOMAIN items, j \in 1 .. n : items[i] # t[j]
    BY <1>3, <1>12, <1>13 DEF ListInv
  <2> HIDE DEF missing
  <2>2. /\ items \o t \in Seq(Ptrs) /\ DOMAIN items \subseteq DOMAIN (items \o t)
        /\ \A i \in DOMAIN items : (items \o t)[i] = items[i]
        /\ Range(items \o t) = Range(items) \cup Range(t)
        /\ \A i, j \in DOMAIN (items \o t) : (items \o t)[i] = (items \o t)[j] => i = j
    BY SMTT(30), <2>1, Appending
  <2> QED BY <2>2, <1>12, <1>13 DEF Registered
<1>15. /\ cache' \in [Ids -> Ptrs \cup {Nil}]
       /\ \A o \in new : cache[key[o]] = Nil /\ cache'[key[o]] = o
       /\ \A id \in Ids : \/ cache'[id] = cache[id]
                          \/ \E o \in new : key[o] = id
  BY <1>1, <1>5, <1>6, <1>7, <1>9, <1>10 DEF TypeOK, missing
<1>16. \A id \in ids : cache[id] # Nil \/ \E o \in new : key[o] = id
  BY <1>7, <1>10 DEF missing
<1>17. Adds(new, key)
  BY <1>11, <1>14, <1>15 DEF Adds
<1> QED BY <1>7, <1>10, <1>16, <1>17

LEMMA AdmittedEntity ==
  ASSUME NEW e \in EntityType
  PROVE  LET f == Admitted(e) IN
         /\ f \in EntityType /\ f.id = e.id /\ f.row = e.row /\ f.loaded = e.loaded
         /\ f.deleted = e.deleted /\ f.detached = e.detached /\ f.dirty = e.dirty
         /\ e.id = 0 => f = e
         /\ Owned /\ ~f.foreign /\ e.id # 0 => lock # NoLock /\ e.row.uid = lock
<1>1. CASE Owned /\ e.id # 0 /\ ~Holds(e.row.uid)
  <2>1. Admitted(e) = MarkForeign(e)
    BY <1>1 DEF Admitted
  <2> QED BY <2>1, <1>1, Marked
<1>2. CASE ~(Owned /\ e.id # 0 /\ ~Holds(e.row.uid))
  BY <1>2 DEF Admitted, Holds
<1> QED BY <1>1, <1>2

\* A working set as a value.
WorkingSets ==
    [heap : [Ptrs -> EntityType \cup {Nil}], items : Seq(Ptrs),
     snaps : [Ptrs -> EntityType \cup {Nil}], cache : [Ids -> Ptrs \cup {Nil}]]

LEMMA FirstRegistration ==
  ASSUME NEW w \in WorkingSets, NEW o \in Ptrs, w.heap[o] \in EntityType,
         w.snaps[o] = Nil, w.heap[o].id = 0 \/ w.cache[w.heap[o].id] = Nil
  PROVE  LET r == Register(w, o) IN
         /\ r.heap = [w.heap EXCEPT ![o] = Admitted(@)]
         /\ r.items = Append(w.items, o)
         /\ r.snaps = [w.snaps EXCEPT ![o] = w.heap[o]]
         /\ r.cache = IF w.heap[o].id # 0 THEN [w.cache EXCEPT ![w.heap[o].id] = o] ELSE w.cache
  BY DEF Register

LEMMA SecondRegistration ==
  ASSUME NEW w \in WorkingSets, NEW o \in Ptrs, w.heap[o] \in EntityType,
         w.snaps[o] # Nil, w.heap[o].id = 0 \/ w.cache[w.heap[o].id] = Nil
  PROVE  LET r == Register(w, o) IN
         /\ r.heap = w.heap /\ r.items = w.items /\ r.snaps = w.snaps
         /\ r.cache = IF w.heap[o].id # 0 THEN [w.cache EXCEPT ![w.heap[o].id] = o] ELSE w.cache
  BY DEF Register

LEMMA KnownRegistration ==
  ASSUME NEW w, NEW o, w.heap[o].id # 0, w.cache[w.heap[o].id] # Nil
  PROVE  Register(w, o) = w
  BY DEF Register

\* What Insert makes of the entity in cell o, of which s becomes the snapshot.
Inserts(o, f, s) ==
    /\ f \in EntityType /\ f.id = nextId /\ f.loaded /\ f.dirty = {}
    /\ f.row = heap[o].row /\ f.deleted = heap[o].deleted /\ f.detached = heap[o].detached
    /\ heap' = [heap EXCEPT ![o] = f]
    /\ s \in EntityType
    /\ s = heap[o] \/ (s.id = nextId /\ s.loaded)
    /\ snaps' = IF o \in Registered THEN snaps ELSE [snaps EXCEPT ![o] = s]
    /\ items' = IF o \in Registered THEN items ELSE Append(items, o)
    /\ cache' \in [Ids -> Ptrs \cup {Nil}] /\ cache'[nextId] = o
    /\ \A id \in Ids : \/ cache'[id] = cache[id]
                       \/ cache'[id] = o /\ id \in {nextId, heap[o].id}
    /\ heap[o].id = 0 =>
          /\ f.foreign = heap[o].foreign /\ s = heap[o]
          /\ cache' = [cache EXCEPT ![nextId] = o]

LEMMA InsertRegisters ==
  ASSUME TypeOK, ListInv, KeyInv, NEW o \in Ptrs, Insert(o)
  PROVE  \E f, s \in EntityType : Inserts(o, f, s)
<1> DEFINE w == Register(Current, o)
           v == [w EXCEPT !.heap[o] = Inserted(@, nextId)]
           r == Register(v, o)
           e == heap[o]
           m == Admitted(e)
           f == Inserted(e, nextId)
           g == Inserted(m, nextId)
<1>1. /\ e \in EntityType /\ nextId \in Nat /\ nextId \in Ids /\ nextId # 0
      /\ cache[nextId] = Nil /\ (snaps[o] # Nil <=> o \in Registered)
      /\ snaps[o] \in EntityType \cup {Nil}
      /\ e.id # nextId /\ e.id \in Nat /\ (e.id # 0 => e.id \in Ids)
  <2>1. e \in EntityType /\ nextId \in Nat /\ nextId \in Ids /\ nextId # 0 /\ snaps[o] \in EntityType \cup {Nil}
    BY BoundAssumption DEF Insert, Usable, TypeOK, Ids
  <2>2. e.id < nextId /\ e.id \in Nat
    BY <2>1, NilAssumption DEF KeyInv, Known, EntityType
  <2>3. cache[nextId] = Nil
    BY <2>1 DEF KeyInv
  <2>4. snaps[o] # Nil <=> o \in Registered
    BY DEF ListInv
  <2>5. e.id # 0 => e.id \in Ids
    BY <2>1, <2>2, BoundAssumption DEF Ids
  <2> QED BY <2>1, <2>2, <2>3, <2>4, <2>5
<1>2. /\ heap' = r.heap /\ items' = r.items /\ snaps' = r.snaps /\ cache' = r.cache
  BY DEF Insert, Becomes
<1>3. Current \in WorkingSets
  BY DEF Current, WorkingSets, TypeOK
<1>4. Current.heap = heap /\ Current.items = items /\ Current.snaps = snaps /\ Current.cache = cache
  BY DEF Current
<1>5. /\ m \in EntityType /\ m.id = e.id /\ m.row = e.row /\ m.loaded = e.loaded
      /\ m.deleted = e.deleted /\ m.detached = e.detached /\ m.dirty = e.dirty
      /\ e.id = 0 => m = e
  BY <1>1, AdmittedEntity
<1>6. /\ f \in EntityType /\ f.id = nextId /\ f.loaded /\ f.dirty = {}
      /\ f.row = e.row /\ f.deleted = e.deleted
      /\ f.detached = e.detached /\ f.foreign = e.foreign
  BY <1>1, InsertedEntity
<1>7. /\ g \in EntityType /\ g.id = nextId /\ g.loaded /\ g.dirty = {}
      /\ g.row = e.row /\ g.deleted = e.deleted
      /\ g.detached = e.detached /\ g.foreign = m.foreign
  BY SMTT(30), <1>1, <1>5, InsertedEntity
<1>8. heap \in [Ptrs -> EntityType \cup {Nil}] /\ cache \in [Ids -> Ptrs \cup {Nil}]
      /\ snaps \in [Ptrs -> EntityType \cup {Nil}] /\ items \in Seq(Ptrs)
  BY DEF TypeOK
<1> HIDE DEF e, m, f, g
<1>10. CASE e.id # 0 /\ cache[e.id] # Nil
  <2>1. w = Current
    BY <1>10, <1>4, KnownRegistration DEF e
  <2>2. v \in WorkingSets /\ v.heap = [heap EXCEPT ![o] = f]
        /\ v.items = items /\ v.snaps = snaps /\ v.cache = cache
    BY <2>1, <1>4, <1>6, <1>8 DEF Current, WorkingSets, f, e
  <2>3. v.heap[o] = f
    BY <2>2, <1>8
  <2> HIDE DEF v
  <2>4. CASE o \in Registered
    <3>1. r.heap = v.heap /\ r.items = v.items /\ r.snaps = v.snaps /\ r.cache = [v.cache EXCEPT ![nextId] = o]
      BY <2>2, <2>3, <2>4, <1>1, <1>6, SecondRegistration
    <3>2. Inserts(o, f, e)
      BY <3>1, <2>2, <2>4, <1>1, <1>2, <1>6, <1>8, <1>10 DEF Inserts, e
    <3> QED BY <3>2, <1>1, <1>6
  <2>5. CASE o \notin Registered
    <3>1. /\ r.heap = [v.heap EXCEPT ![o] = Admitted(@)] /\ r.items = Append(v.items, o)
          /\ r.snaps = [v.snaps EXCEPT ![o] = v.heap[o]] /\ r.cache = [v.cache EXCEPT ![nextId] = o]
      <4>1. /\ v \in WorkingSets /\ v.heap[o] \in EntityType /\ v.heap[o].id = nextId
            /\ v.snaps[o] = Nil /\ v.cache[v.heap[o].id] = Nil /\ v.heap[o].id # 0
        BY <2>2, <2>3, <2>5, <1>1, <1>6
      <4>2. /\ r.heap = [v.heap EXCEPT ![o] = Admitted(@)] /\ r.items = Append(v.items, o)
            /\ r.snaps = [v.snaps EXCEPT ![o] = v.heap[o]]
            /\ r.cache = IF v.heap[o].id # 0 THEN [v.cache EXCEPT ![v.heap[o].id] = o] ELSE v.cache
        BY <4>1, FirstRegistration
      <4> QED BY <4>1, <4>2
    <3>2. r.heap = [heap EXCEPT ![o] = Admitted(f)]
      <4>1. Admitted(v.heap[o]) = Admitted(f)
        BY <2>3, Zenon
      <4>2. r.heap = [v.heap EXCEPT ![o] = Admitted(v.heap[o])]
        BY <3>1, Zenon
      <4> QED BY <4>1, <4>2, <2>2, Zenon
    <3>3. PICK k \in EntityType :
             /\ r.heap = [heap EXCEPT ![o] = k]
             /\ k.id = nextId /\ k.row = e.row /\ k.loaded
             /\ k.deleted = e.deleted /\ k.detached = e.detached /\ k.dirty = {}
      <4> DEFINE k == Admitted(f)
      <4>1. k \in EntityType /\ k.id = nextId /\ k.row = e.row /\ k.loaded
            /\ k.deleted = e.deleted /\ k.detached = e.detached /\ k.dirty = {}
        BY <1>6, AdmittedEntity
      <4>2. r.heap = [heap EXCEPT ![o] = k]
        BY <3>2
      <4> HIDE DEF k, r
      <4> QED BY <4>1, <4>2
    <3>4. /\ r.items = Append(items, o)
          /\ r.snaps = [snaps EXCEPT ![o] = f] /\ r.cache = [cache EXCEPT ![nextId] = o]
      BY <3>1, <2>2, <2>3
    <3>5. Inserts(o, k, f)
      <4> HIDE DEF r
      <4>1. heap' = [heap EXCEPT ![o] = k]
        BY <3>3, <3>4, <2>5, <1>1, <1>2, <1>6, <1>8, <1>10
      <4>2. snaps' = IF o \in Registered THEN snaps ELSE [snaps EXCEPT ![o] = f]
        BY <3>3, <3>4, <2>5, <1>1, <1>2, <1>6, <1>8, <1>10
      <4>3. items' = IF o \in Registered THEN items ELSE Append(items, o)
        BY <3>3, <3>4, <2>5, <1>1, <1>2, <1>6, <1>8, <1>10
      <4>4. cache' \in [Ids -> Ptrs \cup {Nil}] /\ cache'[nextId] = o
        BY <3>3, <3>4, <2>5, <1>1, <1>2, <1>6, <1>8, <1>10
      <4>5. \A id \in Ids : cache'[id] = cache[id] \/ (cache'[id] = o /\ id \in {nextId, e.id})
        BY <3>3, <3>4, <2>5, <1>1, <1>2, <1>6, <1>8, <1>10
      <4>6. e.id = 0 => cache' = [cache EXCEPT ![nextId] = o]
        BY <3>3, <3>4, <2>5, <1>1, <1>2, <1>6, <1>8, <1>10
      <4> HIDE DEF m, f, g
      <4> QED BY <3>3, <3>4, <2>5, <1>1, <1>2, <1>6, <1>8, <1>10, <4>1, <4>2, <4>3, <4>4, <4>5, <4>6 DEF Inserts, e
    <3> QED BY <3>3, <3>5, <1>6
  <2> QED BY <2>4, <2>5
<1>11. CASE (e.id = 0 \/ cache[e.id] = Nil) /\ o \in Registered
  <2>1. /\ w.heap = heap /\ w.items = items /\ w.snaps = snaps
        /\ w.cache = IF e.id # 0 THEN [cache EXCEPT ![e.id] = o] ELSE cache
    BY <1>11, <1>1, <1>3, <1>4, SecondRegistration DEF e
  <2>2. w = [heap |-> w.heap, items |-> w.items, snaps |-> w.snaps, cache |-> w.cache]
    BY <1>11, <1>1, <1>4 DEF Register, e
  <2>3. w.cache \in [Ids -> Ptrs \cup {Nil}] /\ w.cache[nextId] = Nil
        /\ \A id \in Ids : w.cache[id] = cache[id] \/ (w.cache[id] = o /\ id = e.id)
    BY <2>1, <1>1, <1>8
  <2> HIDE DEF w
  <2>4. v \in WorkingSets /\ v.heap = [heap EXCEPT ![o] = f]
        /\ v.items = items /\ v.snaps = snaps /\ v.cache = w.cache
    BY <2>1, <2>2, <2>3, <1>6, <1>8 DEF WorkingSets, f, e
  <2>5. v.heap[o] = f
    BY <2>4, <1>8
  <2> HIDE DEF v
  <2>6. r.heap = v.heap /\ r.items = v.items /\ r.snaps = v.snaps /\ r.cache = [v.cache EXCEPT ![nextId] = o]
    <3>1. /\ v \in WorkingSets /\ v.heap[o] \in EntityType /\ v.heap[o].id = nextId
          /\ v.snaps[o] # Nil /\ v.cache[v.heap[o].id] = Nil /\ v.heap[o].id # 0
      BY <2>3, <2>4, <2>5, <1>1, <1>6, <1>11
    <3>2. /\ r.heap = v.heap /\ r.items = v.items /\ r.snaps = v.snaps
          /\ r.cache = IF v.heap[o].id # 0 THEN [v.cache EXCEPT ![v.heap[o].id] = o] ELSE v.cache
      BY <3>1, SecondRegistration
    <3> QED BY <3>1, <3>2
  <2>7. Inserts(o, f, e)
    <3> HIDE DEF r
    <3>1. heap' = [heap EXCEPT ![o] = f]
      BY <2>1, <2>3, <2>4, <2>6, <1>1, <1>2, <1>6, <1>8, <1>11
    <3>2. snaps' = IF o \in Registered THEN snaps ELSE [snaps EXCEPT ![o] = e]
      BY <2>1, <2>3, <2>4, <2>6, <1>1, <1>2, <1>6, <1>8, <1>11
    <3>3. items' = IF o \in Registered THEN items ELSE Append(items, o)
      BY <2>1, <2>3, <2>4, <2>6, <1>1, <1>2, <1>6, <1>8, <1>11
    <3>4. cache' \in [Ids -> Ptrs \cup {Nil}] /\ cache'[nextId] = o
      BY <2>1, <2>3, <2>4, <2>6, <1>1, <1>2, <1>6, <1>8, <1>11
    <3>5. \A id \in Ids : cache'[id] = cache[id] \/ (cache'[id] = o /\ id \in {nextId, e.id})
      BY <2>1, <2>3, <2>4, <2>6, <1>1, <1>2, <1>6, <1>8, <1>11
    <3>6. e.id = 0 => cache' = [cache EXCEPT ![nextId] = o]
      BY <2>1, <2>3, <2>4, <2>6, <1>1, <1>2, <1>6, <1>8, <1>11
    <3> HIDE DEF m, f, g
    <3> QED BY <2>1, <2>3, <2>4, <2>6, <1>1, <1>2, <1>6, <1>8, <1>11, <3>1, <3>2, <3>3, <3>4, <3>5, <3>6 DEF Inserts, e
  <2> QED BY <2>7, <1>1, <1>6
<1>12. CASE (e.id = 0 \/ cache[e.id] = Nil) /\ o \notin Registered
  <2>1. /\ w.heap = [heap EXCEPT ![o] = m] /\ w.items = Append(items, o)
        /\ w.snaps = [snaps EXCEPT ![o] = e]
        /\ w.cache = IF e.id # 0 THEN [cache EXCEPT ![e.id] = o] ELSE cache
    BY <1>12, <1>1, <1>3, <1>4, <1>8, FirstRegistration DEF e, m
  <2>2. w = [heap |-> w.heap, items |-> w.items, snaps |-> w.snaps, cache |-> w.cache]
    BY <1>12, <1>1, <1>4 DEF Register, e
  <2>3. w.cache \in [Ids -> Ptrs \cup {Nil}] /\ w.cache[nextId] = Nil
        /\ \A id \in Ids : w.cache[id] = cache[id] \/ (w.cache[id] = o /\ id = e.id)
    BY <2>1, <1>1, <1>8
  <2>4. w.heap \in [Ptrs -> EntityType \cup {Nil}] /\ w.heap[o] = m /\ w.items \in Seq(Ptrs)
        /\ w.snaps \in [Ptrs -> EntityType \cup {Nil}] /\ w.snaps[o] = e
    BY <2>1, <1>1, <1>5, <1>8
  <2> HIDE DEF w
  <2>5. v \in WorkingSets /\ v.heap = [heap EXCEPT ![o] = g]
        /\ v.items = Append(items, o) /\ v.snaps = w.snaps /\ v.cache = w.cache
    BY <2>1, <2>2, <2>3, <2>4, <1>7, <1>8 DEF WorkingSets, g, m
  <2>6. v.heap[o] = g
    BY <2>5, <1>8
  <2>7. v.snaps[o] # Nil
    BY <2>4, <2>5, <1>1, NilAssumption
  <2> HIDE DEF v
  <2>8. r.heap = v.heap /\ r.items = v.items /\ r.snaps = v.snaps /\ r.cache = [v.cache EXCEPT ![nextId] = o]
    <3>1. /\ v \in WorkingSets /\ v.heap[o] \in EntityType /\ v.heap[o].id = nextId
          /\ v.snaps[o] # Nil /\ v.cache[v.heap[o].id] = Nil /\ v.heap[o].id # 0
      BY <2>3, <2>5, <2>6, <2>7, <1>1, <1>7, <1>12
    <3>2. /\ r.heap = v.heap /\ r.items = v.items /\ r.snaps = v.snaps
          /\ r.cache = IF v.heap[o].id # 0 THEN [v.cache EXCEPT ![v.heap[o].id] = o] ELSE v.cache
      BY <3>1, SecondRegistration
    <3> QED BY <3>1, <3>2
  <2>9. e.id = 0 => g.foreign = e.foreign
    BY <1>5, <1>7
  <2>10. Inserts(o, g, e)
    <3> HIDE DEF r
    <3>1. heap' = [heap EXCEPT ![o] = g]
      BY <2>1, <2>3, <2>5, <2>8, <2>9, <1>1, <1>2, <1>7, <1>8, <1>12
    <3>2. snaps' = IF o \in Registered THEN snaps ELSE [snaps EXCEPT ![o] = e]
      BY <2>1, <2>3, <2>5, <2>8, <2>9, <1>1, <1>2, <1>7, <1>8, <1>12
    <3>3. items' = IF o \in Registered THEN items ELSE Append(items, o)
      BY <2>1, <2>3, <2>5, <2>8, <2>9, <1>1, <1>2, <1>7, <1>8, <1>12
    <3>4. cache' \in [Ids -> Ptrs \cup {Nil}] /\ cache'[nextId] = o
      BY <2>1, <2>3, <2>5, <2>8, <2>9, <1>1, <1>2, <1>7, <1>8, <1>12
    <3>5. \A id \in Ids : cache'[id] = cache[id] \/ (cache'[id] = o /\ id \in {nextId, e.id})
      BY <2>1, <2>3, <2>5, <2>8, <2>9, <1>1, <1>2, <1>7, <1>8, <1>12
    <3>6. e.id = 0 => cache' = [cache EXCEPT ![nextId] = o]
      BY <2>1, <2>3, <2>5, <2>8, <2>9, <1>1, <1>2, <1>7, <1>8, <1>12
    <3> HIDE DEF m, f, g
    <3> QED BY <2>1, <2>3, <2>5, <2>8, <2>9, <1>1, <1>2, <1>7, <1>8, <1>12, <3>1, <3>2, <3>3, <3>4, <3>5, <3>6 DEF Inserts, e
  <2> QED BY <2>10, <1>1, <1>7
<1> QED BY <1>10, <1>11, <1>12

-----------------------------------------------------------------------------
(* The steps, in the form in which the proofs need them *)

\* A setter or Delete: the entity in cell o becomes e.
Edits(o, e) ==
    /\ heap[o] \in EntityType /\ Edited(heap[o], e)
    /\ ~heap[o].detached /\ (Owned => ~heap[o].foreign)
    /\ pc \in {"idle", "fn"}
    /\ heap' = [heap EXCEPT ![o] = e]
    /\ entry' = IF o \in Registered THEN entry ELSE [entry EXCEPT ![o] = e]
    /\ UNCHANGED <<pc, txns, others, lock, items, snaps, cache, batch, db, mine, nextId>>

\* A query.
Reads(new, key) ==
    /\ pc = "fn" /\ key \in [new -> Visible] /\ Adds(new, key)
    /\ UNCHANGED <<pc, txns, others, lock, batch, db, mine, nextId>>

\* A new entity that nobody has registered.
Replaces(o, e) ==
    /\ pc \in {"idle", "fn"} /\ o \notin Registered
    /\ e \in EntityType /\ Plain(e) /\ Known(e) /\ (e.loaded => e.detached /\ pc = "idle")
    /\ heap' = [heap EXCEPT ![o] = e] /\ entry' = [entry EXCEPT ![o] = e]
    /\ UNCHANGED <<pc, txns, others, lock, items, snaps, cache, batch, db, mine, nextId>>

\* The statement of position i.
Flushes(i) ==
    LET o == items[i]
        e == heap[o]
    IN  /\ pc = "flush" /\ o \in Registered /\ e \in EntityType /\ e.loaded /\ e.id \in Ids
        /\ FlushStmt(e) # "none" /\ View(e.id) \in Row
        /\ mine' = [mine EXCEPT ![e.id] =
                       IF FlushStmt(e) = "delete" THEN NoRow ELSE UpdateStmt(View(e.id), e)]
        /\ mine' \in [Ids -> Row \cup {NoRow, NotWritten}] /\ mine'[e.id] # NotWritten
        /\ heap' = [heap EXCEPT ![o] = FlushDone(e)]
        /\ batch' = batch \ {i}
        /\ UNCHANGED <<pc, txns, others, lock, items, snaps, cache, db, nextId, entry>>

\* The end of a transaction with the entities as in h.
Ends(h) ==
    /\ h \in [Ptrs -> EntityType \cup {Nil}]
    /\ \A o \in Ptrs : h[o] = heap[o] \/ (snaps[o] # Nil /\ h[o] = snaps[o])
    /\ \A o \in Registered : h[o] # Nil
    /\ pc # "idle" /\ End(h)
    /\ db' \in [Ids -> Row \cup {NoRow}]
    /\ \A id \in Ids : db'[id] = db[id] \/ db'[id] = View(id)
    /\ UNCHANGED <<txns, others, nextId>>

LEMMA Views ==
  ASSUME TypeOK, NEW id \in Ids
  PROVE  /\ View(id) \in Row \cup {NoRow}
         /\ id \in Visible <=> View(id) \in Row
         /\ mine[id] = NotWritten => View(id) = db[id]
         /\ mine[id] # NotWritten => View(id) = mine[id]
  BY NoRowAssumption DEF TypeOK, View, Visible

LEMMA RegisteredCells == ASSUME TypeOK PROVE Registered \subseteq Ptrs
  BY DEF TypeOK, Registered, Range

LEMMA Positions ==
  ASSUME TypeOK, NEW i \in DOMAIN items
  PROVE  items[i] \in Registered
  BY DEF Registered, Range

LEMMA KeysOfRows ==
  ASSUME TypeOK, KeyInv, NEW o \in Ptrs, heap[o] # Nil, heap[o].id # 0
  PROVE  heap[o].id \in Ids /\ heap[o].id < nextId
<1>1. heap[o] \in EntityType
  BY DEF TypeOK
<1>2. heap[o].id \in Nat /\ heap[o].id < nextId
  BY <1>1 DEF EntityType, KeyInv, Known
<1>3. nextId \in 2 .. MaxId + 1
  BY DEF TypeOK
<1> QED BY <1>2, <1>3, BoundAssumption DEF Ids

LEMMA Moves ==
  ASSUME Inv, Next
  PROVE  \/ \E id \in Ids : OtherCommits(id)
         \/ \E key \in Uids \cup {NoLock} : Begin(key)
         \/ \E o \in Ptrs, e \in EntityType : Replaces(o, e)
         \/ \E o \in Ptrs, e \in EntityType : Edits(o, e)
         \/ \E new \in SUBSET (Ptrs \ Registered) : \E key \in [new -> Visible] : Reads(new, key)
         \/ \E o \in Ptrs : Insert(o)
         \/ StartFlush
         \/ \E i \in batch : Flushes(i)
         \/ FlushEnds
         \/ \E h : Ends(h)
<1> USE DEF Inv
<1>1. ASSUME NEW o \in Ptrs, Create(o)
      PROVE  Replaces(o, New)
  BY <1>1, Fresh DEF Create, Replaces, Unused, Known, TypeOK
<1>2. ASSUME NEW id \in Ids, NEW o \in Ptrs, ReadOutside(id, o)
      PROVE  \E e \in EntityType : Replaces(o, e)
  <2> DEFINE s == Scan(id, db[id])
             e == Detach(s)
  <2>1. db[id] \in Row /\ id \in Nat
    BY <1>2 DEF ReadOutside, TypeOK, Ids
  <2>2. /\ s \in EntityType /\ s.id = id /\ s.loaded /\ ~s.deleted /\ ~s.foreign
    BY <2>1, Scanned
  <2>3. /\ e \in EntityType /\ e.id = id /\ e.loaded /\ e.detached
    BY <2>2, Detached
  <2>4. /\ pc = "idle" /\ heap' = [heap EXCEPT ![o] = e] /\ entry' = [entry EXCEPT ![o] = heap'[o]]
        /\ UNCHANGED <<pc, txns, others, lock, items, snaps, cache, batch, db, mine, nextId>>
    BY <1>2, Zenon DEF ReadOutside
  <2> HIDE DEF e, s
  <2>5. o \notin Registered
    BY <2>4 DEF ListInv, Registered, Range
  <2>6. entry' = [entry EXCEPT ![o] = e]
    BY <2>4 DEF TypeOK
  <2>7. id < nextId /\ id # 0
    <3>1. id \in 1 .. MaxId /\ nextId \in 2 .. MaxId + 1 /\ ~(id >= nextId)
      BY <1>2 DEF Ids, TypeOK, KeyInv, ReadOutside
    <3> QED BY <3>1, BoundAssumption
  <2> QED BY <2>3, <2>4, <2>5, <2>6, <2>7 DEF Replaces, Plain, Known
<1>3. ASSUME NEW o \in Ptrs, NEW e, Usable(o), heap[o] \in EntityType => Edited(heap[o], e), Change(o, e)
      PROVE  e \in EntityType /\ Edits(o, e)
  <2>1. heap[o] \in EntityType
    BY <1>3 DEF Usable, TypeOK
  <2>2. ~heap[o].detached /\ (Owned => ~heap[o].foreign)
    BY <1>3 DEF Change, Guarded
  <2> QED BY <1>3, <2>1, <2>2 DEF Change, Edits, Edited
<1>4. ASSUME NEW ids \in SUBSET Visible, pc = "fn", Read(ids),
             UNCHANGED <<pc, txns, others, lock, batch, db, mine, nextId>>
      PROVE  \E new \in SUBSET (Ptrs \ Registered) : \E key \in [new -> Visible] : Reads(new, key)
  <2> PICK new \in SUBSET (Ptrs \ Registered) : \E key \in [new -> ids] : Adds(new, key)
    BY <1>4, ReadAdds
  <2> PICK key \in [new -> ids] : Adds(new, key)
    OBVIOUS
  <2>1. key \in [new -> Visible]
    OBVIOUS
  <2> QED BY <2>1, <1>4 DEF Reads
<1>5. ASSUME FlushNext PROVE \E i \in batch : Flushes(i)
  <2> PICK i \in batch :
         /\ View(heap[items[i]].id) # NoRow
         /\ mine' = [mine EXCEPT ![heap[items[i]].id] =
                        IF FlushStmt(heap[items[i]]) = "delete" THEN NoRow
                        ELSE UpdateStmt(View(heap[items[i]].id), heap[items[i]])]
         /\ heap' = [heap EXCEPT ![items[i]] = FlushDone(heap[items[i]])]
         /\ batch' = batch \ {i}
    BY <1>5, Zenon DEF FlushNext
  <2> DEFINE o == items[i]
             e == heap[o]
  <2>1. i \in DOMAIN items /\ o \in Registered /\ o \in Ptrs /\ e \in EntityType
    BY Positions, RegisteredCells DEF TypeOK, ListInv
  <2>2. FlushStmt(e) # "none" /\ e.loaded
    BY <2>1, Statements DEF MarkInv
  <2>3. e.id # 0 /\ e # Nil
    BY <2>1, <2>2, NilAssumption DEF KeyInv, Known
  <2>4. e.id \in Ids
    BY <2>1, <2>3, KeysOfRows
  <2>5. View(e.id) \in Row
    BY <2>4, Views
  <2>6. UpdateStmt(View(e.id), e) \in Row
    BY <2>1, <2>5, Updates
  <2>7. mine' = [mine EXCEPT ![e.id] =
                       IF FlushStmt(e) = "delete" THEN NoRow ELSE UpdateStmt(View(e.id), e)]
    OBVIOUS
  <2>8. PICK x \in Row \cup {NoRow} : mine' = [mine EXCEPT ![e.id] = x]
    BY <2>6, <2>7
  <2>9. mine' \in [Ids -> Row \cup {NoRow, NotWritten}] /\ mine'[e.id] # NotWritten
    BY <2>4, <2>8, NoRowAssumption DEF TypeOK
  <2> QED BY <1>5, <2>1, <2>2, <2>4, <2>5, <2>7, <2>9 DEF FlushNext, Flushes
<1>6. ASSUME NEW h \in [Ptrs -> EntityType \cup {Nil}],
             \A o \in Ptrs : h[o] = heap[o] \/ (snaps[o] # Nil /\ h[o] = snaps[o]),
             End(h), pc # "idle", UNCHANGED <<txns, others, nextId>>,
             db' = db \/ db' = [id \in Ids |-> View(id)]
      PROVE  Ends(h)
  <2>1. db' \in [Ids -> Row \cup {NoRow}]
    BY <1>6, Views DEF TypeOK
  <2>2. \A id \in Ids : db'[id] = db[id] \/ db'[id] = View(id)
    BY <1>6
  <2>3. \A o \in Registered : h[o] # Nil
    BY <1>6, RegisteredCells DEF ListInv
  <2> QED BY <1>6, <2>1, <2>2, <2>3 DEF Ends
<1>7. ASSUME Commit \/ CommitLost PROVE Ends(heap)
  <2>1. /\ heap \in [Ptrs -> EntityType \cup {Nil}] /\ End(heap) /\ pc # "idle"
        /\ UNCHANGED <<txns, others, nextId>>
    BY <1>7 DEF Commit, CommitLost, TypeOK
  <2>2. db' = db \/ db' = [id \in Ids |-> View(id)]
    BY <1>7 DEF Commit, CommitLost
  <2> QED BY <1>6, <2>1, <2>2
<1>8. ASSUME Rollback PROVE Ends(Restored)
  <2>1. /\ Restored \in [Ptrs -> EntityType \cup {Nil}]
        /\ \A o \in Ptrs : Restored[o] = heap[o] \/ (snaps[o] # Nil /\ Restored[o] = snaps[o])
    BY DEF TypeOK, Restored
  <2>2. End(Restored) /\ pc # "idle" /\ UNCHANGED <<txns, others, nextId>> /\ db' = db
    BY <1>8 DEF Rollback
  <2> QED BY <1>6, <2>1, <2>2
<1>9. CASE \E o \in Ptrs, u \in Uids : Usable(o) /\ Change(o, Set(heap[o], "uid", u))
  BY <1>9, <1>3, SetEdits
<1>10. CASE \E o \in Ptrs, v \in Vals : Usable(o) /\ Change(o, Set(heap[o], "val", v))
  BY <1>10, <1>3, SetEdits
<1>11. CASE \E o \in Ptrs : Usable(o) /\ Change(o, Delete(heap[o]))
  BY <1>11, <1>3, SetEdits
<1>12. CASE \E id \in Ids : GetById(id)
  <2> PICK id \in Ids : GetById(id)
    BY <1>12
  <2>1. {id} \cap Visible \in SUBSET Visible /\ Read({id} \cap Visible) /\ pc = "fn"
        /\ UNCHANGED <<pc, txns, others, lock, batch, db, mine, nextId>>
    BY DEF GetById
  <2> QED BY <2>1, <1>4
<1>13. CASE \E u \in Uids : ListByUid(u)
  <2> PICK u \in Uids : ListByUid(u)
    BY <1>13
  <2>1. Matching(u) \in SUBSET Visible
    BY DEF Matching
  <2>2. Read(Matching(u)) /\ pc = "fn"
        /\ UNCHANGED <<pc, txns, others, lock, batch, db, mine, nextId>>
    BY DEF ListByUid
  <2> QED BY <2>1, <2>2, <1>4
<1>14. CASE GetAll
  <2>1. Visible \in SUBSET Visible /\ Read(Visible) /\ pc = "fn"
        /\ UNCHANGED <<pc, txns, others, lock, batch, db, mine, nextId>>
    BY <1>14 DEF GetAll
  <2> QED BY <2>1, <1>4
<1>15. CASE \E o \in Ptrs : Create(o)
  BY <1>15, <1>1, Fresh
<1>16. CASE \E id \in Ids, o \in Ptrs : ReadOutside(id, o)
  BY <1>16, <1>2
<1> QED BY <1>5, <1>7, <1>8, <1>9, <1>10, <1>11, <1>12, <1>13, <1>14, <1>15, <1>16 DEF Next

\* What a query has scanned.
LEMMA Additions ==
  ASSUME Inv, NEW new \in SUBSET (Ptrs \ Registered), NEW key \in [new -> Visible],
         Reads(new, key), NEW o \in new
  PROVE  LET id == key[o]
             e == heap'[o]
             s == snaps'[o]
         IN  /\ id \in Ids /\ id < nextId /\ id # 0 /\ View(id) \in Row
             /\ cache[id] = Nil /\ cache'[id] = o
             /\ e \in EntityType /\ e.id = id /\ e.row = View(id) /\ e.loaded
             /\ ~e.deleted /\ ~e.detached /\ e.dirty = {}
             /\ Owned /\ ~e.foreign => lock # NoLock /\ View(id).uid = lock
             /\ s \in EntityType /\ s.id = id /\ s.row = View(id) /\ s.loaded
             /\ entry'[o] = s
<1> DEFINE id == key[o]
           s == Scan(id, View(id))
           e == Admitted(s)
<1>1. id \in Ids /\ View(id) \in Row /\ id \in Nat /\ id # 0 /\ o \in Ptrs
  BY Views, BoundAssumption DEF Visible, Ids, Inv
<1>2. id < nextId
  <2>1. ~(id >= nextId) /\ nextId \in 2 .. MaxId + 1
    BY <1>1, NoRowAssumption DEF Inv, KeyInv, TypeOK, View
  <2> QED BY <2>1, <1>1, BoundAssumption
<1>3. /\ s \in EntityType /\ s.id = id /\ s.row = View(id) /\ s.loaded
      /\ ~s.deleted /\ ~s.detached /\ ~s.foreign /\ s.dirty = {}
  BY <1>1, Scanned
<1>4. /\ e \in EntityType /\ e.id = s.id /\ e.row = s.row /\ e.loaded = s.loaded
      /\ e.deleted = s.deleted /\ e.detached = s.detached /\ e.dirty = s.dirty
      /\ Owned /\ ~e.foreign /\ s.id # 0 => lock # NoLock /\ s.row.uid = lock
  <2> HIDE DEF s
  <2> QED BY <1>3, AdmittedEntity
<1>5. heap'[o] = e /\ snaps'[o] = s /\ entry'[o] = s
  BY <1>1, Zenon DEF Reads, Adds
<1>6. cache[id] = Nil /\ cache'[id] = o
  BY DEF Reads, Adds
<1> HIDE DEF e, s, id
<1>7. Owned /\ ~e.foreign => lock # NoLock /\ View(id).uid = lock
  BY <1>1, <1>3, <1>4
<1> QED BY <1>1, <1>2, <1>3, <1>4, <1>5, <1>6, <1>7 DEF id

\* Cells, rows and keys that a query leaves alone.
LEMMA ReadsKeep ==
  ASSUME Inv, NEW new \in SUBSET (Ptrs \ Registered), NEW key \in [new -> Visible],
         Reads(new, key)
  PROVE  /\ \A o \in Ptrs \ new : heap'[o] = heap[o] /\ snaps'[o] = snaps[o] /\ entry'[o] = entry[o]
         /\ Registered' = Registered \cup new
         /\ \A id \in Ids : cache'[id] = cache[id] \/ \E o \in new : key[o] = id
  BY DEF Reads, Adds, Registered

LEMMA InsertsWhat ==
  ASSUME Inv, NEW o \in Ptrs, Insert(o)
  PROVE  /\ \E f, s \in EntityType : Inserts(o, f, s)
         /\ pc = "fn" /\ heap[o] \in EntityType /\ ~heap[o].loaded
         /\ nextId \in Ids /\ nextId' = nextId + 1
         /\ heap[o].row \in Row
         /\ mine' = [mine EXCEPT ![nextId] = heap[o].row]
         /\ UNCHANGED <<pc, txns, others, lock, batch, db, entry>>
         /\ ReuseDeleted \/ heap[o].id = 0
<1>1. \E f, s \in EntityType : Inserts(o, f, s)
  BY InsertRegisters DEF Inv
<1>2. heap[o] \in EntityType /\ ~heap[o].loaded /\ nextId \in Ids
  BY BoundAssumption DEF Insert, Usable, Inv, TypeOK, Ids
<1>3. heap[o].row \in Row
  BY <1>2 DEF EntityType
<1> QED BY <1>1, <1>2, <1>3 DEF Insert, Usable, Gone

LEMMA Appended ==
  ASSUME NEW o \in Ptrs, TypeOK, ListInv,
         items' = IF o \in Registered THEN items ELSE Append(items, o)
  PROVE  /\ items' \in Seq(Ptrs) /\ DOMAIN items \subseteq DOMAIN items'
         /\ \A i \in DOMAIN items : items'[i] = items[i]
         /\ Registered' = Registered \cup {o}
         /\ \A i, j \in DOMAIN items' : items'[i] = items'[j] => i = j
<1>1. items \in Seq(Ptrs)
  BY DEF TypeOK
<1>2. CASE o \in Registered
  BY <1>1, <1>2 DEF ListInv, Registered
<1>3. CASE o \notin Registered
  <2> DEFINE t == <<o>>
             n == 1
  <2>1. n \in Nat /\ t \in [1 .. n -> Ptrs] /\ \A i \in 1 .. n : t[i] = o
    OBVIOUS
  <2>2. items' = items \o t
    BY <1>1, <1>3
  <2>3. Range(t) = {o}
    BY <2>1 DEF Range
  <2>6. \A i, j \in 1 .. n : t[i] = t[j] => i = j
    OBVIOUS
  <2> HIDE DEF t, n
  <2>4. \A i \in DOMAIN items, j \in 1 .. n : items[i] # t[j]
    BY <1>3, <2>1 DEF Registered, Range
  <2>5. \A i, j \in DOMAIN items : items[i] = items[j] => i = j
    BY DEF ListInv
  <2>7. /\ items \o t \in Seq(Ptrs) /\ DOMAIN items \subseteq DOMAIN (items \o t)
        /\ \A i \in DOMAIN items : (items \o t)[i] = items[i]
        /\ Range(items \o t) = Range(items) \cup Range(t)
        /\ \A i, j \in DOMAIN (items \o t) : (items \o t)[i] = (items \o t)[j] => i = j
    BY SMTT(30), <1>1, <2>1, <2>4, <2>5, <2>6, Appending
  <2> QED BY <2>2, <2>3, <2>7 DEF Registered
<1> QED BY <1>2, <1>3

-----------------------------------------------------------------------------
(* Types *)

LEMMA TypeStep == ASSUME Inv, Next PROVE TypeOK'
<1> USE DEF Inv
<1>0. TypeOK /\ nextId \in Nat /\ others \in Nat /\ txns \in Nat
  BY BoundAssumption DEF TypeOK
<1>1. ASSUME NEW id \in Ids, OtherCommits(id) PROVE TypeOK'
  <2>1. /\ others' = others + 1 /\ others < MaxOthers
        /\ UNCHANGED <<pc, txns, lock, heap, items, snaps, cache, batch, mine, entry>>
    BY <1>1 DEF OtherCommits, OtherMayWrite
  <2>2. db' \in [Ids -> Row \cup {NoRow}]
    BY <1>1, <1>0 DEF OtherCommits, TypeOK
  <2>3. nextId' \in 2 .. MaxId + 1
    BY <1>1, <1>0, BoundAssumption DEF OtherCommits, TypeOK, Ids
  <2>4. others' \in 0 .. MaxOthers
    BY <2>1, <1>0, BoundAssumption
  <2> QED BY <2>1, <2>2, <2>3, <2>4, <1>0 DEF TypeOK
<1>2. ASSUME NEW key \in Uids \cup {NoLock}, Begin(key) PROVE TypeOK'
  BY <1>2, <1>0, BoundAssumption DEF Begin, TypeOK
<1>3. ASSUME NEW o \in Ptrs, NEW e \in EntityType, Replaces(o, e) PROVE TypeOK'
  BY <1>3, <1>0 DEF Replaces, TypeOK
<1>4. ASSUME NEW o \in Ptrs, NEW e \in EntityType, Edits(o, e) PROVE TypeOK'
  BY <1>4, <1>0 DEF Edits, TypeOK
<1>5. ASSUME NEW new \in SUBSET (Ptrs \ Registered), NEW key \in [new -> Visible], Reads(new, key)
      PROVE  TypeOK'
  <2>1. \A o \in new : heap'[o] \in EntityType /\ snaps'[o] \in EntityType /\ entry'[o] \in EntityType
    BY <1>5, Additions
  <2>2. \A o \in Ptrs \ new : heap'[o] = heap[o] /\ snaps'[o] = snaps[o] /\ entry'[o] = entry[o]
    BY <1>5, ReadsKeep
  <2>3. /\ heap' = [o \in Ptrs |-> heap'[o]] /\ snaps' = [o \in Ptrs |-> snaps'[o]]
        /\ entry' = [o \in Ptrs |-> entry'[o]]
    BY <1>5 DEF Reads, Adds
  <2>4. /\ heap' \in [Ptrs -> EntityType \cup {Nil}] /\ snaps' \in [Ptrs -> EntityType \cup {Nil}]
        /\ entry' \in [Ptrs -> EntityType \cup {Nil}]
    BY <2>1, <2>2, <2>3, <1>0 DEF TypeOK
  <2>5. /\ cache' \in [Ids -> Ptrs \cup {Nil}] /\ items' \in Seq(Ptrs)
        /\ DOMAIN items \subseteq DOMAIN items'
        /\ UNCHANGED <<pc, txns, others, lock, batch, db, mine, nextId>>
    BY <1>5 DEF Reads, Adds
  <2> QED BY <2>4, <2>5, <1>0 DEF TypeOK
<1>6. ASSUME NEW o \in Ptrs, Insert(o) PROVE TypeOK'
  <2> PICK f \in EntityType, s \in EntityType : Inserts(o, f, s)
    BY <1>6, InsertsWhat
  <2>1. /\ pc = "fn" /\ nextId \in Ids /\ nextId' = nextId + 1 /\ heap[o].row \in Row
        /\ mine' = [mine EXCEPT ![nextId] = heap[o].row]
        /\ UNCHANGED <<pc, txns, others, lock, batch, db, entry>>
    BY <1>6, InsertsWhat
  <2>2. items' \in Seq(Ptrs) /\ DOMAIN items \subseteq DOMAIN items'
    BY Appended DEF Inserts
  <2>3. heap' \in [Ptrs -> EntityType \cup {Nil}] /\ snaps' \in [Ptrs -> EntityType \cup {Nil}]
        /\ cache' \in [Ids -> Ptrs \cup {Nil}]
    BY <1>0 DEF Inserts, TypeOK
  <2>4. nextId' \in 2 .. MaxId + 1
    BY <2>1, <1>0, BoundAssumption DEF TypeOK, Ids
  <2>5. mine' \in [Ids -> Row \cup {NoRow, NotWritten}]
    BY <2>1, <1>0 DEF TypeOK
  <2> QED BY <2>1, <2>2, <2>3, <2>4, <2>5, <1>0 DEF TypeOK
<1>7. ASSUME StartFlush \/ FlushEnds PROVE TypeOK'
  BY <1>7, <1>0 DEF StartFlush, FlushEnds, TypeOK
<1>8. ASSUME NEW i \in batch, Flushes(i) PROVE TypeOK'
  <2>1. FlushDone(heap[items[i]]) \in EntityType
    BY <1>8, Done DEF Flushes
  <2> QED BY <1>8, <2>1, <1>0 DEF Flushes, TypeOK
<1>9. ASSUME NEW h, Ends(h) PROVE TypeOK'
  <2>1. /\ h \in [Ptrs -> EntityType \cup {Nil}] /\ \A o \in Registered : h[o] \in EntityType
    BY <1>9, RegisteredCells, <1>0 DEF Ends
  <2>2. \A o \in Registered : Detach(h[o]) \in EntityType
    BY <2>1, Detached
  <2>3. /\ heap' = [o \in Ptrs |-> IF o \in Registered THEN Detach(h[o]) ELSE h[o]] /\ entry' = heap'
    BY <1>9 DEF Ends, End
  <2>4. heap' \in [Ptrs -> EntityType \cup {Nil}]
    BY <2>1, <2>2, <2>3
  <2>5. /\ items' = <<>> /\ batch' = {} /\ snaps' = [o \in Ptrs |-> Nil]
        /\ cache' = [id \in Ids |-> Nil] /\ mine' = [id \in Ids |-> NotWritten]
        /\ lock' = NoLock /\ pc' = "idle" /\ db' \in [Ids -> Row \cup {NoRow}]
        /\ UNCHANGED <<txns, others, nextId>>
    BY <1>9 DEF Ends, End
  <2> QED BY <2>3, <2>4, <2>5, <1>0 DEF TypeOK
<1> QED BY <1>1, <1>2, <1>3, <1>4, <1>5, <1>6, <1>7, <1>8, <1>9, Moves

-----------------------------------------------------------------------------
(* Flush list, identity map, keys and marks *)

LEMMA ListStep == ASSUME Inv, Next, TypeOK' PROVE ListInv'
<1> USE DEF Inv
<1>0. /\ TypeOK /\ Registered \subseteq Ptrs
  BY RegisteredCells
<1>1. ASSUME NEW id \in Ids, OtherCommits(id) PROVE ListInv'
  <2>1. UNCHANGED <<pc, lock, heap, items, snaps, cache, batch, mine>>
    BY <1>1 DEF OtherCommits
  <2> QED BY <2>1 DEF ListInv, Registered
<1>2. ASSUME NEW key \in Uids \cup {NoLock}, Begin(key) PROVE ListInv'
  <2>1. pc' = "fn" /\ pc = "idle" /\ UNCHANGED <<heap, items, snaps, cache, batch, mine>>
    BY <1>2 DEF Begin
  <2> QED BY <2>1 DEF ListInv, Registered
<1>3. ASSUME NEW o \in Ptrs, NEW e \in EntityType, Replaces(o, e) \/ Edits(o, e) PROVE ListInv'
  <2>1. heap' = [heap EXCEPT ![o] = e] /\ UNCHANGED <<pc, lock, items, snaps, cache, batch, mine>>
    BY <1>3 DEF Replaces, Edits
  <2>2. \A p \in Registered : heap'[p] # Nil
    BY <2>1, <1>0, NilAssumption DEF ListInv, TypeOK
  <2> QED BY <2>1, <2>2 DEF ListInv, Registered
<1>5. ASSUME NEW new \in SUBSET (Ptrs \ Registered), NEW key \in [new -> Visible], Reads(new, key)
      PROVE  ListInv'
  <2>1. \A o \in new : heap'[o] # Nil /\ snaps'[o] # Nil
    BY <1>5, Additions, NilAssumption
  <2>2. /\ \A o \in Ptrs \ new : heap'[o] = heap[o] /\ snaps'[o] = snaps[o]
        /\ Registered' = Registered \cup new
        /\ \A id \in Ids : cache'[id] = cache[id] \/ \E o \in new : key[o] = id
    BY <1>5, ReadsKeep
  <2>3. \A id \in Ids : (\E o \in new : key[o] = id) => cache'[id] \in new
    BY <1>5 DEF Reads, Adds
  <2>4. /\ \A i, j \in DOMAIN items' : items'[i] = items'[j] => i = j
        /\ pc' = "fn" /\ pc = "fn" /\ batch' = batch
    BY <1>5 DEF Reads, Adds
  <2> QED BY <2>1, <2>2, <2>3, <2>4, <1>0 DEF ListInv
<1>6. ASSUME NEW o \in Ptrs, Insert(o) PROVE ListInv'
  <2> PICK f \in EntityType, s \in EntityType : Inserts(o, f, s)
    BY <1>6, InsertsWhat
  <2>1. pc = "fn" /\ pc' = "fn" /\ batch' = batch
    BY <1>6, InsertsWhat
  <2>2. /\ \A i, j \in DOMAIN items' : items'[i] = items'[j] => i = j
        /\ Registered' = Registered \cup {o}
    BY <1>0, Appended DEF Inserts
  <2>3. \A p \in Ptrs : heap'[p] = IF p = o THEN f ELSE heap[p]
    BY <1>0 DEF Inserts, TypeOK
  <2>4. \A p \in Ptrs : snaps'[p] = IF p = o /\ o \notin Registered THEN s ELSE snaps[p]
    BY <1>0 DEF Inserts, TypeOK
  <2>5. \A id \in Ids : cache'[id] = cache[id] \/ cache'[id] = o
    BY DEF Inserts
  <2>6. \A p \in Ptrs : snaps'[p] # Nil <=> p \in Registered'
    BY <2>2, <2>4, NilAssumption DEF ListInv
  <2>7. \A p \in Registered' : heap'[p] # Nil
    BY <2>2, <2>3, <1>0, NilAssumption DEF ListInv
  <2>8. \A id \in Ids : cache'[id] # Nil => cache'[id] \in Registered'
    BY <2>2, <2>5 DEF ListInv
  <2> QED BY <2>1, <2>2, <2>6, <2>7, <2>8 DEF ListInv
<1>7. ASSUME StartFlush \/ FlushEnds PROVE ListInv'
  <2>1. /\ UNCHANGED <<lock, heap, items, snaps, cache, mine>>
        /\ pc' = "flush" \/ (pc' = "commit" /\ batch' = {})
    BY <1>7 DEF StartFlush, FlushEnds
  <2> QED BY <2>1 DEF ListInv, Registered
<1>8. ASSUME NEW i \in batch, Flushes(i) PROVE ListInv'
  <2>1. /\ UNCHANGED <<lock, items, snaps, cache>> /\ pc' = "flush"
        /\ heap' = [heap EXCEPT ![items[i]] = FlushDone(heap[items[i]])]
        /\ FlushDone(heap[items[i]]) \in EntityType
    BY <1>8, Done DEF Flushes
  <2>2. \A p \in Registered : heap'[p] # Nil
    BY <2>1, <1>0, NilAssumption DEF ListInv, TypeOK
  <2> QED BY <2>1, <2>2 DEF ListInv, Registered
<1>9. ASSUME NEW h, Ends(h) PROVE ListInv'
  <2>1. /\ items' = <<>> /\ batch' = {} /\ snaps' = [o \in Ptrs |-> Nil]
        /\ cache' = [id \in Ids |-> Nil] /\ mine' = [id \in Ids |-> NotWritten]
        /\ lock' = NoLock /\ pc' = "idle"
    BY <1>9 DEF Ends, End
  <2>2. Registered' = {}
    BY <2>1 DEF Registered, Range
  <2> QED BY <2>1, <2>2 DEF ListInv
<1> QED BY <1>1, <1>2, <1>3, <1>5, <1>6, <1>7, <1>8, <1>9, Moves

LEMMA KeyStep == ASSUME Inv, Next, TypeOK' PROVE KeyInv'
<1> USE DEF Inv
<1>0. /\ TypeOK /\ Registered \subseteq Ptrs /\ nextId \in Nat /\ Ids \subseteq Nat
  BY RegisteredCells, BoundAssumption DEF TypeOK, Ids
<1>a. ASSUME UNCHANGED <<snaps, nextId, db, mine, cache>>,
             \A o \in Ptrs : heap'[o] # Nil => Known(heap'[o])
      PROVE  KeyInv'
  BY <1>a DEF KeyInv, Known
<1>1. ASSUME NEW id \in Ids, OtherCommits(id) PROVE KeyInv'
  <2>1. UNCHANGED <<heap, snaps, cache, mine>>
    BY <1>1 DEF OtherCommits
  <2>2. /\ nextId' = nextId \/ (nextId' = nextId + 1 /\ id = nextId)
        /\ \A x \in Ids \ {id} : db'[x] = db[x]
        /\ nextId' = nextId => db[id] # NoRow
    BY <1>1, <1>0 DEF OtherCommits, TypeOK
  <2>3. nextId' \in Nat /\ nextId' >= nextId
    BY <2>2, <1>0
  <2>4. ASSUME NEW x \in Ids, x >= nextId' PROVE db'[x] = NoRow /\ mine[x] = NotWritten /\ cache[x] = Nil
    <3>1. x >= nextId /\ x # id
      BY <2>4, <2>2, <2>3, <1>0 DEF KeyInv
    <3> QED BY <3>1, <2>2 DEF KeyInv
  <2>5. \A o \in Ptrs : heap[o] # Nil => heap[o].id < nextId' /\ (heap[o].loaded => heap[o].id # 0)
    <3>1. \A o \in Ptrs : heap[o] # Nil => heap[o].id \in Nat
      BY <1>0 DEF TypeOK, EntityType
    <3> QED BY <3>1, <2>3, <1>0 DEF KeyInv, Known
  <2>6. \A o \in Ptrs : snaps[o] # Nil => snaps[o].id < nextId' /\ (snaps[o].loaded => snaps[o].id # 0)
    <3>1. \A o \in Ptrs : snaps[o] # Nil => snaps[o].id \in Nat
      BY <1>0 DEF TypeOK, EntityType
    <3> QED BY <3>1, <2>3, <1>0 DEF KeyInv, Known
  <2> QED BY <2>1, <2>4, <2>5, <2>6 DEF KeyInv, Known
<1>2. ASSUME (\E key \in Uids \cup {NoLock} : Begin(key)) \/ StartFlush \/ FlushEnds PROVE KeyInv'
  <2>1. UNCHANGED <<heap, snaps, nextId, db, mine, cache>>
    BY <1>2 DEF Begin, StartFlush, FlushEnds
  <2> QED BY <2>1 DEF KeyInv, Known
<1>3. ASSUME NEW o \in Ptrs, NEW e \in EntityType, Replaces(o, e) PROVE KeyInv'
  <2>1. heap' = [heap EXCEPT ![o] = e] /\ UNCHANGED <<snaps, cache, mine, db, nextId>> /\ Known(e)
    BY <1>3 DEF Replaces
  <2>2. \A p \in Ptrs : heap'[p] # Nil => Known(heap'[p])
    BY <2>1, <1>0 DEF KeyInv, TypeOK
  <2> QED BY <2>1, <2>2, <1>a
<1>4. ASSUME NEW o \in Ptrs, NEW e \in EntityType, Edits(o, e) PROVE KeyInv'
  <2>1. heap' = [heap EXCEPT ![o] = e] /\ UNCHANGED <<snaps, cache, mine, db, nextId>>
        /\ heap[o] # Nil /\ e.id = heap[o].id /\ e.loaded = heap[o].loaded
    BY <1>4, NilAssumption DEF Edits, Edited
  <2>2. Known(e)
    BY <2>1 DEF KeyInv, Known
  <2>3. \A p \in Ptrs : heap'[p] # Nil => Known(heap'[p])
    BY <2>1, <2>2, <1>0 DEF KeyInv, TypeOK
  <2> QED BY <2>1, <2>3, <1>a
<1>5. ASSUME NEW new \in SUBSET (Ptrs \ Registered), NEW key \in [new -> Visible], Reads(new, key)
      PROVE  KeyInv'
  <2>1. UNCHANGED <<db, mine, nextId>>
    BY <1>5 DEF Reads
  <2>2. \A o \in new : /\ heap'[o].id = key[o] /\ snaps'[o].id = key[o] /\ key[o] # 0
                       /\ key[o] < nextId /\ key[o] \in Ids
    BY <1>5, Additions
  <2>3. /\ \A o \in Ptrs \ new : heap'[o] = heap[o] /\ snaps'[o] = snaps[o]
        /\ \A id \in Ids : cache'[id] = cache[id] \/ \E o \in new : key[o] = id
    BY <1>5, ReadsKeep
  <2>4. \A o \in Ptrs : heap'[o] # Nil => Known(heap'[o])
    BY <2>2, <2>3 DEF KeyInv, Known
  <2>5. \A o \in Ptrs : snaps'[o] # Nil => Known(snaps'[o])
    BY <2>2, <2>3 DEF KeyInv, Known
  <2>6. \A id \in Ids : id >= nextId => cache'[id] = Nil
    BY <2>2, <2>3, <1>0 DEF KeyInv
  <2> QED BY <2>1, <2>4, <2>5, <2>6 DEF KeyInv, Known
<1>6. ASSUME NEW o \in Ptrs, Insert(o) PROVE KeyInv'
  <2> PICK f \in EntityType, s \in EntityType : Inserts(o, f, s)
    BY <1>6, InsertsWhat
  <2>1. /\ heap[o] \in EntityType /\ nextId \in Ids /\ nextId' = nextId + 1
        /\ mine' = [mine EXCEPT ![nextId] = heap[o].row] /\ db' = db
    BY <1>6, InsertsWhat
  <2>2. \A p \in Ptrs : heap'[p] = IF p = o THEN f ELSE heap[p]
    BY <1>0 DEF Inserts, TypeOK
  <2>3. \A p \in Ptrs : snaps'[p] = IF p = o /\ o \notin Registered THEN s ELSE snaps[p]
    BY <1>0 DEF Inserts, TypeOK
  <2>5. nextId # 0
    BY <1>0 DEF TypeOK
  <2>6. \A e \in EntityType : e.id < nextId => e.id < nextId + 1
    BY <1>0 DEF EntityType
  <2>7. \A p \in Ptrs : heap'[p] # Nil => heap'[p].id < nextId + 1 /\ (heap'[p].loaded => heap'[p].id # 0)
    <3>1. f.id < nextId + 1 /\ f.id # 0
      BY <2>5, <1>0 DEF Inserts
    <3> QED BY <2>2, <2>6, <3>1, <1>0 DEF KeyInv, Known, TypeOK
  <2>8. \A p \in Ptrs : snaps'[p] # Nil => snaps'[p].id < nextId + 1 /\ (snaps'[p].loaded => snaps'[p].id # 0)
    <3>1. s.id < nextId + 1 /\ (s.loaded => s.id # 0)
      <4>1. CASE s = heap[o]
        BY <4>1, <2>1, <2>6, NilAssumption DEF KeyInv, Known
      <4>2. CASE s.id = nextId
        BY <4>2, <2>5, <1>0
      <4> QED BY <4>1, <4>2 DEF Inserts
    <3> QED BY <2>3, <2>6, <3>1, <1>0 DEF KeyInv, Known, TypeOK
  <2>9. ASSUME NEW id \in Ids, id >= nextId' PROVE db'[id] = NoRow /\ mine'[id] = NotWritten
    BY <2>9, <2>1, <1>0 DEF KeyInv, TypeOK
  <2>10. ASSUME NEW id \in Ids, id >= nextId' PROVE cache'[id] = Nil
    <3>1. id # nextId /\ id >= nextId /\ id # heap[o].id
      <4>1. heap[o].id < nextId /\ heap[o].id \in Nat
        BY <2>1, NilAssumption DEF KeyInv, Known, EntityType
      <4> QED BY <4>1, <2>10, <2>1, <1>0
    <3> QED BY <3>1 DEF KeyInv, Inserts
  <2> QED BY <2>1, <2>7, <2>8, <2>9, <2>10 DEF KeyInv, Known
<1>8. ASSUME NEW i \in batch, Flushes(i) PROVE KeyInv'
  <2> DEFINE o == items[i]
             e == heap[o]
             d == FlushDone(e)
  <2>1. /\ o \in Ptrs /\ e \in EntityType /\ e.id \in Ids /\ e.loaded /\ FlushStmt(e) # "none"
        /\ heap' = [heap EXCEPT ![o] = d]
        /\ UNCHANGED <<snaps, cache, db, nextId>>
        /\ \A id \in Ids : id # e.id => mine'[id] = mine[id]
    BY <1>8, <1>0 DEF Flushes, TypeOK
  <2>2. d \in EntityType /\ d.id = e.id
    BY <2>1, Done
  <2>3. e.id < nextId /\ e.id # 0
    BY <2>1, NilAssumption DEF KeyInv, Known
  <2> HIDE DEF d
  <2>4. \A p \in Ptrs : heap'[p] # Nil => Known(heap'[p])
    BY <2>1, <2>2, <2>3, <1>0 DEF KeyInv, Known, TypeOK
  <2>5. \A id \in Ids : id >= nextId => mine'[id] = NotWritten
    <3> TAKE id \in Ids
    <3> HAVE id >= nextId
    <3>1. id # e.id /\ mine[id] = NotWritten
      BY <2>1, <2>3, <1>0 DEF KeyInv
    <3> QED BY <2>1, <3>1
  <2> QED BY <2>1, <2>4, <2>5 DEF KeyInv, Known
<1>9. ASSUME NEW h, Ends(h) PROVE KeyInv'
  <2>1. /\ heap' = [o \in Ptrs |-> IF o \in Registered THEN Detach(h[o]) ELSE h[o]]
        /\ snaps' = [o \in Ptrs |-> Nil] /\ cache' = [id \in Ids |-> Nil]
        /\ mine' = [id \in Ids |-> NotWritten] /\ UNCHANGED nextId
        /\ \A id \in Ids : db'[id] = db[id] \/ db'[id] = View(id)
    BY <1>9 DEF Ends, End
  <2>2. \A o \in Ptrs : h[o] # Nil => Known(h[o])
    BY <1>9 DEF Ends, KeyInv
  <2>3. \A o \in Registered : Detach(h[o]).id = h[o].id /\ Detach(h[o]).loaded = h[o].loaded /\ h[o] # Nil
    <3> TAKE o \in Registered
    <3>1. h[o] \in EntityType /\ h[o] # Nil
      BY <1>9, <1>0 DEF Ends
    <3> QED BY <3>1, Detached
  <2>4. \A o \in Ptrs : heap'[o] # Nil => heap'[o].id < nextId /\ (heap'[o].loaded => heap'[o].id # 0)
    BY <2>1, <2>2, <2>3, <1>0 DEF Known
  <2>5. \A id \in Ids : id >= nextId => db'[id] = NoRow
    BY <2>1 DEF KeyInv, View
  <2> QED BY <2>1, <2>4, <2>5 DEF KeyInv, Known
<1> QED BY <1>1, <1>2, <1>3, <1>4, <1>5, <1>6, <1>8, <1>9, Moves

\* An entity that Insert accepts has no mark.
LEMMA InsertedIsPlain ==
  ASSUME Inv, NEW o \in Ptrs, Insert(o), NEW f, NEW s, Inserts(o, f, s)
  PROVE  ~f.deleted /\ ~f.detached
<1>1. heap[o] # Nil /\ ~heap[o].loaded
  BY InsertsWhat, NilAssumption
<1>2. ~heap[o].deleted /\ ~heap[o].detached
  BY <1>1 DEF Inv, MarkInv, Plain
<1> QED BY <1>2 DEF Inserts

LEMMA MarkStep == ASSUME Inv, Next, TypeOK', ListInv' PROVE MarkInv'
<1> USE DEF Inv
<1>0. /\ TypeOK /\ Registered \subseteq Ptrs
  BY RegisteredCells
<1>1. ASSUME (\E id \in Ids : OtherCommits(id)) \/ (\E key \in Uids \cup {NoLock} : Begin(key)) \/ FlushEnds
      PROVE  MarkInv'
  <2>1. UNCHANGED <<heap, items, snaps, batch>>
    BY <1>1 DEF OtherCommits, Begin, FlushEnds
  <2> QED BY <2>1 DEF MarkInv, Registered
<1>2. ASSUME StartFlush PROVE MarkInv'
  <2>1. /\ UNCHANGED <<heap, items, snaps>>
        /\ batch' = {i \in DOMAIN items : FlushStmt(heap[items[i]]) # "none"}
    BY <1>2 DEF StartFlush
  <2> QED BY <2>1 DEF MarkInv, Registered
<1>a. ASSUME NEW o \in Ptrs, NEW e \in EntityType, heap' = [heap EXCEPT ![o] = e],
             UNCHANGED <<items, snaps, batch>>, batch = {}, Plain(e),
             Owned /\ o \in Registered => ~e.foreign
      PROVE  MarkInv'
  <2>1. \A p \in Ptrs : heap'[p] = IF p = o THEN e ELSE heap[p]
    BY <1>a, <1>0 DEF TypeOK
  <2>2. \A p \in Ptrs : heap'[p] # Nil => Plain(heap'[p])
    BY <2>1, <1>a DEF MarkInv
  <2>3. Owned => \A p \in Registered : heap'[p].foreign => ~heap'[p].deleted /\ heap'[p].dirty = {}
    BY <2>1, <1>a, <1>0 DEF MarkInv
  <2> QED BY <2>2, <2>3, <1>a DEF MarkInv, Registered
<1>3. ASSUME NEW o \in Ptrs, NEW e \in EntityType, Replaces(o, e) PROVE MarkInv'
  <2>1. /\ heap' = [heap EXCEPT ![o] = e] /\ UNCHANGED <<items, snaps, batch>> /\ o \notin Registered
        /\ Plain(e) /\ pc \in {"idle", "fn"}
    BY <1>3 DEF Replaces
  <2>2. batch = {}
    BY <2>1 DEF ListInv
  <2> QED BY <2>1, <2>2, <1>a
<1>4. ASSUME NEW o \in Ptrs, NEW e \in EntityType, Edits(o, e) PROVE MarkInv'
  <2>1. /\ heap' = [heap EXCEPT ![o] = e] /\ UNCHANGED <<items, snaps, batch>>
        /\ heap[o] # Nil /\ Edited(heap[o], e) /\ pc \in {"idle", "fn"} /\ (Owned => ~heap[o].foreign)
    BY <1>4, NilAssumption DEF Edits
  <2>2. batch = {}
    BY <2>1 DEF ListInv
  <2>3. Plain(e) /\ (Owned => ~e.foreign)
    BY <2>1 DEF Edited, MarkInv, Plain
  <2> QED BY <2>1, <2>2, <2>3, <1>a
<1>5. ASSUME NEW new \in SUBSET (Ptrs \ Registered), NEW key \in [new -> Visible], Reads(new, key)
      PROVE  MarkInv'
  <2>1. batch = {} /\ batch' = {}
    BY <1>5 DEF Reads, ListInv
  <2>2. \A o \in new : heap'[o].loaded /\ ~heap'[o].deleted /\ heap'[o].dirty = {} /\ snaps'[o].loaded
    BY <1>5, Additions
  <2>3. /\ \A o \in Ptrs \ new : heap'[o] = heap[o] /\ snaps'[o] = snaps[o]
        /\ Registered' = Registered \cup new
    BY <1>5, ReadsKeep
  <2>4. \A o \in Ptrs : heap'[o] # Nil => Plain(heap'[o])
    BY <2>2, <2>3 DEF MarkInv, Plain
  <2>5. \A o \in Ptrs : snaps'[o] # Nil => Plain(snaps'[o])
    BY <2>2, <2>3 DEF MarkInv, Plain
  <2>6. Owned => \A p \in Registered' : heap'[p].foreign => ~heap'[p].deleted /\ heap'[p].dirty = {}
    BY <2>2, <2>3, <1>0 DEF MarkInv
  <2> QED BY <2>1, <2>4, <2>5, <2>6 DEF MarkInv
<1>6. ASSUME NEW o \in Ptrs, Insert(o) PROVE MarkInv'
  <2> PICK f \in EntityType, s \in EntityType : Inserts(o, f, s)
    BY <1>6, InsertsWhat
  <2>1. /\ heap[o] \in EntityType /\ batch' = batch /\ pc = "fn"
    BY <1>6, InsertsWhat
  <2>2. \A p \in Ptrs : heap'[p] = IF p = o THEN f ELSE heap[p]
    BY <1>0 DEF Inserts, TypeOK
  <2>3. \A p \in Ptrs : snaps'[p] = IF p = o /\ o \notin Registered THEN s ELSE snaps[p]
    BY <1>0 DEF Inserts, TypeOK
  <2>4. f.loaded /\ f.dirty = {} /\ ~f.deleted /\ ~f.detached
    <3>1. ~f.deleted /\ ~f.detached
      BY <1>6, InsertedIsPlain
    <3> QED BY <3>1 DEF Inserts
  <2>5. Plain(s)
    BY <2>1, NilAssumption DEF Inserts, MarkInv, Plain
  <2>6. Registered' = Registered \cup {o}
    BY <1>0, Appended DEF Inserts
  <2>7. \A p \in Ptrs : heap'[p] # Nil => Plain(heap'[p])
    BY <2>2, <2>4 DEF MarkInv, Plain
  <2>8. \A p \in Ptrs : snaps'[p] # Nil => Plain(snaps'[p])
    BY <2>3, <2>5 DEF MarkInv
  <2>9. Owned => \A p \in Registered' : heap'[p].foreign => ~heap'[p].deleted /\ heap'[p].dirty = {}
    BY <2>2, <2>4, <2>6, <1>0 DEF MarkInv
  <2>10. batch' = {}
    BY <2>1 DEF ListInv
  <2> QED BY <2>7, <2>8, <2>9, <2>10 DEF MarkInv
<1>8. ASSUME NEW i \in batch, Flushes(i) PROVE MarkInv'
  <2> DEFINE o == items[i]
             e == heap[o]
             d == FlushDone(e)
  <2>1. /\ o \in Ptrs /\ o \in Registered /\ e \in EntityType /\ e.loaded /\ FlushStmt(e) # "none"
        /\ heap' = [heap EXCEPT ![o] = d] /\ batch' = batch \ {i}
        /\ UNCHANGED <<snaps, items>>
    BY <1>8, <1>0 DEF Flushes
  <2>2. /\ d \in EntityType /\ ~d.deleted /\ d.dirty = {} /\ d.detached = e.detached
        /\ d.loaded = (e.loaded /\ ~e.deleted)
    BY <2>1, Done
  <2>3. ~e.detached
    BY <2>1, NilAssumption DEF EntitiesBelongToOneTransaction
  <2>4. Plain(d)
    BY <2>2, <2>3 DEF Plain
  <2> HIDE DEF d
  <2>5. \A p \in Ptrs : heap'[p] = IF p = o THEN d ELSE heap[p]
    BY <2>1, <1>0 DEF TypeOK
  <2>6. \A p \in Ptrs : heap'[p] # Nil => Plain(heap'[p])
    BY <2>4, <2>5 DEF MarkInv
  <2>7. Owned => \A p \in Registered : heap'[p].foreign => ~heap'[p].deleted /\ heap'[p].dirty = {}
    BY <2>2, <2>5, <1>0 DEF MarkInv
  <2>8. ASSUME NEW j \in batch' PROVE FlushStmt(heap'[items[j]]) # "none"
    <3>1. j \in DOMAIN items /\ i \in DOMAIN items /\ j \in batch /\ j # i
      BY <2>1, <1>0 DEF TypeOK
    <3>2. items[j] # o /\ items[j] \in Ptrs
      BY <3>1, Positions, <1>0 DEF ListInv
    <3>3. heap'[items[j]] = heap[items[j]]
      BY <3>2, <2>5
    <3> QED BY <3>1, <3>3 DEF MarkInv
  <2> QED BY <2>1, <2>6, <2>7, <2>8 DEF MarkInv, Registered
<1>9. ASSUME NEW h, Ends(h) PROVE MarkInv'
  <2>1. /\ heap' = [o \in Ptrs |-> IF o \in Registered THEN Detach(h[o]) ELSE h[o]]
        /\ snaps' = [o \in Ptrs |-> Nil] /\ items' = <<>> /\ batch' = {}
    BY <1>9 DEF Ends, End
  <2>2. Registered' = {}
    BY <2>1 DEF Registered, Range
  <2>3. \A o \in Ptrs : h[o] # Nil => Plain(h[o])
    BY <1>9 DEF Ends, MarkInv
  <2>4. ASSUME NEW o \in Ptrs, heap'[o] # Nil PROVE Plain(heap'[o])
    <3>1. CASE o \in Registered
      <4>1. h[o] \in EntityType /\ h[o] # Nil
        BY <3>1, <1>9, <1>0 DEF Ends
      <4>2. Detach(h[o]).loaded = h[o].loaded /\ (~h[o].loaded => Detach(h[o]) = h[o])
        BY <4>1, Detached
      <4>3. heap'[o] = Detach(h[o])
        BY <2>1, <3>1
      <4> QED BY <2>3, <4>1, <4>2, <4>3 DEF Plain
    <3>2. CASE o \notin Registered
      <4>1. heap'[o] = h[o]
        BY <2>1, <3>2
      <4> QED BY <2>3, <2>4, <4>1
    <3> QED BY <3>1, <3>2
  <2> QED BY <2>1, <2>2, <2>4 DEF MarkInv
<1> QED BY <1>1, <1>2, <1>3, <1>4, <1>5, <1>6, <1>8, <1>9, Moves

-----------------------------------------------------------------------------
(* Entities of one transaction, and rows of its lock *)

LEMMA BelongStep ==
  ASSUME Inv, Next, TypeOK', ListInv' PROVE EntitiesBelongToOneTransaction'
<1> USE DEF Inv, EntitiesBelongToOneTransaction
<1>0. /\ TypeOK /\ Registered \subseteq Ptrs
  BY RegisteredCells
<1>1. ASSUME UNCHANGED <<heap, items>> PROVE EntitiesBelongToOneTransaction'
  BY <1>1 DEF Registered
<1>2. CASE \/ \E id \in Ids : OtherCommits(id)
           \/ \E key \in Uids \cup {NoLock} : Begin(key)
           \/ StartFlush \/ FlushEnds
  <2>1. UNCHANGED <<heap, items>>
    BY <1>2 DEF OtherCommits, Begin, StartFlush, FlushEnds
  <2> QED BY <2>1, <1>1
<1>3. ASSUME NEW o \in Ptrs, NEW e \in EntityType, Replaces(o, e) \/ Edits(o, e)
      PROVE  EntitiesBelongToOneTransaction'
  <2>1. /\ \A p \in Ptrs : heap'[p] = IF p = o THEN e ELSE heap[p]
        /\ Registered' = Registered
    BY <1>3, <1>0 DEF Replaces, Edits, TypeOK, Registered
  <2>2. e.loaded => (e.detached <=> o \notin Registered)
    <3>1. CASE Replaces(o, e)
      BY <3>1 DEF Replaces
    <3>2. CASE Edits(o, e)
      BY <3>2, NilAssumption DEF Edits, Edited
    <3> QED BY <1>3, <3>1, <3>2
  <2> QED BY <2>1, <2>2
<1>5. ASSUME NEW new \in SUBSET (Ptrs \ Registered), NEW key \in [new -> Visible], Reads(new, key)
      PROVE  EntitiesBelongToOneTransaction'
  <2>1. \A o \in new : ~heap'[o].detached
    BY <1>5, Additions
  <2>2. /\ \A o \in Ptrs \ new : heap'[o] = heap[o]
        /\ Registered' = Registered \cup new
    BY <1>5, ReadsKeep
  <2> QED BY <2>1, <2>2
<1>6. ASSUME NEW o \in Ptrs, Insert(o) PROVE EntitiesBelongToOneTransaction'
  <2> PICK f \in EntityType, s \in EntityType : Inserts(o, f, s)
    BY <1>6, InsertsWhat
  <2>1. \A p \in Ptrs : heap'[p] = IF p = o THEN f ELSE heap[p]
    BY <1>0 DEF Inserts, TypeOK
  <2>2. ~f.detached
    BY <1>6, InsertedIsPlain
  <2>3. Registered' = Registered \cup {o}
    BY <1>0, Appended DEF Inserts
  <2> QED BY <2>1, <2>2, <2>3
<1>8. ASSUME NEW i \in batch, Flushes(i) PROVE EntitiesBelongToOneTransaction'
  <2> DEFINE o == items[i]
             e == heap[o]
             d == FlushDone(e)
  <2>1. /\ o \in Ptrs /\ o \in Registered /\ e \in EntityType /\ e.loaded
        /\ heap' = [heap EXCEPT ![o] = d] /\ UNCHANGED items
    BY <1>8, <1>0 DEF Flushes
  <2>2. d.detached = e.detached
    BY <2>1, Done
  <2> HIDE DEF d
  <2>3. \A p \in Ptrs : heap'[p] = IF p = o THEN d ELSE heap[p]
    BY <2>1, <1>0 DEF TypeOK
  <2> QED BY <2>1, <2>2, <2>3, NilAssumption DEF Registered
<1>9. ASSUME NEW h, Ends(h) PROVE EntitiesBelongToOneTransaction'
  <2>1. /\ heap' = [o \in Ptrs |-> IF o \in Registered THEN Detach(h[o]) ELSE h[o]]
        /\ items' = <<>>
    BY <1>9 DEF Ends, End
  <2>2. Registered' = {}
    BY <2>1 DEF Registered, Range
  <2>3. ASSUME NEW o \in Ptrs, heap'[o] # Nil, heap'[o].loaded PROVE heap'[o].detached
    <3>1. CASE o \in Registered
      <4>1. h[o] \in EntityType
        BY <3>1, <1>9, <1>0 DEF Ends
      <4>2. Detach(h[o]).loaded => Detach(h[o]).detached
        BY <4>1, Detached
      <4>3. heap'[o] = Detach(h[o])
        BY <2>1, <3>1
      <4> QED BY <2>3, <4>2, <4>3
    <3>2. CASE o \notin Registered
      <4>1. heap'[o] = h[o] /\ h[o] = heap[o]
        BY <2>1, <3>2, <1>9 DEF Ends, ListInv
      <4> QED BY <2>3, <3>2, <4>1
    <3> QED BY <3>1, <3>2
  <2> QED BY <2>2, <2>3
<1> QED BY <1>2, <1>3, <1>5, <1>6, <1>8, <1>9, Moves

\* A row that the transaction's flush reaches is a row of its lock.
LEMMA FlushedIsOwn ==
  ASSUME Inv, Owned, NEW i \in batch, Flushes(i), db[heap[items[i]].id] # NoRow
  PROVE  db[heap[items[i]].id].uid = lock
<1> DEFINE o == items[i]
           e == heap[o]
<1>1. o \in Registered /\ e \in EntityType /\ e.loaded /\ e.id \in Ids /\ FlushStmt(e) # "none"
  BY DEF Flushes
<1>2. e.deleted \/ e.dirty # {}
  BY <1>1, Statements
<1>3. ~e.foreign
  BY <1>1, <1>2 DEF Inv, MarkInv
<1> QED BY <1>1, <1>3 DEF Inv, OwnInv

LEMMA OwnStep == ASSUME Inv, Next, TypeOK', ListInv' PROVE OwnInv'
<1> SUFFICES ASSUME Owned PROVE OwnInv'
  BY DEF OwnInv
<1> USE DEF Inv
<1>0. /\ TypeOK /\ Registered \subseteq Ptrs
      /\ \A o \in Registered : heap[o] # Nil /\ heap[o] \in EntityType
  BY RegisteredCells, NilAssumption DEF ListInv, TypeOK
<1>1. /\ \A o \in Registered : LET e == heap[o] IN
            e.loaded /\ ~e.foreign /\ mine[e.id] = NotWritten /\ db[e.id] # NoRow
                => lock # NoLock /\ db[e.id].uid = lock
      /\ \A id \in Ids : mine[id] # NotWritten /\ db[id] # NoRow => db[id].uid = lock
  BY DEF OwnInv
<1>2. ASSUME NEW id \in Ids, OtherCommits(id) PROVE OwnInv'
  <2>1. /\ UNCHANGED <<lock, heap, items, mine>> /\ mine[id] = NotWritten
        /\ ~(lock # NoLock /\ db[id] # NoRow /\ db[id].uid = lock)
        /\ db[id] = NoRow => id = nextId
        /\ \A x \in Ids \ {id} : db'[x] = db[x]
    BY <1>2, <1>0 DEF OtherCommits, OtherMayWrite, TypeOK
  <2>2. ASSUME NEW o \in Registered, heap[o].loaded, ~heap[o].foreign, mine[heap[o].id] = NotWritten,
               db'[heap[o].id] # NoRow
        PROVE  lock # NoLock /\ db'[heap[o].id].uid = lock
    <3>1. heap[o].id \in Ids /\ heap[o].id < nextId
      <4>1. heap[o].id # 0
        BY <1>0, <2>2 DEF KeyInv, Known
      <4> QED BY <1>0, <4>1, KeysOfRows
    <3>2. nextId \in Nat
      BY <1>0, BoundAssumption DEF TypeOK
    <3>3. heap[o].id # id
      BY <2>1, <2>2, <3>1, <3>2, <1>1
    <3> QED BY <2>1, <2>2, <3>1, <3>3, <1>1
  <2>3. \A x \in Ids : mine[x] # NotWritten /\ db'[x] # NoRow => db'[x].uid = lock
    BY <2>1, <1>1
  <2> QED BY <2>1, <2>2, <2>3 DEF OwnInv, Registered
<1>3. ASSUME NEW key \in Uids \cup {NoLock}, Begin(key) PROVE OwnInv'
  <2>1. items = <<>> /\ items' = items /\ \A id \in Ids : mine'[id] = NotWritten
    BY <1>3 DEF Begin, ListInv
  <2>2. Registered' = {}
    BY <2>1 DEF Registered, Range
  <2> QED BY <2>1, <2>2 DEF OwnInv
<1>4. ASSUME NEW o \in Ptrs, NEW e \in EntityType, Replaces(o, e) PROVE OwnInv'
  <2>1. /\ UNCHANGED <<lock, items, mine, db>> /\ o \notin Registered /\ heap' = [heap EXCEPT ![o] = e]
    BY <1>4 DEF Replaces
  <2>2. \A p \in Registered : heap'[p] = heap[p]
    BY <2>1, <1>0 DEF TypeOK
  <2> QED BY <2>1, <2>2, <1>1 DEF OwnInv, Registered
<1>5. ASSUME NEW o \in Ptrs, NEW e \in EntityType, Edits(o, e) PROVE OwnInv'
  <2>1. /\ UNCHANGED <<lock, items, mine, db>> /\ heap' = [heap EXCEPT ![o] = e]
        /\ e.id = heap[o].id /\ e.loaded = heap[o].loaded /\ e.foreign = heap[o].foreign
    BY <1>5 DEF Edits, Edited
  <2>2. \A p \in Registered : /\ heap'[p].id = heap[p].id /\ heap'[p].loaded = heap[p].loaded
                              /\ heap'[p].foreign = heap[p].foreign
    BY <2>1, <1>0 DEF TypeOK
  <2> QED BY <2>1, <2>2, <1>1 DEF OwnInv, Registered
<1>6. ASSUME NEW new \in SUBSET (Ptrs \ Registered), NEW key \in [new -> Visible], Reads(new, key)
      PROVE  OwnInv'
  <2>1. UNCHANGED <<lock, mine, db>>
    BY <1>6 DEF Reads
  <2>2. /\ \A o \in Ptrs \ new : heap'[o] = heap[o]
        /\ Registered' = Registered \cup new
    BY <1>6, ReadsKeep
  <2>3. ASSUME NEW o \in new, ~heap'[o].foreign, mine[heap'[o].id] = NotWritten
        PROVE  lock # NoLock /\ db[heap'[o].id].uid = lock
    <3>1. heap'[o].id = key[o] /\ key[o] \in Ids /\ lock # NoLock /\ View(key[o]).uid = lock
      BY <1>6, <2>3, Additions
    <3>2. View(key[o]) = db[key[o]]
      BY <2>3, <3>1, Views
    <3> QED BY <3>1, <3>2
  <2>4. \A o \in Registered' : LET e == heap'[o] IN
            e.loaded /\ ~e.foreign /\ mine[e.id] = NotWritten /\ db[e.id] # NoRow
                => lock # NoLock /\ db[e.id].uid = lock
    BY <2>2, <2>3, <1>0, <1>1
  <2> QED BY <2>1, <2>4, <1>1 DEF OwnInv
<1>7. ASSUME NEW o \in Ptrs, Insert(o) PROVE OwnInv'
  <2> PICK f \in EntityType, s \in EntityType : Inserts(o, f, s)
    BY <1>7, InsertsWhat
  <2>1. /\ nextId \in Ids /\ mine' = [mine EXCEPT ![nextId] = heap[o].row] /\ heap[o].row \in Row
        /\ UNCHANGED <<lock, db>>
    BY <1>7, InsertsWhat
  <2>2. \A p \in Ptrs : heap'[p] = IF p = o THEN f ELSE heap[p]
    BY <1>0 DEF Inserts, TypeOK
  <2>3. Registered' = Registered \cup {o} /\ f.id = nextId
    BY <1>0, Appended DEF Inserts
  <2>4. /\ mine'[nextId] # NotWritten /\ db[nextId] = NoRow
        /\ \A id \in Ids \ {nextId} : mine'[id] = mine[id]
    <3>1. nextId >= nextId
      BY <2>1, BoundAssumption DEF Ids
    <3> QED BY <2>1, <3>1, <1>0, NoRowAssumption DEF KeyInv, TypeOK
  <2>5. ASSUME NEW p \in Registered, heap[p].loaded
        PROVE  mine'[heap[p].id] = mine[heap[p].id] \/ mine'[heap[p].id] # NotWritten
    <3>1. heap[p].id \in Ids
      <4>1. heap[p].id # 0
        BY <1>0, <2>5 DEF KeyInv, Known
      <4> QED BY <1>0, <4>1, KeysOfRows
    <3> QED BY <3>1, <2>4
  <2>6. ASSUME NEW p \in Registered' PROVE LET e == heap'[p] IN
            e.loaded /\ ~e.foreign /\ mine'[e.id] = NotWritten /\ db[e.id] # NoRow
                => lock # NoLock /\ db[e.id].uid = lock
    <3>1. CASE p = o
      BY <3>1, <2>2, <2>3, <2>4
    <3>2. CASE p # o
      <4>1. p \in Registered /\ heap'[p] = heap[p]
        BY <3>2, <2>2, <2>3, <1>0
      <4> QED BY <4>1, <2>5, <1>1
    <3> QED BY <3>1, <3>2
  <2>7. \A id \in Ids : mine'[id] # NotWritten /\ db[id] # NoRow => db[id].uid = lock
    BY <2>4, <1>1
  <2> QED BY <2>1, <2>6, <2>7 DEF OwnInv
<1>8. CASE StartFlush \/ FlushEnds
  <2>1. UNCHANGED <<lock, heap, items, mine, db>>
    BY <1>8 DEF StartFlush, FlushEnds
  <2> QED BY <2>1, <1>1 DEF OwnInv, Registered
<1>9. ASSUME NEW i \in batch, Flushes(i) PROVE OwnInv'
  <2> DEFINE o == items[i]
             e == heap[o]
             d == FlushDone(e)
  <2>1. /\ o \in Registered /\ e \in EntityType /\ e.loaded /\ e.id \in Ids
        /\ heap' = [heap EXCEPT ![o] = d]
        /\ mine'[e.id] # NotWritten /\ \A id \in Ids : id # e.id => mine'[id] = mine[id]
        /\ UNCHANGED <<lock, db, items>>
    BY <1>9, <1>0 DEF Flushes, TypeOK
  <2>2. d.id = e.id
    BY <2>1, Done
  <2>3. db[e.id] # NoRow => db[e.id].uid = lock
    BY <1>9, FlushedIsOwn
  <2> HIDE DEF d
  <2>4. \A p \in Ptrs : heap'[p] = IF p = o THEN d ELSE heap[p]
    BY <2>1, <1>0 DEF TypeOK
  <2>5. ASSUME NEW p \in Registered PROVE LET x == heap'[p] IN
            x.loaded /\ ~x.foreign /\ mine'[x.id] = NotWritten /\ db[x.id] # NoRow
                => lock # NoLock /\ db[x.id].uid = lock
    <3>1. CASE p = o
      BY <3>1, <2>1, <2>2, <2>4, <1>0
    <3>2. CASE p # o
      <4>1. heap'[p] = heap[p] /\ heap[p] # Nil /\ p \in Ptrs
        BY <3>2, <2>4, <1>0
      <4>2. heap[p].loaded => heap[p].id \in Ids
        BY <4>1, KeysOfRows DEF KeyInv, Known
      <4>3. heap[p].loaded /\ mine'[heap[p].id] = NotWritten => mine[heap[p].id] = NotWritten
        BY <4>2, <2>1
      <4> QED BY <4>1, <4>3, <1>1
    <3> QED BY <3>1, <3>2
  <2>6. \A id \in Ids : mine'[id] # NotWritten /\ db[id] # NoRow => db[id].uid = lock
    BY <2>1, <2>3, <1>1
  <2> QED BY <2>1, <2>5, <2>6 DEF OwnInv, Registered
<1>10. ASSUME NEW h, Ends(h) PROVE OwnInv'
  <2>1. items' = <<>> /\ \A id \in Ids : mine'[id] = NotWritten
    BY <1>10 DEF Ends, End
  <2>2. Registered' = {}
    BY <2>1 DEF Registered, Range
  <2> QED BY <2>1, <2>2 DEF OwnInv
<1> QED BY <1>2, <1>3, <1>4, <1>5, <1>6, <1>7, <1>8, <1>9, <1>10, Moves

-----------------------------------------------------------------------------

\* The working set stays consistent, whatever the program does with its
\* entities and whatever other transactions commit (dbpool/transaction.go).
THEOREM Invariance == Spec => []Inv
<1>1. Init => Inv
  <2> SUFFICES ASSUME Init PROVE Inv
    OBVIOUS
  <2>1. /\ pc = "idle" /\ txns = 0 /\ others = 0 /\ lock = NoLock
        /\ heap = [o \in Ptrs |-> Nil] /\ entry = heap /\ items = <<>>
        /\ snaps = [o \in Ptrs |-> Nil] /\ cache = [id \in Ids |-> Nil]
        /\ batch = {} /\ nextId = 2 /\ mine = [id \in Ids |-> NotWritten]
    BY DEF Init
  <2>2. PICK row \in Row : db = [id \in Ids |-> IF id = 1 THEN row ELSE NoRow]
    BY DEF Init
  <2>3. Registered = {}
    BY <2>1 DEF Registered, Range
  <2>4. TypeOK
    <3>1. heap \in [Ptrs -> EntityType \cup {Nil}] /\ snaps \in [Ptrs -> EntityType \cup {Nil}]
      BY <2>1
    <3>2. db \in [Ids -> Row \cup {NoRow}] /\ mine \in [Ids -> Row \cup {NoRow, NotWritten}]
          /\ cache \in [Ids -> Ptrs \cup {Nil}]
      BY <2>1, <2>2
    <3>3. items \in Seq(Ptrs) /\ batch \subseteq DOMAIN items
      BY <2>1
    <3>4. txns \in 0 .. MaxTxns /\ others \in 0 .. MaxOthers /\ nextId \in 2 .. MaxId + 1
      BY <2>1, BoundAssumption
    <3> QED BY <2>1, <3>1, <3>2, <3>3, <3>4 DEF TypeOK
  <2>5. ListInv
    BY <2>1, <2>3 DEF ListInv
  <2>6. KeyInv
    BY <2>1, <2>2, BoundAssumption DEF KeyInv, Ids
  <2>7. MarkInv /\ EntitiesBelongToOneTransaction
    BY <2>1, <2>3 DEF MarkInv, EntitiesBelongToOneTransaction
  <2>8. OwnInv
    BY <2>1, <2>3 DEF OwnInv
  <2> QED BY <2>4, <2>5, <2>6, <2>7, <2>8 DEF Inv
<1>2. Inv /\ [Next]_vars => Inv'
  <2>1. ASSUME Inv, Next PROVE Inv'
    <3>1. TypeOK'
      BY <2>1, TypeStep
    <3>2. ListInv'
      BY <2>1, <3>1, ListStep
    <3> QED BY <2>1, <3>1, <3>2, KeyStep, MarkStep, BelongStep, OwnStep DEF Inv
  <2>2. ASSUME Inv, UNCHANGED vars PROVE Inv'
    <3>1. /\ UNCHANGED <<pc, txns, others, lock, heap, items, snaps, cache, batch, db, mine, nextId, entry>>
          /\ Registered' = Registered
      BY <2>2 DEF vars, Registered
    <3>2. TypeOK' /\ ListInv'
      BY <2>2, <3>1 DEF Inv, TypeOK, ListInv
    <3>3. KeyInv' /\ MarkInv'
      BY <2>2, <3>1 DEF Inv, KeyInv, Known, MarkInv
    <3>4. EntitiesBelongToOneTransaction' /\ OwnInv'
      BY <2>2, <3>1 DEF Inv, EntitiesBelongToOneTransaction, OwnInv
    <3> QED BY <3>2, <3>3, <3>4 DEF Inv
  <2> QED BY <2>1, <2>2
<1> QED BY <1>1, <1>2, PTL DEF Spec

\* An entity of an ended transaction is detached for good, and an entity that
\* may be written belongs to the transaction in progress.
THEOREM OneTransactionEach == Spec => []EntitiesBelongToOneTransaction
<1>1. Inv => EntitiesBelongToOneTransaction
  BY DEF Inv
<1> QED BY <1>1, Invariance, PTL

\* With lock="uid" no commit touches a row of another lock, for any program:
\* one that goes on with entities that it has deleted included.
THEOREM OwnRows == ASSUME Owned PROVE Spec => OnlyOwnRowsChange
<1>1. ASSUME Inv, Commit, NEW id \in Ids, db'[id] # db[id], db[id] # NoRow
      PROVE  db[id].uid = lock
  <2>1. db'[id] = View(id)
    BY <1>1 DEF Commit
  <2>2. mine[id] # NotWritten
    BY <1>1, <2>1 DEF View
  <2> QED BY <1>1, <2>2 DEF Inv, OwnInv
<1>2. Inv => (Commit => \A id \in Ids : db'[id] # db[id] /\ db[id] # NoRow => db[id].uid = lock)
  BY <1>1
<1>3. Inv /\ [Next]_vars =>
         [Commit => \A id \in Ids : db'[id] # db[id] /\ db[id] # NoRow => db[id].uid = lock]_vars
  BY <1>2
<1> QED BY <1>3, Invariance, PTL DEF Spec, OnlyOwnRowsChange

-----------------------------------------------------------------------------
(* Programs that leave deleted entities alone *)

LEMMA CarefulInsert ==
  ASSUME ~ReuseDeleted, Inv, NEW o \in Ptrs, Insert(o)
  PROVE  /\ heap[o] \in EntityType /\ heap[o].id = 0 /\ nextId \in Ids
         /\ \E f \in EntityType :
               /\ f.id = nextId /\ f.loaded /\ f.dirty = {} /\ f.row = heap[o].row
               /\ \A p \in Ptrs : heap'[p] = IF p = o THEN f ELSE heap[p]
         /\ \A p \in Ptrs : snaps'[p] = IF p = o /\ o \notin Registered THEN heap[o] ELSE snaps[p]
         /\ Registered' = Registered \cup {o}
         /\ \A id \in Ids : cache'[id] = IF id = nextId THEN o ELSE cache[id]
         /\ \A id \in Ids : mine'[id] = IF id = nextId THEN heap[o].row ELSE mine[id]
         /\ heap[o].row \in Row /\ pc = "fn"
         /\ UNCHANGED <<pc, db, entry>>
<1>1. /\ heap[o] \in EntityType /\ heap[o].id = 0 /\ nextId \in Ids /\ heap[o].row \in Row
      /\ mine' = [mine EXCEPT ![nextId] = heap[o].row] /\ pc = "fn"
      /\ UNCHANGED <<pc, db, entry>>
  BY InsertsWhat
<1>2. PICK f \in EntityType, s \in EntityType : Inserts(o, f, s)
  BY InsertsWhat
<1>3. Registered' = Registered \cup {o}
  BY <1>2, Appended DEF Inserts, Inv
<1>4. \A p \in Ptrs : heap'[p] = IF p = o THEN f ELSE heap[p]
  BY <1>2 DEF Inserts, TypeOK, Inv
<1>5. \A p \in Ptrs : snaps'[p] = IF p = o /\ o \notin Registered THEN heap[o] ELSE snaps[p]
  BY <1>1, <1>2 DEF Inserts, TypeOK, Inv
<1>6. \A id \in Ids : cache'[id] = IF id = nextId THEN o ELSE cache[id]
  BY <1>1, <1>2 DEF Inserts, TypeOK, Inv
<1>7. \A id \in Ids : mine'[id] = IF id = nextId THEN heap[o].row ELSE mine[id]
  BY <1>1 DEF TypeOK, Inv
<1>8. f.id = nextId /\ f.loaded /\ f.dirty = {} /\ f.row = heap[o].row
  BY <1>2 DEF Inserts
<1> QED BY <1>1, <1>3, <1>4, <1>5, <1>6, <1>7, <1>8

LEMMA OneEntityStep ==
  ASSUME ~ReuseDeleted, Inv, OneEntityPerRow, Next PROVE OneEntityPerRow'
<1>0. /\ TypeOK /\ Registered \subseteq Ptrs
      /\ \A o \in Registered : heap[o] # Nil /\ heap[o] \in EntityType
      /\ \A id \in Ids : id # 0
  BY RegisteredCells, NilAssumption DEF Inv, ListInv, TypeOK, Ids
<1>a. ASSUME UNCHANGED <<items, cache>>, \A o \in Registered : heap'[o].id = heap[o].id
      PROVE  OneEntityPerRow'
  <2>1. Registered' = Registered
    BY <1>a DEF Registered
  <2> QED BY <1>a, <2>1 DEF OneEntityPerRow
<1>1. CASE \/ \E id \in Ids : OtherCommits(id)
           \/ \E key \in Uids \cup {NoLock} : Begin(key)
           \/ StartFlush \/ FlushEnds
  <2>1. UNCHANGED <<heap, items, cache>>
    BY <1>1 DEF OtherCommits, Begin, StartFlush, FlushEnds
  <2> QED BY <2>1, <1>a
<1>2. ASSUME NEW o \in Ptrs, NEW e \in EntityType, Replaces(o, e) \/ Edits(o, e)
      PROVE  OneEntityPerRow'
  <2>1. UNCHANGED <<items, cache>> /\ heap' = [heap EXCEPT ![o] = e]
    BY <1>2 DEF Replaces, Edits
  <2>2. o \in Registered => e.id = heap[o].id
    BY <1>2 DEF Replaces, Edits, Edited
  <2>3. \A p \in Registered : heap'[p].id = heap[p].id
    BY <2>1, <2>2, <1>0 DEF TypeOK
  <2> QED BY <2>1, <2>3, <1>a
<1>3. ASSUME NEW new \in SUBSET (Ptrs \ Registered), NEW key \in [new -> Visible], Reads(new, key)
      PROVE  OneEntityPerRow'
  <2>1. \A o \in new : /\ heap'[o].id = key[o] /\ key[o] \in Ids
                       /\ cache[key[o]] = Nil /\ cache'[key[o]] = o
    BY <1>3, Additions
  <2>2. /\ \A o \in Ptrs \ new : heap'[o] = heap[o]
        /\ Registered' = Registered \cup new
        /\ \A id \in Ids : cache'[id] = cache[id] \/ \E o \in new : key[o] = id
    BY <1>3, ReadsKeep
  <2>3. ASSUME NEW id \in Ids, cache'[id] # Nil
        PROVE  cache'[id] \in Registered' /\ heap'[cache'[id]].id = id
    <3>1. CASE \E o \in new : key[o] = id
      BY <3>1, <2>1, <2>2
    <3>2. CASE cache'[id] = cache[id]
      <4>1. cache[id] \in Registered /\ heap[cache[id]].id = id
        BY <3>2, <2>3 DEF OneEntityPerRow
      <4>2. cache[id] \in Ptrs \ new
        BY <4>1, <1>0
      <4> QED BY <3>2, <4>1, <4>2, <2>2
    <3> QED BY <3>1, <3>2, <2>2
  <2>4. ASSUME NEW o \in Registered', heap'[o].id # 0 PROVE cache'[heap'[o].id] = o
    <3>1. CASE o \in new
      BY <3>1, <2>1
    <3>2. CASE o \in Registered
      <4>1. heap'[o] = heap[o] /\ heap[o] # Nil /\ o \in Ptrs /\ o # Nil
        BY <3>2, <2>2, <1>0, NilAssumption
      <4>2. heap[o].id \in Ids /\ cache[heap[o].id] = o
        BY <4>1, <3>2, <2>4, KeysOfRows DEF Inv, OneEntityPerRow
      <4>3. ~ \E p \in new : key[p] = heap[o].id
        BY <4>1, <4>2, <2>1
      <4> QED BY <4>1, <4>2, <4>3, <2>2
    <3> QED BY <3>1, <3>2, <2>2
  <2> QED BY <2>3, <2>4 DEF OneEntityPerRow
<1>4. ASSUME NEW o \in Ptrs, Insert(o) PROVE OneEntityPerRow'
  <2>1. /\ heap[o].id = 0 /\ nextId \in Ids
        /\ Registered' = Registered \cup {o}
        /\ \A id \in Ids : cache'[id] = IF id = nextId THEN o ELSE cache[id]
    BY <1>4, CarefulInsert
  <2>2. PICK f \in EntityType :
               /\ f.id = nextId
               /\ \A p \in Ptrs : heap'[p] = IF p = o THEN f ELSE heap[p]
    BY <1>4, CarefulInsert
  <2>3. ASSUME NEW id \in Ids, cache'[id] # Nil
        PROVE  cache'[id] \in Registered' /\ heap'[cache'[id]].id = id
    <3>1. CASE id = nextId
      BY <3>1, <2>1, <2>2
    <3>2. CASE id # nextId
      <4>1. /\ cache'[id] = cache[id] /\ cache[id] \in Registered /\ heap[cache[id]].id = id
        BY <3>2, <2>1, <2>3 DEF OneEntityPerRow
      <4>2. cache[id] # o /\ cache[id] \in Ptrs
        BY <4>1, <2>1, <1>0
      <4> QED BY <4>1, <4>2, <2>1, <2>2
    <3> QED BY <3>1, <3>2
  <2>4. ASSUME NEW p \in Registered', heap'[p].id # 0 PROVE cache'[heap'[p].id] = p
    <3>1. CASE p = o
      BY <3>1, <2>1, <2>2
    <3>2. CASE p # o
      <4>1. p \in Registered /\ p \in Ptrs /\ heap'[p] = heap[p] /\ heap[p] # Nil
        BY <3>2, <2>1, <2>2, <1>0
      <4>2. heap[p].id \in Ids /\ heap[p].id < nextId /\ cache[heap[p].id] = p
        BY <4>1, <2>4, KeysOfRows DEF Inv, OneEntityPerRow
      <4>3. heap[p].id # nextId
        BY <4>2, <1>0, BoundAssumption DEF TypeOK, Ids
      <4> QED BY <4>1, <4>2, <4>3, <2>1
    <3> QED BY <3>1, <3>2
  <2> QED BY <2>3, <2>4 DEF OneEntityPerRow
<1>5. ASSUME NEW i \in batch, Flushes(i) PROVE OneEntityPerRow'
  <2> DEFINE o == items[i]
             e == heap[o]
             d == FlushDone(e)
  <2>1. /\ o \in Registered /\ e \in EntityType
        /\ heap' = [heap EXCEPT ![o] = d] /\ UNCHANGED <<items, cache>>
    BY <1>5 DEF Flushes
  <2>2. d.id = e.id
    BY <2>1, Done
  <2> HIDE DEF d
  <2>3. \A p \in Registered : heap'[p].id = heap[p].id
    BY <2>1, <2>2, <1>0 DEF TypeOK
  <2> QED BY <2>1, <2>3, <1>a
<1>6. ASSUME NEW h, Ends(h) PROVE OneEntityPerRow'
  <2>1. items' = <<>> /\ cache' = [id \in Ids |-> Nil]
    BY <1>6 DEF Ends, End
  <2>2. Registered' = {}
    BY <2>1 DEF Registered, Range
  <2> QED BY <2>1, <2>2 DEF OneEntityPerRow
<1> QED BY <1>1, <1>2, <1>3, <1>4, <1>5, <1>6, Moves

LEMMA EntryStep ==
  ASSUME ~ReuseDeleted, Inv, EntryInv, Next PROVE EntryInv'
<1>0. TypeOK /\ Registered \subseteq Ptrs
  BY RegisteredCells DEF Inv
<1>1. CASE \/ \E id \in Ids : OtherCommits(id)
           \/ \E key \in Uids \cup {NoLock} : Begin(key)
           \/ StartFlush \/ FlushEnds
  <2>1. UNCHANGED <<heap, items, snaps, entry>>
    BY <1>1 DEF OtherCommits, Begin, StartFlush, FlushEnds
  <2> QED BY <2>1 DEF EntryInv, Registered
<1>2. ASSUME NEW o \in Ptrs, NEW e \in EntityType, Replaces(o, e) \/ Edits(o, e)
      PROVE  EntryInv'
  <2>1. /\ UNCHANGED <<items, snaps>> /\ heap' = [heap EXCEPT ![o] = e]
        /\ entry' = IF o \in Registered THEN entry ELSE [entry EXCEPT ![o] = e]
    BY <1>2 DEF Replaces, Edits
  <2>2. Registered' = Registered
    BY <2>1 DEF Registered
  <2>3. \A p \in Registered : entry'[p] = entry[p]
    BY <2>1, <1>0 DEF TypeOK
  <2>4. \A p \in Ptrs \ Registered : entry'[p] = heap'[p]
    BY <2>1, <1>0 DEF TypeOK, EntryInv
  <2> QED BY <2>1, <2>2, <2>3, <2>4 DEF EntryInv
<1>3. ASSUME NEW new \in SUBSET (Ptrs \ Registered), NEW key \in [new -> Visible], Reads(new, key)
      PROVE  EntryInv'
  <2>1. \A o \in new : snaps'[o] = entry'[o]
    BY <1>3, Additions
  <2>2. /\ \A o \in Ptrs \ new : heap'[o] = heap[o] /\ snaps'[o] = snaps[o] /\ entry'[o] = entry[o]
        /\ Registered' = Registered \cup new
    BY <1>3, ReadsKeep
  <2> QED BY <2>1, <2>2, <1>0 DEF EntryInv
<1>4. ASSUME NEW o \in Ptrs, Insert(o) PROVE EntryInv'
  <2>1. /\ Registered' = Registered \cup {o} /\ entry' = entry
        /\ \A p \in Ptrs : snaps'[p] = IF p = o /\ o \notin Registered THEN heap[o] ELSE snaps[p]
    BY <1>4, CarefulInsert
  <2>2. \A p \in Ptrs : p # o => heap'[p] = heap[p]
    BY <1>4, CarefulInsert
  <2> QED BY <2>1, <2>2, <1>0 DEF EntryInv
<1>5. ASSUME NEW i \in batch, Flushes(i) PROVE EntryInv'
  <2>1. /\ items[i] \in Registered /\ UNCHANGED <<items, snaps, entry>>
        /\ \A p \in Ptrs : p # items[i] => heap'[p] = heap[p]
    BY <1>5, <1>0 DEF Flushes, TypeOK
  <2> QED BY <2>1, <1>0 DEF EntryInv, Registered
<1>6. ASSUME NEW h, Ends(h) PROVE EntryInv'
  <2>1. items' = <<>> /\ entry' = heap'
    BY <1>6 DEF Ends, End
  <2>2. Registered' = {}
    BY <2>1 DEF Registered, Range
  <2> QED BY <2>1, <2>2 DEF EntryInv
<1> QED BY <1>1, <1>2, <1>3, <1>4, <1>5, <1>6, Moves

LEMMA WrittenWithoutRow ==
  ASSUME NEW e, ~e.loaded, e.id = 0
  PROVE  \A before, m, d : Written(e, before, m, d)
  BY DEF Written

LEMMA WrittenAfterEdit ==
  ASSUME NEW e \in EntityType, NEW f, Edited(e, f), NEW before, NEW m, NEW d,
         Written(e, before, m, d)
  PROVE  Written(f, before, m, d)
  BY DEF Written, Edited, EntityType

LEMMA WrittenAfterOthers ==
  ASSUME NEW e, NEW before, NEW d, Written(e, before, NotWritten, d),
         ~(Owned /\ e.loaded /\ ~e.foreign)
  PROVE  \A x : Written(e, before, NotWritten, x)
  BY NoRowAssumption DEF Written

LEMMA WrittenAfterFlush ==
  ASSUME NEW e \in EntityType, e.loaded, FlushStmt(e) # "none",
         NEW before, NEW m, NEW d, Written(e, before, m, d),
         NEW row \in Row, row = IF m = NotWritten THEN d ELSE m
  PROVE  Written(FlushDone(e), before,
                 IF FlushStmt(e) = "delete" THEN NoRow ELSE UpdateStmt(row, e), d)
<1> DEFINE f == FlushDone(e)
           u == UpdateStmt(row, e)
<1>1. /\ f.id = e.id /\ f.row = e.row /\ f.dirty = {} /\ f.foreign = e.foreign
      /\ f.loaded = (e.loaded /\ ~e.deleted)
  BY Done
<1>2. u \in Row /\ \A c \in Columns : u[c] = IF c \in e.dirty THEN e.row[c] ELSE row[c]
  BY Updates
<1>3. FlushStmt(e) = "delete" <=> e.loaded /\ e.deleted
  BY Statements
<1>4. f.loaded \in BOOLEAN /\ e.deleted \in BOOLEAN
  BY Done DEF EntityType
<1> HIDE DEF f, u
<1>5. CASE FlushStmt(e) = "delete"
  <2>1. ~f.loaded
    BY <1>1, <1>3, <1>4, <1>5
  <2>2. Written(f, before, NoRow, d)
    BY <2>1 DEF Written
  <2> QED BY <1>5, <2>2 DEF f
<1>6. CASE FlushStmt(e) # "delete"
  <2>1. f.loaded
    BY <1>1, <1>3, <1>4, <1>6
  <2>2. u # NotWritten /\ u # NoRow
    BY <1>2, NoRowAssumption
  <2>3. ASSUME NEW c \in Columns, f.row[c] # before.row[c] \/ before.id = 0
        PROVE  u[c] = f.row[c]
    <3>1. CASE c \in e.dirty
      BY <3>1, <1>1, <1>2
    <3>2. CASE c \notin e.dirty
      <4>1. m \in Row /\ m[c] = e.row[c]
        BY <3>2, <2>3, <1>1 DEF Written
      <4>2. row = m
        BY <4>1, NoRowAssumption
      <4> QED BY <3>2, <4>1, <4>2, <1>1, <1>2
    <3> QED BY <3>1, <3>2
  <2>4. ASSUME Owned, ~f.foreign, NEW c \in Columns PROVE u[c] = f.row[c]
    <3>1. CASE c \in e.dirty
      BY <3>1, <1>1, <1>2
    <3>2. CASE c \notin e.dirty
      <4>1. row[c] = e.row[c]
        BY <3>2, <2>4, <1>1 DEF Written
      <4> QED BY <3>2, <4>1, <1>1, <1>2
    <3> QED BY <3>1, <3>2
  <2>5. Written(f, before, u, d)
    BY <1>1, <1>2, <2>1, <2>2, <2>3, <2>4 DEF Written
  <2> QED BY <1>6, <2>5 DEF f, u
<1> QED BY <1>5, <1>6

LEMMA MemoryStep == ASSUME ~ReuseDeleted, Inv, CarefulInv, Next PROVE MemoryInv'
<1>0. /\ TypeOK /\ KeyInv /\ Registered \subseteq Ptrs
      /\ \A o \in Registered : heap[o] # Nil /\ heap[o] \in EntityType
      /\ \A o \in Registered : heap[o].loaded => heap[o].id # 0
      /\ \A o \in Registered : heap[o].id # 0 => heap[o].id \in Ids /\ heap[o].id < nextId
  <2>1. TypeOK /\ KeyInv /\ Registered \subseteq Ptrs
    BY RegisteredCells DEF Inv
  <2>2. \A o \in Registered : heap[o] # Nil /\ heap[o] \in EntityType
    BY <2>1, NilAssumption DEF Inv, ListInv, TypeOK
  <2>3. \A o \in Registered : heap[o].loaded => heap[o].id # 0
    BY <2>1, <2>2 DEF KeyInv, Known
  <2> QED BY <2>1, <2>2, <2>3, KeysOfRows
<1>m. \A o \in Registered : Written(heap[o], entry[o], mine[heap[o].id], db[heap[o].id])
  BY DEF CarefulInv, MemoryInv
<1>1. ASSUME NEW id \in Ids, OtherCommits(id) PROVE MemoryInv'
  <2>1. /\ UNCHANGED <<pc, lock, heap, items, batch, mine, entry>> /\ mine[id] = NotWritten
        /\ ~(Owned /\ lock # NoLock /\ db[id] # NoRow /\ db[id].uid = lock)
        /\ \A x \in Ids \ {id} : db'[x] = db[x]
    BY <1>1, <1>0 DEF OtherCommits, OtherMayWrite, TypeOK
  <2>2. ASSUME NEW o \in Registered
        PROVE  Written(heap[o], entry[o], mine[heap[o].id], db'[heap[o].id])
    <3>1. CASE heap[o].id = 0
      BY <3>1, <1>0, WrittenWithoutRow
    <3>2. CASE heap[o].id # 0 /\ heap[o].id # id
      BY <3>2, <2>1, <1>0, <1>m
    <3>3. CASE heap[o].id = id
      <4>1. Written(heap[o], entry[o], NotWritten, db[id])
        BY <3>3, <2>1, <1>m
      <4>2. ASSUME Owned, heap[o].loaded, ~heap[o].foreign PROVE FALSE
        <5>1. db[id] # NoRow
          BY <4>1, <4>2 DEF Written
        <5>2. lock # NoLock /\ db[id].uid = lock
          BY <3>3, <2>1, <4>2, <5>1 DEF Inv, OwnInv
        <5> QED BY <2>1, <4>2, <5>1, <5>2
      <4>3. Written(heap[o], entry[o], NotWritten, db'[id])
        BY <4>1, <4>2, WrittenAfterOthers
      <4> QED BY <3>3, <4>3, <2>1
    <3> QED BY <3>1, <3>2, <3>3
  <2>3. pc \in {"flush", "commit"} =>
          \A i \in DOMAIN items : FlushStmt(heap[items[i]]) # "none" => i \in batch
    BY DEF CarefulInv, MemoryInv
  <2> QED BY <2>1, <2>2, <2>3 DEF MemoryInv, Registered
<1>2. ASSUME NEW key \in Uids \cup {NoLock}, Begin(key) PROVE MemoryInv'
  <2>1. items' = <<>> /\ pc' = "fn"
    BY <1>2 DEF Begin, Inv, ListInv
  <2>2. Registered' = {}
    BY <2>1 DEF Registered, Range
  <2> QED BY <2>1, <2>2 DEF MemoryInv
<1>3. ASSUME NEW o \in Ptrs, NEW e \in EntityType, Replaces(o, e) PROVE MemoryInv'
  <2>1. /\ UNCHANGED <<pc, items, mine, db>> /\ o \notin Registered /\ pc \in {"idle", "fn"}
        /\ \A p \in Registered : heap'[p] = heap[p] /\ entry'[p] = entry[p]
    BY <1>3, <1>0 DEF Replaces, TypeOK
  <2> QED BY <2>1, <1>m DEF MemoryInv, Registered
<1>4. ASSUME NEW o \in Ptrs, NEW e \in EntityType, Edits(o, e) PROVE MemoryInv'
  <2>1. /\ UNCHANGED <<pc, items, mine, db>> /\ pc \in {"idle", "fn"}
        /\ \A p \in Ptrs : heap'[p] = IF p = o THEN e ELSE heap[p]
        /\ \A p \in Registered : entry'[p] = entry[p]
        /\ Edited(heap[o], e) /\ heap[o] \in EntityType
    BY <1>4, <1>0 DEF Edits, TypeOK
  <2>2. ASSUME NEW p \in Registered
        PROVE  Written(heap'[p], entry'[p], mine[heap'[p].id], db[heap'[p].id])
    <3>1. CASE p = o
      <4>1. Written(e, entry[o], mine[heap[o].id], db[heap[o].id])
        BY <3>1, <2>1, <1>m, WrittenAfterEdit
      <4>2. e.id = heap[o].id
        BY <2>1 DEF Edited
      <4> QED BY <3>1, <4>1, <4>2, <2>1
    <3>2. CASE p # o
      BY <3>2, <2>1, <1>0, <1>m
    <3> QED BY <3>1, <3>2
  <2> QED BY <2>1, <2>2 DEF MemoryInv, Registered
<1>5. ASSUME NEW new \in SUBSET (Ptrs \ Registered), NEW key \in [new -> Visible], Reads(new, key)
      PROVE  MemoryInv'
  <2>1. UNCHANGED <<pc, mine, db>> /\ pc = "fn"
    BY <1>5 DEF Reads
  <2>2. /\ \A o \in Ptrs \ new : heap'[o] = heap[o] /\ entry'[o] = entry[o]
        /\ Registered' = Registered \cup new
    BY <1>5, ReadsKeep
  <2>3. ASSUME NEW o \in new
        PROVE  Written(heap'[o], entry'[o], mine[heap'[o].id], db[heap'[o].id])
    <3>1. LET id == key[o]
              e == heap'[o]
          IN  /\ id # 0 /\ View(id) \in Row /\ e.id = id /\ e.row = View(id) /\ e.loaded
              /\ entry'[o].id = id /\ entry'[o].row = View(id)
      BY <1>5, <2>3, Additions
    <3> QED BY <3>1, NoRowAssumption DEF Written, View
  <2> QED BY <2>1, <2>2, <2>3, <1>0, <1>m DEF MemoryInv
<1>6. ASSUME NEW o \in Ptrs, Insert(o) PROVE MemoryInv'
  <2>1. /\ Registered' = Registered \cup {o} /\ pc = "fn" /\ nextId \in Ids /\ heap[o].row \in Row
        /\ \A id \in Ids : mine'[id] = IF id = nextId THEN heap[o].row ELSE mine[id]
        /\ UNCHANGED <<pc, db, entry>>
    BY <1>6, CarefulInsert
  <2>2. PICK f \in EntityType :
               /\ f.id = nextId /\ f.loaded /\ f.dirty = {} /\ f.row = heap[o].row
               /\ \A p \in Ptrs : heap'[p] = IF p = o THEN f ELSE heap[p]
    BY <1>6, CarefulInsert
  <2>3. Written(f, entry[o], heap[o].row, db[nextId])
    BY <2>1, <2>2, NoRowAssumption DEF Written
  <2>4. ASSUME NEW p \in Registered, p # o
        PROVE  Written(heap[p], entry[p], mine'[heap[p].id], db[heap[p].id])
    <3>1. CASE heap[p].id = 0
      BY <3>1, <2>4, <1>0, WrittenWithoutRow
    <3>2. CASE heap[p].id # 0
      <4>1. heap[p].id \in Ids /\ heap[p].id < nextId
        BY <3>2, <2>4, <1>0
      <4>2. heap[p].id # nextId
        BY <4>1, <2>1, BoundAssumption DEF Ids
      <4> QED BY <4>1, <4>2, <2>1, <2>4, <1>m
    <3> QED BY <3>1, <3>2
  <2>5. ASSUME NEW p \in Registered'
        PROVE  Written(heap'[p], entry'[p], mine'[heap'[p].id], db'[heap'[p].id])
    <3>1. CASE p = o
      BY <3>1, <2>1, <2>2, <2>3
    <3>2. CASE p # o
      BY <3>2, <2>1, <2>2, <2>4, <1>0
    <3> QED BY <3>1, <3>2
  <2> QED BY <2>1, <2>5 DEF MemoryInv
<1>7. CASE StartFlush
  <2>1. /\ UNCHANGED <<heap, items, mine, db, entry>>
        /\ batch' = {i \in DOMAIN items : FlushStmt(heap[items[i]]) # "none"}
    BY <1>7 DEF StartFlush
  <2> QED BY <2>1, <1>m DEF MemoryInv, Registered
<1>8. ASSUME NEW i \in batch, Flushes(i) PROVE MemoryInv'
  <2> DEFINE o == items[i]
             e == heap[o]
             d == FlushDone(e)
             row == View(e.id)
             m == IF FlushStmt(e) = "delete" THEN NoRow ELSE UpdateStmt(row, e)
  <2>1. /\ o \in Registered /\ e \in EntityType /\ e.loaded /\ e.id \in Ids
        /\ FlushStmt(e) # "none" /\ row \in Row
        /\ mine' = [mine EXCEPT ![e.id] = m] /\ heap' = [heap EXCEPT ![o] = d]
        /\ batch' = batch \ {i} /\ pc = "flush"
        /\ UNCHANGED <<pc, items, db, entry>>
    BY <1>8 DEF Flushes
  <2>2. d.id = e.id /\ d.dirty = {} /\ d.loaded = (e.loaded /\ ~e.deleted) /\ d \in EntityType /\ ~d.deleted
    BY <2>1, Done
  <2>3. Written(d, entry[o], m, db[e.id])
    <3>1. row = IF mine[e.id] = NotWritten THEN db[e.id] ELSE mine[e.id]
      BY DEF View
    <3>2. Written(e, entry[o], mine[e.id], db[e.id])
      BY <2>1, <1>m
    <3> HIDE DEF row, e
    <3> QED BY <3>1, <3>2, <2>1, WrittenAfterFlush
  <2>4. FlushStmt(d) = "none"
    <3> HIDE DEF d
    <3> QED BY <2>2, Statements
  <2> HIDE DEF d, m, row
  <2>5. /\ \A p \in Ptrs : heap'[p] = IF p = o THEN d ELSE heap[p]
        /\ \A id \in Ids : mine'[id] = IF id = e.id THEN m ELSE mine[id]
    BY <2>1, <1>0 DEF TypeOK
  <2>6. ASSUME NEW p \in Registered
        PROVE  Written(heap'[p], entry[p], mine'[heap'[p].id], db[heap'[p].id])
    <3>1. CASE p = o
      BY <3>1, <2>1, <2>2, <2>3, <2>5, <1>0
    <3>2. CASE p # o /\ heap[p].id = 0
      BY <3>2, <2>5, <1>0, WrittenWithoutRow
    <3>3. CASE p # o /\ heap[p].id # 0
      <4>1. e.id # 0 /\ cache[e.id] = o /\ cache[heap[p].id] = p
        BY <3>3, <2>1, <1>0 DEF CarefulInv, OneEntityPerRow
      <4> QED BY <3>3, <4>1, <2>1, <2>5, <1>0, <1>m
    <3> QED BY <3>1, <3>2, <3>3
  <2>7. ASSUME NEW j \in DOMAIN items, FlushStmt(heap'[items[j]]) # "none" PROVE j \in batch'
    <3>1. items[j] \in Registered /\ i \in DOMAIN items
      BY <2>7, <1>0, Positions DEF TypeOK
    <3>2. items[j] # o
      BY <2>4, <2>5, <2>7, <3>1, <1>0
    <3>3. heap'[items[j]] = heap[items[j]] /\ j # i
      BY <3>1, <3>2, <2>5, <1>0
    <3> QED BY <3>1, <3>3, <2>1, <2>7 DEF CarefulInv, MemoryInv
  <2> QED BY <2>1, <2>6, <2>7 DEF MemoryInv, Registered
<1>9. CASE FlushEnds
  <2>1. UNCHANGED <<heap, items, mine, db, entry, batch>> /\ pc = "flush"
    BY <1>9 DEF FlushEnds
  <2> QED BY <2>1 DEF CarefulInv, MemoryInv, Registered
<1>10. ASSUME NEW h, Ends(h) PROVE MemoryInv'
  <2>1. items' = <<>> /\ pc' = "idle"
    BY <1>10 DEF Ends, End
  <2>2. Registered' = {}
    BY <2>1 DEF Registered, Range
  <2> QED BY <2>1, <2>2 DEF MemoryInv
<1> QED BY <1>1, <1>2, <1>3, <1>4, <1>5, <1>6, <1>7, <1>8, <1>9, <1>10, Moves

\* Unless the program goes on with entities that it has deleted, the identity
\* map, the snapshots and the flush list stay true to the entities and to the
\* table as well.
THEOREM CarefulInvariance == ASSUME ~ReuseDeleted PROVE Spec => [](Inv /\ CarefulInv)
<1>1. Init => CarefulInv
  <2> SUFFICES ASSUME Init PROVE CarefulInv
    OBVIOUS
  <2>1. /\ pc = "idle" /\ entry = heap /\ items = <<>> /\ cache = [id \in Ids |-> Nil]
    BY DEF Init
  <2>2. Registered = {}
    BY <2>1 DEF Registered, Range
  <2> QED BY <2>1, <2>2 DEF CarefulInv, OneEntityPerRow, EntryInv, MemoryInv
<1>2. Inv /\ CarefulInv /\ [Next]_vars => CarefulInv'
  <2>1. ASSUME Inv, CarefulInv, Next PROVE CarefulInv'
    <3>1. OneEntityPerRow'
      BY <2>1, OneEntityStep DEF CarefulInv
    <3>2. EntryInv'
      BY <2>1, EntryStep DEF CarefulInv
    <3> QED BY <2>1, <3>1, <3>2, MemoryStep DEF CarefulInv
  <2>2. ASSUME CarefulInv, UNCHANGED vars PROVE CarefulInv'
    <3>1. /\ UNCHANGED <<pc, heap, items, snaps, cache, batch, db, mine, entry>>
          /\ Registered' = Registered
      BY <2>2 DEF vars, Registered
    <3>2. OneEntityPerRow' /\ EntryInv'
      BY <2>2, <3>1 DEF CarefulInv, OneEntityPerRow, EntryInv
    <3>3. MemoryInv'
      BY <2>2, <3>1 DEF CarefulInv, MemoryInv
    <3> QED BY <3>2, <3>3 DEF CarefulInv
  <2> QED BY <2>1, <2>2
<1> QED BY <1>1, <1>2, Invariance, PTL DEF Spec

\* A row has one entity in a transaction, found under its own primary key.
THEOREM OneEntityEach == ASSUME ~ReuseDeleted PROVE Spec => []OneEntityPerRow
<1>1. CarefulInv => OneEntityPerRow
  BY DEF CarefulInv
<1> QED BY <1>1, CarefulInvariance, PTL

\* COMMIT is only sent when every change of every entity is in the table.
THEOREM MemoryReachesTheTable == ASSUME ~ReuseDeleted PROVE Spec => []MemoryIsWritten
<1>1. Inv /\ CarefulInv => MemoryIsWritten
  <2> SUFFICES ASSUME Inv, CarefulInv, pc = "commit", NEW o \in Registered
               PROVE  LET e == heap[o] IN
                      /\ ~e.loaded /\ e.id # 0 => View(e.id) = NoRow
                      /\ ~e.deleted
                      /\ e.loaded => \A c \in Columns :
                            e.row[c] # entry[o].row[c] \/ entry[o].id = 0 \/ (Owned /\ ~e.foreign)
                                => View(e.id) # NoRow /\ View(e.id)[c] = e.row[c]
    BY DEF MemoryIsWritten
  <2> DEFINE e == heap[o]
             m == mine[e.id]
             row == View(e.id)
  <2>1. e \in EntityType /\ o \in Ptrs
    BY RegisteredCells, NilAssumption DEF Inv, TypeOK, ListInv
  <2>2. PICK i \in DOMAIN items : items[i] = o
    BY DEF Registered, Range
  <2>3. FlushStmt(e) = "none"
    BY <2>2 DEF Inv, ListInv, CarefulInv, MemoryInv
  <2>4. ~e.loaded \/ (~e.deleted /\ e.dirty = {})
    BY <2>1, <2>3, Statements
  <2>5. ~e.loaded => ~e.deleted
    BY <2>1, NilAssumption DEF Inv, MarkInv, Plain
  <2>6. Written(e, entry[o], m, db[e.id])
    BY DEF CarefulInv, MemoryInv
  <2>7. row = IF m = NotWritten THEN db[e.id] ELSE m
    BY DEF View
  <2> HIDE DEF e, m, row
  <2>8. ~e.loaded /\ e.id # 0 => row = NoRow
    BY <2>6, <2>7, NoRowAssumption DEF Written
  <2>9. ASSUME e.loaded, NEW c \in Columns,
               e.row[c] # entry[o].row[c] \/ entry[o].id = 0 \/ (Owned /\ ~e.foreign)
        PROVE  row # NoRow /\ row[c] = e.row[c]
    BY <2>4, <2>6, <2>7, <2>9, NoRowAssumption DEF Written
  <2> QED BY <2>4, <2>5, <2>8, <2>9 DEF e, row
<1> QED BY <1>1, CarefulInvariance, PTL

\* After a rollback every entity is as the transaction found it.
THEOREM RollbacksRestore == ASSUME ~ReuseDeleted PROVE Spec => RollbackRestores
<1>1. ASSUME Inv, CarefulInv, Rollback, NEW o \in Registered
      PROVE  heap'[o] = Detach(entry[o])
  <2>1. o \in Ptrs /\ snaps[o] # Nil /\ snaps[o] = entry[o]
    BY <1>1, RegisteredCells DEF Inv, ListInv, CarefulInv, EntryInv
  <2>2. heap' = [p \in Ptrs |-> IF p \in Registered THEN Detach(Restored[p]) ELSE Restored[p]]
    BY <1>1, Zenon DEF Rollback, End
  <2>3. Restored[o] = entry[o]
    BY <2>1 DEF Restored
  <2>4. heap'[o] = Detach(Restored[o])
    BY <2>1, <2>2, Zenon
  <2> QED BY <2>3, <2>4, Zenon
<1>2. Inv /\ CarefulInv => (Rollback => \A o \in Registered : heap'[o] = Detach(entry[o]))
  BY <1>1
<1>3. Inv /\ CarefulInv /\ [Next]_vars =>
         [Rollback => \A o \in Registered : heap'[o] = Detach(entry[o])]_vars
  BY <1>2
<1> QED BY <1>3, CarefulInvariance, PTL DEF Spec, RollbackRestores

\* With lock="uid", ListByUid gives back exactly the entities of the lock that
\* have the value as the program sees them, for CheckPredicate panics before
\* it could miss one.
THEOREM ListsAreExact ==
  ASSUME ~ReuseDeleted, Owned PROVE Spec => ListsMatchTheirPredicate
<1> DEFINE Exact == \A u \in Uids : ListByUid(u) =>
                      \A o \in Range(items') :
                          LET e == heap'[o]
                          IN  e.loaded /\ ~e.deleted /\ ~e.foreign
                                  => (e.row.uid = u <=> e.id \in Matching(u))
<1>1. ASSUME Inv, CarefulInv, NEW u \in Uids, ListByUid(u), NEW o \in Range(items'),
             heap'[o].loaded, ~heap'[o].deleted, ~heap'[o].foreign
      PROVE  heap'[o].row.uid = u <=> heap'[o].id \in Matching(u)
  <2>1. /\ pc = "fn" /\ PredicateIsClean /\ Read(Matching(u))
        /\ UNCHANGED <<pc, txns, others, lock, batch, db, mine, nextId>>
    BY <1>1 DEF ListByUid
  <2>2. Matching(u) \in SUBSET Visible
    BY DEF Matching
  <2>3. PICK new \in SUBSET (Ptrs \ Registered) : \E key \in [new -> Matching(u)] : Adds(new, key)
    BY <1>1, <2>1, <2>2, ReadAdds DEF Inv
  <2>4. PICK key \in [new -> Matching(u)] : Adds(new, key)
    BY <2>3
  <2>5. key \in [new -> Visible] /\ Reads(new, key)
    BY <2>1, <2>2, <2>4 DEF Reads
  <2>6. /\ \A p \in Ptrs \ new : heap'[p] = heap[p]
        /\ Range(items') = Registered \cup new
    BY <1>1, <2>5, ReadsKeep DEF Registered
  <2>7. \A x : x \in Matching(u) <=> x \in Visible /\ View(x).uid = u
    BY DEF Matching
  <2>8. CASE o \in new
    <3>1. heap'[o].id = key[o] /\ heap'[o].row = View(key[o]) /\ key[o] \in Matching(u)
      BY <1>1, <2>4, <2>5, <2>8, Additions
    <3> QED BY <3>1, <2>7
  <2>9. CASE o \in Registered
    <3> DEFINE e == heap[o]
    <3>1. heap'[o] = e /\ o \in Ptrs /\ e # Nil /\ e \in EntityType
      BY <1>1, <2>6, <2>9, RegisteredCells, NilAssumption DEF Inv, TypeOK, ListInv
    <3>2. e.id # 0
      BY <1>1, <3>1 DEF Inv, KeyInv, Known
    <3>3. e.id \in Ids
      BY <1>1, <3>1, <3>2, KeysOfRows DEF Inv
    <3>4. "uid" \notin e.dirty
      BY <1>1, <2>1, <2>9, <3>1 DEF PredicateIsClean, DirtyColumns
    <3>5. View(e.id) # NoRow /\ View(e.id)["uid"] = e.row["uid"]
      <4>1. Written(e, entry[o], mine[e.id], db[e.id])
        BY <1>1, <2>9 DEF CarefulInv, MemoryInv
      <4>2. "uid" \in Columns \ e.dirty
        BY <3>4 DEF Columns
      <4> QED BY <1>1, <3>1, <4>1, <4>2 DEF Written, View
    <3>6. e.id \in Visible
      BY <3>3, <3>5 DEF Visible
    <3> QED BY <2>7, <3>1, <3>5, <3>6
  <2> QED BY <2>6, <2>8, <2>9
<1>2. Inv /\ CarefulInv => Exact
  BY <1>1
<1>3. Inv /\ CarefulInv /\ [Next]_vars => [Exact]_vars
  BY <1>2
<1> QED BY <1>3, CarefulInvariance, PTL DEF Spec, ListsMatchTheirPredicate

=============================================================================
