----------------------------- MODULE WorkingSet -----------------------------
(***************************************************************************)
(* The working set of one goroutine: the entities it has on its heap, the  *)
(* identity map, snapshots and flush list of its transaction, and the      *)
(* table, which other transactions change at the same time.  Transactions  *)
(* follow each other, and the goroutine keeps its pointers from one to the *)
(* next.  Isolation is READ COMMITTED: a statement sees what is committed  *)
(* when it runs and the transaction's own statements.                      *)
(***************************************************************************)
EXTENDS Entity, FiniteSets, Sequences, SequencesExt, Functions

CONSTANTS
    Ptrs,          \* heap cells for entities
    MaxId,         \* bound: primary keys the identity column hands out
    MaxTxns,       \* bound: transactions of the goroutine
    MaxOthers,     \* bound: changes that other transactions commit
    ReuseDeleted,  \* whether fn goes on using entities it has deleted
    NoRow, NotWritten, NoLock, Nil

ASSUME BoundAssumption == MaxId \in Nat \ {0} /\ MaxTxns \in Nat /\ MaxOthers \in Nat
ASSUME ReuseAssumption == ReuseDeleted \in BOOLEAN
ASSUME NilAssumption == Nil \notin Ptrs /\ Nil \notin EntityType
ASSUME NoRowAssumption == NoRow \notin Row /\ NotWritten \notin Row /\ NotWritten # NoRow
ASSUME NoLockAssumption == NoLock \notin Uids

Ids == 1 .. MaxId

VARIABLES
    pc,      \* idle, fn, flush, commit
    txns,    \* transactions begun
    others,  \* changes committed by others
    lock,    \* the bigint lock the transaction holds, or NoLock
    heap,    \* the entity in each cell, Nil if the cell is unused
    items,   \* registered entities, in order
    snaps,   \* their snapshots, Nil for entities that are not registered
    cache,   \* identity map: the registered entity of a primary key, or Nil
    batch,   \* positions in items whose statement is still to be executed
    db,      \* the committed table
    mine,    \* rows this transaction has written, NotWritten elsewhere
    nextId,  \* the identity column's sequence
    entry    \* ghost: each entity as it was before the transaction had it

vars == <<pc, txns, others, lock, heap, items, snaps, cache, batch, db, mine,
          nextId, entry>>

Registered == Range(items)

\* What a statement of this transaction sees.
View(id) == IF mine[id] = NotWritten THEN db[id] ELSE mine[id]
Visible == {id \in Ids : View(id) # NoRow}

Init ==
    /\ pc = "idle" /\ txns = 0 /\ others = 0 /\ lock = NoLock
    /\ heap = [o \in Ptrs |-> Nil]
    /\ entry = heap
    /\ items = <<>>
    /\ snaps = [o \in Ptrs |-> Nil]
    /\ cache = [id \in Ids |-> Nil]
    /\ batch = {}
    /\ nextId = 2
    /\ \E row \in Row : db = [id \in Ids |-> IF id = 1 THEN row ELSE NoRow]
    /\ mine = [id \in Ids |-> NotWritten]

-----------------------------------------------------------------------------
(* Other transactions commit changes to rows this one has not written.  With *)
(* lock="uid" they do not touch the rows of the lock this transaction holds. *)

OtherMayWrite(id) ==
    /\ others < MaxOthers /\ mine[id] = NotWritten
    /\ ~(Owned /\ lock # NoLock /\ db[id] # NoRow /\ db[id].uid = lock)

OtherCommits(id) ==
    /\ OtherMayWrite(id)
    /\ others' = others + 1
    /\ \/ /\ db[id] # NoRow
          /\ \E row \in Row \cup {NoRow} : db' = [db EXCEPT ![id] = row]
          /\ UNCHANGED nextId
       \/ /\ db[id] = NoRow /\ id = nextId
          /\ \E row \in Row : db' = [db EXCEPT ![id] = row]
          /\ nextId' = nextId + 1
    /\ UNCHANGED <<pc, txns, lock, heap, items, snaps, cache, batch, mine, entry>>

-----------------------------------------------------------------------------
(* AddCachedRecord *)

\* The working set as a value, so that registration is a function of it.
Current == [heap |-> heap, items |-> items, snaps |-> snaps, cache |-> cache]

Holds(key) == lock # NoLock /\ lock = key

\* What the first registration makes of an entity: a row that another lock
\* protects is only to be read.
Admitted(e) == IF Owned /\ e.id # 0 /\ ~Holds(e.row.uid) THEN MarkForeign(e) ELSE e

\* Registers the entity in cell o and returns the working set after it.
Register(w, o) ==
    LET id == w.heap[o].id
        known == id # 0 /\ w.cache[id] # Nil
        first == w.snaps[o] = Nil
    IN  IF known THEN w
        ELSE [heap  |-> IF first THEN [w.heap EXCEPT ![o] = Admitted(@)] ELSE w.heap,
              items |-> IF first THEN Append(w.items, o) ELSE w.items,
              snaps |-> IF first THEN [w.snaps EXCEPT ![o] = w.heap[o]] ELSE w.snaps,
              cache |-> IF id # 0 THEN [w.cache EXCEPT ![id] = o] ELSE w.cache]

Becomes(w) == /\ heap' = w.heap /\ items' = w.items
              /\ snaps' = w.snaps /\ cache' = w.cache

\* Cells that hold nothing, or an entity that the program lets go of.
Unused == Ptrs \ Registered

\* QueryOne and QueryList: every row of the result that has no entity yet is
\* scanned into a fresh cell and registered there.  Rows and cells all differ,
\* so that registering them one after the other comes to this.
Read(ids) ==
    LET missing == {id \in ids : cache[id] = Nil}
        order == SetToSeq(missing)
    IN  \E cell \in {f \in [missing -> Unused] : IsInjective(f)} :
            LET key == AntiFunction(cell)
                scanned(o) == Scan(key[o], View(key[o]))
            IN  /\ heap'  = [o \in Ptrs |-> IF o \in Range(cell) THEN Admitted(scanned(o)) ELSE heap[o]]
                /\ snaps' = [o \in Ptrs |-> IF o \in Range(cell) THEN scanned(o) ELSE snaps[o]]
                /\ entry' = [o \in Ptrs |-> IF o \in Range(cell) THEN scanned(o) ELSE entry[o]]
                /\ cache' = [id \in Ids |-> IF id \in missing THEN cell[id] ELSE cache[id]]
                /\ items' = items \o [i \in DOMAIN order |-> cell[order[i]]]

-----------------------------------------------------------------------------
(* The program, in and outside of a transaction. *)

Gone(o) == ~heap[o].loaded /\ heap[o].id # 0
Usable(o) == heap[o] # Nil /\ (ReuseDeleted \/ ~Gone(o))

Begin(key) ==
    /\ pc = "idle" /\ txns < MaxTxns
    /\ pc' = "fn" /\ txns' = txns + 1 /\ lock' = key
    /\ UNCHANGED <<others, heap, items, snaps, cache, batch, db, mine, nextId, entry>>

\* NewXxx()
Create(o) ==
    /\ pc \in {"idle", "fn"} /\ o \in Unused
    /\ heap' = [heap EXCEPT ![o] = New]
    /\ entry' = [entry EXCEPT ![o] = New]
    /\ UNCHANGED <<pc, txns, others, lock, items, snaps, cache, batch, db, mine, nextId>>

\* dbpool.Query: no working set, the entity is detached at once.
ReadOutside(id, o) ==
    /\ pc = "idle" /\ db[id] # NoRow
    /\ heap' = [heap EXCEPT ![o] = Detach(Scan(id, db[id]))]
    /\ entry' = [entry EXCEPT ![o] = heap'[o]]
    /\ UNCHANGED <<pc, txns, others, lock, items, snaps, cache, batch, db, mine, nextId>>

\* A setter or Delete that does not panic.
Change(o, e) ==
    /\ pc \in {"idle", "fn"} /\ Usable(o) /\ ~Guarded(heap[o])
    /\ heap' = [heap EXCEPT ![o] = e]
    /\ entry' = IF o \in Registered THEN entry ELSE [entry EXCEPT ![o] = e]
    /\ UNCHANGED <<pc, txns, others, lock, items, snaps, cache, batch, db, mine, nextId>>

GetById(id) ==
    /\ pc = "fn" /\ cache[id] = Nil
    /\ Read({id} \cap Visible)
    /\ UNCHANGED <<pc, txns, others, lock, batch, db, mine, nextId>>

Matching(u) == {id \in Visible : View(id).uid = u}

\* Mutant of PredicateIsClean: ListByUid has no guard.
PredicateUnchecked == TRUE

\* CheckPredicate panics while a change of the column is not written yet.
PredicateIsClean == \A o \in Registered : "uid" \notin DirtyColumns(heap[o])

ListByUid(u) ==
    /\ pc = "fn" /\ PredicateIsClean
    /\ Read(Matching(u))
    /\ UNCHANGED <<pc, txns, others, lock, batch, db, mine, nextId>>

GetAll ==
    /\ pc = "fn"
    /\ Read(Visible)
    /\ UNCHANGED <<pc, txns, others, lock, batch, db, mine, nextId>>

\* Mutants of Insert: it registers the entity after the INSERT only; before only.
InsertThenRegister(o) ==
    /\ pc = "fn" /\ Usable(o) /\ ~heap[o].loaded /\ nextId <= MaxId
    /\ Becomes(Register([Current EXCEPT !.heap[o] = Inserted(@, nextId)], o))
    /\ mine' = [mine EXCEPT ![nextId] = heap[o].row]
    /\ nextId' = nextId + 1
    /\ UNCHANGED <<pc, txns, others, lock, batch, db, entry>>

RegisterThenInsert(o) ==
    /\ pc = "fn" /\ Usable(o) /\ ~heap[o].loaded /\ nextId <= MaxId
    /\ Becomes([Register(Current, o) EXCEPT !.heap[o] = Inserted(@, nextId)])
    /\ mine' = [mine EXCEPT ![nextId] = heap[o].row]
    /\ nextId' = nextId + 1
    /\ UNCHANGED <<pc, txns, others, lock, batch, db, entry>>

\* Insert registers the entity, inserts the row, and registers it again under
\* its new primary key.
Insert(o) ==
    /\ pc = "fn" /\ Usable(o) /\ ~heap[o].loaded /\ nextId <= MaxId
    /\ LET w == Register(Current, o)
       IN  Becomes(Register([w EXCEPT !.heap[o] = Inserted(@, nextId)], o))
    /\ mine' = [mine EXCEPT ![nextId] = heap[o].row]
    /\ nextId' = nextId + 1
    /\ UNCHANGED <<pc, txns, others, lock, batch, db, entry>>

-----------------------------------------------------------------------------
(* flush, commit, rollback *)

\* fn returned nil: flush collects the statements in registration order.
StartFlush ==
    /\ pc = "fn"
    /\ pc' = "flush"
    /\ batch' = {i \in DOMAIN items : FlushStmt(heap[items[i]]) # "none"}
    /\ UNCHANGED <<txns, others, lock, heap, items, snaps, cache, db, mine, nextId, entry>>

\* The next statement of the batch affects a row; none affected is
\* ErrRowNotFound, which is a Rollback.
FlushNext ==
    /\ pc = "flush"
    /\ \E i \in batch :
          LET o == items[i]
              e == heap[o]
          IN  /\ \A j \in batch : i <= j
              /\ View(e.id) # NoRow
              /\ mine' = [mine EXCEPT ![e.id] =
                             IF FlushStmt(e) = "delete" THEN NoRow ELSE UpdateStmt(View(e.id), e)]
              /\ heap' = [heap EXCEPT ![o] = FlushDone(e)]
              /\ batch' = batch \ {i}
    /\ UNCHANGED <<pc, txns, others, lock, items, snaps, cache, db, nextId, entry>>

FlushEnds ==
    /\ pc = "flush" /\ batch = {}
    /\ pc' = "commit"
    /\ UNCHANGED <<txns, others, lock, heap, items, snaps, cache, batch, db, mine, nextId, entry>>

\* transaction.end(), on a heap.
End(h) ==
    /\ heap' = [o \in Ptrs |-> IF o \in Registered THEN Detach(h[o]) ELSE h[o]]
    /\ entry' = heap'
    /\ items' = <<>> /\ batch' = {}
    /\ snaps' = [o \in Ptrs |-> Nil]
    /\ cache' = [id \in Ids |-> Nil]
    /\ mine' = [id \in Ids |-> NotWritten]
    /\ lock' = NoLock /\ pc' = "idle"

\* COMMIT, answered or not: end() is called either way.
Commit ==
    /\ pc = "commit"
    /\ db' = [id \in Ids |-> View(id)]
    /\ End(heap)
    /\ UNCHANGED <<txns, others, nextId>>

\* COMMIT was not answered and did not take effect.
CommitLost ==
    /\ pc = "commit"
    /\ End(heap)
    /\ UNCHANGED <<txns, others, nextId, db>>

\* transaction.rollback(): every snapshot is restored.
Restored == [o \in Ptrs |-> IF snaps[o] # Nil THEN snaps[o] ELSE heap[o]]

\* fn returned an error or panicked (a guarded setter and CheckPredicate do),
\* a statement failed, or COMMIT turned out to be a ROLLBACK.
Rollback ==
    /\ pc \in {"fn", "flush", "commit"}
    /\ End(Restored)
    /\ UNCHANGED <<txns, others, nextId, db>>

-----------------------------------------------------------------------------

Next ==
    \/ \E id \in Ids : OtherCommits(id)
    \/ \E key \in Uids \cup {NoLock} : Begin(key)
    \/ \E o \in Ptrs : Create(o) \/ Insert(o)
    \/ \E id \in Ids, o \in Ptrs : ReadOutside(id, o)
    \/ \E o \in Ptrs, u \in Uids : Usable(o) /\ Change(o, Set(heap[o], "uid", u))
    \/ \E o \in Ptrs, v \in Vals : Usable(o) /\ Change(o, Set(heap[o], "val", v))
    \/ \E o \in Ptrs : Usable(o) /\ Change(o, Delete(heap[o]))
    \/ \E id \in Ids : GetById(id)
    \/ \E u \in Uids : ListByUid(u)
    \/ GetAll
    \/ StartFlush \/ FlushNext \/ FlushEnds
    \/ Commit \/ CommitLost \/ Rollback

Spec == Init /\ [][Next]_vars

-----------------------------------------------------------------------------
(* Properties *)

TypeOK ==
    /\ pc \in {"idle", "fn", "flush", "commit"}
    /\ txns \in 0 .. MaxTxns /\ others \in 0 .. MaxOthers
    /\ lock \in Uids \cup {NoLock}
    /\ heap \in [Ptrs -> EntityType \cup {Nil}]
    /\ entry \in [Ptrs -> EntityType \cup {Nil}]
    /\ snaps \in [Ptrs -> EntityType \cup {Nil}]
    /\ items \in Seq(Ptrs) /\ batch \subseteq DOMAIN items
    /\ cache \in [Ids -> Ptrs \cup {Nil}]
    /\ db \in [Ids -> Row \cup {NoRow}]
    /\ mine \in [Ids -> Row \cup {NoRow, NotWritten}]
    /\ nextId \in 2 .. MaxId + 1

\* The identity map and the entities agree: a row has one entity in the
\* transaction, found under its own primary key, whichever queries and inserts
\* produced it (transaction.go:15-16,58-68).
OneEntityPerRow ==
    /\ \A id \in Ids : cache[id] # Nil =>
          cache[id] \in Registered /\ heap[cache[id]].id = id
    /\ \A o \in Registered : heap[o].id # 0 => cache[heap[o].id] = o

\* Two UPDATEs of one batch can never hit the same row: nothing that the
\* transaction knows is written twice, and an entity of an ended transaction is
\* not written at all.
EntitiesBelongToOneTransaction ==
    \A o \in Ptrs : heap[o] # Nil /\ heap[o].loaded
                        => (heap[o].detached <=> o \notin Registered)

\* When COMMIT is sent, the table as this transaction sees it is what the
\* entities say: every changed column is written, every deleted row is gone,
\* every inserted row is there; and a row under the lock agrees in full.
MemoryIsWritten ==
    pc = "commit" =>
        \A o \in Registered :
            LET e == heap[o] IN
            /\ ~e.loaded /\ e.id # 0 => View(e.id) = NoRow
            /\ ~e.deleted
            /\ e.loaded => \A c \in Columns :
                  e.row[c] # entry[o].row[c] \/ entry[o].id = 0 \/ (Owned /\ ~e.foreign)
                      => View(e.id) # NoRow /\ View(e.id)[c] = e.row[c]

\* After a rollback every entity is as the transaction found it: as it was
\* read, or as it was before Insert (procedure.go:97, docs/design.md 2.4).
RollbackRestores ==
    [][Rollback => \A o \in Registered : heap'[o] = Detach(entry[o])]_vars

\* A query by a column returns what the program can see: no entity under the
\* lock is listed under a value it no longer has, and none is missing
\* (context.go:296-298).
ListsMatchTheirPredicate ==
    [][\A u \in Uids : ListByUid(u) =>
          \A o \in Range(items') :
              LET e == heap'[o]
              IN  e.loaded /\ ~e.deleted /\ ~e.foreign
                      => (e.row.uid = u <=> e.id \in Matching(u))]_vars

\* With lock="uid", a commit changes or deletes rows of the lock only.
OnlyOwnRowsChange ==
    [][Commit => \A id \in Ids :
          db'[id] # db[id] /\ db[id] # NoRow => db[id].uid = lock]_vars
=============================================================================
