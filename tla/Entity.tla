------------------------------- MODULE Entity -------------------------------
(***************************************************************************)
(* The generated entity: its fields, its flags and the methods that        *)
(* dbctx.Flusher and dbctx.Owned ask for, as operators on values.  A table *)
(* has a lock column, uid, and one more column, val; the zero values of    *)
(* the Go struct are ZeroUid and ZeroVal.                                  *)
(***************************************************************************)
EXTENDS Naturals

CONSTANTS
    Uids, Vals,       \* values of the two columns
    ZeroUid, ZeroVal, \* what NewXxx() starts with
    Owned             \* whether the table declares lock="uid"

ASSUME ZeroAssumption == ZeroUid \in Uids /\ ZeroVal \in Vals
ASSUME OwnedAssumption == Owned \in BOOLEAN

Columns == {"uid", "val"}
Row == [uid : Uids, val : Vals]

EntityType ==
    [id : Nat, row : Row, loaded : BOOLEAN, deleted : BOOLEAN,
     detached : BOOLEAN, foreign : BOOLEAN, dirty : SUBSET Columns]

\* NewXxx()
New == [id |-> 0, row |-> [uid |-> ZeroUid, val |-> ZeroVal], loaded |-> FALSE,
        deleted |-> FALSE, detached |-> FALSE, foreign |-> FALSE, dirty |-> {}]

\* scanXxx
Scan(id, row) == [New EXCEPT !.id = id, !.row = row, !.loaded = TRUE]

\* Mutant of Guarded: the foreign check is missing.
GuardedIfDetached(o) == o.detached

\* SetXxx and Delete panic on an entity that is over or belongs to others.
Guarded(o) == o.detached \/ (Owned /\ o.foreign)

\* SetXxx
Set(o, col, v) ==
    IF o.row[col] = v THEN o
    ELSE [o EXCEPT !.row[col] = v, !.dirty = @ \cup {col}]

Delete(o) == IF o.loaded THEN [o EXCEPT !.deleted = TRUE] ELSE o

\* Mutant of Detach: nothing is detached.
DetachNothing(o) == o

Detach(o) == IF o.loaded THEN [o EXCEPT !.detached = TRUE] ELSE o

MarkForeign(o) == [o EXCEPT !.foreign = TRUE]

DirtyColumns(o) == IF ~o.loaded \/ o.deleted THEN {} ELSE o.dirty

\* Mutant of FlushStmt: a clean entity is skipped before it is seen to be deleted.
FlushStmtDirtyFirst(o) == CASE ~o.loaded \/ o.dirty = {} -> "none"
                            [] o.loaded /\ o.dirty # {} /\ o.deleted -> "delete"
                            [] OTHER -> "update"

\* Which statement FlushStmt returns, "none" for the empty string.
FlushStmt(o) == CASE ~o.loaded -> "none"
                  [] o.loaded /\ o.deleted -> "delete"
                  [] o.loaded /\ ~o.deleted /\ o.dirty = {} -> "none"
                  [] OTHER -> "update"

FlushDone(o) == IF o.deleted
                THEN [o EXCEPT !.loaded = FALSE, !.deleted = FALSE, !.dirty = {}]
                ELSE [o EXCEPT !.dirty = {}]

\* UpdateStmt: SET lists the dirty columns only.
UpdateStmt(row, o) == [c \in Columns |-> IF c \in o.dirty THEN o.row[c] ELSE row[c]]

\* Insert, once the primary key has come back.
Inserted(o, id) == [o EXCEPT !.id = id, !.loaded = TRUE, !.dirty = {}]
=============================================================================
