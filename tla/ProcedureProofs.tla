-------------------------- MODULE ProcedureProofs --------------------------
(***************************************************************************)
(* Theorems about Procedure, for any number of callers, sessions, keys and *)
(* rows and any bounds.  Invariance proves the inductive invariant IInv,   *)
(* one lemma per conjunct (SessionStep, LockStep, TypeStep, ObjStep,       *)
(* WriteStep, CountStep); the safety properties follow from it, and so     *)
(* does the refinement of LockedTable.                                     *)
(***************************************************************************)
EXTENDS Procedure, FiniteSetTheorems, TLAPS

\* What COMMIT does to one row: the new version is the old one plus the
\* increments of the transaction, and a row that changes belongs to the lock
\* of the session.
LEMMA CommittedRow ==
    ASSUME IInv, NEW s \in Sessions, NEW r \in Rows
    PROVE  /\ Updated(rows[r], writes[s][r]) \in Row
           /\ Updated(rows[r], writes[s][r]).val = rows[r].val + Increment(writes[s][r])
           /\ Increment(writes[s][r]) \in Nat
           /\ writes[s][r] = NoObj => Updated(rows[r], writes[s][r]) = rows[r]
<1> DEFINE w == writes[s][r]
<1>1. rows[r] \in Row /\ w \in Entity \cup {NoObj} BY DEF IInv, TypeOK
<1>2. CASE w = NoObj BY <1>1, <1>2, BoundAssumption DEF Updated, Increment, Row
<1>3. CASE w # NoObj
  <2>1. w \in Entity /\ w.snap = rows[r] /\ w.cur.val >= w.snap.val
    BY <1>1, <1>3 DEF IInv, WriteInv
  <2>2. w.cur \in Row /\ w.snap \in Row BY <2>1 DEF Entity
  <2>3. QED BY <1>1, <1>3, <2>1, <2>2, BoundAssumption DEF Updated, Increment, Row
<1>4. QED BY <1>2, <1>3

\* AddCachedRecord takes the snapshot of a clean entity and marks the row
\* foreign exactly if the transaction does not hold its lock.
LEMMA RegisteredEntity ==
    ASSUME NEW p \in Callers, NEW row \in Row
    PROVE  /\ Registered(p, row) \in Entity
           /\ Registered(p, row) # NoObj
           /\ Registered(p, row).cur = row
           /\ Registered(p, row).snap = row
           /\ Registered(p, row).dirty = {}
           /\ Registered(p, row).foreign = ~HoldsKey(p, row.uid)
<1>1. Registered(p, row) \in Entity BY DEF Registered, Entity, HoldsKey
<1>2. QED BY <1>1, NoObjAssumption DEF Registered

\* A row that the body may change is the committed one, under the lock that
\* the session holds.
LEMMA WritableRow ==
    ASSUME IInv, NEW p \in Callers, NEW r \in Rows, Working(p),
           objs[p][r] # NoObj, ~objs[p][r].foreign
    PROVE  /\ sess[p] \in Sessions /\ srv[sess[p]] = "open"
           /\ objs[p][r].snap = rows[r]
           /\ holds[sess[p]] = rows[r].uid
           /\ rows[r].uid \in Keys /\ rows[r].uid # NoKey
<1>1. sess[p] \in Sessions /\ srv[sess[p]] = "open" BY DEF Working, IInv, TypeOK
<1>2. objs[p][r].snap = rows[r] /\ HoldsKey(p, rows[r].uid) BY DEF IInv, ObjInv
<1>3. holds[sess[p]] = rows[r].uid /\ rows[r].uid \in Keys BY <1>2 DEF HoldsKey, IInv, LockInv
<1>4. QED BY <1>1, <1>2, <1>3, KeysAssumption

\* A setter keeps an entity an entity, and touches neither its snapshot nor
\* its foreign mark.
LEMMA EditedEntity ==
    ASSUME NEW o \in Entity, NEW row \in Row, NEW col \in Columns
    PROVE  /\ Edited(o, row, col) \in Entity
           /\ Edited(o, row, col) # NoObj
           /\ Edited(o, row, col).cur = row
           /\ Edited(o, row, col).snap = o.snap
           /\ Edited(o, row, col).foreign = o.foreign
<1>1. Edited(o, row, col) \in Entity BY DEF Edited, Entity
<1>2. QED BY <1>1, NoObjAssumption DEF Edited

\* FlushDone clears the dirty columns and nothing else.
LEMMA FlushedEntity ==
    ASSUME NEW o \in Entity
    PROVE  /\ FlushDone(o) \in Entity
           /\ FlushDone(o) # NoObj
           /\ FlushDone(o).cur = o.cur
           /\ FlushDone(o).snap = o.snap
           /\ FlushDone(o).foreign = o.foreign
           /\ FlushDone(o).dirty = {}
<1>1. FlushDone(o) \in Entity BY DEF FlushDone, Entity
<1>2. QED BY <1>1, NoObjAssumption DEF FlushDone

\* Only rows of the lock are ever flushed.
LEMMA PendingRows ==
    ASSUME IInv, NEW p \in Callers, Working(p), NEW r \in Pending(p)
    PROVE  /\ r \in Rows /\ objs[p][r] \in Entity
           /\ objs[p][r].snap = rows[r]
           /\ holds[sess[p]] = rows[r].uid
           /\ objs[p][r].cur.val >= objs[p][r].snap.val
<1>1. r \in Rows /\ objs[p][r] # NoObj /\ objs[p][r].dirty # {} BY DEF Pending
<1>2. objs[p][r] \in Entity BY <1>1 DEF IInv, TypeOK
<1>3. ~objs[p][r].foreign BY <1>1, <1>2 DEF IInv, ObjInv, Entity
<1>4. objs[p][r].cur.val >= objs[p][r].snap.val BY <1>1 DEF IInv, ObjInv
<1>5. QED BY <1>1, <1>2, <1>3, <1>4, WritableRow

\* Every step keeps sessions apart: no session serves two callers, and a session
\* that is committing has its caller waiting in commit(), or nobody.
LEMMA SessionStep == IInv /\ [Next]_vars => SessionInv'
<1> SUFFICES ASSUME IInv, [Next]_vars PROVE SessionInv'
    OBVIOUS
<1> USE SessionAssumption DEF IInv, SessionInv, TypeOK, client, server, Live
<1>1. ASSUME NEW s \in Sessions, ServerStep(s) PROVE SessionInv'
  <2>1. CASE Grant(s)
    BY <2>1 DEF Grant, Free
  <2>2. CASE Kill(s)
    BY <2>2 DEF Kill, EndTransaction, Attached
  <2>3. CASE ServerCommit(s)
    BY <2>3 DEF ServerCommit, EndTransaction, Attached
  <2>4. CASE ServerAbort(s)
    BY <2>4 DEF ServerAbort, EndTransaction, Attached
  <2>5. QED BY <1>1, <2>1, <2>2, <2>3, <2>4 DEF ServerStep
<1>2. ASSUME NEW p \in Callers, CallerStep(p) PROVE SessionInv'
  <2>1. ASSUME NEW l \in LockSpecs, Call(p, l) PROVE SessionInv'
    BY <2>1 DEF Call
  <2>2. ASSUME NEW how \in CtxEnds, ContextEnds(p, how) PROVE SessionInv'
    BY <2>2 DEF ContextEnds
  <2>3. ASSUME NEW s \in Sessions, Begin(p, s) PROVE SessionInv'
    BY <2>3 DEF Begin
  <2>4. CASE BeginFails(p)
    BY <2>4 DEF BeginFails, Return, Count
  <2>5. CASE NoLock(p)
    BY <2>5 DEF NoLock
  <2>6. CASE RequestLock(p)
    <3>1. CASE lock[p].kind = "block" /\ waits' = [waits EXCEPT ![sess[p]] = lock[p].key] /\ UNCHANGED <<holds, pc>>
      BY <2>6, <3>1 DEF RequestLock
    <3>2. CASE /\ Free(lock[p].key) /\ lock[p].kind = "try"
               /\ holds' = [holds EXCEPT ![sess[p]] = lock[p].key] /\ UNCHANGED <<waits, pc>>
      BY <2>6, <3>2 DEF RequestLock, Free
    <3>3. CASE Fail(p, "busy") /\ UNCHANGED <<waits, holds>>
      BY <2>6, <3>3 DEF RequestLock, Fail
    <3>4. QED BY <2>6, <3>1, <3>2, <3>3 DEF RequestLock
  <2>7. CASE LockAcquired(p)
    BY <2>7 DEF LockAcquired
  <2>8. CASE LockTimeout(p)
    BY <2>8 DEF LockTimeout, Fail
  <2>9. CASE SqlFails(p)
    <3>1. CASE sess[p] # NoSession /\ Refuse(p) /\ UNCHANGED sess
      BY <2>9, <3>1 DEF SqlFails, Fail, Refuse
    <3>2. CASE sess[p] # NoSession /\ Disconnect(p)
      BY <2>9, <3>2 DEF SqlFails, Fail, Disconnect
    <3>3. CASE UNCHANGED <<sess, srv, waits>>
      BY <2>9, <3>3 DEF SqlFails, Fail
    <3>4. QED BY <2>9, <3>1, <3>2, <3>3 DEF SqlFails
  <2>10. ASSUME NEW r \in Rows, Query(p, r) PROVE SessionInv'
    BY <2>10 DEF Query
  <2>11. ASSUME NEW r \in Rows, SetVal(p, r) PROVE SessionInv'
    BY <2>11 DEF SetVal
  <2>12. ASSUME NEW r \in Rows, NEW k \in Keys, SetUid(p, r, k) PROVE SessionInv'
    BY <2>12 DEF SetUid
  <2>13. CASE IgnoredSqlError(p)
    <3>1. CASE Refuse(p) /\ UNCHANGED sess
      BY <2>13, <3>1 DEF IgnoredSqlError, Refuse
    <3>2. CASE Disconnect(p)
      BY <2>13, <3>2 DEF IgnoredSqlError, Disconnect
    <3>3. QED BY <2>13, <3>1, <3>2 DEF IgnoredSqlError
  <2>14. CASE FnReturns(p)
    BY <2>14 DEF FnReturns
  <2>15. ASSUME NEW e \in FnErrors, FnFails(p, e) PROVE SessionInv'
    BY <2>15 DEF FnFails, Fail
  <2>16. CASE FlushNothing(p)
    BY <2>16 DEF FlushNothing
  <2>17. CASE Flush(p)
    BY <2>17 DEF Flush
  <2>18. CASE SendCommit(p)
    BY <2>18 DEF SendCommit
  <2>19. CASE CommitRolledBack(p)
    BY <2>19 DEF CommitRolledBack, EndTransaction, Fail
  <2>20. CASE CommitDone(p)
    BY <2>20 DEF CommitDone, Detach, Count
  <2>21. CASE CommitUnknown(p)
    <3>1. CASE sess[p] # NoSession /\ Disconnect(p)
      BY <2>21, <3>1 DEF CommitUnknown, Detach, Return, Disconnect
    <3>2. CASE UNCHANGED <<sess, srv>>
      BY <2>21, <3>2 DEF CommitUnknown, Detach, Return
    <3>3. QED BY <2>21, <3>1, <3>2 DEF CommitUnknown
  <2>22. CASE Rollback(p)
    <3>1. CASE sess[p] # NoSession /\ EndTransaction(sess[p], "free")
      BY <2>22, <3>1 DEF Rollback, Detach, EndTransaction
    <3>2. CASE UNCHANGED <<srv, holds, waits, writes>>
      BY <2>22, <3>2 DEF Rollback, Detach
    <3>3. QED BY <2>22, <3>1, <3>2 DEF Rollback
  <2>23. CASE HooksDone(p)
    BY <2>23 DEF HooksDone, Return, Count
  <2> HIDE DEF IInv, SessionInv, TypeOK, client, server, Live
  <2>24. QED BY <1>2, <2>1, <2>2, <2>3, <2>4, <2>5, <2>6, <2>7, <2>8, <2>9, <2>10, <2>11, <2>12, <2>13, <2>14, <2>15, <2>16, <2>17, <2>18, <2>19, <2>20, <2>21, <2>22, <2>23 DEF CallerStep, FnStep
<1>3. CASE UNCHANGED vars BY <1>3 DEF vars
<1>4. QED BY <1>1, <1>2, <1>3 DEF Next

\* Every step keeps the advisory locks exclusive and bound to the life of the
\* transaction that took them.
LEMMA LockStep == IInv /\ [Next]_vars => LockInv'
<1> SUFFICES ASSUME IInv, [Next]_vars PROVE LockInv'
    OBVIOUS
<1> USE SessionAssumption, KeysAssumption, LockAssumption DEF IInv, SessionInv, LockInv, Working, TypeOK, client, server, Live, LockSpec
<1>1. ASSUME NEW s \in Sessions, ServerStep(s) PROVE LockInv'
  <2>1. CASE Grant(s)
    BY <2>1 DEF Grant, Free
  <2>2. CASE Kill(s)
    BY <2>2 DEF Kill, EndTransaction, Attached
  <2>3. CASE ServerCommit(s)
    BY <2>3 DEF ServerCommit, EndTransaction, Attached
  <2>4. CASE ServerAbort(s)
    BY <2>4 DEF ServerAbort, EndTransaction, Attached
  <2>5. QED BY <1>1, <2>1, <2>2, <2>3, <2>4 DEF ServerStep
<1>2. ASSUME NEW p \in Callers, CallerStep(p) PROVE LockInv'
  <2>1. ASSUME NEW l \in LockSpecs, Call(p, l) PROVE LockInv'
    BY <2>1 DEF Call
  <2>2. ASSUME NEW how \in CtxEnds, ContextEnds(p, how) PROVE LockInv'
    BY <2>2 DEF ContextEnds
  <2>3. ASSUME NEW s \in Sessions, Begin(p, s) PROVE LockInv'
    BY <2>3 DEF Begin
  <2>4. CASE BeginFails(p)
    BY <2>4 DEF BeginFails, Return, Count
  <2>5. CASE NoLock(p)
    BY <2>5 DEF NoLock
  <2>6. CASE RequestLock(p)
    <3>1. CASE lock[p].kind = "block" /\ waits' = [waits EXCEPT ![sess[p]] = lock[p].key] /\ UNCHANGED <<holds, pc>>
      BY <2>6, <3>1 DEF RequestLock
    <3>2. CASE /\ Free(lock[p].key) /\ lock[p].kind = "try"
               /\ holds' = [holds EXCEPT ![sess[p]] = lock[p].key] /\ UNCHANGED <<waits, pc>>
      BY <2>6, <3>2 DEF RequestLock, Free
    <3>3. CASE Fail(p, "busy") /\ UNCHANGED <<waits, holds>>
      BY <2>6, <3>3 DEF RequestLock, Fail
    <3>4. QED BY <2>6, <3>1, <3>2, <3>3 DEF RequestLock
  <2>7. CASE LockAcquired(p)
    BY <2>7 DEF LockAcquired
  <2>8. CASE LockTimeout(p)
    BY <2>8 DEF LockTimeout, Fail
  <2>9. CASE SqlFails(p)
    <3>1. CASE sess[p] # NoSession /\ Refuse(p) /\ UNCHANGED sess
      BY <2>9, <3>1 DEF SqlFails, Fail, Refuse
    <3>2. CASE sess[p] # NoSession /\ Disconnect(p)
      BY <2>9, <3>2 DEF SqlFails, Fail, Disconnect
    <3>3. CASE UNCHANGED <<sess, srv, waits>>
      BY <2>9, <3>3 DEF SqlFails, Fail
    <3>4. QED BY <2>9, <3>1, <3>2, <3>3 DEF SqlFails
  <2>10. ASSUME NEW r \in Rows, Query(p, r) PROVE LockInv'
    BY <2>10 DEF Query
  <2>11. ASSUME NEW r \in Rows, SetVal(p, r) PROVE LockInv'
    BY <2>11 DEF SetVal
  <2>12. ASSUME NEW r \in Rows, NEW k \in Keys, SetUid(p, r, k) PROVE LockInv'
    BY <2>12 DEF SetUid
  <2>13. CASE IgnoredSqlError(p)
    <3>1. CASE Refuse(p) /\ UNCHANGED sess
      BY <2>13, <3>1 DEF IgnoredSqlError, Refuse
    <3>2. CASE Disconnect(p)
      BY <2>13, <3>2 DEF IgnoredSqlError, Disconnect
    <3>3. QED BY <2>13, <3>1, <3>2 DEF IgnoredSqlError
  <2>14. CASE FnReturns(p)
    BY <2>14 DEF FnReturns
  <2>15. ASSUME NEW e \in FnErrors, FnFails(p, e) PROVE LockInv'
    BY <2>15 DEF FnFails, Fail
  <2>16. CASE FlushNothing(p)
    BY <2>16 DEF FlushNothing
  <2>17. CASE Flush(p)
    BY <2>17 DEF Flush
  <2>18. CASE SendCommit(p)
    BY <2>18 DEF SendCommit
  <2>19. CASE CommitRolledBack(p)
    BY <2>19 DEF CommitRolledBack, EndTransaction, Fail
  <2>20. CASE CommitDone(p)
    BY <2>20 DEF CommitDone, Detach, Count
  <2>21. CASE CommitUnknown(p)
    <3>1. CASE sess[p] # NoSession /\ Disconnect(p)
      BY <2>21, <3>1 DEF CommitUnknown, Detach, Return, Disconnect
    <3>2. CASE UNCHANGED <<sess, srv>>
      BY <2>21, <3>2 DEF CommitUnknown, Detach, Return
    <3>3. QED BY <2>21, <3>1, <3>2 DEF CommitUnknown
  <2>22. CASE Rollback(p)
    <3>1. CASE sess[p] # NoSession /\ EndTransaction(sess[p], "free")
      BY <2>22, <3>1 DEF Rollback, Detach, EndTransaction
    <3>2. CASE UNCHANGED <<srv, holds, waits, writes>>
      BY <2>22, <3>2 DEF Rollback, Detach
    <3>3. QED BY <2>22, <3>1, <3>2 DEF Rollback
  <2>23. CASE HooksDone(p)
    BY <2>23 DEF HooksDone, Return, Count
  <2> HIDE DEF IInv, SessionInv, LockInv, Working, TypeOK, client, server, Live, LockSpec
  <2>24. QED BY <1>2, <2>1, <2>2, <2>3, <2>4, <2>5, <2>6, <2>7, <2>8, <2>9, <2>10, <2>11, <2>12, <2>13, <2>14, <2>15, <2>16, <2>17, <2>18, <2>19, <2>20, <2>21, <2>22, <2>23 DEF CallerStep, FnStep
<1>3. CASE UNCHANGED vars BY <1>3 DEF vars
<1>4. QED BY <1>1, <1>2, <1>3 DEF Next

\* Every step keeps the variables in their types.  Increments are natural
\* numbers because the row versions being committed start from committed rows.
LEMMA TypeStep == IInv /\ [Next]_vars => TypeOK'
<1> SUFFICES ASSUME IInv, [Next]_vars PROVE TypeOK'
    OBVIOUS
<1> USE KeysAssumption, SessionAssumption, LockAssumption, BoundAssumption, SwitchAssumption DEF IInv, TypeOK, client, server, Live, Entity, Row, Columns, EmptySet, Outcomes, LockSpec, Classify, SqlError
<1>1. ASSUME NEW s \in Sessions, ServerStep(s) PROVE TypeOK'
  <2>1. CASE Grant(s)
    BY <2>1 DEF Grant, Free
  <2>2. CASE Kill(s)
    BY <2>2 DEF Kill, EndTransaction, Attached
  <2>3. CASE ServerCommit(s)
    <3>1. rows' \in [Rows -> Row] BY <2>3, CommittedRow DEF ServerCommit
    <3>2. applied' \in [Rows -> Nat] BY <2>3, CommittedRow DEF ServerCommit
    <3>3. QED BY <2>3, <3>1, <3>2 DEF ServerCommit, EndTransaction
  <2>4. CASE ServerAbort(s)
    BY <2>4 DEF ServerAbort, EndTransaction, Attached
  <2>5. QED BY <1>1, <2>1, <2>2, <2>3, <2>4 DEF ServerStep
<1>2. ASSUME NEW p \in Callers, CallerStep(p) PROVE TypeOK'
  <2>1. ASSUME NEW l \in LockSpecs, Call(p, l) PROVE TypeOK'
    BY <2>1 DEF Call
  <2>2. ASSUME NEW how \in CtxEnds, ContextEnds(p, how) PROVE TypeOK'
    BY <2>2 DEF ContextEnds
  <2>3. ASSUME NEW s \in Sessions, Begin(p, s) PROVE TypeOK'
    BY <2>3 DEF Begin
  <2>4. CASE BeginFails(p)
    BY <2>4 DEF BeginFails, Return, Count
  <2>5. CASE NoLock(p)
    BY <2>5 DEF NoLock
  <2>6. CASE RequestLock(p)
    <3>1. CASE lock[p].kind = "block" /\ waits' = [waits EXCEPT ![sess[p]] = lock[p].key] /\ UNCHANGED <<holds, pc>>
      BY <2>6, <3>1 DEF RequestLock
    <3>2. CASE /\ Free(lock[p].key) /\ lock[p].kind = "try"
               /\ holds' = [holds EXCEPT ![sess[p]] = lock[p].key] /\ UNCHANGED <<waits, pc>>
      BY <2>6, <3>2 DEF RequestLock, Free
    <3>3. CASE Fail(p, "busy") /\ UNCHANGED <<waits, holds>>
      BY <2>6, <3>3 DEF RequestLock, Fail
    <3>4. QED BY <2>6, <3>1, <3>2, <3>3 DEF RequestLock
  <2>7. CASE LockAcquired(p)
    BY <2>7 DEF LockAcquired
  <2>8. CASE LockTimeout(p)
    BY <2>8 DEF LockTimeout, Fail
  <2>9. CASE SqlFails(p)
    <3>1. CASE sess[p] # NoSession /\ Refuse(p) /\ UNCHANGED sess
      BY <2>9, <3>1 DEF SqlFails, Fail, Refuse
    <3>2. CASE sess[p] # NoSession /\ Disconnect(p)
      BY <2>9, <3>2 DEF SqlFails, Fail, Disconnect
    <3>3. CASE UNCHANGED <<sess, srv, waits>>
      BY <2>9, <3>3 DEF SqlFails, Fail
    <3>4. QED BY <2>9, <3>1, <3>2, <3>3 DEF SqlFails
  <2>10. ASSUME NEW r \in Rows, Query(p, r) PROVE TypeOK'
    <3> HIDE DEF Entity
    <3>1. Registered(p, rows[r]) \in Entity BY RegisteredEntity
    <3>2. objs' \in [Callers -> [Rows -> Entity \cup {NoObj}]] BY <2>10, <3>1 DEF Query
    <3>3. QED BY <2>10, <3>2 DEF Query
  <2>11. ASSUME NEW r \in Rows, SetVal(p, r) PROVE TypeOK'
    <3> HIDE DEF Entity, Row, Columns
    <3> DEFINE o == objs[p][r]
    <3> DEFINE e == Edited(o, [uid |-> o.cur.uid, val |-> o.cur.val + 1], "val")
    <3>1. o \in Entity BY <2>11 DEF SetVal
    <3>2. [uid |-> o.cur.uid, val |-> o.cur.val + 1] \in Row BY <2>11, <3>1 DEF SetVal, Entity, Row
    <3>3. "val" \in Columns BY DEF Columns
    <3>4. /\ e \in Entity /\ e # NoObj /\ e.snap = o.snap /\ e.foreign = o.foreign
          /\ e.cur = [uid |-> o.cur.uid, val |-> o.cur.val + 1]
      BY <3>1, <3>2, <3>3, EditedEntity
    <3>5. objs' = [objs EXCEPT ![p][r] = e] BY <2>11 DEF SetVal
    <3> HIDE DEF e
    <3>6. QED BY <2>11, <3>4, <3>5 DEF SetVal
  <2>12. ASSUME NEW r \in Rows, NEW k \in Keys, SetUid(p, r, k) PROVE TypeOK'
    <3> HIDE DEF Entity, Row, Columns
    <3> DEFINE o == objs[p][r]
    <3> DEFINE e == Edited(o, [uid |-> k, val |-> o.cur.val], "uid")
    <3>1. o \in Entity BY <2>12 DEF SetUid
    <3>2. [uid |-> k, val |-> o.cur.val] \in Row BY <2>12, <3>1 DEF SetUid, Entity, Row
    <3>3. "uid" \in Columns BY DEF Columns
    <3>4. /\ e \in Entity /\ e # NoObj /\ e.snap = o.snap /\ e.foreign = o.foreign
          /\ e.cur = [uid |-> k, val |-> o.cur.val]
      BY <3>1, <3>2, <3>3, EditedEntity
    <3>5. objs' = [objs EXCEPT ![p][r] = e] BY <2>12 DEF SetUid
    <3> HIDE DEF e
    <3>6. QED BY <2>12, <3>4, <3>5 DEF SetUid
  <2>13. CASE IgnoredSqlError(p)
    <3>1. CASE Refuse(p) /\ UNCHANGED sess
      BY <2>13, <3>1 DEF IgnoredSqlError, Refuse
    <3>2. CASE Disconnect(p)
      BY <2>13, <3>2 DEF IgnoredSqlError, Disconnect
    <3>3. QED BY <2>13, <3>1, <3>2 DEF IgnoredSqlError
  <2>14. CASE FnReturns(p)
    BY <2>14 DEF FnReturns
  <2>15. ASSUME NEW e \in FnErrors, FnFails(p, e) PROVE TypeOK'
    BY <2>15 DEF FnFails, Fail
  <2>16. CASE FlushNothing(p)
    BY <2>16 DEF FlushNothing
  <2>17. CASE Flush(p)
    <3> HIDE DEF Entity
    <3>1. \A r \in Pending(p) : r \in Rows /\ objs[p][r] \in Entity BY DEF Pending
    <3>2. \A r \in Pending(p) : FlushDone(objs[p][r]) \in Entity BY <3>1, FlushedEntity
    <3>3. objs' \in [Callers -> [Rows -> Entity \cup {NoObj}]] BY <2>17, <3>2 DEF Flush
    <3>4. writes' \in [Sessions -> [Rows -> Entity \cup {NoObj}]] BY <2>17, <3>1 DEF Flush
    <3>5. QED BY <2>17, <3>3, <3>4 DEF Flush
  <2>18. CASE SendCommit(p)
    BY <2>18 DEF SendCommit
  <2>19. CASE CommitRolledBack(p)
    BY <2>19 DEF CommitRolledBack, EndTransaction, Fail
  <2>20. CASE CommitDone(p)
    BY <2>20 DEF CommitDone, Detach, Count
  <2>21. CASE CommitUnknown(p)
    <3>1. CASE sess[p] # NoSession /\ Disconnect(p)
      BY <2>21, <3>1 DEF CommitUnknown, Detach, Count, Return, Disconnect
    <3>2. CASE UNCHANGED <<sess, srv>>
      BY <2>21, <3>2 DEF CommitUnknown, Detach, Count, Return
    <3>3. QED BY <2>21, <3>1, <3>2 DEF CommitUnknown
  <2>22. CASE Rollback(p)
    <3>1. CASE sess[p] # NoSession /\ EndTransaction(sess[p], "free")
      BY <2>22, <3>1 DEF Rollback, Detach, EndTransaction
    <3>2. CASE UNCHANGED <<srv, holds, waits, writes>>
      BY <2>22, <3>2 DEF Rollback, Detach
    <3>3. QED BY <2>22, <3>1, <3>2 DEF Rollback
  <2>23. CASE HooksDone(p)
    <3>1. Classify(err[p], ctx[p]) \in Outcomes OBVIOUS
    <3> HIDE DEF Classify
    <3>2. CASE outcome[p] = "committed"
      <4>1. Return(p, "committed") /\ UNCHANGED stats BY <2>23, <3>2 DEF HooksDone
      <4>2. QED BY <2>23, <4>1 DEF HooksDone, Return
    <3>3. CASE outcome[p] # "committed"
      <4> DEFINE o == Classify(err[p], ctx[p])
      <4>1. Return(p, o) /\ Count(o) BY <2>23, <3>3 DEF HooksDone
      <4>2. QED BY <2>23, <3>1, <4>1 DEF HooksDone, Return, Count
    <3>4. QED BY <3>2, <3>3
  <2> HIDE DEF IInv, TypeOK, client, server, Live, Entity, Row, Columns, EmptySet, Outcomes, LockSpec, Classify, SqlError
  <2>24. QED BY <1>2, <2>1, <2>2, <2>3, <2>4, <2>5, <2>6, <2>7, <2>8, <2>9, <2>10, <2>11, <2>12, <2>13, <2>14, <2>15, <2>16, <2>17, <2>18, <2>19, <2>20, <2>21, <2>22, <2>23 DEF CallerStep, FnStep
<1>3. CASE UNCHANGED vars BY <1>3 DEF vars
<1>4. QED BY <1>1, <1>2, <1>3 DEF Next

\* Every step keeps the writable rows of a working set current.  The hard case
\* is the COMMIT of another session: the row it changes is under its lock, so no
\* body that holds a different lock has it as a writable row.
LEMMA ObjStep == IInv /\ [Next]_vars => ObjInv'
<1> SUFFICES ASSUME IInv, [Next]_vars PROVE ObjInv'
    OBVIOUS
<1> USE SessionAssumption, KeysAssumption, LockAssumption, NoObjAssumption, BoundAssumption DEF IInv, SessionInv, LockInv, ObjInv, Working, HoldsKey, TypeOK, client, server, Live, LockSpec, EmptySet, Entity, Row, Columns
<1>1. ASSUME NEW s \in Sessions, ServerStep(s) PROVE ObjInv'
  <2>1. CASE Grant(s)
    BY <2>1 DEF Grant, Free
  <2>2. CASE Kill(s)
    BY <2>2 DEF Kill, EndTransaction, Attached
  <2>3. CASE ServerCommit(s)
    <3>1. ASSUME NEW q \in Callers, NEW r \in Rows, Working(q),
                 objs[q][r] # NoObj, ~objs[q][r].foreign
          PROVE  rows'[r] = rows[r]
      <4> HIDE DEF IInv, TypeOK, ObjInv, Entity, Row
      <4>1. holds[sess[q]] = rows[r].uid /\ srv[sess[q]] = "open" BY <3>1, WritableRow
      <4>2. srv[s] = "committing" BY <2>3 DEF ServerCommit
      <4>3. writes[s][r] # NoObj => holds[s] = rows[r].uid BY DEF IInv, WriteInv
      <4>4. writes[s][r] = NoObj
        BY <3>1, <4>1, <4>2, <4>3, WritableRow DEF IInv, LockInv
      <4>5. Updated(rows[r], writes[s][r]) = rows[r] BY <4>4, CommittedRow
      <4>6. QED BY <2>3, <4>5 DEF ServerCommit
    <3>2. QED BY <2>3, <3>1 DEF ServerCommit, EndTransaction
  <2>4. CASE ServerAbort(s)
    BY <2>4 DEF ServerAbort, EndTransaction, Attached
  <2>5. QED BY <1>1, <2>1, <2>2, <2>3, <2>4 DEF ServerStep
<1>2. ASSUME NEW p \in Callers, CallerStep(p) PROVE ObjInv'
  <2>1. ASSUME NEW l \in LockSpecs, Call(p, l) PROVE ObjInv'
    BY <2>1 DEF Call
  <2>2. ASSUME NEW how \in CtxEnds, ContextEnds(p, how) PROVE ObjInv'
    BY <2>2 DEF ContextEnds
  <2>3. ASSUME NEW s \in Sessions, Begin(p, s) PROVE ObjInv'
    BY <2>3 DEF Begin
  <2>4. CASE BeginFails(p)
    BY <2>4 DEF BeginFails, Return, Count
  <2>5. CASE NoLock(p)
    BY <2>5 DEF NoLock
  <2>6. CASE RequestLock(p)
    <3>1. CASE lock[p].kind = "block" /\ waits' = [waits EXCEPT ![sess[p]] = lock[p].key] /\ UNCHANGED <<holds, pc>>
      BY <2>6, <3>1 DEF RequestLock
    <3>2. CASE /\ Free(lock[p].key) /\ lock[p].kind = "try"
               /\ holds' = [holds EXCEPT ![sess[p]] = lock[p].key] /\ UNCHANGED <<waits, pc>>
      BY <2>6, <3>2 DEF RequestLock, Free
    <3>3. CASE Fail(p, "busy") /\ UNCHANGED <<waits, holds>>
      BY <2>6, <3>3 DEF RequestLock, Fail
    <3>4. QED BY <2>6, <3>1, <3>2, <3>3 DEF RequestLock
  <2>7. CASE LockAcquired(p)
    BY <2>7 DEF LockAcquired
  <2>8. CASE LockTimeout(p)
    BY <2>8 DEF LockTimeout, Fail
  <2>9. CASE SqlFails(p)
    <3>1. CASE sess[p] # NoSession /\ Refuse(p) /\ UNCHANGED sess
      BY <2>9, <3>1 DEF SqlFails, Fail, Refuse
    <3>2. CASE sess[p] # NoSession /\ Disconnect(p)
      BY <2>9, <3>2 DEF SqlFails, Fail, Disconnect
    <3>3. CASE UNCHANGED <<sess, srv, waits>>
      BY <2>9, <3>3 DEF SqlFails, Fail
    <3>4. QED BY <2>9, <3>1, <3>2, <3>3 DEF SqlFails
  <2>10. ASSUME NEW r \in Rows, Query(p, r) PROVE ObjInv'
    <3> HIDE DEF Entity
    <3> DEFINE e == Registered(p, rows[r])
    <3>1. /\ e \in Entity /\ e # NoObj /\ e.cur = rows[r] /\ e.snap = rows[r] /\ e.dirty = {}
          /\ e.foreign = ~HoldsKey(p, rows[r].uid)
      BY RegisteredEntity
    <3>2. e.cur.val >= e.snap.val BY <3>1
    <3>3. objs' = [objs EXCEPT ![p][r] = e] BY <2>10 DEF Query
    <3> HIDE DEF e
    <3>4. ASSUME NEW q \in Callers, NEW t \in Rows, objs'[q][t] # NoObj
          PROVE  /\ objs'[q][t].cur.val >= objs'[q][t].snap.val
                 /\ objs'[q][t].foreign => objs'[q][t].dirty = {}
                 /\ ~objs'[q][t].foreign /\ Working(q)'
                       => objs'[q][t].snap = rows'[t] /\ HoldsKey(q, rows[t].uid)'
      <4>1. CASE q = p /\ t = r
        <5>1. objs'[q][t] = e BY <4>1, <3>3
        <5>2. QED BY <2>10, <4>1, <5>1, <3>1, <3>2 DEF Query
      <4>2. CASE ~(q = p /\ t = r)
        <5>1. objs'[q][t] = objs[q][t] BY <4>2, <3>3
        <5>2. QED BY <2>10, <5>1, <3>4 DEF Query
      <4>3. QED BY <4>1, <4>2
    <3>5. QED BY <2>10, <3>4 DEF Query
  <2>11. ASSUME NEW r \in Rows, SetVal(p, r) PROVE ObjInv'
    <3> HIDE DEF Entity, Row, Columns
    <3> DEFINE o == objs[p][r]
    <3> DEFINE e == Edited(o, [uid |-> o.cur.uid, val |-> o.cur.val + 1], "val")
    <3>1. o \in Entity BY <2>11 DEF SetVal
    <3>2. [uid |-> o.cur.uid, val |-> o.cur.val + 1] \in Row BY <2>11, <3>1 DEF SetVal, Entity, Row
    <3>3. "val" \in Columns BY DEF Columns
    <3>4. /\ e \in Entity /\ e # NoObj /\ e.snap = o.snap /\ e.foreign = o.foreign
          /\ e.cur = [uid |-> o.cur.uid, val |-> o.cur.val + 1]
      BY <3>1, <3>2, <3>3, EditedEntity
    <3>5. objs' = [objs EXCEPT ![p][r] = e] BY <2>11 DEF SetVal
    <3> HIDE DEF e
    <3>6. o.cur.val >= o.snap.val /\ ~o.foreign BY <2>11 DEF SetVal
    <3>7. e.cur.val >= e.snap.val BY <3>1, <3>4, <3>6, BoundAssumption DEF Row, Entity
    <3>8. Working(p) => o.snap = rows[r] /\ HoldsKey(p, rows[r].uid) BY <2>11, <3>6 DEF SetVal
    <3>9. ASSUME NEW q \in Callers, NEW t \in Rows, objs'[q][t] # NoObj
          PROVE  /\ objs'[q][t].cur.val >= objs'[q][t].snap.val
                 /\ objs'[q][t].foreign => objs'[q][t].dirty = {}
                 /\ ~objs'[q][t].foreign /\ Working(q)'
                       => objs'[q][t].snap = rows'[t] /\ HoldsKey(q, rows[t].uid)'
      <4>1. CASE q = p /\ t = r
        <5>1. objs'[q][t] = e BY <4>1, <3>5
        <5>2. QED BY <2>11, <4>1, <5>1, <3>4, <3>6, <3>7, <3>8 DEF SetVal
      <4>2. CASE ~(q = p /\ t = r)
        <5>1. objs'[q][t] = objs[q][t] BY <4>2, <3>5
        <5>2. rows' = rows /\ Working(q)' = Working(q) /\ HoldsKey(q, rows[t].uid)' = HoldsKey(q, rows[t].uid)
          BY <2>11 DEF SetVal, Working, HoldsKey
        <5>3. /\ objs[q][t].cur.val >= objs[q][t].snap.val
              /\ objs[q][t].foreign => objs[q][t].dirty = {}
              /\ ~objs[q][t].foreign /\ Working(q)
                    => objs[q][t].snap = rows[t] /\ HoldsKey(q, rows[t].uid)
          BY <3>9, <5>1 DEF ObjInv
        <5>4. QED BY <5>1, <5>2, <5>3
      <4>3. QED BY <4>1, <4>2
    <3>10. \A q \in Callers : pc'[q] \in {"idle", "begin", "lock", "hooks"} => objs'[q] = EmptySet
      BY <2>11 DEF SetVal
    <3> HIDE DEF Working, HoldsKey
    <3>11. QED BY <3>9, <3>10
  <2>12. ASSUME NEW r \in Rows, NEW k \in Keys, SetUid(p, r, k) PROVE ObjInv'
    <3> HIDE DEF Entity, Row, Columns
    <3> DEFINE o == objs[p][r]
    <3> DEFINE e == Edited(o, [uid |-> k, val |-> o.cur.val], "uid")
    <3>1. o \in Entity BY <2>12 DEF SetUid
    <3>2. [uid |-> k, val |-> o.cur.val] \in Row BY <2>12, <3>1 DEF SetUid, Entity, Row
    <3>3. "uid" \in Columns BY DEF Columns
    <3>4. /\ e \in Entity /\ e # NoObj /\ e.snap = o.snap /\ e.foreign = o.foreign
          /\ e.cur = [uid |-> k, val |-> o.cur.val]
      BY <3>1, <3>2, <3>3, EditedEntity
    <3>5. objs' = [objs EXCEPT ![p][r] = e] BY <2>12 DEF SetUid
    <3> HIDE DEF e
    <3>6. o.cur.val >= o.snap.val /\ ~o.foreign BY <2>12 DEF SetUid
    <3>7. e.cur.val >= e.snap.val BY <3>1, <3>4, <3>6, BoundAssumption DEF Row, Entity
    <3>8. Working(p) => o.snap = rows[r] /\ HoldsKey(p, rows[r].uid) BY <2>12, <3>6 DEF SetUid
    <3>9. ASSUME NEW q \in Callers, NEW t \in Rows, objs'[q][t] # NoObj
          PROVE  /\ objs'[q][t].cur.val >= objs'[q][t].snap.val
                 /\ objs'[q][t].foreign => objs'[q][t].dirty = {}
                 /\ ~objs'[q][t].foreign /\ Working(q)'
                       => objs'[q][t].snap = rows'[t] /\ HoldsKey(q, rows[t].uid)'
      <4>1. CASE q = p /\ t = r
        <5>1. objs'[q][t] = e BY <4>1, <3>5
        <5>2. QED BY <2>12, <4>1, <5>1, <3>4, <3>6, <3>7, <3>8 DEF SetUid
      <4>2. CASE ~(q = p /\ t = r)
        <5>1. objs'[q][t] = objs[q][t] BY <4>2, <3>5
        <5>2. rows' = rows /\ Working(q)' = Working(q) /\ HoldsKey(q, rows[t].uid)' = HoldsKey(q, rows[t].uid)
          BY <2>12 DEF SetUid, Working, HoldsKey
        <5>3. /\ objs[q][t].cur.val >= objs[q][t].snap.val
              /\ objs[q][t].foreign => objs[q][t].dirty = {}
              /\ ~objs[q][t].foreign /\ Working(q)
                    => objs[q][t].snap = rows[t] /\ HoldsKey(q, rows[t].uid)
          BY <3>9, <5>1 DEF ObjInv
        <5>4. QED BY <5>1, <5>2, <5>3
      <4>3. QED BY <4>1, <4>2
    <3>10. \A q \in Callers : pc'[q] \in {"idle", "begin", "lock", "hooks"} => objs'[q] = EmptySet
      BY <2>12 DEF SetUid
    <3> HIDE DEF Working, HoldsKey
    <3>11. QED BY <3>9, <3>10
  <2>13. CASE IgnoredSqlError(p)
    <3>1. CASE Refuse(p) /\ UNCHANGED sess
      BY <2>13, <3>1 DEF IgnoredSqlError, Refuse
    <3>2. CASE Disconnect(p)
      BY <2>13, <3>2 DEF IgnoredSqlError, Disconnect
    <3>3. QED BY <2>13, <3>1, <3>2 DEF IgnoredSqlError
  <2>14. CASE FnReturns(p)
    BY <2>14 DEF FnReturns
  <2>15. ASSUME NEW e \in FnErrors, FnFails(p, e) PROVE ObjInv'
    BY <2>15 DEF FnFails, Fail
  <2>16. CASE FlushNothing(p)
    BY <2>16 DEF FlushNothing
  <2>17. CASE Flush(p)
    <3>1. pc'[p] = "commit" BY <2>17 DEF Flush
    <3>2. ASSUME NEW r \in Rows, objs'[p][r] # NoObj
          PROVE  /\ objs'[p][r].cur.val >= objs'[p][r].snap.val
                 /\ objs'[p][r].foreign => objs'[p][r].dirty = {}
      <4> HIDE DEF Entity, Row
      <4>1. objs'[p][r] = IF r \in Pending(p) THEN FlushDone(objs[p][r]) ELSE objs[p][r]
        BY <2>17 DEF Flush
      <4>2. objs[p][r] # NoObj BY <3>2, <4>1 DEF Pending
      <4>3. objs[p][r] \in Entity /\ objs[p][r].cur.val >= objs[p][r].snap.val BY <4>2
      <4>4. CASE r \in Pending(p) BY <4>1, <4>3, <4>4, FlushedEntity
      <4>5. CASE r \notin Pending(p) BY <4>1, <4>2, <4>5
      <4>6. QED BY <4>4, <4>5
    <3>3. ASSUME NEW q \in Callers, NEW t \in Rows, objs'[q][t] # NoObj
          PROVE  /\ objs'[q][t].cur.val >= objs'[q][t].snap.val
                 /\ objs'[q][t].foreign => objs'[q][t].dirty = {}
                 /\ ~objs'[q][t].foreign /\ Working(q)'
                       => objs'[q][t].snap = rows'[t] /\ HoldsKey(q, rows[t].uid)'
      <4>1. CASE q = p BY <3>1, <3>2, <3>3, <4>1
      <4>2. CASE q # p
        <5>1. objs'[q] = objs[q] BY <2>17, <4>2 DEF Flush
        <5>2. QED BY <2>17, <3>3, <4>2, <5>1 DEF Flush
      <4>3. QED BY <4>1, <4>2
    <3>4. \A q \in Callers : pc'[q] \in {"idle", "begin", "lock", "hooks"} => objs'[q] = EmptySet
      BY <2>17 DEF Flush
    <3> HIDE DEF Working, HoldsKey
    <3>5. QED BY <3>3, <3>4
  <2>18. CASE SendCommit(p)
    BY <2>18 DEF SendCommit
  <2>19. CASE CommitRolledBack(p)
    BY <2>19 DEF CommitRolledBack, EndTransaction, Fail
  <2>20. CASE CommitDone(p)
    BY <2>20 DEF CommitDone, Detach, Count
  <2>21. CASE CommitUnknown(p)
    <3>1. CASE sess[p] # NoSession /\ Disconnect(p)
      BY <2>21, <3>1 DEF CommitUnknown, Detach, Count, Return, Disconnect
    <3>2. CASE UNCHANGED <<sess, srv>>
      BY <2>21, <3>2 DEF CommitUnknown, Detach, Count, Return
    <3>3. QED BY <2>21, <3>1, <3>2 DEF CommitUnknown
  <2>22. CASE Rollback(p)
    <3>1. CASE sess[p] # NoSession /\ EndTransaction(sess[p], "free")
      BY <2>22, <3>1 DEF Rollback, Detach, EndTransaction
    <3>2. CASE UNCHANGED <<srv, holds, waits, writes>>
      BY <2>22, <3>2 DEF Rollback, Detach
    <3>3. QED BY <2>22, <3>1, <3>2 DEF Rollback
  <2>23. CASE HooksDone(p)
    BY <2>23 DEF HooksDone, Return, Count
  <2> HIDE DEF IInv, SessionInv, LockInv, ObjInv, Working, HoldsKey, TypeOK, client, server, Live, LockSpec, EmptySet, Entity, Row, Columns
  <2>24. QED BY <1>2, <2>1, <2>2, <2>3, <2>4, <2>5, <2>6, <2>7, <2>8, <2>9, <2>10, <2>11, <2>12, <2>13, <2>14, <2>15, <2>16, <2>17, <2>18, <2>19, <2>20, <2>21, <2>22, <2>23 DEF CallerStep, FnStep
<1>3. CASE UNCHANGED vars BY <1>3 DEF vars
<1>4. QED BY <1>1, <1>2, <1>3 DEF Next

\* Every step keeps pending row versions based on committed rows under the
\* session's lock, whether or not the session still has a client.
LEMMA WriteStep == IInv /\ [Next]_vars => WriteInv'
<1> SUFFICES ASSUME IInv, [Next]_vars PROVE WriteInv'
    OBVIOUS
<1> USE SessionAssumption, KeysAssumption, NoObjAssumption, BoundAssumption DEF IInv, SessionInv, LockInv, ObjInv, WriteInv, Working, HoldsKey, TypeOK, client, server, Live, LockSpec, EmptySet, Entity, Row, Columns
<1>1. ASSUME NEW s \in Sessions, ServerStep(s) PROVE WriteInv'
  <2>1. CASE Grant(s)
    BY <2>1 DEF Grant, Free
  <2>2. CASE Kill(s)
    BY <2>2 DEF Kill, EndTransaction, Attached
  <2>3. CASE ServerCommit(s)
    <3>1. ASSUME NEW t \in Sessions, NEW r \in Rows, t # s, writes[t][r] # NoObj
          PROVE  rows'[r] = rows[r]
      <4>1. holds[t] = rows[r].uid /\ holds[t] # NoKey BY <3>1
      <4>2. holds[s] # rows[r].uid BY <3>1, <4>1
      <4>3. QED BY <2>3, <4>2, CommittedRow DEF ServerCommit
    <3>2. QED BY <2>3, <3>1 DEF ServerCommit, EndTransaction
  <2>4. CASE ServerAbort(s)
    BY <2>4 DEF ServerAbort, EndTransaction, Attached
  <2>5. QED BY <1>1, <2>1, <2>2, <2>3, <2>4 DEF ServerStep
<1>2. ASSUME NEW p \in Callers, CallerStep(p) PROVE WriteInv'
  <2>1. ASSUME NEW l \in LockSpecs, Call(p, l) PROVE WriteInv'
    BY <2>1 DEF Call
  <2>2. ASSUME NEW how \in CtxEnds, ContextEnds(p, how) PROVE WriteInv'
    BY <2>2 DEF ContextEnds
  <2>3. ASSUME NEW s \in Sessions, Begin(p, s) PROVE WriteInv'
    BY <2>3 DEF Begin
  <2>4. CASE BeginFails(p)
    BY <2>4 DEF BeginFails, Return, Count
  <2>5. CASE NoLock(p)
    BY <2>5 DEF NoLock
  <2>6. CASE RequestLock(p)
    <3>1. CASE lock[p].kind = "block" /\ waits' = [waits EXCEPT ![sess[p]] = lock[p].key] /\ UNCHANGED <<holds, pc>>
      BY <2>6, <3>1 DEF RequestLock
    <3>2. CASE /\ Free(lock[p].key) /\ lock[p].kind = "try"
               /\ holds' = [holds EXCEPT ![sess[p]] = lock[p].key] /\ UNCHANGED <<waits, pc>>
      BY <2>6, <3>2 DEF RequestLock, Free
    <3>3. CASE Fail(p, "busy") /\ UNCHANGED <<waits, holds>>
      BY <2>6, <3>3 DEF RequestLock, Fail
    <3>4. QED BY <2>6, <3>1, <3>2, <3>3 DEF RequestLock
  <2>7. CASE LockAcquired(p)
    BY <2>7 DEF LockAcquired
  <2>8. CASE LockTimeout(p)
    BY <2>8 DEF LockTimeout, Fail
  <2>9. CASE SqlFails(p)
    <3>1. CASE sess[p] # NoSession /\ Refuse(p) /\ UNCHANGED sess
      BY <2>9, <3>1 DEF SqlFails, Fail, Refuse
    <3>2. CASE sess[p] # NoSession /\ Disconnect(p)
      BY <2>9, <3>2 DEF SqlFails, Fail, Disconnect
    <3>3. CASE UNCHANGED <<sess, srv, waits>>
      BY <2>9, <3>3 DEF SqlFails, Fail
    <3>4. QED BY <2>9, <3>1, <3>2, <3>3 DEF SqlFails
  <2>10. ASSUME NEW r \in Rows, Query(p, r) PROVE WriteInv'
    BY <2>10 DEF Query
  <2>11. ASSUME NEW r \in Rows, SetVal(p, r) PROVE WriteInv'
    BY <2>11 DEF SetVal
  <2>12. ASSUME NEW r \in Rows, NEW k \in Keys, SetUid(p, r, k) PROVE WriteInv'
    BY <2>12 DEF SetUid
  <2>13. CASE IgnoredSqlError(p)
    <3>1. CASE Refuse(p) /\ UNCHANGED sess
      BY <2>13, <3>1 DEF IgnoredSqlError, Refuse
    <3>2. CASE Disconnect(p)
      BY <2>13, <3>2 DEF IgnoredSqlError, Disconnect
    <3>3. QED BY <2>13, <3>1, <3>2 DEF IgnoredSqlError
  <2>14. CASE FnReturns(p)
    BY <2>14 DEF FnReturns
  <2>15. ASSUME NEW e \in FnErrors, FnFails(p, e) PROVE WriteInv'
    BY <2>15 DEF FnFails, Fail
  <2>16. CASE FlushNothing(p)
    BY <2>16 DEF FlushNothing
  <2>17. CASE Flush(p)
    <3>1. Working(p) BY <2>17 DEF Flush
    <3>2. QED BY <2>17, <3>1, PendingRows DEF Flush
  <2>18. CASE SendCommit(p)
    BY <2>18 DEF SendCommit
  <2>19. CASE CommitRolledBack(p)
    BY <2>19 DEF CommitRolledBack, EndTransaction, Fail
  <2>20. CASE CommitDone(p)
    BY <2>20 DEF CommitDone, Detach, Count
  <2>21. CASE CommitUnknown(p)
    <3>1. CASE sess[p] # NoSession /\ Disconnect(p)
      BY <2>21, <3>1 DEF CommitUnknown, Detach, Count, Return, Disconnect
    <3>2. CASE UNCHANGED <<sess, srv>>
      BY <2>21, <3>2 DEF CommitUnknown, Detach, Count, Return
    <3>3. QED BY <2>21, <3>1, <3>2 DEF CommitUnknown
  <2>22. CASE Rollback(p)
    <3>1. CASE sess[p] # NoSession /\ EndTransaction(sess[p], "free")
      BY <2>22, <3>1 DEF Rollback, Detach, EndTransaction
    <3>2. CASE UNCHANGED <<srv, holds, waits, writes>>
      BY <2>22, <3>2 DEF Rollback, Detach
    <3>3. QED BY <2>22, <3>1, <3>2 DEF Rollback
  <2>23. CASE HooksDone(p)
    BY <2>23 DEF HooksDone, Return, Count
  <2> HIDE DEF IInv, SessionInv, LockInv, ObjInv, WriteInv, Working, HoldsKey, TypeOK, client, server, Live, LockSpec, EmptySet, Entity, Row, Columns
  <2>24. QED BY <1>2, <2>1, <2>2, <2>3, <2>4, <2>5, <2>6, <2>7, <2>8, <2>9, <2>10, <2>11, <2>12, <2>13, <2>14, <2>15, <2>16, <2>17, <2>18, <2>19, <2>20, <2>21, <2>22, <2>23 DEF CallerStep, FnStep
<1>3. CASE UNCHANGED vars BY <1>3 DEF vars
<1>4. QED BY <1>1, <1>2, <1>3 DEF Next

\* Every step keeps each row equal to the sum of its committed increments.
LEMMA CountStep == IInv /\ [Next]_vars => NoLostUpdate'
<1> SUFFICES ASSUME IInv, [Next]_vars PROVE NoLostUpdate'
    OBVIOUS
<1> USE DEF IInv, NoLostUpdate, client, server
<1>1. ASSUME NEW s \in Sessions, ServerStep(s) PROVE NoLostUpdate'
  <2>1. CASE Grant(s)
    BY <2>1 DEF Grant, Free
  <2>2. CASE Kill(s)
    BY <2>2 DEF Kill, EndTransaction, Attached
  <2>3. CASE ServerCommit(s)
    <3>1. \A r \in Rows : Updated(rows[r], writes[s][r]).val = rows[r].val + Increment(writes[s][r])
      BY CommittedRow
    <3>2. QED BY <2>3, <3>1 DEF ServerCommit, TypeOK
  <2>4. CASE ServerAbort(s)
    BY <2>4 DEF ServerAbort, EndTransaction, Attached
  <2>5. QED BY <1>1, <2>1, <2>2, <2>3, <2>4 DEF ServerStep
<1>2. ASSUME NEW p \in Callers, CallerStep(p) PROVE NoLostUpdate'
  <2>1. ASSUME NEW l \in LockSpecs, Call(p, l) PROVE NoLostUpdate'
    BY <2>1 DEF Call
  <2>2. ASSUME NEW how \in CtxEnds, ContextEnds(p, how) PROVE NoLostUpdate'
    BY <2>2 DEF ContextEnds
  <2>3. ASSUME NEW s \in Sessions, Begin(p, s) PROVE NoLostUpdate'
    BY <2>3 DEF Begin
  <2>4. CASE BeginFails(p)
    BY <2>4 DEF BeginFails, Return, Count
  <2>5. CASE NoLock(p)
    BY <2>5 DEF NoLock
  <2>6. CASE RequestLock(p)
    <3>1. CASE lock[p].kind = "block" /\ waits' = [waits EXCEPT ![sess[p]] = lock[p].key] /\ UNCHANGED <<holds, pc>>
      BY <2>6, <3>1 DEF RequestLock
    <3>2. CASE /\ Free(lock[p].key) /\ lock[p].kind = "try"
               /\ holds' = [holds EXCEPT ![sess[p]] = lock[p].key] /\ UNCHANGED <<waits, pc>>
      BY <2>6, <3>2 DEF RequestLock, Free
    <3>3. CASE Fail(p, "busy") /\ UNCHANGED <<waits, holds>>
      BY <2>6, <3>3 DEF RequestLock, Fail
    <3>4. QED BY <2>6, <3>1, <3>2, <3>3 DEF RequestLock
  <2>7. CASE LockAcquired(p)
    BY <2>7 DEF LockAcquired
  <2>8. CASE LockTimeout(p)
    BY <2>8 DEF LockTimeout, Fail
  <2>9. CASE SqlFails(p)
    <3>1. CASE sess[p] # NoSession /\ Refuse(p) /\ UNCHANGED sess
      BY <2>9, <3>1 DEF SqlFails, Fail, Refuse
    <3>2. CASE sess[p] # NoSession /\ Disconnect(p)
      BY <2>9, <3>2 DEF SqlFails, Fail, Disconnect
    <3>3. CASE UNCHANGED <<sess, srv, waits>>
      BY <2>9, <3>3 DEF SqlFails, Fail
    <3>4. QED BY <2>9, <3>1, <3>2, <3>3 DEF SqlFails
  <2>10. ASSUME NEW r \in Rows, Query(p, r) PROVE NoLostUpdate'
    BY <2>10 DEF Query
  <2>11. ASSUME NEW r \in Rows, SetVal(p, r) PROVE NoLostUpdate'
    BY <2>11 DEF SetVal
  <2>12. ASSUME NEW r \in Rows, NEW k \in Keys, SetUid(p, r, k) PROVE NoLostUpdate'
    BY <2>12 DEF SetUid
  <2>13. CASE IgnoredSqlError(p)
    <3>1. CASE Refuse(p) /\ UNCHANGED sess
      BY <2>13, <3>1 DEF IgnoredSqlError, Refuse
    <3>2. CASE Disconnect(p)
      BY <2>13, <3>2 DEF IgnoredSqlError, Disconnect
    <3>3. QED BY <2>13, <3>1, <3>2 DEF IgnoredSqlError
  <2>14. CASE FnReturns(p)
    BY <2>14 DEF FnReturns
  <2>15. ASSUME NEW e \in FnErrors, FnFails(p, e) PROVE NoLostUpdate'
    BY <2>15 DEF FnFails, Fail
  <2>16. CASE FlushNothing(p)
    BY <2>16 DEF FlushNothing
  <2>17. CASE Flush(p)
    BY <2>17 DEF Flush
  <2>18. CASE SendCommit(p)
    BY <2>18 DEF SendCommit
  <2>19. CASE CommitRolledBack(p)
    BY <2>19 DEF CommitRolledBack, EndTransaction, Fail
  <2>20. CASE CommitDone(p)
    BY <2>20 DEF CommitDone, Detach, Count
  <2>21. CASE CommitUnknown(p)
    <3>1. CASE sess[p] # NoSession /\ Disconnect(p)
      BY <2>21, <3>1 DEF CommitUnknown, Detach, Count, Return, Disconnect
    <3>2. CASE UNCHANGED <<sess, srv>>
      BY <2>21, <3>2 DEF CommitUnknown, Detach, Count, Return
    <3>3. QED BY <2>21, <3>1, <3>2 DEF CommitUnknown
  <2>22. CASE Rollback(p)
    <3>1. CASE sess[p] # NoSession /\ EndTransaction(sess[p], "free")
      BY <2>22, <3>1 DEF Rollback, Detach, EndTransaction
    <3>2. CASE UNCHANGED <<srv, holds, waits, writes>>
      BY <2>22, <3>2 DEF Rollback, Detach
    <3>3. QED BY <2>22, <3>1, <3>2 DEF Rollback
  <2>23. CASE HooksDone(p)
    BY <2>23 DEF HooksDone, Return, Count
  <2> HIDE DEF IInv, NoLostUpdate, client, server
  <2>24. QED BY <1>2, <2>1, <2>2, <2>3, <2>4, <2>5, <2>6, <2>7, <2>8, <2>9, <2>10, <2>11, <2>12, <2>13, <2>14, <2>15, <2>16, <2>17, <2>18, <2>19, <2>20, <2>21, <2>22, <2>23 DEF CallerStep, FnStep
<1>3. CASE UNCHANGED vars BY <1>3 DEF vars
<1>4. QED BY <1>1, <1>2, <1>3 DEF Next

-----------------------------------------------------------------------------
\* The inductive invariant holds: a registered row that may be changed, and a
\* row version on its way to the table, are the committed row under the lock
\* the session holds, in every interleaving of callers, orphans and server.
THEOREM Invariance == Spec => []IInv
<1>1. Init => IInv
  <2> SUFFICES ASSUME Init PROVE IInv
      OBVIOUS
  <2>1. TypeOK BY KeysAssumption, BoundAssumption
        DEF Init, TypeOK, LockSpec, EmptySet, Outcomes, Row, Live
  <2>2. SessionInv BY DEF Init, SessionInv
  <2>3. LockInv BY DEF Init, LockInv, Working
  <2>4. ObjInv BY DEF Init, ObjInv, EmptySet
  <2>5. WriteInv BY DEF Init, WriteInv, EmptySet
  <2>6. NoLostUpdate BY DEF Init, NoLostUpdate
  <2>7. QED BY <2>1, <2>2, <2>3, <2>4, <2>5, <2>6 DEF IInv
<1>2. IInv /\ [Next]_vars => IInv'
  BY TypeStep, SessionStep, LockStep, ObjStep, WriteStep, CountStep DEF IInv
<1>3. QED BY <1>1, <1>2, PTL DEF Spec

\* Every variable keeps to its type, applied to the naturals included.
THEOREM TypeCorrect == Spec => []TypeOK
<1>1. IInv => TypeOK BY DEF IInv
<1>2. QED BY <1>1, Invariance, PTL

\* No increment made under the row's lock is ever lost, for any number of
\* callers, sessions, keys and rows.
THEOREM NoUpdateIsLost == Spec => []NoLostUpdate
<1>1. IInv => NoLostUpdate BY DEF IInv
<1>2. QED BY <1>1, Invariance, PTL

\* A setter works on the committed row: nobody has changed it since it was read.
THEOREM BodiesSeeCurrentRows == Spec => []WritableRowsAreCurrent
<1>1. IInv => WritableRowsAreCurrent BY WritableRow DEF WritableRowsAreCurrent
<1>2. QED BY <1>1, Invariance, PTL

\* Uncommitted row versions are under lock until the server has decided, also
\* after ErrCommitUnknown.
THEOREM OrphansKeepTheirLocks == Spec => []WritersHoldTheirLocks
<1>1. IInv => WritersHoldTheirLocks BY DEF IInv, WriteInv, WritersHoldTheirLocks
<1>2. QED BY <1>1, Invariance, PTL

\* The steps of Procedure other than the server's COMMIT leave the table alone.
LEMMA OnlyCommitWrites ==
    ASSUME Next, \A s \in Sessions : ~ServerCommit(s)
    PROVE  UNCHANGED <<rows, applied>>
<1>1. ASSUME NEW s \in Sessions, ServerStep(s) PROVE UNCHANGED <<rows, applied>>
  BY <1>1 DEF ServerStep, Grant, Kill, ServerAbort
<1>2. ASSUME NEW p \in Callers, CallerStep(p) PROVE UNCHANGED <<rows, applied>>
  <2>1. CASE FnStep(p)
    BY <2>1 DEF FnStep, server, Query, SetVal, SetUid, IgnoredSqlError, FnReturns, FnFails
  <2>2. CASE SqlFails(p) \/ RequestLock(p) \/ LockAcquired(p) \/ LockTimeout(p) \/ NoLock(p)
    BY <2>2 DEF server, SqlFails, RequestLock, LockAcquired, LockTimeout, NoLock
  <2>3. CASE CommitRolledBack(p) \/ CommitDone(p) \/ CommitUnknown(p) \/ SendCommit(p)
    BY <2>3 DEF CommitRolledBack, CommitDone, CommitUnknown, SendCommit
  <2>4. CASE Rollback(p) \/ HooksDone(p) \/ FlushNothing(p) \/ Flush(p) \/ BeginFails(p)
    BY <2>4 DEF server, Rollback, HooksDone, FlushNothing, Flush, BeginFails
  <2>5. CASE \/ \E l \in LockSpecs : Call(p, l)
             \/ \E how \in CtxEnds : ContextEnds(p, how)
             \/ \E s \in Sessions : Begin(p, s)
    BY <2>5 DEF server, Call, ContextEnds, Begin
  <2>6. QED BY <1>2, <2>1, <2>2, <2>3, <2>4, <2>5 DEF CallerStep
<1>3. QED BY <1>1, <1>2 DEF Next

\* A COMMIT is one transaction of the abstract table, under the lock of its
\* session, or changes nothing.
LEMMA CommitIsATransaction ==
    ASSUME IInv, NEW s \in Sessions, ServerCommit(s)
    PROVE  (\E k \in Keys : Table!Transaction(k)) \/ UNCHANGED <<rows, applied>>
<1>1. /\ rows' = [r \in Rows |-> Updated(rows[r], writes[s][r])]
      /\ applied' = [r \in Rows |-> applied[r] + Increment(writes[s][r])]
  BY DEF ServerCommit
<1>2. rows \in [Rows -> Row] /\ applied \in [Rows -> Nat] BY DEF IInv, TypeOK
<1>3. CASE \E r \in Rows : writes[s][r] # NoObj
  <2>1. holds[s] \in Keys BY <1>2, <1>3 DEF IInv, WriteInv, Row
  <2>2. rows' \in [Rows -> Table!Cell] BY <1>1, CommittedRow DEF Table!Cell, Row
  <2>3. \A r \in Rows : rows[r].uid # holds[s] => rows'[r] = rows[r]
    BY <1>1, CommittedRow DEF IInv, WriteInv
  <2>4. \A r \in Rows : /\ rows'[r].val >= rows[r].val
                        /\ Increment(writes[s][r]) = rows'[r].val - rows[r].val
    <3>1. SUFFICES ASSUME NEW r \in Rows
                   PROVE  /\ rows'[r].val >= rows[r].val
                          /\ Increment(writes[s][r]) = rows'[r].val - rows[r].val
          OBVIOUS
    <3>2. rows'[r].val = rows[r].val + Increment(writes[s][r]) BY <1>1, CommittedRow
    <3>3. Increment(writes[s][r]) \in Nat BY CommittedRow
    <3>4. rows[r].val \in Nat BY <1>2, BoundAssumption DEF Row
    <3>5. QED BY <3>2, <3>3, <3>4
  <2>5. applied' = [r \in Rows |-> applied[r] + (rows'[r].val - rows[r].val)] BY <1>1, <2>4
  <2>6. QED BY <2>1, <2>2, <2>3, <2>4, <2>5 DEF Table!Transaction
<1>4. CASE \A r \in Rows : writes[s][r] = NoObj
  <2>1. \A r \in Rows : Updated(rows[r], writes[s][r]) = rows[r] BY <1>4 DEF Updated
  <2>2. \A r \in Rows : applied[r] + Increment(writes[s][r]) = applied[r]
    BY <1>2, <1>4 DEF Increment
  <2>3. QED BY <1>1, <1>2, <2>1, <2>2
<1>5. QED BY <1>3, <1>4

\* Procedure implements LockedTable: whatever callers and sessions do, the
\* table moves by whole transactions of one owner each.
THEOREM Refinement == Spec => TableSpec
<1>1. Init => Table!Init BY DEF Init, Table!Init
<1>2. IInv /\ [Next]_vars => [Table!Next]_<<rows, applied>>
  <2> SUFFICES ASSUME IInv, [Next]_vars PROVE [Table!Next]_<<rows, applied>>
      OBVIOUS
  <2>1. CASE \E s \in Sessions : ServerCommit(s)
    BY <2>1, CommitIsATransaction DEF Table!Next
  <2>2. CASE Next /\ \A s \in Sessions : ~ServerCommit(s) BY <2>2, OnlyCommitWrites
  <2>3. CASE UNCHANGED vars BY <2>3 DEF vars
  <2>4. QED BY <2>1, <2>2, <2>3
<1>3. QED BY <1>1, <1>2, Invariance, PTL DEF Spec, TableSpec, Table!Spec
-----------------------------------------------------------------------------
(* Connections *)

InTransaction == {"lock", "fn", "flush", "commit", "rollback"}

\* ConnectionsAreReturned, and that there is something to count.
ConnInv == ConnectionsAreReturned /\ IsFiniteSet(conns)

\* A caller's step leaves the connections alone, or it is BEGIN, which takes one,
\* or the end of a transaction, which gives it back.
LEMMA ConnectionEffect ==
    ASSUME IInv, NEW p \in Callers, CallerStep(p)
    PROVE  \/ /\ conns' = conns
              /\ \A q \in Callers : pc'[q] \in InTransaction <=> pc[q] \in InTransaction
              /\ \A q \in Callers : sess'[q] \in {sess[q], NoSession}
           \/ /\ conns' = conns \cup {p} /\ Cardinality(conns) < MaxConns
              /\ pc[p] = "begin" /\ pc' = [pc EXCEPT ![p] = "lock"]
              /\ \A q \in Callers : q # p => sess'[q] = sess[q]
           \/ /\ conns' = conns \ {p}
              /\ \A q \in Callers : pc'[q] \in InTransaction <=> pc[q] \in InTransaction /\ q # p
              /\ \A q \in Callers : sess'[q] = IF q = p THEN NoSession ELSE sess[q]
<1> USE DEF IInv, TypeOK, InTransaction, client, server
<1>1. CASE FnStep(p)
  <2>1. CASE \E r \in Rows : Query(p, r) \/ SetVal(p, r) \/ \E k \in Keys : SetUid(p, r, k)
    <3> HIDE DEF IInv, TypeOK, InTransaction
    <3>1. UNCHANGED <<conns, pc, sess>>
      BY <2>1 DEF Query, SetVal, SetUid
    <3>2. sess' = sess /\ \A q \in Callers : sess'[q] \in {sess[q], NoSession}
      BY <3>1
    <3>3. QED BY <3>1, <3>2
  <2>2. CASE IgnoredSqlError(p)
    BY SMTT(30), <2>2 DEF IgnoredSqlError, Refuse, Disconnect
  <2>3. CASE FnReturns(p) \/ \E e \in FnErrors : FnFails(p, e)
    BY SMTT(30), <2>3 DEF FnReturns, FnFails, Fail
  <2>4. QED
    BY <1>1, <2>1, <2>2, <2>3 DEF FnStep
<1>2. CASE NoLock(p) \/ RequestLock(p) \/ LockAcquired(p) \/ LockTimeout(p) \/ SqlFails(p)
  BY <1>2 DEF NoLock, RequestLock, LockAcquired, LockTimeout, SqlFails, Refuse, Disconnect, Fail
<1>3. CASE FlushNothing(p) \/ Flush(p) \/ SendCommit(p) \/ CommitRolledBack(p)
  BY <1>3 DEF FlushNothing, Flush, SendCommit, CommitRolledBack, Fail
<1>4. CASE BeginFails(p) \/ HooksDone(p)
  BY <1>4 DEF BeginFails, HooksDone, Return
<1>5. ASSUME NEW l \in LockSpecs, Call(p, l) PROVE conns' = conns /\ sess' = sess /\ pc[p] = "idle" /\ pc' = [pc EXCEPT ![p] = "begin"]
  BY <1>5 DEF Call
<1>6. ASSUME NEW how \in CtxEnds, ContextEnds(p, how) PROVE UNCHANGED <<conns, sess, pc>>
  BY <1>6 DEF ContextEnds
<1>7. ASSUME NEW s \in Sessions, Begin(p, s)
      PROVE  /\ conns' = conns \cup {p} /\ Cardinality(conns) < MaxConns
             /\ pc[p] = "begin" /\ pc' = [pc EXCEPT ![p] = "lock"]
             /\ \A q \in Callers : q # p => sess'[q] = sess[q]
  BY <1>7 DEF Begin
<1>8. CASE CommitDone(p) \/ CommitUnknown(p) \/ Rollback(p)
  BY <1>8 DEF CommitDone, CommitUnknown, Rollback, Detach, Return
<1>9. QED BY <1>1, <1>2, <1>3, <1>4, <1>5, <1>6, <1>7, <1>8 DEF CallerStep

LEMMA ConnStep == IInv /\ SessionInv' /\ ConnInv /\ [Next]_vars => ConnInv'
<1> SUFFICES ASSUME IInv, SessionInv', ConnInv, [Next]_vars PROVE ConnInv'
    OBVIOUS
<1> USE DEF ConnInv
<1>0. /\ conns \subseteq Callers /\ sess \in [Callers -> Sessions \cup {NoSession}]
      /\ \A q \in Callers : q \in conns <=> pc[q] \in InTransaction
      /\ \A q \in Callers : sess[q] # NoSession => q \in conns
      /\ Cardinality(conns) <= MaxConns /\ IsFiniteSet(conns)
  BY DEF ConnectionsAreReturned, InTransaction, IInv, TypeOK
<1>1. ASSUME /\ conns' \subseteq Callers
             /\ \A q \in Callers : q \in conns' <=> pc'[q] \in InTransaction
             /\ \A q \in Callers : sess'[q] # NoSession => q \in conns'
             /\ Cardinality(conns') <= MaxConns /\ IsFiniteSet(conns')
      PROVE  ConnInv'
  BY <1>1 DEF ConnectionsAreReturned, InTransaction, SessionInv
<1>2. CASE UNCHANGED <<conns, pc, sess>>
  BY <1>0, <1>1, <1>2
<1>3. ASSUME NEW p \in Callers, CallerStep(p) PROVE ConnInv'
  <2>1. CASE /\ conns' = conns
             /\ \A q \in Callers : pc'[q] \in InTransaction <=> pc[q] \in InTransaction
             /\ \A q \in Callers : sess'[q] \in {sess[q], NoSession}
    BY <1>0, <1>1, <2>1
  <2>2. CASE /\ conns' = conns \cup {p} /\ Cardinality(conns) < MaxConns
             /\ pc[p] = "begin" /\ pc' = [pc EXCEPT ![p] = "lock"]
             /\ \A q \in Callers : q # p => sess'[q] = sess[q]
    <3>1. p \notin conns
      BY <1>0, <2>2 DEF InTransaction
    <3>2. IsFiniteSet(conns') /\ Cardinality(conns') = Cardinality(conns) + 1
      BY <1>0, <2>2, <3>1, FS_AddElement
    <3>3. Cardinality(conns') <= MaxConns
      BY <1>0, <2>2, <3>2, FS_CardinalityType, BoundAssumption
    <3>4. \A q \in Callers : q \in conns' <=> pc'[q] \in InTransaction
      BY <1>0, <2>2 DEF InTransaction, IInv, TypeOK
    <3>5. QED BY <1>0, <1>1, <2>2, <3>2, <3>3, <3>4
  <2>3. CASE /\ conns' = conns \ {p}
             /\ \A q \in Callers : pc'[q] \in InTransaction <=> pc[q] \in InTransaction /\ q # p
             /\ \A q \in Callers : sess'[q] = IF q = p THEN NoSession ELSE sess[q]
    <3>1. IsFiniteSet(conns') /\ Cardinality(conns') <= Cardinality(conns)
      BY <1>0, <2>3, FS_Subset
    <3>2. Cardinality(conns') <= MaxConns
      BY <1>0, <3>1, FS_CardinalityType, BoundAssumption
    <3>3. QED BY <1>0, <1>1, <2>3, <3>1, <3>2
  <2>4. QED BY <1>3, <2>1, <2>2, <2>3, ConnectionEffect
<1>4. ASSUME NEW s \in Sessions, ServerStep(s) PROVE UNCHANGED <<conns, pc, sess>>
  BY <1>4 DEF ServerStep, Grant, Kill, ServerCommit, ServerAbort, client
<1>5. QED BY <1>2, <1>3, <1>4 DEF Next, vars

\* Whoever is outside of a transaction, hooks included, has given its connection
\* back, and no more are lent than there are.
THEOREM NoConnectionLeaks == Spec => []ConnectionsAreReturned
<1>1. Init => ConnInv
  <2>1. Init => ConnectionsAreReturned
    BY FS_EmptySet, BoundAssumption DEF Init, ConnectionsAreReturned
  <2>2. QED BY <2>1, FS_EmptySet DEF Init, ConnInv
<1>2. IInv => SessionInv
  BY DEF IInv
<1>3. ConnInv => ConnectionsAreReturned
  BY DEF ConnInv
<1>4. QED BY <1>1, <1>2, <1>3, ConnStep, Invariance, PTL DEF Spec

-----------------------------------------------------------------------------
(* Counters *)

\* CountedOnce, and what makes it inductive: nobody is counted before commit() or
\* the end of the call.
TallyInv ==
    /\ \A p \in Callers : pc[p] \notin {"idle", "hooks"} => outcome[p] # "committed"
    /\ IsFiniteSet(NotYetCounted)
    /\ CountedOnce

\* One more in one counter is one more in all (procedureCounters).
LEMMA CountAddsOne ==
    ASSUME stats \in [Outcomes -> Nat], NEW o \in Outcomes, Count(o)
    PROVE  Counted' = Counted + 1
BY DEF Count, Counted, Outcomes

\* failed() never takes a call for committed or unknown.
LEMMA ClassifyFails ==
    ASSUME NEW e, NEW c
    PROVE  Classify(e, c) \in Outcomes \ {"committed", "unknown"}
BY DEF Classify, Outcomes

\* A step of p begins a call, counts one, or does neither.
LEMMA TallyEffect ==
    ASSUME IInv, TallyInv, NEW p \in Callers, CallerStep(p)
    PROVE  \/ /\ UNCHANGED <<stats, calls>> /\ NotYetCounted' = NotYetCounted
           \/ /\ stats' = stats /\ calls' = calls + 1
              /\ p \notin NotYetCounted /\ NotYetCounted' = NotYetCounted \cup {p}
           \/ /\ \E o \in Outcomes : Count(o)
              /\ calls' = calls
              /\ p \in NotYetCounted /\ NotYetCounted' = NotYetCounted \ {p}
<1> USE DEF IInv, TypeOK, client, server, NotYetCounted
<1>0. \A q \in Callers : pc[q] \notin {"idle", "hooks"} => outcome[q] # "committed"
  BY DEF TallyInv
<1>1. CASE FnStep(p)
  <2>1. CASE FnReturns(p) \/ \E e \in FnErrors : FnFails(p, e)
    BY <2>1 DEF FnReturns, FnFails, Fail
  <2>2. CASE IgnoredSqlError(p)
    BY <2>2 DEF IgnoredSqlError
  <2>3. ASSUME NEW r \in Rows, Query(p, r) \/ SetVal(p, r) PROVE UNCHANGED <<stats, calls, pc, outcome>>
    BY <2>3 DEF Query, SetVal
  <2>4. ASSUME NEW r \in Rows, NEW k \in Keys, SetUid(p, r, k) PROVE UNCHANGED <<stats, calls, pc, outcome>>
    BY <2>4 DEF SetUid
  <2>5. CASE UNCHANGED <<stats, calls, pc, outcome>>
    BY <2>5
  <2>6. QED BY <1>1, <2>1, <2>2, <2>3, <2>4, <2>5 DEF FnStep
<1>2. CASE NoLock(p) \/ RequestLock(p) \/ LockAcquired(p) \/ LockTimeout(p) \/ SqlFails(p)
  BY <1>2 DEF NoLock, RequestLock, LockAcquired, LockTimeout, SqlFails, Fail
<1>3. CASE FlushNothing(p) \/ Flush(p) \/ SendCommit(p) \/ CommitRolledBack(p) \/ Rollback(p)
  BY <1>3 DEF FlushNothing, Flush, SendCommit, CommitRolledBack, Fail, Rollback
<1>4. CASE BeginFails(p)
  BY <1>0, <1>4, ClassifyFails DEF BeginFails, Return
<1>5. CASE HooksDone(p)
  BY <1>0, <1>5, ClassifyFails DEF HooksDone, Return
<1>6. ASSUME NEW l \in LockSpecs, Call(p, l)
      PROVE  /\ stats' = stats /\ calls' = calls + 1
             /\ p \notin NotYetCounted /\ NotYetCounted' = NotYetCounted \cup {p}
  BY <1>6 DEF Call
<1>7. ASSUME NEW how \in CtxEnds, ContextEnds(p, how) PROVE UNCHANGED <<stats, calls, pc, outcome>>
  BY <1>7 DEF ContextEnds
<1>8. ASSUME NEW s \in Sessions, Begin(p, s)
      PROVE  UNCHANGED <<stats, calls>> /\ NotYetCounted' = NotYetCounted
  BY <1>8 DEF Begin
<1>9. CASE CommitDone(p) \/ CommitUnknown(p)
  BY <1>0, <1>9 DEF CommitDone, CommitUnknown, Return, Outcomes
<1>10. QED BY <1>1, <1>2, <1>3, <1>4, <1>5, <1>6, <1>7, <1>8, <1>9 DEF CallerStep

\* Only commit() says "committed", and what it says stays until the next call.
LEMMA OutcomeStep ==
    ASSUME IInv, TallyInv, NEW p \in Callers, CallerStep(p)
    PROVE  \A q \in Callers : pc'[q] \notin {"idle", "hooks"} => outcome'[q] # "committed"
<1> USE DEF IInv, TypeOK, client, server
<1>0. \A q \in Callers : pc[q] \notin {"idle", "hooks"} => outcome[q] # "committed"
  BY DEF TallyInv
<1>1. CASE FnStep(p)
  BY <1>0, <1>1 DEF FnStep, Query, SetVal, SetUid, IgnoredSqlError, FnReturns, FnFails, Fail
<1>2. CASE NoLock(p) \/ RequestLock(p) \/ LockAcquired(p) \/ LockTimeout(p) \/ SqlFails(p)
  BY <1>0, <1>2 DEF NoLock, RequestLock, LockAcquired, LockTimeout, SqlFails, Fail
<1>3. CASE FlushNothing(p) \/ Flush(p) \/ SendCommit(p) \/ CommitRolledBack(p) \/ Rollback(p)
  BY <1>0, <1>3 DEF FlushNothing, Flush, SendCommit, CommitRolledBack, Fail, Rollback
<1>4. CASE BeginFails(p) \/ HooksDone(p) \/ CommitDone(p) \/ CommitUnknown(p)
  BY <1>0, <1>4 DEF BeginFails, HooksDone, CommitDone, CommitUnknown, Return
<1>5. ASSUME NEW l \in LockSpecs, Call(p, l)
      PROVE  \A q \in Callers : pc'[q] \notin {"idle", "hooks"} => outcome'[q] # "committed"
  BY <1>0, <1>5 DEF Call
<1>6. ASSUME NEW how \in CtxEnds, ContextEnds(p, how) PROVE UNCHANGED <<pc, outcome>>
  BY <1>6 DEF ContextEnds
<1>7. ASSUME NEW s \in Sessions, Begin(p, s)
      PROVE  \A q \in Callers : pc'[q] \notin {"idle", "hooks"} => outcome'[q] # "committed"
  BY <1>0, <1>7 DEF Begin
<1>8. QED BY <1>0, <1>1, <1>2, <1>3, <1>4, <1>5, <1>6, <1>7 DEF CallerStep

LEMMA TallyStep == IInv /\ TallyInv /\ [Next]_vars => TallyInv'
<1> SUFFICES ASSUME IInv, TallyInv, [Next]_vars PROVE TallyInv'
    OBVIOUS
<1>0. /\ IsFiniteSet(NotYetCounted) /\ Cardinality(NotYetCounted) \in Nat
      /\ Counted + Cardinality(NotYetCounted) = calls
      /\ stats \in [Outcomes -> Nat] /\ calls \in Nat /\ Counted \in Nat
  BY SMTT(30), FS_CardinalityType DEF TallyInv, CountedOnce, IInv, TypeOK, Counted, Outcomes
<1>1. CASE UNCHANGED client
  BY <1>1 DEF client, TallyInv, CountedOnce, Counted, NotYetCounted
<1>2. ASSUME NEW p \in Callers, CallerStep(p) PROVE TallyInv'
  <2>1. SUFFICES IsFiniteSet(NotYetCounted') /\ Counted' + Cardinality(NotYetCounted') = calls'
    BY <1>2, OutcomeStep DEF TallyInv, CountedOnce
  <2>2. CASE UNCHANGED <<stats, calls>> /\ NotYetCounted' = NotYetCounted
    BY <1>0, <2>2 DEF Counted
  <2>3. CASE /\ stats' = stats /\ calls' = calls + 1
             /\ p \notin NotYetCounted /\ NotYetCounted' = NotYetCounted \cup {p}
    <3>1. IsFiniteSet(NotYetCounted') /\ Cardinality(NotYetCounted') = Cardinality(NotYetCounted) + 1
      BY <1>0, <2>3, FS_AddElement
    <3>2. Counted' = Counted
      BY <2>3 DEF Counted
    <3>3. QED BY <1>0, <2>3, <3>1, <3>2
  <2>4. CASE /\ \E o \in Outcomes : Count(o)
             /\ calls' = calls
             /\ p \in NotYetCounted /\ NotYetCounted' = NotYetCounted \ {p}
    <3>1. IsFiniteSet(NotYetCounted') /\ Cardinality(NotYetCounted') = Cardinality(NotYetCounted) - 1
      BY <1>0, <2>4, FS_RemoveElement
    <3>2. Counted' = Counted + 1
      BY <1>0, <2>4, CountAddsOne
    <3>3. QED BY <1>0, <2>4, <3>1, <3>2
  <2>5. QED BY <1>2, <2>2, <2>3, <2>4, TallyEffect
<1>3. ASSUME NEW s \in Sessions, ServerStep(s) PROVE UNCHANGED client
  BY <1>3 DEF ServerStep, Grant, Kill, ServerCommit, ServerAbort
<1>4. QED BY <1>1, <1>2, <1>3 DEF Next, vars, client

\* Every call is in exactly one counter once it is over, whichever way it left.
THEOREM CallsAreCountedOnce == Spec => []CountedOnce
<1>1. Init => TallyInv
  <2> SUFFICES ASSUME Init PROVE TallyInv
      OBVIOUS
  <2>1. NotYetCounted = {}
    BY DEF Init, NotYetCounted
  <2>2. Counted = 0 /\ calls = 0
    BY DEF Init, Counted, Outcomes
  <2>3. QED BY <2>1, <2>2, FS_EmptySet DEF Init, TallyInv, CountedOnce
<1>2. TallyInv => CountedOnce
  BY DEF TallyInv
<1>3. QED BY <1>1, <1>2, TallyStep, Invariance, PTL DEF Spec
-----------------------------------------------------------------------------
(* The counters and the truth *)

\* Sessions that were given up on while they were committing.
Undecided == {s \in Sessions : srv[s] = "committing" /\ ~Attached(s)}

\* CommitsAreAccountedFor, and what makes it inductive: each of those sessions may
\* still commit, and has its call among the unknown ones.
AccountInv ==
    /\ IsFiniteSet(Answered) /\ IsFiniteSet(Undecided)
    /\ stats["committed"] + Cardinality(Answered) <= commits
    /\ commits + Cardinality(Undecided) <= stats["committed"] + Cardinality(Answered) + stats["unknown"]

SameReports == stats'["committed"] = stats["committed"] /\ stats'["unknown"] = stats["unknown"]

\* What changes neither the reports nor the sessions that commit changes nothing.
LEMMA NothingDecided ==
    ASSUME IInv, SameReports, commits' = commits,
           \A q \in Callers : sess'[q] # NoSession /\ srv'[sess'[q]] = "committed"
                                  <=> sess[q] # NoSession /\ srv[sess[q]] = "committed",
           \A s \in Sessions : srv'[s] = "committing" /\ (\A q \in Callers : sess'[q] # s)
                                  <=> srv[s] = "committing" /\ (\A q \in Callers : sess[q] # s)
    PROVE  SameReports /\ commits' = commits /\ Answered' = Answered /\ Undecided' = Undecided
BY DEF Answered, Undecided, Attached

\* The steps of a caller that do not end a COMMIT.
LEMMA UndecidedStep ==
    ASSUME IInv, NEW p \in Callers, CallerStep(p), ~CommitDone(p), ~CommitUnknown(p)
    PROVE  SameReports /\ commits' = commits /\ Answered' = Answered /\ Undecided' = Undecided
<1> USE SessionAssumption DEF IInv, TypeOK, client, server, SameReports
<1>0. /\ sess[p] # NoSession /\ pc[p] # "commit" => srv[sess[p]] \notin {"committing", "committed"}
      /\ \A q \in Callers : q # p /\ sess[q] # NoSession => sess[q] # sess[p]
      /\ \A q \in Callers : sess[q] # NoSession => sess[q] \in Sessions /\ srv[sess[q]] # "free"
  BY DEF SessionInv
<1>1. CASE UNCHANGED <<sess, srv, commits>> /\ SameReports
  BY <1>1, NothingDecided
<1>2. CASE FnReturns(p) \/ \E e \in FnErrors : FnFails(p, e)
  BY <1>1, <1>2 DEF FnReturns, FnFails
<1>3. ASSUME NEW r \in Rows, Query(p, r) \/ SetVal(p, r)
      PROVE  UNCHANGED <<sess, srv, commits>> /\ SameReports
  BY <1>3 DEF Query, SetVal
<1>4. ASSUME NEW r \in Rows, NEW k \in Keys, SetUid(p, r, k)
      PROVE  UNCHANGED <<sess, srv, commits>> /\ SameReports
  BY <1>4 DEF SetUid
<1>5. CASE /\ pc[p] # "commit" /\ sess[p] # NoSession /\ UNCHANGED <<commits, sess, stats>>
           /\ \/ srv' = [srv EXCEPT ![sess[p]] = "failed"]
              \/ srv' = [srv EXCEPT ![sess[p]] = "free"]
  BY <1>0, <1>5, NothingDecided
<1>6. CASE /\ pc[p] # "commit" /\ UNCHANGED <<commits, stats>>
           /\ sess' = [sess EXCEPT ![p] = NoSession]
           /\ \/ srv' = srv
              \/ \E st \in {"free", "dead"} : sess[p] # NoSession /\ srv' = [srv EXCEPT ![sess[p]] = st]
  BY <1>0, <1>6, NothingDecided
<1>7. ASSUME sess[p] # NoSession, pc[p] # "commit", Disconnect(p), UNCHANGED <<commits, stats>>
      PROVE  /\ sess' = [sess EXCEPT ![p] = NoSession]
             /\ \/ srv' = srv
                \/ \E st \in {"free", "dead"} : sess[p] # NoSession /\ srv' = [srv EXCEPT ![sess[p]] = st]
  BY <1>7 DEF Disconnect
<1>8. CASE IgnoredSqlError(p)
  BY <1>5, <1>6, <1>7, <1>8 DEF IgnoredSqlError, Refuse
<1>9. CASE SqlFails(p)
  BY <1>1, <1>5, <1>6, <1>7, <1>9 DEF SqlFails, Refuse
<1>10. CASE NoLock(p) \/ RequestLock(p) \/ LockAcquired(p) \/ FlushNothing(p) \/ Flush(p)
  BY <1>1, <1>10 DEF NoLock, RequestLock, LockAcquired, FlushNothing, Flush
<1>11. CASE LockTimeout(p)
  BY <1>5, <1>11 DEF LockTimeout
<1>12. CASE BeginFails(p) \/ HooksDone(p)
  <2>1. UNCHANGED <<sess, srv, commits>>
    BY <1>12 DEF BeginFails, HooksDone
  <2>2. stats' = stats \/ \E o \in Outcomes \ {"committed", "unknown"} : Count(o)
    BY <1>12, ClassifyFails DEF BeginFails, HooksDone
  <2>3. SameReports
    <3>1. ASSUME NEW o \in Outcomes \ {"committed", "unknown"}, Count(o) PROVE SameReports
      BY <3>1 DEF Count, Outcomes
    <3>2. QED BY <2>2, <3>1
  <2>4. QED BY <1>1, <2>1, <2>3
<1>13. ASSUME NEW l \in LockSpecs, Call(p, l)
       PROVE  UNCHANGED <<sess, srv, commits>> /\ SameReports
  BY <1>13 DEF Call
<1>14. ASSUME NEW how \in CtxEnds, ContextEnds(p, how)
       PROVE  UNCHANGED <<sess, srv, commits>> /\ SameReports
  BY <1>14 DEF ContextEnds
<1>15. ASSUME NEW s \in Sessions, Begin(p, s)
       PROVE  SameReports /\ commits' = commits /\ Answered' = Answered /\ Undecided' = Undecided
  BY <1>0, <1>15, NothingDecided DEF Begin
<1>16. CASE SendCommit(p)
  BY <1>0, <1>16, NothingDecided DEF SendCommit
<1>17. CASE CommitRolledBack(p)
  BY <1>0, <1>17, NothingDecided DEF CommitRolledBack, EndTransaction
<1>18. CASE Rollback(p)
  BY <1>1, <1>6, <1>18 DEF Rollback, Detach, EndTransaction
<1> HIDE DEF IInv, TypeOK, client, server, SameReports
<1>19. CASE FnStep(p)
  BY <1>1, <1>2, <1>3, <1>4, <1>8, <1>19 DEF FnStep
<1>20. QED BY <1>1, <1>9, <1>10, <1>11, <1>12, <1>13, <1>14, <1>15, <1>16, <1>17, <1>18, <1>19 DEF CallerStep

\* The answer to COMMIT, or its absence.
LEMMA AnswerStep ==
    ASSUME IInv, NEW p \in Callers
    PROVE  /\ CommitDone(p) =>
                  /\ stats'["committed"] = stats["committed"] + 1 /\ stats'["unknown"] = stats["unknown"]
                  /\ p \in Answered /\ Answered' = Answered \ {p} /\ Undecided' = Undecided
           /\ CommitUnknown(p) =>
                  /\ stats'["committed"] = stats["committed"] /\ stats'["unknown"] = stats["unknown"] + 1
                  /\ Answered' = Answered \ {p}
                  /\ p \in Answered => Undecided' = Undecided
                  /\ \E s \in Sessions \cup {NoSession} : Undecided' \subseteq Undecided \cup {s}
<1> USE SessionAssumption DEF IInv, TypeOK
<1>0. /\ \A q \in Callers : q # p /\ sess[q] # NoSession => sess[q] # sess[p]
      /\ \A q \in Callers : sess[q] # NoSession => sess[q] \in Sessions
  BY DEF SessionInv
<1>1. ASSUME CommitDone(p)
      PROVE  /\ stats'["committed"] = stats["committed"] + 1 /\ stats'["unknown"] = stats["unknown"]
             /\ p \in Answered /\ Answered' = Answered \ {p} /\ Undecided' = Undecided
  <2>1. /\ sess[p] \in Sessions /\ srv[sess[p]] = "committed"
        /\ sess' = [sess EXCEPT ![p] = NoSession] /\ srv' = [srv EXCEPT ![sess[p]] = "free"]
    BY <1>1 DEF CommitDone, Detach
  <2>2. stats'["committed"] = stats["committed"] + 1 /\ stats'["unknown"] = stats["unknown"]
    BY <1>1 DEF CommitDone, Count, Outcomes
  <2>3. p \in Answered /\ Answered' = Answered \ {p}
    BY <1>0, <2>1 DEF Answered
  <2>4. Undecided' = Undecided
    BY <1>0, <2>1 DEF Undecided, Attached
  <2>5. QED BY <2>2, <2>3, <2>4
<1>2. ASSUME CommitUnknown(p)
      PROVE  /\ stats'["committed"] = stats["committed"] /\ stats'["unknown"] = stats["unknown"] + 1
             /\ Answered' = Answered \ {p}
             /\ p \in Answered => Undecided' = Undecided
             /\ \E s \in Sessions \cup {NoSession} : Undecided' \subseteq Undecided \cup {s}
  <2>1. stats'["committed"] = stats["committed"] /\ stats'["unknown"] = stats["unknown"] + 1
    BY <1>2 DEF CommitUnknown, Count, Outcomes
  <2>2. /\ sess' = [sess EXCEPT ![p] = NoSession]
        /\ \/ sess[p] = NoSession /\ srv' = srv
           \/ sess[p] \in Sessions /\ srv[sess[p]] \notin {"dead", "committed"} /\ srv' = srv
           \/ /\ sess[p] \in Sessions /\ srv[sess[p]] \in {"dead", "committed"}
              /\ srv' = [srv EXCEPT ![sess[p]] = "free"]
    BY <1>2 DEF CommitUnknown, Detach, Disconnect
  <2>3. Answered' = Answered \ {p}
    BY <1>0, <2>2 DEF Answered
  <2>4. p \in Answered => Undecided' = Undecided
    BY <1>0, <2>2 DEF Answered, Undecided, Attached
  <2>5. Undecided' \subseteq Undecided \cup {sess[p]}
    BY <1>0, <2>2 DEF Undecided, Attached
  <2>6. QED BY <2>1, <2>3, <2>4, <2>5
<1>3. QED BY <1>1, <1>2

\* The server decides: a COMMIT somebody waits for, or one that was given up on.
LEMMA DecisionStep ==
    ASSUME IInv, NEW s \in Sessions, ServerStep(s)
    PROVE  /\ UNCHANGED stats
           /\ \/ commits' = commits /\ Answered' = Answered /\ Undecided' \subseteq Undecided
              \/ /\ commits' = commits + 1 /\ Undecided' = Undecided
                 /\ \E p \in Callers : p \notin Answered /\ Answered' = Answered \cup {p}
              \/ /\ commits' = commits + 1 /\ Answered' = Answered
                 /\ s \in Undecided /\ Undecided' = Undecided \ {s}
<1> USE SessionAssumption DEF IInv, TypeOK, client
<1>1. CASE Grant(s)
  BY <1>1 DEF Grant, Answered, Undecided, Attached
<1>2. CASE Kill(s) \/ ServerAbort(s)
  <2>1. /\ UNCHANGED <<stats, sess, commits>> /\ srv[s] # "committed"
        /\ srv' = [srv EXCEPT ![s] = "dead"] \/ srv' = [srv EXCEPT ![s] = "free"]
    BY <1>2 DEF Kill, ServerAbort, EndTransaction
  <2>2. Answered' = Answered /\ Undecided' \subseteq Undecided
    BY <2>1 DEF Answered, Undecided, Attached
  <2>3. QED BY <2>1, <2>2
<1>3. CASE ServerCommit(s)
  <2>1. /\ UNCHANGED <<stats, sess>> /\ srv[s] = "committing" /\ commits' = commits + 1
        /\ srv' = [srv EXCEPT ![s] = IF Attached(s) THEN "committed" ELSE "free"]
    BY <1>3 DEF ServerCommit, EndTransaction
  <2>2. CASE Attached(s)
    <3>1. PICK p \in Callers : sess[p] = s
      BY <2>2 DEF Attached
    <3>2. \A q \in Callers : sess[q] = s => q = p
      BY <3>1 DEF SessionInv
    <3>3. p \notin Answered /\ Answered' = Answered \cup {p}
      BY <2>1, <2>2, <3>1, <3>2 DEF Answered
    <3>4. Undecided' = Undecided
      BY <2>1, <2>2, <3>1 DEF Undecided, Attached
    <3>5. QED BY <2>1, <3>3, <3>4
  <2>3. CASE ~Attached(s)
    <3>1. Answered' = Answered
      BY <2>1, <2>3 DEF Answered, Attached
    <3>2. s \in Undecided /\ Undecided' = Undecided \ {s}
      BY <2>1, <2>3 DEF Undecided, Attached
    <3>3. QED BY <2>1, <3>1, <3>2
  <2>4. QED BY <2>2, <2>3
<1>4. QED BY <1>1, <1>2, <1>3 DEF ServerStep

LEMMA AccountStep == IInv /\ AccountInv /\ [Next]_vars => AccountInv'
<1> SUFFICES ASSUME IInv, AccountInv, [Next]_vars PROVE AccountInv'
    OBVIOUS
<1>0. /\ IsFiniteSet(Answered) /\ IsFiniteSet(Undecided)
      /\ Cardinality(Answered) \in Nat /\ Cardinality(Undecided) \in Nat
      /\ stats["committed"] + Cardinality(Answered) <= commits
      /\ commits + Cardinality(Undecided) <= stats["committed"] + Cardinality(Answered) + stats["unknown"]
      /\ stats["committed"] \in Nat /\ stats["unknown"] \in Nat /\ commits \in Nat
  BY FS_CardinalityType DEF AccountInv, IInv, TypeOK, Outcomes
<1>1. CASE SameReports /\ commits' = commits /\ Answered' = Answered /\ Undecided' = Undecided
  BY <1>0, <1>1 DEF SameReports, AccountInv
<1>2. CASE UNCHANGED vars
  BY <1>1, <1>2 DEF vars, SameReports, Answered, Undecided, Attached
<1>3. ASSUME NEW p \in Callers, CommitDone(p) PROVE AccountInv'
  <2>1. IsFiniteSet(Answered') /\ Cardinality(Answered') = Cardinality(Answered) - 1
    BY <1>0, <1>3, AnswerStep, FS_RemoveElement
  <2>2. commits' = commits
    BY <1>3 DEF CommitDone
  <2>3. QED BY <1>0, <1>3, <2>1, <2>2, AnswerStep DEF AccountInv
<1>4. ASSUME NEW p \in Callers, CommitUnknown(p) PROVE AccountInv'
  <2>1. commits' = commits
    BY <1>4 DEF CommitUnknown
  <2>2. CASE p \in Answered
    <3>1. IsFiniteSet(Answered') /\ Cardinality(Answered') = Cardinality(Answered) - 1
      BY <1>0, <1>4, <2>2, AnswerStep, FS_RemoveElement
    <3>2. Undecided' = Undecided
      BY <1>4, <2>2, AnswerStep
    <3>3. QED BY <1>0, <1>4, <2>1, <3>1, <3>2, AnswerStep DEF AccountInv
  <2>3. CASE p \notin Answered
    <3>1. Answered' = Answered
      BY <1>4, <2>3, AnswerStep
    <3>2. PICK s \in Sessions \cup {NoSession} : Undecided' \subseteq Undecided \cup {s}
      BY <1>4, AnswerStep
    <3>3. /\ IsFiniteSet(Undecided \cup {s})
          /\ Cardinality(Undecided \cup {s}) <= Cardinality(Undecided) + 1
          /\ Cardinality(Undecided \cup {s}) \in Nat
      <4>1. IsFiniteSet(Undecided \cup {s}) /\ (\/ Cardinality(Undecided \cup {s}) = Cardinality(Undecided)
                                               \/ Cardinality(Undecided \cup {s}) = Cardinality(Undecided) + 1)
        BY <1>0, FS_AddElement
      <4>2. QED BY <1>0, <4>1
    <3>4. IsFiniteSet(Undecided') /\ Cardinality(Undecided') <= Cardinality(Undecided \cup {s})
      BY <3>2, <3>3, FS_Subset
    <3>5. Cardinality(Undecided') \in Nat
      BY <3>4, FS_CardinalityType
    <3>6. QED BY <1>0, <1>4, <2>1, <3>1, <3>3, <3>4, <3>5, AnswerStep DEF AccountInv
  <2>4. QED BY <2>2, <2>3
<1>5. ASSUME NEW s \in Sessions, ServerStep(s) PROVE AccountInv'
  <2>1. UNCHANGED stats
    BY <1>5, DecisionStep
  <2>2. CASE commits' = commits /\ Answered' = Answered /\ Undecided' \subseteq Undecided
    <3>1. IsFiniteSet(Undecided') /\ Cardinality(Undecided') <= Cardinality(Undecided)
      BY <1>0, <2>2, FS_Subset
    <3>2. Cardinality(Undecided') \in Nat
      BY <3>1, FS_CardinalityType
    <3>3. QED BY <1>0, <2>1, <2>2, <3>1, <3>2 DEF AccountInv
  <2>3. CASE /\ commits' = commits + 1 /\ Undecided' = Undecided
             /\ \E p \in Callers : p \notin Answered /\ Answered' = Answered \cup {p}
    <3>1. IsFiniteSet(Answered') /\ Cardinality(Answered') = Cardinality(Answered) + 1
      BY <1>0, <2>3, FS_AddElement
    <3>2. QED BY <1>0, <2>1, <2>3, <3>1 DEF AccountInv
  <2>4. CASE /\ commits' = commits + 1 /\ Answered' = Answered
             /\ s \in Undecided /\ Undecided' = Undecided \ {s}
    <3>1. IsFiniteSet(Undecided') /\ Cardinality(Undecided') = Cardinality(Undecided) - 1
      BY <1>0, <2>4, FS_RemoveElement
    <3>2. QED BY <1>0, <2>1, <2>4, <3>1 DEF AccountInv
  <2>5. QED BY <1>5, <2>2, <2>3, <2>4, DecisionStep
<1>6. QED BY <1>1, <1>2, <1>3, <1>4, <1>5, UndecidedStep DEF Next

\* No transaction that the server committed was reported as rolled back, none that
\* it did not commit as committed, and the calls reported as unknown cover the
\* rest, also for what sessions do that were given up on.
THEOREM CommitsAreReported == Spec => []CommitsAreAccountedFor
<1>1. Init => AccountInv
  <2> SUFFICES ASSUME Init PROVE AccountInv
      OBVIOUS
  <2>1. Answered = {} /\ Undecided = {}
    BY DEF Init, Answered, Undecided
  <2>2. QED BY <2>1, FS_EmptySet DEF Init, AccountInv, Outcomes
<1>2. IInv /\ AccountInv => CommitsAreAccountedFor
  BY FS_CardinalityType DEF AccountInv, CommitsAreAccountedFor, IInv, TypeOK, Outcomes
<1>3. QED BY <1>1, <1>2, AccountStep, Invariance, PTL DEF Spec
=============================================================================
