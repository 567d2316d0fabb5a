----------------------------- MODULE Procedure -----------------------------
(***************************************************************************)
(* dbpool.Procedure: BEGIN, advisory lock, fn, flush, COMMIT, for several  *)
(* goroutines that share one connection pool, together with the            *)
(* PostgreSQL sessions they talk to.  A goroutine and its session take     *)
(* separate steps: the client may give up (budget, cancellation, broken    *)
(* connection, commit timeout) while the session lives on as an orphan     *)
(* that still holds its lock, and the server may kill a session whose      *)
(* client has not noticed.                                                 *)
(*                                                                         *)
(* The rows belong to a table that declares lock="uid" in pdb.xml: a row   *)
(* is the uid that names its lock and one more column, a number, that fn   *)
(* changes with the usual o.SetVal(o.Val() + 1).                           *)
(***************************************************************************)
EXTENDS Integers, FiniteSets

CONSTANTS
    Callers,     \* the goroutines that call Procedure
    Keys,        \* bigint advisory keys: the values of the lock column
    PairKeys,    \* keys of the two-int32 form, a key space of its own
    Rows,        \* primary keys of the rows
    Sessions,    \* server backends
    MaxConns,    \* Config.MaxConns
    LockSpecs,   \* the locks the callers ask for
    CtxEnds,     \* how a context may end: "expired" (by the budget), "cancelled" (by the caller)
    FnErrors,    \* how fn may fail: "app", "ctx" (ctx.Err()), "ownDeadline", "panic", "goexit"
    HooksUsePool,\* whether the hooks open transactions of their own
    MaxCalls,    \* bound: calls of Procedure, of all callers together
    MaxVal,      \* bound: largest number the application writes in a row
    NoKey, NoSession, NoObj

ASSUME KeysAssumption == Keys \cap PairKeys = {} /\ NoKey \notin Keys \cup PairKeys
ASSUME SessionAssumption == NoSession \notin Sessions
ASSUME BoundAssumption == MaxConns \in Nat /\ MaxCalls \in Nat /\ MaxVal \in Nat
ASSUME SwitchAssumption ==
    /\ CtxEnds \subseteq {"expired", "cancelled"}
    /\ FnErrors \subseteq {"app", "ctx", "ownDeadline", "panic", "goexit"}
    /\ HooksUsePool \in BOOLEAN

LockSpec == {[kind |-> "none", key |-> NoKey]}
            \cup [kind : {"try", "block"}, key : Keys \cup PairKeys]

ASSUME LockAssumption == LockSpecs \subseteq LockSpec

Columns == {"uid", "val"}
Row == [uid : Keys, val : 0 .. MaxVal]

\* An entity in a working set: its fields, the snapshot taken when it was
\* registered, the dirty columns and the foreign mark.
Entity == [cur : Row, snap : Row, dirty : SUBSET Columns, foreign : BOOLEAN]

ASSUME NoObjAssumption == NoObj \notin Entity

EmptySet == [r \in Rows |-> NoObj]

Outcomes == {"committed", "busy", "timedOut", "failed", "panicked", "unknown"}

VARIABLES
    pc,       \* where each caller is in procedure()
    lock,     \* ProcedureOptions.Lock of the call
    ctx,      \* the call's context: live, expired (budget) or cancelled (by the caller)
    err,      \* the error that sent the call to rollback, "nil" before
    conns,    \* callers that have a pooled connection out
    sess,     \* the session behind that connection, NoSession once it is closed
    objs,     \* the working set
    outcome,  \* how the last call ended, "none" while it runs
    stats,    \* procedureCounters
    calls,    \* ghost: number of calls begun
    srv,      \* state of each server session
    holds,    \* the advisory xact lock a session holds
    waits,    \* the advisory xact lock a session is queued for
    writes,   \* uncommitted row versions of a session
    rows,     \* the committed table
    applied,  \* ghost: increments of each row whose transaction has committed
    commits   \* ghost: transactions that have committed

client == <<pc, lock, ctx, err, conns, sess, objs, outcome, stats, calls>>
server == <<srv, holds, waits, writes, rows, applied, commits>>
vars == <<pc, lock, ctx, err, conns, sess, objs, outcome, stats, calls,
          srv, holds, waits, writes, rows, applied, commits>>

\* Transactions the server still considers in progress.
Live == {"open", "failed", "committing"}

Init ==
    /\ pc = [p \in Callers |-> "idle"]
    /\ lock = [p \in Callers |-> [kind |-> "none", key |-> NoKey]]
    /\ ctx = [p \in Callers |-> "live"]
    /\ err = [p \in Callers |-> "nil"]
    /\ conns = {}
    /\ sess = [p \in Callers |-> NoSession]
    /\ objs = [p \in Callers |-> EmptySet]
    /\ outcome = [p \in Callers |-> "none"]
    /\ stats = [o \in Outcomes |-> 0]
    /\ calls = 0
    /\ srv = [s \in Sessions |-> "free"]
    /\ holds = [s \in Sessions |-> NoKey]
    /\ waits = [s \in Sessions |-> NoKey]
    /\ writes = [s \in Sessions |-> EmptySet]
    /\ rows \in [Rows -> [uid : Keys, val : {0}]]
    /\ applied = [r \in Rows |-> 0]
    /\ commits = 0

-----------------------------------------------------------------------------
(* The server. *)

Attached(s) == \E p \in Callers : sess[p] = s

Free(k) == \A s \in Sessions : holds[s] # k

\* The transaction of session s is over: locks and row versions go.  A
\* session whose client is still attached keeps the result for it.
EndTransaction(s, result) ==
    /\ srv' = [srv EXCEPT ![s] = result]
    /\ holds' = [holds EXCEPT ![s] = NoKey]
    /\ waits' = [waits EXCEPT ![s] = NoKey]
    /\ writes' = [writes EXCEPT ![s] = EmptySet]

\* pg_advisory_xact_lock gets the lock; an orphan in the queue gets it too.
Grant(s) ==
    /\ srv[s] = "open" /\ waits[s] # NoKey
    /\ Free(waits[s])
    /\ holds' = [holds EXCEPT ![s] = waits[s]]
    /\ waits' = [waits EXCEPT ![s] = NoKey]
    /\ UNCHANGED <<client, srv, writes, rows, applied, commits>>

\* transaction_timeout, idle_in_transaction_session_timeout, a broken socket,
\* pg_terminate_backend: the server aborts the transaction on its own.
Kill(s) ==
    /\ srv[s] \in {"open", "failed"}
    /\ EndTransaction(s, IF Attached(s) THEN "dead" ELSE "free")
    /\ UNCHANGED <<client, rows, applied, commits>>

\* UPDATE ... SET <dirty columns> leaves the other columns as they are.
Updated(row, w) ==
    IF w = NoObj THEN row
    ELSE [uid |-> IF "uid" \in w.dirty THEN w.cur.uid ELSE row.uid,
          val |-> IF "val" \in w.dirty THEN w.cur.val ELSE row.val]

\* The increments of an UPDATE: what fn added to the value it read.
Increment(w) == IF w # NoObj /\ "val" \in w.dirty THEN w.cur.val - w.snap.val ELSE 0

\* COMMIT takes effect, whether or not somebody still waits for the answer.
ServerCommit(s) ==
    /\ srv[s] = "committing"
    /\ rows' = [r \in Rows |-> Updated(rows[r], writes[s][r])]
    /\ applied' = [r \in Rows |-> applied[r] + Increment(writes[s][r])]
    /\ commits' = commits + 1
    /\ EndTransaction(s, IF Attached(s) THEN "committed" ELSE "free")
    /\ UNCHANGED client

\* The server crashes or refuses the COMMIT: nothing takes effect.
ServerAbort(s) ==
    /\ srv[s] = "committing"
    /\ EndTransaction(s, IF Attached(s) THEN "dead" ELSE "free")
    /\ UNCHANGED <<client, rows, applied, commits>>

-----------------------------------------------------------------------------
(* Contexts: the budget runs out, or the caller's own ctx is cancelled. *)

ContextEnds(p, how) ==
    /\ pc[p] # "idle" /\ ctx[p] = "live"
    /\ ctx' = [ctx EXCEPT ![p] = how]
    /\ UNCHANGED <<server, pc, lock, err, conns, sess, objs, outcome, stats, calls>>

\* What a SQL statement on a context that is over fails with.
SqlError(p) == CASE ctx[p] = "live" -> "sql"
                 [] ctx[p] = "expired" -> "deadline"
                 [] ctx[p] = "cancelled" -> "cancelled"

-----------------------------------------------------------------------------
(* procedure() *)

\* failed(): which counter a call that did not commit goes to.  It is
\* evaluated after rollback() and the after-rollback hooks have run.
Classify(e, c) ==
    CASE e = "busy" -> "busy"
      [] e = "panic" -> "panicked"
      [] e \in {"deadline", "ownDeadline"} /\ c = "expired" -> "timedOut"
      [] OTHER -> "failed"

Count(o) == stats' = [stats EXCEPT ![o] = @ + 1]

\* The call is over and returns to its caller.
Return(p, o) ==
    /\ pc' = [pc EXCEPT ![p] = "idle"]
    /\ ctx' = [ctx EXCEPT ![p] = "live"]
    /\ err' = [err EXCEPT ![p] = "nil"]
    /\ outcome' = [outcome EXCEPT ![p] = o]

Call(p, l) ==
    /\ pc[p] = "idle" /\ calls < MaxCalls
    /\ pc' = [pc EXCEPT ![p] = "begin"]
    /\ lock' = [lock EXCEPT ![p] = l]
    /\ calls' = calls + 1
    /\ outcome' = [outcome EXCEPT ![p] = "none"]
    /\ UNCHANGED <<server, ctx, err, conns, sess, objs, stats>>

\* pool.BeginTx takes a connection; beginSQL opens the transaction.
Begin(p, s) ==
    /\ pc[p] = "begin" /\ ctx[p] = "live"
    /\ Cardinality(conns) < MaxConns
    /\ srv[s] = "free"
    /\ conns' = conns \cup {p}
    /\ sess' = [sess EXCEPT ![p] = s]
    /\ srv' = [srv EXCEPT ![s] = "open"]
    /\ pc' = [pc EXCEPT ![p] = "lock"]
    /\ UNCHANGED <<lock, ctx, err, objs, outcome, stats, calls,
                   holds, waits, writes, rows, applied, commits>>

\* Mutant of BeginFails: the error is returned without failed().
BeginFailsUncounted(p) ==
    /\ pc[p] = "begin"
    /\ Return(p, Classify(SqlError(p), ctx[p]))
    /\ UNCHANGED <<server, lock, conns, sess, objs, stats, calls>>

\* BeginTx fails: no connection in time, or BEGIN itself failed and pgxpool
\* took the connection back.  No transaction, no hooks.
BeginFails(p) ==
    /\ pc[p] = "begin"
    /\ Return(p, Classify(SqlError(p), ctx[p]))
    /\ Count(Classify(SqlError(p), ctx[p]))
    /\ UNCHANGED <<server, lock, conns, sess, objs, calls>>

\* From here on the call only unwinds.
Fail(p, e) ==
    /\ pc' = [pc EXCEPT ![p] = "rollback"]
    /\ err' = [err EXCEPT ![p] = e]

NoLock(p) ==
    /\ pc[p] = "lock" /\ lock[p].kind = "none"
    /\ pc' = [pc EXCEPT ![p] = "fn"]
    /\ UNCHANGED <<server, lock, ctx, err, conns, sess, objs, outcome, stats, calls>>

\* The lock statement is on its way: a try lock is answered at once, a
\* blocking one queues.
RequestLock(p) ==
    /\ pc[p] = "lock" /\ ctx[p] = "live"
    /\ sess[p] # NoSession /\ srv[sess[p]] = "open"
    /\ holds[sess[p]] = NoKey /\ waits[sess[p]] = NoKey
    /\ \/ /\ lock[p].kind = "block"
          /\ waits' = [waits EXCEPT ![sess[p]] = lock[p].key]
          /\ UNCHANGED <<holds, pc, err>>
       \/ /\ lock[p].kind = "try" /\ Free(lock[p].key)
          /\ holds' = [holds EXCEPT ![sess[p]] = lock[p].key]
          /\ UNCHANGED <<waits, pc, err>>
       \/ /\ lock[p].kind = "try" /\ ~Free(lock[p].key)
          /\ Fail(p, "busy")
          /\ UNCHANGED <<waits, holds>>
    /\ UNCHANGED <<lock, ctx, conns, sess, objs, outcome, stats, calls,
                   srv, writes, rows, applied, commits>>

LockAcquired(p) ==
    /\ pc[p] = "lock" /\ lock[p].kind # "none"
    /\ sess[p] # NoSession /\ srv[sess[p]] = "open"
    /\ holds[sess[p]] = lock[p].key
    /\ pc' = [pc EXCEPT ![p] = "fn"]
    /\ UNCHANGED <<server, lock, ctx, err, conns, sess, objs, outcome, stats, calls>>

\* lock_timeout: 55P03 aborts the transaction and means the same as a try
\* lock that is taken.
LockTimeout(p) ==
    /\ pc[p] = "lock" /\ sess[p] # NoSession
    /\ srv[sess[p]] = "open" /\ waits[sess[p]] # NoKey
    /\ srv' = [srv EXCEPT ![sess[p]] = "failed"]
    /\ waits' = [waits EXCEPT ![sess[p]] = NoKey]
    /\ Fail(p, "busy")
    /\ UNCHANGED <<lock, ctx, conns, sess, objs, outcome, stats, calls,
                   holds, writes, rows, applied, commits>>

\* The client loses its connection: the session of a dead transaction goes,
\* a live one becomes an orphan that keeps its locks until the server ends it.
Disconnect(p) ==
    /\ sess' = [sess EXCEPT ![p] = NoSession]
    /\ srv' = [srv EXCEPT ![sess[p]] = IF @ \in {"dead", "committed"} THEN "free" ELSE @]

\* The server refuses a statement: the transaction is in the failed state.
Refuse(p) ==
    /\ srv[sess[p]] \in {"open", "failed"}
    /\ srv' = [srv EXCEPT ![sess[p]] = "failed"]
    /\ waits' = [waits EXCEPT ![sess[p]] = NoKey]

\* A statement of the lock, of fn (generated code: abort) or of flush fails:
\* the server refuses it, or the connection goes with it, or it is not sent.
SqlFails(p) ==
    /\ pc[p] \in {"lock", "fn", "flush"}
    /\ Fail(p, SqlError(p))
    /\ \/ sess[p] # NoSession /\ Refuse(p) /\ UNCHANGED sess
       \/ sess[p] # NoSession /\ Disconnect(p) /\ UNCHANGED waits
       \/ /\ sess[p] = NoSession \/ ctx[p] # "live"
          /\ UNCHANGED <<sess, srv, waits>>
    /\ UNCHANGED <<lock, ctx, conns, objs, outcome, stats, calls,
                   holds, writes, rows, applied, commits>>

-----------------------------------------------------------------------------
(* fn and flush *)

\* Mutant of HoldsKey: any lock will do.
HoldsSomeLock(p, k) == lock[p].kind # "none" /\ k \in Keys

\* transaction.holds: only the bigint form counts.
HoldsKey(p, k) == lock[p].kind # "none" /\ lock[p].key \in Keys /\ lock[p].key = k

\* The transaction is in its body and the server agrees.
Working(p) ==
    pc[p] \in {"fn", "flush"} /\ sess[p] # NoSession /\ srv[sess[p]] = "open"

\* Mutant of Registered: no row is ever foreign.
RegisteredUnmarked(p, row) == [cur |-> row, snap |-> row, dirty |-> {}, foreign |-> FALSE]

\* AddCachedRecord: snapshot, and foreign unless this transaction took the lock
\* of the row.
Registered(p, row) == [cur |-> row, snap |-> row, dirty |-> {},
                       foreign |-> ~HoldsKey(p, row.uid)]

\* GetById on a row that is not in the working set yet.
Query(p, r) ==
    /\ pc[p] = "fn" /\ Working(p) /\ ctx[p] = "live"
    /\ objs[p][r] = NoObj
    /\ objs' = [objs EXCEPT ![p][r] = Registered(p, rows[r])]
    /\ UNCHANGED <<server, pc, lock, ctx, err, conns, sess, outcome, stats, calls>>

\* A setter: the entity with new fields and one more dirty column.
Edited(o, row, col) == [cur |-> row, snap |-> o.snap,
                        dirty |-> o.dirty \cup {col}, foreign |-> o.foreign]

\* o.SetVal(o.Val() + 1)
SetVal(p, r) ==
    /\ pc[p] = "fn" /\ objs[p][r] # NoObj /\ ~objs[p][r].foreign
    /\ objs[p][r].cur.val < MaxVal
    /\ LET o == objs[p][r]
       IN  objs' = [objs EXCEPT ![p][r] =
                        Edited(o, [uid |-> o.cur.uid, val |-> o.cur.val + 1], "val")]
    /\ UNCHANGED <<server, pc, lock, ctx, err, conns, sess, outcome, stats, calls>>

\* o.SetUid(k): the row goes to another owner.
SetUid(p, r, k) ==
    /\ pc[p] = "fn" /\ objs[p][r] # NoObj /\ ~objs[p][r].foreign
    /\ objs[p][r].cur.uid # k
    /\ LET o == objs[p][r]
       IN  objs' = [objs EXCEPT ![p][r] =
                        Edited(o, [uid |-> k, val |-> o.cur.val], "uid")]
    /\ UNCHANGED <<server, pc, lock, ctx, err, conns, sess, outcome, stats, calls>>

\* SQL that fn runs itself fails and fn ignores the error.
IgnoredSqlError(p) ==
    /\ pc[p] = "fn" /\ sess[p] # NoSession
    /\ \/ Refuse(p) /\ UNCHANGED sess
       \/ Disconnect(p) /\ UNCHANGED waits
    /\ UNCHANGED <<pc, lock, ctx, err, conns, objs, outcome, stats, calls,
                   holds, writes, rows, applied, commits>>

FnReturns(p) ==
    /\ pc[p] = "fn"
    /\ pc' = [pc EXCEPT ![p] = "flush"]
    /\ UNCHANGED <<server, lock, ctx, err, conns, sess, objs, outcome, stats, calls>>

\* Mutant of FnFails: nothing is deferred, so Goexit leaves without rollback.
FnFailsUndeferred(p, e) ==
    /\ pc[p] = "fn"
    /\ IF e = "goexit" THEN Return(p, "failed") /\ Count("failed")
                       ELSE Fail(p, e) /\ UNCHANGED <<ctx, outcome, stats>>
    /\ UNCHANGED <<server, lock, conns, sess, objs, calls>>

\* fn returns an error: its own, that of a context that is over, or that of a
\* shorter deadline it had set for itself; or it panics (a setter on a foreign
\* row does), or calls runtime.Goexit.
FnFails(p, e) ==
    /\ pc[p] = "fn"
    /\ e = "ctx" => ctx[p] # "live"
    /\ e = "ownDeadline" => ctx[p] = "live"
    /\ Fail(p, IF e = "ctx" THEN SqlError(p) ELSE e)
    /\ UNCHANGED <<server, lock, ctx, conns, sess, objs, outcome, stats, calls>>

Pending(p) == {r \in Rows : objs[p][r] # NoObj /\ objs[p][r].dirty # {}}

\* flush with nothing to write does not touch ctx or the connection.
FlushNothing(p) ==
    /\ pc[p] = "flush" /\ Pending(p) = {}
    /\ pc' = [pc EXCEPT ![p] = "commit"]
    /\ UNCHANGED <<server, lock, ctx, err, conns, sess, objs, outcome, stats, calls>>

FlushDone(o) == [cur |-> o.cur, snap |-> o.snap, dirty |-> {}, foreign |-> o.foreign]

\* The batch of UPDATEs succeeds; FlushDone clears the dirty columns.
Flush(p) ==
    /\ pc[p] = "flush" /\ ctx[p] = "live" /\ Pending(p) # {}
    /\ sess[p] # NoSession /\ srv[sess[p]] = "open"
    /\ writes' = [writes EXCEPT ![sess[p]] =
                      [r \in Rows |-> IF r \in Pending(p) THEN objs[p][r] ELSE NoObj]]
    /\ objs' = [objs EXCEPT ![p] =
                    [r \in Rows |-> IF r \in Pending(p) THEN FlushDone(objs[p][r])
                                                        ELSE objs[p][r]]]
    /\ pc' = [pc EXCEPT ![p] = "commit"]
    /\ UNCHANGED <<lock, ctx, err, conns, sess, outcome, stats, calls,
                   srv, holds, waits, rows, applied, commits>>

-----------------------------------------------------------------------------
(* commit and rollback *)

\* Mutant of SendCommit: the lock is given back before COMMIT.
UnlockThenCommit(p) ==
    /\ pc[p] = "commit" /\ sess[p] # NoSession /\ srv[sess[p]] = "open"
    /\ srv' = [srv EXCEPT ![sess[p]] = "committing"]
    /\ holds' = [holds EXCEPT ![sess[p]] = NoKey]
    /\ UNCHANGED <<client, waits, writes, rows, applied, commits>>

\* COMMIT is sent, without the budget.  A transaction in the failed state is
\* rolled back by it, and pgx reports ErrTxCommitRollback.
SendCommit(p) ==
    /\ pc[p] = "commit" /\ sess[p] # NoSession /\ srv[sess[p]] = "open"
    /\ srv' = [srv EXCEPT ![sess[p]] = "committing"]
    /\ UNCHANGED <<client, holds, waits, writes, rows, applied, commits>>

CommitRolledBack(p) ==
    /\ pc[p] = "commit" /\ sess[p] # NoSession /\ srv[sess[p]] = "failed"
    /\ EndTransaction(sess[p], "free")
    /\ sess' = [sess EXCEPT ![p] = NoSession]
    /\ Fail(p, "sql")
    /\ UNCHANGED <<lock, ctx, conns, objs, outcome, stats, calls, rows, applied, commits>>

\* The connection goes back to the pool and the working set is given up.
Detach(p) ==
    /\ conns' = conns \ {p}
    /\ sess' = [sess EXCEPT ![p] = NoSession]
    /\ objs' = [objs EXCEPT ![p] = EmptySet]

\* COMMIT succeeded for sure: count it, then run the after-commit hooks.
CommitDone(p) ==
    /\ pc[p] = "commit" /\ sess[p] # NoSession /\ srv[sess[p]] = "committed"
    /\ srv' = [srv EXCEPT ![sess[p]] = "free"]
    /\ Detach(p)
    /\ Count("committed")
    /\ outcome' = [outcome EXCEPT ![p] = "committed"]
    /\ pc' = [pc EXCEPT ![p] = "hooks"]
    /\ UNCHANGED <<lock, ctx, err, calls, holds, waits, writes, rows, applied, commits>>

\* Mutants of CommitUnknown: it is reported as a failure; it leaks the connection.
CommitUnknownIsFailure(p) ==
    /\ pc[p] = "commit"
    /\ IF sess[p] # NoSession THEN Disconnect(p) ELSE UNCHANGED <<sess, srv>>
    /\ Detach(p)
    /\ Count("failed")
    /\ Return(p, "failed")
    /\ UNCHANGED <<lock, calls, holds, waits, writes, rows, applied, commits>>

CommitUnknownLeaks(p) ==
    /\ pc[p] = "commit"
    /\ IF sess[p] # NoSession THEN Disconnect(p) ELSE UNCHANGED <<sess, srv>>
    /\ objs' = [objs EXCEPT ![p] = EmptySet]
    /\ Count("unknown")
    /\ Return(p, "unknown")
    /\ UNCHANGED <<lock, calls, conns, holds, waits, writes, rows, applied, commits>>

\* commitTimeout, a broken connection or any other error of COMMIT: neither
\* the memory is rolled back nor a hook run.  An undecided session lives on.
CommitUnknown(p) ==
    /\ pc[p] = "commit"
    /\ IF sess[p] # NoSession THEN Disconnect(p) ELSE UNCHANGED <<sess, srv>>
    /\ Detach(p)
    /\ Count("unknown")
    /\ Return(p, "unknown")
    /\ UNCHANGED <<lock, calls, holds, waits, writes, rows, applied, commits>>

\* Mutant of Rollback: the hooks, one of which opens a transaction, run first.
HooksThenRollback(p) ==
    /\ pc[p] = "rollback" /\ Cardinality(conns) < MaxConns
    /\ Detach(p)
    /\ pc' = [pc EXCEPT ![p] = "hooks"]
    /\ IF sess[p] # NoSession THEN EndTransaction(sess[p], "free")
                              ELSE UNCHANGED <<srv, holds, waits, writes>>
    /\ UNCHANGED <<lock, ctx, err, outcome, stats, calls, rows, applied, commits>>

\* rollback(): memory first, then ROLLBACK, which the server executes or
\* which is lost with its connection.  Then the after-rollback hooks.
Rollback(p) ==
    /\ pc[p] = "rollback"
    /\ Detach(p)
    /\ pc' = [pc EXCEPT ![p] = "hooks"]
    /\ \/ sess[p] # NoSession /\ EndTransaction(sess[p], "free")
       \/ /\ sess[p] # NoSession /\ srv[sess[p]] # "dead"
          /\ UNCHANGED <<srv, holds, waits, writes>>
       \/ sess[p] = NoSession /\ UNCHANGED <<srv, holds, waits, writes>>
    /\ UNCHANGED <<lock, ctx, err, outcome, stats, calls, rows, applied, commits>>

\* The hooks have run (one of them may open a transaction of its own, which
\* needs a connection of the pool), and procedure() returns.
HooksDone(p) ==
    /\ pc[p] = "hooks"
    /\ HooksUsePool => Cardinality(conns) < MaxConns
    /\ LET o == IF outcome[p] = "committed" THEN "committed" ELSE Classify(err[p], ctx[p])
       IN  /\ Return(p, o)
           /\ IF outcome[p] = "committed" THEN UNCHANGED stats ELSE Count(o)
    /\ UNCHANGED <<server, lock, conns, sess, objs, calls>>

-----------------------------------------------------------------------------

ServerStep(s) == Grant(s) \/ Kill(s) \/ ServerCommit(s) \/ ServerAbort(s)

FnStep(p) ==
    \/ \E r \in Rows : Query(p, r) \/ SetVal(p, r) \/ \E k \in Keys : SetUid(p, r, k)
    \/ IgnoredSqlError(p)
    \/ FnReturns(p)
    \/ \E e \in FnErrors : FnFails(p, e)

CallerStep(p) ==
    \/ \E l \in LockSpecs : Call(p, l)
    \/ \E how \in CtxEnds : ContextEnds(p, how)
    \/ \E s \in Sessions : Begin(p, s)
    \/ BeginFails(p)
    \/ NoLock(p) \/ RequestLock(p) \/ LockAcquired(p) \/ LockTimeout(p)
    \/ SqlFails(p)
    \/ FnStep(p)
    \/ FlushNothing(p) \/ Flush(p)
    \/ SendCommit(p) \/ CommitRolledBack(p) \/ CommitDone(p) \/ CommitUnknown(p)
    \/ Rollback(p) \/ HooksDone(p)

Next == (\E s \in Sessions : ServerStep(s)) \/ (\E p \in Callers : CallerStep(p))

Spec == Init /\ [][Next]_vars

\* Fairness.  The pool and the server's lock queue are first come, first
\* served; fn, the hooks and the server get on with what they have; COMMIT and
\* ROLLBACK are bounded by commitTimeout; the server notices orphans.
\* No budget, no cancellation and no lock_timeout is assumed to help.
Progress(p) ==
    /\ SF_vars(\E s \in Sessions : Begin(p, s))
    /\ WF_vars(NoLock(p) \/ RequestLock(p) \/ LockAcquired(p))
    /\ WF_vars(SqlFails(p) /\ (ctx[p] # "live" \/ sess[p] = NoSession \/ srv[sess[p]] # "open"))
    /\ WF_vars(BeginFails(p) /\ ctx[p] # "live")
    /\ WF_vars(FnReturns(p))
    /\ WF_vars(FlushNothing(p) \/ Flush(p))
    /\ WF_vars(SendCommit(p))
    /\ WF_vars(CommitRolledBack(p) \/ CommitDone(p) \/ CommitUnknown(p))
    /\ WF_vars(Rollback(p))
    /\ SF_vars(HooksDone(p))

Fairness ==
    /\ \A p \in Callers : Progress(p)
    /\ \A s \in Sessions :
          /\ SF_vars(Grant(s))
          /\ WF_vars(ServerCommit(s) \/ ServerAbort(s))
          /\ WF_vars(Kill(s) /\ ~Attached(s))

FairSpec == Spec /\ Fairness

-----------------------------------------------------------------------------
(* Properties *)

TypeOK ==
    /\ pc \in [Callers -> {"idle", "begin", "lock", "fn", "flush", "commit", "rollback", "hooks"}]
    /\ lock \in [Callers -> LockSpec]
    /\ ctx \in [Callers -> {"live", "expired", "cancelled"}]
    /\ err \in [Callers -> {"nil", "busy", "sql", "deadline", "cancelled", "app", "ownDeadline", "panic", "goexit"}]
    /\ conns \subseteq Callers
    /\ sess \in [Callers -> Sessions \cup {NoSession}]
    /\ objs \in [Callers -> [Rows -> Entity \cup {NoObj}]]
    /\ outcome \in [Callers -> Outcomes \cup {"none"}]
    /\ stats \in [Outcomes -> Nat]
    /\ calls \in Nat
    /\ srv \in [Sessions -> {"free", "dead", "committed"} \cup Live]
    /\ holds \in [Sessions -> Keys \cup PairKeys \cup {NoKey}]
    /\ waits \in [Sessions -> Keys \cup PairKeys \cup {NoKey}]
    /\ writes \in [Sessions -> [Rows -> Entity \cup {NoObj}]]
    /\ rows \in [Rows -> Row]
    /\ applied \in [Rows -> Nat]
    /\ commits \in Nat

\* No update is lost: the number in a row is the number of increments that
\* committed transactions made to it, although every transaction wrote an
\* absolute value computed from what it had read (transaction.go:71-77,
\* docs/design.md 2.8).
NoLostUpdate == \A r \in Rows : rows[r].val = applied[r]

\* What fn may change is what the table holds: as long as the transaction is
\* alive, a registered row that is not foreign was read under its lock and has
\* not moved in the table since (procedure.go:134-135).
WritableRowsAreCurrent ==
    \A p \in Callers, r \in Rows :
        Working(p) /\ objs[p][r] # NoObj /\ ~objs[p][r].foreign
            => /\ objs[p][r].snap = rows[r]
               /\ holds[sess[p]] = rows[r].uid

\* A session that still has row versions to commit holds the lock of every row
\* it will overwrite, even after its client has given up on it
\* (ErrCommitUnknown): a retry under the same lock waits for the verdict.
WritersHoldTheirLocks ==
    \A s \in Sessions, r \in Rows :
        writes[s][r] # NoObj => srv[s] \in Live /\ holds[s] = rows[r].uid

\* The inductive invariant behind the three properties above.

\* A session serves one caller, and a caller whose session is committing or
\* has committed is waiting in commit().
SessionInv ==
    /\ \A p, q \in Callers : sess[p] = sess[q] /\ sess[p] # NoSession => p = q
    /\ \A p \in Callers : sess[p] # NoSession => srv[sess[p]] # "free"
    /\ \A p \in Callers : sess[p] # NoSession /\ srv[sess[p]] \in {"committing", "committed"}
                              => pc[p] = "commit"

\* Advisory locks exclude, live as long as the transaction, and are held from
\* before fn starts.
LockInv ==
    /\ \A s, t \in Sessions : holds[s] = holds[t] /\ holds[s] # NoKey => s = t
    /\ \A s \in Sessions : holds[s] # NoKey => waits[s] = NoKey
    /\ \A s \in Sessions : srv[s] \notin Live => holds[s] = NoKey /\ waits[s] = NoKey
    /\ \A p \in Callers : Working(p) /\ lock[p].kind # "none"
                              => holds[sess[p]] = lock[p].key

\* Working sets: empty outside the transaction; a foreign row is never dirty; a
\* row that may be changed is the committed one and belongs to the lock.
ObjInv ==
    /\ \A p \in Callers : pc[p] \in {"idle", "begin", "lock", "hooks"} => objs[p] = EmptySet
    /\ \A p \in Callers, r \in Rows :
          objs[p][r] # NoObj =>
              /\ objs[p][r].cur.val >= objs[p][r].snap.val
              /\ objs[p][r].foreign => objs[p][r].dirty = {}
              /\ ~objs[p][r].foreign /\ Working(p)
                     => objs[p][r].snap = rows[r] /\ HoldsKey(p, rows[r].uid)

\* Row versions waiting for COMMIT start from the committed rows, whose lock
\* the session holds.
WriteInv ==
    \A s \in Sessions, r \in Rows :
        writes[s][r] # NoObj =>
            /\ srv[s] \in Live
            /\ writes[s][r].snap = rows[r]
            /\ holds[s] = rows[r].uid
            /\ writes[s][r].cur.val >= writes[s][r].snap.val

IInv == TypeOK /\ SessionInv /\ LockInv /\ ObjInv /\ WriteInv /\ NoLostUpdate

\* The counters bracket the truth: every transaction the server committed was
\* reported as committed, or is about to be, or was reported as unknown; none
\* was reported as rolled back (procedure.go:169-187).
Answered == {p \in Callers : sess[p] # NoSession /\ srv[sess[p]] = "committed"}

CommitsAreAccountedFor ==
    /\ stats["committed"] + Cardinality(Answered) <= commits
    /\ commits <= stats["committed"] + Cardinality(Answered) + stats["unknown"]

\* A call is counted exactly once, whichever way it leaves (dbpool.go:316).
Counted == stats["committed"] + stats["busy"] + stats["timedOut"]
           + stats["failed"] + stats["panicked"] + stats["unknown"]

NotYetCounted == {p \in Callers : pc[p] # "idle" /\ outcome[p] # "committed"}

CountedOnce == Counted + Cardinality(NotYetCounted) = calls

\* No connection leaks and none is shared: whoever is outside a transaction,
\* the hooks included, has returned its connection, and a session serves one
\* caller at a time.
ConnectionsAreReturned ==
    /\ conns = {p \in Callers : pc[p] \in {"lock", "fn", "flush", "commit", "rollback"}}
    /\ Cardinality(conns) <= MaxConns
    /\ \A p, q \in Callers : sess[p] = sess[q] /\ sess[p] # NoSession => p = q /\ p \in conns

\* Every call returns, and every advisory lock is released in the end, also
\* one that an orphaned session holds.
CallsReturn == \A p \in Callers : pc[p] = "begin" ~> pc[p] = "idle"

LocksAreReleased == \A s \in Sessions : holds[s] # NoKey ~> holds[s] = NoKey

\* The table behaves as docs/design.md 2.8 promises.
Table == INSTANCE LockedTable WITH
             Keys <- Keys, Rows <- Rows, MaxVal <- MaxVal, rows <- rows, applied <- applied

TableSpec == Table!Spec

=============================================================================
