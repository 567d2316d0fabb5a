------------------------------ MODULE Timeouts ------------------------------
(***************************************************************************)
(* The clocks of one call of Procedure or Query (dbpool.go, procedure.go): *)
(* the budget and the caller's own deadline on the client, the timeouts    *)
(* that BEGIN sets on the server, and the limit on COMMIT and ROLLBACK.    *)
(* Time is counted in ticks, PerMs of them to a millisecond, from the      *)
(* start of the call.  A timer acts at its tick: time does not go on       *)
(* before it has (Tick); but a query need not be waiting for a row lock    *)
(* when lock_timeout has passed.                                           *)
(***************************************************************************)
EXTENDS Integers

CONSTANTS
    Configs,         \* values of Config, valid ones and others
    CallTimeouts,    \* values of ProcedureOptions.Timeout
    CallerDeadlines, \* when the caller's own context ends; Forever: never
    PerMs,           \* ticks to a millisecond: time.Duration is finer than what the server takes
    DefaultCommitTimeout,
    MaxTime          \* bound: where the clock stops

ASSUME TimeAssumption == PerMs \in Nat \ {0} /\ DefaultCommitTimeout \in Nat \ {0} /\ MaxTime \in Nat

\* A time that the clock does not reach.
Forever == MaxTime + 1

Timers == {"transaction", "server", "statement", "idle", "lock", "commit"}

ASSUME ConfigAssumption ==
    /\ Configs \subseteq [Timers -> Int]
    /\ CallTimeouts \subseteq Int
    /\ CallerDeadlines \subseteq 0 .. Forever

VARIABLES
    cfg,     \* the Config given to New
    now,
    pc,      \* where the call is
    kind,    \* "Procedure" or "Query"
    ctx,     \* the context of the call: its budget, when it ends, and its cause then
    err,     \* the error the call is going to return
    result,
    sent,    \* when COMMIT or ROLLBACK was sent
    waited,  \* ticks spent waiting in dbpool, outside of fn
    flushed, \* whether updates were flushed, and the answer arrived in time
    conn,    \* whether the client has a connection to the session
    srv,     \* what the session is doing
    stmt,    \* the statement it was sent last
    since,   \* when it began to do that
    began,   \* when BEGIN was executed
    locked,  \* whether it holds the advisory lock
    killed   \* the server's timer that ended the statement or the session

client == <<pc, kind, ctx, err, result, sent, flushed, conn>>
server == <<srv, stmt, since, began, locked, killed>>
vars == <<cfg, now, waited, client, server>>

----------------------------------------------------------------------------
(* The configuration *)

\* Mutant of Accepts: a server timeout that equals the budget is accepted.
AcceptsEqual(c) ==
    /\ \A t \in Timers : c[t] >= 0
    /\ ~ (c.server > 0 /\ c.transaction > 0 /\ c.server < c.transaction)

\* poolConfig: what New refuses (the limits on connections aside).
Accepts(c) ==
    /\ \A t \in Timers : c[t] >= 0
    /\ ~ (c.server > 0 /\ c.transaction > 0 /\ c.server <= c.transaction)

\* Mutant of Milliseconds: rounded down.
MillisecondsDown(d) == d \div PerMs

\* buildBeginSQL sends whole milliseconds, and nothing at all for 0.  To
\* PostgreSQL 0 means no limit.
Milliseconds(d) == (d + PerMs - 1) \div PerMs

ServerLimit(timer) ==
    IF cfg[timer] > 0 /\ Milliseconds(cfg[timer]) > 0
    THEN Milliseconds(cfg[timer]) * PerMs ELSE Forever

CommitTimeout == IF cfg.commit = 0 THEN DefaultCommitTimeout ELSE cfg.commit

Lesser(a, b) == IF a <= b THEN a ELSE b

Earliest(a, b) == IF a <= 0 THEN b ELSE IF b <= 0 THEN a ELSE Lesser(a, b)

\* The contexts that WithTimeoutCause may make of the caller's: the earlier
\* deadline gives the cause, either one when they are equal.
WithBudget(budget, deadline) ==
    {[budget |-> b, deadline |-> Lesser(b, deadline), cause |-> c] :
        b \in {IF budget > 0 THEN budget ELSE Forever},
        c \in (IF budget > 0 /\ budget <= deadline THEN {"budget"} ELSE {})
              \cup (IF budget <= 0 \/ deadline <= budget THEN {"caller"} ELSE {})}

CtxDone == now >= ctx.deadline

----------------------------------------------------------------------------
(* The server (external) *)

Statements == {"begin", "lock", "query", "flush"}

\* Two of the four timers watch the transaction and its pauses, two watch a
\* statement.  A transaction that is being committed has none left.
InTransaction == srv \in {"idle", "run"} /\ began # Forever

SessionTimerDue(timer) ==
    \/ timer = "server" /\ InTransaction /\ now >= began + ServerLimit("server")
    \/ timer = "idle" /\ srv \in {"idle", "aborted"} /\ began # Forever /\ now >= since + ServerLimit("idle")

StatementTimerDue(timer) ==
    /\ srv = "run" /\ began # Forever
    /\ timer = "statement" \/ (timer = "lock" /\ stmt = "lock")
    /\ now >= since + ServerLimit(timer)

\* A query or a flush may wait for the lock of a row, some time after it was sent.
RowLockTimerDue(timer) ==
    /\ srv = "run" /\ began # Forever
    /\ timer = "lock" /\ stmt \in {"query", "flush"}
    /\ now >= since + ServerLimit("lock")

\* transaction_timeout and idle_in_transaction_session_timeout end the session.
SessionTimeout(timer) ==
    /\ SessionTimerDue(timer)
    /\ srv' = "ended"
    /\ killed' = IF killed = "none" THEN timer ELSE killed
    /\ locked' = FALSE
    /\ UNCHANGED <<cfg, now, waited, client, stmt, since, began>>

\* statement_timeout and lock_timeout abort the transaction.
StatementTimeout(timer) ==
    /\ StatementTimerDue(timer) \/ RowLockTimerDue(timer)
    /\ srv' = "aborted"
    /\ since' = now
    /\ killed' = timer
    /\ locked' = FALSE
    /\ UNCHANGED <<cfg, now, waited, client, stmt, began>>

\* The session has executed its statement.  The timers count from the SET
\* LOCAL that came with BEGIN.
Execute ==
    /\ srv = "run"
    /\ srv' = "idle"
    /\ since' = now
    /\ began' = IF stmt = "begin" THEN now ELSE began
    /\ locked' = (locked \/ stmt = "lock")
    /\ UNCHANGED <<cfg, now, waited, client, stmt, killed>>

ExecuteCommit ==
    /\ srv = "committing"
    /\ srv' = "committed"
    /\ locked' = FALSE
    /\ UNCHANGED <<cfg, now, waited, client, stmt, since, began, killed>>

\* A session notices at some time that its client has gone, but not during a
\* statement: pgx closes the connection and sends no CancelRequest.
NoticeClientGone ==
    /\ ~conn /\ srv \in {"idle", "aborted"}
    /\ srv' = "ended"
    /\ locked' = FALSE
    /\ UNCHANGED <<cfg, now, waited, client, stmt, since, began, killed>>

----------------------------------------------------------------------------
(* The client *)

\* Mutant of SqlWaits: the flush waits without the context.
SqlWaitsButFlush == {"acquire", "begin", "lock", "query"}

\* What the call waits for under its context, and for which it does not.
SqlWaits == {"acquire"} \cup Statements
EndWaits == {"commit", "rollback"}

New ==
    /\ pc = "new"
    /\ pc' = IF Accepts(cfg) THEN "call" ELSE "refused"
    /\ UNCHANGED <<cfg, now, waited, kind, ctx, err, result, sent, flushed, conn, server>>

\* Procedure: the budget is the earlier of Config's and the call's.
CallProcedure(timeout, deadline) ==
    /\ pc = "call"
    /\ kind' = "Procedure"
    /\ ctx' \in WithBudget(Earliest(cfg.transaction, timeout), deadline)
    /\ pc' = "acquire"
    /\ UNCHANGED <<cfg, now, waited, err, result, sent, flushed, conn, server>>

\* Query: the callback runs without a transaction.
CallQuery(deadline) ==
    /\ pc = "call"
    /\ kind' = "Query"
    /\ ctx' \in WithBudget(cfg.transaction, deadline)
    /\ pc' = "fn"
    /\ UNCHANGED <<cfg, now, waited, err, result, sent, flushed, conn, server>>

\* A statement goes out.
Send(statement) ==
    /\ pc' = statement
    /\ stmt' = statement
    /\ srv' = "run"
    /\ since' = now

\* pgxpool lends a connection: BEGIN goes out, or the query of Query.
Acquire ==
    /\ pc = "acquire"
    /\ Send(IF kind = "Query" THEN "query" ELSE "begin")
    /\ conn' = TRUE
    /\ UNCHANGED <<cfg, now, waited, kind, ctx, err, result, sent, flushed, began, locked, killed>>

\* fn, or Procedure for the lock and the flush, sends a statement.
SendStatement(from, statement) ==
    /\ pc = from
    /\ conn /\ srv = "idle" /\ ~CtxDone
    /\ Send(statement)
    /\ UNCHANGED <<cfg, now, waited, kind, ctx, err, result, sent, flushed, conn, began, locked, killed>>

Lock == SendStatement("begun", "lock")
SendQuery == kind = "Procedure" /\ SendStatement("fn", "query")
Flush == kind = "Procedure" /\ SendStatement("fn", "flush")

\* In a callback of Query each query takes a connection of its own.
StartQuery ==
    /\ pc = "fn" /\ kind = "Query" /\ ~CtxDone
    /\ pc' = "acquire"
    /\ UNCHANGED <<cfg, now, waited, kind, ctx, err, result, sent, flushed, conn, server>>

\* A call without lock.
NoLock ==
    /\ pc = "begun"
    /\ pc' = "fn"
    /\ UNCHANGED <<cfg, now, waited, kind, ctx, err, result, sent, flushed, conn, server>>

\* The answer to a statement.  A flush ends fn; COMMIT follows.
Answer ==
    /\ pc \in Statements
    /\ conn /\ srv = "idle"
    /\ pc' = CASE pc = "begin" -> "begun" [] pc = "flush" -> "send" [] OTHER -> "fn"
    /\ flushed' = (flushed \/ pc = "flush")
    /\ conn' = (kind = "Procedure")
    /\ srv' = IF kind = "Procedure" THEN srv ELSE "none"
    /\ UNCHANGED <<cfg, now, waited, kind, ctx, err, result, sent, stmt, since, began, locked, killed>>

\* What fails ends the call: a failed BEGIN and whatever fails in Query at
\* once, anything else through ROLLBACK.
Fail(e) ==
    /\ err' = e
    /\ pc' = IF kind = "Query" \/ pc \in {"acquire", "begin"} THEN "report" ELSE "failed"

\* fn need not mind that a statement of its own has failed.
FailOrIgnore(e) ==
    \/ Fail(e)
    \/ /\ pc \in {"fn", "query"} \/ (pc = "acquire" /\ kind = "Query")
       /\ pc' = "fn"
       /\ UNCHANGED err

\* A statement is cut off by the server, or its answer is that the session has
\* ended, or the connection was closed before it could be sent: pgx looks at
\* that first and at the context next.
ServerError ==
    /\ \/ pc \in Statements /\ conn /\ srv \in {"aborted", "ended"}
       \/ /\ pc \in {"begun", "fn"} /\ kind = "Procedure"
          /\ ~conn \/ (~CtxDone /\ srv \in {"aborted", "ended"})
    /\ FailOrIgnore(IF pc = "lock" /\ killed = "lock" THEN "busy" ELSE "server")
    /\ UNCHANGED <<cfg, now, waited, kind, ctx, result, sent, flushed, conn, server>>

\* The context ends: pgx closes the connection it waits on.
GiveUp ==
    /\ CtxDone
    /\ pc \in SqlWaits
    /\ FailOrIgnore("ctx")
    /\ conn' = FALSE
    /\ UNCHANGED <<cfg, now, waited, kind, ctx, result, sent, flushed, server>>

\* The context has ended before the statement is sent.
DoNotSend ==
    /\ CtxDone
    /\ pc \in {"begun", "fn"}
    /\ conn \/ kind = "Query"
    /\ FailOrIgnore("ctx")
    /\ UNCHANGED <<cfg, now, waited, kind, ctx, result, sent, flushed, conn, server>>

\* fn returns an error: one of its own, or that of a deadline of its own.
FnFails(e) ==
    /\ pc = "fn"
    /\ Fail(e)
    /\ UNCHANGED <<cfg, now, waited, kind, ctx, result, sent, flushed, conn, server>>

\* fn returns nil and there is nothing to flush; so does the callback of Query.
NothingToFlush ==
    /\ pc = "fn"
    /\ pc' = IF kind = "Query" THEN "report" ELSE "send"
    /\ UNCHANGED <<cfg, now, waited, kind, ctx, err, result, sent, flushed, conn, server>>

\* Mutant of CommitDeadline: COMMIT is bounded by the context, too.
CommitDeadlineOfCtx == Lesser(sent + CommitTimeout, ctx.deadline)

\* Mutant of CommitDeadline: nothing bounds COMMIT and ROLLBACK.
CommitDeadlineNever == Forever

\* commit and rollback wait without the context, but no longer than
\* CommitTimeout.
CommitDeadline == sent + CommitTimeout

SendCommit ==
    /\ pc = "send"
    /\ pc' = "commit"
    /\ sent' = now
    /\ srv' = IF conn /\ srv = "idle" THEN "committing" ELSE srv
    /\ UNCHANGED <<cfg, now, waited, kind, ctx, err, result, flushed, conn, stmt, since, began, locked, killed>>

Committed ==
    /\ pc = "commit" /\ conn /\ srv = "committed"
    /\ pc' = "done"
    /\ result' = "committed"
    /\ UNCHANGED <<cfg, now, waited, kind, ctx, err, sent, flushed, conn, server>>

\* PostgreSQL takes the COMMIT of an aborted transaction for a ROLLBACK.
CommitIsRollback ==
    /\ pc = "commit" /\ conn /\ srv = "aborted"
    /\ pc' = "report"
    /\ err' = "server"
    /\ srv' = "ended"
    /\ UNCHANGED <<cfg, now, waited, kind, ctx, result, sent, flushed, conn, stmt, since, began, locked, killed>>

\* Mutant of CommitUnknown: a COMMIT without answer is taken for a failure.
CommitFails ==
    /\ pc = "commit"
    /\ now >= CommitDeadline \/ ~conn \/ srv = "ended"
    /\ pc' = "report"
    /\ err' = "ctx"
    /\ conn' = FALSE
    /\ UNCHANGED <<cfg, now, waited, kind, ctx, result, sent, flushed, server>>

\* No answer: in time, or at all because the session has ended.
CommitUnknown ==
    /\ pc = "commit"
    /\ now >= CommitDeadline \/ ~conn \/ srv = "ended"
    /\ pc' = "done"
    /\ result' = "unknown"
    /\ conn' = FALSE
    /\ UNCHANGED <<cfg, now, waited, kind, ctx, err, sent, flushed, server>>

SendRollback ==
    /\ pc = "failed"
    /\ pc' = "rollback"
    /\ sent' = now
    /\ UNCHANGED <<cfg, now, waited, kind, ctx, err, result, flushed, conn, server>>

RolledBack ==
    /\ pc = "rollback"
    /\ pc' = "report"
    /\ \/ conn /\ srv # "ended" /\ srv' = "ended" /\ locked' = FALSE /\ UNCHANGED conn
       \/ (~conn \/ srv = "ended") /\ UNCHANGED <<srv, locked, conn>>
       \/ now >= CommitDeadline /\ conn' = FALSE /\ UNCHANGED <<srv, locked>>
    /\ UNCHANGED <<cfg, now, waited, kind, ctx, err, result, sent, flushed, stmt, since, began, killed>>

\* overBudget, as failed and Query ask it: when all this is over.
OverBudget == CtxDone /\ ctx.cause = "budget" /\ err \in {"ctx", "own"}

Report ==
    /\ pc = "report"
    /\ pc' = "done"
    /\ result' = IF err = "none" THEN "ok"
                 ELSE IF err = "busy" THEN "busy"
                 ELSE IF OverBudget THEN "timeout" ELSE "failed"
    /\ UNCHANGED <<cfg, now, waited, kind, ctx, err, sent, flushed, conn, server>>

----------------------------------------------------------------------------
(* Time *)

Urgent ==
    \/ pc \in {"new", "call", "begun", "send", "failed", "report"}
    \/ pc \in SqlWaits /\ CtxDone
    \/ pc \in EndWaits /\ now >= CommitDeadline
    \/ \E timer \in Timers : SessionTimerDue(timer) \/ StatementTimerDue(timer)

Tick ==
    /\ now < MaxTime /\ ~Urgent
    /\ now' = now + 1
    /\ waited' = IF pc \in SqlWaits \cup EndWaits THEN waited + 1 ELSE waited
    /\ UNCHANGED <<cfg, client, server>>

Init ==
    /\ cfg \in Configs
    /\ now = 0 /\ waited = 0
    /\ pc = "new" /\ kind = "Procedure"
    /\ ctx = [budget |-> Forever, deadline |-> Forever, cause |-> "caller"]
    /\ err = "none" /\ result = "none" /\ sent = 0
    /\ flushed = FALSE /\ conn = FALSE
    /\ srv = "none" /\ stmt = "none" /\ since = 0 /\ began = Forever
    /\ locked = FALSE /\ killed = "none"

Client ==
    \/ New
    \/ \E t \in CallTimeouts, d \in CallerDeadlines : CallProcedure(t, d)
    \/ \E d \in CallerDeadlines : CallQuery(d)
    \/ Acquire \/ Lock \/ NoLock \/ SendQuery \/ StartQuery \/ Flush \/ Answer
    \/ ServerError \/ GiveUp \/ DoNotSend
    \/ \E e \in {"app", "own"} : FnFails(e)
    \/ NothingToFlush
    \/ SendCommit \/ Committed \/ CommitIsRollback \/ CommitUnknown
    \/ SendRollback \/ RolledBack \/ Report

Server ==
    \/ \E timer \in Timers : SessionTimeout(timer) \/ StatementTimeout(timer)
    \/ Execute \/ ExecuteCommit \/ NoticeClientGone

Next == Client \/ Server \/ Tick

Spec == Init /\ [][Next]_vars

----------------------------------------------------------------------------
(* Properties *)

Flags == flushed \in BOOLEAN /\ conn \in BOOLEAN /\ locked \in BOOLEAN

TypeOK ==
    /\ Flags
    /\ cfg \in Configs /\ now \in 0 .. MaxTime /\ waited \in 0 .. now
    /\ pc \in SqlWaits \cup EndWaits
              \cup {"new", "refused", "call", "begun", "fn", "send", "failed", "report", "done"}
    /\ kind \in {"Procedure", "Query"}
    /\ ctx \in [budget : Nat, deadline : 0 .. Forever, cause : {"budget", "caller"}]
    /\ err \in {"none", "ctx", "own", "app", "server", "busy"}
    /\ result \in {"none", "ok", "committed", "unknown", "busy", "timeout", "failed"}
    /\ sent \in 0 .. now /\ since \in 0 .. now
    /\ srv \in {"none", "run", "idle", "aborted", "committing", "committed", "ended"}
    /\ stmt \in Statements \cup {"none"}
    /\ began \in 0 .. now \cup {Forever}
    /\ killed \in Timers \cup {"none"}

\* Whoever waits for a statement with a budget learns of the budget first:
\* transaction_timeout strikes only after the budget has run out, and never
\* under a statement that the call is waiting for (dbpool.go:75-77, 134; the
\* rounding at 243 must not bring the server forward).
BudgetComesFirst ==
    [][(killed' = "server" /\ killed = "none" /\ cfg.transaction > 0)
         => now > cfg.transaction /\ pc \notin SqlWaits]_vars

\* A call spends no more time in dbpool than the earlier of its budgets and
\* CommitTimeout together, whatever the server does (dbpool.go:71-81,
\* procedure.go:78-80, 192).
WaitsAreBounded ==
    [][waited' > waited =>
         waited < (IF pc \in EndWaits THEN CommitTimeout ELSE 0) + ctx.deadline]_vars

\* A timeout that is configured is never taken for "no limit" on the way to the
\* server: with ServerTransactionTimeout an advisory lock is given back within
\* that time, to the next millisecond, whether the client waits, works, or has
\* given up; unless the transaction is being committed (dbpool.go:75-76, 229).
LocksAreBounded ==
    cfg.server > 0 /\ locked /\ srv # "committing" => now - began < cfg.server + PerMs

\* What is committed was written in time: updates that reach COMMIT were
\* flushed, and acknowledged, before the budget ran out (dbpool.go:71-72).
CommittedWritesAreInTime ==
    [][flushed' /\ ~flushed => now <= ctx.deadline]_vars

\* A call that reports a failure, ErrTimeout or busy included, has not been
\* committed and never will be: it may be tried again (procedure.go:182-187).
FailuresAreFinal ==
    result \in {"timeout", "busy", "failed"} => srv \notin {"committing", "committed"}

\* The outcome of a COMMIT on a live session is called unknown only after the
\* whole of CommitTimeout: neither the budget nor the caller's deadline cuts it
\* short (procedure.go:190-194).
CommitIsGivenItsTime ==
    [][(result' = "unknown" /\ result = "none" /\ conn /\ srv # "ended")
         => now - sent >= CommitTimeout]_vars

\* ErrTimeout is said only of a budget that has run out, and not when it was the
\* caller's deadline that came first (dbpool.go:39-40, 301-302).
TimeoutsAreOverBudget ==
    result = "timeout" => ctx.budget # Forever /\ now >= ctx.budget

\* What a call reports is true: a failure is one for good, and a timeout is that
\* of its budget.
ReportsAreTrue == FailuresAreFinal /\ TimeoutsAreOverBudget

\* What dbpool.go:77 says of a ServerTransactionTimeout that is greater than
\* TransactionTimeout: the caller gets ErrTimeout first, not the loss of the
\* session (timeout_test.go:34-35).
CallerGetsErrTimeout ==
    killed = "server" /\ cfg.transaction > 0 => result # "unknown"
=============================================================================
