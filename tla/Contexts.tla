------------------------------ MODULE Contexts ------------------------------
(***************************************************************************)
(* One goroutine, the contexts it is given and keeps, and the boundaries   *)
(* it is inside of: fn of a Procedure, the callback of a Query, a hook.    *)
(* Several databases, each with a handle of its own.  What a panic, a SQL  *)
(* error (abort) or runtime.Goexit does on its way out is one step for     *)
(* each boundary it meets.                                                 *)
(*                                                                         *)
(* Refused calls (ErrNestedTransaction, ErrInTransaction) change nothing   *)
(* and are no actions.  A COMMIT has its outcomes; how it comes to them is *)
(* in Procedure.                                                           *)
(***************************************************************************)
EXTENDS Integers, Sequences, FiniteSets, SequencesExt

CONSTANTS
    DBs,       \* the databases, by Config.Name
    NoDB,
    MaxTxns,   \* bound: transactions
    MaxTasks,  \* bound: hooks registered
    MaxDepth   \* bound: boundaries inside of each other

ASSUME DBAssumption == NoDB \notin DBs
ASSUME BoundAssumption == MaxTxns \in Nat /\ MaxTasks \in Nat /\ MaxDepth \in Nat \ {0}

VARIABLES
    stack,     \* the boundaries, the outermost first
    txns,      \* the transactions opened so far
    held,      \* the contexts of transactions, which the program may keep after their end
    unwinding, \* what is on its way out: "none", "abort", "panic", "goexit"
    origin,    \* ghost: how many boundaries there were where the abort was raised, or 0
    tasks,     \* hooks registered so far: the number of the last one
    ran,       \* ran[t]: the hooks of t that were started, in this order
    counted,   \* calls of Procedure in the counters
    cut,       \* transactions whose hooks were cut short by Goexit
    dead       \* how the goroutine ended, if it has

vars == <<stack, txns, held, unwinding, origin, tasks, ran, counted, cut, dead>>

Txns == 1 .. Len(txns)

Statuses == {"live", "committed", "rolledBack", "unknown"}

\* What a context carries: a transaction (0: none) and the pool of a Query.
Ctx == [txn : 0 .. MaxTxns, pool : DBs \cup {NoDB}]

Background == [txn |-> 0, pool |-> NoDB]

\* A boundary: the code inside of it works for txn and was given ctx.  In
\* "hooks" runHooks is working through due, because of cause.
Frame(kind, ctx, txn, due, cause) ==
    [kind |-> kind, ctx |-> ctx, txn |-> txn, due |-> due, cause |-> cause]

Plain(kind, ctx) == Frame(kind, ctx, 0, <<>>, "none")

Top == stack[Len(stack)]
Below == SubSeq(stack, 1, Len(stack) - 1)
Push(frame) == Append(stack, frame)
Replace(frame) == Append(Below, frame)

\* Code of the program is running, with the contexts it may use: those of the
\* boundaries around it and those it has kept, also outside of all boundaries.
Running == dead = "no" /\ unwinding = "none" /\ Top.kind # "hooks"
Usable == held \cup {stack[i].ctx : i \in 1 .. Len(stack)}

Init ==
    /\ stack = <<Plain("main", Background)>>
    /\ txns = <<>>
    /\ held = {}
    /\ unwinding = "none"
    /\ origin = 0
    /\ tasks = 0
    /\ ran = <<>>
    /\ counted = 0
    /\ cut = {}
    /\ dead = "no"

----------------------------------------------------------------------------
(* Calls *)

InTransaction(c) == c.txn # 0

\* Mutant of WithoutTransaction: the hooks get the context of fn.
WithTransaction(ctx) == ctx

\* The context of the hooks: the caller's, before the transaction was put in.
WithoutTransaction(ctx) == [ctx EXCEPT !.txn = 0]

\* Procedure opens a transaction and calls fn with a context that carries it.
Procedure(db, c) ==
    /\ Running /\ ~InTransaction(c)
    /\ Len(txns) < MaxTxns /\ Len(stack) < MaxDepth
    /\ LET t == Len(txns) + 1
           ctx == [c EXCEPT !.txn = t]
       IN  /\ txns' = Append(txns, [db |-> db, status |-> "live", ended |-> 0,
                                     afterCommit |-> <<>>, afterRollback |-> <<>>])
           /\ ran' = Append(ran, <<>>)
           /\ stack' = Push(Frame("fn", ctx, t, <<>>, "none"))
           /\ held' = held \cup {ctx}
    /\ UNCHANGED <<unwinding, origin, tasks, counted, cut, dead>>

\* Query calls fn with a context that carries the pool.
Query(db, c) ==
    /\ Running /\ ~InTransaction(c) /\ Len(stack) < MaxDepth
    /\ stack' = Push(Plain("query", [c EXCEPT !.pool = db]))
    /\ UNCHANGED <<txns, held, unwinding, origin, tasks, ran, counted, cut, dead>>

Raise(what) ==
    /\ unwinding' = what
    /\ origin' = IF what = "abort" THEN Len(stack) ELSE 0
    /\ UNCHANGED <<stack, txns, held, tasks, ran, counted, cut, dead>>

\* AfterCommit and AfterRollback need a transaction in the context; they do
\* not ask whether it still goes on.
AfterCommit(c) ==
    /\ Running /\ c.txn # 0 /\ tasks < MaxTasks
    /\ tasks' = tasks + 1
    /\ txns' = [txns EXCEPT ![c.txn].afterCommit = Append(@, tasks + 1)]
    /\ UNCHANGED <<stack, held, unwinding, origin, ran, counted, cut, dead>>

AfterRollback(c) ==
    /\ Running /\ c.txn # 0 /\ tasks < MaxTasks
    /\ tasks' = tasks + 1
    /\ txns' = [txns EXCEPT ![c.txn].afterRollback = Append(@, tasks + 1)]
    /\ UNCHANGED <<stack, held, unwinding, origin, ran, counted, cut, dead>>

\* ReaderFromCtx: the transaction goes before the pool; no connection to db
\* means a panic.
Reader(c, db) ==
    IF InTransaction(c) THEN txns[c.txn].db = db ELSE c.pool = db

\* mustTransaction, ReaderFromCtx, SQLTxFromCtx: the wrong context.
Misuse(c, db) == Running /\ ~Reader(c, db) /\ Raise("panic")

\* A statement fails: QueryOne, QueryList and InsertReturning raise an abort.
\* Through the context of an ended transaction every statement does.
SqlFails(c, db) == Running /\ Reader(c, db) /\ Raise("abort")

\* The program panics, or a test ends itself.
Leave(what) == Running /\ Top.kind # "main" /\ Raise(what)

----------------------------------------------------------------------------
(* The end of a transaction *)

End(t, status) == [txns EXCEPT ![t].status = status, ![t].ended = tasks]

\* rollback: the hooks are those that were registered when runHooks was called.
RollBack(cause) ==
    /\ txns' = End(Top.txn, "rolledBack")
    /\ stack' = Replace(Frame("hooks", WithoutTransaction(Top.ctx), Top.txn,
                              txns[Top.txn].afterRollback, cause))

\* fn has failed, or PostgreSQL made a ROLLBACK of the COMMIT.
FnFails ==
    /\ Running /\ Top.kind = "fn"
    /\ RollBack("error")
    /\ UNCHANGED <<held, unwinding, origin, tasks, ran, counted, cut, dead>>

Commit ==
    /\ Running /\ Top.kind = "fn"
    /\ txns' = End(Top.txn, "committed")
    /\ counted' = counted + 1
    /\ stack' = Replace(Frame("hooks", WithoutTransaction(Top.ctx), Top.txn,
                              txns[Top.txn].afterCommit, "committed"))
    /\ UNCHANGED <<held, unwinding, origin, tasks, ran, cut, dead>>

\* No answer to COMMIT: no hooks at all.
CommitUnknown ==
    /\ Running /\ Top.kind = "fn"
    /\ txns' = End(Top.txn, "unknown")
    /\ counted' = counted + 1
    /\ stack' = Below
    /\ UNCHANGED <<held, unwinding, origin, tasks, ran, cut, dead>>

----------------------------------------------------------------------------
(* runHooks *)

RunHook ==
    /\ dead = "no" /\ unwinding = "none"
    /\ Top.kind = "hooks" /\ Top.due # <<>> /\ Len(stack) < MaxDepth
    /\ ran' = [ran EXCEPT ![Top.txn] = Append(@, Head(Top.due))]
    /\ stack' = Append(Replace([Top EXCEPT !.due = Tail(@)]), Plain("hook", Top.ctx))
    /\ UNCHANGED <<txns, held, unwinding, origin, tasks, counted, cut, dead>>

\* The callback of a Query, or a hook, returns.
Return ==
    /\ Running /\ Top.kind \in {"query", "hook"}
    /\ stack' = Below
    /\ UNCHANGED <<txns, held, unwinding, origin, tasks, ran, counted, cut, dead>>

\* After the last hook a failure is counted; a panic of fn or Goexit goes on.
HooksDone ==
    /\ dead = "no" /\ unwinding = "none"
    /\ Top.kind = "hooks" /\ Top.due = <<>>
    /\ counted' = IF Top.cause = "committed" THEN counted ELSE counted + 1
    /\ unwinding' = IF Top.cause \in {"panic", "goexit"} THEN Top.cause ELSE "none"
    /\ stack' = Below
    /\ UNCHANGED <<txns, held, origin, tasks, ran, cut, dead>>

----------------------------------------------------------------------------
(* The way out *)

\* Mutant of UnwindFn: Goexit, which leaves nothing to recover, is overlooked.
UnwindFnRecovered ==
    /\ unwinding # "none" /\ Top.kind = "fn"
    /\ IF unwinding = "goexit"
       THEN stack' = Below /\ UNCHANGED <<txns, unwinding>>
       ELSE RollBack(unwinding) /\ unwinding' = "none"
    /\ origin' = 0
    /\ UNCHANGED <<held, tasks, ran, counted, cut, dead>>

\* The deferred function of procedure().
UnwindFn ==
    /\ unwinding # "none" /\ Top.kind = "fn"
    /\ RollBack(unwinding)
    /\ unwinding' = "none" /\ origin' = 0
    /\ UNCHANGED <<held, tasks, ran, counted, cut, dead>>

\* Mutant of UnwindQuery: aborts are not recovered.
UnwindQueryThrough ==
    /\ unwinding # "none" /\ Top.kind = "query"
    /\ stack' = Below
    /\ UNCHANGED <<txns, held, unwinding, origin, tasks, ran, counted, cut, dead>>

\* The deferred function of Query recovers aborts only.
UnwindQuery ==
    /\ unwinding # "none" /\ Top.kind = "query"
    /\ stack' = Below
    /\ unwinding' = IF unwinding = "abort" THEN "none" ELSE unwinding
    /\ origin' = 0
    /\ UNCHANGED <<txns, held, tasks, ran, counted, cut, dead>>

\* Mutant of UnwindHook: the panic is recovered around the loop.
UnwindLoop ==
    /\ unwinding # "none" /\ Top.kind = "hook"
    /\ stack' = [Below EXCEPT ![Len(Below)].due = <<>>]
    /\ unwinding' = IF unwinding = "goexit" THEN "goexit" ELSE "none"
    /\ origin' = 0
    /\ UNCHANGED <<txns, held, tasks, ran, counted, cut, dead>>

\* runHooks recovers what a hook panics with.  Goexit cannot be recovered.
UnwindHook ==
    /\ unwinding # "none" /\ Top.kind = "hook"
    /\ stack' = Below
    /\ unwinding' = IF unwinding = "goexit" THEN "goexit" ELSE "none"
    /\ origin' = 0
    /\ UNCHANGED <<txns, held, tasks, ran, counted, cut, dead>>

\* Goexit passes runHooks: neither the rest of the hooks nor failed() are reached.
UnwindHooks ==
    /\ unwinding # "none" /\ Top.kind = "hooks"
    /\ stack' = Below
    /\ cut' = cut \cup {Top.txn}
    /\ UNCHANGED <<txns, held, unwinding, origin, tasks, ran, counted, dead>>

UnwindMain ==
    /\ unwinding # "none" /\ Top.kind = "main"
    /\ dead = "no"
    /\ dead' = unwinding
    /\ UNCHANGED <<stack, txns, held, unwinding, origin, tasks, ran, counted, cut>>

Next ==
    \/ \E c \in Usable, db \in DBs :
          Procedure(db, c) \/ Query(db, c) \/ Misuse(c, db) \/ SqlFails(c, db)
    \/ \E c \in Usable : AfterCommit(c) \/ AfterRollback(c)
    \/ \E what \in {"panic", "goexit"} : Leave(what)
    \/ FnFails \/ Commit \/ CommitUnknown
    \/ RunHook \/ Return \/ HooksDone
    \/ UnwindFn \/ UnwindQuery \/ UnwindHook \/ UnwindHooks \/ UnwindMain

Spec == Init /\ [][Next]_vars

----------------------------------------------------------------------------
(* Properties *)

Kinds == {"main", "fn", "query", "hooks", "hook"}

TypeOK ==
    /\ \A i \in 1 .. Len(stack) :
          /\ stack[i].kind \in Kinds
          /\ stack[i].ctx \in Ctx /\ stack[i].txn \in 0 .. Len(txns)
          /\ stack[i].cause \in {"none", "committed", "error", "abort", "panic", "goexit"}
    /\ stack # <<>> /\ stack[1].kind = "main"
    /\ \A t \in Txns : txns[t].db \in DBs /\ txns[t].status \in Statuses /\ txns[t].ended \in 0 .. tasks
    /\ held \subseteq Ctx
    /\ unwinding \in {"none", "abort", "panic", "goexit"} /\ origin \in 0 .. MaxDepth
    /\ dead \in {"no", "abort", "panic", "goexit"}
    /\ Len(ran) = Len(txns) /\ counted \in 0 .. Len(txns) /\ cut \subseteq Txns

FramesOf(t, kind) == {i \in 1 .. Len(stack) : stack[i].kind = kind /\ stack[i].txn = t}

\* No transaction is left open, and none is ended twice, whichever way the code
\* leaves its boundaries: those that are live are those whose fn is running
\* (procedure.go:138-156).
LiveTransactionsAreInProgress ==
    \A t \in Txns : (txns[t].status = "live") <=> (FramesOf(t, "fn") # {})

\* A context given to fn or to a hook is good for what it is given for: it
\* carries the transaction in progress or, in a hook, none, so that the hook may
\* open one (procedure.go:101, 125-126; context.go:171).
GivenContextsAreGood ==
    \A i \in 1 .. Len(stack) :
        stack[i].ctx.txn # 0 => stack[i].kind # "hook" /\ txns[stack[i].ctx.txn].status = "live"

HooksOf(t) ==
    CASE txns[t].status = "committed"  -> txns[t].afterCommit
      [] txns[t].status = "rolledBack" -> txns[t].afterRollback
      [] OTHER -> <<>>

\* Hooks belong to an outcome: those for COMMIT run only after a commit that is
\* certain, those for ROLLBACK only after a rollback, in the order in which they
\* were registered and once each; a commit that is unknown runs none.  None is
\* left out: when Procedure has returned, each hook registered before the outcome
\* has run, although others panicked, unless one called Goexit
\* (procedure.go:171-187, transaction.go:150-163).
HooksFollowTheOutcome ==
    \A t \in Txns :
        /\ IsPrefix(ran[t], HooksOf(t))
        /\ txns[t].status # "live" /\ FramesOf(t, "hooks") = {} /\ t \notin cut
             => \A i \in 1 .. Len(HooksOf(t)) :
                    i <= Len(ran[t]) <=> HooksOf(t)[i] <= txns[t].ended

\* An error of SQL goes no further than the innermost boundary around the
\* statement, whichever context the statement was given: Procedure and Query
\* return it, runHooks goes on with the next hook.  A goroutine dies of one only
\* outside of all boundaries, with a context that it has kept
\* (context.go:202-213, 230; transaction.go:150-163; procedure.go:138-156).
AbortsAreReturned == unwinding = "abort" => origin = Len(stack)

Uncounted ==
    {i \in 1 .. Len(stack) : stack[i].kind = "fn" \/ (stack[i].kind = "hooks" /\ stack[i].cause # "committed")}

\* Each call is counted once (dbpool.go:316), unless a hook called Goexit.
CountedUnlessCut == cut = {} => counted + Cardinality(Uncounted) = Len(txns)

\* What dbpool.go:316 says without exception.
EachCallIsCounted == stack = <<Plain("main", Background)>> => counted = Len(txns)
=============================================================================
