# A TLA+ model of pdbgen

pdbgen generates Go entities from `pdb.xml` and runs them on PostgreSQL: business
code changes plain objects inside `dbpool.Procedure`, and the runtime writes the
changed columns in one batch before COMMIT.  No row is locked by SQL; what keeps
two goroutines from overwriting each other is an advisory lock taken before the
first read.  This directory models that core, checks it with TLC on small
instances and proves its main safety results with TLAPS for all instances.

## The system

| part | code | state it keeps | operations | interacts with |
|---|---|---|---|---|
| transaction boundary | `dbpool/procedure.go`, `dbpool/dbpool.go` | position of each call, its context and error, pooled connections, counters | `Procedure`: BEGIN, lock, fn, flush, COMMIT, ROLLBACK, hooks | pool, server sessions, working set |
| working set | `dbpool/transaction.go`, `dbctx/context.go` | registered entities, snapshots, identity map, held lock | register, look up, flush, roll back, end | entities, queries of the generated code |
| generated entity | `gen/bean/template.go`, `ptable/*.pdb.go` | fields, loaded, deleted, detached, foreign, dirty | setters, Delete, FlushStmt, FlushDone, Detach, Insert | working set |
| budgets and timeouts | `dbpool/dbpool.go`, `dbpool/procedure.go` | the Config of a handle; the deadline of each call; the server's timers | poolConfig, buildBeginSQL, withBudget, commit, rollback, overBudget | boundary, PostgreSQL |
| contexts and hooks | `dbctx/context.go`, `dbpool/transaction.go`, `dbpool/procedure.go` | what a context carries; the hooks of a transaction | Procedure, Query, AfterCommit, AfterRollback, runHooks, abort | business code, generated code |
| default handle | `dbpool/dbpool.go` | an atomic pointer to the open DB | Open, Close, Query, ReadStats | pool |
| genddl | `gen/ddl/main.go` | none of its own; the database catalogue | inspect, generate; an operator applies the script | PostgreSQL |
| genbeans: checks and declarations | `gen/bean/main.go`, `gen/bean/output.go`, `gen/bean/template.go` | the errors and files so far | check tables, columns, indexes and names; generate | readxml, output directory |
| genbeans: output directory | `gen/bean/output.go` | the output directory | write, remove stale files | file system |
| readxml | `readxml/` | the errors so far | parse `pdb.xml`, look up beans, parse conditions, convert names | genddl, genbeans, dbpool |
| SQL log | `dbpool/logger.go` | the logger | wrap statements | boundary |
| example | `example/logic/redenvelope` | one row per user and activity | Get, refresh, Receive | entities, boundary |

What is hard here: goroutines, the sessions that serve them and sessions that
outlive them interleave freely; a COMMIT may be sent and never answered; the
context may end at any step but does not apply to COMMIT; fn may leave by a
return, an error, an abort (a panic of the generated code), a panic of its own
or `runtime.Goexit`; the program keeps its pointers to entities after the
transaction that they belong to.  What makes each part correct:

* boundary: an update made under the lock is never lost, a retry after an
  unanswered COMMIT included; every call is counted once and gives back its
  connection before hooks run; calls return and locks are released.
* working set and entity: one entity per row; what COMMIT makes permanent is
  what memory says; rollback restores what the transaction found; an entity of
  an ended transaction is never written; rows of other owners never change.
* budgets and timeouts: a call waits no longer than it is allowed; the client's
  budget strikes before the server's; the server gives the lock back in time;
  what the budget cuts off is not committed, and what is reported is true.
* contexts and hooks: whichever way code leaves its boundaries, a transaction
  ends once, its hooks follow its outcome, and a SQL error goes no further than
  the innermost boundary around its statement.
* default handle: one open pool at a time, none leaked, none used after Close
  has returned.
* genddl: an applied script makes the database conform (unless an index moves to
  another table), a failed one leaves it alone, a second run is empty.
* genbeans, checks: a document is refused exactly if it breaks a rule of
  docs/design.md, and the rules make the generated code fit together (except for
  its methods, see below); no attribute is passed over; a query looks at the
  unwritten changes of every column that it reads.
* genbeans, output: after an interrupted run the next one repairs the directory, and
  no hand-written file is touched that does not have the name of a generated one.

## Modules

| module | models |
|---|---|
| `LockedTable` | abstract: the table as a sequence of transactions of one owner each, in which no increment is lost (docs/design.md 2.8) |
| `Procedure` | `Procedure()` for several goroutines and the sessions of the server; implements `LockedTable` |
| `MCProcedure` | lock sets and symmetry for TLC |
| `ProcedureProofs` | theorems about `Procedure` |
| `Timeouts` | the clocks of one call: budgets and deadlines on the client, timers on the server |
| `MCTimeouts`, `TimeoutsProofs` | configurations for TLC; theorems |
| `Contexts` | one goroutine, its boundaries inside of each other, and what a panic, an abort or Goexit does to them |
| `MCContexts`, `ContextsProofs` | symmetry for TLC; theorems |
| `Entity` | the generated entity as operators on records |
| `WorkingSet` | one goroutine's heap, its transactions and the table under READ COMMITTED; uses `Entity` |
| `MCWorkingSet`, `WorkingSetProofs` | symmetry for TLC; theorems |
| `Handle` | the default handle: Open, Close, Procedure and Query over the atomic pointer and the pools |
| `MCHandle`, `HandleProofs` | the instance for TLC; theorems |
| `GenDdl` | genddl and the operators who run its scripts |
| `MCGenDdl`, `GenDdlProofs` | revisions of `pdb.xml` and databases for TLC; theorems |
| `Names` | the names of `pdb.xml` and their conversions |
| `ReadXml` | the parser: from elements to a schema or all errors; uses `Names` |
| `GenBeans` | a run of genbeans up to its output; uses `ReadXml` |
| `MCGenBeans`, `GenBeansProofs` | documents for TLC; theorems |
| `OutputDir` | genbeans and its output directory |
| `MCOutputDir`, `OutputDirProofs` | revisions for TLC; theorems |

### Procedure

Each goroutine `p` has `pc[p]`, the statement of `procedure()` it is at: `begin`
(BeginTx), `lock` (acquire), `fn`, `flush`, `commit`, `rollback`, `hooks`.  A
connection is out while `p \in conns`; `sess[p]` is the backend behind it.  When
the client closes a connection whose transaction is open, `sess[p]` becomes
`NoSession` and the backend lives on as an orphan with its lock and its row
versions, until the server commits, aborts or kills it.  `ctx[p]` is the context:
live, expired by the budget, or cancelled by the caller; statements look at it,
COMMIT does not (`procedure.go:194`).  The blocking lock is two steps, the
request and the grant, because others act between them and because a request may
be granted to a session that has lost its client.

Rows have the lock column `uid` and one number.  `fn` reads rows (`Query`),
increments the number (`SetVal`), gives the row to another owner (`SetUid`),
ignores a failing statement of its own (`IgnoredSqlError`), returns or fails.
An entity carries the snapshot of its registration; the mark `foreign` follows
`transaction.holds`, which accepts only the bigint form of the lock.  Statements
of `fn` that only read, and rows that are not found, change nothing and are
left out; INSERT and DELETE are modelled in `WorkingSet`, where the identity map
is.

The server is external: sessions, advisory transaction locks, aborted
transactions, COMMIT.  `Updated` is what `UPDATE ... SET <dirty columns>`
(`dbctx.UpdateStmt`) does to a row.  `applied` and `commits` are ghosts.

`Procedure` implements `LockedTable`: `Table == INSTANCE LockedTable WITH ...` maps
the committed rows and the ghost `applied` to the abstract table, and
`TableSpec == Table!Spec` is both a property of a run and a theorem.

### Timeouts

One call, from its start at tick 0; `PerMs` ticks are a millisecond, so that a
`time.Duration` may be finer than what `buildBeginSQL` sends.  `cfg` is the
Config; `New` refuses what `poolConfig` refuses.  `ctx` has the budget, the
deadline, which may be the caller's, and the cause.  `pc` is what the call waits
for or does, `srv` what its session does, `since` and `began` are the moments from
which the server's timers count.  `Tick` lets a tick pass unless something is due:
a step of `dbpool` that does not wait, the end of a wait, a timer of the server.
fn, the pool, the network and the server take any time.  A callback of Query takes
one connection for each query.  pgx closes a connection when the context ends
under a statement; the session notices only when its statement is over.
`waited` adds up the ticks spent inside of `dbpool`, `flushed` says that updates
have been acknowledged, `killed` which timer of the server struck: three ghosts.

Left out: several statements in one flush, which share one deadline; the
connection timeouts of pgxpool.

### Contexts

`stack` holds the boundaries that the goroutine is inside of: `fn` of Procedure,
the callback of Query (`query`), `runHooks` at work (`hooks`) and the hook it is
in (`hook`).  A context is what it carries: a transaction, and the pool of a
Query.  The program may use the contexts of all boundaries it is in, its own, and
those it has kept from transactions that have ended, outside of all boundaries as
well: there an abort kills the goroutine (`context.go:230`).
`unwinding` is a panic, an abort (`dbctx.Abort`, what the generated code panics
with) or Goexit on its way out, one boundary in each step; the ghost `origin` is the
depth at which an abort was raised.  Databases are told
apart by the transaction or pool that `ReaderFromCtx` finds for them.  COMMIT has
three outcomes here; how they come about is in `Procedure` and `Timeouts`.
Refused calls change nothing and are no actions.

### Entity and WorkingSet

`Entity` has one operator for each method of the template.  `WorkingSet` has a
heap of cells; a cell is what a Go pointer points to.  `Register` is
`AddCachedRecord` on a working set taken as a value, because `Insert` registers
twice.  `Read` is a query with all rows of its result: each row that has no entity
yet gets a cell of its own, in any order, and `Admitted` marks it if the row is
under another lock.  `batch` has the positions of the entities whose statement is
still to be executed; the lowest is next.  Queries see `View`: the committed row, or the
row this transaction has written.  Other transactions commit changes between any
two statements, except that with `lock="uid"` they leave the rows of the held
lock alone: `Procedure` shows that they do.  The flush executes statement by
statement and may fail at each, in which case `Rollback` restores the snapshots.
`entry` is a ghost: each entity as the program had it before the transaction.

A cell may be used again when its entity is not registered: the program has let
go of it.  An entity that was deleted and flushed may be used again only with
`ReuseDeleted`.

### Handle

`active` is the atomic pointer.  Each goroutine is `idle` or at a statement of the
call it is in: `new`, `install`, `close`, `drain` for Open and Close (an Open that
loses the CompareAndSwap closes the pool it has built, by the same steps as
Close), `begin` and `tx` for Procedure, `query`, `wait` and `read` for the
callback of Query and for each of its queries.  `using` is the handle a call has
loaded and keeps, whatever becomes of `active`.  pgxpool is external: it lends up
to `MaxConns` connections, refuses when closed, and its Close waits for what is
lent.  Calls that are refused at once (ErrAlreadyOpen, ErrNotOpen) change nothing
and are no actions.  A callback of Query that calls Procedure is not a case of its
own: between its queries it has no connection.  fn must not call Close, which
would wait for fn's own connection (`dbpool.go:251-252`).

### GenDdl

A run loads the current revision, reads the catalogue in the four queries of
`inspectDatabase`, each of which may see what another operator has committed since
the one before, and ends with a difference (`Refuse`), an error (`InspectFails`)
or a script.  A script is, for each table, what it adds; `Apply` runs it as one
transaction, if `Fails` finds no statement that PostgreSQL rejects, and
`NotApplied` stands for everything else: a failing statement, rows that violate a
new constraint, an operator who throws the script away.  The catalogue has
tables, columns with type, NULL, identity and default, and indexes with the name
space they share with primary keys.  What PostgreSQL does with a script is
external (`Executed`, `Fails`).

Left out: names longer than 63 bytes, unsupported types, missing beans and
malformed conditions, all of which end the run before anything is printed; START
and INCREMENT of an identity, which are never compared; table names that clash
with those of indexes; several schemas; manual changes to the catalogue after the
start.

### Names, ReadXml and GenBeans

A name is a sequence of words and underscores, of which a word may begin with a
capital: enough for `PascalCase`, `SnakeCase` and `LowerCamelCase`, and for two
names that some of them do not tell apart (`act_id`, `actId`).  `ReadXml` has one
operator for each rule of `parse.go`; an element is a record of tag, line,
attributes as written and children, and a value carries the kind it is written
in.  `GenBeans` runs through `LoadSchema`, `checkTables`, `generateTable` for each
table, `checkDeclarations` and the hand-over to `writeFiles`.  Generated code is
abstracted to what its names and its queries are: the declarations of the package,
the methods of entity and table, and for each query its parameters, conditions and
the dirty bits its guard looks at.  What the text of the methods does is `Entity`.

The checker collects errors, index after index, against what earlier indexes have
taken.  `KeepsTheRules` is the other side: the rules of docs/design.md 274-284, each
asked of every table, column, index or pair of them, without an order and without
the errors.  It goes short of the text in one point.  That no method is generated
twice (278, 284) is asked of the queries of a table among themselves only;
`MethodsAreDistinct` asks it of all methods, and the code does not keep it.

Left out: the decoder of XML (a document that is not well-formed gives one error
more), the ranges of numbers, the line numbers inside of messages, imports.  In
the code an error is a message; here it is a line and a kind.

### OutputDir

`dir` says of each name whether there is no file, a file without the header
(`Hand`), a generated text, another file that begins with the header (`Headed`),
or one cut before the end of its first line (`Headless`).  `todo` is the rest of
the loop at `pc`: names to write, later names to remove.  `os.WriteFile` is two
steps, `Truncate` and `Write`; `Stop` may end a run between any two steps and cut
the file that is being written.  The order of names in a loop is left open,
which covers the sorted one.  People edit, add and remove files at any time but
during `os.WriteFile`, under any name, and hand-written files may be there from the
start; one run works at a time.  `Truncate` asks for the content of a file and not
for its header, as the code does (`output.go:31-34`): a hand-written file under a name
that the revision generates is overwritten.  `HandWrittenIsKept` is about the other
names.

## What the runs check

| run | instance | shows |
|---|---|---|
| `procedure_rows` | 2 callers, 2 keys, a try-lock of two int32, calls without a lock, 2 rows, 2 sessions, 2 connections, failures of fn | no lost update, orphans keep their locks, counters bracket the commits, currency of writable rows, refinement of `LockedTable` |
| `procedure_progress` | 2 callers, pool of 1, budgets that run out, panics and Goexit in fn, hooks that open transactions | each call that ends is counted once and has given back its connection; calls return, locks are released |
| `timeouts_clocks` | 3 budgets, 5 server timeouts, the others off or short, calls with and without a timeout of their own, callers with and without a deadline | waits are bounded, the lock is given back in time, the budget strikes before the server, nothing late is committed, COMMIT has its time, reports are true |
| `contexts_hooks` | 2 databases, 2 transactions, 2 hooks, 4 boundaries inside of each other | transactions end once, contexts are good for what they are given for, hooks follow the outcome, aborts are stopped by the innermost boundary |
| `ws_owned` | lock column, 3 cells, 3 primary keys, 1 transaction | identity map, flush, predicate guard, ownership |
| `ws_shared` | no lock column, 2 cells, 2 transactions | entities kept between transactions, rollback |
| `handle_calls` | 3 goroutines, 3 pools of one connection | one owner per pool, closed pools unused, every call returns, no pool leaks |
| `genddl_race` | 2 operators, 4 revisions (one with a clash of names, one that redefines an index), 3 databases | scripts that run make the database conform, a second script is empty, a fresh script runs, the last revision is reached or refused |
| `genddl_moved` | 1 operator, 2 revisions | violated: an index that moves to another table is skipped |
| `genbeans_accepts` | 7 beans, 4 more, 11 tables, 18 more, in all combinations | a document is refused exactly if it breaks a rule, no attribute is passed over, guards cover predicates, each table has its file and its type and no declaration is repeated |
| `genbeans_methods` | the same documents | violated: methods of one type have one name |
| `output_runs` | 2 generated names, 1 other, 3 revisions, 3 mishaps | a run repairs, hand-written files under other names than it writes are kept, the directory comes to rest |

Six configurations more are kept for a reader to run by hand.  TLC finds the one
property of each violated, by something the code does; see below.

| configuration | property | because |
|---|---|---|
| `MCWorkingSet_reinsert.cfg` | `OneEntityPerRow` | an entity inserted again is entered under its old key |
| `MCGenDdl_nokey.cfg` | `FreshScriptsRun` | the script for a table without its key fails |
| `MCOutputDir_cut.cfg` | `NothingIsLeftOver` | an empty file is never removed |
| `MCOutputDir_taken.cfg` | `HandWrittenIsLeftAlone` | a hand-written file has the name of a generated one |
| `MCTimeouts_lost.cfg` | `CallerGetsErrTimeout` | the server ends a session before COMMIT has been executed |
| `MCContexts_counted.cfg` | `EachCallIsCounted` | a hook that calls Goexit |

Invariants that the runs would only repeat are left to the proofs (`IInv` of
`Procedure`, `Handle` and `OutputDir`, `ErrorsAreReportedTogether`, and the type
invariants of the modules with proofs), or can be added to the configuration of
their module, in which they hold: `CountedUnlessCut`.

Bounds.  `MaxCalls` bounds the calls of all callers together: 2, so that an unknown
COMMIT is followed by a call of the other caller or a retry of the same one.
`MaxVal` = 1 is enough to lose an increment.  Two rows and two keys let a row
change owner while the other owner works on the second row.  One connection is the
pool size at which hooks would wait for their own transaction.  Of the ways in which
a call can end, the runs have those that take a path of their own through
`procedure()`: an error of fn in `procedure_rows`, an expired budget, a panic and
Goexit in `procedure_progress`; a cancelled context and a deadline of fn's own take
the paths of the first two, and the theorems `CallsAreCountedOnce` and
`NoConnectionLeaks` are about all of them.  In `WorkingSet` two cells for one row are
enough for a duplicate, the third makes a list of two next to an inserted row; `MaxOthers` = 1
lets another transaction change, delete or insert a row between two statements;
`MaxTxns` = 2 lets an entity survive its transaction.  In `Handle` three
goroutines can be in Open, Close and a call at once, and a second pool is what
replaces the first; the third lets two Opens race while one is closed.  In
`GenDdl` two operators are enough for a script to meet the effect of another, two
tables for a name to clash, and three columns for a second one to be added.  In
`Timeouts` two ticks are a millisecond, so that an odd Duration must be rounded;
the budgets lie below, at and above a millisecond and the server's timeouts, and
the clock stops after the longest of them and `CommitTimeout` have passed.  In
`Contexts` four boundaries are a Procedure in a hook of a Procedure in a Query's
callback, or the like, and two hooks let one fail before the other.  In `GenBeans`
the mask has 3 bits instead of 64, so that a bean may have too many columns; each
bean and table is right or has one thing wrong or unusual, and only names relate
two of them.  In
`OutputDir` one file may be in disorder while the other is being written, and two
mishaps let a run that should repair be stopped itself.  Deadlock is not checked:
callers make a bounded number of calls and then stop, and a caller whose lock is
never granted waits, which `procedure_progress` covers.  In `Handle` an Open may
run out of pools to build; in `Timeouts` and `Contexts` the call or the goroutine
ends, or reaches a bound; a run of genbeans ends.

Fairness of `Procedure` (`Progress`, `Fairness`), used by `procedure_progress` only.  Strong
fairness for taking a connection and a lock: pgxpool's waiters and PostgreSQL's
lock queue are first come, first served.  Strong fairness for the hooks for the
same reason: one may wait for a connection.  Weak fairness for the steps of
`procedure()` itself and for fn and hooks, which are assumed to return.  COMMIT
and ROLLBACK are bounded by `commitTimeout` (`procedure.go:193-206`).  The server
answers a COMMIT, and ends a session without client (TCP keepalive,
`idle_in_transaction_session_timeout`, `transaction_timeout`).  No assumption is
made that a budget, a cancellation or `lock_timeout` ever ends a wait.

Fairness of `Handle` (`handle_calls`): strong for connections, as above; fn and the
callback of Query end, the callback after finitely many queries; the statements
of Open and Close are executed.  No context ends to help.  Of `GenDdl`
(`genddl_race`): as long as the database does not conform somebody starts a
run; of runs that are started again and again some get through, and of scripts
that would run some are run.  These are about people, not about the code: the
run shows that nothing in the code keeps them from the last revision without
saying so.  Of
`OutputDir` (`output_runs`): genbeans is run again and again, and a run that is
not stopped goes on.

## Where code and documentation disagree

* `genddl_moved`: existing indexes are looked up by table, but
  `CREATE INDEX IF NOT EXISTS` goes by name.  An index that moves to another table
  in `pdb.xml` is missing for ever, and no run says so.
* `genbeans_methods`: what does not compile is to be refused (`main_test.go:97`), and
  methods are not to be repeated (`design.md:284`).  A partial unique index with
  the method `All` gives a second `GetAll`, and a column `setUid` next to `uid` a second
  `SetUid`; `buildTableGen` compares the queries of a table with each other only
  (`main.go:430`), and `checkDeclarations` looks at the names of the package.

Met while modelling, with a configuration to run by hand:

* `MCWorkingSet_reinsert`: `Insert` is for objects that were never inserted, but
  accepts an entity whose row was deleted.  Its first registration enters it in
  the identity map under the old primary key.
* `MCGenDdl_nokey`: for a table without its auto-increment primary key the script
  adds the identity twice, and PostgreSQL rejects it.
* `MCOutputDir_cut`: a run that is stopped after `os.WriteFile` has truncated a
  file leaves it empty.  The next run repairs it, unless the table has been dropped
  from `pdb.xml`: without the header the file is taken for a hand-written one.
* `MCTimeouts_lost`: with ServerTransactionTimeout above TransactionTimeout the
  caller is to get ErrTimeout and not the loss of the session (`dbpool.go:77`,
  `timeout_test.go:34-35`).  A call whose fn uses no SQL near its end does not look
  at the budget; the server may then end the session while COMMIT is on its way,
  and the outcome is unknown.
* `MCContexts_counted`: each call is in exactly one counter (`dbpool.go:316`), but a
  hook of a rolled back call that calls `runtime.Goexit` leaves `runHooks`, and
  `failed` is not reached (`procedure.go:165-166`).
* `MCOutputDir_taken`: hand-written files are not to be touched (`main.go:6`,
  `output.go:24`, `design.md:270`).  `staleFiles` asks whether a file begins with the
  header (`output.go:64`); nobody asks before one is written (`output.go:29-36`), and
  what somebody has put at `pdb.pdb.go` or `<table>.pdb.go` is overwritten.

And in the models as the code has it, without a property:

* `Config.TransactionTimeout` (`dbpool.go:71-72`) promises ErrTimeout for a call
  over its budget.  The budget acts through SQL statements only: a call with
  nothing to flush (`transaction.go:107-109`) goes on to COMMIT and returns nil
  (`FlushNothing`, `SendCommit`, `NothingToFlush`).
* `overBudget` (`dbpool.go:301-302`) is meant to tell the budget's deadline from
  others, but is evaluated after ROLLBACK and the hooks (`procedure.go:165-166`),
  when the budget may have run out although fn failed on a shorter deadline of its
  own (`HooksDone`, `OverBudget`).
* "All entities are detached when the transaction ends" (`procedure.go:102`) leaves
  out those whose DELETE was flushed: `Detach` marks loaded ones only
  (`template.go:114-118`).
* `AfterCommit` and `AfterRollback` accept the context of a transaction that has
  ended (`context.go:172`); the hook never runs.
* `reservedNames` (`main.go:190-194`) leaves out the names of packages: the query of
  an index on a column `dbctx` has a parameter that hides the package it calls
  (`template.go:166-171`), and does not compile.  The names of packages are not in the
  model.
* Names: `SnakeCase` makes one column of `act_id` and `actId`, which genbeans
  refuses only because of their dirty bits; two indexes with the same conditions in
  another order count as different; of two beans of one name `FindBean` takes the
  first, and nobody says so.

## What is proved

`ProcedureProofs`, for all sets of callers, keys, rows and sessions and all
bounds, from the assumptions on the constants named in `Procedure`:

* `Invariance`: `Spec => []IInv`.
* `NoUpdateIsLost`, `BodiesSeeCurrentRows`, `OrphansKeepTheirLocks`,
  `TypeCorrect`: consequences of it.
* `Refinement`: `Spec => TableSpec`, that is, `Procedure` implements
  `LockedTable`.

`NoLostUpdate` is not inductive: that a COMMIT adds exactly the increments of its
transaction needs that the row version starts from the committed row
(`WriteInv`), which needs that the working set did when it was flushed
(`ObjInv`), which needs that nobody else committed the row in between.  That
follows because whoever does holds the lock of the row as it is in the table
(`WriteInv` again), locks exclude (`LockInv`), and a session belongs to one
caller (`SessionInv`), so that the lock the caller asked for is the lock of the
session that will write.  `IInv` is the conjunction; there is one lemma per
conjunct, each by cases on the actions of `Next`.

`HandleProofs`, for any number of goroutines and pools: `HandleInvariance`, with
`PoolsHaveOneOwner` and `ClosedPoolsStayUnused` as its consequences.  The
invariant is that of the runs; what makes it inductive is `Positioned`, which says
at which statements a goroutine has a pool or a connection.  The decisive steps
are Swap and CompareAndSwap: a pool passes from one owner to the next in a single
step.

`OutputDirProofs`, for any files, revisions and mishaps: `OutputInvariance`,
`RunsRepair`, `HandWrittenFilesAreKept`; the last leaves out the names that the
revision generates, as the code does not keep those.  `DealtWith` is the loop invariant of
`writeFiles`: what a run has dealt with is in order, what it has still to remove
is exactly what has the header and is not wanted, apart from what people have
touched meanwhile.

`TimeoutsProofs`, for all configurations, budgets, deadlines and tick lengths:
`TimeoutsInvariance` with `TimeoutsTypes` and `ReportsStayTrue`;
`ServerStrikesLast`, `WritesAreInTime`, `CommitWaits` and `CallsWaitBriefly`, the
four action properties of the run; and `LocksStayBounded`.  They need that a
Config that was accepted keeps the server's budget above the client's, that
rounding up neither shortens a timeout nor makes none of it (`RoundedUp`,
`LimitIsRounded`), and that a context ends with its budget at the latest
(`BudgetIsADeadline`); the invariant says that nobody waits beyond the context, and
by how much longer for COMMIT.  For the lock a second invariant (`LockInv`) follows
BEGIN from the client to the server: only a session that has executed it has the
lock, so that its timer is running.  Assumptions: `TimeAssumption`,
`ConfigAssumption`.

`GenBeansProofs`, for all finite documents (`DocumentsAssumption`) and any size of
the mask (`DirtyBitsAssumption`): `GenBeansInvariance` with `GenBeansTypes`,
`TableErrorsAreReported` (what is wrong with one table hides nothing that is wrong
with another) and `NothingIsPassedOver` (an accepted document has no attribute
that was not heeded).  The invariant is that of the loop over the tables: what was
generated so far without an error has a file, what was not has its errors in
`errs`, and what is written was read from a document without errors.
`WholeInvariance` and `WholeOutput` go on to the output: while there is no error the
tables agree with each other, so that no file replaces another in the loop and the
files are those of the tables before `next`; at the end there is one for each
table, each with a type of its own, and no name is declared twice.

The other four theorems look inside of a table.  `SnakeDeterminesPascal` is about
all names, word by word: those that are one column for PostgreSQL are one for Go,
and share their dirty bit.  `GuardsAreRight` rests on it: the queries of a table are
those of its indexes (`FoldedQueries`), the columns that a query reads are fields of
the entity (`SoundColumns`), and of an accepted schema no two fields have one bit,
because the bits are declarations of the package.  `ErrorsHaveReasons` says of
the loop that an error comes from a table before `next` or from all of them
together; with `TablesKeepTheRules`, that tables are checked and generated without an
error exactly if they keep the rules, it gives `RulesAreEnforced`.  The rules are
asked of all pairs of queries, the code compares an index with what those before it
have taken (`QueriesInOrder`, `IndexesKeepTheRules`).  That methods differ is no rule
and is not proved.  Loops
over indexes and over the words of a name are recursive functions and joined
sequences in the model.  `DocumentsAssumption` says that documents are finite and that
the names of their columns are names in the sense of `Names`.  Induction over both
is by the shortest counterexample, which needs no theorem with an operator for a
parameter.

`ContextsProofs`, for any number of contexts, hooks and boundaries: `Invariance`
with `EveryTransactionIsEnded`, `ContextsAreGood`, `AbortsNeverEscape` and
`HooksRunAsPromised`.  What makes it inductive is the order of the boundaries on
the stack: a transaction has one boundary, fn as long as it is live and its hooks
afterwards (`OwnerInv`); only fn is given a context with a transaction, its own
(`FrameInv`); an abort that is on its way out is at the boundary inside of which it
was raised, which stops it unless it is outside of all of them (`AbortInv`); and the hooks that ran, followed by those
that are due, are the hooks that were registered before the outcome (`RanInv`,
`DueInv`, `DoneInv`).

`GenDdlProofs`, for all revisions of `pdb.xml`, all databases to begin with and any
number of operators: `Invariance`, `ConformingDatabases`, `AppliedScripts` and
`FreshScripts`.  The invariant says of each run that the part of the catalogue it
has read is still in the database (`LagsBehind`), because scripts only add, and that
what the database has beyond it is as the revision wants it, if only scripts of
that revision have run since (`TablesAppeared`, `IndexesAppeared`).  `AppliedScriptsConform` has the hypothesis `NamesKeepTheirTable`,
because `CREATE INDEX IF NOT EXISTS` goes by name; `genddl_moved` violates it and
the property.  `FreshScriptsRun` has the hypothesis `TablesKeepTheirKey`, because
PostgreSQL rejects the script for a table that has lost its key or cannot generate
it; `MCGenDdl_nokey.cfg` violates it and the property.  Both hypotheses hold in
the instance of `genddl_race`, which TLC evaluates (`Hypotheses` in `MCGenDdl`).

`WorkingSetProofs`, for any number of cells, primary keys, transactions and
changes of others.  For every program: `Invariance`, `OneTransactionEach`, and
with `lock="uid"` `OwnRows`.  The invariant says that flush list, snapshots and
identity map are about the same entities (`ListInv`), that keys come from the
sequence (`KeyInv`), that what is foreign is not changed (`MarkInv`) and that the
row of every other entity is under the held lock or was inserted by this
transaction (`OwnInv`); others stay away from rows under the lock, so that they
cannot break it.  For programs that do not go on with entities they have deleted
(`~ReuseDeleted`; `MCWorkingSet_reinsert.cfg` shows what happens to the others):
`CarefulInvariance` with `OneEntityEach`, `MemoryReachesTheTable`,
`RollbacksRestore` and `ListsAreExact`.  `MemoryIsWritten` is about the moment of
COMMIT; what is inductive is `Written`: of each entity, the columns that are not
dirty and differ from what was read, or have to agree because of the lock, are in
the table already.  A flushed statement keeps it only because no second entity has
the row, which is why `OneEntityPerRow` is part of the same induction.

Also of `Procedure`: `NoConnectionLeaks`, `CallsAreCountedOnce` and
`CommitsAreReported`.  The counters add up because a call is in exactly one of the
states that have not been counted yet; that commits are bracketed needs, in
addition, that a session has at most one caller and that a caller who has sent
COMMIT waits for the answer of its own session.

Every safety property that a passing run checks is stated by a theorem.  Only
model-checked: liveness (`procedure_progress`, `handle_calls`, `genddl_race`,
`output_runs`), which is outside of the prover's reach, and that the constants of the
instances fulfil the hypotheses of the theorems that have some.

## Not modelled

* Handles other than the default one (`New`): each is a pool with one owner, its
  caller.
* Connections that pgxpool opens and closes on its own.
* The decoding of XML and `Config` from the attributes of `<pdb>`: they add no
  state, and a value that does not parse is an error in `ReadXml`.  The text that
  genbeans generates: what it does is `Entity`, what it is called is `GenBeans`.
* The SQL log, which has no effect on transactions.
* Several locks in one call: `LockSpec` has one key.
* Business SQL that goes around the entities (hand-written UPDATE in fn): outside
  of what lock="..." promises.
* The example (`example/logic/redenvelope`): business code on top of the
  boundary, whose reset compares dates.

## Plan

Done: `LockedTable`, `Procedure`, `Entity`, `WorkingSet`, `Handle`, `GenDdl`,
`OutputDir`, `Timeouts`, `Contexts`, `ReadXml` and `GenBeans`, in the order of what
the system depends on most, and the proofs listed above, which cover every safety
property of the runs.  Left, in this order:

1. An abstract specification of the working set, as a map from rows to values that
   is written back whole, and that `WorkingSet` implements it.
2. The example's daily reset on top of the boundary.
