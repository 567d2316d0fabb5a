--------------------------- MODULE TimeoutsProofs ---------------------------
(***************************************************************************)
(* What the timeouts guarantee for all configurations, budgets, deadlines  *)
(* and tick lengths, proved with TLAPS.                                    *)
(***************************************************************************)
EXTENDS Timeouts, TLAPS

\* Before the call: no time has passed, and nothing is sent.
BeforeCall == pc \in {"new", "call", "refused"} => srv = "none"

Early == pc \in {"new", "call"} => now = 0 /\ waited = 0

\* The configuration was accepted, and the context ends with the budget at the
\* latest.
Bounded ==
    /\ pc \notin {"new", "refused"} => Accepts(cfg)
    /\ pc \notin {"new", "call", "refused"} /\ cfg.transaction > 0 => ctx.deadline <= cfg.transaction
    /\ ctx.cause = "budget" => ctx.deadline = ctx.budget

\* Nobody waits for a statement beyond the context.
OnTime == pc \in SqlWaits => now <= ctx.deadline

\* The waits so far: under the context, and for COMMIT or ROLLBACK since it was
\* sent.
Waits ==
    /\ pc \notin EndWaits \cup {"report", "done"} => waited <= ctx.deadline
    /\ pc \in EndWaits => waited <= ctx.deadline + (now - sent)

\* A transaction is committed only while the call waits for it, or when the call
\* has said so or that it does not know.
Final ==
    /\ srv \in {"committing", "committed"} =>
          pc = "commit" \/ (pc = "done" /\ result \in {"committed", "unknown"})
    /\ result # "none" => pc = "done"

Inv == TypeOK /\ BeforeCall /\ Early /\ Bounded /\ OnTime /\ Waits /\ Final /\ TimeoutsAreOverBudget

-----------------------------------------------------------------------------
(* Lemmas *)

\* Rounding up to the millisecond never shortens a timeout, and makes none of it
\* "no limit" (buildBeginSQL).
LEMMA RoundedUp ==
    ASSUME NEW d \in Nat
    PROVE  Milliseconds(d) * PerMs >= d
<1>1. ASSUME NEW P \in Nat \ {0} PROVE ((d + P - 1) \div P) * P >= d
  <2> DEFINE x == d + P - 1
             k == x \div P
  <2>1. x \in Nat
    OBVIOUS
  <2>2. k \in Int /\ x = P * k + (x % P) /\ x % P \in 0 .. P - 1
    BY <2>1
  <2> HIDE DEF x, k
  <2>3. P * k >= d
    BY <2>1, <2>2 DEF x
  <2>4. P * k = k * P
    BY <2>2
  <2>5. QED BY <2>3, <2>4 DEF k, x
<1>2. QED BY <1>1, TimeAssumption DEF Milliseconds

-----------------------------------------------------------------------------
(* Invariance *)

LEMMA InitInv == Init => Inv
<1> USE TimeAssumption, ConfigAssumption DEF Forever
<1>1. Init => TypeOK
  <2>1. Init => Flags
    BY Zenon DEF Init, Flags
  <2>2. QED BY <2>1 DEF Init, TypeOK, SqlWaits, EndWaits, Statements
<1>2. Init => BeforeCall /\ Early /\ Bounded /\ OnTime /\ Waits /\ Final /\ TimeoutsAreOverBudget
  BY DEF Init, BeforeCall, Early, Bounded, OnTime, Waits, Final, TimeoutsAreOverBudget,
         SqlWaits, EndWaits, Statements
<1>3. QED BY <1>1, <1>2 DEF Inv

\* Every context that a budget makes ends with the budget at the latest, and its
\* cause is the budget only if it ends then (context.WithTimeoutCause).
LEMMA BudgetIsADeadline ==
    ASSUME NEW budget \in Int, NEW deadline \in 0 .. Forever, NEW c \in WithBudget(budget, deadline)
    PROVE  /\ c \in [budget : Nat, deadline : 0 .. Forever, cause : {"budget", "caller"}]
           /\ budget > 0 => c.deadline <= budget
           /\ c.cause = "budget" => c.deadline = c.budget
BY TimeAssumption DEF WithBudget, Lesser, Forever

\* The flags stay flags.
LEMMA NextFlags == Flags /\ [Next]_vars => Flags'
<1> SUFFICES ASSUME Flags, [Next]_vars PROVE Flags'
  OBVIOUS
<1> USE DEF Flags
<1>1. CASE Client
  <2> USE DEF Client, server, New, CallProcedure, CallQuery, Acquire, Send, Lock, SendStatement,
              NoLock, SendQuery, StartQuery, Flush, Answer, ServerError, GiveUp, DoNotSend, FnFails,
              NothingToFlush, SendCommit, Committed, CommitIsRollback, CommitUnknown, SendRollback,
              RolledBack, Report
  <2>1. locked' \in BOOLEAN
    BY <1>1, Zenon
  <2>2. conn' \in BOOLEAN
    BY <1>1, Zenon
  <2>3. flushed' \in BOOLEAN
    BY <1>1, Zenon
  <2>4. QED BY <2>1, <2>2, <2>3, Zenon
<1>2. CASE Server
  BY <1>2, Zenon DEF Server, client, SessionTimeout, StatementTimeout, Execute, ExecuteCommit, NoticeClientGone
<1>3. CASE Tick \/ UNCHANGED vars
  BY <1>3, Zenon DEF Tick, vars, client, server
<1>4. QED BY <1>1, <1>2, <1>3 DEF Next

LEMMA NextInv == Inv /\ [Next]_vars => Inv'
<1> SUFFICES ASSUME Inv, [Next]_vars PROVE Inv'
  OBVIOUS
<1>0. Flags'
  BY NextFlags DEF Inv, TypeOK
<1> USE <1>0, TimeAssumption, ConfigAssumption
    DEF Inv, TypeOK, BeforeCall, Early, Bounded, OnTime, Waits, Final, TimeoutsAreOverBudget,
        SqlWaits, EndWaits, Statements, CtxDone, Forever, client, server
<1>1. CASE New
  BY <1>1 DEF New
<1>2. ASSUME NEW t \in CallTimeouts, NEW d \in CallerDeadlines, CallProcedure(t, d) PROVE Inv'
  <2>1. pc = "call" /\ Accepts(cfg) /\ cfg.transaction \in Int /\ cfg.transaction >= 0
    BY <1>2 DEF CallProcedure, Accepts, Timers
  <2> DEFINE b == Earliest(cfg.transaction, t)
  <2>2. b \in Int /\ (cfg.transaction > 0 => b > 0 /\ b <= cfg.transaction)
    BY <2>1 DEF Earliest, Lesser
  <2>3. /\ ctx' \in [budget : Nat, deadline : 0 .. Forever, cause : {"budget", "caller"}]
        /\ b > 0 => ctx'.deadline <= b
        /\ ctx'.cause = "budget" => ctx'.deadline = ctx'.budget
    <3>1. ctx' \in WithBudget(b, d) /\ d \in 0 .. Forever
      BY <1>2 DEF CallProcedure
    <3> HIDE DEF b
    <3>2. QED BY <2>2, <3>1, BudgetIsADeadline
  <2>4. cfg.transaction > 0 => ctx'.deadline <= cfg.transaction
    <3> HIDE DEF b
    <3>1. QED BY <2>1, <2>2, <2>3
  <2>5. QED BY <1>2, <2>1, <2>3, <2>4 DEF CallProcedure
<1>3. ASSUME NEW d \in CallerDeadlines, CallQuery(d) PROVE Inv'
  <2>1. pc = "call" /\ Accepts(cfg) /\ cfg.transaction \in Int /\ ctx' \in WithBudget(cfg.transaction, d)
    BY <1>3 DEF CallQuery, Timers
  <2>2. /\ ctx' \in [budget : Nat, deadline : 0 .. Forever, cause : {"budget", "caller"}]
        /\ cfg.transaction > 0 => ctx'.deadline <= cfg.transaction
        /\ ctx'.cause = "budget" => ctx'.deadline = ctx'.budget
    BY <2>1, BudgetIsADeadline
  <2>3. QED BY <1>3, <2>1, <2>2 DEF CallQuery
<1>4. CASE Acquire
  BY <1>4 DEF Acquire, Send
<1>5. CASE Lock
  BY <1>5 DEF Lock, SendStatement, Send
<1>6. CASE NoLock
  BY <1>6 DEF NoLock
<1>7. CASE SendQuery
  BY <1>7 DEF SendQuery, SendStatement, Send
<1>8. CASE StartQuery
  BY <1>8 DEF StartQuery
<1>9. CASE Flush
  BY <1>9 DEF Flush, SendStatement, Send
<1>10. CASE Answer
  BY <1>10 DEF Answer
<1>11. CASE ServerError
  BY <1>11 DEF ServerError, FailOrIgnore, Fail
<1>12. CASE GiveUp
  BY <1>12 DEF GiveUp, FailOrIgnore, Fail
<1>13. CASE DoNotSend
  BY <1>13 DEF DoNotSend, FailOrIgnore, Fail
<1>14. CASE \E e \in {"app", "own"} : FnFails(e)
  BY <1>14 DEF FnFails, Fail
<1>15. CASE NothingToFlush
  BY <1>15 DEF NothingToFlush
<1>16. CASE SendCommit
  BY <1>16 DEF SendCommit
<1>17. CASE Committed
  BY <1>17 DEF Committed
<1>18. CASE CommitIsRollback
  BY <1>18 DEF CommitIsRollback
<1>19. CASE CommitUnknown
  BY <1>19 DEF CommitUnknown
<1>20. CASE SendRollback
  BY <1>20 DEF SendRollback
<1>21. CASE RolledBack
  BY <1>21 DEF RolledBack
<1>22. CASE Report
  BY <1>22 DEF Report, OverBudget
<1>23. ASSUME NEW timer \in Timers, SessionTimeout(timer) PROVE Inv'
  BY <1>23 DEF SessionTimeout, SessionTimerDue, InTransaction
<1>24. ASSUME NEW timer \in Timers, StatementTimeout(timer) PROVE Inv'
  BY <1>24 DEF StatementTimeout, StatementTimerDue, RowLockTimerDue, InTransaction
<1>25. CASE Execute
  BY <1>25 DEF Execute
<1>26. CASE ExecuteCommit
  BY <1>26 DEF ExecuteCommit
<1>27. CASE NoticeClientGone
  BY <1>27 DEF NoticeClientGone
<1>28. CASE Tick
  <2>1. /\ now < MaxTime /\ now' = now + 1
        /\ pc \notin {"new", "call", "send", "failed", "report"}
        /\ pc \in SqlWaits => now < ctx.deadline
        /\ waited' = IF pc \in SqlWaits \cup EndWaits THEN waited + 1 ELSE waited
        /\ UNCHANGED <<cfg, client, server>>
    BY <1>28 DEF Tick, Urgent
  <2>2. QED BY <2>1
<1>29. CASE UNCHANGED vars
  BY <1>29 DEF vars
<1>30. QED BY <1>1, <1>2, <1>3, <1>4, <1>5, <1>6, <1>7, <1>8, <1>9, <1>10, <1>11, <1>12, <1>13, <1>14, <1>15, <1>16, <1>17, <1>18, <1>19, <1>20, <1>21, <1>22, <1>23, <1>24, <1>25, <1>26, <1>27, <1>28, <1>29 DEF Next, Client, Server

THEOREM TimeoutsInvariance == Spec => []Inv
BY InitInv, NextInv, PTL DEF Spec

\* The type invariant.
THEOREM TimeoutsTypes == Spec => []TypeOK
<1>1. Inv => TypeOK
  BY DEF Inv
<1>2. QED BY <1>1, TimeoutsInvariance, PTL

\* A call that reports a failure is not committed, not even later, and ErrTimeout
\* is said only when the budget has run out.
THEOREM ReportsStayTrue == Spec => []ReportsAreTrue
<1>1. Inv => ReportsAreTrue
  BY DEF Inv, Final, FailuresAreFinal, ReportsAreTrue
<1>2. QED BY <1>1, TimeoutsInvariance, PTL

-----------------------------------------------------------------------------
(* Action properties *)

\* The server's budget strikes after the client's, and never under a statement
\* that the call waits for: Accepts keeps it above the budget, rounding does not
\* shorten it, and BEGIN is executed no earlier than the call starts.
THEOREM ServerStrikesLast == Spec => BudgetComesFirst
<1>1. Inv /\ [Next]_vars =>
        (killed' = "server" /\ killed = "none" /\ cfg.transaction > 0
            => now > cfg.transaction /\ pc \notin SqlWaits)
  <2> SUFFICES ASSUME Inv, Next, killed' = "server", killed = "none", cfg.transaction > 0
               PROVE  now > cfg.transaction /\ pc \notin SqlWaits
    BY DEF vars, server
  <2>1. SessionTimeout("server")
    <3>1. Client \/ Tick => killed' = killed
      BY DEF Client, Tick, server, New, CallProcedure, CallQuery, Acquire, Lock, SendStatement,
             NoLock, SendQuery, StartQuery, Flush, Answer, ServerError, GiveUp, DoNotSend, FnFails,
             NothingToFlush, SendCommit, Committed, CommitIsRollback, CommitUnknown, SendRollback,
             RolledBack, Report
    <3>2. Execute \/ ExecuteCommit \/ NoticeClientGone => killed' = killed
      BY DEF Execute, ExecuteCommit, NoticeClientGone
    <3>3. \A timer \in Timers : StatementTimeout(timer) => timer # "server" /\ killed' = timer
      BY DEF StatementTimeout, StatementTimerDue, RowLockTimerDue
    <3>4. \A timer \in Timers : SessionTimeout(timer) => killed' = timer
      BY DEF SessionTimeout
    <3>5. QED BY <3>1, <3>2, <3>3, <3>4 DEF Next, Server
  <2>2. /\ srv \in {"idle", "run"} /\ began # Forever
        /\ now >= began + ServerLimit("server")
    BY <2>1 DEF SessionTimeout, SessionTimerDue, InTransaction
  <2>3. /\ pc \notin {"new", "call", "refused"} /\ Accepts(cfg) /\ ctx.deadline <= cfg.transaction
        /\ began \in Nat /\ now \in 0 .. MaxTime
    BY <2>2, TimeAssumption DEF Inv, BeforeCall, Bounded, TypeOK, Forever
  <2>4. /\ cfg.server \in Int /\ cfg.transaction \in Int
        /\ cfg.server > 0 => cfg.server > cfg.transaction
    BY <2>3, ConfigAssumption DEF Inv, TypeOK, Accepts, Timers
  <2>5. ServerLimit("server") > cfg.transaction
    <3>1. CASE ServerLimit("server") = Forever
      BY <2>2, <2>3, <3>1, TimeAssumption DEF Forever
    <3>2. CASE ServerLimit("server") # Forever
      <4>1. cfg.server > 0 /\ ServerLimit("server") = Milliseconds(cfg.server) * PerMs
        BY <3>2 DEF ServerLimit
      <4>2. Milliseconds(cfg.server) * PerMs >= cfg.server
        BY <4>1, <2>4, RoundedUp
      <4>3. Milliseconds(cfg.server) * PerMs \in Int
        BY <4>1, <2>4, TimeAssumption DEF Milliseconds
      <4>4. QED BY <4>1, <4>2, <4>3, <2>4
    <3>3. QED BY <3>1, <3>2
  <2>6. now > cfg.transaction
    <3>1. ServerLimit("server") \in Int
      BY <2>4, TimeAssumption DEF ServerLimit, Milliseconds, Forever
    <3>2. QED BY <2>2, <2>3, <2>4, <2>5, <3>1
  <2>7. pc \notin SqlWaits
    <3>1. pc \in SqlWaits => now <= ctx.deadline
      BY DEF Inv, OnTime
    <3>2. ctx.deadline \in Int
      BY TimeAssumption DEF Inv, TypeOK, Forever
    <3>3. QED BY <2>3, <2>4, <2>6, <3>1, <3>2
  <2>8. QED BY <2>6, <2>7
<1>2. QED BY <1>1, TimeoutsInvariance, PTL DEF Spec, BudgetComesFirst

\* Updates that reach COMMIT were acknowledged before the context ended.
THEOREM WritesAreInTime == Spec => CommittedWritesAreInTime
<1>1. Inv /\ [Next]_vars => (flushed' /\ ~flushed => now <= ctx.deadline)
  <2> SUFFICES ASSUME Inv, [Next]_vars, flushed', ~flushed PROVE now <= ctx.deadline
    OBVIOUS
  <2>1. pc = "flush"
    BY Zenon DEF Next, Client, Server, Tick, vars, client, server, New, CallProcedure, CallQuery, Acquire,
       Lock, SendStatement, NoLock, SendQuery, StartQuery, Flush, Answer, ServerError, GiveUp, DoNotSend,
       FnFails, NothingToFlush, SendCommit, Committed, CommitIsRollback, CommitUnknown, SendRollback,
       RolledBack, Report, SessionTimeout, StatementTimeout, Execute, ExecuteCommit, NoticeClientGone
  <2>2. QED BY <2>1 DEF Inv, OnTime, SqlWaits, Statements
<1>2. QED BY <1>1, TimeoutsInvariance, PTL DEF Spec, CommittedWritesAreInTime

\* Only CommitUnknown calls an outcome unknown.
THEOREM CommitWaits == Spec => CommitIsGivenItsTime
<1>1. Inv /\ [Next]_vars =>
        (result' = "unknown" /\ result = "none" /\ conn /\ srv # "ended" => now - sent >= CommitTimeout)
  <2> SUFFICES ASSUME Inv, [Next]_vars, result' = "unknown", result = "none", conn, srv # "ended"
               PROVE  now - sent >= CommitTimeout
    OBVIOUS
  <2>1. CommitUnknown
    BY DEF Next, Client, Server, Tick, vars, client, server, New, CallProcedure, CallQuery, Acquire,
       Lock, SendStatement, NoLock, SendQuery, StartQuery, Flush, Answer, ServerError, GiveUp, DoNotSend,
       FnFails, NothingToFlush, SendCommit, Committed, CommitIsRollback, SendRollback,
       RolledBack, Report, SessionTimeout, StatementTimeout, Execute, ExecuteCommit, NoticeClientGone
  <2>2. pc = "commit" /\ now >= sent + CommitTimeout
    BY <2>1 DEF CommitUnknown, CommitDeadline
  <2>3. /\ cfg.commit \in Int /\ now \in Int /\ sent \in Int
        /\ CommitTimeout \in Int
    BY TimeAssumption, ConfigAssumption DEF Inv, TypeOK, CommitTimeout, Timers
  <2>4. QED BY <2>2, <2>3
<1>2. QED BY <1>1, TimeoutsInvariance, PTL DEF Spec, CommitIsGivenItsTime

\* A call waits for its context, and then for its COMMIT or ROLLBACK, and not for
\* anything longer.
THEOREM CallsWaitBriefly == Spec => WaitsAreBounded
<1>1. Inv /\ [Next]_vars =>
        (waited' > waited
            => waited < (IF pc \in EndWaits THEN CommitTimeout ELSE 0) + ctx.deadline)
  <2> SUFFICES ASSUME Inv, [Next]_vars, waited' > waited
               PROVE  waited < (IF pc \in EndWaits THEN CommitTimeout ELSE 0) + ctx.deadline
    OBVIOUS
  <2>0. /\ waited \in Int /\ now \in Int /\ sent \in Int /\ ctx.deadline \in Int
        /\ CommitTimeout \in Int /\ waited <= now
    BY TimeAssumption, ConfigAssumption DEF Inv, TypeOK, CommitTimeout, Timers, Forever
  <2>1. Tick
    <3>1. Client \/ Server => waited' = waited
      BY DEF Client, Server, New, CallProcedure, CallQuery, Acquire,
         Lock, SendStatement, NoLock, SendQuery, StartQuery, Flush, Answer, ServerError, GiveUp, DoNotSend,
         FnFails, NothingToFlush, SendCommit, Committed, CommitIsRollback, CommitUnknown, SendRollback,
         RolledBack, Report, SessionTimeout, StatementTimeout, Execute, ExecuteCommit, NoticeClientGone
    <3>2. QED BY <2>0, <3>1 DEF Next, vars
  <2>2. CASE pc \in EndWaits
    <3>1. now < sent + CommitTimeout
      BY <2>0, <2>1, <2>2 DEF Tick, Urgent, CommitDeadline
    <3>2. waited <= ctx.deadline + (now - sent)
      BY <2>2 DEF Inv, Waits
    <3>3. QED BY <2>0, <2>2, <3>1, <3>2
  <2>3. CASE pc \notin EndWaits
    <3>1. pc \in SqlWaits /\ now < ctx.deadline
      BY <2>0, <2>1, <2>3 DEF Tick, Urgent, CtxDone
    <3>2. QED BY <2>0, <2>3, <3>1
  <2>4. QED BY <2>2, <2>3
<1>2. QED BY <1>1, TimeoutsInvariance, PTL DEF Spec, WaitsAreBounded
-----------------------------------------------------------------------------
(* The lock *)

\* What the call is doing tells whether BEGIN has been executed; only a
\* transaction has the lock, and its timer has not struck yet.
LockInv ==
    /\ pc \in {"new", "call", "refused"} => kind = "Procedure" /\ stmt = "none"
    /\ pc = "acquire" /\ kind = "Procedure" => srv = "none"
    /\ pc \in {"new", "call", "refused", "acquire"} \/ kind = "Query" => began = Forever /\ ~locked
    /\ kind = "Query" => stmt \in {"none", "query"} /\ pc \notin {"begin", "begun"}
    /\ pc = "begin" => stmt = "begin" /\ (srv = "idle" => began # Forever)
    /\ pc = "begun" => srv # "run" /\ (srv = "idle" => began # Forever)
    /\ locked \/ (srv = "run" /\ stmt = "lock") =>
          began # Forever /\ srv \in {"run", "idle", "committing"}
    /\ InTransaction => now <= began + ServerLimit("server")

\* With a server budget the limit is that budget, rounded up to a millisecond,
\* and not "no limit" (buildBeginSQL).
LEMMA LimitIsRounded ==
    ASSUME NEW d \in Nat \ {0}
    PROVE  /\ Milliseconds(d) \in Nat \ {0}
           /\ Milliseconds(d) * PerMs < d + PerMs
<1>1. ASSUME NEW P \in Nat \ {0}
      PROVE  (d + P - 1) \div P \in Nat \ {0} /\ ((d + P - 1) \div P) * P < d + P
  <2> DEFINE x == d + P - 1
             k == x \div P
  <2>1. x \in Nat /\ x >= P
    OBVIOUS
  <2>2. k \in Int /\ x = P * k + (x % P) /\ x % P \in 0 .. P - 1
    BY <2>1
  <2> HIDE DEF x, k
  <2>3. k > 0
    <3>1. P * k > 0
      BY <2>1, <2>2
    <3>2. ASSUME k <= 0 PROVE P * k <= 0
      BY <2>2, <3>2
    <3>3. QED BY <2>2, <3>1, <3>2
  <2>4. P * k = k * P /\ P * k \in Int
    BY <2>2
  <2>5. P * k < d + P
    BY <2>1, <2>2, <2>4 DEF x
  <2>6. QED BY <2>2, <2>3, <2>4, <2>5 DEF k, x
<1>2. QED BY <1>1, TimeAssumption DEF Milliseconds

LEMMA LimitType ==
    ASSUME TypeOK
    PROVE  /\ ServerLimit("server") \in Nat
           /\ cfg.server > 0 => ServerLimit("server") < cfg.server + PerMs
<1>1. cfg.server \in Int
  BY ConfigAssumption DEF TypeOK, Timers
<1>2. CASE cfg.server > 0
  <2>1. Milliseconds(cfg.server) \in Nat \ {0} /\ Milliseconds(cfg.server) * PerMs < cfg.server + PerMs
    BY <1>1, <1>2, LimitIsRounded
  <2>2. ServerLimit("server") = Milliseconds(cfg.server) * PerMs
    BY <1>2, <2>1 DEF ServerLimit
  <2>3. Milliseconds(cfg.server) * PerMs \in Nat
    BY <2>1, TimeAssumption
  <2>4. QED BY <2>1, <2>2, <2>3
<1>3. CASE ~(cfg.server > 0)
  BY <1>3, TimeAssumption DEF ServerLimit, Forever
<1>4. QED BY <1>2, <1>3

LEMMA InitLockInv == Init => LockInv
BY TimeAssumption DEF Init, LockInv, InTransaction, Forever

LEMMA NextLockInv == Inv /\ LockInv /\ [Next]_vars => LockInv'
<1> SUFFICES ASSUME Inv, LockInv, [Next]_vars PROVE LockInv'
  OBVIOUS
<1>0. Flags' /\ ServerLimit("server") \in Nat
  BY NextFlags, LimitType DEF Inv, TypeOK
<1>a. ASSUME UNCHANGED cfg PROVE ServerLimit("server")' = ServerLimit("server")
  BY <1>a DEF ServerLimit
<1>b. now \in 0 .. MaxTime /\ MaxTime \in Nat /\ began \in 0 .. now \cup {Forever}
  BY TimeAssumption DEF Inv, TypeOK
<1> USE <1>0, <1>b DEF LockInv, InTransaction, Forever, server, client
<1>1. CASE New
  BY <1>1, <1>a DEF New
<1>2. ASSUME NEW t \in CallTimeouts, NEW d \in CallerDeadlines, CallProcedure(t, d) PROVE LockInv'
  BY <1>2, <1>a DEF CallProcedure, Inv, BeforeCall
<1>3. ASSUME NEW d \in CallerDeadlines, CallQuery(d) PROVE LockInv'
  BY <1>3, <1>a DEF CallQuery, Inv, BeforeCall
<1>4. CASE Acquire
  BY <1>4, <1>a DEF Acquire, Send, Inv, TypeOK, Flags
<1>5. CASE Lock
  BY <1>5, <1>a DEF Lock, SendStatement, Send
<1>6. CASE NoLock
  BY <1>6, <1>a DEF NoLock
<1>7. CASE SendQuery
  BY <1>7, <1>a DEF SendQuery, SendStatement, Send
<1>8. CASE StartQuery
  BY <1>8, <1>a DEF StartQuery
<1>9. CASE Flush
  BY <1>9, <1>a DEF Flush, SendStatement, Send
<1>10. CASE Answer
  BY <1>10, <1>a DEF Answer, Inv, TypeOK, Flags, Statements
<1>11. CASE ServerError
  BY <1>11, <1>a DEF ServerError, FailOrIgnore, Fail
<1>12. CASE GiveUp
  BY <1>12, <1>a DEF GiveUp, FailOrIgnore, Fail
<1>13. CASE DoNotSend
  BY <1>13, <1>a DEF DoNotSend, FailOrIgnore, Fail
<1>14. CASE \E e \in {"app", "own"} : FnFails(e)
  BY <1>14, <1>a DEF FnFails, Fail
<1>15. CASE NothingToFlush
  BY <1>15, <1>a DEF NothingToFlush
<1>16. CASE SendCommit
  BY <1>16, <1>a DEF SendCommit
<1>17. CASE Committed
  BY <1>17, <1>a DEF Committed
<1>18. CASE CommitIsRollback
  BY <1>18, <1>a DEF CommitIsRollback
<1>19. CASE CommitUnknown
  BY <1>19, <1>a DEF CommitUnknown
<1>20. CASE SendRollback
  BY <1>20, <1>a DEF SendRollback
<1>21. CASE RolledBack
  BY <1>21, <1>a DEF RolledBack
<1>22. CASE Report
  BY <1>22, <1>a DEF Report
<1>23. ASSUME NEW timer \in Timers, SessionTimeout(timer) PROVE LockInv'
  BY <1>23, <1>a DEF SessionTimeout, SessionTimerDue
<1>24. ASSUME NEW timer \in Timers, StatementTimeout(timer) PROVE LockInv'
  BY <1>24, <1>a DEF StatementTimeout, StatementTimerDue, RowLockTimerDue
<1>25. CASE Execute
  <2>1. /\ srv = "run" /\ srv' = "idle" /\ UNCHANGED <<now, pc, kind, stmt>>
        /\ began' = IF stmt = "begin" THEN now ELSE began
        /\ ServerLimit("server")' = ServerLimit("server")
    BY <1>25, <1>a DEF Execute
  <2>2. locked' => locked \/ stmt = "lock"
    BY <1>25, Zenon DEF Execute
  <2>3. locked' => began # Forever
    BY <2>1, <2>2, Zenon
  <2>4. InTransaction' => now' <= began' + ServerLimit("server")'
    BY <2>1
  <2>5. pc \in {"new", "call", "refused", "acquire"} \/ kind = "Query" => began' = Forever /\ ~locked'
    <3>1. ASSUME pc \in {"new", "call", "refused", "acquire"} \/ kind = "Query"
          PROVE  began = Forever /\ ~locked /\ stmt \in {"none", "query"}
      <4>1. began = Forever /\ ~locked
        BY <3>1, Zenon
      <4>2. stmt \in {"none", "query"}
        <5>1. kind \in {"Procedure", "Query"}
          BY DEF Inv, TypeOK
        <5>2. QED BY <2>1, <3>1, <5>1
      <4>3. QED BY <4>1, <4>2
    <3>2. stmt \in {"none", "query"} => stmt # "begin" /\ stmt # "lock"
      OBVIOUS
    <3>3. QED BY <2>1, <2>2, <3>1, <3>2, Zenon
  <2>6. QED BY <2>1, <2>3, <2>4, <2>5
<1>26. CASE ExecuteCommit
  BY <1>26, <1>a DEF ExecuteCommit
<1>27. CASE NoticeClientGone
  BY <1>27, <1>a DEF NoticeClientGone
<1>28. CASE Tick
  <2>1. /\ now < MaxTime /\ now' = now + 1 /\ UNCHANGED <<cfg, client, server>>
        /\ ~(InTransaction /\ now >= began + ServerLimit("server"))
    BY <1>28 DEF Tick, Urgent, SessionTimerDue, Timers
  <2>2. QED BY <2>1, <1>a
<1>29. CASE UNCHANGED vars
  BY <1>29, <1>a DEF vars
<1>30. QED BY <1>1, <1>2, <1>3, <1>4, <1>5, <1>6, <1>7, <1>8, <1>9, <1>10, <1>11, <1>12, <1>13, <1>14, <1>15, <1>16, <1>17, <1>18, <1>19, <1>20, <1>21, <1>22, <1>23, <1>24, <1>25, <1>26, <1>27, <1>28, <1>29 DEF Next, Client, Server

\* The server gives an advisory lock back within ServerTransactionTimeout,
\* whatever the client does: its timer counts from BEGIN, which came before the
\* lock, and runs until COMMIT is being executed.
THEOREM LocksStayBounded == Spec => []LocksAreBounded
<1>1. Inv /\ LockInv => LocksAreBounded
  <2> SUFFICES ASSUME Inv, LockInv, cfg.server > 0, locked, srv # "committing"
               PROVE  now - began < cfg.server + PerMs
    BY DEF LocksAreBounded
  <2>1. InTransaction
    BY DEF LockInv, InTransaction
  <2>2. now <= began + ServerLimit("server")
    BY <2>1 DEF LockInv
  <2>3. ServerLimit("server") \in Nat /\ ServerLimit("server") < cfg.server + PerMs
    BY LimitType DEF Inv
  <2>4. began \in Int /\ now \in Int /\ cfg.server \in Int /\ PerMs \in Int
    BY TimeAssumption, ConfigAssumption DEF Inv, TypeOK, Timers, Forever
  <2>5. QED BY <2>2, <2>3, <2>4
<1>2. QED BY <1>1, InitLockInv, NextLockInv, TimeoutsInvariance, PTL DEF Spec
=============================================================================
