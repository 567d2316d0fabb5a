------------------------------- MODULE Handle -------------------------------
(***************************************************************************)
(* The default handle of dbpool: Open, Close, Procedure and Query, called  *)
(* by goroutines at will, over an atomic pointer and the pools of pgx.     *)
(*                                                                         *)
(* Of Procedure and Query the module keeps what they do to pools: module   *)
(* Procedure has the rest.  Hooks run when the connection is back, and     *)
(* what they call is a further call of their goroutine.  Calls that are    *)
(* refused at once change nothing and are not actions: ErrAlreadyOpen,     *)
(* ErrNotOpen, Close without a handle.                                     *)
(***************************************************************************)
EXTENDS Naturals, FiniteSets

CONSTANTS
    Goroutines,
    Pools,    \* as many as New may build
    MaxConns, \* Config.MaxConns
    None

ASSUME MaxConnsAssumption == MaxConns \in Nat \ {0}
ASSUME NoneAssumption == None \notin Pools

VARIABLES
    active, \* the default handle, here the pool of its DB
    state,  \* of each pool
    pc,     \* where each goroutine is
    mine,   \* the pool that a goroutine has built, or has taken from active
    using,  \* the pool of the Procedure or Query that a goroutine is in
    conn    \* the pool that a goroutine has a connection of

vars == <<active, state, pc, mine, using, conn>>

Init ==
    /\ active = None
    /\ state = [p \in Pools |-> "unused"]
    /\ pc = [g \in Goroutines |-> "idle"]
    /\ mine = [g \in Goroutines |-> None]
    /\ using = [g \in Goroutines |-> None]
    /\ conn = [g \in Goroutines |-> None]

Goes(g, from, to) == pc[g] = from /\ pc' = [pc EXCEPT ![g] = to]

-----------------------------------------------------------------------------
(* Open *)

OpenCall(g) ==
    /\ Goes(g, "idle", "new") /\ active = None
    /\ UNCHANGED <<active, state, mine, using, conn>>

New(g) ==
    /\ Goes(g, "new", "install")
    /\ \E p \in Pools :
          /\ state[p] = "unused"
          /\ state' = [state EXCEPT ![p] = "open"]
          /\ mine' = [mine EXCEPT ![g] = p]
    /\ UNCHANGED <<active, using, conn>>

\* A configuration that poolConfig or pgx rejects.
NewFails(g) ==
    /\ Goes(g, "new", "idle")
    /\ UNCHANGED <<active, state, mine, using, conn>>

Installed(g) == active' = mine[g] /\ mine' = [mine EXCEPT ![g] = None]

\* Mutant of Install: Store instead of CompareAndSwap.
InstallAnyway(g) ==
    /\ Goes(g, "install", "idle")
    /\ Installed(g)
    /\ UNCHANGED <<state, using, conn>>

\* CompareAndSwap(nil, d)
Install(g) ==
    /\ Goes(g, "install", "idle") /\ active = None
    /\ Installed(g)
    /\ UNCHANGED <<state, using, conn>>

\* Mutant of InstallFails: the pool is dropped.
InstallFailsLeaking(g) ==
    /\ Goes(g, "install", "idle") /\ active # None
    /\ mine' = [mine EXCEPT ![g] = None]
    /\ UNCHANGED <<active, state, using, conn>>

InstallFails(g) ==
    /\ Goes(g, "install", "close") /\ active # None
    /\ UNCHANGED <<active, state, mine, using, conn>>

-----------------------------------------------------------------------------
(* Close *)

\* Swap(nil)
CloseCall(g) ==
    /\ Goes(g, "idle", "close") /\ active # None
    /\ mine' = [mine EXCEPT ![g] = active] /\ active' = None
    /\ UNCHANGED <<state, using, conn>>

Lent(p) == {g \in Goroutines : conn[g] = p}

\* pgxpool.Pool.Close refuses further connections and waits for those that are out.
BeginClose(g) ==
    /\ Goes(g, "close", "drain")
    /\ state' = [state EXCEPT ![mine[g]] = "closing"]
    /\ UNCHANGED <<active, mine, using, conn>>

\* Mutant of EndClose: it does not wait.
EndCloseAtOnce(g) ==
    /\ Goes(g, "drain", "idle")
    /\ state' = [state EXCEPT ![mine[g]] = "closed"]
    /\ mine' = [mine EXCEPT ![g] = None]
    /\ UNCHANGED <<active, using, conn>>

EndClose(g) ==
    /\ Goes(g, "drain", "idle") /\ Lent(mine[g]) = {}
    /\ state' = [state EXCEPT ![mine[g]] = "closed"]
    /\ mine' = [mine EXCEPT ![g] = None]
    /\ UNCHANGED <<active, using, conn>>

-----------------------------------------------------------------------------
(* Procedure and Query *)

ProcedureCall(g) ==
    /\ Goes(g, "idle", "begin") /\ active # None
    /\ using' = [using EXCEPT ![g] = active]
    /\ UNCHANGED <<active, state, mine, conn>>

QueryCall(g) ==
    /\ Goes(g, "idle", "query") /\ active # None
    /\ using' = [using EXCEPT ![g] = active]
    /\ UNCHANGED <<active, state, mine, conn>>

Acquire(g, from, to) ==
    /\ Goes(g, from, to)
    /\ state[using[g]] = "open" /\ Cardinality(Lent(using[g])) < MaxConns
    /\ conn' = [conn EXCEPT ![g] = using[g]]
    /\ UNCHANGED <<active, state, mine, using>>

Begin(g) == Acquire(g, "begin", "tx")

\* The callback of Query asks for a connection for each of its queries.
Ask(g) ==
    /\ Goes(g, "query", "wait")
    /\ UNCHANGED <<active, state, mine, using, conn>>

Read(g) == Acquire(g, "wait", "read")

\* Mutant of ReadDone: the connection of one query is kept for the next.
ReadDoneKeeping(g) ==
    /\ Goes(g, "read", "query")
    /\ UNCHANGED <<active, state, mine, using, conn>>

ReadDone(g) ==
    /\ Goes(g, "read", "query")
    /\ conn' = [conn EXCEPT ![g] = None]
    /\ UNCHANGED <<active, state, mine, using>>

CallReturns(g, from) ==
    /\ Goes(g, from, "idle")
    /\ using' = [using EXCEPT ![g] = None] /\ conn' = [conn EXCEPT ![g] = None]
    /\ UNCHANGED <<active, state, mine>>

\* The transaction is over, one way or the other.
ProcedureReturns(g) == CallReturns(g, "tx")

\* The callback returns or panics.
QueryReturns(g) == CallReturns(g, "query")

\* BeginTx or a query fails, because the pool has been closed meanwhile.
PoolClosed(g) ==
    /\ using[g] # None /\ state[using[g]] # "open"
    /\ CallReturns(g, "begin") \/ CallReturns(g, "wait")

\* The budget, or the caller's context, ends under a statement.
ContextEnds(g) == CallReturns(g, "begin") \/ CallReturns(g, "wait") \/ CallReturns(g, "read")

-----------------------------------------------------------------------------
OpenStep(g) == New(g) \/ NewFails(g) \/ Install(g) \/ InstallFails(g)
CloseStep(g) == BeginClose(g) \/ EndClose(g)

Step(g) ==
    \/ OpenCall(g) \/ OpenStep(g)
    \/ CloseCall(g) \/ CloseStep(g)
    \/ ProcedureCall(g) \/ Begin(g) \/ ProcedureReturns(g)
    \/ QueryCall(g) \/ Ask(g) \/ Read(g) \/ ReadDone(g) \/ QueryReturns(g)
    \/ PoolClosed(g) \/ ContextEnds(g)

Next == \E g \in Goroutines : Step(g)

Spec == Init /\ [][Next]_vars

\* Fairness: the steps of Open and Close are taken; a connection that is free
\* again and again is obtained (pgx serves its waiters in turn); fn and the
\* callback return.  No context ends to help.
FairSpec ==
    /\ Spec
    /\ \A g \in Goroutines :
          /\ WF_vars(OpenStep(g)) /\ WF_vars(CloseStep(g))
          /\ SF_vars(Begin(g) \/ Read(g)) /\ WF_vars(PoolClosed(g))
          /\ WF_vars(ProcedureReturns(g)) /\ WF_vars(ReadDone(g))
          /\ SF_vars(QueryReturns(g))

-----------------------------------------------------------------------------
(* Properties *)

Positions == {"idle", "new", "install", "close", "drain", "begin", "tx", "query", "wait", "read"}

TypeOK ==
    /\ active \in Pools \cup {None}
    /\ state \in [Pools -> {"unused", "open", "closing", "closed"}]
    /\ pc \in [Goroutines -> Positions]
    /\ mine \in [Goroutines -> Pools \cup {None}]
    /\ using \in [Goroutines -> Pools \cup {None}]
    /\ conn \in [Goroutines -> Pools \cup {None}]

\* A pool that is open or being closed is the default handle's, or in the hands
\* of the one goroutine that installs or closes it: no pool is lost or closed
\* twice when Open races Open or Close (dbpool.go:206-219, 253-257).
OnePoolOneOwner ==
    /\ \A p \in Pools : state[p] \in {"open", "closing"} =>
          p = active \/ \E g \in Goroutines : mine[g] = p
    /\ \A g \in Goroutines : mine[g] # None =>
          /\ mine[g] # active
          /\ state[mine[g]] = IF pc[g] = "drain" THEN "closing" ELSE "open"
          /\ \A h \in Goroutines \ {g} : mine[h] # mine[g]
    /\ active # None => state[active] = "open"

\* When Close has returned nobody has a connection of the pool that it closed,
\* whichever handle has been opened since; and a call that goes on with the pool
\* it began with gets no connection of it any more (dbpool.go:251-252).
ClosedPoolsAreUnused ==
    \A g \in Goroutines :
        /\ conn[g] # None => conn[g] = using[g] /\ state[conn[g]] \in {"open", "closing"}
        /\ using[g] # None => state[using[g]] # "unused"

\* What makes these two inductive: who has a pool at which position.
Positioned ==
    \A g \in Goroutines :
        /\ mine[g] # None <=> pc[g] \in {"install", "close", "drain"}
        /\ using[g] # None <=> pc[g] \in {"begin", "tx", "query", "wait", "read"}
        /\ conn[g] # None <=> pc[g] \in {"tx", "read"}

IInv == TypeOK /\ Positioned /\ OnePoolOneOwner /\ ClosedPoolsAreUnused

\* Open, Close, Procedure and Query return, even if the pool has one connection
\* and is closed and replaced meanwhile.  (An Open goes on only if New still can.)
EveryCallReturns ==
    \A g \in Goroutines : pc[g] # "idle" /\ pc[g] # "new" ~> pc[g] = "idle"

\* A pool that is not, or no more, the default handle's is closed in the end.
NoPoolLeaks ==
    \A p \in Pools : state[p] = "open" ~> active = p \/ state[p] = "closed"
=============================================================================
