---------------------------- MODULE HandleProofs ----------------------------
(***************************************************************************)
(* Theorems about Handle: the inductive invariant, for any number of       *)
(* goroutines and pools and any MaxConns.                                  *)
(***************************************************************************)
EXTENDS Handle, TLAPS

\* Nothing is open and nobody is in a call at the start.
LEMMA InitInvariant == Init => IInv
BY NoneAssumption
   DEF Init, IInv, TypeOK, Positioned, OnePoolOneOwner, ClosedPoolsAreUnused, Positions

\* Open: the pool is its goroutine's until it is installed or closed
\* (dbpool.go:206-219).
LEMMA OpenKeepsInvariant ==
    ASSUME IInv, NEW g \in Goroutines, OpenCall(g) \/ OpenStep(g)
    PROVE  IInv'
<1> USE NoneAssumption
        DEF IInv, TypeOK, Positioned, OnePoolOneOwner, ClosedPoolsAreUnused, Positions, Goes
<1>1. CASE OpenCall(g)
  BY <1>1 DEF OpenCall
<1>2. CASE New(g)
  <2> PICK p \in Pools : /\ state[p] = "unused"
                         /\ state' = [state EXCEPT ![p] = "open"]
                         /\ mine' = [mine EXCEPT ![g] = p]
    BY <1>2 DEF New
  <2>1. UNCHANGED <<active, using, conn>> /\ pc[g] = "new" /\ pc' = [pc EXCEPT ![g] = "install"]
    BY <1>2 DEF New
  <2>2. \A h \in Goroutines : mine[h] # p /\ using[h] # p /\ conn[h] # p
    OBVIOUS
  <2>3. active # p
    OBVIOUS
  <2>4. TypeOK' BY <2>1
  <2>5. Positioned' BY <2>1
  <2>6. OnePoolOneOwner' BY <2>1, <2>2, <2>3
  <2>7. ClosedPoolsAreUnused' BY <2>1, <2>2
  <2> QED BY <2>4, <2>5, <2>6, <2>7
<1>3. CASE NewFails(g)
  BY <1>3 DEF NewFails
<1>4. CASE Install(g)
  <2>1. TypeOK' BY <1>4 DEF Install, Installed
  <2>2. Positioned' BY <1>4 DEF Install, Installed
  <2>3. OnePoolOneOwner' BY <1>4 DEF Install, Installed
  <2>4. ClosedPoolsAreUnused' BY <1>4 DEF Install, Installed
  <2> QED BY <2>1, <2>2, <2>3, <2>4
<1>5. CASE InstallFails(g)
  BY <1>5 DEF InstallFails
<1> QED BY <1>1, <1>2, <1>3, <1>4, <1>5 DEF OpenStep

\* Close: whoever swaps the handle out closes its pool, once the connections
\* are back (dbpool.go:253-260).
LEMMA CloseKeepsInvariant ==
    ASSUME IInv, NEW g \in Goroutines, CloseCall(g) \/ CloseStep(g)
    PROVE  IInv'
<1> USE NoneAssumption
        DEF IInv, TypeOK, Positioned, OnePoolOneOwner, ClosedPoolsAreUnused, Positions, Goes
<1>1. CASE CloseCall(g)
  <2>1. TypeOK' BY <1>1 DEF CloseCall
  <2>2. Positioned' BY <1>1 DEF CloseCall
  <2>3. OnePoolOneOwner' BY <1>1 DEF CloseCall
  <2>4. ClosedPoolsAreUnused' BY <1>1 DEF CloseCall
  <2> QED BY <2>1, <2>2, <2>3, <2>4
<1>2. CASE BeginClose(g)
  <2>1. TypeOK' BY <1>2 DEF BeginClose
  <2>2. Positioned' BY <1>2 DEF BeginClose
  <2>3. OnePoolOneOwner' BY <1>2 DEF BeginClose
  <2>4. ClosedPoolsAreUnused' BY <1>2 DEF BeginClose
  <2> QED BY <2>1, <2>2, <2>3, <2>4
<1>3. CASE EndClose(g)
  <2>1. mine[g] \in Pools /\ \A h \in Goroutines : conn[h] # mine[g]
    BY <1>3 DEF EndClose, Lent
  <2>2. TypeOK' BY <1>3, <2>1 DEF EndClose
  <2>3. Positioned' BY <1>3 DEF EndClose
  <2>4. OnePoolOneOwner' BY <1>3, <2>1 DEF EndClose
  <2>5. ClosedPoolsAreUnused' BY <1>3, <2>1 DEF EndClose
  <2> QED BY <2>2, <2>3, <2>4, <2>5
<1> QED BY <1>1, <1>2, <1>3 DEF CloseStep

\* Procedure and Query leave pools and handle alone; what they hold is of the
\* pool that they began with (dbpool.go:268-299, procedure.go:103-131).
LEMMA CallsKeepInvariant ==
    ASSUME IInv, NEW g \in Goroutines,
           \/ ProcedureCall(g) \/ Begin(g) \/ ProcedureReturns(g)
           \/ QueryCall(g) \/ Ask(g) \/ Read(g) \/ ReadDone(g) \/ QueryReturns(g)
           \/ PoolClosed(g) \/ ContextEnds(g)
    PROVE  IInv'
<1> USE NoneAssumption
        DEF IInv, TypeOK, Positioned, OnePoolOneOwner, ClosedPoolsAreUnused, Positions, Goes
<1>1. CASE ProcedureCall(g) \/ QueryCall(g)
  BY <1>1 DEF ProcedureCall, QueryCall
<1>2. CASE Begin(g) \/ Read(g)
  BY <1>2 DEF Begin, Read, Acquire
<1>3. CASE Ask(g)
  BY <1>3 DEF Ask
<1>4. CASE ReadDone(g)
  BY <1>4 DEF ReadDone
<1>5. CASE \E from \in {"begin", "tx", "query", "wait", "read"} : CallReturns(g, from)
  <2> PICK from \in {"begin", "tx", "query", "wait", "read"} : CallReturns(g, from)
    BY <1>5
  <2> USE DEF CallReturns
  <2>1. TypeOK' OBVIOUS
  <2>2. Positioned' OBVIOUS
  <2>3. OnePoolOneOwner' OBVIOUS
  <2>4. ClosedPoolsAreUnused' OBVIOUS
  <2> QED BY <2>1, <2>2, <2>3, <2>4
<1> QED
  BY <1>1, <1>2, <1>3, <1>4, <1>5 DEF ProcedureReturns, QueryReturns, PoolClosed, ContextEnds

\* The handle, the pools and the connections stay consistent however Open, Close,
\* Procedure and Query interleave (dbpool.go:182-299).
THEOREM HandleInvariance == Spec => []IInv
<1>1. IInv /\ [Next]_vars => IInv'
  <2> SUFFICES ASSUME IInv, [Next]_vars PROVE IInv'
    OBVIOUS
  <2>1. CASE UNCHANGED vars
    BY <2>1 DEF vars, IInv, TypeOK, Positioned, OnePoolOneOwner, ClosedPoolsAreUnused
  <2>2. CASE Next
    <3> PICK g \in Goroutines : Step(g)
      BY <2>2 DEF Next
    <3> QED
      BY OpenKeepsInvariant, CloseKeepsInvariant, CallsKeepInvariant DEF Step
  <2> QED BY <2>1, <2>2
<1> QED BY InitInvariant, <1>1, PTL DEF Spec

\* No pool is lost, and none has two owners, for any number of goroutines that
\* race Open and Close (dbpool.go:206-219, 253-257).
THEOREM PoolsHaveOneOwner == Spec => []OnePoolOneOwner
<1>1. IInv => OnePoolOneOwner
  BY DEF IInv
<1> QED BY HandleInvariance, <1>1, PTL

\* Nobody has a connection of a pool that Close has closed (dbpool.go:251-252).
THEOREM ClosedPoolsStayUnused == Spec => []ClosedPoolsAreUnused
<1>1. IInv => ClosedPoolsAreUnused
  BY DEF IInv
<1> QED BY HandleInvariance, <1>1, PTL
=============================================================================
