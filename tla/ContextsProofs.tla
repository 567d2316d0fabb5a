--------------------------- MODULE ContextsProofs ---------------------------
(***************************************************************************)
(* The safety properties of Contexts, for any number of databases,         *)
(* transactions, hooks and boundaries.                                     *)
(***************************************************************************)
EXTENDS Contexts, SequenceTheorems, TLAPS

Causes == {"none", "committed", "error", "abort", "panic", "goexit"}

Frames == [kind : Kinds, ctx : Ctx, txn : 0 .. MaxTxns, due : Seq(Nat), cause : Causes]

Records == [db : DBs, status : Statuses, ended : Nat, afterCommit : Seq(Nat), afterRollback : Seq(Nat)]

TypeInv ==
    /\ stack \in Seq(Frames) /\ stack # <<>>
    /\ txns \in Seq(Records) /\ Len(txns) <= MaxTxns
    /\ held \subseteq Ctx
    /\ unwinding \in {"none", "abort", "panic", "goexit"}
    /\ tasks \in Nat
    /\ ran \in Seq(Seq(Nat)) /\ Len(ran) = Len(txns)
    /\ cut \subseteq Txns
    /\ dead \in {"no", "abort", "panic", "goexit"}

\* The goroutine's own code is outside of everything else.  fn and the hooks
\* belong to a transaction; only the context of fn carries one, its own.
GoodFrame(f, i, n) ==
    /\ (f.kind = "main") <=> (i = 1)
    /\ f.kind = "fn" => f.txn \in 1 .. n /\ f.ctx.txn = f.txn
    /\ f.kind = "hooks" => f.txn \in 1 .. n /\ f.cause # "none"
    /\ f.kind # "fn" => f.ctx.txn = 0
    /\ i = 1 => f.ctx = Background

FrameInv == \A i \in 1 .. Len(stack) : GoodFrame(stack[i], i, Len(txns))

KeptInv == \A c \in held : c.txn \in Txns

\* A transaction has one boundary as long as it goes on or has hooks to run.
OwnerInv ==
    /\ \A i, j \in 1 .. Len(stack) :
          /\ stack[i].kind \in {"fn", "hooks"} /\ stack[j].kind \in {"fn", "hooks"}
          /\ stack[i].txn = stack[j].txn
          => i = j
    /\ \A i \in 1 .. Len(stack) :
          /\ stack[i].kind = "fn" => txns[stack[i].txn].status = "live"
          /\ stack[i].kind = "hooks" => txns[stack[i].txn].status # "live"
    /\ \A t \in Txns : txns[t].status = "live" =>
          \E i \in 1 .. Len(stack) : stack[i].kind = "fn" /\ stack[i].txn = t

\* An abort is where it was raised, in code of the program and not in runHooks.
AbortInv == unwinding = "abort" => Top.kind # "hooks" /\ origin = Len(stack)

\* The hooks of a transaction, in the order of their registration.
ListInv ==
    \A t \in Txns :
        /\ txns[t].ended <= tasks
        /\ \A i \in 1 .. Len(txns[t].afterCommit) : txns[t].afterCommit[i] <= tasks
        /\ \A i \in 1 .. Len(txns[t].afterRollback) : txns[t].afterRollback[i] <= tasks

\* The first n hooks of the outcome are those that were registered before it.
DueAre(t, n) ==
    /\ n <= Len(HooksOf(t))
    /\ \A i \in 1 .. Len(HooksOf(t)) : i <= n <=> HooksOf(t)[i] <= txns[t].ended

\* The hooks that ran are the first of the outcome.
RanInv ==
    \A t \in Txns :
        /\ Len(ran[t]) <= Len(HooksOf(t))
        /\ \A i \in 1 .. Len(ran[t]) : ran[t][i] = HooksOf(t)[i]

\* With those that are still due, they are all that were registered before it.
DueIn(f, t) ==
    /\ DueAre(t, Len(ran[t]) + Len(f.due))
    /\ \A i \in 1 .. Len(f.due) : f.due[i] = HooksOf(t)[Len(ran[t]) + i]

DueInv ==
    \A j \in 1 .. Len(stack) : stack[j].kind = "hooks" => DueIn(stack[j], stack[j].txn)

DoneInv ==
    \A t \in Txns :
        \/ txns[t].status = "live" \/ t \in cut
        \/ \E j \in 1 .. Len(stack) : stack[j].kind = "hooks" /\ stack[j].txn = t
        \/ DueAre(t, Len(ran[t]))

Inv ==
    /\ TypeInv /\ FrameInv /\ KeptInv /\ OwnerInv /\ AbortInv
    /\ ListInv /\ RanInv /\ DueInv /\ DoneInv

-----------------------------------------------------------------------------
(* The kinds of steps *)

Pushed(f) ==
    /\ stack' \in Seq(Frames) /\ Len(stack') = Len(stack) + 1
    /\ stack'[Len(stack) + 1] = f /\ \A i \in 1 .. Len(stack) : stack'[i] = stack[i]

Replaced(f) ==
    /\ stack' \in Seq(Frames) /\ Len(stack') = Len(stack)
    /\ stack'[Len(stack)] = f /\ \A i \in 1 .. Len(stack) - 1 : stack'[i] = stack[i]

Started(f, g) ==
    /\ stack' \in Seq(Frames) /\ Len(stack') = Len(stack) + 1
    /\ stack'[Len(stack)] = f /\ stack'[Len(stack) + 1] = g
    /\ \A i \in 1 .. Len(stack) - 1 : stack'[i] = stack[i]

Popped ==
    /\ stack' \in Seq(Frames) /\ Len(stack') = Len(stack) - 1
    /\ \A i \in 1 .. Len(stack) - 1 : stack'[i] = stack[i]

\* t has the record r now.
Recorded(t, r) ==
    /\ t \in Txns
    /\ txns' \in Seq(Records) /\ Len(txns') = Len(txns)
    /\ \A u \in Txns : txns'[u] = IF u = t THEN r ELSE txns[u]

\* Procedure
Opens ==
    /\ Len(txns) < MaxTxns
    /\ \E f \in Frames : Pushed(f) /\ f.kind = "fn" /\ f.txn = Len(txns) + 1 /\ f.ctx.txn = Len(txns) + 1
    /\ txns' \in Seq(Records) /\ Len(txns') = Len(txns) + 1 /\ \A t \in Txns : txns'[t] = txns[t]
    /\ LET r == txns'[Len(txns) + 1]
       IN  r.status = "live" /\ r.ended = 0 /\ r.afterCommit = <<>> /\ r.afterRollback = <<>>
    /\ ran' \in Seq(Seq(Nat)) /\ Len(ran') = Len(txns) + 1 /\ \A t \in Txns : ran'[t] = ran[t]
    /\ ran'[Len(txns) + 1] = <<>>
    /\ held' \subseteq Ctx /\ \A c \in held' : c \in held \/ c.txn = Len(txns) + 1
    /\ unwinding = "none" /\ UNCHANGED <<unwinding, tasks, cut, dead>>

\* Query
Enters ==
    /\ \E f \in Frames : Pushed(f) /\ f.kind = "query" /\ f.ctx.txn = 0
    /\ unwinding = "none" /\ UNCHANGED <<txns, held, unwinding, tasks, ran, cut, dead>>

\* Misuse, SqlFails, Leave
Raises ==
    /\ unwinding' \in {"abort", "panic", "goexit"}
    /\ unwinding' = "abort" => Top.kind # "hooks" /\ origin' = Len(stack)
    /\ UNCHANGED <<stack, txns, held, tasks, ran, cut, dead>>

\* AfterCommit, AfterRollback
Registers ==
    /\ \E t \in Txns, r \in Records :
          /\ Recorded(t, r) /\ r.status = txns[t].status /\ r.ended = txns[t].ended
          /\ r.afterCommit = txns[t].afterCommit \/ r.afterCommit = Append(txns[t].afterCommit, tasks + 1)
          /\ r.afterRollback = txns[t].afterRollback \/ r.afterRollback = Append(txns[t].afterRollback, tasks + 1)
    /\ tasks' = tasks + 1
    /\ UNCHANGED <<stack, held, unwinding, origin, ran, cut, dead>>

\* FnFails, Commit, UnwindFn
EndsWithHooks ==
    /\ Top.kind = "fn"
    /\ \E r \in Records, f \in Frames :
          /\ Recorded(Top.txn, r) /\ r.status \in {"committed", "rolledBack"} /\ r.ended = tasks
          /\ r.afterCommit = txns[Top.txn].afterCommit /\ r.afterRollback = txns[Top.txn].afterRollback
          /\ Replaced(f) /\ f.kind = "hooks" /\ f.txn = Top.txn /\ f.ctx.txn = 0 /\ f.cause # "none"
          /\ f.due = IF r.status = "committed" THEN r.afterCommit ELSE r.afterRollback
    /\ unwinding' = "none" /\ UNCHANGED <<held, tasks, ran, cut, dead>>

\* CommitUnknown
EndsUnknown ==
    /\ Top.kind = "fn"
    /\ \E r \in Records :
          /\ Recorded(Top.txn, r) /\ r.status = "unknown" /\ r.ended = tasks
          /\ r.afterCommit = txns[Top.txn].afterCommit /\ r.afterRollback = txns[Top.txn].afterRollback
    /\ Popped
    /\ unwinding' = "none" /\ UNCHANGED <<held, tasks, ran, cut, dead>>

\* RunHook
Starts ==
    /\ Top.kind = "hooks" /\ Top.due # <<>>
    /\ \E f \in Frames, g \in Frames :
          /\ Started(f, g)
          /\ f.kind = "hooks" /\ f.txn = Top.txn /\ f.ctx = Top.ctx /\ f.cause = Top.cause /\ f.due = Tail(Top.due)
          /\ g.kind = "hook" /\ g.ctx.txn = 0
    /\ ran' \in Seq(Seq(Nat)) /\ Len(ran') = Len(ran)
    /\ \A t \in Txns : ran'[t] = IF t = Top.txn THEN Append(ran[t], Head(Top.due)) ELSE ran[t]
    /\ unwinding = "none" /\ UNCHANGED <<txns, held, unwinding, tasks, cut, dead>>

\* Return, UnwindQuery, UnwindHook
Leaves ==
    /\ Top.kind \in {"query", "hook"} /\ Popped
    /\ unwinding' \in {"none", "panic", "goexit"}
    /\ UNCHANGED <<txns, held, tasks, ran, cut, dead>>

\* HooksDone, UnwindHooks
LeavesHooks ==
    /\ Top.kind = "hooks" /\ Popped
    /\ (Top.due = <<>> /\ cut' = cut) \/ cut' = cut \cup {Top.txn}
    /\ unwinding' \in {"none", "panic", "goexit"}
    /\ UNCHANGED <<txns, held, tasks, ran, dead>>

\* UnwindMain
Dies ==
    /\ dead' \in {"abort", "panic", "goexit"}
    /\ UNCHANGED <<stack, txns, held, unwinding, origin, tasks, ran, cut>>

-----------------------------------------------------------------------------
(* The steps of the model are of these kinds. *)

LEMMA FrameType ==
    ASSUME NEW k \in Kinds, NEW c \in Ctx, NEW t \in 0 .. MaxTxns, NEW d \in Seq(Nat), NEW e \in Causes
    PROVE  Frame(k, c, t, d, e) \in Frames
BY DEF Frame, Frames

LEMMA PlainType ==
    ASSUME NEW k \in Kinds, NEW c \in Ctx
    PROVE  Plain(k, c) \in Frames
<1>1. <<>> \in Seq(Nat) /\ 0 \in 0 .. MaxTxns /\ "none" \in Causes
  BY EmptySeq, BoundAssumption DEF Causes
<1>2. QED BY <1>1, FrameType DEF Plain

LEMMA StackOps ==
    ASSUME TypeInv
    PROVE  /\ Len(stack) \in Nat \ {0} /\ Top \in Frames
           /\ \A i \in 1 .. Len(stack) : stack[i] \in Frames
           /\ stack' = Below => Popped
           /\ \A f \in Frames : stack' = Push(f) => Pushed(f)
           /\ \A f \in Frames : stack' = Replace(f) => Replaced(f)
           /\ \A f \in Frames, g \in Frames : stack' = Append(Replace(f), g) => Started(f, g)
<1>1. stack \in Seq(Frames) /\ Len(stack) \in Nat \ {0} /\ \A i \in 1 .. Len(stack) : stack[i] \in Frames
  BY EmptySeq, ElementOfSeq DEF TypeInv
<1>2. /\ Below \in Seq(Frames) /\ Len(Below) = Len(stack) - 1
      /\ \A i \in 1 .. Len(stack) - 1 : Below[i] = stack[i]
  BY <1>1 DEF Below
<1>3. ASSUME NEW f \in Frames
      PROVE  /\ Replace(f) \in Seq(Frames) /\ Len(Replace(f)) = Len(stack)
             /\ Replace(f)[Len(stack)] = f
             /\ \A i \in 1 .. Len(stack) - 1 : Replace(f)[i] = stack[i]
  BY <1>1, <1>2, AppendProperties DEF Replace
<1>4. ASSUME NEW f \in Frames, stack' = Push(f) PROVE Pushed(f)
  BY <1>1, <1>4, AppendProperties DEF Push, Pushed
<1>5. ASSUME NEW f \in Frames, NEW g \in Frames, stack' = Append(Replace(f), g) PROVE Started(f, g)
  <2>1. /\ stack' \in Seq(Frames) /\ Len(stack') = Len(Replace(f)) + 1
        /\ \A i \in 1 .. Len(Replace(f)) : stack'[i] = Replace(f)[i]
        /\ stack'[Len(Replace(f)) + 1] = g
    BY <1>3, <1>5, AppendProperties
  <2>2. PICK n \in Nat \ {0} : n = Len(stack)
    BY <1>1
  <2>3. PICK r \in Seq(Frames) : /\ r = Replace(f) /\ Len(r) = n /\ r[n] = f
                                 /\ \A i \in 1 .. n - 1 : r[i] = stack[i]
    BY <1>3, <2>2
  <2>4. /\ Len(stack') = n + 1 /\ stack'[n + 1] = g
        /\ \A i \in 1 .. n : stack'[i] = r[i]
    BY <2>1, <2>3
  <2>5. stack'[n] = f /\ \A i \in 1 .. n - 1 : stack'[i] = stack[i]
    BY <2>3, <2>4
  <2>6. QED BY <2>1, <2>2, <2>4, <2>5 DEF Started
<1>6. Top \in Frames
  BY <1>1 DEF Top
<1>7. (stack' = Below => Popped) /\ \A f \in Frames : stack' = Replace(f) => Replaced(f)
  BY SMTT(30), <1>2, <1>3 DEF Popped, Replaced
<1>8. QED BY <1>1, <1>4, <1>5, <1>6, <1>7

LEMMA RecordOps ==
    ASSUME TypeInv, NEW t \in Txns, NEW r \in Records, txns' = [txns EXCEPT ![t] = r]
    PROVE  Recorded(t, r)
BY ExceptSeq DEF TypeInv, Txns, Recorded

LEMMA TxnTypes ==
    ASSUME TypeInv, NEW t \in Txns
    PROVE  txns[t] \in Records /\ ran[t] \in Seq(Nat) /\ t \in Nat \ {0}
BY ElementOfSeq DEF TypeInv, Txns

\* The contexts that the code may use are those of transactions, or of none.
LEMMA UsableContexts ==
    ASSUME TypeInv, FrameInv, KeptInv, NEW c \in Usable
    PROVE  c \in Ctx /\ (c.txn = 0 \/ c.txn \in Txns)
<1>1. CASE c \in held
  BY <1>1 DEF TypeInv, KeptInv
<1>2. CASE \E i \in 1 .. Len(stack) : c = stack[i].ctx
  <2>1. PICK i \in 1 .. Len(stack) : c = stack[i].ctx
    BY <1>2
  <2>2. stack[i].ctx \in Ctx /\ stack[i].kind \in Kinds
    BY StackOps DEF Frames
  <2>3. QED BY <2>1, <2>2 DEF FrameInv, GoodFrame, Txns
<1>3. QED BY <1>1, <1>2 DEF Usable

\* The boundary code is in.
LEMMA TopFrame ==
    ASSUME TypeInv, FrameInv
    PROVE  /\ Top.kind \in Kinds /\ Top.ctx \in Ctx /\ Top.due \in Seq(Nat) /\ Top.cause \in Causes
           /\ Top.kind = "main" <=> Len(stack) = 1
           /\ Top.kind = "fn" => Top.txn \in Txns /\ Top.ctx.txn = Top.txn
           /\ Top.kind = "hooks" => Top.txn \in Txns /\ Top.cause # "none"
           /\ Top.kind # "fn" => Top.ctx.txn = 0
<1>1. Len(stack) \in 1 .. Len(stack) /\ Top \in Frames
  BY StackOps
<1>2. QED BY <1>1 DEF Frames, Top, FrameInv, GoodFrame, Txns

LEMMA ProcedureOpens ==
    ASSUME TypeInv, FrameInv, KeptInv, NEW c \in Usable, NEW db \in DBs, Procedure(db, c)
    PROVE  Opens
<1> DEFINE n == Len(txns) + 1
<1> DEFINE ctx == [c EXCEPT !.txn = n]
<1> DEFINE f == Frame("fn", ctx, n, <<>>, "none")
<1> DEFINE r == [db |-> db, status |-> "live", ended |-> 0, afterCommit |-> <<>>, afterRollback |-> <<>>]
<1>1. /\ Len(txns) \in Nat /\ Len(txns) < MaxTxns /\ unwinding = "none" /\ c \in Ctx
      /\ txns' = Append(txns, r) /\ ran' = Append(ran, <<>>)
      /\ stack' = Push(f) /\ held' = held \cup {ctx}
      /\ UNCHANGED <<unwinding, tasks, cut, dead>>
  BY UsableContexts, LenProperties DEF Procedure, Running, TypeInv
<1>2. ctx \in Ctx /\ ctx.txn = n /\ n \in 0 .. MaxTxns
  BY <1>1, BoundAssumption DEF Ctx
<1>3. f \in Frames /\ f.kind = "fn" /\ f.txn = n /\ f.ctx = ctx
  <2>1. "fn" \in Kinds /\ "none" \in Causes /\ <<>> \in Seq(Nat)
    BY EmptySeq DEF Kinds, Causes
  <2>2. f \in Frames
    BY <1>2, <2>1, FrameType
  <2>3. QED BY <2>2 DEF Frame
<1>4. Pushed(f)
  BY <1>1, <1>3, StackOps
<1>5. r \in Records
  BY EmptySeq DEF Records, Statuses
<1> HIDE DEF r, ctx, f
<1>6. /\ txns' \in Seq(Records) /\ Len(txns') = n /\ txns'[n] = r
      /\ \A t \in Txns : txns'[t] = txns[t]
  BY <1>1, <1>5, AppendProperties DEF TypeInv, Txns
<1>7. /\ ran' \in Seq(Seq(Nat)) /\ Len(ran') = n /\ ran'[n] = <<>>
      /\ \A t \in Txns : ran'[t] = ran[t]
  <2>1. <<>> \in Seq(Nat)
    BY EmptySeq
  <2>2. QED BY <1>1, <2>1, AppendProperties DEF TypeInv, Txns
<1>8. held' \subseteq Ctx /\ \A d \in held' : d \in held \/ d.txn = n
  BY <1>1, <1>2 DEF TypeInv
<1>9. \E e \in Frames : Pushed(e) /\ e.kind = "fn" /\ e.txn = n /\ e.ctx.txn = n
  BY <1>2, <1>3, <1>4
<1>10. r.status = "live" /\ r.ended = 0 /\ r.afterCommit = <<>> /\ r.afterRollback = <<>>
  BY DEF r
<1>11. QED BY <1>1, <1>6, <1>7, <1>8, <1>9, <1>10 DEF Opens

LEMMA QueryEnters ==
    ASSUME TypeInv, FrameInv, KeptInv, NEW c \in Usable, NEW db \in DBs, Query(db, c)
    PROVE  Enters
<1> DEFINE ctx == [c EXCEPT !.pool = db]
<1>1. /\ unwinding = "none" /\ c \in Ctx /\ c.txn = 0 /\ stack' = Push(Plain("query", ctx))
      /\ UNCHANGED <<txns, held, unwinding, tasks, ran, cut, dead>>
  BY UsableContexts DEF Query, Running, InTransaction
<1>2. ctx \in Ctx /\ ctx.txn = 0
  BY <1>1 DEF Ctx
<1>3. Plain("query", ctx) \in Frames /\ Plain("query", ctx).kind = "query" /\ Plain("query", ctx).ctx = ctx
  BY <1>2, PlainType DEF Kinds, Plain, Frame
<1>4. QED BY <1>1, <1>2, <1>3, StackOps DEF Enters

LEMMA ErrorsRaise ==
    ASSUME TypeInv, FrameInv, KeptInv,
           \/ \E c \in Usable, db \in DBs : Misuse(c, db) \/ SqlFails(c, db)
           \/ \E what \in {"panic", "goexit"} : Leave(what)
    PROVE  Raises
<1>1. ASSUME NEW c \in Usable, NEW db \in DBs, Misuse(c, db) PROVE Raises
  BY <1>1 DEF Misuse, Raise, Raises
<1>2. ASSUME NEW c \in Usable, NEW db \in DBs, SqlFails(c, db) PROVE Raises
  BY <1>2 DEF SqlFails, Running, Raise, Raises
<1>3. ASSUME NEW what \in {"panic", "goexit"}, Leave(what) PROVE Raises
  BY <1>3 DEF Leave, Raise, Raises
<1>4. QED BY <1>1, <1>2, <1>3

LEMMA HooksRegister ==
    ASSUME TypeInv, FrameInv, KeptInv, NEW c \in Usable, AfterCommit(c) \/ AfterRollback(c)
    PROVE  Registers
<1>1. /\ c.txn \in Txns /\ tasks' = tasks + 1 /\ tasks + 1 \in Nat
      /\ UNCHANGED <<stack, held, unwinding, origin, ran, cut, dead>>
  BY UsableContexts DEF AfterCommit, AfterRollback, TypeInv
<1>2. txns[c.txn] \in Records
  BY <1>1, TxnTypes
<1>3. CASE AfterCommit(c)
  <2> DEFINE r == [txns[c.txn] EXCEPT !.afterCommit = Append(@, tasks + 1)]
  <2>1. Append(txns[c.txn].afterCommit, tasks + 1) \in Seq(Nat)
    BY <1>1, <1>2, AppendProperties DEF Records
  <2>2. /\ r \in Records /\ r.status = txns[c.txn].status /\ r.ended = txns[c.txn].ended
        /\ r.afterCommit = Append(txns[c.txn].afterCommit, tasks + 1)
        /\ r.afterRollback = txns[c.txn].afterRollback
    BY <1>2, <2>1 DEF Records
  <2>3. txns' = [txns EXCEPT ![c.txn] = r]
    BY <1>3 DEF AfterCommit
  <2> HIDE DEF r
  <2>4. Recorded(c.txn, r)
    BY <1>1, <2>2, <2>3, RecordOps
  <2>5. QED BY <1>1, <2>2, <2>4 DEF Registers
<1>4. CASE AfterRollback(c)
  <2> DEFINE r == [txns[c.txn] EXCEPT !.afterRollback = Append(@, tasks + 1)]
  <2>1. Append(txns[c.txn].afterRollback, tasks + 1) \in Seq(Nat)
    BY <1>1, <1>2, AppendProperties DEF Records
  <2>2. /\ r \in Records /\ r.status = txns[c.txn].status /\ r.ended = txns[c.txn].ended
        /\ r.afterRollback = Append(txns[c.txn].afterRollback, tasks + 1)
        /\ r.afterCommit = txns[c.txn].afterCommit
    BY <1>2, <2>1 DEF Records
  <2>3. txns' = [txns EXCEPT ![c.txn] = r]
    BY <1>4 DEF AfterRollback
  <2> HIDE DEF r
  <2>4. Recorded(c.txn, r)
    BY <1>1, <2>2, <2>3, RecordOps
  <2>5. QED BY <1>1, <2>2, <2>4 DEF Registers
<1>5. QED BY <1>3, <1>4

LEMMA EndRecords ==
    ASSUME TypeInv, NEW t \in Txns, NEW status \in Statuses, txns' = End(t, status)
    PROVE  \E r \in Records :
              /\ Recorded(t, r) /\ r.status = status /\ r.ended = tasks
              /\ r.afterCommit = txns[t].afterCommit /\ r.afterRollback = txns[t].afterRollback
<1> DEFINE r == [txns[t] EXCEPT !.status = status, !.ended = tasks]
<1>1. txns[t] \in Records /\ tasks \in Nat /\ txns \in Seq(Records)
  BY TxnTypes DEF TypeInv
<1>2. /\ r \in Records /\ r.status = status /\ r.ended = tasks
      /\ r.afterCommit = txns[t].afterCommit /\ r.afterRollback = txns[t].afterRollback
  BY <1>1 DEF Records
<1>3. txns' = [txns EXCEPT ![t] = r]
  BY <1>1 DEF End, Txns
<1> HIDE DEF r
<1>4. Recorded(t, r)
  BY <1>2, <1>3, RecordOps
<1>5. QED BY <1>2, <1>4

LEMMA RollBackEnds ==
    ASSUME TypeInv, FrameInv, Top.kind = "fn", NEW cause \in Causes \ {"none"}, RollBack(cause),
           unwinding' = "none", UNCHANGED <<held, tasks, ran, cut, dead>>
    PROVE  EndsWithHooks
<1> DEFINE ctx == WithoutTransaction(Top.ctx)
<1> DEFINE f == Frame("hooks", ctx, Top.txn, txns[Top.txn].afterRollback, cause)
<1>1. Top.txn \in Txns /\ Top.ctx \in Ctx /\ Top \in Frames
  BY TopFrame, StackOps
<1>2. "rolledBack" \in Statuses /\ txns' = End(Top.txn, "rolledBack") /\ stack' = Replace(f)
  BY DEF Statuses, RollBack
<1>3. PICK r \in Records :
          /\ Recorded(Top.txn, r) /\ r.status = "rolledBack" /\ r.ended = tasks
          /\ r.afterCommit = txns[Top.txn].afterCommit /\ r.afterRollback = txns[Top.txn].afterRollback
  BY <1>1, <1>2, EndRecords
<1>4. ctx \in Ctx /\ ctx.txn = 0
  BY <1>1, BoundAssumption DEF WithoutTransaction, Ctx
<1>5. txns[Top.txn].afterRollback \in Seq(Nat) /\ Top.txn \in 0 .. MaxTxns
  BY <1>1, TxnTypes DEF Records, Frames
<1>6. /\ f \in Frames /\ f.kind = "hooks" /\ f.txn = Top.txn /\ f.ctx = ctx /\ f.cause = cause
      /\ f.due = txns[Top.txn].afterRollback
  <2>1. f \in Frames
    BY <1>4, <1>5, FrameType DEF Kinds
  <2>2. QED BY <2>1 DEF Frame
<1> HIDE DEF f, ctx
<1>7. Replaced(f)
  BY <1>2, <1>6, StackOps
<1>8. QED BY <1>3, <1>4, <1>6, <1>7 DEF EndsWithHooks

LEMMA CommitEnds ==
    ASSUME TypeInv, FrameInv, Commit
    PROVE  EndsWithHooks
<1> DEFINE ctx == WithoutTransaction(Top.ctx)
<1> DEFINE f == Frame("hooks", ctx, Top.txn, txns[Top.txn].afterCommit, "committed")
<1>1. /\ Top.kind = "fn" /\ Top.txn \in Txns /\ Top.ctx \in Ctx /\ Top \in Frames
      /\ unwinding' = "none" /\ UNCHANGED <<held, tasks, ran, cut, dead>>
  BY TopFrame, StackOps DEF Commit, Running
<1>2. "committed" \in Statuses /\ txns' = End(Top.txn, "committed") /\ stack' = Replace(f)
  BY DEF Statuses, Commit
<1>3. PICK r \in Records :
          /\ Recorded(Top.txn, r) /\ r.status = "committed" /\ r.ended = tasks
          /\ r.afterCommit = txns[Top.txn].afterCommit /\ r.afterRollback = txns[Top.txn].afterRollback
  BY <1>1, <1>2, EndRecords
<1>4. ctx \in Ctx /\ ctx.txn = 0
  BY <1>1, BoundAssumption DEF WithoutTransaction, Ctx
<1>5. txns[Top.txn].afterCommit \in Seq(Nat) /\ Top.txn \in 0 .. MaxTxns
  BY <1>1, TxnTypes DEF Records, Frames
<1>6. /\ f \in Frames /\ f.kind = "hooks" /\ f.txn = Top.txn /\ f.ctx = ctx /\ f.cause = "committed"
      /\ f.due = txns[Top.txn].afterCommit
  <2>1. f \in Frames
    BY <1>4, <1>5, FrameType DEF Kinds, Causes
  <2>2. QED BY <2>1 DEF Frame
<1> HIDE DEF f, ctx
<1>7. Replaced(f)
  BY <1>2, <1>6, StackOps
<1>8. QED BY <1>1, <1>3, <1>4, <1>6, <1>7 DEF EndsWithHooks

LEMMA UnknownEnds ==
    ASSUME TypeInv, FrameInv, CommitUnknown
    PROVE  EndsUnknown
<1>1. /\ Top.kind = "fn" /\ Top.txn \in Txns
      /\ unwinding' = "none" /\ UNCHANGED <<held, tasks, ran, cut, dead>>
      /\ "unknown" \in Statuses /\ txns' = End(Top.txn, "unknown") /\ stack' = Below
  BY TopFrame DEF CommitUnknown, Running, Statuses
<1>2. \E r \in Records :
          /\ Recorded(Top.txn, r) /\ r.status = "unknown" /\ r.ended = tasks
          /\ r.afterCommit = txns[Top.txn].afterCommit /\ r.afterRollback = txns[Top.txn].afterRollback
  BY <1>1, EndRecords
<1>3. QED BY <1>1, <1>2, StackOps DEF EndsUnknown

LEMMA HookStarts ==
    ASSUME TypeInv, FrameInv, RunHook
    PROVE  Starts
<1> DEFINE f == [Top EXCEPT !.due = Tail(@)]
<1> DEFINE g == Plain("hook", Top.ctx)
<1>1. /\ Top \in Frames /\ Top.kind = "hooks" /\ Top.due # <<>> /\ Top.txn \in Txns /\ Top.ctx.txn = 0
      /\ unwinding = "none" /\ UNCHANGED <<txns, held, unwinding, tasks, cut, dead>>
  BY TopFrame, StackOps DEF RunHook
<1>2. Top.due \in Seq(Nat) /\ Top.ctx \in Ctx
  BY <1>1 DEF Frames
<1>3. Tail(Top.due) \in Seq(Nat) /\ Head(Top.due) \in Nat
  BY <1>1, <1>2, HeadTailProperties
<1>4. /\ f \in Frames /\ f.kind = "hooks" /\ f.txn = Top.txn /\ f.ctx = Top.ctx /\ f.cause = Top.cause
      /\ f.due = Tail(Top.due)
  BY <1>1, <1>3 DEF Frames
<1>5. g \in Frames /\ g.kind = "hook" /\ g.ctx.txn = 0
  <2>1. g \in Frames
    BY <1>2, PlainType DEF Kinds
  <2>2. QED BY <1>1, <2>1 DEF Plain, Frame
<1>6. stack' = Append(Replace(f), g)
  BY DEF RunHook
<1>7. /\ ran' = [ran EXCEPT ![Top.txn] = Append(ran[Top.txn], Head(Top.due))]
      /\ ran \in Seq(Seq(Nat)) /\ Len(ran) = Len(txns) /\ ran[Top.txn] \in Seq(Nat)
  BY <1>1, TxnTypes DEF RunHook, TypeInv
<1> HIDE DEF f, g
<1>8. Started(f, g)
  BY <1>4, <1>5, <1>6, StackOps
<1>9. /\ ran' \in Seq(Seq(Nat)) /\ Len(ran') = Len(ran)
      /\ \A t \in Txns : ran'[t] = IF t = Top.txn THEN Append(ran[t], Head(Top.due)) ELSE ran[t]
  <2>1. Append(ran[Top.txn], Head(Top.due)) \in Seq(Nat)
    BY <1>3, <1>7, AppendProperties
  <2>2. QED BY <1>1, <1>7, <2>1, ExceptSeq DEF Txns
<1>10. QED BY <1>1, <1>4, <1>5, <1>8, <1>9 DEF Starts

\* Whatever happens is one of these.
LEMMA Moves ==
    ASSUME Inv, Next
    PROVE  \/ Opens \/ Enters \/ Raises \/ Registers \/ EndsWithHooks \/ EndsUnknown
           \/ Starts \/ Leaves \/ LeavesHooks \/ Dies
<1> USE DEF Inv
<1>1. ASSUME NEW c \in Usable, NEW db \in DBs, Procedure(db, c) \/ Query(db, c) PROVE Opens \/ Enters
  BY <1>1, ProcedureOpens, QueryEnters
<1>2. CASE \/ \E c \in Usable, db \in DBs : Misuse(c, db) \/ SqlFails(c, db)
           \/ \E what \in {"panic", "goexit"} : Leave(what)
  BY <1>2, ErrorsRaise
<1>3. ASSUME NEW c \in Usable, AfterCommit(c) \/ AfterRollback(c) PROVE Registers
  BY <1>3, HooksRegister
<1>4. CASE FnFails
  BY <1>4, RollBackEnds DEF FnFails, Running, Causes
<1>5. CASE UnwindFn
  <2>1. unwinding \in Causes \ {"none"}
    BY <1>5 DEF UnwindFn, TypeInv, Causes
  <2>2. QED BY <1>5, <2>1, RollBackEnds DEF UnwindFn
<1>6. CASE Commit \/ CommitUnknown \/ RunHook
  BY <1>6, CommitEnds, UnknownEnds, HookStarts
<1>7. CASE Return \/ UnwindQuery \/ UnwindHook
  BY <1>7, StackOps DEF Return, UnwindQuery, UnwindHook, Running, Leaves, TypeInv
<1>8. CASE HooksDone
  BY <1>8, StackOps DEF HooksDone, LeavesHooks
<1>9. CASE UnwindHooks
  BY <1>9, StackOps DEF UnwindHooks, LeavesHooks, AbortInv, TypeInv
<1>10. CASE UnwindMain
  BY <1>10 DEF UnwindMain, Dies, AbortInv, TypeInv
<1>11. QED
  <2> HIDE DEF Inv
  <2>1. QED BY <1>1, <1>2, <1>3, <1>4, <1>5, <1>6, <1>7, <1>8, <1>9, <1>10 DEF Next

-----------------------------------------------------------------------------
(* What the steps preserve *)

\* Nothing that the invariant speaks of changes.
LEMMA Stuttering == ASSUME Inv, UNCHANGED vars PROVE Inv'
<1>1. TypeInv' /\ KeptInv' /\ AbortInv'
  BY DEF Inv, vars, TypeInv, KeptInv, AbortInv, Txns, Top
<1>2. FrameInv' /\ OwnerInv'
  BY DEF Inv, vars, FrameInv, OwnerInv, Txns
<1>3. ListInv' /\ RanInv'
  BY DEF Inv, vars, ListInv, RanInv, HooksOf, Txns
<1>4. DueInv' /\ DoneInv'
  <2>1. UNCHANGED <<stack, txns, ran, cut>> /\ DueInv /\ DoneInv
    BY DEF Inv, vars
  <2>2. \A t : HooksOf(t)' = HooksOf(t)
    BY <2>1 DEF HooksOf
  <2>3. \A t, n : DueAre(t, n) => DueAre(t, n)'
    BY <2>1, <2>2 DEF DueAre
  <2>4. DueInv'
    BY <2>1, <2>2, <2>3 DEF DueInv, DueIn
  <2>5. DoneInv'
    BY <2>1, <2>3 DEF DoneInv, Txns
  <2>6. QED BY <2>4, <2>5
<1>5. QED BY <1>1, <1>2, <1>3, <1>4 DEF Inv

LEMMA TypeStep == ASSUME Inv, Next PROVE TypeInv'
<1> USE EmptySeq DEF Inv, TypeInv, Txns
<1>1. CASE Opens
  <2>1. stack' \in Seq(Frames) /\ stack' # <<>>
    BY <1>1, StackOps DEF Opens, Pushed
  <2>2. Len(txns) \in Nat /\ cut' \subseteq Txns'
    BY <1>1, LenProperties DEF Opens
  <2>3. QED BY SMTT(30), <1>1, <2>1, <2>2, BoundAssumption DEF Opens
<1>2. CASE Enters
  BY <1>2, LenProperties DEF Enters, Pushed
<1>3. CASE Raises
  BY <1>3 DEF Raises
<1>4. CASE Registers
  BY <1>4 DEF Registers, Recorded
<1>5. CASE EndsWithHooks
  BY <1>5, StackOps DEF EndsWithHooks, Recorded, Replaced
<1>6. CASE EndsUnknown
  <2>1. Len(stack) # 1
    BY <1>6, TopFrame DEF EndsUnknown
  <2>2. QED BY <1>6, <2>1, StackOps DEF EndsUnknown, Recorded, Popped
<1>7. CASE Starts
  BY <1>7, StackOps DEF Starts, Started
<1>8. CASE Leaves
  BY <1>8, StackOps, TopFrame DEF Leaves, Popped
<1>9. CASE LeavesHooks
  <2>1. Len(stack) # 1 /\ Top.txn \in Txns
    BY <1>9, TopFrame DEF LeavesHooks
  <2>2. stack' \in Seq(Frames) /\ stack' # <<>>
    BY <1>9, <2>1, StackOps DEF LeavesHooks, Popped
  <2>3. QED BY <1>9, <2>1, <2>2 DEF LeavesHooks
<1>10. CASE Dies
  BY <1>10 DEF Dies
<1>11. QED BY <1>1, <1>2, <1>3, <1>4, <1>5, <1>6, <1>7, <1>8, <1>9, <1>10, Moves

\* All boundaries but the new ones stay as they are.
LEMMA FrameStep == ASSUME Inv, Next PROVE FrameInv'
<1>0. /\ Len(stack) \in Nat \ {0} /\ Len(txns) \in Nat /\ Top = stack[Len(stack)]
      /\ \A i \in 1 .. Len(stack) : GoodFrame(stack[i], i, Len(txns))
  BY StackOps, LenProperties DEF Inv, TypeInv, FrameInv, Top
<1>1. CASE Opens
  <2>1. PICK f \in Frames : Pushed(f) /\ f.kind = "fn" /\ f.txn = Len(txns) + 1 /\ f.ctx.txn = Len(txns) + 1
    BY <1>1 DEF Opens
  <2>2. GoodFrame(f, Len(stack) + 1, Len(txns) + 1)
    BY <1>0, <2>1 DEF GoodFrame
  <2>3. \A i \in 1 .. Len(stack) : GoodFrame(stack[i], i, Len(txns) + 1)
    BY <1>0 DEF GoodFrame
  <2>4. Len(txns') = Len(txns) + 1
    BY <1>1 DEF Opens
  <2>5. QED BY <1>0, <2>1, <2>2, <2>3, <2>4 DEF FrameInv, Pushed
<1>2. CASE Enters
  <2>1. PICK f \in Frames : Pushed(f) /\ f.kind = "query" /\ f.ctx.txn = 0
    BY <1>2 DEF Enters
  <2>2. GoodFrame(f, Len(stack) + 1, Len(txns))
    BY <1>0, <2>1 DEF GoodFrame
  <2>3. QED BY <1>0, <1>2, <2>1, <2>2 DEF FrameInv, Enters, Pushed
<1>3. CASE Raises \/ Dies
  BY <1>0, <1>3 DEF FrameInv, Raises, Dies
<1>4. CASE Registers
  BY <1>0, <1>4 DEF FrameInv, Registers, Recorded
<1>5. CASE EndsWithHooks
  <2>1. PICK f \in Frames :
            Replaced(f) /\ f.kind = "hooks" /\ f.txn = Top.txn /\ f.ctx.txn = 0 /\ f.cause # "none"
    BY <1>5 DEF EndsWithHooks
  <2>2. GoodFrame(f, Len(stack), Len(txns))
    BY <1>0, <1>5, <2>1 DEF GoodFrame, EndsWithHooks
  <2>3. Len(txns') = Len(txns)
    BY <1>5 DEF EndsWithHooks, Recorded
  <2>4. QED BY <1>0, <2>1, <2>2, <2>3 DEF FrameInv, Replaced
<1>6. CASE EndsUnknown
  <2>1. Len(txns') = Len(txns)
    BY <1>6 DEF EndsUnknown, Recorded
  <2>2. QED BY <1>0, <1>6, <2>1 DEF FrameInv, EndsUnknown, Popped
<1>7. CASE Starts
  <2>1. PICK f \in Frames, g \in Frames :
            /\ Started(f, g) /\ g.kind = "hook" /\ g.ctx.txn = 0
            /\ f.kind = "hooks" /\ f.txn = Top.txn /\ f.ctx = Top.ctx /\ f.cause = Top.cause
    BY <1>7 DEF Starts
  <2>2. GoodFrame(f, Len(stack), Len(txns))
    BY <1>0, <1>7, <2>1 DEF GoodFrame, Starts
  <2>3. GoodFrame(g, Len(stack) + 1, Len(txns))
    BY <1>0, <2>1 DEF GoodFrame
  <2>4. txns' = txns
    BY <1>7 DEF Starts
  <2>5. QED BY <1>0, <2>1, <2>2, <2>3, <2>4 DEF FrameInv, Started
<1>8. CASE Leaves \/ LeavesHooks
  BY <1>0, <1>8 DEF FrameInv, Leaves, LeavesHooks, Popped
<1>9. QED BY <1>1, <1>2, <1>3, <1>4, <1>5, <1>6, <1>7, <1>8, Moves

LEMMA KeptStep == ASSUME Inv, Next PROVE KeptInv'
<1>0. Len(txns) \in Nat
  BY LenProperties DEF Inv, TypeInv
<1>1. QED
  BY <1>0, Moves DEF Inv, KeptInv, Txns, Recorded, Opens, Enters, Raises, Registers, EndsWithHooks,
                     EndsUnknown, Starts, Leaves, LeavesHooks, Dies

LEMMA OwnerStep == ASSUME Inv, Next PROVE OwnerInv'
<1> DEFINE Holds(f, t) == f.kind \in {"fn", "hooks"} /\ f.txn = t
<1> DEFINE Right(f, r) == (f.kind = "fn" => r.status = "live") /\ (f.kind = "hooks" => r.status # "live")
<1>0. /\ Len(stack) \in Nat \ {0} /\ Len(txns) \in Nat /\ Top = stack[Len(stack)]
      /\ \A i \in 1 .. Len(stack) : stack[i].kind \in {"fn", "hooks"} => stack[i].txn \in 1 .. Len(txns)
  BY StackOps, LenProperties DEF Inv, TypeInv, FrameInv, GoodFrame, Top
<1>1. /\ \A i, j \in 1 .. Len(stack) : stack[i].kind \in {"fn", "hooks"} /\ Holds(stack[j], stack[i].txn) => i = j
      /\ \A i \in 1 .. Len(stack) : Right(stack[i], txns[stack[i].txn])
      /\ \A t \in 1 .. Len(txns) : txns[t].status = "live" =>
            \E i \in 1 .. Len(stack) : stack[i].kind = "fn" /\ stack[i].txn = t
  BY DEF Inv, OwnerInv, Txns
<1>2. ASSUME /\ \A i, j \in 1 .. Len(stack') : stack'[i].kind \in {"fn", "hooks"} /\ Holds(stack'[j], stack'[i].txn) => i = j
             /\ \A i \in 1 .. Len(stack') : Right(stack'[i], txns'[stack'[i].txn])
             /\ \A t \in 1 .. Len(txns') : txns'[t].status = "live" =>
                    \E i \in 1 .. Len(stack') : stack'[i].kind = "fn" /\ stack'[i].txn = t
      PROVE  OwnerInv'
  BY <1>2 DEF OwnerInv, Txns
<1>3. CASE Opens
  <2>1. PICK f \in Frames : Pushed(f) /\ f.kind = "fn" /\ f.txn = Len(txns) + 1
    BY <1>3 DEF Opens
  <2>2. /\ Len(txns') = Len(txns) + 1 /\ \A t \in 1 .. Len(txns) : txns'[t] = txns[t]
        /\ txns'[Len(txns) + 1].status = "live"
    BY <1>3 DEF Opens, Txns
  <2>3. /\ Len(stack') = Len(stack) + 1 /\ stack'[Len(stack) + 1] = f
        /\ \A i \in 1 .. Len(stack) : stack'[i] = stack[i]
    BY <2>1 DEF Pushed
  <2>4. \A i, j \in 1 .. Len(stack') : stack'[i].kind \in {"fn", "hooks"} /\ Holds(stack'[j], stack'[i].txn) => i = j
    BY <1>0, <1>1, <2>1, <2>3
  <2>5. \A i \in 1 .. Len(stack') : Right(stack'[i], txns'[stack'[i].txn])
    BY SMTT(30), <1>0, <1>1, <2>1, <2>2, <2>3
  <2>6. \A t \in 1 .. Len(txns') : txns'[t].status = "live" =>
            \E i \in 1 .. Len(stack') : stack'[i].kind = "fn" /\ stack'[i].txn = t
    <3>1. \A i \in 1 .. Len(stack) + 1 : i \in 1 .. Len(stack')
      BY <2>3
    <3>2. ASSUME NEW t \in 1 .. Len(txns), txns[t].status = "live"
          PROVE  \E i \in 1 .. Len(stack') : stack'[i].kind = "fn" /\ stack'[i].txn = t
      <4>1. PICK i \in 1 .. Len(stack) : stack[i].kind = "fn" /\ stack[i].txn = t
        BY <1>1, <3>2
      <4>2. QED BY <1>0, <2>3, <4>1
    <3>3. \E i \in 1 .. Len(stack') : stack'[i].kind = "fn" /\ stack'[i].txn = Len(txns) + 1
      BY <1>0, <2>1, <2>3
    <3>4. QED BY <1>0, <2>2, <3>2, <3>3
  <2>7. QED BY <1>2, <2>4, <2>5, <2>6
<1>4. CASE Enters
  <2>1. PICK f \in Frames : Pushed(f) /\ f.kind = "query"
    BY <1>4 DEF Enters
  <2>2. /\ txns' = txns /\ Len(stack') = Len(stack) + 1 /\ stack'[Len(stack) + 1] = f
        /\ \A i \in 1 .. Len(stack) : stack'[i] = stack[i]
    BY <1>4, <2>1 DEF Enters, Pushed
  <2>3. QED BY SMTT(30), <1>0, <1>1, <1>2, <2>1, <2>2
<1>5. CASE Raises \/ Dies
  BY <1>1, <1>2, <1>5 DEF Raises, Dies
<1>6. CASE Registers
  <2>1. /\ Len(txns') = Len(txns) /\ stack' = stack
        /\ \A t \in 1 .. Len(txns) : txns'[t].status = txns[t].status
    BY <1>6 DEF Registers, Recorded, Txns
  <2>2. \A i \in 1 .. Len(stack') : Right(stack'[i], txns'[stack'[i].txn])
    BY <1>0, <1>1, <2>1
  <2>3. QED BY <1>1, <1>2, <2>1, <2>2
<1>7. CASE EndsWithHooks
  <2>1. PICK f \in Frames : Replaced(f) /\ f.kind = "hooks" /\ f.txn = Top.txn
    BY <1>7 DEF EndsWithHooks
  <2>2. /\ Top.kind = "fn" /\ Len(txns') = Len(txns) /\ txns'[Top.txn].status # "live"
        /\ \A t \in 1 .. Len(txns) : t # Top.txn => txns'[t] = txns[t]
    BY <1>7 DEF EndsWithHooks, Recorded, Txns
  <2>3. /\ Len(stack') = Len(stack) /\ stack'[Len(stack)] = f
        /\ \A i \in 1 .. Len(stack) - 1 : stack'[i] = stack[i]
    BY <2>1 DEF Replaced
  <2>4. \A i, j \in 1 .. Len(stack') : stack'[i].kind \in {"fn", "hooks"} /\ Holds(stack'[j], stack'[i].txn) => i = j
    BY <1>0, <1>1, <2>1, <2>2, <2>3
  <2>5. \A i \in 1 .. Len(stack) - 1 : stack[i].kind \in {"fn", "hooks"} => stack[i].txn # Top.txn
    BY <1>0, <1>1, <2>2
  <2>6. \A i \in 1 .. Len(stack') : Right(stack'[i], txns'[stack'[i].txn])
    BY <1>0, <1>1, <2>1, <2>2, <2>3, <2>5
  <2>7. ASSUME NEW t \in 1 .. Len(txns'), txns'[t].status = "live"
        PROVE  \E i \in 1 .. Len(stack') : stack'[i].kind = "fn" /\ stack'[i].txn = t
    <3>1. t # Top.txn /\ txns[t].status = "live"
      BY <2>2, <2>7
    <3>2. PICK i \in 1 .. Len(stack) : stack[i].kind = "fn" /\ stack[i].txn = t
      BY <1>1, <2>2, <3>1
    <3>3. i # Len(stack)
      BY <1>0, <3>1, <3>2
    <3>4. QED BY <1>0, <2>3, <3>2, <3>3
  <2>8. QED BY <1>2, <2>4, <2>6, <2>7
<1>8. CASE EndsUnknown
  <2>1. /\ Top.kind = "fn" /\ Len(txns') = Len(txns) /\ txns'[Top.txn].status # "live"
        /\ \A t \in 1 .. Len(txns) : t # Top.txn => txns'[t] = txns[t]
    BY <1>0, <1>8 DEF EndsUnknown, Recorded, Txns
  <2>2. Len(stack') = Len(stack) - 1 /\ \A i \in 1 .. Len(stack) - 1 : stack'[i] = stack[i]
    BY <1>8 DEF EndsUnknown, Popped
  <2>3. \A i \in 1 .. Len(stack) - 1 : stack[i].kind \in {"fn", "hooks"} => stack[i].txn # Top.txn
    BY <1>0, <1>1, <2>1
  <2>4. \A i, j \in 1 .. Len(stack') : stack'[i].kind \in {"fn", "hooks"} /\ Holds(stack'[j], stack'[i].txn) => i = j
    BY <1>0, <1>1, <2>2
  <2>5. \A i \in 1 .. Len(stack') : Right(stack'[i], txns'[stack'[i].txn])
    BY SMTT(30), <1>0, <1>1, <2>1, <2>2, <2>3
  <2>6. ASSUME NEW t \in 1 .. Len(txns'), txns'[t].status = "live"
        PROVE  \E i \in 1 .. Len(stack') : stack'[i].kind = "fn" /\ stack'[i].txn = t
    <3>1. t # Top.txn /\ txns[t].status = "live"
      BY <2>1, <2>6
    <3>2. PICK i \in 1 .. Len(stack) : stack[i].kind = "fn" /\ stack[i].txn = t
      BY <1>1, <2>1, <3>1
    <3>3. i # Len(stack)
      BY <1>0, <3>1, <3>2
    <3>4. QED BY <1>0, <2>2, <3>2, <3>3
  <2>7. QED BY <1>2, <2>4, <2>5, <2>6
<1>9. CASE Starts
  <2>1. PICK f \in Frames, g \in Frames :
            Started(f, g) /\ f.kind = "hooks" /\ f.txn = Top.txn /\ g.kind = "hook"
    BY <1>9 DEF Starts
  <2>2. /\ txns' = txns /\ Top.kind = "hooks"
        /\ Len(stack') = Len(stack) + 1 /\ stack'[Len(stack)] = f /\ stack'[Len(stack) + 1] = g
        /\ \A i \in 1 .. Len(stack) - 1 : stack'[i] = stack[i]
    BY <1>9, <2>1 DEF Starts, Started
  <2>3. \A i, j \in 1 .. Len(stack') : stack'[i].kind \in {"fn", "hooks"} /\ Holds(stack'[j], stack'[i].txn) => i = j
    BY SMTT(30), <1>0, <1>1, <2>1, <2>2
  <2>4. \A i \in 1 .. Len(stack') : Right(stack'[i], txns'[stack'[i].txn])
    BY SMTT(30), <1>0, <1>1, <2>1, <2>2
  <2>5. ASSUME NEW t \in 1 .. Len(txns'), txns'[t].status = "live"
        PROVE  \E i \in 1 .. Len(stack') : stack'[i].kind = "fn" /\ stack'[i].txn = t
    <3>1. PICK i \in 1 .. Len(stack) : stack[i].kind = "fn" /\ stack[i].txn = t
      BY <1>1, <2>2, <2>5
    <3>2. i # Len(stack)
      BY <1>0, <2>2, <3>1
    <3>3. QED BY <1>0, <2>2, <3>1, <3>2
  <2>6. QED BY <1>2, <2>3, <2>4, <2>5
<1>10. CASE Leaves \/ LeavesHooks
  <2>1. /\ txns' = txns /\ Top.kind # "fn"
        /\ Len(stack') = Len(stack) - 1 /\ \A i \in 1 .. Len(stack) - 1 : stack'[i] = stack[i]
    BY <1>10 DEF Leaves, LeavesHooks, Popped
  <2>2. ASSUME NEW t \in 1 .. Len(txns'), txns'[t].status = "live"
        PROVE  \E i \in 1 .. Len(stack') : stack'[i].kind = "fn" /\ stack'[i].txn = t
    <3>1. PICK i \in 1 .. Len(stack) : stack[i].kind = "fn" /\ stack[i].txn = t
      BY <1>1, <2>1, <2>2
    <3>2. i # Len(stack)
      BY <1>0, <2>1, <3>1
    <3>3. QED BY <1>0, <2>1, <3>1, <3>2
  <2>3. QED BY SMTT(30), <1>0, <1>1, <1>2, <2>1, <2>2
<1>11. QED BY <1>3, <1>4, <1>5, <1>6, <1>7, <1>8, <1>9, <1>10, Moves

LEMMA AbortStep == ASSUME Inv, Next PROVE AbortInv'
<1>1. CASE Raises
  BY <1>1 DEF Raises, AbortInv, Top
<1>2. CASE Registers \/ Dies
  BY <1>2 DEF Inv, Registers, Dies, AbortInv, Top
<1>3. CASE unwinding' # "abort"
  BY <1>3 DEF AbortInv
<1>4. QED BY <1>1, <1>2, <1>3, Moves DEF Opens, Enters, EndsWithHooks, EndsUnknown, Starts, Leaves, LeavesHooks

LEMMA HookTypes ==
    ASSUME TypeInv, NEW t \in Txns
    PROVE  /\ HooksOf(t) \in Seq(Nat) /\ Len(HooksOf(t)) \in Nat
           /\ \A i \in 1 .. Len(HooksOf(t)) : HooksOf(t)[i] \in Nat
           /\ ran[t] \in Seq(Nat) /\ Len(ran[t]) \in Nat
           /\ txns[t].ended \in Nat /\ tasks \in Nat
<1>1. /\ txns[t].afterCommit \in Seq(Nat) /\ txns[t].afterRollback \in Seq(Nat)
      /\ ran[t] \in Seq(Nat) /\ txns[t].ended \in Nat /\ tasks \in Nat
  BY TxnTypes DEF Records, TypeInv
<1>2. HooksOf(t) \in Seq(Nat)
  BY <1>1, EmptySeq DEF HooksOf
<1>3. QED BY <1>1, <1>2, LenProperties, ElementOfSeq

LEMMA HooksFollowTheRecord ==
    ASSUME NEW t, txns'[t] = txns[t]
    PROVE  HooksOf(t)' = HooksOf(t) /\ \A n : DueAre(t, n) => DueAre(t, n)'
BY DEF HooksOf, DueAre

\* AfterCommit and AfterRollback add a hook at the end, which comes too late for
\* an outcome that is known.
LEMMA LateHooks ==
    ASSUME Inv, Registers, NEW t \in Txns
    PROVE  /\ Len(HooksOf(t)) \in Nat /\ Len(HooksOf(t)') \in {Len(HooksOf(t)), Len(HooksOf(t)) + 1}
           /\ \A i \in 1 .. Len(HooksOf(t)) : HooksOf(t)'[i] = HooksOf(t)[i]
           /\ \A n \in Nat : DueAre(t, n) => DueAre(t, n)'
<1>1. PICK u \in Txns, r \in Records :
          /\ Recorded(u, r) /\ r.status = txns[u].status /\ r.ended = txns[u].ended
          /\ r.afterCommit = txns[u].afterCommit \/ r.afterCommit = Append(txns[u].afterCommit, tasks + 1)
          /\ r.afterRollback = txns[u].afterRollback \/ r.afterRollback = Append(txns[u].afterRollback, tasks + 1)
  BY DEF Registers
<1>2. /\ HooksOf(t)' = HooksOf(t) \/ HooksOf(t)' = Append(HooksOf(t), tasks + 1)
      /\ txns'[t].ended = txns[t].ended
  BY <1>1 DEF Recorded, HooksOf
<1>3. /\ HooksOf(t) \in Seq(Nat) /\ Len(HooksOf(t)) \in Nat /\ tasks + 1 \in Nat
      /\ txns[t].ended \in Nat /\ tasks \in Nat /\ txns[t].ended <= tasks
  BY HookTypes DEF Inv, ListInv
<1>4. /\ HooksOf(t)' # HooksOf(t) =>
            Len(HooksOf(t)') = Len(HooksOf(t)) + 1 /\ HooksOf(t)'[Len(HooksOf(t)) + 1] = tasks + 1
      /\ \A i \in 1 .. Len(HooksOf(t)) : HooksOf(t)'[i] = HooksOf(t)[i]
  BY <1>2, <1>3, AppendProperties
<1>5. ASSUME NEW n \in Nat, DueAre(t, n) PROVE DueAre(t, n)'
  <2>1. n <= Len(HooksOf(t)) /\ \A i \in 1 .. Len(HooksOf(t)) : i <= n <=> HooksOf(t)[i] <= txns[t].ended
    BY <1>5 DEF DueAre
  <2>2. ASSUME NEW i \in 1 .. Len(HooksOf(t)')
        PROVE  i <= n <=> HooksOf(t)'[i] <= txns'[t].ended
    <3>1. CASE i \in 1 .. Len(HooksOf(t))
      BY <1>2, <1>4, <2>1, <3>1
    <3>2. CASE i \notin 1 .. Len(HooksOf(t))
      <4>1. i = Len(HooksOf(t)) + 1 /\ HooksOf(t)'[i] = tasks + 1
        BY <1>3, <1>4, <2>2, <3>2
      <4>2. QED BY <1>2, <1>3, <2>1, <4>1
    <3>3. QED BY <3>1, <3>2
  <2>3. n <= Len(HooksOf(t)')
    BY <1>3, <1>4, <2>1
  <2>4. QED BY <2>2, <2>3 DEF DueAre
<1>6. QED BY <1>2, <1>3, <1>4, <1>5

LEMMA ListStep == ASSUME Inv, Next PROVE ListInv'
<1> DEFINE Fits(r, n) ==
        /\ r.ended <= n
        /\ \A i \in 1 .. Len(r.afterCommit) : r.afterCommit[i] <= n
        /\ \A i \in 1 .. Len(r.afterRollback) : r.afterRollback[i] <= n
<1>0. /\ Len(txns) \in Nat /\ tasks \in Nat /\ TypeInv
      /\ \A t \in 1 .. Len(txns) : txns[t] \in Records /\ Fits(txns[t], tasks)
  BY LenProperties, TxnTypes DEF Inv, TypeInv, ListInv, Txns
<1>1. ASSUME \A t \in 1 .. Len(txns') : Fits(txns'[t], tasks') PROVE ListInv'
  BY <1>1 DEF ListInv, Txns
<1>2. CASE Opens
  <2>1. Fits(txns'[Len(txns) + 1], tasks)
    BY <1>0, <1>2, EmptySeq DEF Opens
  <2>2. /\ Len(txns') = Len(txns) + 1 /\ tasks' = tasks
        /\ \A t \in 1 .. Len(txns) : txns'[t] = txns[t]
    BY <1>2 DEF Opens, Txns
  <2> HIDE DEF Fits
  <2>3. QED BY <1>0, <1>1, <2>1, <2>2
<1>3. CASE UNCHANGED <<txns, tasks>>
  BY <1>0, <1>1, <1>3
<1>4. CASE Registers
  <2>1. PICK u \in Txns, r \in Records :
            /\ Recorded(u, r) /\ r.status = txns[u].status /\ r.ended = txns[u].ended
            /\ r.afterCommit = txns[u].afterCommit \/ r.afterCommit = Append(txns[u].afterCommit, tasks + 1)
            /\ r.afterRollback = txns[u].afterRollback \/ r.afterRollback = Append(txns[u].afterRollback, tasks + 1)
    BY <1>4 DEF Registers
  <2>2. \A s \in Seq(Nat) : (\A i \in 1 .. Len(s) : s[i] <= tasks)
            => \A i \in 1 .. Len(Append(s, tasks + 1)) : Append(s, tasks + 1)[i] <= tasks + 1
    <3>1. SUFFICES ASSUME NEW s \in Seq(Nat), \A i \in 1 .. Len(s) : s[i] <= tasks,
                          NEW i \in 1 .. Len(Append(s, tasks + 1))
                   PROVE  Append(s, tasks + 1)[i] <= tasks + 1
      OBVIOUS
    <3>2. /\ Len(s) \in Nat /\ Len(Append(s, tasks + 1)) = Len(s) + 1
          /\ \A j \in 1 .. Len(s) : Append(s, tasks + 1)[j] = s[j] /\ s[j] \in Nat
          /\ Append(s, tasks + 1)[Len(s) + 1] = tasks + 1
      BY <1>0, AppendProperties, LenProperties, ElementOfSeq
    <3>3. CASE i = Len(s) + 1
      BY <1>0, <3>2, <3>3
    <3>4. CASE i # Len(s) + 1
      <4>1. i \in 1 .. Len(s)
        BY <3>2, <3>4
      <4>2. QED BY <1>0, <3>1, <3>2, <4>1
    <3>5. QED BY <3>3, <3>4
  <2>3. \A s \in Seq(Nat) : (\A i \in 1 .. Len(s) : s[i] <= tasks) => \A i \in 1 .. Len(s) : s[i] <= tasks + 1
    BY <1>0, ElementOfSeq
  <2>4. /\ txns[u].afterCommit \in Seq(Nat) /\ txns[u].afterRollback \in Seq(Nat)
        /\ txns[u].ended \in Nat /\ Fits(txns[u], tasks)
    BY <1>0 DEF Txns, Records
  <2>5. Fits(r, tasks + 1)
    <3>1. r.ended <= tasks + 1
      BY <1>0, <2>1, <2>4
    <3>2. \A i \in 1 .. Len(r.afterCommit) : r.afterCommit[i] <= tasks + 1
      BY <2>1, <2>2, <2>3, <2>4
    <3>3. \A i \in 1 .. Len(r.afterRollback) : r.afterRollback[i] <= tasks + 1
      BY <2>1, <2>2, <2>3, <2>4
    <3>4. QED BY <3>1, <3>2, <3>3
  <2>6. ASSUME NEW t \in 1 .. Len(txns) PROVE Fits(txns[t], tasks + 1)
    <3>1. /\ txns[t].afterCommit \in Seq(Nat) /\ txns[t].afterRollback \in Seq(Nat)
          /\ txns[t].ended \in Nat /\ Fits(txns[t], tasks)
      BY <1>0 DEF Records
    <3>2. txns[t].ended <= tasks + 1
      BY <1>0, <3>1
    <3>3. \A i \in 1 .. Len(txns[t].afterCommit) : txns[t].afterCommit[i] <= tasks + 1
      BY <2>3, <3>1
    <3>4. \A i \in 1 .. Len(txns[t].afterRollback) : txns[t].afterRollback[i] <= tasks + 1
      BY <2>3, <3>1
    <3>5. QED BY <3>2, <3>3, <3>4
  <2>7. tasks' = tasks + 1 /\ Len(txns') = Len(txns) /\ \A t \in 1 .. Len(txns) : txns'[t] = IF t = u THEN r ELSE txns[t]
    BY <1>4, <2>1 DEF Registers, Recorded, Txns
  <2> HIDE DEF Fits
  <2>8. QED BY <1>1, <2>5, <2>6, <2>7
<1>5. CASE EndsWithHooks \/ EndsUnknown
  <2>1. PICK r \in Records :
            /\ Recorded(Top.txn, r) /\ r.ended = tasks
            /\ r.afterCommit = txns[Top.txn].afterCommit /\ r.afterRollback = txns[Top.txn].afterRollback
    BY <1>5 DEF EndsWithHooks, EndsUnknown
  <2>2. Fits(r, tasks)
    BY <1>0, <2>1 DEF Recorded, Txns
  <2>3. tasks' = tasks /\ Len(txns') = Len(txns) /\ \A t \in 1 .. Len(txns) : txns'[t] = IF t = Top.txn THEN r ELSE txns[t]
    BY <1>5, <2>1 DEF EndsWithHooks, EndsUnknown, Recorded, Txns
  <2> HIDE DEF Fits
  <2>4. QED BY <1>0, <1>1, <2>2, <2>3
<1>6. QED BY <1>2, <1>3, <1>4, <1>5, Moves DEF Enters, Raises, Starts, Leaves, LeavesHooks, Dies

\* The transaction at the top has no other boundary, and its hooks are due there.
LEMMA TopOwns ==
    ASSUME Inv
    PROVE  /\ Len(stack) \in Nat \ {0}
           /\ Top.kind \in {"fn", "hooks"} =>
                 \A j \in 1 .. Len(stack) - 1 : stack[j].kind = "hooks" => stack[j].txn # Top.txn
           /\ Top.kind = "fn" => Top.txn \in Txns /\ txns[Top.txn].status = "live"
           /\ Top.kind = "hooks" =>
                 Top.txn \in Txns /\ DueIn(Top, Top.txn)
<1>1. Len(stack) \in Nat \ {0} /\ Len(stack) \in 1 .. Len(stack) /\ Top = stack[Len(stack)]
  BY StackOps DEF Inv, Top
<1>2. /\ Top.kind \in {"fn", "hooks"} =>
            \A j \in 1 .. Len(stack) - 1 : stack[j].kind = "hooks" => stack[j].txn # Top.txn
      /\ Top.kind = "fn" => txns[Top.txn].status = "live"
  BY <1>1 DEF Inv, OwnerInv
<1>3. Top.kind = "fn" \/ Top.kind = "hooks" => Top.txn \in Txns
  BY TopFrame DEF Inv
<1>4. Top.kind = "hooks" => DueIn(Top, Top.txn)
  BY <1>1 DEF Inv, DueInv
<1>5. QED BY <1>1, <1>2, <1>3, <1>4

\* As long as a transaction goes on, none of its hooks has run.
LEMMA LiveRunsNone ==
    ASSUME Inv, NEW t \in Txns, txns[t].status = "live"
    PROVE  Len(ran[t]) = 0
<1>1. HooksOf(t) = <<>> /\ Len(ran[t]) <= Len(HooksOf(t)) /\ Len(ran[t]) \in Nat
  BY HookTypes DEF HooksOf, Inv, RanInv
<1>2. QED BY <1>1, EmptySeq

\* n hooks ran and k are due, of m.
LEMMA Counting ==
    ASSUME NEW n \in Nat, NEW k \in Nat, NEW m \in Nat
    PROVE  /\ n + k \in Nat
           /\ n + k <= m => \A i \in 1 .. k : n + i \in 1 .. m
           /\ n + k <= m /\ k >= 1 => n + 1 <= m
OBVIOUS

LEMMA RanStep == ASSUME Inv, Next PROVE RanInv'
<1> DEFINE Prefix(s, h) == Len(s) <= Len(h) /\ \A i \in 1 .. Len(s) : s[i] = h[i]
<1>0. /\ Len(txns) \in Nat /\ TypeInv
      /\ \A t \in Txns : Prefix(ran[t], HooksOf(t))
  BY LenProperties DEF Inv, TypeInv, RanInv
<1>1. ASSUME \A t \in Txns' : Prefix(ran'[t], HooksOf(t)') PROVE RanInv'
  BY <1>1 DEF RanInv
<1>2. CASE Opens
  <2>1. Txns' = Txns \cup {Len(txns) + 1}
    BY <1>0, <1>2 DEF Opens, Txns
  <2>2. ASSUME NEW t \in Txns PROVE Prefix(ran'[t], HooksOf(t)')
    BY SMTT(30), <1>0, <1>2, <2>2, HooksFollowTheRecord DEF Opens
  <2>3. ASSUME NEW t, t = Len(txns) + 1 PROVE Prefix(ran'[t], HooksOf(t)')
    BY <1>2, <2>3, EmptySeq DEF Opens, HooksOf
  <2> HIDE DEF Prefix
  <2>4. QED BY <1>1, <2>1, <2>2, <2>3
<1>3. CASE UNCHANGED <<txns, ran>>
  BY <1>0, <1>1, <1>3, HooksFollowTheRecord DEF Txns
<1>4. CASE Registers
  <2>1. Txns' = Txns /\ ran' = ran
    BY <1>4 DEF Registers, Recorded, Txns
  <2>2. ASSUME NEW t \in Txns PROVE Prefix(ran'[t], HooksOf(t)')
    BY <1>0, <1>4, <2>1, HookTypes, LateHooks
  <2>3. QED BY <1>1, <2>1, <2>2
<1>5. CASE EndsWithHooks \/ EndsUnknown
  <2>1. /\ Txns' = Txns /\ ran' = ran /\ Top.txn \in Txns /\ txns[Top.txn].status = "live"
        /\ \A t \in Txns : t # Top.txn => txns'[t] = txns[t]
        /\ txns'[Top.txn] \in Records
    BY <1>5, TopOwns DEF EndsWithHooks, EndsUnknown, Recorded, Txns
  <2>2. ASSUME NEW t \in Txns, t # Top.txn PROVE Prefix(ran'[t], HooksOf(t)')
    BY <1>0, <2>1, <2>2, HooksFollowTheRecord
  <2>3. ASSUME NEW t \in Txns, t = Top.txn PROVE Prefix(ran'[t], HooksOf(t)')
    <3>1. HooksOf(t)' \in Seq(Nat)
      BY <2>1, <2>3, EmptySeq DEF HooksOf, Records
    <3>2. Len(HooksOf(t)') \in Nat
      BY <3>1, LenProperties
    <3>3. Len(ran'[t]) = 0
      BY <2>1, <2>3, LiveRunsNone
    <3>4. QED BY <3>2, <3>3
  <2>4. QED BY <1>1, <2>1, <2>2, <2>3
<1>6. CASE Starts
  <2>1. /\ txns' = txns /\ Txns' = Txns /\ Top.kind = "hooks" /\ Top.due # <<>> /\ Top.due \in Seq(Nat)
        /\ \A t \in Txns : ran'[t] = IF t = Top.txn THEN Append(ran[t], Head(Top.due)) ELSE ran[t]
    BY <1>6, TopFrame DEF Starts, Inv, Txns
  <2>2. ASSUME NEW t \in Txns, t # Top.txn PROVE Prefix(ran'[t], HooksOf(t)')
    BY <1>0, <2>1, <2>2, HooksFollowTheRecord
  <2>3. ASSUME NEW t \in Txns, t = Top.txn PROVE Prefix(ran'[t], HooksOf(t)')
    <3>1. /\ ran[t] \in Seq(Nat) /\ Len(ran[t]) \in Nat /\ Len(HooksOf(t)) \in Nat
          /\ Head(Top.due) = Top.due[1] /\ Head(Top.due) \in Nat
      BY <2>1, HookTypes, HeadTailProperties DEF Inv
    <3>2. Len(Top.due) \in Nat /\ Len(Top.due) >= 1
      BY <2>1, EmptySeq
    <3>3. DueAre(t, Len(ran[t]) + Len(Top.due))
      BY <2>1, <2>3, TopOwns DEF DueIn
    <3>4. \A i \in 1 .. Len(Top.due) : Top.due[i] = HooksOf(t)[Len(ran[t]) + i]
      BY <2>1, <2>3, TopOwns DEF DueIn
    <3>5. Top.due[1] = HooksOf(t)[Len(ran[t]) + 1]
      BY <3>2, <3>4
    <3>6. Len(ran[t]) + Len(Top.due) <= Len(HooksOf(t))
      BY <3>3 DEF DueAre
    <3>7. Len(ran[t]) + 1 <= Len(HooksOf(t))
      BY <3>1, <3>2, <3>6, Counting, Zenon
    <3>8. ran'[t] = Append(ran[t], Head(Top.due))
      BY <2>1, <2>3
    <3>9. /\ Len(ran'[t]) = Len(ran[t]) + 1
          /\ \A i \in 1 .. Len(ran[t]) : ran'[t][i] = ran[t][i]
          /\ ran'[t][Len(ran[t]) + 1] = HooksOf(t)[Len(ran[t]) + 1]
      BY <3>1, <3>5, <3>8, AppendProperties
    <3>10. HooksOf(t)' = HooksOf(t)
      BY <2>1, HooksFollowTheRecord
    <3>11. \A i \in 1 .. Len(ran[t]) : ran[t][i] = HooksOf(t)[i]
      BY <1>0
    <3>12. \A i \in 1 .. Len(ran'[t]) : i \in 1 .. Len(ran[t]) \/ i = Len(ran[t]) + 1
      BY <3>1, <3>9
    <3>13. QED BY <3>7, <3>9, <3>10, <3>11, <3>12
  <2>4. QED BY <1>1, <2>1, <2>2, <2>3
<1>7. QED BY <1>2, <1>3, <1>4, <1>5, <1>6, Moves DEF Enters, Raises, Leaves, LeavesHooks, Dies

LEMMA DueStep == ASSUME Inv, Next PROVE DueInv'
<1>0. /\ Len(stack) \in Nat \ {0} /\ TypeInv /\ FrameInv
      /\ \A j \in 1 .. Len(stack) : stack[j].kind = "hooks" =>
            stack[j].txn \in Txns /\ stack[j].due \in Seq(Nat) /\ DueIn(stack[j], stack[j].txn)
  BY StackOps DEF Inv, DueInv, FrameInv, GoodFrame, Txns, Frames
<1>1. ASSUME \A j \in 1 .. Len(stack') : stack'[j].kind = "hooks" => \E f, t : f = stack'[j] /\ t = f.txn /\ DueIn(f, t)'
      PROVE  DueInv'
  BY <1>1 DEF DueInv
<1>2. ASSUME NEW j \in 1 .. Len(stack), stack'[j] = stack[j], stack[j].kind = "hooks",
             txns'[stack[j].txn] = txns[stack[j].txn], ran'[stack[j].txn] = ran[stack[j].txn]
      PROVE  \E f, t : f = stack'[j] /\ t = f.txn /\ DueIn(f, t)'
  <2>1. PICK f, t : f = stack[j] /\ t = f.txn
    OBVIOUS
  <2>2. DueIn(f, t) /\ txns'[t] = txns[t] /\ ran'[t] = ran[t]
    BY <1>0, <1>2, <2>1
  <2>3. DueIn(f, t)'
    BY <2>2, HooksFollowTheRecord DEF DueIn
  <2>4. QED BY <1>2, <2>1, <2>3
<1>3. CASE Opens
  <2>1. PICK f \in Frames : Pushed(f) /\ f.kind = "fn"
    BY <1>3 DEF Opens
  <2>2. /\ Len(stack') = Len(stack) + 1 /\ stack'[Len(stack) + 1] = f
        /\ \A i \in 1 .. Len(stack) : stack'[i] = stack[i]
    BY <2>1 DEF Pushed
  <2>3. \A t \in Txns : txns'[t] = txns[t] /\ ran'[t] = ran[t]
    BY <1>3 DEF Opens
  <2>4. \A j \in 1 .. Len(stack') : stack'[j].kind = "hooks" => j \in 1 .. Len(stack)
    BY <1>0, <2>1, <2>2
  <2>5. QED BY <1>0, <1>1, <1>2, <2>2, <2>3, <2>4
<1>4. CASE Enters \/ Leaves \/ LeavesHooks
  <2>1. txns' = txns /\ ran' = ran
    BY <1>4 DEF Enters, Leaves, LeavesHooks
  <2>2. \A j \in 1 .. Len(stack') : stack'[j].kind = "hooks" => j \in 1 .. Len(stack) /\ stack'[j] = stack[j]
    <3>1. CASE Enters
      <4>1. PICK f \in Frames : Pushed(f) /\ f.kind = "query"
        BY <3>1 DEF Enters
      <4>2. QED BY <1>0, <4>1 DEF Pushed
    <3>2. CASE Leaves \/ LeavesHooks
      BY <1>0, <3>2 DEF Leaves, LeavesHooks, Popped
    <3>3. QED BY <1>4, <3>1, <3>2
  <2>3. QED BY <1>0, <1>1, <1>2, <2>1, <2>2
<1>5. CASE Raises \/ Dies
  BY <1>0, <1>1, <1>2, <1>5 DEF Raises, Dies
<1>6. CASE Registers
  <2>1. stack' = stack /\ ran' = ran
    BY <1>6 DEF Registers
  <2>2. ASSUME NEW j \in 1 .. Len(stack), stack[j].kind = "hooks"
        PROVE  \E f, t : f = stack[j] /\ t = f.txn /\ DueIn(f, t)'
    <3>1. PICK f, t : f = stack[j] /\ t = f.txn
      OBVIOUS
    <3>2. t \in Txns /\ f.due \in Seq(Nat) /\ DueIn(f, t)
      BY <1>0, <2>2, <3>1
    <3>3. /\ Len(ran[t]) + Len(f.due) \in Nat /\ Len(ran[t]) \in Nat /\ Len(f.due) \in Nat
          /\ Len(HooksOf(t)) \in Nat
      <4>1. Len(ran[t]) \in Nat /\ Len(HooksOf(t)) \in Nat
        BY <1>0, <3>2, HookTypes
      <4>2. Len(f.due) \in Nat
        BY <3>2, LenProperties
      <4>3. QED BY <4>1, <4>2, Counting, Zenon
    <3>4. DueAre(t, Len(ran[t]) + Len(f.due))'
      BY <1>6, <2>1, <3>2, <3>3, LateHooks DEF DueIn
    <3>5. \A i \in 1 .. Len(f.due) : Len(ran[t]) + i \in 1 .. Len(HooksOf(t))
      <4>1. Len(ran[t]) + Len(f.due) <= Len(HooksOf(t))
        BY <3>2 DEF DueIn, DueAre
      <4>2. QED BY <3>3, <4>1, Counting, Zenon
    <3>6. \A i \in 1 .. Len(f.due) : f.due[i] = HooksOf(t)'[Len(ran'[t]) + i]
      BY <1>6, <2>1, <3>2, <3>5, LateHooks DEF DueIn
    <3>7. DueIn(f, t)'
      BY <3>4, <3>6 DEF DueIn
    <3>8. QED BY <3>1, <3>7
  <2>3. QED BY <1>1, <2>1, <2>2
<1>7. CASE EndsWithHooks
  <2>1. PICK r \in Records, f \in Frames :
            /\ Recorded(Top.txn, r) /\ r.status \in {"committed", "rolledBack"} /\ r.ended = tasks
            /\ r.afterCommit = txns[Top.txn].afterCommit /\ r.afterRollback = txns[Top.txn].afterRollback
            /\ Replaced(f) /\ f.kind = "hooks" /\ f.txn = Top.txn
            /\ f.due = IF r.status = "committed" THEN r.afterCommit ELSE r.afterRollback
    BY <1>7 DEF EndsWithHooks
  <2>2. PICK t \in Txns : t = Top.txn
    BY <2>1 DEF Recorded
  <2>3. ran' = ran /\ tasks' = tasks /\ txns'[t] = r /\ \A u \in Txns : u # t => txns'[u] = txns[u]
    BY <1>7, <2>1, <2>2 DEF EndsWithHooks, Recorded
  <2>4. HooksOf(t)' = f.due
    BY <2>1, <2>3 DEF HooksOf
  <2>5. Len(ran[t]) = 0 /\ Top.kind = "fn"
    BY <1>7, <2>2, TopOwns, LiveRunsNone DEF EndsWithHooks
  <2>6. f.due \in Seq(Nat) /\ Len(f.due) \in Nat /\ \A i \in 1 .. Len(f.due) : f.due[i] <= tasks
    BY <2>1, <2>2, LenProperties DEF Records, Inv, ListInv
  <2>7. DueIn(f, t)'
    BY <2>1, <2>3, <2>4, <2>5, <2>6 DEF DueIn, DueAre
  <2>8. \E g, u : g = stack'[Len(stack)] /\ u = g.txn /\ DueIn(g, u)'
    BY <2>1, <2>2, <2>7 DEF Replaced
  <2>9. ASSUME NEW j \in 1 .. Len(stack) - 1, stack'[j].kind = "hooks"
        PROVE  \E g, u : g = stack'[j] /\ u = g.txn /\ DueIn(g, u)'
    <3>1. stack'[j] = stack[j] /\ j \in 1 .. Len(stack)
      BY <1>0, <2>1 DEF Replaced
    <3>2. stack[j].txn # t /\ stack[j].txn \in Txns
      BY <1>0, <2>2, <2>5, <2>9, <3>1, TopOwns
    <3>3. QED BY <1>2, <2>3, <2>9, <3>1, <3>2
  <2>10. \A j \in 1 .. Len(stack') : j = Len(stack) \/ j \in 1 .. Len(stack) - 1
    BY <1>0, <2>1 DEF Replaced
  <2>11. QED BY <1>1, <2>8, <2>9, <2>10
<1>8. CASE EndsUnknown
  <2>1. /\ Top.kind = "fn" /\ ran' = ran /\ \A u \in Txns : u # Top.txn => txns'[u] = txns[u]
        /\ Len(stack') = Len(stack) - 1 /\ \A i \in 1 .. Len(stack) - 1 : stack'[i] = stack[i]
    BY <1>8 DEF EndsUnknown, Recorded, Popped
  <2>2. ASSUME NEW j \in 1 .. Len(stack'), stack'[j].kind = "hooks"
        PROVE  \E g, u : g = stack'[j] /\ u = g.txn /\ DueIn(g, u)'
    <3>1. stack'[j] = stack[j] /\ j \in 1 .. Len(stack) /\ j \in 1 .. Len(stack) - 1
      BY <1>0, <2>1
    <3>2. stack[j].txn # Top.txn /\ stack[j].txn \in Txns
      BY <1>0, <2>1, <2>2, <3>1, TopOwns
    <3>3. QED BY <1>2, <2>1, <2>2, <3>1, <3>2
  <2>3. QED BY <1>1, <2>2
<1>9. CASE Starts
  <2>1. PICK f \in Frames, g \in Frames :
            Started(f, g) /\ f.kind = "hooks" /\ f.txn = Top.txn /\ f.due = Tail(Top.due) /\ g.kind = "hook"
    BY <1>9 DEF Starts
  <2>2. Top.kind = "hooks" /\ Top.due # <<>> /\ Top.due \in Seq(Nat)
    BY <1>0, <1>9, TopFrame DEF Starts
  <2>3. PICK t \in Txns : t = Top.txn
    BY <2>2, TopOwns
  <2>4. /\ txns' = txns /\ ran'[t] = Append(ran[t], Head(Top.due))
        /\ \A u \in Txns : u # t => ran'[u] = ran[u]
    BY <1>9, <2>3 DEF Starts
  <2>5. Len(Top.due) \in Nat /\ Len(f.due) = Len(Top.due) - 1 /\ Len(f.due) \in Nat /\ Head(Top.due) \in Nat
    <3>1. Len(Top.due) \in Nat /\ Tail(Top.due) \in Seq(Nat) /\ Len(Tail(Top.due)) = Len(Top.due) - 1
      BY <2>2, EmptySeq, HeadTailProperties
    <3>2. Len(Tail(Top.due)) \in Nat
      BY <3>1, LenProperties
    <3>3. QED BY <2>1, <2>2, <3>1, <3>2, HeadTailProperties
  <2>6. \A i \in 1 .. Len(f.due) : f.due[i] = Top.due[i + 1]
    BY <2>1, <2>2, HeadTailProperties
  <2>7. Len(ran[t]) \in Nat /\ Len(ran'[t]) = Len(ran[t]) + 1
    BY <1>0, <2>4, <2>5, HookTypes, AppendProperties
  <2>8. DueAre(t, Len(ran[t]) + Len(Top.due))
    BY <2>2, <2>3, TopOwns DEF DueIn
  <2>9. \A i \in 1 .. Len(Top.due) : Top.due[i] = HooksOf(t)[Len(ran[t]) + i]
    BY <2>2, <2>3, TopOwns DEF DueIn
  <2>10. /\ Len(ran'[t]) + Len(f.due) = Len(ran[t]) + Len(Top.due)
         /\ \A i \in 1 .. Len(f.due) : i + 1 \in 1 .. Len(Top.due) /\ Len(ran[t]) + (i + 1) = Len(ran'[t]) + i
    <3>1. Len(ran[t]) \in Nat /\ Len(Top.due) \in Nat
      BY <2>5, <2>7, Zenon
    <3>2. Len(ran'[t]) = Len(ran[t]) + 1 /\ Len(f.due) = Len(Top.due) - 1
      BY <2>5, <2>7, Zenon
    <3>3. PICK n \in Nat, k \in Nat : n = Len(ran[t]) /\ k = Len(Top.due)
      BY <3>1, Zenon
    <3>4. PICK n1, k1 : n1 = Len(ran'[t]) /\ k1 = Len(f.due)
      BY Zenon
    <3>5. n1 = n + 1 /\ k1 = k - 1
      BY <3>2, <3>3, <3>4, Zenon
    <3>6. n1 + k1 = n + k /\ \A i \in 1 .. k1 : i + 1 \in 1 .. k /\ n + (i + 1) = n1 + i
      BY <3>5
    <3>7. QED BY <3>3, <3>4, <3>6, Zenon
  <2>11. DueIn(f, t)'
    <3>1. HooksOf(t)' = HooksOf(t)
      BY <2>4, HooksFollowTheRecord
    <3>2. DueAre(t, Len(ran[t]) + Len(f.due))'
      BY <2>4, <2>8, <2>10, <3>1 DEF DueAre
    <3>3. \A i \in 1 .. Len(f.due) : f.due[i] = HooksOf(t)'[Len(ran'[t]) + i]
      BY <2>6, <2>9, <2>10, <3>1
    <3>4. QED BY <3>2, <3>3 DEF DueIn
  <2>12. /\ Len(stack') = Len(stack) + 1 /\ stack'[Len(stack)] = f /\ stack'[Len(stack) + 1] = g
         /\ \A i \in 1 .. Len(stack) - 1 : stack'[i] = stack[i]
    BY <2>1 DEF Started
  <2>13. ASSUME NEW j \in 1 .. Len(stack) - 1, stack'[j].kind = "hooks"
         PROVE  \E h, u : h = stack'[j] /\ u = h.txn /\ DueIn(h, u)'
    <3>1. stack'[j] = stack[j] /\ j \in 1 .. Len(stack)
      BY <1>0, <2>12
    <3>2. stack[j].txn # t /\ stack[j].txn \in Txns
      BY <1>0, <2>2, <2>3, <2>13, <3>1, TopOwns
    <3>3. QED BY <1>2, <2>4, <2>13, <3>1, <3>2
  <2>14. \A j \in 1 .. Len(stack') : stack'[j].kind = "hooks" => j = Len(stack) \/ j \in 1 .. Len(stack) - 1
    BY <1>0, <2>1, <2>12
  <2>15. \E h, u : h = stack'[Len(stack)] /\ u = h.txn /\ DueIn(h, u)'
    BY <2>1, <2>3, <2>11, <2>12
  <2>16. QED BY <1>1, <2>13, <2>14, <2>15
<1>10. QED BY <1>3, <1>4, <1>5, <1>6, <1>7, <1>8, <1>9, Moves

LEMMA DoneStep == ASSUME Inv, Next PROVE DoneInv'
<1> DEFINE HasHooks(t) == \E j \in 1 .. Len(stack) : stack[j].kind = "hooks" /\ stack[j].txn = t
<1> DEFINE Done(t) == txns[t].status = "live" \/ t \in cut \/ HasHooks(t) \/ DueAre(t, Len(ran[t]))
<1>0. /\ Len(stack) \in Nat \ {0} /\ Len(txns) \in Nat /\ TypeInv /\ FrameInv
      /\ Top = stack[Len(stack)]
      /\ \A t \in Txns : Done(t)
  BY StackOps, LenProperties DEF Inv, TypeInv, DoneInv, Top
<1>1. ASSUME \A t \in Txns' : Done(t)' PROVE DoneInv'
  BY <1>1 DEF DoneInv
<1>2. ASSUME NEW t \in Txns, txns'[t] = txns[t], ran'[t] = ran[t], cut \subseteq cut', HasHooks(t) => HasHooks(t)'
      PROVE  Done(t)'
  BY <1>0, <1>2, HooksFollowTheRecord
<1>3. CASE Opens
  <2>1. Txns' = Txns \cup {Len(txns) + 1} /\ cut' = cut
    BY SMTT(30), <1>0, <1>3 DEF Opens, Txns
  <2>2. \A j \in 1 .. Len(stack) : j \in 1 .. Len(stack') /\ stack'[j] = stack[j]
    BY <1>0, <1>3 DEF Opens, Pushed
  <2>3. ASSUME NEW t \in Txns PROVE Done(t)'
    BY <1>2, <1>3, <2>1, <2>2 DEF Opens
  <2>4. ASSUME NEW t, t = Len(txns) + 1 PROVE Done(t)'
    BY <1>3, <2>4 DEF Opens
  <2> HIDE DEF Done
  <2>5. QED BY <1>1, <2>1, <2>3, <2>4
<1>4. CASE Enters
  <2>1. Txns' = Txns /\ txns' = txns /\ ran' = ran /\ cut' = cut
    BY <1>4 DEF Enters, Txns
  <2>2. \A j \in 1 .. Len(stack) : j \in 1 .. Len(stack') /\ stack'[j] = stack[j]
    BY <1>0, <1>4 DEF Enters, Pushed
  <2>3. QED BY <1>1, <1>2, <2>1, <2>2
<1>5. CASE Raises \/ Dies
  <2>1. UNCHANGED <<stack, txns, ran, cut>> /\ Txns' = Txns
    BY <1>5 DEF Raises, Dies, Txns
  <2>2. QED BY <1>1, <1>2, <2>1
<1>6. CASE Registers
  <2>1. UNCHANGED <<stack, ran, cut>> /\ Txns' = Txns
    BY <1>6 DEF Registers, Recorded, Txns
  <2>2. \A t \in Txns : txns'[t].status = txns[t].status
    BY <1>6 DEF Registers, Recorded
  <2>3. ASSUME NEW t \in Txns PROVE Done(t)'
    <3>1. Len(ran[t]) \in Nat
      BY <1>0, HookTypes
    <3>2. DueAre(t, Len(ran[t])) => DueAre(t, Len(ran[t]))'
      <4>1. \A n \in Nat : DueAre(t, n) => DueAre(t, n)'
        BY <1>6, LateHooks
      <4>2. PICK n \in Nat : n = Len(ran[t])
        BY <3>1
      <4>3. QED BY <2>1, <4>1, <4>2
    <3>3. Done(t)
      BY <1>0
    <3>4. QED BY <2>1, <2>2, <3>2, <3>3
  <2>4. QED BY <1>1, <2>1, <2>3
<1>7. CASE EndsWithHooks
  <2>1. PICK r \in Records, f \in Frames :
            Recorded(Top.txn, r) /\ Replaced(f) /\ f.kind = "hooks" /\ f.txn = Top.txn
    BY <1>7 DEF EndsWithHooks
  <2>2. /\ ran' = ran /\ cut' = cut /\ Txns' = Txns /\ Top.kind = "fn"
        /\ \A t \in Txns : t # Top.txn => txns'[t] = txns[t]
    BY <1>7, <2>1 DEF EndsWithHooks, Recorded, Txns
  <2>3. /\ Len(stack) \in 1 .. Len(stack') /\ stack'[Len(stack)] = f
        /\ \A j \in 1 .. Len(stack) : j # Len(stack) => j \in 1 .. Len(stack') /\ stack'[j] = stack[j]
    BY <1>0, <2>1 DEF Replaced
  <2>4. ASSUME NEW t \in Txns, t = Top.txn PROVE Done(t)'
    BY <2>1, <2>3, <2>4
  <2>5. ASSUME NEW t \in Txns, t # Top.txn PROVE Done(t)'
    <3>1. HasHooks(t) => HasHooks(t)'
      BY <1>0, <2>2, <2>3
    <3>2. QED BY <1>2, <2>2, <2>5, <3>1
  <2> HIDE DEF Done
  <2>6. QED BY <1>1, <2>2, <2>4, <2>5
<1>8. CASE EndsUnknown
  <2>1. PICK r \in Records : Recorded(Top.txn, r) /\ r.status = "unknown"
    BY <1>8 DEF EndsUnknown
  <2>2. /\ ran' = ran /\ cut' = cut /\ Txns' = Txns /\ Top.kind = "fn"
        /\ \A t \in Txns : txns'[t] = IF t = Top.txn THEN r ELSE txns[t]
    BY <1>8, <2>1 DEF EndsUnknown, Recorded, Txns
  <2>3. \A j \in 1 .. Len(stack) : j # Len(stack) => j \in 1 .. Len(stack') /\ stack'[j] = stack[j]
    BY <1>0, <1>8 DEF EndsUnknown, Popped
  <2>4. ASSUME NEW t \in Txns, t = Top.txn PROVE Done(t)'
    <3>1. Len(ran[t]) = 0
      BY <2>2, <2>4, TopOwns, LiveRunsNone
    <3>2. HooksOf(t)' = <<>>
      BY <2>1, <2>2, <2>4 DEF HooksOf
    <3>3. DueAre(t, 0)'
      BY <3>2, EmptySeq DEF DueAre
    <3>4. DueAre(t, Len(ran[t]))'
      BY <2>2, <3>1, <3>3 DEF DueAre
    <3>5. QED BY <3>4
  <2>5. ASSUME NEW t \in Txns, t # Top.txn PROVE Done(t)'
    <3>1. HasHooks(t) => HasHooks(t)'
      BY <1>0, <2>2, <2>3
    <3>2. QED BY <1>2, <2>2, <2>5, <3>1
  <2> HIDE DEF Done
  <2>6. QED BY <1>1, <2>2, <2>4, <2>5
<1>9. CASE Starts
  <2>1. PICK f \in Frames, g \in Frames : Started(f, g) /\ f.kind = "hooks" /\ f.txn = Top.txn
    BY <1>9 DEF Starts
  <2>2. /\ txns' = txns /\ cut' = cut /\ Txns' = Txns /\ Top.kind = "hooks"
        /\ \A t \in Txns : t # Top.txn => ran'[t] = ran[t]
    BY <1>9 DEF Starts, Txns
  <2>3. /\ Len(stack) \in 1 .. Len(stack') /\ stack'[Len(stack)] = f
        /\ \A j \in 1 .. Len(stack) : j # Len(stack) => j \in 1 .. Len(stack') /\ stack'[j] = stack[j]
    BY <1>0, <2>1 DEF Started
  <2>4. ASSUME NEW t \in Txns, t = Top.txn PROVE Done(t)'
    BY <2>1, <2>3, <2>4
  <2>5. ASSUME NEW t \in Txns, t # Top.txn PROVE Done(t)'
    <3>1. HasHooks(t) => HasHooks(t)'
      BY <1>0, <2>3, <2>5
    <3>2. QED BY <1>2, <2>2, <2>5, <3>1
  <2> HIDE DEF Done
  <2>6. QED BY <1>1, <2>2, <2>4, <2>5
<1>10. CASE Leaves
  <2>1. UNCHANGED <<txns, ran, cut>> /\ Txns' = Txns /\ Top.kind # "hooks"
    BY <1>10 DEF Leaves, Txns
  <2>2. \A j \in 1 .. Len(stack) : j # Len(stack) => j \in 1 .. Len(stack') /\ stack'[j] = stack[j]
    BY <1>0, <1>10 DEF Leaves, Popped
  <2>3. ASSUME NEW t \in Txns PROVE HasHooks(t) => HasHooks(t)'
    BY <1>0, <2>1, <2>2
  <2>4. QED BY <1>1, <1>2, <2>1, <2>3
<1>11. CASE LeavesHooks
  <2>1. UNCHANGED <<txns, ran>> /\ Txns' = Txns /\ Top.kind = "hooks" /\ cut \subseteq cut'
    BY <1>11 DEF LeavesHooks, Txns
  <2>2. \A j \in 1 .. Len(stack) : j # Len(stack) => j \in 1 .. Len(stack') /\ stack'[j] = stack[j]
    BY <1>0, <1>11 DEF LeavesHooks, Popped
  <2>3. ASSUME NEW t \in Txns, t = Top.txn PROVE Done(t)'
    <3>1. CASE t \in cut'
      BY <3>1
    <3>2. CASE Top.due = <<>>
      <4>1. Len(ran[t]) \in Nat
        BY <1>0, HookTypes
      <4>2. DueAre(t, Len(ran[t]) + Len(Top.due))
        BY <2>1, <2>3, TopOwns DEF DueIn
      <4>3. Len(ran[t]) + Len(Top.due) = Len(ran[t])
        BY <3>2, <4>1, EmptySeq
      <4>4. DueAre(t, Len(ran[t]))'
        BY <2>1, <4>2, <4>3, HooksFollowTheRecord
      <4>5. QED BY <4>4
    <3>3. QED BY <1>11, <2>3, <3>1, <3>2 DEF LeavesHooks
  <2>4. ASSUME NEW t \in Txns, t # Top.txn PROVE Done(t)'
    <3>1. HasHooks(t) => HasHooks(t)'
      BY <1>0, <2>2, <2>4
    <3>2. QED BY <1>2, <2>1, <2>4, <3>1
  <2> HIDE DEF Done
  <2>5. QED BY <1>1, <2>1, <2>3, <2>4
<1>12. QED BY <1>3, <1>4, <1>5, <1>6, <1>7, <1>8, <1>9, <1>10, <1>11, Moves

-----------------------------------------------------------------------------
(* The properties *)

\* What the code may rely on, whatever it calls and however it leaves.
THEOREM Invariance == Spec => []Inv
<1>1. Init => Inv
  <2> SUFFICES ASSUME Init PROVE Inv
      OBVIOUS
  <2>1. Plain("main", Background) \in Frames /\ Background \in Ctx
    <3>1. Background \in Ctx
      BY BoundAssumption DEF Background, Ctx
    <3>2. QED BY <3>1, PlainType DEF Kinds
  <2>2. /\ Len(stack) = 1 /\ stack \in Seq(Frames) /\ stack # <<>>
        /\ stack[1].kind = "main" /\ stack[1].ctx = Background /\ stack[1].txn = 0
    BY <2>1 DEF Init, Plain, Frame
  <2>3. txns = <<>> /\ Len(txns) = 0 /\ ran = <<>> /\ Txns = {}
    BY EmptySeq DEF Init, Txns
  <2>4. TypeInv
    BY <2>2, <2>3, EmptySeq, BoundAssumption DEF Init, TypeInv
  <2>5. FrameInv
    BY <2>2, <2>3 DEF FrameInv, GoodFrame, Background
  <2>6. KeptInv /\ AbortInv /\ ListInv /\ RanInv /\ DoneInv
    BY <2>3 DEF Init, KeptInv, AbortInv, ListInv, RanInv, DoneInv
  <2>7. OwnerInv /\ DueInv
    BY <2>2, <2>3 DEF OwnerInv, DueInv
  <2>8. QED BY <2>4, <2>5, <2>6, <2>7 DEF Inv
<1>2. Inv /\ [Next]_vars => Inv'
  BY Stuttering, TypeStep, FrameStep, KeptStep, OwnerStep, AbortStep, ListStep, RanStep, DueStep, DoneStep DEF Inv
<1>3. QED BY <1>1, <1>2, PTL DEF Spec

\* A transaction is live exactly as long as its fn runs: it is ended once,
\* whichever way fn is left.
THEOREM EveryTransactionIsEnded == Spec => []LiveTransactionsAreInProgress
<1>1. Inv => LiveTransactionsAreInProgress
  BY DEF Inv, OwnerInv, FrameInv, GoodFrame, LiveTransactionsAreInProgress, FramesOf, Txns
<1>2. QED BY <1>1, Invariance, PTL

\* The context of fn carries the transaction in progress, those of the hooks none.
THEOREM ContextsAreGood == Spec => []GivenContextsAreGood
<1>1. Inv => GivenContextsAreGood
  BY DEF Inv, OwnerInv, FrameInv, GoodFrame, GivenContextsAreGood
<1>2. QED BY <1>1, Invariance, PTL

\* An abort is stopped by the innermost boundary around the statement that has
\* failed; outside of all boundaries the goroutine dies of it.
THEOREM AbortsNeverEscape == Spec => []AbortsAreReturned
<1>1. Inv => AbortsAreReturned
  BY DEF Inv, AbortInv, AbortsAreReturned
<1>2. QED BY <1>1, Invariance, PTL

\* The hooks that run are those of the outcome, in order, once each, and none that
\* was registered in time is left out, unless one called Goexit.
THEOREM HooksRunAsPromised == Spec => []HooksFollowTheOutcome
<1>1. Inv => HooksFollowTheOutcome
  <2> SUFFICES ASSUME Inv, NEW t \in Txns
               PROVE  /\ IsPrefix(ran[t], HooksOf(t))
                      /\ txns[t].status # "live" /\ FramesOf(t, "hooks") = {} /\ t \notin cut
                            => \A i \in 1 .. Len(HooksOf(t)) :
                                  i <= Len(ran[t]) <=> HooksOf(t)[i] <= txns[t].ended
      BY DEF HooksFollowTheOutcome
  <2>1. /\ ran[t] \in Seq(Nat) /\ HooksOf(t) \in Seq(Nat)
        /\ Len(ran[t]) \in Nat /\ Len(HooksOf(t)) \in Nat /\ Len(ran[t]) <= Len(HooksOf(t))
        /\ \A i \in 1 .. Len(ran[t]) : ran[t][i] = HooksOf(t)[i]
    BY HookTypes DEF Inv, RanInv
  <2>2. IsPrefix(ran[t], HooksOf(t))
    BY <2>1 DEF IsPrefix
  <2>3. ASSUME txns[t].status # "live", FramesOf(t, "hooks") = {}, t \notin cut
        PROVE  \A i \in 1 .. Len(HooksOf(t)) : i <= Len(ran[t]) <=> HooksOf(t)[i] <= txns[t].ended
    <3>1. ~ \E j \in 1 .. Len(stack) : stack[j].kind = "hooks" /\ stack[j].txn = t
      BY <2>3 DEF FramesOf
    <3>2. DueAre(t, Len(ran[t]))
      BY <2>3, <3>1 DEF Inv, DoneInv
    <3>3. QED BY <3>2 DEF DueAre
  <2>4. QED BY <2>2, <2>3
<1>2. QED BY <1>1, Invariance, PTL
=============================================================================
