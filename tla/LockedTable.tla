---------------------------- MODULE LockedTable ----------------------------
(***************************************************************************)
(* What a table with lock="uid" promises (docs/design.md 2.8): its history *)
(* is a sequence of transactions, each made under the lock of one uid, and *)
(* each transaction changes rows of that uid only, starting from their     *)
(* current values: an increment is never lost, whichever callers, sessions *)
(* and failures there were.                                                *)
(***************************************************************************)
EXTENDS Integers

CONSTANTS Keys, Rows, MaxVal

VARIABLES
    rows,    \* the committed table
    applied  \* increments made by the transactions so far

Cell == [uid : Keys, val : 0 .. MaxVal]

Init ==
    /\ rows \in [Rows -> [uid : Keys, val : {0}]]
    /\ applied = [r \in Rows |-> 0]

\* A transaction under the lock of k: it may also give rows of k away.
Transaction(k) ==
    /\ rows' \in [Rows -> Cell]
    /\ \A r \in Rows : rows[r].uid # k => rows'[r] = rows[r]
    /\ \A r \in Rows : rows'[r].val >= rows[r].val
    /\ applied' = [r \in Rows |-> applied[r] + (rows'[r].val - rows[r].val)]

Next == \E k \in Keys : Transaction(k)

Spec == Init /\ [][Next]_<<rows, applied>>
============================================================================
