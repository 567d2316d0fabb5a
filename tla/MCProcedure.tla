---------------------------- MODULE MCProcedure ----------------------------
(***************************************************************************)
(* Instances of Procedure for TLC.                                         *)
(***************************************************************************)
EXTENDS Procedure, TLC

none == [kind |-> "none", key |-> NoKey]
block == [kind : {"block"}, key : Keys]
tryPairs == [kind : {"try"}, key : PairKeys]

LocksBlock == block
LocksVaried == block \cup tryPairs \cup {none}

Symmetry == Permutations(Callers) \cup Permutations(Rows) \cup Permutations(Sessions)
            \cup Permutations(Keys)
============================================================================
