----------------------------- MODULE MCTimeouts -----------------------------
(***************************************************************************)
(* Instances of Timeouts for TLC: two ticks to a millisecond.              *)
(***************************************************************************)
EXTENDS Timeouts

CONSTANTS Budgets, Servers, Others

ManyConfigs ==
    {[transaction |-> b, server |-> s, statement |-> o[1], idle |-> o[2], lock |-> o[3], commit |-> o[4]] :
        b \in Budgets, s \in Servers, o \in Others}

AroundBudget == {<<0, 0, 0, 1>>, <<3, 3, 1, 0>>}
BudgetValues == {0, 1, 4}
ServerValues == {-1, 0, 1, 4, 5}
CallValues == {-1, 2}
=============================================================================
