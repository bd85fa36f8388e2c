------------------------------ MODULE MCTxFlow ------------------------------
(***************************************************************************)
(* One transaction and five blocks: enough to commit it, to repeat it and   *)
(* to repeat it again while the repetition is pending.  Two transactions    *)
(* and two blocks: both are over the limit of the pool, or they are within  *)
(* the limit and the pool is no longer small.                               *)
(***************************************************************************)
EXTENDS TxFlow

CONSTANTS a, b

MCTx == {a, b}
MCScopes ==
    {[txs |-> {a}, blocks |-> 5, limit |-> 1, small |-> 2]}
    \cup [txs : {{a, b}}, blocks : {2}, limit : {1, 2}, small : {2}]
=============================================================================
