---------------------------- MODULE MCChainStore ----------------------------
(* The chain store under any sequence of AddBlock calls, on a tree of      *)
(* blocks with two siblings at every number.                               *)
EXTENDS ChainFork

CONSTANTS t1, t2

MCTx == {t1, t2}
MCTxs == [m \in Marks |-> IF m = 1 THEN {t1} ELSE {t1, t2}]
=============================================================================
