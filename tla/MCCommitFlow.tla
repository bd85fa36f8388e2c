---------------------------- MODULE MCCommitFlow ----------------------------
(* A member that commits any certified chain of a tree of blocks.          *)
EXTENDS CommitFlow

CONSTANTS t1, t2

MCTx == {t1, t2}
MCTxs == [m \in Marks |-> IF m = 1 THEN {t1} ELSE {t1, t2}]
=============================================================================
