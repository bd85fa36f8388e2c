----------------------------- MODULE DecidedLog -----------------------------
(***************************************************************************)
(* What the database of a member promises its readers: decided blocks by   *)
(* number.  A block that was read under a number is read there for ever,   *)
(* and the numbers have no gap.                                            *)
(***************************************************************************)
EXTENDS Sequences

CONSTANT Marks

VARIABLE trunk  \* the marks of the blocks 1, 2, ..., as GetTrunkBlock answers

NothingDecided == trunk = << >>

DecideNext(mark) == trunk' = Append(trunk, mark)

Spec == NothingDecided /\ [][\E mark \in Marks : DecideNext(mark)]_trunk
=============================================================================
